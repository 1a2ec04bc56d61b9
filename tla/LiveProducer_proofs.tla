------------------------- MODULE LiveProducer_proofs -------------------------
(***************************************************************************)
(* What the producer reports of what it did not deliver is exact, for any  *)
(* interval, channel, duration, number of sleeps and failures: the gaps    *)
(* in numbers and in time, the marks of a jump and of a peak, that Ok      *)
(* means all of it, and that the deadlines counted are those that were     *)
(* due.                                                                    *)
(***************************************************************************)
EXTENDS LiveProducer, TLAPS

-----------------------------------------------------------------------------
(* The inductive invariant                                                  *)

Qualities == [from : Int, to : Int, scans : Nat, start : Int, end : Int]
RowMessages == [seq : Nat, due : Nat, at : Nat, stamp : Nat, read : {"read", "raced", "unlisted"},
                peakFrom : Int, clockGap : BOOLEAN, gap : Qualities]
EndMessages == [seq : Nat, at : Nat, stamp : Nat, end : {TRUE}, error : BOOLEAN, gap : Qualities]
PendingGaps == [count : Nat, first : Int, last : Int, start : Int, end : Int,
                finalPrior : Int, finalAfter : Int]

Typed ==
    /\ now \in Nat /\ slept \in Nat /\ prevStamp \in Int /\ resetAt \in Nat
    /\ row \in RowMessages \cup {NoRow} /\ final \in RowMessages \cup {NoRow}
    /\ gap \in PendingGaps
    /\ log \in Seq(RowMessages \cup EndMessages)
    /\ encoder \in {"recv", "closing", "gone", "finished"}
    /\ encoded \in BOOLEAN /\ error \in BOOLEAN

\* Number and stamp of the last message sent.
LastSeq == IF log = <<>> THEN -1 ELSE log[Len(log)].seq
LastStamp == IF log = <<>> THEN 0 ELSE log[Len(log)].stamp

\* Something can still be sent: once the receiver is gone, what is pending is lost.
Open ==
    \/ pc \in {"top", "wait", "scan", "send", "trailing"}
    \/ pc \in {"final", "end"} /\ encoder \in {"recv", "closing"}

\* The pending gap holds the numbers since the last message, but for the row in hand.
Pending ==
    /\ nextSeq = LastSeq + 1 + gap.count + (IF pc = "send" THEN 1 ELSE 0)
    /\ gap.count = 0 => gap = NoGap /\ final = NoRow
    /\ gap.count > 0 => /\ gap.first = LastSeq + 1 /\ gap.last = LastSeq + gap.count
                        /\ LastStamp <= gap.start /\ gap.start <= gap.end /\ gap.end <= Stamp
    /\ LastStamp <= Stamp /\ resetAt <= Stamp

\* A row that follows the last message says of the time between what there is to say.
Marked(r) ==
    log # <<>> /\ r.seq = LastSeq + 1 =>
        /\ r.stamp - LastStamp > 2 * Interval => r.clockGap
        /\ r.read = "read" => r.peakFrom <= LastStamp

\* The row in hand comes after the gap.
RowInHand ==
    IF pc = "send"
    THEN /\ row # NoRow /\ row.seq = nextSeq - 1 /\ Marked(row)
         /\ LastStamp <= row.stamp /\ row.stamp <= Stamp
         /\ gap.count > 0 => gap.end <= row.stamp
         /\ prevStamp = row.stamp /\ resetAt <= row.stamp
    ELSE log # <<>> /\ gap.count = 0 /\ pc \in {"top", "wait", "scan"} =>
            prevStamp = LastStamp /\ resetAt <= LastStamp

\* The last row that was dropped divides the gap in two.
FinalDivides ==
    final # NoRow =>
        /\ pc # "end" /\ Marked(final)
        /\ gap.first <= final.seq /\ final.seq <= gap.last
        /\ LastStamp <= final.stamp /\ final.stamp <= gap.end
        /\ gap.first < final.seq => gap.start <= gap.finalPrior /\ gap.finalPrior <= final.stamp
        /\ IF gap.last = final.seq THEN gap.finalAfter = Never
           ELSE final.stamp <= gap.finalAfter /\ gap.finalAfter <= gap.end

\* Only the end of the run sends an End, and the encoder is content only with that.
EndIsLast ==
    /\ \A i \in DOMAIN log : IsEnd(log[i]) => i = Len(log) /\ pc \in {"join", "done"}
    /\ encoded => log # <<>> /\ IsEnd(log[Len(log)]) /\ ~log[Len(log)].error /\ unread = 0
    /\ result = "ok" => encoded

LogTrue == GapsTrue /\ NothingUnmarked

Chain == Open => Pending /\ RowInHand /\ FinalDivides

PInv ==
    /\ TypeOK /\ Typed
    /\ Chain
    /\ EndIsLast /\ LogTrue

-----------------------------------------------------------------------------
(* Messages and the log                                                     *)

\* Number and stamp of the last message are numbers.
LEMMA LastTypes ==
    ASSUME Typed
    PROVE  /\ LastSeq \in Int /\ LastSeq >= -1 /\ LastStamp \in Nat
           /\ Stamp \in Nat
           /\ Len(log) \in Nat /\ DOMAIN log = 1..Len(log) /\ (log = <<>> <=> Len(log) = 0)
<1>1. Len(log) \in Nat /\ DOMAIN log = 1..Len(log) /\ (log = <<>> <=> Len(log) = 0)
  BY DEF Typed
<1>2. ASSUME log # <<>> PROVE log[Len(log)].seq \in Nat /\ log[Len(log)].stamp \in Nat
  <2>1. log[Len(log)] \in RowMessages \cup EndMessages BY <1>1, <1>2 DEF Typed
  <2> QED BY <2>1 DEF RowMessages, EndMessages
<1>3. Stamp \in Nat BY DEF Typed, Stamp
<1> QED BY <1>1, <1>2, <1>3 DEF LastSeq, LastStamp

\* A row remains what it is when its gap is attached.
LEMMA RowWithGap ==
    ASSUME NEW r \in RowMessages, NEW q \in Qualities
    PROVE  LET m == [r EXCEPT !.gap = q] IN
           /\ m \in RowMessages /\ ~IsEnd(m) /\ m.gap = q
           /\ m.seq = r.seq /\ m.stamp = r.stamp /\ m.clockGap = r.clockGap
           /\ m.read = r.read /\ m.peakFrom = r.peakFrom
BY DEF RowMessages, IsEnd

\* What an orderly message after the last one says.
Follows(m) ==
    /\ IF m.gap.scans = 0 THEN m.seq = LastSeq + 1
       ELSE /\ m.gap.from = LastSeq + 1 /\ m.gap.to = m.seq - 1
            /\ m.gap.scans = m.gap.to - m.gap.from + 1
    /\ m.gap.scans > 0 => /\ LastStamp <= m.gap.start /\ m.gap.start <= m.gap.end
                          /\ m.gap.end <= m.stamp
    /\ ~IsEnd(m) /\ log # <<>> /\ m.gap.scans = 0 =>
           /\ m.stamp - LastStamp > 2 * Interval => m.clockGap
           /\ m.read = "read" => m.peakFrom <= LastStamp

\* The log stays true when a message that follows is sent.
LEMMA SendTrue ==
    ASSUME Typed, LogTrue, NEW m \in RowMessages \cup EndMessages, Follows(m), log' = Append(log, m)
    PROVE  /\ LogTrue' /\ LastSeq' = m.seq /\ LastStamp' = m.stamp
           /\ log' \in Seq(RowMessages \cup EndMessages) /\ Len(log') = Len(log) + 1
           /\ log' # <<>> /\ log'[Len(log')] = m
           /\ \A i \in DOMAIN log : log'[i] = log[i]
<1>1. /\ Len(log) \in Nat /\ DOMAIN log = 1..Len(log) /\ (log = <<>> <=> Len(log) = 0)
      /\ LastSeq \in Int /\ LastStamp \in Nat
  BY LastTypes
<1>2. /\ log' \in Seq(RowMessages \cup EndMessages) /\ Len(log') = Len(log) + 1
      /\ DOMAIN log' = 1..(Len(log) + 1)
      /\ log'[Len(log) + 1] = m /\ \A i \in 1..Len(log) : log'[i] = log[i]
  BY <1>1 DEF Typed
<1>3. log' # <<>> BY <1>1, <1>2
<1>4. LastSeq' = m.seq /\ LastStamp' = m.stamp BY <1>2, <1>3 DEF LastSeq, LastStamp
<1>5. \A i \in 1..Len(log) : Before(i)' = Before(i)
  <2> SUFFICES ASSUME NEW i \in 1..Len(log) PROVE Before(i)' = Before(i) OBVIOUS
  <2>1. CASE i = 1 BY <2>1 DEF Before
  <2>2. CASE i # 1
    <3>1. i - 1 \in 1..Len(log) BY <1>1, <2>2
    <3> QED BY <1>2, <2>2, <3>1 DEF Before
  <2> QED BY <2>1, <2>2
<1>len. PICK n \in Nat : n = Len(log) BY <1>1
<1>6. /\ Before(n + 1)'.seq = LastSeq /\ Before(n + 1)'.stamp = LastStamp
  <2>1. CASE log = <<>> BY <1>1, <1>len, <2>1 DEF Before, LastSeq, LastStamp
  <2>2. CASE log # <<>>
    <3>1. n \in 1..Len(log) /\ n + 1 # 1 /\ n + 1 - 1 = n BY <1>1, <1>len, <2>2
    <3>2. Before(n + 1)' = log[n] BY <1>2, <3>1 DEF Before
    <3> QED BY <1>len, <2>2, <3>2 DEF LastSeq, LastStamp
  <2> QED BY <2>1, <2>2
<1>7. GapExact'
  <2> SUFFICES ASSUME NEW i \in DOMAIN log'
               PROVE  LET g == log'[i].gap IN
                      IF g.scans = 0 THEN log'[i].seq = Before(i)'.seq + 1
                      ELSE /\ g.from = Before(i)'.seq + 1 /\ g.to = log'[i].seq - 1
                           /\ g.scans = g.to - g.from + 1
    BY DEF GapExact
  <2>1. CASE i \in 1..Len(log) BY <1>1, <1>2, <1>5, <2>1 DEF LogTrue, GapsTrue, GapExact
  <2>2. CASE i = n + 1 BY <1>2, <1>6, <1>len, <2>2 DEF Follows
  <2> QED BY <1>1, <1>2, <1>len, <2>1, <2>2
<1>8. GapInPlace'
  <2> SUFFICES ASSUME NEW i \in DOMAIN log', log'[i].gap.scans > 0
               PROVE  LET g == log'[i].gap IN
                      /\ Before(i)'.stamp <= g.start /\ g.start <= g.end /\ g.end <= log'[i].stamp
    BY DEF GapInPlace
  <2>1. CASE i \in 1..Len(log) BY <1>1, <1>2, <1>5, <2>1 DEF LogTrue, GapsTrue, GapInPlace
  <2>2. CASE i = n + 1 BY <1>2, <1>6, <1>len, <2>2 DEF Follows
  <2> QED BY <1>1, <1>2, <1>len, <2>1, <2>2
<1>9. JumpMarked' /\ PeakCovers'
  <2> SUFFICES ASSUME NEW i \in DOMAIN log', ~IsEnd(log'[i]), i # 1
               PROVE  /\ log'[i].stamp - Before(i)'.stamp > 2 * Interval =>
                           log'[i].clockGap \/ log'[i].gap.scans > 0
                      /\ log'[i].read = "read" /\ Before(i)'.read # "raced" /\ log'[i].gap.scans = 0 =>
                           log'[i].peakFrom <= Before(i)'.stamp
    BY DEF JumpMarked, PeakCovers, Delivered, IsEnd
  <2>1. CASE i \in 1..Len(log)
    <3>1. log'[i] = log[i] /\ Before(i)' = Before(i) /\ i \in Delivered \ {1}
      BY <1>1, <1>2, <1>5, <2>1 DEF Delivered
    <3> QED BY <3>1 DEF LogTrue, NothingUnmarked, JumpMarked, PeakCovers
  <2>2. CASE i = n + 1
    <3>1. log # <<>> /\ log'[i] = m BY <1>1, <1>2, <1>len, <2>2
    <3>2. m.gap.scans \in Nat BY DEF RowMessages, EndMessages, Qualities
    <3> QED BY <1>6, <2>2, <3>1, <3>2 DEF Follows
  <2> QED BY <1>1, <1>2, <1>len, <2>1, <2>2
<1> QED BY <1>2, <1>3, <1>4, <1>7, <1>8, <1>9 DEF LogTrue, GapsTrue, NothingUnmarked

\* The log stays as it is.
LEMMA LogSame ==
    ASSUME UNCHANGED log
    PROVE  /\ LogTrue => LogTrue'
           /\ LastSeq' = LastSeq /\ LastStamp' = LastStamp
BY DEF LogTrue, GapsTrue, GapExact, GapInPlace, NothingUnmarked, JumpMarked, PeakCovers, Delivered,
       Before, IsEnd, LastSeq, LastStamp

\* How many deadlines were missed is a number.
LEMMA MissedType ==
    ASSUME Typed, TypeOK, NEW t \in Nat
    PROVE  MissedAt(t) \in Nat
<1>1. Interval \in Nat \ {0} /\ Duration \in Nat /\ nextDeadline \in Nat
  BY ProducerAssumption DEF TypeOK
<1>2. ASSUME NEW n \in Nat PROVE n \div Interval \in Nat BY <1>1
<1>3. ASSUME t >= nextDeadline PROVE (t - nextDeadline) \div Interval + 1 \in Nat
  <2>1. t - nextDeadline \in Nat BY <1>1, <1>3
  <2> QED BY <1>2, <2>1
<1>4. ASSUME nextDeadline < Duration PROVE (Duration - nextDeadline - 1) \div Interval + 1 \in Nat
  <2>1. Duration - nextDeadline - 1 \in Nat BY <1>1, <1>4
  <2> QED BY <1>2, <2>1
<1> DEFINE due == IF t < nextDeadline THEN 0 ELSE (t - nextDeadline) \div Interval + 1
           before == IF Duration = 0 THEN due ELSE IF nextDeadline >= Duration THEN 0
                     ELSE (Duration - nextDeadline - 1) \div Interval + 1
<1>5. due \in Nat BY <1>1, <1>3
<1>6. before \in Nat
  <2>1. CASE Duration = 0 BY <1>5, <2>1
  <2>2. CASE Duration # 0 /\ nextDeadline >= Duration BY <2>2
  <2>3. CASE Duration # 0 /\ ~(nextDeadline >= Duration)
    <3>1. nextDeadline < Duration BY <1>1, <2>3
    <3> QED BY <1>4, <2>3, <3>1
  <2> QED BY <2>1, <2>2, <2>3
<1>7. MissedAt(t) = Least(due, before) BY DEF MissedAt
<1> HIDE DEF due, before
<1> QED BY <1>5, <1>6, <1>7 DEF Least

-----------------------------------------------------------------------------
(* The pending gap                                                          *)

\* RecordRange, field by field
LEMMA RangeFields ==
    ASSUME NEW g \in PendingGaps, NEW first \in Int, NEW last \in Int, NEW stamp \in Int, first <= last
    PROVE  LET h == RecordRange(g, first, last, stamp) IN
           /\ h \in PendingGaps /\ h.count = g.count + last - first + 1
           /\ h.first = IF g.first = Never THEN first ELSE g.first
           /\ h.last = last
           /\ h.start = IF g.start = Never THEN stamp ELSE g.start
           /\ h.end = stamp
           /\ h.finalPrior = g.finalPrior /\ h.finalAfter = g.finalAfter
<1>1. g.count + last - first + 1 \in Nat BY DEF PendingGaps
<1> QED BY <1>1 DEF RecordRange, PendingGaps, Never

\* Nothing is added to the gap, the row in hand or the log.
LEMMA ChainSame ==
    ASSUME Typed, Chain, UNCHANGED <<seqVars, gapVars, row, resetAt, log>>,
           Stamp' \in Nat, Stamp <= Stamp', Open' => Open,
           \/ pc' = pc
           \/ /\ pc # "send" /\ pc' # "send" /\ (pc' = "end" => final = NoRow)
              /\ pc' \in {"top", "wait", "scan"} => pc \in {"top", "wait", "scan"}
    PROVE  Chain'
<1> USE DEF seqVars, gapVars
<1> SUFFICES ASSUME Open' PROVE Pending' /\ RowInHand' /\ FinalDivides' BY DEF Chain
<1>1. LastSeq' = LastSeq /\ LastStamp' = LastStamp BY LogSame
<1>2. Pending /\ RowInHand /\ FinalDivides BY DEF Chain
<1>3. \A r : Marked(r) => Marked(r)' BY <1>1 DEF Marked
<1>4. Stamp \in Nat /\ Stamp' \in Nat /\ LastStamp \in Nat BY LastTypes
<1>5. /\ gap \in PendingGaps /\ resetAt \in Nat /\ row \in RowMessages \cup {NoRow}
      /\ final \in RowMessages \cup {NoRow}
  BY DEF Typed
<1>6. Pending'
  <2>1. nextSeq' = LastSeq' + 1 + gap'.count + (IF pc' = "send" THEN 1 ELSE 0)
    BY <1>1, <1>2 DEF Pending
  <2>2. gap.count > 0 => gap.end \in Int BY <1>5 DEF PendingGaps
  <2> QED BY <1>1, <1>2, <1>4, <1>5, <2>1, <2>2 DEF Pending
<1>7. RowInHand'
  <2>1. CASE pc' = "send"
    <3>1. pc = "send" BY <2>1
    <3>2. row # NoRow /\ row.stamp \in Nat BY <1>2, <1>5, <3>1 DEF RowInHand, RowMessages
    <3> QED BY <1>1, <1>2, <1>3, <1>4, <2>1, <3>1, <3>2 DEF RowInHand
  <2>2. CASE pc' # "send"
    <3> QED BY <1>1, <1>2, <2>2 DEF RowInHand
  <2> QED BY <2>1, <2>2
<1>8. FinalDivides' BY <1>1, <1>2, <1>3 DEF FinalDivides
<1> QED BY <1>6, <1>7, <1>8

\* Missed deadlines join the gap.
LEMMA ChainMissed ==
    ASSUME Typed, TypeOK, Chain, Open, pc \in {"top", "trailing"}, NEW n \in Nat,
           UNCHANGED <<now, slept, prevStamp, final, row, resetAt, log>>,
           gap' = RecordScheduled(nextSeq, n, Stamp), nextSeq' = nextSeq + n,
           pc' \in {"wait", "trailing", "final"}, pc' = "wait" => pc = "top"
    PROVE  Chain' /\ gap' \in PendingGaps
<1>1. LastSeq' = LastSeq /\ LastStamp' = LastStamp BY LogSame
<1>2. Pending /\ RowInHand /\ FinalDivides BY DEF Chain
<1>3. \A r : Marked(r) => Marked(r)' BY <1>1 DEF Marked
<1>4. /\ Stamp \in Nat /\ Stamp' = Stamp /\ LastStamp \in Nat /\ LastSeq \in Int /\ LastSeq >= -1
      /\ nextSeq \in Nat
  <2>1. Stamp' = Stamp BY DEF Stamp
  <2>2. nextSeq \in Nat BY DEF TypeOK
  <2> QED BY <2>1, <2>2, LastTypes
<1>5. /\ gap \in PendingGaps /\ gap.count \in Nat /\ gap.first \in Int /\ gap.last \in Int
      /\ gap.start \in Int /\ gap.end \in Int /\ gap.finalPrior \in Int /\ gap.finalAfter \in Int
      /\ final \in RowMessages \cup {NoRow}
  BY DEF Typed, PendingGaps
<1>6. nextSeq = LastSeq + 1 + gap.count BY <1>2, <1>4, <1>5 DEF Pending
<1>7. CASE n = 0
  <2>1. gap' = gap /\ nextSeq' = nextSeq BY <1>4, <1>7 DEF RecordScheduled
  <2>2. Pending' BY <1>1, <1>2, <1>4, <2>1 DEF Pending
  <2>3. RowInHand' BY <1>1, <1>2, <2>1 DEF RowInHand
  <2>4. FinalDivides' BY <1>1, <1>2, <1>3, <2>1 DEF FinalDivides
  <2> QED BY <1>5, <2>1, <2>2, <2>3, <2>4 DEF Chain
<1>8. CASE n # 0
  <2> DEFINE after == final # NoRow /\ final.seq < nextSeq /\ gap.finalAfter = Never
             g == IF after THEN [gap EXCEPT !.finalAfter = Stamp] ELSE gap
  <2>1. /\ g \in PendingGaps /\ g.count = gap.count /\ g.first = gap.first /\ g.last = gap.last
        /\ g.start = gap.start /\ g.end = gap.end /\ g.finalPrior = gap.finalPrior
        /\ g.finalAfter = IF after THEN Stamp ELSE gap.finalAfter
    BY <1>4, <1>5 DEF PendingGaps
  <2>2. gap' = RecordRange(g, nextSeq, nextSeq + n - 1, Stamp) BY <1>8 DEF RecordScheduled
  <2>3. nextSeq \in Int /\ nextSeq + n - 1 \in Int /\ Stamp \in Int /\ nextSeq <= nextSeq + n - 1
    BY <1>4, <1>8
  <2> HIDE DEF g
  <2>4. /\ gap' \in PendingGaps
        /\ gap'.count = gap.count + n
        /\ gap'.first = (IF gap.first = Never THEN nextSeq ELSE gap.first)
        /\ gap'.last = nextSeq + n - 1
        /\ gap'.start = (IF gap.start = Never THEN Stamp ELSE gap.start)
        /\ gap'.end = Stamp
        /\ gap'.finalPrior = gap.finalPrior
        /\ gap'.finalAfter = (IF after THEN Stamp ELSE gap.finalAfter)
    BY <1>4, <1>5, <2>1, <2>2, <2>3, RangeFields
  <2> HIDE DEF after
  <2>5. IF gap.count = 0 THEN gap.first = Never /\ gap.start = Never /\ final = NoRow
        ELSE /\ gap.first # Never /\ gap.start # Never /\ gap.first = LastSeq + 1
             /\ gap.last = LastSeq + gap.count
             /\ LastStamp <= gap.start /\ gap.start <= gap.end /\ gap.end <= Stamp
    BY <1>2, <1>4, <1>5 DEF Pending, Never, NoGap
  <2>6. Pending'
    <3>0. LastStamp <= Stamp /\ resetAt <= Stamp BY <1>2 DEF Pending
    <3>1. /\ gap'.count > 0 /\ gap'.first = LastSeq + 1 /\ gap'.last = LastSeq + gap'.count
          /\ LastStamp <= gap'.start /\ gap'.start <= gap'.end /\ gap'.end <= Stamp
      <4>1. CASE gap.count = 0 BY <1>4, <1>5, <1>6, <1>8, <2>4, <2>5, <3>0, <4>1 DEF Never
      <4>2. CASE gap.count # 0 BY <1>4, <1>5, <1>6, <1>8, <2>4, <2>5, <4>2
      <4> QED BY <4>1, <4>2
    <3>2. nextSeq' = LastSeq + 1 + gap'.count BY <1>4, <1>5, <1>6, <2>4
    <3>4. gap'.count \in Nat BY <2>4 DEF PendingGaps
    <3> QED BY <1>1, <1>4, <3>0, <3>1, <3>2, <3>4 DEF Pending
  <2>7. RowInHand'
    <3>1. gap'.count > 0 BY <1>5, <1>8, <2>4
    <3> QED BY <3>1 DEF RowInHand
  <2>8. FinalDivides'
    <3> SUFFICES ASSUME final # NoRow
                 PROVE  /\ Marked(final)'
                        /\ gap'.first <= final.seq /\ final.seq < gap'.last
                        /\ LastStamp <= final.stamp /\ final.stamp <= gap'.end
                        /\ gap'.first < final.seq => gap'.start <= gap'.finalPrior /\ gap'.finalPrior <= final.stamp
                        /\ final.stamp <= gap'.finalAfter /\ gap'.finalAfter <= gap'.end
      <4>1. final # NoRow => final.seq \in Nat BY <1>5 DEF RowMessages
      <4>2. gap'.last \in Int BY <2>4 DEF PendingGaps
      <4> QED BY <1>1, <4>1, <4>2 DEF FinalDivides
    <3>1. final.seq \in Nat /\ final.stamp \in Nat BY <1>5 DEF RowMessages
    <3>2. /\ Marked(final) /\ gap.first <= final.seq /\ final.seq <= gap.last
          /\ LastStamp <= final.stamp /\ final.stamp <= gap.end
          /\ gap.first < final.seq => gap.start <= gap.finalPrior /\ gap.finalPrior <= final.stamp
          /\ IF gap.last = final.seq THEN gap.finalAfter = Never
             ELSE final.stamp <= gap.finalAfter /\ gap.finalAfter <= gap.end
      BY <1>2 DEF FinalDivides
    <3>3. gap.count # 0 BY <2>5
    <3>4. Marked(final)' BY <1>3, <3>2
    <3>5. gap'.first = gap.first /\ gap'.start = gap.start BY <2>4, <2>5, <3>3
    <3>6. final.seq < nextSeq BY <1>4, <1>5, <1>6, <2>5, <3>1, <3>2, <3>3
    <3>7. final.seq < gap'.last BY <1>4, <1>8, <2>4, <3>1, <3>6
    <3>8. final.stamp <= gap'.end BY <1>4, <1>5, <2>4, <2>5, <3>1, <3>2, <3>3
    <3>9. final.stamp <= gap'.finalAfter /\ gap'.finalAfter <= gap'.end
      <4>1. CASE after BY <1>4, <2>4, <3>8, <4>1
      <4>2. CASE ~after
        <5>1. gap.finalAfter # Never BY <3>6, <4>2 DEF after
        <5> QED BY <1>4, <1>5, <2>4, <2>5, <3>1, <3>2, <3>3, <4>2, <5>1
      <4> QED BY <4>1, <4>2
    <3> QED BY <2>4, <3>2, <3>4, <3>5, <3>7, <3>8, <3>9
  <2> QED BY <2>4, <2>6, <2>7, <2>8 DEF Chain
<1> QED BY <1>7, <1>8

-----------------------------------------------------------------------------
(* Time, and the steps that send nothing                                    *)

\* The log and what the encoder thinks of it stay as they are.
LEMMA EndSame ==
    ASSUME EndIsLast, UNCHANGED <<log, unread, encoded, result>>,
           pc \in {"join", "done"} => pc' \in {"join", "done"}
    PROVE  EndIsLast'
BY DEF EndIsLast, IsEnd

\* Time passes, the machine sleeps, a stop is requested.
LEMMA StepClock ==
    ASSUME PInv, Tick \/ Sleep \/ RequestStop
    PROVE  PInv'
<1>1. UNCHANGED <<pc, seqVars, gapVars, row, resetAt, error, log, unread, encVars, result>>
  BY DEF Tick, Sleep, RequestStop
<1>2. /\ now' \in Nat /\ slept' \in Nat /\ now <= now' /\ slept <= slept'
      /\ now \in Nat /\ slept \in Nat
  <2>1. now \in Nat /\ slept \in Nat BY DEF PInv, Typed
  <2>2. CASE Tick BY <2>1, <2>2 DEF Tick
  <2>3. CASE Sleep BY <2>1, <2>3, ProducerAssumption DEF Sleep
  <2>4. CASE RequestStop BY <2>1, <2>4 DEF RequestStop
  <2> QED BY <2>2, <2>3, <2>4
<1>3. Stamp \in Nat /\ Stamp' \in Nat /\ Stamp <= Stamp'
  <2>1. PICK a, b \in Nat : a = now' /\ b = slept' BY <1>2
  <2>2. PICK c, d \in Nat : c = now /\ d = slept BY <1>2
  <2>3. Stamp' = a + b /\ Stamp = c + d BY <2>1, <2>2 DEF Stamp
  <2>4. a >= c /\ b >= d BY <1>2, <2>1, <2>2
  <2> QED BY <2>3, <2>4
<1>4. Open' => Open BY <1>1 DEF Open, encVars
<1>5. TypeOK' /\ Typed' BY <1>1, <1>2 DEF PInv, TypeOK, Typed, seqVars, gapVars, encVars
<1>6. Chain' BY <1>1, <1>3, <1>4, ChainSame DEF PInv
<1>7. EndIsLast' /\ LogTrue' BY <1>1, LogSame, EndSame DEF PInv, encVars
<1> QED BY <1>5, <1>6, <1>7 DEF PInv

\* The head of the loop, and the wait for a deadline
LEMMA StepLoop ==
    ASSUME PInv, Top \/ Wait \/ ScanFails
    PROVE  PInv'
<1>1. /\ pc \in {"top", "wait", "scan"}
      /\ UNCHANGED <<clock, prevStamp, final, row, resetAt, log, unread, encVars, result>>
      /\ error' \in BOOLEAN
      /\ pc' \in {"trailing", "wait", "final", "scan"}
  BY DEF Top, Wait, ScanFails, Fails, seqVars, gapVars, PInv, Typed
<1>2. EndIsLast' /\ LogTrue'
  BY <1>1, LogSame, EndSame DEF PInv, encVars
<1>3. Stamp' = Stamp /\ Stamp \in Nat BY <1>1, LastTypes DEF PInv, Stamp, clock
<1>4. CASE UNCHANGED <<nextSeq, nextDeadline, gap>>
  <2>1. TypeOK' /\ Typed' BY <1>1, <1>4 DEF PInv, TypeOK, Typed, clock, encVars
  <2>2. pc' \in {"top", "wait", "scan"} => pc \in {"top", "wait", "scan"} BY <1>1
  <2>3. Open' => Open BY <1>1 DEF Open
  <2>4. Chain' BY <1>1, <1>3, <1>4, <2>2, <2>3, ChainSame DEF PInv, seqVars, gapVars
  <2> QED BY <1>2, <2>1, <2>4 DEF PInv
<1>5. CASE ~UNCHANGED <<nextSeq, nextDeadline, gap>>
  <2>1. Top /\ ~stop /\ ~Finished
    BY <1>5 DEF Top, Wait, ScanFails, seqVars, gapVars
  <2> DEFINE n == IF nextSeq > 0 THEN MissedAt(now) ELSE 0
  <2>2. n \in Nat /\ Interval \in Nat /\ nextSeq \in Nat /\ nextDeadline \in Nat
    BY MissedType, ProducerAssumption DEF PInv, Typed, TypeOK
  <2>3. /\ pc = "top" /\ gap' = RecordScheduled(nextSeq, n, Stamp) /\ nextSeq' = nextSeq + n
        /\ nextDeadline' = nextDeadline + n * Interval
        /\ pc' \in {"wait", "trailing"}
    BY <2>1 DEF Top
  <2> HIDE DEF n
  <2>4. Chain' /\ gap' \in PendingGaps
    <3>1. Open BY <2>3 DEF Open
    <3> QED BY <1>1, <2>2, <2>3, <3>1, ChainMissed DEF PInv, clock
  <2>5. nextSeq' \in Nat /\ nextDeadline' \in Nat
    <3>1. n * Interval \in Nat BY <2>2
    <3> QED BY <2>2, <2>3, <3>1
  <2>6. gap'.count \in Nat BY <2>4 DEF PendingGaps
  <2>7. TypeOK' BY <1>1, <2>5, <2>6 DEF PInv, TypeOK
  <2>8. Typed' BY <1>1, <2>4 DEF PInv, Typed, clock, encVars
  <2> QED BY <1>2, <2>4, <2>7, <2>8 DEF PInv
<1> QED BY <1>4, <1>5

\* Sampling has ended in order.
LEMMA StepTrailing ==
    ASSUME PInv, Trailing
    PROVE  PInv'
<1>1. /\ pc = "trailing" /\ pc' = "final"
      /\ UNCHANGED <<clock, nextDeadline, prevStamp, final, row, resetAt, error, log, unread, encVars, result>>
  BY DEF Trailing
<1>2. EndIsLast' /\ LogTrue' BY <1>1, LogSame, EndSame DEF PInv, encVars
<1> DEFINE n == IF nextSeq > 0 THEN MissedAt(now) ELSE 0
<1>3. n \in Nat /\ nextSeq \in Nat BY MissedType DEF PInv, Typed, TypeOK
<1>4. gap' = RecordScheduled(nextSeq, n, Stamp) /\ nextSeq' = nextSeq + n
  <2>1. CASE nextSeq > 0 BY <2>1 DEF Trailing
  <2>2. CASE ~(nextSeq > 0) BY <1>3, <2>2 DEF Trailing, RecordScheduled
  <2> QED BY <2>1, <2>2
<1> HIDE DEF n
<1>5. Open BY <1>1 DEF Open
<1>6. Chain' /\ gap' \in PendingGaps BY <1>1, <1>3, <1>4, <1>5, ChainMissed DEF PInv, clock
<1>7. gap'.count \in Nat BY <1>6 DEF PendingGaps
<1>8. TypeOK'
  <2>1. nextSeq' \in Nat BY <1>3, <1>4
  <2> QED BY <1>1, <1>7, <2>1 DEF PInv, TypeOK
<1>9. Typed' BY <1>1, <1>6 DEF PInv, Typed, clock, encVars
<1> QED BY <1>2, <1>6, <1>8, <1>9 DEF PInv

\* A row is sampled.
LEMMA StepScan ==
    ASSUME PInv, Scan
    PROVE  PInv'
<1>1. /\ pc = "scan" /\ pc' = "send" /\ nextSeq' = nextSeq + 1 /\ prevStamp' = Stamp
      /\ UNCHANGED <<clock, nextDeadline, gap, final, error, log, unread, encVars, result>>
  BY DEF Scan, gapVars
<1>2. EndIsLast' /\ LogTrue' BY <1>1, LogSame, EndSame DEF PInv, encVars
<1>3. PICK read \in Reads :
          /\ row' = [seq |-> nextSeq, due |-> nextDeadline, at |-> now, stamp |-> Stamp,
                     read |-> read,
                     peakFrom |-> IF read = "read" THEN resetAt ELSE Never,
                     clockGap |-> prevStamp # Never /\ Stamp - prevStamp > 2 * Interval,
                     gap |-> NoQuality]
          /\ resetAt' = IF read = "unlisted" THEN resetAt ELSE Stamp
  BY DEF Scan
<1>4. /\ nextSeq \in Nat /\ nextDeadline \in Nat /\ now \in Nat /\ resetAt \in Nat /\ Stamp \in Nat
      /\ prevStamp \in Int /\ read \in {"read", "raced", "unlisted"} /\ gap.count \in Nat
      /\ LastStamp \in Nat /\ LastSeq \in Int
  BY LastTypes, ProducerAssumption DEF PInv, TypeOK, Typed
<1>5. row' \in RowMessages
  <2>1. NoQuality \in Qualities BY DEF NoQuality, Qualities, Never
  <2>2. (IF read = "read" THEN resetAt ELSE Never) \in Int BY <1>4 DEF Never
  <2> QED BY <1>3, <1>4, <2>1, <2>2 DEF RowMessages
<1>6. resetAt' \in Nat BY <1>3, <1>4
<1>7. TypeOK'
  <2>1. nextSeq' \in Nat BY <1>1, <1>4
  <2> QED BY <1>1, <1>4, <2>1 DEF PInv, TypeOK
<1>8. Typed' BY <1>1, <1>4, <1>5, <1>6 DEF PInv, Typed, clock, encVars
<1>9. Pending /\ RowInHand /\ FinalDivides BY <1>1 DEF PInv, Chain, Open
<1>10. Stamp' = Stamp /\ LastSeq' = LastSeq /\ LastStamp' = LastStamp
  BY <1>1, LogSame DEF Stamp, clock
<1>11. resetAt <= Stamp BY <1>9 DEF Pending
<1>12. nextSeq = LastSeq + 1 + gap.count BY <1>1, <1>4, <1>9 DEF Pending
<1>13. Pending'
  <2>1. nextSeq' = LastSeq + 1 + gap.count + 1 BY <1>1, <1>4, <1>12
  <2>2. resetAt' <= Stamp BY <1>3, <1>4, <1>11
  <2> QED BY <1>1, <1>9, <1>10, <2>1, <2>2 DEF Pending
<1>14. RowInHand'
  <2>1. row' # NoRow BY <1>5 DEF RowMessages, NoRow, Never
  <2>2. row'.seq = nextSeq /\ row'.stamp = Stamp BY <1>3
  <2>3. Marked(row)'
    <3> SUFFICES ASSUME log # <<>>, row'.seq = LastSeq + 1
                 PROVE  /\ row'.stamp - LastStamp > 2 * Interval => row'.clockGap
                        /\ row'.read = "read" => row'.peakFrom <= LastStamp
      BY <1>1, <1>10 DEF Marked
    <3>1. gap.count = 0 BY <1>4, <1>12, <2>2
    <3>2. prevStamp = LastStamp /\ resetAt <= LastStamp BY <1>1, <1>9, <3>1 DEF RowInHand
    <3>3. prevStamp # Never BY <1>4, <3>2 DEF Never
    <3> QED BY <1>3, <3>2, <3>3
  <2>4. resetAt' <= Stamp BY <1>3, <1>4, <1>11
  <2>5. LastStamp <= Stamp /\ (gap.count > 0 => gap.end <= Stamp) BY <1>9 DEF Pending
  <2>6. row'.seq = nextSeq' - 1 BY <1>1, <1>4, <2>2
  <2> QED BY <1>1, <1>4, <1>10, <2>1, <2>2, <2>3, <2>4, <2>5, <2>6 DEF RowInHand
<1>15. FinalDivides'
  <2>1. \A r : Marked(r) => Marked(r)' BY <1>1, <1>10 DEF Marked
  <2> QED BY <1>1, <1>9, <1>10, <2>1 DEF FinalDivides
<1> QED BY <1>2, <1>7, <1>8, <1>13, <1>14, <1>15 DEF PInv, Chain

-----------------------------------------------------------------------------
(* The steps that send                                                      *)

\* While the producer still sends, no End is in the log and the encoder has not ended well.
LEMMA NoEndYet ==
    ASSUME Typed, EndIsLast, pc \notin {"join", "done"}
    PROVE  ~encoded /\ result # "ok" /\ \A i \in DOMAIN log : ~IsEnd(log[i])
<1>1. \A i \in DOMAIN log : ~IsEnd(log[i]) BY DEF EndIsLast
<1>2. log # <<>> => Len(log) \in DOMAIN log BY LastTypes
<1> QED BY <1>1, <1>2 DEF EndIsLast

\* What is attached of a gap, field by field
LEMMA AttachedFields ==
    ASSUME gap \in PendingGaps
    PROVE  /\ Attached(gap) \in Qualities
           /\ gap.count = 0 => Attached(gap).scans = 0
           /\ gap.count > 0 => /\ Attached(gap).from = gap.first /\ Attached(gap).to = gap.last
                               /\ Attached(gap).scans = gap.count
                               /\ Attached(gap).start = gap.start /\ Attached(gap).end = gap.end
           /\ gap.count \in Nat /\ gap.first \in Int /\ gap.last \in Int
           /\ gap.start \in Int /\ gap.end \in Int
<1>1. /\ gap.count \in Nat /\ gap.first \in Int /\ gap.last \in Int /\ gap.start \in Int
      /\ gap.end \in Int
  BY DEF PendingGaps
<1>2. CASE gap.count > 0
  <2>1. Attached(gap) = Quality(gap) BY <1>2 DEF Attached
  <2> QED BY <1>1, <1>2, <2>1 DEF Quality, Qualities
<1>3. CASE ~(gap.count > 0)
  <2>1. Attached(gap) = NoQuality BY <1>3 DEF Attached
  <2>2. NoQuality \in Qualities /\ NoQuality.scans = 0 BY DEF NoQuality, Qualities, Never
  <2> QED BY <1>1, <1>3, <2>1, <2>2
<1> QED BY <1>2, <1>3

\* No gap is pending: what the invariant says of it.
LEMMA NoGapType == NoGap \in PendingGaps /\ NoGap.count = 0
BY DEF NoGap, PendingGaps, Never

\* The channel has room: the row goes out with the gap.
LEMMA StepAccepted ==
    ASSUME PInv, Accepted
    PROVE  PInv'
<1> DEFINE m == [row EXCEPT !.gap = Attached(gap)]
<1>1. /\ pc = "send" /\ pc' = "top" /\ log' = Append(log, m)
      /\ unread < Capacity /\ unread' = unread + 1
      /\ gap' = NoGap /\ final' = NoRow /\ row' = NoRow /\ nextDeadline' = nextDeadline + Interval
      /\ UNCHANGED <<clock, nextSeq, prevStamp, resetAt, error, encVars, result>>
  BY DEF Accepted
<1>2. Pending /\ RowInHand BY <1>1 DEF PInv, Chain, Open
<1>3. /\ row \in RowMessages /\ row.seq = nextSeq - 1 /\ Marked(row)
      /\ LastStamp <= row.stamp /\ row.stamp <= Stamp
      /\ (gap.count > 0 => gap.end <= row.stamp)
      /\ prevStamp = row.stamp /\ resetAt <= row.stamp
  BY <1>1, <1>2 DEF RowInHand, PInv, Typed
<1>4. /\ Attached(gap) \in Qualities /\ gap.count \in Nat
      /\ row.seq \in Nat /\ row.stamp \in Nat /\ nextSeq \in Nat /\ LastSeq \in Int
      /\ LastStamp \in Nat
  BY <1>3, AttachedFields, LastTypes DEF PInv, Typed, RowMessages, TypeOK
<1>5. row.seq = LastSeq + 1 + gap.count
  <2>1. nextSeq = LastSeq + 1 + gap.count + 1 BY <1>1, <1>2 DEF Pending
  <2> QED BY <1>3, <1>4, <2>1
<1>6. /\ m \in RowMessages /\ ~IsEnd(m) /\ m.gap = Attached(gap)
      /\ m.seq = row.seq /\ m.stamp = row.stamp /\ m.clockGap = row.clockGap
      /\ m.read = row.read /\ m.peakFrom = row.peakFrom
  BY <1>3, <1>4, RowWithGap
<1> HIDE DEF m
<1>7. Follows(m)
  <2>1. CASE gap.count = 0
    <3>1. m.gap.scans = 0 BY <1>6, <2>1, AttachedFields DEF PInv, Typed
    <3>2. m.seq = LastSeq + 1 BY <1>4, <1>5, <1>6, <2>1
    <3> QED BY <1>3, <1>6, <3>1, <3>2 DEF Follows, Marked
  <2>2. CASE gap.count > 0
    <3>1. /\ m.gap.from = gap.first /\ m.gap.to = gap.last /\ m.gap.scans = gap.count
          /\ m.gap.start = gap.start /\ m.gap.end = gap.end
          /\ gap.first \in Int /\ gap.last \in Int
      BY <1>6, <2>2, AttachedFields DEF PInv, Typed
    <3>2. /\ gap.first = LastSeq + 1 /\ gap.last = LastSeq + gap.count
          /\ LastStamp <= gap.start /\ gap.start <= gap.end
      BY <1>2, <2>2 DEF Pending
    <3>3. m.gap.to = m.seq - 1 BY <1>4, <1>5, <1>6, <3>1, <3>2
    <3>4. m.gap.scans = m.gap.to - m.gap.from + 1 BY <1>4, <3>1, <3>2
    <3>5. m.gap.scans # 0 BY <2>2, <3>1
    <3>6. m.gap.end <= m.stamp BY <1>3, <1>6, <2>2, <3>1
    <3>7. m.gap.from = LastSeq + 1 /\ LastStamp <= m.gap.start /\ m.gap.start <= m.gap.end
      BY <3>1, <3>2
    <3> QED BY <3>3, <3>4, <3>5, <3>6, <3>7 DEF Follows
  <2> QED BY <1>4, <2>1, <2>2
<1>8. /\ LogTrue' /\ LastSeq' = m.seq /\ LastStamp' = m.stamp
      /\ log' \in Seq(RowMessages \cup EndMessages) /\ Len(log') = Len(log) + 1
      /\ log' # <<>> /\ log'[Len(log')] = m /\ \A i \in DOMAIN log : log'[i] = log[i]
  BY <1>1, <1>6, <1>7, SendTrue DEF PInv
<1>9. TypeOK'
  <2>1. nextDeadline' \in Nat /\ unread' \in 0..Capacity /\ unread' <= Len(log')
    <3>1. /\ nextDeadline \in Nat /\ Interval \in Nat /\ Capacity \in Nat /\ unread \in 0..Capacity
          /\ unread <= Len(log) /\ Len(log) \in Nat
      BY ProducerAssumption, LastTypes DEF PInv, TypeOK
    <3>2. nextDeadline + Interval \in Nat /\ unread + 1 \in 0..Capacity /\ unread + 1 <= Len(log) + 1
      BY <1>1, <3>1
    <3> QED BY <1>1, <1>8, <3>2
  <2>2. nextSeq' \in Nat /\ gap'.count \in Nat BY <1>1, <1>4, NoGapType
  <2>3. result' = result BY <1>1
  <2> QED BY <1>1, <2>1, <2>2, <2>3 DEF PInv, TypeOK
<1>10. Typed' BY <1>1, <1>8, NoGapType DEF PInv, Typed, clock, encVars
<1>11. Stamp' = Stamp BY <1>1 DEF Stamp, clock
<1>12. Pending'
  <2>1. nextSeq' = LastSeq' + 1 + 0 BY <1>1, <1>3, <1>4, <1>6, <1>8
  <2>2. resetAt <= Stamp BY <1>2 DEF Pending
  <2>3. nextSeq' = LastSeq' + 1 + gap'.count + (IF pc' = "send" THEN 1 ELSE 0)
    BY <1>1, <1>4, <1>6, <1>8, <2>1, NoGapType
  <2>4. LastStamp' <= Stamp' /\ resetAt' <= Stamp' BY <1>1, <1>3, <1>6, <1>8, <1>11, <2>2
  <2> QED BY <1>1, <2>3, <2>4, NoGapType DEF Pending
<1>13. RowInHand' BY <1>1, <1>3, <1>6, <1>8 DEF RowInHand
<1>14. FinalDivides' BY <1>1 DEF FinalDivides
<1>15. EndIsLast'
  <2>1. ~encoded /\ result # "ok" /\ \A i \in DOMAIN log : ~IsEnd(log[i])
    BY <1>1, NoEndYet DEF PInv
  <2>2. \A i \in DOMAIN log' : ~IsEnd(log'[i])
    <3>1. DOMAIN log' = 1..(Len(log) + 1) /\ DOMAIN log = 1..Len(log) /\ Len(log) \in Nat
      BY <1>8, LastTypes DEF PInv
    <3>2. \A i \in 1..(Len(log) + 1) : i \in 1..Len(log) \/ i = Len(log) + 1 BY <3>1
    <3> QED BY <1>6, <1>8, <2>1, <3>1, <3>2
  <2> QED BY <1>1, <2>1, <2>2 DEF EndIsLast, encVars, IsEnd
<1> QED BY <1>8, <1>9, <1>10, <1>12, <1>13, <1>14, <1>15 DEF PInv, Chain

\* Where the gap stood before the row that joins it is kept.
LEMMA PriorFields ==
    ASSUME NEW h \in PendingGaps
    PROVE  LET g == [h EXCEPT !.finalPrior = h.end, !.finalAfter = Never] IN
           /\ g \in PendingGaps /\ g.count = h.count /\ g.first = h.first /\ g.start = h.start
           /\ g.finalPrior = h.end /\ g.finalAfter = Never
<1>1. h.end \in Int /\ Never \in Int BY DEF PendingGaps, Never
<1> QED BY <1>1 DEF PendingGaps

\* The channel is full: the row joins the gap.
LEMMA StepDropped ==
    ASSUME PInv, Dropped
    PROVE  PInv'
<1>1. /\ pc = "send" /\ pc' = "top" /\ gap' = RecordScan(row)
      /\ final' = row /\ row' = NoRow /\ nextDeadline' = nextDeadline + Interval
      /\ UNCHANGED <<clock, nextSeq, prevStamp, resetAt, error, log, unread, encVars, result>>
  BY DEF Dropped
<1>2. Pending /\ RowInHand BY <1>1 DEF PInv, Chain, Open
<1>3. /\ row \in RowMessages /\ row.seq = nextSeq - 1 /\ Marked(row)
      /\ LastStamp <= row.stamp /\ row.stamp <= Stamp
      /\ (gap.count > 0 => gap.end <= row.stamp)
  BY <1>1, <1>2 DEF RowInHand, PInv, Typed
<1>4. /\ row.seq \in Nat /\ row.stamp \in Nat /\ nextSeq \in Nat /\ LastSeq \in Int /\ LastSeq >= -1
      /\ LastStamp \in Nat /\ Stamp \in Nat
      /\ gap \in PendingGaps /\ gap.count \in Nat /\ gap.first \in Int /\ gap.last \in Int
      /\ gap.start \in Int /\ gap.end \in Int
  BY <1>3, LastTypes DEF PInv, Typed, RowMessages, TypeOK, PendingGaps
<1>5. row.seq = LastSeq + 1 + gap.count
  <2>1. nextSeq = LastSeq + 1 + gap.count + 1 BY <1>1, <1>2 DEF Pending
  <2> QED BY <1>3, <1>4, <2>1
<1> DEFINE g == [gap EXCEPT !.finalPrior = gap.end, !.finalAfter = Never]
<1>6. /\ g \in PendingGaps /\ g.count = gap.count /\ g.first = gap.first /\ g.start = gap.start
      /\ g.finalPrior = gap.end /\ g.finalAfter = Never
  BY <1>4, PriorFields
<1>7. gap' = RecordRange(g, row.seq, row.seq, row.stamp) BY <1>1 DEF RecordScan
<1> HIDE DEF g
<1>8. /\ gap' \in PendingGaps
      /\ gap'.count = gap.count + row.seq - row.seq + 1
      /\ gap'.first = (IF gap.first = Never THEN row.seq ELSE gap.first)
      /\ gap'.last = row.seq
      /\ gap'.start = (IF gap.start = Never THEN row.stamp ELSE gap.start)
      /\ gap'.end = row.stamp /\ gap'.finalPrior = gap.end /\ gap'.finalAfter = Never
  <2>1. row.seq \in Int /\ row.stamp \in Int /\ row.seq <= row.seq BY <1>4
  <2> QED BY <1>6, <1>7, <2>1, RangeFields
<1>9. gap'.count = gap.count + 1 BY <1>4, <1>8
<1>10. IF gap.count = 0 THEN gap'.first = row.seq /\ gap'.start = row.stamp
       ELSE /\ gap'.first = LastSeq + 1 /\ gap'.start = gap.start
            /\ LastStamp <= gap.start /\ gap.start <= gap.end
  <2>1. CASE gap.count = 0
    <3>1. gap = NoGap BY <1>2, <2>1 DEF Pending
    <3> QED BY <1>8, <2>1, <3>1 DEF NoGap
  <2>2. CASE gap.count # 0
    <3>1. /\ gap.first = LastSeq + 1 /\ LastStamp <= gap.start /\ gap.start <= gap.end
      BY <1>2, <1>4, <2>2 DEF Pending
    <3>2. gap.first # Never /\ gap.start # Never BY <1>4, <3>1 DEF Never
    <3> QED BY <1>8, <2>2, <3>1, <3>2
  <2> QED BY <2>1, <2>2
<1>11. Stamp' = Stamp /\ LastSeq' = LastSeq /\ LastStamp' = LastStamp
  BY <1>1, LogSame DEF Stamp, clock
<1>12. TypeOK'
  <2>1. nextDeadline \in Nat /\ Interval \in Nat BY ProducerAssumption DEF PInv, TypeOK
  <2>2. nextDeadline + Interval \in Nat BY <2>1
  <2>3. nextDeadline' \in Nat BY <1>1, <2>2
  <2>4. gap'.count \in Nat BY <1>8 DEF PendingGaps
  <2> QED BY <1>1, <2>3, <2>4 DEF PInv, TypeOK
<1>13. Typed' BY <1>1, <1>3, <1>8 DEF PInv, Typed, clock, encVars
<1>14. Pending'
  <2>1. nextSeq' = LastSeq' + 1 + gap'.count + (IF pc' = "send" THEN 1 ELSE 0)
    <3>1. nextSeq = LastSeq + 1 + (gap.count + 1) BY <1>3, <1>4, <1>5
    <3>2. nextSeq' = LastSeq' + 1 + gap'.count BY <1>1, <1>9, <1>11, <3>1
    <3> QED BY <1>1, <1>4, <1>9, <1>11, <3>2
  <2>2. gap'.count # 0 /\ gap'.last = LastSeq + gap'.count BY <1>4, <1>5, <1>8, <1>9
  <2>3. gap'.first = LastSeq + 1 BY <1>4, <1>5, <1>10
  <2>4. LastStamp <= gap'.start /\ gap'.start <= gap'.end
    <3>1. CASE gap.count = 0 BY <1>3, <1>4, <1>8, <1>10, <3>1
    <3>2. CASE gap.count # 0
      <4>1. gap.end <= row.stamp BY <1>3, <1>4, <3>2
      <4> QED BY <1>4, <1>8, <1>10, <3>2, <4>1
    <3> QED BY <3>1, <3>2
  <2>5. gap'.end <= Stamp BY <1>3, <1>8
  <2>6. LastStamp <= Stamp /\ resetAt <= Stamp BY <1>2 DEF Pending
  <2> QED BY <1>1, <1>11, <2>1, <2>2, <2>3, <2>4, <2>5, <2>6 DEF Pending
<1>15. RowInHand'
  <2>1. gap'.count # 0 BY <1>4, <1>9
  <2> QED BY <1>1, <2>1 DEF RowInHand
<1>16. FinalDivides'
  <2>1. Marked(final)' BY <1>1, <1>3, <1>11 DEF Marked
  <2>2. gap'.first <= row.seq BY <1>4, <1>5, <1>10
  <2>3. ASSUME gap'.first < row.seq PROVE gap'.start <= gap'.finalPrior /\ gap'.finalPrior <= row.stamp
    <3>1. gap.count # 0 BY <1>4, <1>10, <2>3
    <3>2. gap.end <= row.stamp BY <1>3, <1>4, <3>1
    <3> QED BY <1>8, <1>10, <3>1, <3>2
  <2>4. row.seq <= gap'.last /\ row.stamp <= gap'.end BY <1>4, <1>8
  <2> QED BY <1>1, <1>3, <1>8, <1>11, <2>1, <2>2, <2>3, <2>4 DEF FinalDivides
<1>17. EndIsLast' /\ LogTrue' BY <1>1, LogSame, EndSame DEF PInv, encVars
<1> QED BY <1>12, <1>13, <1>14, <1>15, <1>16, <1>17 DEF PInv, Chain

\* What a sent message does to the counts, and that no End is among the rows.
LEMMA SendCounts ==
    ASSUME PInv, pc \in {"send", "final", "end"}, unread < Capacity, unread' = unread + 1,
           UNCHANGED <<encoded, result>>, Len(log') = Len(log) + 1,
           DOMAIN log' = 1..Len(log'), \A i \in DOMAIN log : log'[i] = log[i],
           IsEnd(log'[Len(log')]) => pc' \in {"join", "done"}
    PROVE  /\ EndIsLast' /\ unread' \in 0..Capacity /\ unread' <= Len(log')
<1>1. /\ unread \in 0..Capacity /\ unread <= Len(log) /\ Len(log) \in Nat /\ Capacity \in Nat
      /\ DOMAIN log = 1..Len(log)
  BY LastTypes, ProducerAssumption DEF PInv, TypeOK
<1>2. ~encoded /\ result # "ok" /\ \A i \in DOMAIN log : ~IsEnd(log[i])
  BY NoEndYet DEF PInv
<1>3. unread' \in 0..Capacity /\ unread' <= Len(log') BY <1>1
<1>4. ASSUME NEW i \in DOMAIN log', IsEnd(log'[i])
      PROVE  i = Len(log') /\ pc' \in {"join", "done"}
  <2>1. i \in 1..Len(log) \/ i = Len(log') BY <1>1
  <2>2. i = Len(log') BY <1>1, <1>2, <1>4, <2>1
  <2> QED BY <1>4, <2>2
<1>5. \A i \in DOMAIN log' : IsEnd(log[i])' => i = Len(log') /\ pc' \in {"join", "done"}
  BY <1>4 DEF IsEnd
<1> QED BY <1>2, <1>3, <1>5 DEF EndIsLast

\* The last dropped row is sent after all, with the part of the gap before it.
LEMMA StepSendFinal ==
    ASSUME PInv, SendFinal
    PROVE  PInv'
<1>1. /\ pc = "final" /\ pc' = "end" /\ final' = NoRow
      /\ UNCHANGED <<clock, seqVars, row, resetAt, encVars, result>>
  BY DEF SendFinal
<1>2. Stamp' = Stamp /\ Stamp \in Nat BY <1>1, LastTypes DEF PInv, Stamp, clock
<1>3. CASE final = NoRow
  <2>1. UNCHANGED <<gapVars, error, log, unread>> BY <1>1, <1>3 DEF SendFinal, gapVars
  <2>2. TypeOK' /\ Typed'
    BY <1>1, <2>1 DEF PInv, TypeOK, Typed, seqVars, gapVars, clock, encVars
  <2>3. Open' => Open BY <1>1 DEF Open, encVars
  <2>4. Stamp <= Stamp' BY <1>2
  <2>5. Chain' BY <1>1, <1>2, <1>3, <2>1, <2>3, <2>4, ChainSame DEF PInv
  <2>6. EndIsLast' /\ LogTrue' BY <1>1, <2>1, LogSame, EndSame DEF PInv, encVars
  <2> QED BY <2>2, <2>5, <2>6 DEF PInv
<1>4. CASE final # NoRow
  <2>1. gap' = AfterFinal BY <1>4 DEF SendFinal
  <2>2. /\ final \in RowMessages /\ final.seq \in Nat /\ final.stamp \in Nat
        /\ gap \in PendingGaps /\ gap.count \in Nat /\ gap.first \in Int /\ gap.last \in Int
        /\ gap.start \in Int /\ gap.end \in Int /\ gap.finalPrior \in Int /\ gap.finalAfter \in Int
        /\ nextSeq \in Nat /\ LastSeq \in Int /\ LastStamp \in Nat
    BY <1>4, LastTypes DEF PInv, Typed, RowMessages, PendingGaps, TypeOK
  <2>3. IF gap.last > final.seq
        THEN /\ gap'.count = gap.last - final.seq /\ gap'.first = final.seq + 1
             /\ gap'.last = gap.last /\ gap'.end = gap.end
             /\ gap'.start = (IF gap.finalAfter # Never THEN gap.finalAfter ELSE gap.end)
        ELSE gap' = NoGap
    BY <2>1 DEF AfterFinal, NoGap
  <2>4. gap' \in PendingGaps
    <3>1. CASE gap.last > final.seq
      <4>1. gap.last - final.seq \in Nat /\ final.seq + 1 \in Int BY <2>2, <3>1
      <4>2. (IF gap.finalAfter # Never THEN gap.finalAfter ELSE gap.end) \in Int BY <2>2
      <4> QED BY <2>1, <2>2, <3>1, <4>1, <4>2, NoGapType DEF AfterFinal, PendingGaps
    <3>2. CASE ~(gap.last > final.seq) BY <2>3, <3>2, NoGapType
    <3> QED BY <3>1, <3>2
  <2>5. gap'.count \in Nat BY <2>4 DEF PendingGaps
  <2>6. CASE encoder \in {"gone", "finished"}
    <3>1. error' = TRUE /\ UNCHANGED <<log, unread>> BY <1>4, <2>6 DEF SendFinal
    <3>2. TypeOK' BY <1>1, <2>5, <3>1 DEF PInv, TypeOK, seqVars
    <3>3. Typed' BY <1>1, <2>4, <3>1 DEF PInv, Typed, seqVars, clock, encVars
    <3>4. Chain' BY <1>1, <2>6 DEF Chain, Open, encVars
    <3>5. EndIsLast' /\ LogTrue' BY <1>1, <3>1, LogSame, EndSame DEF PInv, encVars
    <3> QED BY <3>2, <3>3, <3>4, <3>5 DEF PInv
  <2>7. CASE encoder \notin {"gone", "finished"}
    <3> DEFINE q == IF gap.first < final.seq
                    THEN [from |-> gap.first, to |-> final.seq - 1, scans |-> final.seq - gap.first,
                          start |-> gap.start, end |-> gap.finalPrior]
                    ELSE NoQuality
               m == [final EXCEPT !.gap = q]
    <3>1. /\ log' = Append(log, m) /\ unread < Capacity /\ unread' = unread + 1
          /\ UNCHANGED error /\ encoder \in {"recv", "closing"}
      BY <1>4, <2>7 DEF SendFinal, FinalRow
    <3>2. q \in Qualities
      <4>1. CASE gap.first < final.seq
        <5>1. final.seq - gap.first \in Nat /\ final.seq - 1 \in Int BY <2>2, <4>1
        <5> QED BY <2>2, <4>1, <5>1 DEF Qualities
      <4>2. CASE ~(gap.first < final.seq) BY <4>2 DEF Qualities, NoQuality, Never
      <4> QED BY <4>1, <4>2
    <3>3. IF gap.first < final.seq
          THEN /\ q.from = gap.first /\ q.to = final.seq - 1 /\ q.scans = final.seq - gap.first
               /\ q.start = gap.start /\ q.end = gap.finalPrior
          ELSE q.scans = 0
      BY DEF NoQuality
    <3> HIDE DEF q
    <3>4. /\ m \in RowMessages /\ ~IsEnd(m) /\ m.gap = q
          /\ m.seq = final.seq /\ m.stamp = final.stamp /\ m.clockGap = final.clockGap
          /\ m.read = final.read /\ m.peakFrom = final.peakFrom
      BY <2>2, <3>2, RowWithGap
    <3> HIDE DEF m
    <3>5. Pending /\ FinalDivides BY <1>1, <3>1 DEF PInv, Chain, Open
    <3>6. /\ Marked(final)
          /\ gap.first <= final.seq /\ final.seq <= gap.last
          /\ LastStamp <= final.stamp /\ final.stamp <= gap.end
          /\ (gap.first < final.seq => gap.start <= gap.finalPrior /\ gap.finalPrior <= final.stamp)
          /\ (gap.last # final.seq => final.stamp <= gap.finalAfter /\ gap.finalAfter <= gap.end)
      BY <1>4, <3>5 DEF FinalDivides
    <3>7. /\ gap.count # 0 /\ gap.first = LastSeq + 1 /\ gap.last = LastSeq + gap.count
          /\ LastStamp <= gap.start /\ gap.end <= Stamp
          /\ nextSeq = LastSeq + 1 + gap.count
      <4>1. gap.count # 0 BY <1>4, <3>5 DEF Pending
      <4>2. gap.count > 0 BY <2>2, <4>1
      <4>3. nextSeq = LastSeq + 1 + gap.count BY <1>1, <2>2, <3>5 DEF Pending
      <4> QED BY <3>5, <4>1, <4>2, <4>3 DEF Pending
    <3>8. Follows(m)
      <4>1. CASE gap.first < final.seq
        <5>1. /\ m.gap.from = LastSeq + 1 /\ m.gap.to = m.seq - 1
              /\ LastStamp <= m.gap.start /\ m.gap.start <= m.gap.end /\ m.gap.end <= m.stamp
          BY <3>3, <3>4, <3>6, <3>7, <4>1
        <5>2. m.gap.scans = m.gap.to - m.gap.from + 1 /\ m.gap.scans # 0
          BY <2>2, <3>3, <3>4, <4>1
        <5> QED BY <5>1, <5>2 DEF Follows
      <4>2. CASE ~(gap.first < final.seq)
        <5>1. m.gap.scans = 0 BY <3>3, <3>4, <4>2
        <5>2. m.seq = LastSeq + 1 BY <2>2, <3>4, <3>6, <3>7, <4>2
        <5> QED BY <3>4, <3>6, <5>1, <5>2 DEF Follows, Marked
      <4> QED BY <4>1, <4>2
    <3>9. /\ LogTrue' /\ LastSeq' = m.seq /\ LastStamp' = m.stamp
          /\ log' \in Seq(RowMessages \cup EndMessages) /\ Len(log') = Len(log) + 1
          /\ log' # <<>> /\ log'[Len(log')] = m /\ \A i \in DOMAIN log : log'[i] = log[i]
      BY <3>1, <3>4, <3>8, SendTrue DEF PInv
    <3>10. EndIsLast' /\ unread' \in 0..Capacity /\ unread' <= Len(log')
      <4>1. ~IsEnd(log'[Len(log')]) BY <3>4, <3>9
      <4>2. DOMAIN log' = 1..Len(log') BY <3>9
      <4> QED BY <1>1, <3>1, <3>9, <4>1, <4>2, SendCounts DEF encVars
    <3>11. TypeOK' BY <1>1, <2>5, <3>10 DEF PInv, TypeOK, seqVars
    <3>12. Typed' BY <1>1, <2>4, <3>1, <3>9 DEF PInv, Typed, seqVars, clock, encVars
    <3>13. Pending'
      <4>1. LastStamp' <= Stamp' /\ resetAt' <= Stamp'
        <5>1. final.stamp <= Stamp BY <1>2, <2>2, <3>6, <3>7
        <5>2. resetAt <= Stamp BY <3>5 DEF Pending
        <5> QED BY <1>1, <1>2, <3>4, <3>9, <5>1, <5>2
      <4>2. nextSeq = gap.last + 1 BY <2>2, <3>7
      <4>3. CASE gap.last > final.seq
        <5>1. gap'.count # 0 BY <2>2, <2>3, <4>3
        <5>2. gap'.last = LastSeq' + gap'.count /\ gap'.first = LastSeq' + 1
          BY <2>2, <2>3, <3>4, <3>9, <4>3
        <5>3. gap.finalAfter # Never
          <6>1. final.stamp <= gap.finalAfter BY <2>2, <3>6, <4>3
          <6> QED BY <2>2, <6>1 DEF Never
        <5>4. LastStamp' <= gap'.start /\ gap'.start <= gap'.end /\ gap'.end <= Stamp'
          <6>1. gap.last # final.seq BY <2>2, <4>3
          <6>2. final.stamp <= gap.finalAfter /\ gap.finalAfter <= gap.end BY <3>6, <6>1
          <6>3. gap'.start = gap.finalAfter /\ gap'.end = gap.end BY <2>3, <4>3, <5>3
          <6> QED BY <1>2, <3>4, <3>7, <3>9, <6>2, <6>3
        <5>5. nextSeq' = LastSeq' + 1 + gap'.count + (IF pc' = "send" THEN 1 ELSE 0)
          <6>1. gap.last + 1 = final.seq + 1 + (gap.last - final.seq) BY <2>2
          <6>2. nextSeq' = LastSeq' + 1 + gap'.count BY <1>1, <2>3, <3>4, <3>9, <4>2, <4>3, <6>1 DEF seqVars
          <6>3. LastSeq' + 1 + gap'.count \in Int BY <2>2, <2>5, <3>4, <3>9
          <6> QED BY <1>1, <6>2, <6>3
        <5> QED BY <4>1, <5>1, <5>2, <5>4, <5>5 DEF Pending
      <4>4. CASE ~(gap.last > final.seq)
        <5>1. gap' = NoGap /\ gap'.count = 0 BY <2>3, <4>4, NoGapType
        <5>2. gap.last = final.seq BY <2>2, <3>6, <4>4
        <5>3. nextSeq' = LastSeq' + 1 + gap'.count + (IF pc' = "send" THEN 1 ELSE 0)
          BY <1>1, <2>2, <3>4, <3>9, <4>2, <5>1, <5>2 DEF seqVars
        <5> QED BY <1>1, <4>1, <5>1, <5>3 DEF Pending
      <4> QED BY <4>3, <4>4
    <3>14. RowInHand' /\ FinalDivides' BY <1>1 DEF RowInHand, FinalDivides
    <3> QED BY <3>9, <3>10, <3>11, <3>12, <3>13, <3>14 DEF PInv, Chain
  <2> QED BY <2>6, <2>7
<1> QED BY <1>3, <1>4

\* The End, with what is left of the gap.
LEMMA StepSendEnd ==
    ASSUME PInv, SendEnd
    PROVE  PInv'
<1>1. /\ pc = "end" /\ pc' = "join" /\ gap' = NoGap
      /\ UNCHANGED <<clock, seqVars, final, row, resetAt, encVars, result>>
  BY DEF SendEnd
<1>2. Chain' BY <1>1 DEF Chain, Open
<1>3. gap' \in PendingGaps /\ gap'.count \in Nat BY <1>1, NoGapType
<1>4. CASE encoder \in {"gone", "finished"}
  <2>1. error' = TRUE /\ UNCHANGED <<log, unread>> BY <1>4 DEF SendEnd
  <2>2. TypeOK' BY <1>1, <1>3, <2>1 DEF PInv, TypeOK, seqVars
  <2>3. Typed' BY <1>1, <1>3, <2>1 DEF PInv, Typed, seqVars, clock, encVars
  <2>4. EndIsLast' /\ LogTrue' BY <1>1, <2>1, LogSame, EndSame DEF PInv, encVars
  <2> QED BY <1>2, <2>2, <2>3, <2>4 DEF PInv
<1>5. CASE encoder \notin {"gone", "finished"}
  <2> DEFINE m == [seq |-> nextSeq, at |-> now, stamp |-> Stamp, end |-> TRUE,
                   error |-> error, gap |-> Attached(gap)]
  <2>1. /\ log' = Append(log, m) /\ unread < Capacity /\ unread' = unread + 1
        /\ UNCHANGED error /\ encoder \in {"recv", "closing"}
    BY <1>5 DEF SendEnd
  <2>2. /\ nextSeq \in Nat /\ now \in Nat /\ Stamp \in Nat /\ error \in BOOLEAN
        /\ LastSeq \in Int /\ LastStamp \in Nat
        /\ gap \in PendingGaps /\ gap.count \in Nat /\ Attached(gap) \in Qualities
    BY LastTypes, AttachedFields DEF PInv, Typed, TypeOK
  <2>3. /\ m \in EndMessages /\ IsEnd(m) /\ m.gap = Attached(gap) /\ m.seq = nextSeq /\ m.stamp = Stamp
    BY <2>2 DEF EndMessages, IsEnd
  <2> HIDE DEF m
  <2>4. Pending BY <1>1, <2>1 DEF PInv, Chain, Open
  <2>5. nextSeq = LastSeq + 1 + gap.count BY <1>1, <2>2, <2>4 DEF Pending
  <2>6. Follows(m)
    <3>1. CASE gap.count = 0
      <4>1. m.gap.scans = 0 BY <2>2, <2>3, <3>1, AttachedFields
      <4>2. m.seq = LastSeq + 1 BY <2>2, <2>3, <2>5, <3>1
      <4> QED BY <2>3, <4>1, <4>2 DEF Follows
    <3>2. CASE gap.count > 0
      <4>1. /\ m.gap.from = gap.first /\ m.gap.to = gap.last /\ m.gap.scans = gap.count
            /\ m.gap.start = gap.start /\ m.gap.end = gap.end
        BY <2>2, <2>3, <3>2, AttachedFields
      <4>2. /\ gap.first = LastSeq + 1 /\ gap.last = LastSeq + gap.count
            /\ LastStamp <= gap.start /\ gap.start <= gap.end /\ gap.end <= Stamp
        BY <2>4, <3>2 DEF Pending
      <4>3. m.gap.to = m.seq - 1 BY <2>2, <2>3, <2>5, <4>1, <4>2
      <4>4. m.gap.scans = m.gap.to - m.gap.from + 1 BY <2>2, <4>1, <4>2
      <4>5. m.gap.scans # 0 BY <3>2, <4>1
      <4>6. /\ m.gap.from = LastSeq + 1 /\ LastStamp <= m.gap.start /\ m.gap.start <= m.gap.end
            /\ m.gap.end <= m.stamp
        BY <2>3, <4>1, <4>2
      <4> QED BY <4>3, <4>4, <4>5, <4>6 DEF Follows
    <3> QED BY <2>2, <3>1, <3>2
  <2>7. /\ LogTrue'
        /\ log' \in Seq(RowMessages \cup EndMessages) /\ Len(log') = Len(log) + 1
        /\ \A i \in DOMAIN log : log'[i] = log[i]
    BY <2>1, <2>3, <2>6, SendTrue DEF PInv
  <2>8. EndIsLast' /\ unread' \in 0..Capacity /\ unread' <= Len(log')
    <3>1. DOMAIN log' = 1..Len(log') BY <2>7
    <3> QED BY <1>1, <2>1, <2>7, <3>1, SendCounts DEF encVars
  <2>9. TypeOK' BY <1>1, <1>3, <2>8 DEF PInv, TypeOK, seqVars
  <2>10. Typed' BY <1>1, <1>3, <2>1, <2>7 DEF PInv, Typed, seqVars, clock, encVars
  <2> QED BY <1>2, <2>7, <2>8, <2>9, <2>10 DEF PInv
<1> QED BY <1>4, <1>5

-----------------------------------------------------------------------------
(* The end of the producer, and the encoder                                 *)

\* The receiver is gone: the row is lost, and the run will end with an error.
LEMMA StepDisconnected ==
    ASSUME PInv, Disconnected
    PROVE  PInv'
<1>1. /\ pc = "send" /\ pc' = "final" /\ encoder \in {"gone", "finished"}
      /\ row' = NoRow /\ error' = TRUE
      /\ UNCHANGED <<clock, seqVars, gapVars, resetAt, log, unread, encVars, result>>
  BY DEF Disconnected, Fails
<1>2. TypeOK' BY <1>1 DEF PInv, TypeOK, seqVars, gapVars
<1>3. Typed' BY <1>1 DEF PInv, Typed, clock, seqVars, gapVars, encVars
<1>4. Chain' BY <1>1 DEF Chain, Open, encVars
<1>5. EndIsLast' /\ LogTrue' BY <1>1, LogSame, EndSame DEF PInv, encVars
<1> QED BY <1>2, <1>3, <1>4, <1>5 DEF PInv

\* run_macos returns.
LEMMA StepJoin ==
    ASSUME PInv, Join
    PROVE  PInv'
<1>1. /\ pc = "join" /\ pc' = "done" /\ result' \in {"ok", "error", "writer error"}
      /\ result' = "ok" => encoded
      /\ UNCHANGED <<clock, seqVars, gapVars, row, resetAt, error, log, unread, encVars>>
  BY DEF Join
<1>2. TypeOK' BY <1>1 DEF PInv, TypeOK, seqVars, gapVars
<1>3. Typed' BY <1>1 DEF PInv, Typed, clock, seqVars, gapVars, encVars
<1>4. Chain' BY <1>1 DEF Chain, Open
<1>5. EndIsLast'
  <2>1. UNCHANGED <<log, unread, encoded>> BY <1>1 DEF encVars
  <2> QED BY <1>1, <2>1 DEF PInv, EndIsLast, IsEnd
<1>6. LogTrue' BY <1>1, LogSame DEF PInv
<1> QED BY <1>2, <1>3, <1>4, <1>5, <1>6 DEF PInv

\* The encoder takes a message, fails, or returns.
LEMMA StepEncoder ==
    ASSUME PInv, Encoder
    PROVE  PInv'
<1>1. /\ UNCHANGED <<clock, pc, seqVars, gapVars, row, resetAt, error, log, result>>
      /\ encoder \in {"recv", "closing", "gone"}
      /\ encoder' \in {"recv", "closing", "gone", "finished"}
      /\ encoder' \in {"recv", "closing"} => encoder \in {"recv", "closing"}
  BY DEF Encoder, Receive, EncoderFails, EncoderReturns, encVars
<1>2. unread \in 0..Capacity /\ unread <= Len(log) /\ Len(log) \in Nat /\ Capacity \in Nat
      /\ DOMAIN log = 1..Len(log) /\ (log = <<>> <=> Len(log) = 0)
  BY LastTypes, ProducerAssumption DEF PInv, TypeOK
<1>3. unread' \in 0..Capacity /\ unread' <= Len(log)
  <2>1. CASE EncoderReturns BY <1>2, <2>1 DEF EncoderReturns
  <2>2. CASE Receive \/ EncoderFails
    <3>1. unread > 0 /\ unread' = unread - 1 BY <2>2 DEF Receive, EncoderFails
    <3> QED BY <1>2, <3>1
  <2> QED BY <2>1, <2>2 DEF Encoder
<1>4. /\ encoded' \in BOOLEAN
      /\ encoded' => log # <<>> /\ IsEnd(log[Len(log)]) /\ ~log[Len(log)].error /\ unread' = 0
      /\ result = "ok" => encoded'
  <2>1. CASE EncoderReturns
    <3>1. UNCHANGED encoded /\ (unread' = 0 \/ unread' = unread) BY <2>1 DEF EncoderReturns
    <3> QED BY <3>1 DEF PInv, Typed, EndIsLast
  <2>2. CASE Receive \/ EncoderFails
    <3>1. unread > 0 /\ unread' = unread - 1 BY <2>2 DEF Receive, EncoderFails
    <3>2. ~encoded /\ result # "ok" BY <1>2, <3>1 DEF PInv, EndIsLast
    <3>3. CASE UNCHANGED encoded BY <3>2, <3>3 DEF PInv, Typed
    <3>4. CASE ~UNCHANGED encoded
      <4> DEFINE i == Len(log) - unread + 1
      <4>1. IsEnd(log[i]) /\ encoded' = ~log[i].error BY <2>2, <3>4 DEF Receive, EncoderFails, encVars
      <4>2. i \in DOMAIN log BY <1>2, <3>1
      <4>3. i = Len(log) BY <4>1, <4>2 DEF PInv, EndIsLast
      <4>4. unread' = 0 /\ log # <<>> BY <1>2, <3>1, <4>3
      <4> QED BY <3>2, <4>1, <4>3, <4>4
    <3> QED BY <3>3, <3>4
  <2> QED BY <2>1, <2>2 DEF Encoder
<1>5. TypeOK' BY <1>1, <1>3 DEF PInv, TypeOK, seqVars, gapVars
<1>6. Typed' BY <1>1, <1>4 DEF PInv, Typed, clock, seqVars, gapVars
<1>7. Chain'
  <2>1. Stamp' = Stamp /\ Stamp \in Nat BY <1>1, LastTypes DEF PInv, Stamp, clock
  <2>2. Stamp <= Stamp' BY <2>1
  <2>3. Open' => Open BY <1>1 DEF Open
  <2> QED BY <1>1, <2>1, <2>2, <2>3, ChainSame DEF PInv
<1>8. EndIsLast' BY <1>1, <1>4 DEF PInv, EndIsLast, IsEnd
<1>9. LogTrue' BY <1>1, LogSame DEF PInv
<1> QED BY <1>5, <1>6, <1>7, <1>8, <1>9 DEF PInv

-----------------------------------------------------------------------------
(* The theorems                                                             *)

\* The first state satisfies the invariant.
LEMMA InitPInv == Init => PInv
<1> SUFFICES ASSUME Init PROVE PInv OBVIOUS
<1> USE DEF Init
<1>1. TypeOK BY NoGapType, ProducerAssumption DEF TypeOK
<1>2. Typed
  <2>1. prevStamp \in Int /\ log \in Seq(RowMessages \cup EndMessages) BY DEF Never
  <2> QED BY <2>1, NoGapType DEF Typed
<1>3. LastSeq = -1 /\ LastStamp = 0 /\ Stamp = 0 BY DEF LastSeq, LastStamp, Stamp
<1>4. Pending BY <1>3, NoGapType DEF Pending
<1>5. RowInHand /\ FinalDivides BY DEF RowInHand, FinalDivides
<1>6. EndIsLast /\ LogTrue
  BY DEF EndIsLast, LogTrue, GapsTrue, GapExact, GapInPlace, NothingUnmarked, JumpMarked, PeakCovers,
         Delivered
<1> QED BY <1>1, <1>2, <1>4, <1>5, <1>6 DEF PInv, Chain

\* What is pending, what has been sent and what the encoder thinks of it fit at every step of
\* both threads.
THEOREM ProducerInvariance == Spec => []PInv
<1>1. PInv /\ [Next]_vars => PInv'
  <2> SUFFICES ASSUME PInv, [Next]_vars PROVE PInv' OBVIOUS
  <2>1. CASE Tick \/ Sleep \/ RequestStop BY <2>1, StepClock
  <2>2. CASE Top \/ Wait \/ ScanFails BY <2>2, StepLoop
  <2>3. CASE Scan BY <2>3, StepScan
  <2>4. CASE Accepted BY <2>4, StepAccepted
  <2>5. CASE Dropped BY <2>5, StepDropped
  <2>6. CASE Disconnected BY <2>6, StepDisconnected
  <2>7. CASE Trailing BY <2>7, StepTrailing
  <2>8. CASE SendFinal BY <2>8, StepSendFinal
  <2>9. CASE SendEnd BY <2>9, StepSendEnd
  <2>10. CASE Join BY <2>10, StepJoin
  <2>11. CASE Encoder BY <2>11, StepEncoder
  <2>12. CASE UNCHANGED vars
    <3> USE <2>12 DEF vars
    <3>1. TypeOK' BY DEF PInv, TypeOK, seqVars, gapVars
    <3>2. Typed' BY DEF PInv, Typed, clock, seqVars, gapVars, encVars
    <3>3. Stamp' = Stamp /\ Stamp \in Nat BY LastTypes DEF PInv, Stamp, clock
    <3>4. Stamp <= Stamp' BY <3>3
    <3>5. Open' => Open BY DEF Open, encVars
    <3>6. Chain' BY <3>3, <3>4, <3>5, ChainSame DEF PInv
    <3>7. EndIsLast' /\ LogTrue' BY LogSame, EndSame DEF PInv, encVars
    <3> QED BY <3>1, <3>2, <3>6, <3>7 DEF PInv
  <2> QED BY <2>1, <2>2, <2>3, <2>4, <2>5, <2>6, <2>7, <2>8, <2>9, <2>10, <2>11, <2>12
          DEF Next, Producer, Done
<1> QED BY <1>1, InitPInv, PTL DEF Spec

\* Every gap that PendingGap and take_final_scan send is true, in numbers and in time.
THEOREM AlwaysGapsTrue == Spec => []GapsTrue
<1>1. PInv => GapsTrue BY DEF PInv, LogTrue
<1> QED BY <1>1, ProducerInvariance, PTL

\* No jump of the clock and no peak is lost between two rows without a mark.
THEOREM AlwaysNothingUnmarked == Spec => []NothingUnmarked
<1>1. PInv => NothingUnmarked BY DEF PInv, LogTrue
<1> QED BY <1>1, ProducerInvariance, PTL

\* run_macos returns Ok only if the encoder took everything and the End was orderly.
THEOREM AlwaysOkMeansAll == Spec => []OkMeansAll
<1>1. PInv => OkMeansAll BY DEF PInv, EndIsLast, OkMeansAll
<1> QED BY <1>1, ProducerInvariance, PTL

-----------------------------------------------------------------------------
(* The schedule                                                             *)

\* Multiples of the interval
LEMMA Multiples ==
    ASSUME NEW a \in Int, NEW b \in Int
    PROVE  /\ a * Interval \in Int /\ (a + b) * Interval = a * Interval + b * Interval
           /\ (a + 1) * Interval = a * Interval + Interval /\ (a - 1) * Interval = a * Interval - Interval
           /\ a < b => a * Interval < b * Interval
           /\ a <= b => a * Interval <= b * Interval
<1>1. Interval \in Nat /\ Interval >= 1 BY ProducerAssumption
<1>2. \A x, y \in Int : (x + y) * Interval = x * Interval + y * Interval BY <1>1
<1>3. a * Interval \in Int /\ b * Interval \in Int /\ 1 * Interval = Interval BY <1>1
<1>4. (a + 1) * Interval = a * Interval + Interval BY <1>2, <1>3
<1>5. (a - 1) * Interval = a * Interval - Interval
  <2>1. ((a - 1) + 1) * Interval = (a - 1) * Interval + 1 * Interval BY <1>2
  <2>2. (a - 1) + 1 = a /\ (a - 1) * Interval \in Int BY <1>1
  <2> QED BY <1>1, <1>3, <2>1, <2>2
<1>6. ASSUME NEW c \in Nat PROVE c * Interval >= c BY <1>1
<1>7. ASSUME a <= b PROVE a * Interval + (b - a) <= b * Interval
  <2>1. b - a \in Nat BY <1>7
  <2>2. (b - a) * Interval >= b - a BY <1>6, <2>1
  <2>3. (a + (b - a)) * Interval = a * Interval + (b - a) * Interval BY <1>2, <2>1
  <2>4. a + (b - a) = b /\ (b - a) * Interval \in Int BY <1>1
  <2> QED BY <1>3, <2>1, <2>2, <2>3, <2>4
<1>8. a < b => a * Interval < b * Interval
  <2> SUFFICES ASSUME a < b PROVE a * Interval < b * Interval OBVIOUS
  <2>1. a <= b OBVIOUS
  <2>2. a * Interval + (b - a) <= b * Interval BY <1>7, <2>1
  <2> QED BY <1>3, <2>2
<1>9. a <= b => a * Interval <= b * Interval
  <2> SUFFICES ASSUME a <= b PROVE a * Interval <= b * Interval OBVIOUS
  <2>2. a * Interval + (b - a) <= b * Interval BY <1>7
  <2> QED BY <1>3, <2>2
<1>10. (a + b) * Interval = a * Interval + b * Interval BY <1>2
<1> QED BY <1>3, <1>4, <1>5, <1>8, <1>9, <1>10

\* They keep the order.
LEMMA MultipleOrder ==
    ASSUME NEW a \in Int, NEW b \in Int, a <= b
    PROVE  a * Interval \in Int /\ b * Interval \in Int /\ a * Interval <= b * Interval
<1>1. a * Interval \in Int /\ b * Interval \in Int BY ProducerAssumption
<1>2. a * Interval <= b * Interval BY Multiples
<1> QED BY <1>1, <1>2

\* What \div gives
LEMMA Quotient ==
    ASSUME NEW a \in Nat
    PROVE  a \div Interval \in Nat /\ (a \div Interval) * Interval <= a /\ a < (a \div Interval) * Interval + Interval
<1>1. Interval \in Nat /\ Interval >= 1 BY ProducerAssumption
<1>2. a \div Interval \in Nat BY <1>1
<1>3. (a \div Interval) * Interval <= a BY <1>1
<1>4. a < (a \div Interval) * Interval + Interval BY <1>1
<1> QED BY <1>2, <1>3, <1>4

\* A deadline is due at t if it is not after t and before the end of the duration.
Due(d, t) == d <= t /\ (Duration > 0 => d < Duration)

\* missed_deadlines counts those that are due, and all of them.
LEMMA MissedExact ==
    ASSUME Typed, TypeOK, NEW t \in Nat, NEW m, m = MissedAt(t)
    PROVE  /\ m \in Nat
           /\ m > 0 => Due(nextDeadline + (m - 1) * Interval, t)
           /\ ~Due(nextDeadline + m * Interval, t)
<1>0. m \in Nat BY MissedType
<1>1. Interval \in Nat \ {0} /\ Duration \in Nat /\ nextDeadline \in Nat
  BY ProducerAssumption DEF TypeOK
<1> DEFINE due == IF t < nextDeadline THEN 0 ELSE (t - nextDeadline) \div Interval + 1
           before == IF Duration = 0 THEN due ELSE IF nextDeadline >= Duration THEN 0
                     ELSE (Duration - nextDeadline - 1) \div Interval + 1
<1>2. m = Least(due, before) BY DEF MissedAt
<1>3. /\ due \in Nat /\ due * Interval \in Int /\ nextDeadline + due * Interval > t
      /\ due > 0 => nextDeadline + due * Interval - Interval <= t
  <2>1. CASE t < nextDeadline
    <3>1. due = 0 /\ 0 * Interval = 0 BY <1>1, <2>1
    <3> QED BY <1>1, <2>1, <3>1
  <2>2. CASE ~(t < nextDeadline)
    <3>1. t - nextDeadline \in Nat /\ t >= nextDeadline BY <1>1, <2>2
    <3>2. PICK q : q = (t - nextDeadline) \div Interval OBVIOUS
    <3>3. q \in Nat /\ q * Interval <= t - nextDeadline /\ t - nextDeadline < q * Interval + Interval
      BY <3>1, <3>2, Quotient
    <3>4. due = q + 1 BY <2>2, <3>2
    <3>5. (q + 1) * Interval = q * Interval + Interval /\ q * Interval \in Int BY <3>3, Multiples
    <3> HIDE DEF due
    <3> QED BY <1>1, <3>3, <3>4, <3>5
  <2> QED BY <2>1, <2>2
<1>4. CASE Duration = 0
  <2>1. before = due BY <1>4
  <2>2. m = due BY <1>2, <2>1 DEF Least
  <2>3. (m - 1) * Interval = m * Interval - Interval BY <1>0, Multiples
  <2> HIDE DEF due, before
  <2> QED BY <1>0, <1>1, <1>3, <1>4, <2>2, <2>3 DEF Due
<1>5. CASE Duration # 0
  <2>1. /\ before \in Nat /\ before * Interval \in Int /\ nextDeadline + before * Interval >= Duration
        /\ before > 0 => nextDeadline + before * Interval - Interval < Duration
    <3>1. CASE nextDeadline >= Duration
      <4>1. before = 0 /\ 0 * Interval = 0 BY <1>1, <1>5, <3>1
      <4> QED BY <1>1, <3>1, <4>1
    <3>2. CASE ~(nextDeadline >= Duration)
      <4>1. Duration - nextDeadline - 1 \in Nat /\ nextDeadline < Duration BY <1>1, <3>2
      <4>2. PICK q : q = (Duration - nextDeadline - 1) \div Interval OBVIOUS
      <4>3. /\ q \in Nat /\ q * Interval <= Duration - nextDeadline - 1
            /\ Duration - nextDeadline - 1 < q * Interval + Interval
        BY <4>1, <4>2, Quotient
      <4>4. before = q + 1 BY <1>5, <3>2, <4>2
      <4>5. (q + 1) * Interval = q * Interval + Interval /\ q * Interval \in Int BY <4>3, Multiples
      <4> HIDE DEF due, before
      <4> QED BY <1>1, <4>3, <4>4, <4>5
    <3> QED BY <3>1, <3>2
  <2> HIDE DEF due, before
  <2>2. m = due \/ m = before BY <1>2 DEF Least
  <2>3. m <= due /\ m <= before BY <1>2, <1>3, <2>1 DEF Least
  <2>4. /\ (m - 1) * Interval = m * Interval - Interval /\ m * Interval \in Int
        /\ m * Interval <= due * Interval /\ m * Interval <= before * Interval
    BY <1>0, <1>3, <2>1, <2>3, Multiples
  <2>5. ~Due(nextDeadline + m * Interval, t) BY <1>1, <1>3, <1>5, <2>1, <2>2 DEF Due
  <2>6. ASSUME m > 0 PROVE Due(nextDeadline + (m - 1) * Interval, t)
    <3>1. due > 0 /\ before > 0 BY <1>0, <1>3, <2>1, <2>3, <2>6
    <3> QED BY <1>1, <1>3, <2>1, <2>4, <3>1 DEF Due
  <2> QED BY <1>0, <2>5, <2>6
<1> QED BY <1>1, <1>4, <1>5

\* A run that has counted up to t has given its first n numbers to the deadlines that were due.
Counted(n, t) == \A k \in Nat : k < n <=> Due(k * Interval, t)

Sampling == pc \in {"top", "wait", "scan", "send", "trailing"}

SchedInv ==
    /\ lookedAt \in Nat
    /\ pc \in {"top", "wait", "scan", "trailing"} => nextDeadline = nextSeq * Interval
    /\ pc = "send" => nextDeadline = (nextSeq - 1) * Interval /\ row.at >= row.seq * Interval
    /\ pc = "scan" => Due(nextDeadline, now)
    /\ Sampling /\ nextSeq > 0 => Due((nextSeq - 1) * Interval, now)
    /\ pc \in {"final", "end"} /\ ~error /\ nextSeq > 0 => Counted(nextSeq, lookedAt)
    /\ final # NoRow => final.at >= final.seq * Interval
    /\ ScheduleKept

\* What is due remains due.
LEMMA DueLater ==
    ASSUME NEW d \in Int, NEW t \in Nat, NEW u \in Nat, t <= u, Due(d, t)
    PROVE  Due(d, u)
BY DEF Due

\* The deadlines before the last one that was due were due as well.
LEMMA DueEarlier ==
    ASSUME NEW d \in Int, NEW e \in Int, NEW t \in Nat, e <= d, Due(d, t)
    PROVE  Due(e, t)
BY ProducerAssumption DEF Due

\* If its last number is due and the next is not, it has counted exactly what was due.
LEMMA CountedWhole ==
    ASSUME NEW n \in Nat, NEW t \in Nat, n > 0 => Due((n - 1) * Interval, t), ~Due(n * Interval, t)
    PROVE  Counted(n, t)
<1> SUFFICES ASSUME NEW k \in Nat PROVE k < n <=> Due(k * Interval, t)
  BY DEF Counted
<1>1. CASE k < n
  <2>1. k <= n - 1 /\ n - 1 \in Int /\ n > 0 BY <1>1
  <2>2. k * Interval <= (n - 1) * Interval /\ k * Interval \in Int /\ (n - 1) * Interval \in Int
    BY <2>1, MultipleOrder
  <2> QED BY <1>1, <2>1, <2>2, DueEarlier
<1>2. CASE n <= k
  <2>1. n * Interval <= k * Interval /\ k * Interval \in Int /\ n * Interval \in Int BY <1>2, MultipleOrder
  <2>2. ~Due(k * Interval, t) BY <2>1, DueEarlier
  <2> QED BY <1>2, <2>2
<1> QED BY <1>1, <1>2

\* Nothing is sent.
LEMMA KeptSame ==
    ASSUME ScheduleKept, log' = log,
           lookedAt' = lookedAt \/ \A i \in DOMAIN log : ~IsEnd(log[i])
    PROVE  ScheduleKept'
<1>1. \A i \in Delivered' : log'[i].at >= log'[i].seq * Interval BY DEF ScheduleKept, Delivered, IsEnd
<1>2. ASSUME NEW i \in DOMAIN log, IsEnd(log[i]), ~log[i].error, log[i].seq > 0, NEW k \in 0..MaxTime
      PROVE  k < log[i].seq <=> k * Interval <= lookedAt' /\ (Duration > 0 => k * Interval < Duration)
  BY <1>2 DEF ScheduleKept
<1> QED BY <1>1, <1>2 DEF ScheduleKept, IsEnd

\* A row that is not early, or an End that has counted all, is sent.
LEMMA KeptAppend ==
    ASSUME Typed, ScheduleKept, NEW m \in RowMessages \cup EndMessages, log' = Append(log, m),
           lookedAt' = lookedAt,
           ~IsEnd(m) => m.at >= m.seq * Interval,
           IsEnd(m) /\ ~m.error /\ m.seq > 0 => Counted(m.seq, lookedAt)
    PROVE  ScheduleKept'
<1>1. /\ DOMAIN log' = 1..Len(log) + 1 /\ DOMAIN log = 1..Len(log) /\ Len(log) \in Nat
      /\ \A i \in DOMAIN log : log'[i] = log[i] /\ log'[Len(log) + 1] = m
      /\ log'[Len(log) + 1] = m
  BY DEF Typed
<1>2. ASSUME NEW i \in DOMAIN log', ~IsEnd(log'[i]) PROVE log'[i].at >= log'[i].seq * Interval
  <2>1. CASE i \in DOMAIN log BY <1>1, <1>2, <2>1 DEF ScheduleKept, Delivered
  <2>2. CASE i = Len(log) + 1 BY <1>1, <1>2, <2>2
  <2> QED BY <1>1, <2>1, <2>2
<1>3. ASSUME NEW i \in DOMAIN log', IsEnd(log'[i]), ~log'[i].error, log'[i].seq > 0, NEW k \in 0..MaxTime
      PROVE  k < log'[i].seq <=> k * Interval <= lookedAt /\ (Duration > 0 => k * Interval < Duration)
  <2>1. CASE i \in DOMAIN log BY <1>1, <1>3, <2>1 DEF ScheduleKept
  <2>2. CASE i = Len(log) + 1
    <3>1. Counted(m.seq, lookedAt) /\ log'[i] = m BY <1>1, <1>3, <2>2
    <3>2. k \in Nat BY ProducerAssumption
    <3> QED BY <3>1, <3>2 DEF Counted, Due
  <2> QED BY <1>1, <2>1, <2>2
<1> QED BY <1>2, <1>3 DEF ScheduleKept, Delivered, IsEnd

\* Nothing has been counted.
LEMMA InitSchedInv == Init => SchedInv
<1> SUFFICES ASSUME Init PROVE SchedInv OBVIOUS
<1>1. 0 * Interval = 0 BY ProducerAssumption
<1>2. ScheduleKept BY DEF Init, ScheduleKept, Delivered
<1> QED BY <1>1, <1>2 DEF Init, SchedInv, Sampling

\* Only the clock goes on, or only the encoder.
LEMMA SchedQuiet ==
    ASSUME SchedInv, TypeOK, now \in Nat, now' \in Nat, now <= now',
           UNCHANGED <<pc, nextSeq, nextDeadline, row, final, lookedAt, error, log>>
    PROVE  SchedInv'
<1>1. ScheduleKept' BY KeptSame DEF SchedInv
<1>2. nextDeadline \in Int /\ nextSeq \in Int /\ (nextSeq - 1) * Interval \in Int
  <2>1. \A a \in Int : a * Interval \in Int BY ProducerAssumption
  <2>2. nextDeadline \in Nat /\ nextSeq \in Nat BY DEF TypeOK
  <2>3. nextDeadline \in Int /\ nextSeq \in Int /\ nextSeq - 1 \in Int BY <2>2
  <2> QED BY <2>1, <2>3
<1>3. pc = "scan" => Due(nextDeadline, now') BY <1>2, DueLater DEF SchedInv
<1>4. Sampling /\ nextSeq > 0 => Due((nextSeq - 1) * Interval, now') BY <1>2, DueLater DEF SchedInv
<1>5. Counted(nextSeq, lookedAt) => Counted(nextSeq', lookedAt') OBVIOUS
<1> QED BY <1>1, <1>3, <1>4, <1>5 DEF SchedInv, Sampling

\* The head of the loop catches up with the clock.
LEMMA SchedTop ==
    ASSUME PInv, SchedInv, Top
    PROVE  SchedInv'
<1>0. Typed /\ TypeOK /\ now \in Nat /\ nextSeq \in Nat /\ nextDeadline \in Nat /\ pc = "top"
  BY DEF PInv, Typed, TypeOK, Top
<1>1. UNCHANGED <<now, final, row, lookedAt, log>>
  BY DEF Top, clock
<1>2. ScheduleKept' BY <1>1, KeptSame DEF SchedInv
<1>3. nextDeadline = nextSeq * Interval /\ (nextSeq > 0 => Due((nextSeq - 1) * Interval, now))
  BY <1>0 DEF SchedInv, Sampling
<1>4. CASE stop \/ Finished
  <2>1. /\ pc' = "trailing" \/ (pc' = "final" /\ error')
        /\ UNCHANGED <<nextSeq, nextDeadline>>
    BY <1>4 DEF Top, Fails, seqVars
  <2>2. Due((nextSeq - 1) * Interval, now) => Due((nextSeq' - 1) * Interval, now') BY <1>1, <2>1
  <2> QED BY <1>1, <1>2, <1>3, <2>1, <2>2 DEF SchedInv, Sampling
<1>5. CASE ~stop /\ ~Finished
  <2>1. PICK m : m = (IF nextSeq > 0 THEN MissedAt(now) ELSE 0) OBVIOUS
  <2>2. /\ nextSeq' = nextSeq + m /\ nextDeadline' = nextDeadline + m * Interval
        /\ pc' \in {"trailing", "wait"}
    BY <1>5, <2>1 DEF Top
  <2>3. m \in Nat /\ (m > 0 => Due(nextDeadline + (m - 1) * Interval, now))
    BY <1>0, <2>1, MissedExact
  <2>4. PICK n, d : n = nextSeq' /\ d = nextDeadline' OBVIOUS
  <2>5. d = n * Interval
    BY <1>0, <1>3, <2>2, <2>3, <2>4, Multiples
  <2>6. ASSUME n > 0 PROVE Due((n - 1) * Interval, now)
    <3>1. CASE m = 0
      BY <1>0, <1>3, <2>2, <2>4, <2>6, <3>1
    <3>2. CASE m > 0
      <4>1. n - 1 = nextSeq + (m - 1) BY <1>0, <2>2, <2>3, <2>4
      <4>2. (nextSeq + (m - 1)) * Interval = nextSeq * Interval + (m - 1) * Interval
        BY <1>0, <2>3, Multiples
      <4> QED BY <1>3, <2>3, <3>2, <4>1, <4>2
    <3> QED BY <2>3, <3>1, <3>2
  <2> QED BY <1>1, <1>2, <2>2, <2>4, <2>5, <2>6 DEF SchedInv, Sampling
<1> QED BY <1>4, <1>5

\* A scan waits for its deadline; an error ends the counting.
LEMMA SchedWait ==
    ASSUME PInv, SchedInv, Wait \/ ScanFails \/ Disconnected
    PROVE  SchedInv'
<1>0. now \in Nat /\ Duration \in Nat /\ nextDeadline \in Nat
  BY ProducerAssumption DEF PInv, Typed, TypeOK
<1>1. UNCHANGED <<now, final, lookedAt, log, nextSeq, nextDeadline>>
  BY DEF Wait, ScanFails, Disconnected, clock, seqVars, gapVars
<1>2. ScheduleKept' BY <1>1, KeptSame DEF SchedInv
<1>3. CASE pc' = "final" /\ error'
  BY <1>1, <1>2, <1>3 DEF SchedInv, Sampling
<1>4. CASE Wait /\ pc' \in {"trailing", "scan"}
  <2>1. pc = "wait" /\ (pc' = "scan" => now >= nextDeadline /\ ~PastFinish)
    BY <1>4 DEF Wait, Fails
  <2>2. pc' = "scan" => Due(nextDeadline, now)
    BY <1>0, <2>1 DEF PastFinish, Due
  <2>3. nextDeadline = nextSeq * Interval /\ (nextSeq > 0 => Due((nextSeq - 1) * Interval, now))
    BY <2>1 DEF SchedInv, Sampling
  <2>4. Due(nextDeadline, now) => Due(nextDeadline', now') BY <1>1
  <2>5. Due((nextSeq - 1) * Interval, now) => Due((nextSeq' - 1) * Interval, now') BY <1>1
  <2> QED BY <1>1, <1>2, <1>4, <2>1, <2>2, <2>3, <2>4, <2>5 DEF SchedInv, Sampling
<1> QED BY <1>3, <1>4 DEF Wait, ScanFails, Disconnected, Fails

\* The scan takes the next number.
LEMMA SchedScan ==
    ASSUME PInv, SchedInv, Scan
    PROVE  SchedInv'
<1>0. now \in Nat /\ nextSeq \in Nat /\ nextDeadline \in Nat /\ pc = "scan" /\ pc' = "send"
  BY DEF PInv, Typed, TypeOK, Scan
<1>1. UNCHANGED <<now, final, lookedAt, log, nextDeadline, error>> /\ nextSeq' = nextSeq + 1
  BY DEF Scan, clock, gapVars
<1>2. ScheduleKept' BY <1>1, KeptSame DEF SchedInv
<1>3. row'.at = now /\ row'.seq = nextSeq
  BY DEF Scan
<1>4. nextDeadline = nextSeq * Interval /\ Due(nextDeadline, now) /\ now >= nextDeadline
  BY <1>0 DEF SchedInv, Due
<1>5. PICK n : n = nextSeq' OBVIOUS
<1>6. n - 1 = nextSeq BY <1>0, <1>1, <1>5
<1>7. Due((n - 1) * Interval, now) BY <1>4, <1>6
<1>8. nextDeadline = (n - 1) * Interval BY <1>4, <1>6
<1>9. row'.at >= row'.seq * Interval BY <1>3, <1>4
<1> QED BY <1>0, <1>1, <1>2, <1>5, <1>7, <1>8, <1>9 DEF SchedInv, Sampling

\* Sent or dropped, the row has used up its deadline.
LEMMA SchedSend ==
    ASSUME PInv, SchedInv, Accepted \/ Dropped
    PROVE  SchedInv'
<1>0. now \in Nat /\ nextSeq \in Nat /\ nextDeadline \in Nat /\ pc = "send" /\ pc' = "top"
  BY DEF PInv, Typed, TypeOK, Accepted, Dropped
<1>1. UNCHANGED <<now, lookedAt, nextSeq, error>> /\ nextDeadline' = nextDeadline + Interval
  BY DEF Accepted, Dropped, clock
<1>2. row \in RowMessages /\ row.at >= row.seq * Interval
  BY <1>0 DEF PInv, Typed, Chain, Open, RowInHand, SchedInv
<1>3. nextDeadline + Interval = nextSeq * Interval
  <2>1. (nextSeq - 1) * Interval = nextSeq * Interval - Interval /\ nextSeq * Interval \in Int
    BY <1>0, Multiples
  <2> QED BY <1>0, <2>1, ProducerAssumption DEF SchedInv
<1>4. nextSeq > 0 => Due((nextSeq - 1) * Interval, now) BY <1>0 DEF SchedInv, Sampling
<1>5. ScheduleKept'
  <2>1. CASE Accepted
    <3>1. Attached(gap) \in Qualities BY AttachedFields DEF PInv, Typed
    <3>2. PICK m : m = [row EXCEPT !.gap = Attached(gap)] OBVIOUS
    <3>3. m \in RowMessages /\ ~IsEnd(m) /\ m.seq = row.seq
      BY <1>2, <3>1, <3>2, RowWithGap
    <3>4. m.at = row.at BY <1>2, <3>2 DEF RowMessages
    <3>5. log' = Append(log, m) BY <2>1, <3>2 DEF Accepted
    <3> QED BY <1>1, <1>2, <3>3, <3>4, <3>5, KeptAppend DEF PInv, SchedInv
  <2>2. CASE Dropped
    BY <1>1, <2>2, KeptSame DEF Dropped, SchedInv
  <2> QED BY <2>1, <2>2
<1>6. final' # NoRow => final'.at >= final'.seq * Interval
  BY <1>2 DEF Accepted, Dropped
<1>7. Due((nextSeq - 1) * Interval, now) => Due((nextSeq' - 1) * Interval, now') BY <1>1
<1> QED BY <1>0, <1>1, <1>3, <1>4, <1>5, <1>6, <1>7 DEF SchedInv, Sampling

\* At the end the rest is counted.
LEMMA SchedTrailing ==
    ASSUME PInv, SchedInv, Trailing
    PROVE  SchedInv'
<1>0. Typed /\ TypeOK /\ now \in Nat /\ nextSeq \in Nat /\ nextDeadline \in Nat /\ pc = "trailing" /\ pc' = "final"
  BY DEF PInv, Typed, TypeOK, Trailing
<1>1. UNCHANGED <<now, final, log, error>> /\ lookedAt' = now
  BY DEF Trailing, clock
<1>2. ScheduleKept' BY <1>0, <1>1, NoEndYet, KeptSame DEF SchedInv, PInv
<1>3. nextDeadline = nextSeq * Interval /\ (nextSeq > 0 => Due((nextSeq - 1) * Interval, now))
  BY <1>0 DEF SchedInv, Sampling
<1>4. PICK n : n = nextSeq' OBVIOUS
<1>5. ASSUME n > 0 PROVE Counted(n, now)
  <2>1. PICK m : m = MissedAt(now) OBVIOUS
  <2>2. nextSeq > 0 /\ n = nextSeq + m BY <1>0, <1>4, <1>5, <2>1 DEF Trailing
  <2>3. m \in Nat /\ (m > 0 => Due(nextDeadline + (m - 1) * Interval, now))
    BY <1>0, <2>1, MissedExact
  <2>4. ~Due(nextDeadline + m * Interval, now)
    BY <1>0, <2>1, MissedExact
  <2>5. nextDeadline + m * Interval = n * Interval
    BY <1>0, <1>3, <2>2, <2>3, Multiples
  <2>6. Due((n - 1) * Interval, now)
    <3>1. CASE m = 0
      BY <1>0, <1>3, <2>2, <3>1
    <3>2. CASE m > 0
      <4>1. n - 1 = nextSeq + (m - 1) BY <1>0, <2>2, <2>3
      <4>2. (nextSeq + (m - 1)) * Interval = nextSeq * Interval + (m - 1) * Interval
        BY <1>0, <2>3, Multiples
      <4> QED BY <1>3, <2>3, <3>2, <4>1, <4>2
    <3> QED BY <2>3, <3>1, <3>2
  <2>7. n \in Nat BY <1>0, <2>2, <2>3
  <2> QED BY <1>0, <2>4, <2>5, <2>6, <2>7, CountedWhole
<1>6. nextSeq' > 0 => Counted(nextSeq', lookedAt') BY <1>1, <1>4, <1>5
<1> QED BY <1>0, <1>1, <1>2, <1>6 DEF SchedInv, Sampling

\* What was counted is sent.
LEMMA SchedEnds ==
    ASSUME PInv, SchedInv, SendFinal \/ SendEnd \/ Join
    PROVE  SchedInv'
<1>0. /\ Typed /\ now \in Nat /\ nextSeq \in Nat /\ nextDeadline \in Nat /\ gap \in PendingGaps
      /\ error \in BOOLEAN
  BY DEF PInv, Typed, TypeOK
<1>1. UNCHANGED <<now, lookedAt, nextSeq>>
  BY DEF SendFinal, SendEnd, Join, clock, seqVars
<1>2. CASE SendFinal
  <2>1. /\ pc = "final" /\ pc' = "end" /\ final' = NoRow /\ (error' \/ error' = error)
    BY <1>2 DEF SendFinal
  <2>2. ScheduleKept'
    <3>1. CASE log' = log BY <1>1, <3>1, KeptSame DEF SchedInv
    <3>2. CASE log' # log
      <4>1. /\ final # NoRow /\ log' = Append(log, FinalRow) /\ encoder \in {"recv", "closing"}
        BY <1>2, <3>2 DEF SendFinal
      <4>2. final \in RowMessages /\ final.at >= final.seq * Interval
        BY <1>0, <4>1 DEF Typed, SchedInv
      <4>3. PICK q : q = FinalRow.gap OBVIOUS
      <4>4. FinalRow = [final EXCEPT !.gap = q] /\ q \in Qualities
        <5>1. PICK r : r = (IF gap.first < final.seq
                            THEN [from |-> gap.first, to |-> final.seq - 1, scans |-> final.seq - gap.first,
                                  start |-> gap.start, end |-> gap.finalPrior]
                            ELSE NoQuality)
          OBVIOUS
        <5>2. gap.first \in Int /\ gap.start \in Int /\ gap.finalPrior \in Int BY <1>0 DEF PendingGaps
        <5>3. final.seq \in Nat BY <4>2 DEF RowMessages
        <5>4. r \in Qualities
          <6>1. CASE gap.first < final.seq
            <7>1. final.seq - 1 \in Int /\ final.seq - gap.first \in Nat BY <5>2, <5>3, <6>1
            <7> QED BY <5>1, <5>2, <6>1, <7>1 DEF Qualities
          <6>2. CASE ~(gap.first < final.seq)
            BY <5>1, <6>2 DEF NoQuality, Qualities, Never
          <6> QED BY <6>1, <6>2
        <5>5. FinalRow = [final EXCEPT !.gap = r] BY <5>1 DEF FinalRow
        <5>6. [final EXCEPT !.gap = r].gap = r BY <4>2 DEF RowMessages
        <5> QED BY <4>3, <5>4, <5>5, <5>6
      <4>5. PICK m : m = FinalRow OBVIOUS
      <4>6. m \in RowMessages /\ ~IsEnd(m) /\ m.seq = final.seq
        BY <4>2, <4>4, <4>5, RowWithGap
      <4>7. m.at = final.at BY <4>2, <4>4, <4>5 DEF RowMessages
      <4>8. log' = Append(log, m) BY <4>1, <4>5
      <4> QED BY <1>0, <1>1, <4>2, <4>6, <4>7, <4>8, KeptAppend DEF SchedInv
    <3> QED BY <3>1, <3>2
  <2>3. Counted(nextSeq, lookedAt) => Counted(nextSeq', lookedAt') BY <1>1
  <2> QED BY <1>1, <2>1, <2>2, <2>3 DEF SchedInv, Sampling
<1>3. CASE SendEnd
  <2>1. pc = "end" /\ pc' = "join" /\ final' = final
    BY <1>3 DEF SendEnd
  <2>2. ScheduleKept'
    <3>1. CASE log' = log BY <1>1, <3>1, KeptSame DEF SchedInv
    <3>2. CASE log' # log
      <4>1. PICK m : m = [seq |-> nextSeq, at |-> now, stamp |-> Stamp, end |-> TRUE,
                          error |-> error, gap |-> Attached(gap)]
        OBVIOUS
      <4>2. log' = Append(log, m)
        BY <1>3, <3>2, <4>1 DEF SendEnd
      <4>3. m \in EndMessages /\ IsEnd(m) /\ m.seq = nextSeq /\ m.error = error
        BY <1>0, <4>1, AttachedFields, LastTypes DEF EndMessages, IsEnd
      <4>4. ~m.error /\ m.seq > 0 => Counted(m.seq, lookedAt)
        BY <2>1, <4>3 DEF SchedInv
      <4> QED BY <1>0, <1>1, <4>2, <4>3, <4>4, KeptAppend DEF SchedInv
    <3> QED BY <3>1, <3>2
  <2> QED BY <1>1, <2>1, <2>2 DEF SchedInv, Sampling
<1>4. CASE Join
  <2>1. ScheduleKept' BY <1>1, <1>4, KeptSame DEF SchedInv, Join
  <2> QED BY <1>1, <1>4, <2>1 DEF SchedInv, Sampling, Join, gapVars
<1> QED BY <1>2, <1>3, <1>4

\* Sampling by deadlines, missed_deadlines and the gaps together keep the schedule, however long
\* a scan takes and whatever is dropped: the End of an orderly run counts every deadline that was due.
THEOREM AlwaysScheduleKept == Spec => []ScheduleKept
<1>1. PInv /\ PInv' /\ SchedInv /\ [Next]_vars => SchedInv'
  <2> SUFFICES ASSUME PInv, PInv', SchedInv, [Next]_vars PROVE SchedInv' OBVIOUS
  <2>0. TypeOK /\ now \in Nat /\ now' \in Nat BY DEF PInv, Typed
  <2>1. CASE Tick \/ Sleep \/ RequestStop \/ Encoder \/ UNCHANGED vars
    <3>1. now <= now' BY <2>0, <2>1 DEF Tick, Sleep, RequestStop, Encoder, Receive, EncoderFails, EncoderReturns, vars, clock
    <3>2. UNCHANGED <<pc, nextSeq, nextDeadline, row, final, lookedAt, error, log>>
      BY <2>1 DEF Tick, Sleep, RequestStop, Encoder, Receive, EncoderFails, EncoderReturns, vars, seqVars, gapVars
    <3> QED BY <2>0, <3>1, <3>2, SchedQuiet
  <2>2. CASE Top BY <2>2, SchedTop
  <2>3. CASE Wait \/ ScanFails \/ Disconnected BY <2>3, SchedWait
  <2>4. CASE Scan BY <2>4, SchedScan
  <2>5. CASE Accepted \/ Dropped BY <2>5, SchedSend
  <2>6. CASE Trailing BY <2>6, SchedTrailing
  <2>7. CASE SendFinal \/ SendEnd \/ Join BY <2>7, SchedEnds
  <2> QED BY <2>1, <2>2, <2>3, <2>4, <2>5, <2>6, <2>7 DEF Next, Producer, Done
<1>2. SchedInv => ScheduleKept BY DEF SchedInv
<1> QED BY <1>1, <1>2, InitSchedInv, ProducerInvariance, PTL DEF Spec

\* However the producer, the encoder and the end of the run meet, the channel never holds more than
\* its capacity, and nothing that was not sent.
THEOREM AlwaysTypeOK == Spec => []TypeOK
<1>1. PInv => TypeOK BY DEF PInv
<1> QED BY <1>1, ProducerInvariance, PTL
=============================================================================
