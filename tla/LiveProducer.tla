---------------------------- MODULE LiveProducer ----------------------------
(***************************************************************************)
(* The native recorder's producer, the channel and the encoder thread      *)
(* (observe, PendingGap, missed_deadlines and run_macos of                 *)
(* recording_native.rs).                                                   *)
(*                                                                         *)
(* The producer samples once per interval.  It never waits for the encoder *)
(* while it samples: a row that finds the channel full is dropped, a       *)
(* deadline that passes during a slow scan is missed, and both are counted *)
(* in a pending gap that goes out with the next row that is accepted.  At  *)
(* the end it waits: the last dropped row is still sent, then the End      *)
(* message with what is left of the gap.                                   *)
(*                                                                         *)
(* There are two clocks.  Deadlines are kept on `now` (Instant), which     *)
(* stands still while the machine sleeps; rows are stamped with the        *)
(* continuous clock, `now + slept`.                                        *)
(***************************************************************************)
EXTENDS Integers, Sequences

CONSTANTS
    Interval,   \* sampling interval
    Duration,   \* --duration, or 0 for none
    Capacity,   \* LIVE_QUEUE_SCANS
    MaxTime,    \* bound: the clock stops here
    Sleeps,     \* bound: lengths of the sleep of the machine; {} for none
    Reads,      \* how a scan may find the process: "read", "raced", "unlisted"
    MaxFaults   \* bound: failed calls

ASSUME ProducerAssumption ==
    /\ Interval \in Nat \ {0} /\ Duration \in Nat /\ Capacity \in Nat \ {0}
    /\ Reads \subseteq {"read", "raced", "unlisted"}
    /\ MaxTime \in Nat /\ Sleeps \subseteq Nat \ {0} /\ MaxFaults \in Nat

VARIABLES
    now, slept,     \* the clocks
    stop,           \* STOP_REQUESTED
    pc,             \* the producer's next step
    nextSeq, nextDeadline, prevStamp,
    gap,            \* PendingGap without its final_scan
    final,          \* final_scan, or NoRow
    row,            \* the row being sampled or sent, or NoRow
    resetAt,        \* when the process's footprint interval was last reset
    lookedAt,       \* when the producer last looked for missed deadlines
    error,          \* sampling_error or end_result
    log,            \* every message sent so far
    unread,         \* how many of them are still in the channel
    encoder,        \* the encoder thread: "recv", "closing", "gone", "finished"
    encoded,        \* consume_live returned Ok
    result,         \* what run_macos returns
    faults

clock == <<now, slept, stop>>
gapVars == <<gap, final>>
seqVars == <<nextSeq, nextDeadline, prevStamp>>
encVars == <<encoder, encoded>>
vars == <<clock, pc, seqVars, gapVars, row, resetAt, lookedAt, error, log, unread, encVars,
          result, faults>>

Never == -1
NoRow == [seq |-> Never]
NoGap == [count |-> 0, first |-> Never, last |-> Never, start |-> Never, end |-> Never,
          finalPrior |-> Never, finalAfter |-> Never]

Init ==
    /\ now = 0 /\ slept = 0 /\ stop = FALSE
    /\ pc = "top"
    /\ nextSeq = 0 /\ nextDeadline = 0 /\ prevStamp = Never
    /\ gap = NoGap /\ final = NoRow /\ row = NoRow /\ resetAt = 0 /\ lookedAt = 0
    /\ error = FALSE
    /\ log = <<>> /\ unread = 0
    /\ encoder = "recv" /\ encoded = FALSE
    /\ result = "none" /\ faults = 0

Stamp == now + slept
PastFinish == Duration > 0 /\ now >= Duration

-----------------------------------------------------------------------------
(* Time                                                                     *)

Tick ==
    /\ now < MaxTime /\ now' = now + 1
    /\ UNCHANGED <<slept, stop, pc, seqVars, gapVars, row, resetAt, lookedAt, error, log, unread,
                   encVars, result, faults>>

\* The machine sleeps: only the continuous clock goes on.
Sleep ==
    /\ slept = 0 /\ slept' \in Sleeps
    /\ UNCHANGED <<now, stop, pc, seqVars, gapVars, row, resetAt, lookedAt, error, log, unread,
                   encVars, result, faults>>

\* SIGTERM or SIGINT; the clock's bound stands for one as well.
RequestStop ==
    /\ ~stop /\ stop' = TRUE
    /\ UNCHANGED <<now, slept, pc, seqVars, gapVars, row, resetAt, lookedAt, error, log, unread,
                   encVars, result, faults>>

-----------------------------------------------------------------------------
(* PendingGap                                                               *)

RecordRange(g, first, last, stamp) ==
    [g EXCEPT !.count = @ + last - first + 1,
              !.first = IF @ = Never THEN first ELSE @, !.last = last,
              !.start = IF @ = Never THEN stamp ELSE @, !.end = stamp]

RecordScheduled(first, count, stamp) ==
    LET after == final # NoRow /\ final.seq < first /\ gap.finalAfter = Never
        g == IF after THEN [gap EXCEPT !.finalAfter = stamp] ELSE gap
    IN  IF count = 0 THEN gap ELSE RecordRange(g, first, first + count - 1, stamp)

RecordScan(r) ==
    RecordRange([gap EXCEPT !.finalPrior = gap.end, !.finalAfter = Never], r.seq, r.seq, r.stamp)

\* quality(): what goes out of a gap, in a row or in the End message.
Quality(g) == [from |-> g.first, to |-> g.last, scans |-> g.count,
               start |-> g.start, end |-> g.end]
NoQuality == [from |-> Never, to |-> Never, scans |-> 0, start |-> Never, end |-> Never]

Attached(g) == IF g.count > 0 THEN Quality(g) ELSE NoQuality

\* Mutant: the gap before the last row ends with the latest miss.
FinalRowEndsLate ==
    [final EXCEPT !.gap =
        IF gap.first < final.seq
        THEN [from |-> gap.first, to |-> final.seq - 1, scans |-> final.seq - gap.first,
              start |-> gap.start, end |-> gap.end]
        ELSE NoQuality]

\* take_final_scan: the misses before the row go with it, later ones remain.
FinalRow ==
    [final EXCEPT !.gap =
        IF gap.first < final.seq
        THEN [from |-> gap.first, to |-> final.seq - 1, scans |-> final.seq - gap.first,
              start |-> gap.start, end |-> gap.finalPrior]
        ELSE NoQuality]

AfterFinal ==
    IF gap.last > final.seq
    THEN [NoGap EXCEPT !.count = gap.last - final.seq, !.first = final.seq + 1,
                       !.last = gap.last, !.end = gap.end,
                       !.start = IF gap.finalAfter # Never THEN gap.finalAfter ELSE gap.end]
    ELSE NoGap

\* missed_deadlines: those up to now and before the end of the duration.
Least(a, b) == IF a < b THEN a ELSE b
\* Mutant: a deadline at the very end of the duration counts as missed.
MissedAtInclusive(t) ==
    LET due == IF t < nextDeadline THEN 0 ELSE (t - nextDeadline) \div Interval + 1
        before == IF Duration = 0 THEN due
                  ELSE IF nextDeadline >= Duration THEN 0
                  ELSE (Duration - nextDeadline) \div Interval + 1
    IN  Least(due, before)

MissedAt(t) ==
    LET due == IF t < nextDeadline THEN 0 ELSE (t - nextDeadline) \div Interval + 1
        before == IF Duration = 0 THEN due
                  ELSE IF nextDeadline >= Duration THEN 0
                  ELSE (Duration - nextDeadline - 1) \div Interval + 1
    IN  Least(due, before)

-----------------------------------------------------------------------------
(* observe                                                                  *)

Finished == encoder = "finished"

Fails == error' = TRUE /\ pc' = "final"

\* The head of the loop: count what was missed, unless the run has ended.
Top ==
    /\ pc = "top"
    /\ IF stop THEN pc' = "trailing" /\ UNCHANGED <<seqVars, gap, error>>
       ELSE IF Finished THEN Fails /\ UNCHANGED <<seqVars, gap>>
       ELSE LET missed == IF nextSeq > 0 THEN MissedAt(now) ELSE 0 IN
            /\ gap' = RecordScheduled(nextSeq, missed, Stamp)
            /\ nextSeq' = nextSeq + missed
            /\ nextDeadline' = nextDeadline + missed * Interval
            /\ pc' = IF PastFinish THEN "trailing" ELSE "wait"
            /\ UNCHANGED <<prevStamp, error>>
    /\ UNCHANGED <<clock, final, row, resetAt, lookedAt, log, unread, encVars, result, faults>>

Wait ==
    /\ pc = "wait"
    /\ \/ (stop \/ (now >= nextDeadline /\ PastFinish)) /\ pc' = "trailing" /\ UNCHANGED error
       \/ ~stop /\ now < nextDeadline /\ Finished /\ Fails
       \/ ~stop /\ now >= nextDeadline /\ ~PastFinish /\ pc' = "scan" /\ UNCHANGED error
    /\ UNCHANGED <<clock, seqVars, gapVars, row, resetAt, lookedAt, log, unread, encVars, result, faults>>

\* Mutant: the jump is looked for on the clock that stands still.
ScanInstant ==
    /\ pc = "scan"
    /\ \E read \in Reads :
          /\ row' = [seq |-> nextSeq, due |-> nextDeadline, at |-> now, stamp |-> Stamp,
                     read |-> read,
                     peakFrom |-> IF read = "read" THEN resetAt ELSE Never,
                     clockGap |-> prevStamp # Never /\ now - prevStamp > 2 * Interval,
                     gap |-> NoQuality]
          /\ resetAt' = IF read = "unlisted" THEN resetAt ELSE Stamp
    /\ prevStamp' = now
    /\ nextSeq' = nextSeq + 1
    /\ pc' = "send"
    /\ UNCHANGED <<clock, nextDeadline, gapVars, lookedAt, error, log, unread, encVars, result, faults>>

\* sample_scan, of one process: it is read and its footprint interval reset;
\* or reset and then found to have changed, so that it is left out; or not
\* listed at all.
Scan ==
    /\ pc = "scan"
    /\ \E read \in Reads :
          /\ row' = [seq |-> nextSeq, due |-> nextDeadline, at |-> now, stamp |-> Stamp,
                     read |-> read,
                     peakFrom |-> IF read = "read" THEN resetAt ELSE Never,
                     clockGap |-> prevStamp # Never /\ Stamp - prevStamp > 2 * Interval,
                     gap |-> NoQuality]
          /\ resetAt' = IF read = "unlisted" THEN resetAt ELSE Stamp
    /\ prevStamp' = Stamp
    /\ nextSeq' = nextSeq + 1
    /\ pc' = "send"
    /\ UNCHANGED <<clock, nextDeadline, gapVars, lookedAt, error, log, unread, encVars, result, faults>>

\* A clock cannot be read.
ScanFails ==
    /\ pc = "scan" /\ faults < MaxFaults /\ faults' = faults + 1
    /\ Fails
    /\ UNCHANGED <<clock, seqVars, gapVars, row, resetAt, lookedAt, log, unread, encVars, result>>

\* try_send: the gap goes with the row, or the row joins the gap.
Accepted ==
    /\ pc = "send" /\ encoder \in {"recv", "closing"} /\ unread < Capacity
    /\ log' = Append(log, [row EXCEPT !.gap = Attached(gap)])
    /\ unread' = unread + 1
    /\ gap' = NoGap /\ final' = NoRow /\ row' = NoRow
    /\ nextDeadline' = nextDeadline + Interval
    /\ pc' = "top"
    /\ UNCHANGED <<clock, nextSeq, prevStamp, resetAt, lookedAt, error, encVars, result, faults>>

Dropped ==
    /\ pc = "send" /\ encoder \in {"recv", "closing"} /\ unread >= Capacity
    /\ gap' = RecordScan(row)
    /\ final' = row /\ row' = NoRow
    /\ nextDeadline' = nextDeadline + Interval
    /\ pc' = "top"
    /\ UNCHANGED <<clock, nextSeq, prevStamp, resetAt, lookedAt, error, log, unread, encVars, result,
                   faults>>

Disconnected ==
    /\ pc = "send" /\ encoder \in {"gone", "finished"}
    /\ row' = NoRow
    /\ Fails
    /\ UNCHANGED <<clock, seqVars, gapVars, resetAt, lookedAt, log, unread, encVars, result, faults>>

\* The deadlines since the last scan, if sampling ended in order.
Trailing ==
    /\ pc = "trailing"
    /\ gap' = IF nextSeq > 0 THEN RecordScheduled(nextSeq, MissedAt(now), Stamp) ELSE gap
    /\ nextSeq' = IF nextSeq > 0 THEN nextSeq + MissedAt(now) ELSE nextSeq
    /\ lookedAt' = now
    /\ pc' = "final"
    /\ UNCHANGED <<clock, nextDeadline, prevStamp, final, row, resetAt, error, log, unread,
                   encVars, result, faults>>

\* A blocking send: it waits for room, and fails once the receiver is gone.
SendFinal ==
    /\ pc = "final"
    /\ IF final = NoRow THEN UNCHANGED <<gap, error, log, unread>>
       ELSE /\ gap' = AfterFinal
            /\ \/ /\ encoder \in {"recv", "closing"} /\ unread < Capacity
                  /\ log' = Append(log, FinalRow) /\ unread' = unread + 1
                  /\ UNCHANGED error
               \/ /\ encoder \in {"gone", "finished"}
                  /\ error' = TRUE /\ UNCHANGED <<log, unread>>
    /\ final' = NoRow
    /\ pc' = "end"
    /\ UNCHANGED <<clock, seqVars, row, resetAt, lookedAt, encVars, result, faults>>

\* Mutant: the End message waits for room even when the receiver is gone.
SendEndWaits ==
    /\ pc = "end" /\ unread < Capacity /\ encoder \in {"recv", "closing"}
    /\ log' = Append(log, [seq |-> nextSeq, at |-> now, stamp |-> Stamp, end |-> TRUE,
                           error |-> error, gap |-> Attached(gap)])
    /\ unread' = unread + 1
    /\ gap' = NoGap
    /\ pc' = "join"
    /\ UNCHANGED <<clock, seqVars, final, row, resetAt, lookedAt, error, encVars, result, faults>>

\* send_end, with the rest of the gap and the error.
SendEnd ==
    /\ pc = "end"
    /\ \/ /\ encoder \in {"recv", "closing"} /\ unread < Capacity
          /\ log' = Append(log, [seq |-> nextSeq, at |-> now, stamp |-> Stamp, end |-> TRUE,
                                 error |-> error, gap |-> Attached(gap)])
          /\ unread' = unread + 1
          /\ UNCHANGED error
       \/ /\ encoder \in {"gone", "finished"}
          /\ error' = TRUE /\ UNCHANGED <<log, unread>>
    /\ gap' = NoGap
    /\ pc' = "join"
    /\ UNCHANGED <<clock, seqVars, final, row, resetAt, lookedAt, encVars, result, faults>>

\* Mutant: the encoder's own error is not looked at.
JoinIgnoresWriter ==
    /\ pc = "join" /\ Finished
    /\ result' = IF error THEN "error" ELSE "ok"
    /\ pc' = "done"
    /\ UNCHANGED <<clock, seqVars, gapVars, row, resetAt, lookedAt, error, log, unread, encVars, faults>>

\* encoder.join; the encoder's error comes before the producer's.
Join ==
    /\ pc = "join" /\ Finished
    /\ result' = IF ~encoded THEN "writer error" ELSE IF error THEN "error" ELSE "ok"
    /\ pc' = "done"
    /\ UNCHANGED <<clock, seqVars, gapVars, row, resetAt, lookedAt, error, log, unread, encVars, faults>>

-----------------------------------------------------------------------------
(* The encoder thread, as far as the channel goes; see RecordRun            *)

IsEnd(m) == "end" \in DOMAIN m

Receive ==
    /\ encoder = "recv" /\ unread > 0
    /\ unread' = unread - 1
    /\ LET m == log[Len(log) - unread + 1] IN
       IF IsEnd(m) THEN encoder' = "closing" /\ encoded' = ~m.error
                   ELSE UNCHANGED encVars
    /\ UNCHANGED <<clock, pc, seqVars, gapVars, row, resetAt, lookedAt, error, log, result, faults>>

\* A row is refused or storage fails: the loop is left, the rest is flushed.
EncoderFails ==
    /\ encoder = "recv" /\ unread > 0 /\ faults < MaxFaults
    /\ faults' = faults + 1
    /\ unread' = unread - 1
    /\ encoder' = "closing"
    /\ UNCHANGED <<clock, pc, seqVars, gapVars, row, resetAt, lookedAt, error, log, encoded, result>>

\* consume_live returns, which drops the receiver; then the thread is over.
EncoderReturns ==
    /\ \/ encoder = "closing" /\ encoder' = "gone" /\ unread' = 0
       \/ encoder = "gone" /\ encoder' = "finished" /\ UNCHANGED unread
    /\ UNCHANGED <<clock, pc, seqVars, gapVars, row, resetAt, lookedAt, error, log, encoded, result,
                   faults>>

-----------------------------------------------------------------------------

Producer == \/ Top \/ Wait \/ Scan \/ ScanFails \/ Accepted \/ Dropped \/ Disconnected
            \/ Trailing \/ SendFinal \/ SendEnd \/ Join
Encoder == Receive \/ EncoderFails \/ EncoderReturns
Done == pc = "done" /\ UNCHANGED vars

Next == Tick \/ Sleep \/ RequestStop \/ Producer \/ Encoder \/ Done

\* Both threads run and time passes; a run without --duration is stopped.
Spec == /\ Init /\ [][Next]_vars
        /\ WF_vars(Producer) /\ WF_vars(Encoder) /\ WF_vars(Tick) /\ WF_vars(RequestStop)

-----------------------------------------------------------------------------
(* Properties                                                               *)

Delivered == {i \in DOMAIN log : ~IsEnd(log[i])}
Before(i) == IF i = 1 THEN [seq |-> -1, stamp |-> 0, at |-> 0] ELSE log[i - 1]

\* Types; the channel never holds more than its capacity.
TypeOK ==
    /\ unread \in 0..Capacity /\ unread <= Len(log)
    /\ nextSeq \in Nat /\ nextDeadline \in Nat /\ gap.count \in Nat
    /\ pc \in {"top", "wait", "scan", "send", "trailing", "final", "end", "join", "done"}
    /\ result \in {"none", "ok", "error", "writer error"}

\* Between two messages of the run the sequence numbers that were dropped or
\* missed are exactly those of the gap that goes with the later one: none is
\* lost, none is reported lost that was delivered, none is counted twice.  The
\* end counts as the message after the last sequence number.
GapExact ==
    \A i \in DOMAIN log :
        LET g == log[i].gap IN
        IF g.scans = 0 THEN log[i].seq = Before(i).seq + 1
        ELSE /\ g.from = Before(i).seq + 1 /\ g.to = log[i].seq - 1
             /\ g.scans = g.to - g.from + 1

\* The time span of a gap lies between the rows beside it, in order.
GapInPlace ==
    \A i \in DOMAIN log :
        LET g == log[i].gap IN
        g.scans > 0 => /\ Before(i).stamp <= g.start /\ g.start <= g.end
                       /\ g.end <= log[i].stamp

\* Every gap that goes out is true, in its numbers and in its time.
GapsTrue == GapExact /\ GapInPlace

\* A run that ends in order has given a sequence number to every deadline up
\* to its end and before --duration, and to no other: rows, drops and misses
\* together keep the schedule (missed_deadlines), and no row is early.
ScheduleKept ==
    /\ \A i \in Delivered : log[i].at >= log[i].seq * Interval
    /\ \A i \in DOMAIN log : IsEnd(log[i]) /\ ~log[i].error /\ log[i].seq > 0 =>
          \A k \in 0..MaxTime :
              LET due == k * Interval IN
              k < log[i].seq <=> due <= lookedAt /\ (Duration > 0 => due < Duration)

\* Two rows further apart on the continuous clock than twice the interval are
\* marked so, by a clock gap or an acquisition gap on the later one, also when
\* the machine slept and when the row that saw the jump was dropped.
JumpMarked ==
    \A i \in Delivered \ {1} :
        log[i].stamp - Before(i).stamp > 2 * Interval =>
            log[i].clockGap \/ log[i].gap.scans > 0

\* The peak of a row covers all the time since the row before it, unless a gap
\* or a failed read lies between them: no spike is lost without a mark.
PeakCovers ==
    \A i \in Delivered \ {1} :
        log[i].read = "read" /\ Before(i).read # "raced" /\ log[i].gap.scans = 0 =>
            log[i].peakFrom <= Before(i).stamp

\* Between two rows that are not marked nothing happened that they do not show.
NothingUnmarked == JumpMarked /\ PeakCovers

\* run_macos returns Ok only if the encoder took every message and the last
\* one was an End without an error.
OkMeansAll ==
    result = "ok" => /\ log # <<>> /\ IsEnd(log[Len(log)]) /\ ~log[Len(log)].error
                     /\ unread = 0 /\ encoded

\* A stop request ends the run: no send waits for ever for a dead encoder and
\* no join for a producer.
StopEndsRun == stop ~> (pc = "done")
=============================================================================
