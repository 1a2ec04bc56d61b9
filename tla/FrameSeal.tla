------------------------------ MODULE FrameSeal -----------------------------
(***************************************************************************)
(* When a frame of an archive and a segment of a raw recording end         *)
(* (append_binary_bytes and RawSegments::write_block of pipeline.rs, with  *)
(* the size limits of ArchiveWriter::append): by size, or once what they   *)
(* hold covers an hour of the source's time.                               *)
(***************************************************************************)
EXTENDS Integers, Sequences, SequencesExt, FiniteSetsExt

CONSTANTS
    FrameAge,   \* MAX_FRAME_AGE_NS
    FrameBytes, \* --frame-bytes
    FrameBlocks,\* MAX_BLOCKS_PER_FRAME
    BlockAge,   \* a block covers less than this
    Sizes,      \* bound: sizes of a block
    Gaps,       \* bound: time from the last row of a block to the first of the next
    MaxTime     \* bound: the last stamp

VARIABLES
    format,     \* "binary" or "jsonl-zstd"
    active,     \* the blocks of the open frame, or of the open segment
    frameStart, \* frame_start, or segment_start_ns
    sealed,     \* the frames or segments the last block sealed
    now         \* stamp of the last row

vars == <<format, active, frameStart, sealed, now>>

None == -1
Blocks == [first : 0 .. MaxTime, last : 0 .. MaxTime, size : Sizes]

TypeOK ==
    /\ format \in {"binary", "jsonl-zstd"} /\ active \in Seq(Blocks)
    /\ frameStart \in 0 .. MaxTime \cup {None} /\ sealed \in SUBSET Seq(Blocks) /\ now \in 0 .. MaxTime
    /\ active # <<>> <=> frameStart # None

Init ==
    /\ format \in {"binary", "jsonl-zstd"}
    /\ active = <<>> /\ frameStart = None /\ sealed = {} /\ now = 0

Payload(blocks) == FoldLeft(LAMBDA n, b : n + b.size, 0, blocks)
Full(blocks) == Len(blocks) >= FrameBlocks \/ Payload(blocks) >= FrameBytes

\* Mutant: the block that does not fit is still added.
OverflowsLater(blocks, b) == blocks # <<>> /\ (Len(blocks) >= FrameBlocks \/ Payload(blocks) > FrameBytes)

\* ArchiveWriter::append seals the frame first when the block does not fit
Overflows(blocks, b) == blocks # <<>> /\ (Len(blocks) >= FrameBlocks \/ Payload(blocks) + b.size > FrameBytes)

\* Mutant: more than the limit, not at least the limit.
AgedStrictly(start, stamp) == start # None /\ stamp - start > FrameAge

Aged(start, stamp) == start # None /\ stamp - start >= FrameAge

\* append_binary_bytes.  The start of a frame that append seals to make room stays behind.
BinaryBlock(b) ==
    LET byAge == Aged(frameStart, b.first)
        open == IF byAge THEN <<>> ELSE active
        bySize == Overflows(open, b)
        joined == Append(IF bySize THEN <<>> ELSE open, b)
        start == IF byAge \/ frameStart = None THEN b.first ELSE frameStart
        done == Full(joined) \/ Aged(start, b.last)
    IN  /\ format = "binary"
        /\ sealed' = (IF byAge THEN {active} ELSE {}) \cup (IF bySize THEN {open} ELSE {})
                     \cup (IF done THEN {joined} ELSE {})
        /\ active' = IF done THEN <<>> ELSE joined
        /\ frameStart' = IF done THEN None ELSE start

\* RawSegments::write_block: the segment is looked at only after the block is written.
RawBlock(b) ==
    LET joined == Append(active, b)
        start == IF frameStart = None THEN b.first ELSE frameStart
        done == Payload(joined) >= FrameBytes \/ Aged(start, b.last)
    IN  /\ format = "jsonl-zstd"
        /\ sealed' = IF done THEN {joined} ELSE {}
        /\ active' = IF done THEN <<>> ELSE joined
        /\ frameStart' = IF done THEN None ELSE start

Block ==
    \E gap \in Gaps, span \in 0 .. BlockAge - 1, size \in Sizes :
        /\ now + gap + span <= MaxTime
        /\ now' = now + gap + span
        /\ LET b == [first |-> now + gap, last |-> now + gap + span, size |-> size]
           IN  BinaryBlock(b) \/ RawBlock(b)
        /\ UNCHANGED format

\* finish: orderly end of the recording
Finish ==
    /\ active # <<>>
    /\ sealed' = {active} /\ active' = <<>> /\ frameStart' = None
    /\ UNCHANGED <<format, now>>

Next == Block \/ Finish
Spec == Init /\ [][Next]_vars

----------------------------------------------------------------------------
Span(blocks) == Last(blocks).last - Head(blocks).first

\* Source time a frame covers: less than the limit and one block.  A segment of a raw
\* recording can have any pause before its last block, but nothing after the limit is reached.
SpanBounded ==
    \A f \in sealed \cup {active} : f # <<>> =>
        /\ format = "binary" => Span(f) < FrameAge + BlockAge
        /\ Len(f) > 1 => Span(Front(f)) < FrameAge

\* What a kill leaves for recovery: the open frame covers less than the limit and is not full.
OpenBounded == active # <<>> => Span(active) < FrameAge /\ Payload(active) < FrameBytes

\* A frame of several blocks fits --frame-bytes.
FramesFit == format = "binary" => \A f \in sealed : Len(f) > 1 => Payload(f) <= FrameBytes
=============================================================================
