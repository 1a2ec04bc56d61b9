---------------------------- MODULE MCLiveReplay ----------------------------
(* An instance for TLC of LiveReplay, from a row to a block, and beside it one  *)
(* of FrameSeal, from a block to a frame: one of the two moves.                 *)
EXTENDS LiveReplay

CONSTANTS FrameAge, FrameBytes, FrameBlocks, Sizes, Gaps, MaxTime

ASSUME FrameSealAssumption ==
    /\ {FrameAge, FrameBytes, FrameBlocks} \subseteq Nat \ {0}
    /\ Sizes \subseteq Nat \ {0} /\ Gaps \subseteq Nat \ {0} /\ MaxTime \in Nat

VARIABLES moves, format, active, frameStart, sealed, now

frameVars == <<format, active, frameStart, sealed, now>>

F == INSTANCE FrameSeal

MCInit == Init /\ F!Init /\ moves \in {"rows", "frames"} /\ (moves = "rows" => format = "binary")
MCNext ==
    /\ UNCHANGED moves
    /\ \/ moves = "rows" /\ Next /\ UNCHANGED frameVars
       \/ moves = "frames" /\ F!Next /\ UNCHANGED vars
MCSpec == MCInit /\ [][MCNext]_<<moves, vars, frameVars>>

\* The transform of the raw rows reports what the live recorder reported and cuts where it cut.
ReplayAgrees == ReplayAddsNothing /\ SameCuts

\* What each module says of its own state and its sizes and ages
RowsBounded == TypeOK /\ LiveStateBounded /\ BlocksYoung
FramesBounded == F!TypeOK /\ F!SpanBounded /\ F!OpenBounded /\ F!FramesFit
=============================================================================
