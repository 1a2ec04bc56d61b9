------------------------------ MODULE MCFormats ------------------------------
(* An instance for TLC of MetaCodec, the metadata of a block, and beside it one *)
(* of BlockRows, its CPU and memory: one of the two moves.                      *)
EXTENDS MetaCodec, BlockRows, TLC

\* A busy and a quiet process, a child with another name
MCProcesses == {[ppid |-> 1, name |-> 1, rss |-> 1], [ppid |-> 1, name |-> 2, rss |-> 1], [ppid |-> 0, name |-> 1, rss |-> 4]}
MCNameBytes == <<1, 2>>
MCMoves == {[seq |-> 1, wall |-> 0, scan |-> 1, span |-> 0], [seq |-> 2, wall |-> -1, scan |-> 1, span |-> 1]}
MCTimebases == {[numer |-> 2000, denom |-> 3], [numer |-> 2000000, denom |-> 1]}

Row(step, span, boundary, moves) == [step |-> step, span |-> span, boundary |-> boundary, moves |-> moves]
Move(id, rise, name, memory) == [id |-> id, rise |-> rise, name |-> name, memory |-> memory]
One(rise) == <<Move(1, rise, "a", <<>>)>>

\* Around the thresholds of 2, 1024 and 1500 ticks, gaps, and a second process
CpuRows == {Row(1, 100, {}, One(n)) : n \in {0, 15, 17, 16385}}
           \cup {Row(2, 100, {}, One(17)), Row(1, 100, {1}, One(17)), Row(1, 100, {}, <<>>),
                 Row(1, 100, {}, One(16383) \o <<Move(2, 17, "a", <<>>)>>)}
TemporalRows == {Row(1, 100, {}, One(n)) : n \in {0, 300, 16385}} \cup {Row(1, 2000, {}, One(n)) : n \in {0, 300}}
                \cup {Row(1, 100, {}, <<Move(1, 0, "b", <<>>)>>), Row(1, 100, {1}, One(0)), Row(1, 100, {}, <<>>)}
MemoryRows == {Row(1, 100, {}, <<Move(1, 0, "a", m)>>) :
                  m \in {<<>>, "owned" :> 5, "peak" :> 6, ("owned" :> 8) @@ ("peak" :> 3), ("owned" :> 2) @@ ("evicted" :> 4)}}
              \cup {Row(1, 100, {}, <<Move(1, 0, "a", m), Move(2, 0, "a", n)>>) :
                  m \in {<<>>, ("owned" :> 4) @@ ("peak" :> 9)}, n \in {<<>>, "peak" :> 7, ("owned" :> 1) @@ ("peak" :> 2)}}
MCFollowing == [cpu |-> CpuRows, temporal |-> TemporalRows, memory |-> MemoryRows]
MCDepth == [cpu |-> 5, temporal |-> 5, memory |-> 3]

MCInit == Init /\ \/ BlockInit
                  \/ topic = "metadata" /\ block = <<>> /\ totals = <<>>
MCNext ==
    \/ topic = "metadata" /\ Next /\ UNCHANGED blockVars
    \/ topic # "metadata" /\ BlockNext /\ UNCHANGED vars
MCSpec == MCInit /\ [][MCNext]_<<vars, blockVars>>
=============================================================================
