----------------------------- MODULE MCTransform ----------------------------
(* Instances of Transform for TLC. *)
EXTENDS Transform

Process(id, n) == [id |-> id, cpu |-> [user |-> n]]
Row(ps, resets) == [processes |-> ps, quality |-> {[kind |-> "unknown", id |-> i] : i \in resets}]

\* A process that can count down, one that appears late, and a row that denies the
\* continuity of a process it does not hold
MCBodies == {Row(<<Process(1, 1)>>, {}), Row(<<Process(1, 0), Process(2, 1)>>, {}),
             Row(<<Process(2, 0)>>, {1})}
\* One, two and three groups; and a file of another stream
MCContexts == {<<<<1, "a">>, <<1, c>>, <<1, d>>>> : c, d \in {"a", "b"}}
              \cup {<<<<1, "a">>, <<1, "b">>, <<2, "a">>>>}
MCUpstreams == {<<"none", FALSE>>, <<"complete", TRUE>>, <<"partial", TRUE>>}
=============================================================================
