------------------------ MODULE MCLiveReplay_proofs ------------------------
(***************************************************************************)
(* A row through the live recorder and through replay (RowInv, by the      *)
(* memories of the two validators), and a block into a frame (FrameInv).   *)
(* Folds are reasoned about through the function that FoldLeft chooses,    *)
(* for which induction over a set is enough.                               *)
(***************************************************************************)
EXTENDS MCLiveReplay, FiniteSetTheorems, WellFoundedInduction, TLAPS

-----------------------------------------------------------------------------
\* Induction over the natural numbers, for a set instead of a predicate
LEMMA Induction ==
  ASSUME NEW T, 0 \in T, \A n \in Nat : n \in T => n + 1 \in T
  PROVE  Nat \subseteq T
<1> SUFFICES ASSUME Nat \ T # {} PROVE FALSE
  OBVIOUS
<1>1. PICK n \in Nat \ T : \A m \in Nat \ T : ~(<<m, n>> \in OpToRel(<, Nat))
  <2>1. IsWellFoundedOn(OpToRel(<, Nat), Nat)
    BY NatLessThanWellFounded
  <2>2. Nat \ T \subseteq Nat
    OBVIOUS
  <2> QED
    BY <2>1, <2>2, WFMin
<1>2. n - 1 \in Nat /\ n - 1 < n /\ (n - 1) + 1 = n
  <2>1. n # 0
    OBVIOUS
  <2> QED
    BY <2>1
<1>3. n - 1 \notin T
  BY <1>2
<1>4. <<n - 1, n>> \in OpToRel(<, Nat)
  BY <1>2 DEF OpToRel
<1> QED
  BY <1>1, <1>2, <1>3, <1>4

\* A non-empty set of indices has a maximum, and Max is it.
LEMMA MaxIs ==
  ASSUME NEW n \in Nat, NEW t \in SUBSET (1..n), t # {}
  PROVE  Max(t) \in t /\ \A y \in t : y <= Max(t)
<1> DEFINE T == {m \in Nat : \A s \in SUBSET (1..m) : s # {} => \E x \in s : \A y \in s : x >= y}
<1>1. 0 \in T
  <2>1. 1..0 = {}
    OBVIOUS
  <2> QED
    BY <2>1
<1>2. ASSUME NEW m \in Nat, m \in T  PROVE m + 1 \in T
  <2> SUFFICES ASSUME NEW s \in SUBSET (1..(m + 1)), s # {}
               PROVE  \E x \in s : \A y \in s : x >= y
    OBVIOUS
  <2>1. CASE m + 1 \in s
    BY <2>1
  <2>2. CASE m + 1 \notin s
    <3>1. s \in SUBSET (1..m)
      BY <2>2
    <3> QED
      BY <3>1, <1>2
  <2> QED
    BY <2>1, <2>2
<1>3. n \in T
  <2> HIDE DEF T
  <2> QED
    BY <1>1, <1>2, Induction
<1>4. \E x \in t : \A y \in t : x >= y
  BY <1>3
<1>5. Max(t) \in t /\ \A y \in t : Max(t) >= y
  BY <1>4 DEF Max
<1> QED
  BY <1>5

\* The last of the first k indices.
LEMMA UpTo ==
  ASSUME NEW k \in Nat \ {0}
  PROVE  Max(1..k) = k /\ (1..k) \ {k} = 1..(k - 1) /\ 1..k # {}
<1>1. k \in 1..k
  OBVIOUS
<1>2. Max(1..k) \in 1..k /\ k <= Max(1..k)
  BY <1>1, MaxIs
<1>3. (1..k) \ {k} = 1..(k - 1)
  OBVIOUS
<1> QED
  BY <1>1, <1>2, <1>3

\* g folds the sizes of the first blocks of bs, the way FoldLeft does.
PayloadIter(g, bs, n) ==
  g = [t \in SUBSET (1..n) |-> IF t = {} THEN 0 ELSE g[t \ {Max(t)}] + bs[Max(t)].size]

\* Payload is the value of such a fold.
LEMMA PayloadDef ==
  ASSUME NEW bs \in Seq(F!Blocks)
  PROVE  F!Payload(bs) = (CHOOSE g : PayloadIter(g, bs, Len(bs)))[1..Len(bs)]
<1>1. DOMAIN bs = 1..Len(bs)
  OBVIOUS
<1>2. F!Payload(bs) = (CHOOSE g : g = [t \in SUBSET DOMAIN bs |-> IF t = {} THEN 0 ELSE g[t \ {Max(t)}] + bs[Max(t)].size])[DOMAIN bs]
  <2>1. F!Payload(bs) = (CHOOSE g : g = [t \in SUBSET DOMAIN bs |-> IF t = {} THEN 0 ELSE g[t \ {F!Max(t)}] + bs[F!Max(t)].size])[DOMAIN bs]
    BY Zenon DEF F!Payload, F!FoldLeft, F!MapThenFoldSet
  <2>2. \A t : F!Max(t) = Max(t)
    BY Zenon DEF F!Max, Max
  <2> QED
    BY <2>1, <2>2, Zenon
<1> QED
  BY <1>1, <1>2, Zenon DEF PayloadIter

\* There is a fold for one block more.
LEMMA PayloadExtends ==
  ASSUME NEW bs, NEW n \in Nat, NEW g, PayloadIter(g, bs, n)
  PROVE  \E h : PayloadIter(h, bs, n + 1)
<1> DEFINE h == [t \in SUBSET (1..(n + 1)) |-> IF n + 1 \in t THEN g[t \ {n + 1}] + bs[n + 1].size ELSE g[t]]
<1>1. ASSUME NEW t \in SUBSET (1..(n + 1))
      PROVE  h[t] = IF t = {} THEN 0 ELSE h[t \ {Max(t)}] + bs[Max(t)].size
  <2>1. CASE t = {}
    BY <2>1 DEF PayloadIter
  <2>2. CASE n + 1 \in t
    <3>1. Max(t) = n + 1
      <4>1. n + 1 \in Nat /\ t # {}
        BY <2>2
      <4>2. Max(t) \in t /\ n + 1 <= Max(t)
        BY <4>1, <2>2, MaxIs
      <4>3. Max(t) \in 1..(n + 1)
        BY <4>2
      <4> QED
        BY <4>2, <4>3
    <3>2. n + 1 \notin t \ {n + 1} /\ t \ {n + 1} \in SUBSET (1..(n + 1))
      OBVIOUS
    <3>3. h[t \ {n + 1}] = g[t \ {n + 1}]
      BY <3>2
    <3> QED
      BY <2>2, <3>1, <3>3
  <2>3. CASE t # {} /\ n + 1 \notin t
    <3>1. t \in SUBSET (1..n)
      BY <2>3
    <3>2. \A u \in SUBSET (1..n) : h[u] = g[u]
      OBVIOUS
    <3> QED
      BY <2>3, <3>1, <3>2 DEF PayloadIter
  <2> QED
    BY <2>1, <2>2, <2>3
<1>2. h = [t \in SUBSET (1..(n + 1)) |-> IF t = {} THEN 0 ELSE h[t \ {Max(t)}] + bs[Max(t)].size]
  BY <1>1
<1> QED
  BY <1>2, Zenon DEF PayloadIter

\* The sum is reached in steps, one for each block.
LEMMA PayloadSteps ==
  ASSUME NEW bs \in Seq(F!Blocks)
  PROVE  \E t : /\ t[0] = 0 /\ t[Len(bs)] = F!Payload(bs)
                /\ \A k \in 1..Len(bs) : t[k] = t[k - 1] + bs[k].size
<1> DEFINE T == {n \in Nat : \E g : PayloadIter(g, bs, n)}
<1>1. 0 \in T
  <2>1. SUBSET (1..0) = {{}}
    OBVIOUS
  <2>2. PayloadIter([t \in SUBSET (1..0) |-> 0], bs, 0)
    BY <2>1 DEF PayloadIter
  <2> QED
    BY <2>2
<1>2. \A n \in Nat : n \in T => n + 1 \in T
  BY PayloadExtends
<1>3. Len(bs) \in T
  <2> HIDE DEF T
  <2> QED
    BY <1>1, <1>2, Induction
<1> DEFINE g == CHOOSE g : PayloadIter(g, bs, Len(bs))
<1>4. PayloadIter(g, bs, Len(bs)) /\ F!Payload(bs) = g[1..Len(bs)]
  BY <1>3, PayloadDef, Zenon
<1> HIDE DEF g
<1> DEFINE t == [k \in 0..Len(bs) |-> g[1..k]]
<1>5. t[0] = 0 /\ t[Len(bs)] = F!Payload(bs)
  <2>1. 1..0 = {} /\ 0 \in 0..Len(bs) /\ Len(bs) \in 0..Len(bs)
    OBVIOUS
  <2> QED
    BY <2>1, <1>4 DEF PayloadIter
<1>6. ASSUME NEW k \in 1..Len(bs)  PROVE t[k] = t[k - 1] + bs[k].size
  <2>1. k \in Nat \ {0} /\ 1..k \in SUBSET (1..Len(bs))
    OBVIOUS
  <2>2. Max(1..k) = k /\ (1..k) \ {k} = 1..(k - 1) /\ 1..k # {}
    BY <2>1, UpTo
  <2>3. g[1..k] = g[1..(k - 1)] + bs[k].size
    BY <1>4, <2>1, <2>2 DEF PayloadIter
  <2> QED
    BY <2>3
<1> QED
  BY <1>5, <1>6

\* One more block adds its size.
LEMMA PayloadAppend ==
  ASSUME NEW bs \in Seq(F!Blocks), NEW b \in F!Blocks
  PROVE  F!Payload(Append(bs, b)) = F!Payload(bs) + b.size
<1> DEFINE cs == Append(bs, b)
<1>1. /\ cs \in Seq(F!Blocks) /\ Len(cs) = Len(bs) + 1 /\ cs[Len(bs) + 1] = b
      /\ \A k \in 1..Len(bs) : cs[k] = bs[k] /\ k \in 1..Len(cs)
  OBVIOUS
<1>2. PICK t : /\ t[0] = 0 /\ t[Len(bs)] = F!Payload(bs)
               /\ \A k \in 1..Len(bs) : t[k] = t[k - 1] + bs[k].size
  BY PayloadSteps
<1>3. PICK u : /\ u[0] = 0 /\ u[Len(cs)] = F!Payload(cs)
               /\ \A k \in 1..Len(cs) : u[k] = u[k - 1] + cs[k].size
  BY <1>1, PayloadSteps
<1> HIDE DEF cs
<1> DEFINE T == {n \in Nat : n <= Len(bs) => u[n] = t[n]}
<1>4. 0 \in T
  BY <1>2, <1>3
<1>5. ASSUME NEW n \in Nat, n \in T  PROVE n + 1 \in T
  <2> SUFFICES ASSUME n + 1 <= Len(bs)  PROVE u[n + 1] = t[n + 1]
    OBVIOUS
  <2>1. n + 1 \in 1..Len(bs) /\ (n + 1) - 1 = n /\ n <= Len(bs)
    OBVIOUS
  <2> QED
    BY <2>1, <1>1, <1>2, <1>3, <1>5
<1>6. Len(bs) \in T
  <2> HIDE DEF T
  <2> QED
    BY <1>4, <1>5, Induction
<1>7. Len(cs) \in 1..Len(cs) /\ Len(cs) - 1 = Len(bs)
  BY <1>1
<1>8. u[Len(cs)] = u[Len(bs)] + b.size
  BY <1>1, <1>3, <1>7
<1> QED
  BY <1>2, <1>3, <1>6, <1>8 DEF cs

\* The size of a frame is a number.
LEMMA PayloadNat ==
  ASSUME NEW bs \in Seq(F!Blocks)
  PROVE  F!Payload(bs) \in Nat
<1>1. PICK t : /\ t[0] = 0 /\ t[Len(bs)] = F!Payload(bs)
               /\ \A k \in 1..Len(bs) : t[k] = t[k - 1] + bs[k].size
  BY PayloadSteps
<1> DEFINE T == {n \in Nat : n <= Len(bs) => t[n] \in Nat}
<1>2. 0 \in T
  BY <1>1
<1>3. ASSUME NEW n \in Nat, n \in T  PROVE n + 1 \in T
  <2> SUFFICES ASSUME n + 1 <= Len(bs)  PROVE t[n + 1] \in Nat
    OBVIOUS
  <2>1. n + 1 \in 1..Len(bs) /\ (n + 1) - 1 = n /\ n <= Len(bs)
    OBVIOUS
  <2>2. bs[n + 1] \in F!Blocks
    BY <2>1
  <2>3. bs[n + 1].size \in Nat
    BY <2>2, FrameSealAssumption DEF F!Blocks
  <2> QED
    BY <2>1, <2>3, <1>1, <1>3
<1>4. Len(bs) \in T
  <2> HIDE DEF T
  <2> QED
    BY <1>2, <1>3, Induction
<1> QED
  BY <1>1, <1>4
-----------------------------------------------------------------------------
(* Frames.                                                                 *)

\* The open frame began at frameStart or later, and ends less than the limit after it.
OpenKnown ==
  /\ frameStart <= now
  /\ active # <<>> => /\ frameStart <= Head(active).first
                      /\ F!Last(active).last - frameStart < FrameAge

\* The inductive invariant of the frames.
FrameInv == FramesBounded /\ OpenKnown

\* A block joined to a frame.
LEMMA Joined ==
  ASSUME NEW bs \in Seq(F!Blocks), NEW b \in F!Blocks
  PROVE  /\ Append(bs, b) \in Seq(F!Blocks) /\ Append(bs, b) # <<>>
         /\ Len(Append(bs, b)) = Len(bs) + 1
         /\ F!Last(Append(bs, b)) = b /\ F!Front(Append(bs, b)) = bs
         /\ Head(Append(bs, b)) = IF bs = <<>> THEN b ELSE Head(bs)
<1>1. /\ Append(bs, b) \in Seq(F!Blocks) /\ Append(bs, b) # <<>>
      /\ Len(Append(bs, b)) = Len(bs) + 1
      /\ Append(bs, b)[Len(bs) + 1] = b /\ \A k \in 1..Len(bs) : Append(bs, b)[k] = bs[k]
  OBVIOUS
<1>2. F!Last(Append(bs, b)) = b
  BY <1>1 DEF F!Last
<1>3. F!Front(Append(bs, b)) = bs
  BY <1>1 DEF F!Front
<1>4. Head(Append(bs, b)) = IF bs = <<>> THEN b ELSE Head(bs)
  BY <1>1
<1> QED
  BY <1>1, <1>2, <1>3, <1>4

\* A frame to which a block is added stays within the limits of its source time.
LEMMA JoinedSpan ==
  ASSUME NEW bs \in Seq(F!Blocks), NEW b \in F!Blocks, b.first <= b.last, b.last - b.first < BlockAge,
         NEW start \in Nat, bs # <<>> => start <= Head(bs).first /\ F!Span(bs) < FrameAge,
         start <= b.first
  PROVE  /\ Len(Append(bs, b)) > 1 => F!Span(F!Front(Append(bs, b))) < FrameAge
         /\ (bs # <<>> => b.first - start < FrameAge) => F!Span(Append(bs, b)) < FrameAge + BlockAge
         /\ b.last - start < FrameAge => F!Span(Append(bs, b)) < FrameAge
         /\ start <= Head(Append(bs, b)).first
<1>1. b.first \in Nat /\ b.last \in Nat /\ BlockAge \in Nat /\ FrameAge \in Nat \ {0}
  BY ValidatorAssumption, FrameSealAssumption DEF F!Blocks
<1>2. bs # <<>> => Head(bs) \in F!Blocks
  OBVIOUS
<1>3. bs # <<>> => Head(bs).first \in Nat
  BY <1>2 DEF F!Blocks
<1>4. F!Span(Append(bs, b)) = b.last - (IF bs = <<>> THEN b ELSE Head(bs)).first
  BY Joined DEF F!Span
<1>5. Len(Append(bs, b)) > 1 => bs # <<>>
  BY Joined
<1>6. Len(Append(bs, b)) > 1 => F!Span(F!Front(Append(bs, b))) < FrameAge
  BY <1>5, Joined
<1>7. CASE bs = <<>>
  BY <1>1, <1>4, <1>6, <1>7, Joined
<1>8. CASE bs # <<>>
  BY <1>1, <1>3, <1>4, <1>6, <1>8, Joined
<1> QED
  BY <1>7, <1>8

\* The source time of a frame is a number.
LEMMA SpanInt ==
  ASSUME NEW f \in Seq(F!Blocks), f # <<>>
  PROVE  F!Span(f) \in Int
<1>1. Head(f) \in F!Blocks /\ F!Last(f) \in F!Blocks
  BY DEF F!Last
<1> QED
  BY <1>1 DEF F!Span, F!Blocks

\* Nothing is open at first.
LEMMA FrameInit == F!Init => FrameInv
<1> SUFFICES ASSUME F!Init  PROVE FrameInv
  OBVIOUS
<1>1. active = <<>> /\ frameStart = -1 /\ sealed = {} /\ now = 0
  BY DEF F!Init, F!None
<1>2. F!TypeOK
  <2>1. <<>> \in Seq(F!Blocks)
    OBVIOUS
  <2> QED
    BY <1>1, <2>1, FrameSealAssumption DEF F!TypeOK, F!Init, F!None
<1>3. F!SpanBounded /\ F!OpenBounded /\ F!FramesFit /\ OpenKnown
  BY <1>1 DEF F!SpanBounded, F!OpenBounded, F!FramesFit, OpenKnown
<1> QED
  BY <1>2, <1>3 DEF FrameInv, FramesBounded

\* What is known of a frame before the next block: the block follows, and the frame is within
\* its limits.
LEMMA FrameBefore ==
  ASSUME FrameInv, NEW b \in F!Blocks, now <= b.first
  PROVE  /\ active \in Seq(F!Blocks) /\ frameStart \in Int /\ now \in Nat
         /\ frameStart # F!None => frameStart \in Nat
         /\ active # <<>> <=> frameStart # F!None
         /\ frameStart <= b.first
         /\ active # <<>> => /\ frameStart <= Head(active).first
                             /\ F!Span(active) < FrameAge /\ F!Payload(active) < FrameBytes
<1>1. /\ active \in Seq(F!Blocks) /\ frameStart \in 0..MaxTime \cup {F!None} /\ now \in 0..MaxTime
      /\ active # <<>> <=> frameStart # F!None
  BY DEF FrameInv, FramesBounded, F!TypeOK
<1>2. MaxTime \in Nat /\ F!None = -1 /\ b.first \in Nat
  BY FrameSealAssumption DEF F!None, F!Blocks
<1>3. frameStart \in Int /\ now \in Nat /\ (frameStart # F!None => frameStart \in Nat)
  BY <1>1, <1>2
<1>4. frameStart <= b.first
  BY <1>2, <1>3 DEF FrameInv, OpenKnown
<1> QED
  BY <1>1, <1>3, <1>4 DEF FrameInv, OpenKnown, FramesBounded, F!OpenBounded

\* The open frame after a block, when it stays open.
LEMMA FrameOpen ==
  ASSUME NEW base \in Seq(F!Blocks), NEW b \in F!Blocks, b.first <= b.last, b.last - b.first < BlockAge,
         NEW start \in 0..MaxTime, start <= b.first,
         base # <<>> => start <= Head(base).first /\ F!Span(base) < FrameAge,
         now' = b.last,
         active' = Append(base, b), frameStart' = start,
         F!Payload(Append(base, b)) < FrameBytes, ~F!Aged(start, b.last)
  PROVE  /\ active' \in Seq(F!Blocks) /\ frameStart' \in 0..MaxTime /\ active' # <<>> /\ frameStart' # F!None
         /\ F!Span(active') < FrameAge /\ F!Payload(active') < FrameBytes
         /\ Len(active') > 1 => F!Span(F!Front(active')) < FrameAge
         /\ OpenKnown'
<1>1. /\ start \in Nat /\ start # F!None /\ b.last \in Nat /\ FrameAge \in Nat /\ b.first \in Nat
  BY FrameSealAssumption DEF F!None, F!Blocks
<1>2. b.last - start < FrameAge
  BY <1>1 DEF F!Aged
<1>3. /\ F!Span(active') < FrameAge /\ start <= Head(active').first
      /\ Len(active') > 1 => F!Span(F!Front(active')) < FrameAge
  BY <1>1, <1>2, JoinedSpan
<1>4. active' \in Seq(F!Blocks) /\ active' # <<>> /\ F!Last(active') = b
  BY Joined
<1>5. F!Last(active)' = F!Last(active')
  BY DEF F!Last
<1>6. OpenKnown'
  BY <1>1, <1>2, <1>3, <1>4, <1>5 DEF OpenKnown
<1> QED
  BY <1>1, <1>3, <1>4, <1>6

\* No frame is open after it.
LEMMA FrameClosed ==
  ASSUME active' = <<>>, frameStart' = F!None, now' \in Nat
  PROVE  /\ active' \in Seq(F!Blocks) /\ (active' # <<>> <=> frameStart' # F!None)
         /\ OpenKnown'
BY DEF OpenKnown, F!None

\* The types, whenever the blocks and frames of the next state are what they should be.
LEMMA FrameNow ==
  ASSUME FrameInv, NEW b \in F!Blocks, now' = b.last, UNCHANGED format,
         active' \in Seq(F!Blocks), frameStart' \in 0..MaxTime \cup {F!None}, sealed' \in SUBSET Seq(F!Blocks),
         active' # <<>> <=> frameStart' # F!None
  PROVE  F!TypeOK'
<1>1. format \in {"binary", "jsonl-zstd"}
  BY DEF FrameInv, FramesBounded, F!TypeOK
<1>2. b.last \in 0..MaxTime
  BY DEF F!Blocks
<1>3. F!Blocks' = F!Blocks /\ F!None' = F!None
  BY DEF F!Blocks, F!None
<1> QED
  BY <1>1, <1>2, <1>3 DEF F!TypeOK

\* Sizes and spans of the next state, from the frames of the next state.
LEMMA PayloadPrimed ==
  /\ (active' # <<>> => F!Span(active') < FrameAge /\ F!Payload(active') < FrameBytes) => F!OpenBounded'
  /\ (\A f \in sealed' : Len(f) > 1 => F!Payload(f) <= FrameBytes) => F!FramesFit'
<1>1. F!Payload(active)' = F!Payload(active')
  BY Zenon DEF F!Payload, F!FoldLeft, F!MapThenFoldSet, F!Max
<1>2. F!Span(active)' = F!Span(active')
  BY DEF F!Span, F!Last
<1>3. (\A f \in sealed : Len(f) > 1 => F!Payload(f) <= FrameBytes)'
      <=> \A f \in sealed' : Len(f) > 1 => F!Payload(f) <= FrameBytes
  BY Zenon DEF F!Payload, F!FoldLeft, F!MapThenFoldSet, F!Max
<1> QED
  BY <1>1, <1>2, <1>3 DEF F!OpenBounded, F!FramesFit

\* append_binary_bytes: the frame is cut before the block that would overflow or outlive it.
LEMMA FrameBinary ==
  ASSUME FrameInv, NEW b \in F!Blocks, now <= b.first, b.first <= b.last, b.last - b.first < BlockAge,
         now' = b.last, UNCHANGED format, F!BinaryBlock(b)
  PROVE  FrameInv'
<1> DEFINE byAge == F!Aged(frameStart, b.first)
           open == IF byAge THEN <<>> ELSE active
           bySize == F!Overflows(open, b)
           base == IF bySize THEN <<>> ELSE open
           joined == Append(base, b)
           start == IF byAge \/ frameStart = F!None THEN b.first ELSE frameStart
           done == F!Full(joined) \/ F!Aged(start, b.last)
<1>1. /\ format = "binary"
      /\ sealed' = (IF byAge THEN {active} ELSE {}) \cup (IF bySize THEN {open} ELSE {})
                     \cup (IF done THEN {joined} ELSE {})
      /\ active' = IF done THEN <<>> ELSE joined
      /\ frameStart' = IF done THEN F!None ELSE start
  BY DEF F!BinaryBlock
<1>2. /\ active \in Seq(F!Blocks) /\ frameStart \in Int /\ now \in Nat
      /\ frameStart # F!None => frameStart \in Nat
      /\ active # <<>> <=> frameStart # F!None
      /\ frameStart <= b.first
      /\ active # <<>> => /\ frameStart <= Head(active).first
                          /\ F!Span(active) < FrameAge /\ F!Payload(active) < FrameBytes
  BY FrameBefore
<1>3. b.first \in 0..MaxTime /\ b.first \in Nat /\ b.last \in Nat
  BY FrameSealAssumption DEF F!Blocks
<1>4. start \in 0..MaxTime /\ start <= b.first
  <2>1. frameStart \in 0..MaxTime \cup {F!None}
    BY DEF FrameInv, FramesBounded, F!TypeOK
  <2> QED
    BY <2>1, <1>2, <1>3
<1>5. base \in Seq(F!Blocks) /\ (base # <<>> => base = active /\ start = frameStart /\ ~byAge /\ ~bySize)
  BY <1>2
<1>6. base # <<>> => /\ start <= Head(base).first /\ F!Span(base) < FrameAge
                     /\ b.first - start < FrameAge
                     /\ F!Payload(base) + b.size <= FrameBytes
  <2> SUFFICES ASSUME base # <<>>
               PROVE  /\ start <= Head(base).first /\ F!Span(base) < FrameAge
                      /\ b.first - start < FrameAge
                      /\ F!Payload(base) + b.size <= FrameBytes
    OBVIOUS
  <2>1. active # <<>> /\ base = active /\ start = frameStart
    BY <1>5
  <2>2. b.first - frameStart < FrameAge
    <3>1. ~F!Aged(frameStart, b.first) /\ frameStart # F!None
      BY <1>2, <1>5, <2>1
    <3> QED
      BY <3>1, <1>2, <1>3, FrameSealAssumption DEF F!Aged
  <2>3. ~F!Overflows(active, b)
    BY <1>5, <2>1
  <2>4. ~(F!Payload(active) + b.size > FrameBytes)
    BY <2>1, <2>3 DEF F!Overflows
  <2>5. F!Payload(active) \in Nat
    BY <1>2, PayloadNat
  <2>6. b.size \in Nat /\ FrameBytes \in Nat
    BY FrameSealAssumption DEF F!Blocks
  <2> QED
    BY <1>2, <2>1, <2>2, <2>4, <2>5, <2>6
<1> HIDE DEF base, start
<1>7. /\ joined \in Seq(F!Blocks) /\ joined # <<>>
      /\ Len(joined) > 1 => F!Span(F!Front(joined)) < FrameAge
      /\ F!Span(joined) < FrameAge + BlockAge
  BY <1>3, <1>4, <1>5, <1>6, Joined, JoinedSpan
<1>8. Len(joined) > 1 => F!Payload(joined) <= FrameBytes
  <2>1. Len(joined) > 1 => base # <<>>
    BY <1>5, Joined
  <2> QED
    BY <2>1, <1>5, <1>6, PayloadAppend
<1>9. /\ active' \in Seq(F!Blocks) /\ frameStart' \in 0..MaxTime \cup {F!None}
      /\ active' # <<>> <=> frameStart' # F!None
      /\ active' # <<>> => /\ F!Span(active') < FrameAge /\ F!Payload(active') < FrameBytes
                           /\ Len(active') > 1 => F!Span(F!Front(active')) < FrameAge
      /\ OpenKnown'
  <2>1. CASE done
    BY <1>1, <1>3, <2>1, FrameClosed
  <2>2. CASE ~done
    <3>1. active' = Append(base, b) /\ frameStart' = start
      BY <1>1, <2>2
    <3>2. F!Payload(Append(base, b)) < FrameBytes /\ ~F!Aged(start, b.last)
      <4>1. F!Payload(joined) \in Nat
        BY <1>7, PayloadNat
      <4>2. FrameBytes \in Nat
        BY FrameSealAssumption
      <4> QED
        BY <4>1, <4>2, <2>2 DEF F!Full
    <3> QED
      BY <1>4, <1>5, <1>6, <3>1, <3>2, FrameOpen
  <2> QED
    BY <2>1, <2>2
<1>10. \A f \in sealed' : /\ f \in Seq(F!Blocks)
                          /\ f # <<>> => F!Span(f) < FrameAge + BlockAge
                          /\ Len(f) > 1 => F!Span(F!Front(f)) < FrameAge
                          /\ Len(f) > 1 => F!Payload(f) <= FrameBytes
  <2> TAKE f \in sealed'
  <2>1. f = joined \/ (f = active /\ active # <<>>)
    <3>1. byAge => active # <<>>
      BY <1>2 DEF F!Aged
    <3>2. bySize => open # <<>>
      BY DEF F!Overflows
    <3> QED
      BY <3>1, <3>2, <1>1
  <2>2. CASE f = joined
    BY <2>2, <1>7, <1>8
  <2>3. CASE f = active /\ active # <<>>
    <3>1. Len(active) > 1 => F!Span(F!Front(active)) < FrameAge
      BY <2>3 DEF FrameInv, FramesBounded, F!SpanBounded
    <3>2. F!Span(active) \in Int /\ F!Payload(active) \in Int
      BY <1>2, <2>3, PayloadNat, SpanInt
    <3>3. FrameAge \in Nat /\ BlockAge \in Nat /\ FrameBytes \in Nat
      BY FrameSealAssumption, ValidatorAssumption
    <3> QED
      BY <1>2, <2>3, <3>1, <3>2, <3>3
  <2> QED
    BY <2>1, <2>2, <2>3
<1>11. F!TypeOK'
  BY <1>9, <1>10, FrameNow
<1>12. F!SpanBounded'
  <2>1. active' # <<>> => F!Span(active') < FrameAge + BlockAge
    <3>1. active' # <<>> => F!Span(active') \in Int
      BY <1>9, SpanInt
    <3>2. FrameAge \in Nat /\ BlockAge \in Nat
      BY FrameSealAssumption, ValidatorAssumption
    <3> QED
      BY <1>9, <3>1, <3>2
  <2>2. \A f \in (sealed \cup {active})' : f # <<>> => F!Span(f) < FrameAge + BlockAge
    BY <1>10, <2>1
  <2>3. \A f \in (sealed \cup {active})' : f # <<>> => (Len(f) > 1 => F!Span(F!Front(f)) < FrameAge)
    BY <1>9, <1>10
  <2> QED
    BY <2>2, <2>3 DEF F!SpanBounded, F!Span, F!Front, F!Last
<1>13. F!OpenBounded' /\ F!FramesFit'
  BY <1>9, <1>10, PayloadPrimed
<1> QED
  BY <1>9, <1>11, <1>12, <1>13 DEF FrameInv, FramesBounded

\* write_block: the frame is cut after the block that fills or outlives it.
LEMMA FrameRaw ==
  ASSUME FrameInv, NEW b \in F!Blocks, now <= b.first, b.first <= b.last, b.last - b.first < BlockAge,
         now' = b.last, UNCHANGED format, F!RawBlock(b)
  PROVE  FrameInv'
<1> DEFINE joined == Append(active, b)
           start == IF frameStart = F!None THEN b.first ELSE frameStart
           done == F!Payload(joined) >= FrameBytes \/ F!Aged(start, b.last)
<1>1. /\ format = "jsonl-zstd"
      /\ sealed' = IF done THEN {joined} ELSE {}
      /\ active' = IF done THEN <<>> ELSE joined
      /\ frameStart' = IF done THEN F!None ELSE start
  BY DEF F!RawBlock
<1>2. /\ active \in Seq(F!Blocks) /\ frameStart \in Int /\ now \in Nat
      /\ frameStart # F!None => frameStart \in Nat
      /\ active # <<>> <=> frameStart # F!None
      /\ frameStart <= b.first
      /\ active # <<>> => /\ frameStart <= Head(active).first
                          /\ F!Span(active) < FrameAge /\ F!Payload(active) < FrameBytes
  BY FrameBefore
<1>3. b.first \in 0..MaxTime /\ b.first \in Nat /\ b.last \in Nat
  BY FrameSealAssumption DEF F!Blocks
<1>4. start \in 0..MaxTime /\ start <= b.first /\ (active # <<>> => start = frameStart)
  <2>1. frameStart \in 0..MaxTime \cup {F!None}
    BY DEF FrameInv, FramesBounded, F!TypeOK
  <2> QED
    BY <2>1, <1>2, <1>3
<1> HIDE DEF start
<1>5. active # <<>> => start <= Head(active).first /\ F!Span(active) < FrameAge
  BY <1>2, <1>4
<1>6. joined \in Seq(F!Blocks) /\ (Len(joined) > 1 => F!Span(F!Front(joined)) < FrameAge)
  BY <1>2, <1>3, <1>4, <1>5, Joined, JoinedSpan
<1>7. /\ active' \in Seq(F!Blocks) /\ frameStart' \in 0..MaxTime \cup {F!None}
      /\ active' # <<>> <=> frameStart' # F!None
      /\ active' # <<>> => /\ F!Span(active') < FrameAge /\ F!Payload(active') < FrameBytes
                           /\ Len(active') > 1 => F!Span(F!Front(active')) < FrameAge
      /\ OpenKnown'
  <2>1. CASE done
    BY <1>1, <1>3, <2>1, FrameClosed
  <2>2. CASE ~done
    <3>1. active' = Append(active, b) /\ frameStart' = start
      BY <1>1, <2>2
    <3>2. F!Payload(Append(active, b)) < FrameBytes /\ ~F!Aged(start, b.last)
      <4>1. F!Payload(joined) \in Nat
        BY <1>6, PayloadNat
      <4>2. FrameBytes \in Nat
        BY FrameSealAssumption
      <4> QED
        BY <4>1, <4>2, <2>2
    <3> QED
      BY <1>2, <1>4, <1>5, <3>1, <3>2, FrameOpen
  <2> QED
    BY <2>1, <2>2
<1>8. \A f \in sealed' : f = joined
  BY <1>1
<1>9. F!TypeOK'
  BY <1>6, <1>7, <1>8, FrameNow
<1>10. F!SpanBounded'
  <2>1. \A f \in (sealed \cup {active})' : f # <<>> => (Len(f) > 1 => F!Span(F!Front(f)) < FrameAge)
    BY <1>6, <1>7, <1>8
  <2>2. format' # "binary"
    BY <1>1
  <2> QED
    BY <2>1, <2>2 DEF F!SpanBounded, F!Span, F!Front, F!Last
<1>11. F!OpenBounded'
  BY <1>7, PayloadPrimed
<1>12. F!FramesFit'
  BY <1>1 DEF F!FramesFit
<1> QED
  BY <1>7, <1>9, <1>10, <1>11, <1>12 DEF FrameInv, FramesBounded

\* The last frame is sealed.
LEMMA FrameFinish ==
  ASSUME FrameInv, F!Finish
  PROVE  FrameInv'
<1>1. /\ active # <<>> /\ sealed' = {active} /\ active' = <<>> /\ frameStart' = F!None
      /\ format' = format /\ now' = now
  BY DEF F!Finish
<1>2. F!TypeOK /\ F!SpanBounded /\ F!OpenBounded /\ F!FramesFit
  BY DEF FrameInv, FramesBounded
<1>3. F!TypeOK'
  BY <1>1, <1>2 DEF F!TypeOK, F!Blocks, F!None
<1>4. F!SpanBounded'
  BY <1>1, <1>2 DEF F!SpanBounded, F!Span, F!Front, F!Last
<1>5. now \in Nat /\ F!Payload(active) \in Nat /\ FrameBytes \in Nat
  BY <1>2, PayloadNat, FrameSealAssumption DEF F!TypeOK
<1>6. F!Payload(active) <= FrameBytes
  BY <1>1, <1>2, <1>5 DEF F!OpenBounded
<1>7. F!OpenBounded' /\ F!FramesFit'
  BY <1>1, <1>6, PayloadPrimed
<1>8. OpenKnown'
  BY <1>1, <1>5, FrameClosed
<1> QED
  BY <1>3, <1>4, <1>7, <1>8 DEF FrameInv, FramesBounded

\* No step of the writers breaks the invariant.
LEMMA FrameStep == FrameInv /\ [F!Next]_frameVars => FrameInv'
<1> SUFFICES ASSUME FrameInv, [F!Next]_frameVars  PROVE FrameInv'
  OBVIOUS
<1>1. CASE F!Block
  <2>1. PICK gap \in Gaps, span \in 0..(BlockAge - 1), size \in Sizes :
          /\ now + gap + span <= MaxTime
          /\ now' = now + gap + span
          /\ LET b == [first |-> now + gap, last |-> now + gap + span, size |-> size]
             IN  F!BinaryBlock(b) \/ F!RawBlock(b)
          /\ UNCHANGED format
    BY <1>1, Zenon DEF F!Block
  <2> DEFINE b == [first |-> now + gap, last |-> now + gap + span, size |-> size]
  <2>2. now \in Nat /\ gap \in Nat /\ span \in Nat /\ span < BlockAge /\ MaxTime \in Nat /\ BlockAge \in Nat
    BY FrameSealAssumption, ValidatorAssumption DEF FrameInv, FramesBounded, F!TypeOK
  <2>3. b \in F!Blocks
    BY <2>1, <2>2 DEF F!Blocks
  <2>4. /\ now <= b.first /\ b.first <= b.last /\ b.last - b.first < BlockAge
        /\ now' = b.last
    BY <2>1, <2>2
  <2> HIDE DEF b
  <2>5. CASE F!BinaryBlock(b)
    BY <2>1, <2>3, <2>4, <2>5, FrameBinary
  <2>6. CASE F!RawBlock(b)
    BY <2>1, <2>3, <2>4, <2>6, FrameRaw
  <2> QED
    BY <2>1, <2>5, <2>6 DEF b
<1>2. CASE F!Finish
  BY <1>2, FrameFinish
<1>3. CASE UNCHANGED frameVars
  <2>1. active' = active /\ sealed' = sealed /\ frameStart' = frameStart /\ now' = now /\ format' = format
    BY <1>3 DEF frameVars
  <2>2. F!TypeOK' /\ F!SpanBounded' /\ OpenKnown'
    BY <2>1 DEF FrameInv, FramesBounded, F!TypeOK, F!Blocks, F!None, F!SpanBounded, F!Span, F!Front, F!Last, OpenKnown
  <2>3. F!OpenBounded' /\ F!FramesFit'
    <3>1. active # <<>> => F!Span(active) < FrameAge /\ F!Payload(active) < FrameBytes
      BY DEF FrameInv, FramesBounded, F!OpenBounded
    <3>2. F!OpenBounded'
      BY <3>1, <2>1, PayloadPrimed
    <3>3. CASE format = "binary"
      <4>1. \A f \in sealed' : Len(f) > 1 => F!Payload(f) <= FrameBytes
        BY <3>3, <2>1 DEF FrameInv, FramesBounded, F!FramesFit
      <4> QED
        BY <3>2, <4>1, PayloadPrimed
    <3>4. CASE format # "binary"
      BY <3>2, <3>4, <2>1 DEF F!FramesFit
    <3> QED
      BY <3>3, <3>4
  <2> QED
    BY <2>2, <2>3 DEF FrameInv, FramesBounded
<1> QED
  BY <1>1, <1>2, <1>3 DEF F!Next

\* Frames stay within their limits, of source time and of size, and so does what a kill leaves
\* (append_binary_bytes and RawSegments::write_block of pipeline.rs).
THEOREM AlwaysFramesBounded == MCSpec => []FramesBounded
<1>1. MCInit => FrameInv
  BY FrameInit DEF MCInit
<1>2. FrameInv /\ [MCNext]_<<moves, vars, frameVars>> => FrameInv'
  <2>1. [MCNext]_<<moves, vars, frameVars>> => [F!Next]_frameVars
    BY DEF MCNext
  <2> QED
    BY <2>1, FrameStep
<1>3. FrameInv => FramesBounded
  BY DEF FrameInv
<1> QED
  BY <1>1, <1>2, <1>3, PTL DEF MCSpec

-----------------------------------------------------------------------------
(* What a validator remembers and says of the processes of a row.          *)

Counted == [Components -> Counters]
State == [cpu : Counted, seq : Nat, stamp : Nat]
Process == [id : Ids, cpu : Counted]
Memory == UNION {[D -> State] : D \in SUBSET Ids}
Validators == [previous : Memory, seq : Nat, stamp : Nat, checked : Nat, limit : Int]
Event == [kind : {"regression"}, component : Components, id : Ids, before : State, after : State]
         \cup [kind : {"unknown"}, reason : {"new", "capacity"}, id : Ids, seq : Nat]
Rows == [seq : Nat, stamp : Nat, processes : Seq(Process), quality : SUBSET Event]

\* What is remembered of process p after row r
Stated(r, p) == [cpu |-> p.cpu, seq |-> r.seq, stamp |-> r.stamp]
\* There is room for every process there is.
Roomy(v) == ~Bounded(v) \/ Cardinality(Ids) <= v.limit
\* A bounded validator holds no more than its limit.
WithinLimit(v) == Bounded(v) => Cardinality(DOMAIN v.previous) <= v.limit

\* w is v but for what it remembers.
SameClock(v, w) == w.seq = v.seq /\ w.stamp = v.stamp /\ w.checked = v.checked /\ w.limit = v.limit

\* What it is to be a memory of processes
LEMMA MemoryIs ==
  \A f : f \in Memory <=> /\ f = [i \in DOMAIN f |-> f[i]] /\ DOMAIN f \subseteq Ids
                          /\ \A i \in DOMAIN f : f[i] \in State
BY DEF Memory

\* Remembering one process changes nothing else.
LEMMA WithIs ==
  ASSUME NEW f \in Memory, NEW k \in Ids, NEW s \in State
  PROVE  /\ With(f, k, s) \in Memory
         /\ DOMAIN With(f, k, s) = DOMAIN f \cup {k}
         /\ With(f, k, s)[k] = s
         /\ \A i \in DOMAIN f : i # k => With(f, k, s)[i] = f[i]
<1>1. /\ DOMAIN With(f, k, s) = DOMAIN f \cup {k}
      /\ With(f, k, s) = [i \in DOMAIN With(f, k, s) |-> With(f, k, s)[i]]
      /\ \A i \in DOMAIN f \cup {k} : With(f, k, s)[i] = IF i = k THEN s ELSE f[i]
  BY DEF With
<1>2. With(f, k, s) \in Memory
  BY <1>1, MemoryIs
<1> QED
  BY <1>1, <1>2

\* Forgetting processes changes nothing of the others.
LEMMA KeepIs ==
  ASSUME NEW f \in Memory, NEW S
  PROVE  /\ Keep(f, S) \in Memory
         /\ DOMAIN Keep(f, S) = DOMAIN f \cap S
         /\ \A i \in DOMAIN f \cap S : Keep(f, S)[i] = f[i]
<1>1. /\ DOMAIN Keep(f, S) = DOMAIN f \cap S
      /\ Keep(f, S) = [i \in DOMAIN Keep(f, S) |-> Keep(f, S)[i]]
      /\ \A i \in DOMAIN f \cap S : Keep(f, S)[i] = f[i]
  BY DEF Keep
<1>2. Keep(f, S) \in Memory
  BY <1>1, MemoryIs
<1> QED
  BY <1>1, <1>2

\* The memory of a validator can be counted, and so can what is left without one process.
LEMMA Counting ==
  ASSUME NEW v \in Validators, NEW k \in Ids
  PROVE  /\ v.previous \in Memory /\ DOMAIN v.previous \subseteq Ids
         /\ Cardinality(DOMAIN v.previous) \in Nat /\ Cardinality(DOMAIN v.previous) <= Cardinality(Ids)
         /\ Cardinality(Ids) \in Nat /\ v.limit \in Int
         /\ Cardinality(DOMAIN v.previous \ {k}) \in Nat
         /\ Cardinality(DOMAIN v.previous \ {k})
              = IF k \in DOMAIN v.previous THEN Cardinality(DOMAIN v.previous) - 1
                ELSE Cardinality(DOMAIN v.previous)
         /\ Cardinality(DOMAIN v.previous \cup {k}) = Cardinality(DOMAIN v.previous \ {k}) + 1
         /\ Cardinality(DOMAIN v.previous \ {k}) < Cardinality(Ids)
<1>1. v.previous \in Memory /\ v.limit \in Int
  BY DEF Validators
<1>2. DOMAIN v.previous \subseteq Ids /\ IsFiniteSet(Ids)
  BY <1>1, MemoryIs, LiveReplayAssumption
<1>3. IsFiniteSet(DOMAIN v.previous) /\ IsFiniteSet(DOMAIN v.previous \ {k})
  BY <1>2, FS_Subset
<1>4. /\ Cardinality(DOMAIN v.previous) \in Nat /\ Cardinality(Ids) \in Nat
      /\ Cardinality(DOMAIN v.previous \ {k}) \in Nat
      /\ Cardinality(DOMAIN v.previous) <= Cardinality(Ids)
  BY <1>2, <1>3, FS_CardinalityType, FS_Subset
<1>5. Cardinality(DOMAIN v.previous \ {k})
        = IF k \in DOMAIN v.previous THEN Cardinality(DOMAIN v.previous) - 1
          ELSE Cardinality(DOMAIN v.previous)
  BY <1>3, FS_RemoveElement
<1>6. Cardinality(DOMAIN v.previous \cup {k}) = Cardinality(DOMAIN v.previous \ {k}) + 1
  <2>1. DOMAIN v.previous \cup {k} = (DOMAIN v.previous \ {k}) \cup {k}
    OBVIOUS
  <2>2. k \notin DOMAIN v.previous \ {k}
    OBVIOUS
  <2> QED
    BY <2>1, <2>2, <1>3, FS_AddElement
<1>7. Cardinality(DOMAIN v.previous \ {k}) < Cardinality(Ids)
  <2>1. DOMAIN v.previous \cup {k} \in SUBSET Ids
    BY <1>2
  <2>2. Cardinality(DOMAIN v.previous \cup {k}) <= Cardinality(Ids)
    BY <2>1, <1>2, FS_Subset
  <2> QED
    BY <2>2, <1>4, <1>6
<1> QED
  BY <1>1, <1>2, <1>4, <1>5, <1>6, <1>7

\* A process that is known has room, and with room it fits.
LEMMA RoomIs ==
  ASSUME NEW v \in Validators, WithinLimit(v), NEW r \in Rows, NEW p \in Process
  PROVE  /\ Room(v, r, p) \in BOOLEAN
         /\ ~Room(v, r, p) => p.id \notin DOMAIN v.previous
         /\ Roomy(v) => Room(v, r, p)
         /\ Room(v, r, p) /\ Bounded(v) => Cardinality(DOMAIN v.previous \cup {p.id}) <= v.limit
<1>1. p.id \in Ids
  BY DEF Process
<1>2. ASSUME Bounded(v), p.id \in DOMAIN v.previous
      PROVE  Cardinality(DOMAIN v.previous \ {p.id}) < v.limit
  BY <1>1, <1>2, Counting DEF WithinLimit
<1>3. ~Room(v, r, p) => p.id \notin DOMAIN v.previous
  BY <1>2 DEF Room
<1>4. Roomy(v) => Room(v, r, p)
  <2>1. /\ Cardinality(DOMAIN v.previous \ {p.id}) < Cardinality(Ids)
        /\ Cardinality(DOMAIN v.previous \ {p.id}) \in Nat /\ Cardinality(Ids) \in Nat /\ v.limit \in Int
    BY <1>1, Counting
  <2>2. Cardinality(Ids) <= v.limit => Cardinality(DOMAIN v.previous \ {p.id}) < v.limit
    BY <2>1
  <2> QED
    BY <2>2 DEF Room, Roomy
<1>5. ASSUME Room(v, r, p), Bounded(v)
      PROVE  Cardinality(DOMAIN v.previous \cup {p.id}) <= v.limit
  <2>1. CASE p.id \in DOMAIN v.previous
    <3>1. DOMAIN v.previous \cup {p.id} = DOMAIN v.previous
      BY <2>1
    <3> QED
      BY <3>1, <1>5 DEF WithinLimit
  <2>2. CASE p.id \notin DOMAIN v.previous
    <3>1. Cardinality(DOMAIN v.previous \ {p.id}) < v.limit
      BY <1>5, <2>2 DEF Room, Remembers
    <3> QED
      BY <3>1, <1>1, Counting
  <2> QED
    BY <2>1, <2>2
<1>6. Room(v, r, p) \in BOOLEAN
  BY DEF Room, Bounded, Remembers, Forgotten
<1> QED
  BY <1>3, <1>4, <1>5, <1>6

\* One process: the memory after it.
LEMMA ObserveMemory ==
  ASSUME NEW r \in Rows, NEW a, a.v \in Validators, WithinLimit(a.v), NEW p \in Process
  PROVE  LET w == Observe(r, a, p).v IN
         /\ w \in Validators /\ SameClock(a.v, w) /\ WithinLimit(w)
         /\ \A i \in Ids : i # p.id => /\ i \in DOMAIN w.previous <=> i \in DOMAIN a.v.previous
                                       /\ i \in DOMAIN w.previous => w.previous[i] = a.v.previous[i]
         /\ p.id \in DOMAIN w.previous => w.previous[p.id] = Stated(r, p)
         /\ Roomy(a.v) => p.id \in DOMAIN w.previous
<1> DEFINE v == a.v
           w == Observe(r, a, p).v
<1>1. Stated(r, p) \in State /\ p.id \in Ids /\ v.previous \in Memory
  BY DEF Stated, State, Process, Rows, Validators
<1>2. w = IF Room(v, r, p) THEN [v EXCEPT !.previous = With(v.previous, p.id, Stated(r, p))] ELSE v
  BY Zenon DEF Observe, Stated
<1>3. CASE Room(v, r, p)
  <2> DEFINE m == With(v.previous, p.id, Stated(r, p))
  <2>1. /\ m \in Memory /\ DOMAIN m = DOMAIN v.previous \cup {p.id} /\ m[p.id] = Stated(r, p)
        /\ \A i \in DOMAIN v.previous : i # p.id => m[i] = v.previous[i]
    <3>1. PICK f, k, s : f = v.previous /\ k = p.id /\ s = Stated(r, p)
      OBVIOUS
    <3>2. f \in Memory /\ k \in Ids /\ s \in State /\ m = With(f, k, s)
      BY <1>1, <3>1
    <3>3. /\ With(f, k, s) \in Memory /\ DOMAIN With(f, k, s) = DOMAIN f \cup {k} /\ With(f, k, s)[k] = s
          /\ \A i \in DOMAIN f : i # k => With(f, k, s)[i] = f[i]
      BY <3>2, WithIs
    <3> HIDE DEF m
    <3> QED
      BY <3>1, <3>2, <3>3
  <2> HIDE DEF m
  <2>2. w = [v EXCEPT !.previous = m]
    BY <1>2, <1>3 DEF m
  <2>3. w \in Validators /\ w.previous = m /\ SameClock(v, w)
    BY <2>1, <2>2 DEF Validators, SameClock
  <2>4. WithinLimit(w)
    <3>1. Bounded(w) <=> Bounded(v)
      BY <2>3 DEF Bounded, SameClock
    <3> QED
      BY <3>1, <2>1, <2>3, <1>3, RoomIs DEF WithinLimit, SameClock
  <2> QED
    BY <2>1, <2>3, <2>4
<1>4. CASE ~Room(v, r, p)
  <2>1. w = v /\ p.id \notin DOMAIN v.previous /\ ~Roomy(v)
    BY <1>2, <1>4, RoomIs
  <2> QED
    BY <2>1 DEF SameClock
<1> QED
  BY <1>3, <1>4

\* The processes of a row one after the other, as Validated does.
ObserveEach(r, start, ps) == FoldLeft(LAMBDA acc, p : Observe(r, acc, p), start, ps)

\* g takes the first processes of ps through Observe, the way FoldLeft does.
ObserveIter(g, r, start, ps, n) ==
  g = [t \in SUBSET (1..n) |-> IF t = {} THEN start ELSE Observe(r, g[t \ {Max(t)}], ps[Max(t)])]

\* ObserveEach is the value of such a fold.
LEMMA ObserveDef ==
  ASSUME NEW r, NEW start, NEW ps, NEW n, DOMAIN ps = 1..n
  PROVE  ObserveEach(r, start, ps) = (CHOOSE g : ObserveIter(g, r, start, ps, n))[1..n]
<1>1. ObserveEach(r, start, ps)
        = (CHOOSE g : g = [t \in SUBSET DOMAIN ps |->
                             IF t = {} THEN start ELSE Observe(r, g[t \ {Max(t)}], ps[Max(t)])])[DOMAIN ps]
  BY Zenon DEF ObserveEach, FoldLeft, MapThenFoldSet
<1> QED
  BY <1>1, Zenon DEF ObserveIter

\* There is a fold for one process more.
LEMMA ObserveExtends ==
  ASSUME NEW r, NEW start, NEW ps, NEW n \in Nat, NEW g, ObserveIter(g, r, start, ps, n)
  PROVE  \E h : ObserveIter(h, r, start, ps, n + 1)
<1> DEFINE h == [t \in SUBSET (1..(n + 1)) |->
                   IF n + 1 \in t THEN Observe(r, g[t \ {n + 1}], ps[n + 1]) ELSE g[t]]
<1>1. ASSUME NEW t \in SUBSET (1..(n + 1))
      PROVE  h[t] = IF t = {} THEN start ELSE Observe(r, h[t \ {Max(t)}], ps[Max(t)])
  <2>1. CASE t = {}
    BY <2>1 DEF ObserveIter
  <2>2. CASE n + 1 \in t
    <3>1. Max(t) = n + 1
      <4>1. n + 1 \in Nat /\ t # {}
        BY <2>2
      <4>2. Max(t) \in t /\ n + 1 <= Max(t)
        BY <4>1, <2>2, MaxIs
      <4>3. Max(t) \in 1..(n + 1)
        BY <4>2
      <4> QED
        BY <4>2, <4>3
    <3>2. n + 1 \notin t \ {n + 1} /\ t \ {n + 1} \in SUBSET (1..(n + 1))
      OBVIOUS
    <3>3. h[t \ {n + 1}] = g[t \ {n + 1}]
      BY <3>2
    <3> QED
      BY <2>2, <3>1, <3>3
  <2>3. CASE t # {} /\ n + 1 \notin t
    <3>1. t \in SUBSET (1..n)
      BY <2>3
    <3>2. \A u \in SUBSET (1..n) : h[u] = g[u]
      OBVIOUS
    <3> QED
      BY <2>3, <3>1, <3>2 DEF ObserveIter
  <2> QED
    BY <2>1, <2>2, <2>3
<1>2. h = [t \in SUBSET (1..(n + 1)) |-> IF t = {} THEN start ELSE Observe(r, h[t \ {Max(t)}], ps[Max(t)])]
  BY <1>1
<1> QED
  BY <1>2, Zenon DEF ObserveIter

\* The row is gone through in steps, one for each process.
LEMMA ObserveSteps ==
  ASSUME NEW r, NEW start, NEW ps, NEW n \in Nat, DOMAIN ps = 1..n
  PROVE  \E t : /\ t[0] = start
                /\ t[n] = ObserveEach(r, start, ps)
                /\ \A k \in 1..n : t[k] = Observe(r, t[k - 1], ps[k])
<1> DEFINE T == {m \in Nat : \E g : ObserveIter(g, r, start, ps, m)}
<1>1. 0 \in T
  <2>1. SUBSET (1..0) = {{}}
    OBVIOUS
  <2>2. ObserveIter([t \in SUBSET (1..0) |-> start], r, start, ps, 0)
    BY <2>1 DEF ObserveIter
  <2> QED
    BY <2>2
<1>2. \A m \in Nat : m \in T => m + 1 \in T
  BY ObserveExtends
<1>3. n \in T
  <2> HIDE DEF T
  <2> QED
    BY <1>1, <1>2, Induction
<1> DEFINE g == CHOOSE g : ObserveIter(g, r, start, ps, n)
           end == ObserveEach(r, start, ps)
<1>4. ObserveIter(g, r, start, ps, n) /\ end = g[1..n]
  BY <1>3, ObserveDef, Zenon
<1> HIDE DEF g, end
<1> DEFINE t == [k \in 0..n |-> g[1..k]]
<1>5. t[0] = start /\ t[n] = end
  <2>1. 1..0 = {} /\ 0 \in 0..n /\ n \in 0..n
    OBVIOUS
  <2> QED
    BY <2>1, <1>4 DEF ObserveIter
<1>6. ASSUME NEW k \in 1..n  PROVE t[k] = Observe(r, t[k - 1], ps[k])
  <2>1. k \in Nat \ {0} /\ 1..k \in SUBSET (1..n)
    OBVIOUS
  <2>2. Max(1..k) = k /\ (1..k) \ {k} = 1..(k - 1) /\ 1..k # {}
    BY <2>1, UpTo
  <2>3. g[1..k] = Observe(r, g[1..(k - 1)], ps[k])
    BY <1>4, <2>1, <2>2 DEF ObserveIter
  <2> QED
    BY <2>3
<1>7. /\ t[0] = start /\ t[n] = end
      /\ \A k \in 1..n : t[k] = Observe(r, t[k - 1], ps[k])
  BY <1>5, <1>6
<1> HIDE DEF t
<1>8. \E u : /\ u[0] = start /\ u[n] = end
             /\ \A k \in 1..n : u[k] = Observe(r, u[k - 1], ps[k])
  BY <1>7, Zenon
<1> QED
  BY <1>8, Zenon DEF end

-----------------------------------------------------------------------------
(* What the row says, and which processes of it.                           *)

\* e reports that a counter of p is lower than v remembers.
Regressed(v, r, p, e) == \E c \in Lower(v, r, p) : e = RegressionEvent(c, p, v.previous[p.id], r)

\* The events about a process are its regressions, or one that its continuity is not known.
LEMMA EventsAre ==
  ASSUME NEW v \in Validators, NEW r \in Rows, NEW p \in Process
  PROVE  /\ Events(v, r, p) \subseteq Event
         /\ \A e : Regressed(v, r, p, e) => e \in Events(v, r, p)
         /\ Bounded(v) /\ ~Remembers(v, r, p) => p.id \in Resets(Events(v, r, p))
         /\ \A e \in Events(v, r, p) :
              \/ Regressed(v, r, p, e)
              \/ Bounded(v) /\ ~Remembers(v, r, p) /\ e.kind = "unknown" /\ e.id = p.id
<1>1. Stated(r, p) \in State /\ p.id \in Ids /\ r.seq \in Nat /\ DOMAIN p.cpu = Components
  BY DEF Stated, State, Process, Rows, Counted
<1>2. CASE Remembers(v, r, p)
  <2>1. Events(v, r, p) = {RegressionEvent(c, p, v.previous[p.id], r) : c \in Lower(v, r, p)}
    BY <1>2 DEF Events
  <2>2. v.previous[p.id] \in State
    <3>1. v.previous \in Memory
      BY DEF Validators
    <3> QED
      BY <3>1, <1>2, MemoryIs DEF Remembers
  <2>3. \A c \in Lower(v, r, p) : RegressionEvent(c, p, v.previous[p.id], r) \in Event
    BY <1>1, <2>2 DEF RegressionEvent, Stated, Event, Lower
  <2> QED
    BY <1>2, <2>1, <2>3 DEF Regressed
<1>3. CASE ~Remembers(v, r, p)
  <2>1. Lower(v, r, p) = {}
    BY <1>3 DEF Lower
  <2>2. CASE Bounded(v)
    <3>1. PICK why \in {"new", "capacity"} : Events(v, r, p) = {UnknownEvent(why, p, r)}
      BY <1>3, <2>2 DEF Events
    <3>2. /\ UnknownEvent(why, p, r) \in Event
          /\ UnknownEvent(why, p, r).kind = "unknown" /\ UnknownEvent(why, p, r).id = p.id
      BY <1>1 DEF UnknownEvent, Event
    <3> HIDE DEF Event
    <3> QED
      BY <1>3, <2>1, <2>2, <3>1, <3>2 DEF Regressed, Resets
  <2>3. CASE ~Bounded(v)
    BY <1>3, <2>1, <2>3 DEF Events, Regressed
  <2> QED
    BY <2>2, <2>3
<1> QED
  BY <1>2, <1>3

\* What is said of a process depends on what is remembered of that process alone.
LEMMA SaysTheSame ==
  ASSUME NEW v \in Validators, NEW w \in Validators, SameClock(v, w), NEW r \in Rows, NEW p \in Process,
         p.id \in DOMAIN w.previous <=> p.id \in DOMAIN v.previous,
         p.id \in DOMAIN w.previous => w.previous[p.id] = v.previous[p.id]
  PROVE  /\ Bounded(w) <=> Bounded(v)
         /\ Remembers(w, r, p) <=> Remembers(v, r, p)
         /\ Lower(w, r, p) = Lower(v, r, p)
         /\ \A e : Regressed(w, r, p, e) <=> Regressed(v, r, p, e)
<1>1. Bounded(w) <=> Bounded(v)
  BY DEF SameClock, Bounded
<1>2. Remembers(w, r, p) <=> Remembers(v, r, p)
  BY <1>1 DEF Remembers, Forgotten
<1>3. Remembers(v, r, p) => w.previous[p.id] = v.previous[p.id]
  BY DEF Remembers
<1>4. Lower(w, r, p) = Lower(v, r, p)
  BY <1>2, <1>3 DEF Lower
<1>5. Lower(v, r, p) # {} => Remembers(v, r, p)
  BY DEF Lower
<1>6. \A e : Regressed(w, r, p, e) <=> Regressed(v, r, p, e)
  BY <1>3, <1>4, <1>5 DEF Regressed
<1> QED
  BY <1>1, <1>2, <1>4, <1>6

\* What is remembered after the processes P of the row.
Remembered(v, r, w, P) ==
  /\ \A i \in Ids : (\A p \in P : p.id # i) =>
       /\ i \in DOMAIN w.previous <=> i \in DOMAIN v.previous
       /\ i \in DOMAIN w.previous => w.previous[i] = v.previous[i]
  /\ \A p \in P : /\ p.id \in DOMAIN w.previous => w.previous[p.id] = Stated(r, p)
                  /\ Roomy(v) => p.id \in DOMAIN w.previous

\* What was added to the events.
Reported(v, r, before, after, P) ==
  /\ before \subseteq after /\ after \subseteq Event
  /\ \A p \in P : \A e : Regressed(v, r, p, e) => e \in after
  /\ \A p \in P : Bounded(v) /\ ~Remembers(v, r, p) => p.id \in Resets(after)
  /\ \A e \in after : e \notin before =>
       \E p \in P : \/ Regressed(v, r, p, e)
                    \/ Bounded(v) /\ ~Remembers(v, r, p) /\ e.kind = "unknown" /\ e.id = p.id

\* Whether the row begins a block, when there is room for every process.
Bordered(v, r, before, after, P) ==
  Roomy(v) => (after <=> before \/ \E p \in P : Lower(v, r, p) # {})

\* What the processes of P, taken one after another, made of start.
Observed(start, r, end, P) ==
  /\ end.v \in Validators /\ SameClock(start.v, end.v) /\ WithinLimit(end.v)
  /\ end.boundary \in BOOLEAN
  /\ Remembered(start.v, r, end.v, P)
  /\ Reported(start.v, r, start.quality, end.quality, P)
  /\ Bordered(start.v, r, start.boundary, end.boundary, P)

\* No process, no change.
LEMMA ObservedFirst ==
  ASSUME NEW r \in Rows, NEW start, start.v \in Validators, WithinLimit(start.v),
         start.quality \subseteq Event, start.boundary \in BOOLEAN
  PROVE  Observed(start, r, start, {})
<1> HIDE DEF Event
<1>1. Remembered(start.v, r, start.v, {})
  BY DEF Remembered
<1>2. Reported(start.v, r, start.quality, start.quality, {})
  BY DEF Reported
<1>3. Bordered(start.v, r, start.boundary, start.boundary, {})
  BY DEF Bordered
<1> QED
  BY <1>1, <1>2, <1>3 DEF Observed, SameClock

\* One process more.
LEMMA ObservedNext ==
  ASSUME NEW r \in Rows, NEW start, NEW a, NEW P, P \subseteq Process, NEW p \in Process,
         \A q \in P : q.id # p.id,
         start.v \in Validators, start.boundary \in BOOLEAN,
         Observed(start, r, a, P)
  PROVE  Observed(start, r, Observe(r, a, p), P \cup {p})
<1> DEFINE v == start.v
           b == Observe(r, a, p)
<1>1. /\ a.v \in Validators /\ SameClock(v, a.v) /\ WithinLimit(a.v) /\ a.boundary \in BOOLEAN
      /\ Remembered(v, r, a.v, P) /\ Reported(v, r, start.quality, a.quality, P)
      /\ Bordered(v, r, start.boundary, a.boundary, P)
  BY DEF Observed
<1>2. p.id \in Ids
  BY DEF Process
<1>3. /\ p.id \in DOMAIN a.v.previous <=> p.id \in DOMAIN v.previous
      /\ p.id \in DOMAIN a.v.previous => a.v.previous[p.id] = v.previous[p.id]
  BY <1>1, <1>2 DEF Remembered
<1>4. /\ Bounded(a.v) <=> Bounded(v)
      /\ Remembers(a.v, r, p) <=> Remembers(v, r, p)
      /\ Lower(a.v, r, p) = Lower(v, r, p)
      /\ \A e : Regressed(a.v, r, p, e) <=> Regressed(v, r, p, e)
  BY <1>1, <1>3, SaysTheSame
<1>5. Roomy(a.v) <=> Roomy(v)
  BY <1>1, <1>4 DEF Roomy, SameClock
<1>6. /\ b.v \in Validators /\ SameClock(a.v, b.v) /\ WithinLimit(b.v)
      /\ \A i \in Ids : i # p.id => /\ i \in DOMAIN b.v.previous <=> i \in DOMAIN a.v.previous
                                    /\ i \in DOMAIN b.v.previous => b.v.previous[i] = a.v.previous[i]
      /\ p.id \in DOMAIN b.v.previous => b.v.previous[p.id] = Stated(r, p)
      /\ Roomy(a.v) => p.id \in DOMAIN b.v.previous
  BY <1>1, ObserveMemory
<1>7. /\ b.quality = a.quality \cup Events(a.v, r, p)
      /\ b.boundary = (a.boundary \/ BeginsBlock(a.v, r, p))
  BY DEF Observe
<1>8. /\ Events(a.v, r, p) \subseteq Event
      /\ \A e : Regressed(v, r, p, e) => e \in Events(a.v, r, p)
      /\ Bounded(v) /\ ~Remembers(v, r, p) => p.id \in Resets(Events(a.v, r, p))
      /\ \A e \in Events(a.v, r, p) :
           \/ Regressed(v, r, p, e)
           \/ Bounded(v) /\ ~Remembers(v, r, p) /\ e.kind = "unknown" /\ e.id = p.id
  BY <1>1, <1>4, EventsAre
<1>9. Roomy(v) => (BeginsBlock(a.v, r, p) <=> Lower(v, r, p) # {})
  BY <1>1, <1>4, <1>5, RoomIs DEF BeginsBlock
<1>10. b.boundary \in BOOLEAN
  BY <1>1, <1>7, RoomIs DEF BeginsBlock
<1> HIDE DEF b
<1>11. Remembered(v, r, b.v, P \cup {p})
  <2>1. ASSUME NEW i \in Ids, \A q \in P \cup {p} : q.id # i
        PROVE  /\ i \in DOMAIN b.v.previous <=> i \in DOMAIN v.previous
               /\ i \in DOMAIN b.v.previous => b.v.previous[i] = v.previous[i]
    <3>1. i # p.id /\ \A q \in P : q.id # i
      BY <2>1
    <3>2. /\ i \in DOMAIN a.v.previous <=> i \in DOMAIN v.previous
          /\ i \in DOMAIN a.v.previous => a.v.previous[i] = v.previous[i]
      BY <3>1, <1>1 DEF Remembered
    <3> QED
      BY <3>1, <3>2, <1>6
  <2>2. ASSUME NEW q \in P
        PROVE  /\ q.id \in DOMAIN b.v.previous => b.v.previous[q.id] = Stated(r, q)
               /\ Roomy(v) => q.id \in DOMAIN b.v.previous
    <3>1. q.id # p.id /\ q.id \in Ids
      BY DEF Process
    <3>2. /\ q.id \in DOMAIN a.v.previous => a.v.previous[q.id] = Stated(r, q)
          /\ Roomy(v) => q.id \in DOMAIN a.v.previous
      BY <1>1 DEF Remembered
    <3> QED
      BY <3>1, <3>2, <1>6
  <2> QED
    BY <2>1, <2>2, <1>5, <1>6 DEF Remembered
<1>12. Reported(v, r, start.quality, b.quality, P \cup {p})
  <2> HIDE DEF Event
  <2>1. /\ start.quality \subseteq a.quality /\ a.quality \subseteq Event
        /\ \A q \in P : \A e : Regressed(v, r, q, e) => e \in a.quality
        /\ \A q \in P : Bounded(v) /\ ~Remembers(v, r, q) => q.id \in Resets(a.quality)
        /\ \A e \in a.quality : e \notin start.quality =>
             \E q \in P : \/ Regressed(v, r, q, e)
                          \/ Bounded(v) /\ ~Remembers(v, r, q) /\ e.kind = "unknown" /\ e.id = q.id
    BY <1>1 DEF Reported
  <2>2. start.quality \subseteq b.quality /\ b.quality \subseteq Event
    BY <2>1, <1>7, <1>8
  <2>3. \A q \in P \cup {p} : \A e : Regressed(v, r, q, e) => e \in b.quality
    BY <2>1, <1>7, <1>8
  <2>4. \A q \in P \cup {p} : Bounded(v) /\ ~Remembers(v, r, q) => q.id \in Resets(b.quality)
    <3>1. Resets(b.quality) = Resets(a.quality) \cup Resets(Events(a.v, r, p))
      BY <1>7 DEF Resets
    <3> QED
      BY <3>1, <2>1, <1>8
  <2>5. \A e \in b.quality : e \notin start.quality =>
          \E q \in P \cup {p} : \/ Regressed(v, r, q, e)
                                \/ Bounded(v) /\ ~Remembers(v, r, q) /\ e.kind = "unknown" /\ e.id = q.id
    BY <2>1, <1>7, <1>8
  <2> QED
    BY <2>2, <2>3, <2>4, <2>5 DEF Reported
<1>13. Bordered(v, r, start.boundary, b.boundary, P \cup {p})
  BY <1>1, <1>7, <1>9 DEF Bordered
<1>14. SameClock(v, b.v)
  BY <1>1, <1>6 DEF SameClock
<1>15. Observed(start, r, b, P \cup {p})
  BY <1>6, <1>10, <1>11, <1>12, <1>13, <1>14 DEF Observed
<1> QED
  BY <1>15 DEF b

\* The whole row.
LEMMA ObservedAll ==
  ASSUME NEW r \in Rows, Distinct(r.processes), NEW start, start.v \in Validators, WithinLimit(start.v),
         start.quality \subseteq Event, start.boundary \in BOOLEAN
  PROVE  Observed(start, r, ObserveEach(r, start, r.processes), ToSet(r.processes))
<1> DEFINE n == Len(r.processes)
           end == ObserveEach(r, start, r.processes)
           first(k) == {r.processes[j] : j \in 1..k}
<1>1. r.processes \in Seq(Process)
  BY DEF Rows
<1>2. n \in Nat /\ DOMAIN r.processes = 1..n
  BY <1>1
<1> HIDE DEF n
<1>3. PICK t : /\ t[0] = start /\ t[n] = end
               /\ \A k \in 1..n : t[k] = Observe(r, t[k - 1], r.processes[k])
  <2>1. PICK ps : ps = r.processes
    OBVIOUS
  <2>2. \E t : /\ t[0] = start /\ t[n] = ObserveEach(r, start, ps)
               /\ \A k \in 1..n : t[k] = Observe(r, t[k - 1], ps[k])
    BY <1>2, <2>1, ObserveSteps
  <2> QED
    BY <2>1, <2>2
<1> HIDE DEF end
<1> DEFINE T == {k \in Nat : k <= n => Observed(start, r, t[k], first(k))}
<1>4. 0 \in T
  <2>1. first(0) = {}
    OBVIOUS
  <2> QED
    BY <2>1, <1>3, ObservedFirst
<1>5. ASSUME NEW k \in Nat, k \in T  PROVE k + 1 \in T
  <2> SUFFICES ASSUME k + 1 <= n  PROVE Observed(start, r, t[k + 1], first(k + 1))
    OBVIOUS
  <2> DEFINE p == r.processes[k + 1]
  <2>1. k + 1 \in 1..n /\ (k + 1) - 1 = k /\ k <= n /\ 1..(k + 1) = 1..k \cup {k + 1}
    BY <1>2
  <2>2. t[k + 1] = Observe(r, t[k], p)
    BY <2>1, <1>3
  <2>3. Observed(start, r, t[k], first(k))
    BY <2>1, <1>5
  <2>4. p \in Process /\ first(k) \subseteq Process
    BY <2>1, <1>1, <1>2
  <2>5. \A q \in first(k) : q.id # p.id
    BY <2>1, <1>2 DEF Distinct
  <2>6. first(k + 1) = first(k) \cup {p}
    BY <2>1
  <2> HIDE DEF first, p
  <2> QED
    BY <2>2, <2>3, <2>4, <2>5, <2>6, ObservedNext
<1>6. n \in T
  <2> HIDE DEF T
  <2> QED
    BY <1>2, <1>4, <1>5, Induction
<1>7. Observed(start, r, end, first(n))
  BY <1>2, <1>6, <1>3
<1>8. first(n) = ToSet(r.processes)
  BY <1>2 DEF ToSet
<1> QED
  BY <1>7, <1>8, Zenon DEF end

-----------------------------------------------------------------------------
(* The order of a row on file.                                             *)

\* The rank of a process in a row sorted by identity
Below(P, p) == {q \in P : q.id < p.id}
Ranked(P) == [p \in P |-> Cardinality(Below(P, p)) + 1]

\* Identities give every process a place of its own.
LEMMA RankIs ==
  ASSUME NEW P, P \subseteq Process, IsFiniteSet(P), \A p, q \in P : p.id = q.id => p = q
  PROVE  Ranked(P) \in Bijection(P, 1..Cardinality(P))
<1> DEFINE n == Cardinality(P)
<1>1. n \in Nat
  BY FS_CardinalityType
<1>2. \A p \in P : p.id \in Nat
  BY LiveReplayAssumption DEF Process
<1>3. ASSUME NEW p \in P
      PROVE  /\ IsFiniteSet(Below(P, p)) /\ Cardinality(Below(P, p)) \in Nat
             /\ Cardinality(Below(P, p)) < n
  <2>1. Below(P, p) \in SUBSET P /\ Below(P, p) \cup {p} \in SUBSET P /\ p \notin Below(P, p)
    BY <1>2 DEF Below
  <2>2. IsFiniteSet(Below(P, p)) /\ Cardinality(Below(P, p) \cup {p}) <= n
    BY <2>1, FS_Subset
  <2>3. Cardinality(Below(P, p)) \in Nat
    BY <2>2, FS_CardinalityType
  <2>4. Cardinality(Below(P, p) \cup {p}) = Cardinality(Below(P, p)) + 1
    BY <2>1, <2>2, FS_AddElement
  <2> QED
    BY <2>2, <2>3, <2>4, <1>1
<1>4. ASSUME NEW p \in P, NEW q \in P, p.id < q.id
      PROVE  Cardinality(Below(P, p)) < Cardinality(Below(P, q))
  <2>1. Below(P, p) \cup {p} \in SUBSET Below(P, q) /\ p \notin Below(P, p)
    BY <1>2, <1>4 DEF Below
  <2>2. Cardinality(Below(P, p) \cup {p}) <= Cardinality(Below(P, q))
    BY <2>1, <1>3, FS_Subset
  <2>3. Cardinality(Below(P, p) \cup {p}) = Cardinality(Below(P, p)) + 1
    BY <2>1, <1>3, FS_AddElement
  <2> QED
    BY <2>2, <2>3, <1>3
<1> DEFINE R == Ranked(P)
<1>5. R \in [P -> 1..n]
  <2>1. \A p \in P : Cardinality(Below(P, p)) + 1 \in 1..n
    BY <1>1, <1>3
  <2> QED
    BY <2>1 DEF Ranked
<1>6. ASSUME NEW p \in P, NEW q \in P, R[p] = R[q]  PROVE p = q
  <2>1. Cardinality(Below(P, p)) = Cardinality(Below(P, q))
    BY <1>3, <1>6 DEF Ranked
  <2>2. p.id \in Nat /\ q.id \in Nat /\ ~(p.id < q.id) /\ ~(q.id < p.id)
    BY <2>1, <1>2, <1>3, <1>4
  <2>3. p.id = q.id
    BY <2>2
  <2> QED
    BY <2>3
<1> HIDE DEF R
<1>7. R \in Injection(P, 1..n)
  BY <1>5, <1>6 DEF Injection, IsInjective
<1>8. IsFiniteSet(1..n) /\ Cardinality(1..n) = n
  BY <1>1, FS_Interval
<1>9. R \in Surjection(P, 1..n)
  BY <1>7, <1>8, FS_Injection
<1> QED
  BY <1>7, <1>9 DEF Bijection, R

\* The processes of a row as a set: one for each place.
LEMMA Together ==
  ASSUME NEW r \in Rows, Distinct(r.processes)
  PROVE  /\ ToSet(r.processes) \subseteq Process /\ IsFiniteSet(ToSet(r.processes))
         /\ Cardinality(ToSet(r.processes)) = Len(r.processes)
         /\ \A p, q \in ToSet(r.processes) : p.id = q.id => p = q
<1> DEFINE ps == r.processes
           P == ToSet(ps)
           n == Len(ps)
<1>1. ps \in Seq(Process)
  BY DEF Rows
<1>2. ps \in [1..n -> Process] /\ n \in Nat /\ P = {ps[k] : k \in 1..n}
  BY <1>1 DEF ToSet
<1>3. P \subseteq Process /\ \A p, q \in P : p.id = q.id => p = q
  BY <1>2 DEF Distinct
<1>4. ps \in Bijection(1..n, P)
  BY <1>2 DEF Bijection, Injection, Surjection, IsInjective, Distinct
<1>5. IsFiniteSet(1..n) /\ Cardinality(1..n) = n
  BY <1>2, FS_Interval
<1>6. ExistsBijection(1..n, P)
  BY <1>4 DEF ExistsBijection
<1>7. IsFiniteSet(P) /\ Cardinality(P) = n
  BY <1>5, <1>6, FS_Bijection
<1> QED
  BY <1>3, <1>7

\* Sorting keeps the processes of a row.
LEMMA SortedIs ==
  ASSUME NEW r \in Rows, Distinct(r.processes)
  PROVE  LET s == Sorted(r) IN
         /\ s \in Rows /\ s.seq = r.seq /\ s.stamp = r.stamp /\ s.quality = r.quality
         /\ Len(s.processes) = Len(r.processes) /\ Distinct(s.processes)
         /\ ToSet(s.processes) = ToSet(r.processes)
<1> DEFINE P == ToSet(r.processes)
           n == Cardinality(P)
           s == Sorted(r)
           place(k) == CHOOSE p \in P : Cardinality(Below(P, p)) = k - 1
           sp == [k \in 1..n |-> place(k)]
<1>1. /\ P \subseteq Process /\ IsFiniteSet(P) /\ n = Len(r.processes)
      /\ \A p, q \in P : p.id = q.id => p = q
  BY Together
<1>2. n \in Nat
  BY <1>1, FS_CardinalityType
<1>3. s = [r EXCEPT !.processes = sp]
  BY DEF Sorted, Below
<1> HIDE DEF P, s
<1>4. Ranked(P) \in Bijection(P, 1..n)
  BY <1>1, RankIs
<1>5. \A p \in P : Cardinality(Below(P, p)) \in Nat
  <2> TAKE p \in P
  <2>1. Below(P, p) \in SUBSET P
    BY DEF Below
  <2> QED
    BY <2>1, <1>1, FS_Subset, FS_CardinalityType
<1>6. \A k \in 1..n : place(k) \in P /\ Cardinality(Below(P, place(k))) = k - 1
  <2> TAKE k \in 1..n
  <2>1. PICK p \in P : Ranked(P)[p] = k
    BY <1>4 DEF Bijection, Surjection
  <2>2. Cardinality(Below(P, p)) = k - 1
    BY <2>1, <1>2, <1>5 DEF Ranked
  <2> QED
    BY <2>2
<1> HIDE DEF place
<1>7. sp \in Seq(Process) /\ Len(sp) = n
  BY <1>1, <1>2, <1>6
<1>8. ASSUME NEW p \in P  PROVE \E k \in 1..n : place(k) = p
  <2> DEFINE k == Cardinality(Below(P, p)) + 1
  <2>1. k \in 1..n
    <3>1. Ranked(P)[p] \in 1..n
      BY <1>4 DEF Bijection, Injection
    <3> QED
      BY <3>1 DEF Ranked
  <2>2. place(k) \in P /\ Cardinality(Below(P, place(k))) = Cardinality(Below(P, p))
    BY <2>1, <1>5, <1>6
  <2> HIDE DEF k
  <2>3. Ranked(P)[place(k)] = Ranked(P)[p]
    BY <2>2 DEF Ranked
  <2>4. place(k) = p
    BY <2>2, <2>3, <1>4 DEF Bijection, Injection, IsInjective
  <2> QED
    BY <2>1, <2>4
<1>9. ToSet(sp) = P
  BY <1>6, <1>7, <1>8 DEF ToSet
<1>10. \A i, j \in 1..n : sp[i].id = sp[j].id => i = j
  <2> TAKE i, j \in 1..n
  <2> HAVE sp[i].id = sp[j].id
  <2>1. place(i) = place(j)
    BY <1>1, <1>6
  <2>2. i - 1 = j - 1
    BY <2>1, <1>6
  <2> QED
    BY <2>2
<1>11. Distinct(sp)
  BY <1>7, <1>10 DEF Distinct
<1> HIDE DEF sp
<1>12. s \in Rows /\ s.seq = r.seq /\ s.stamp = r.stamp /\ s.quality = r.quality /\ s.processes = sp
  BY <1>3, <1>7 DEF Rows
<1> QED
  BY <1>1, <1>7, <1>9, <1>11, <1>12 DEF s, P

-----------------------------------------------------------------------------
(* A row as the validator leaves it.                                       *)

\* What a validator remembers when it begins a row
Fresh(v, r) ==
  LET w == Expire(v, r) IN [w EXCEPT !.previous = Keep(w.previous, DOMAIN w.previous \ Resets(r.quality))]

\* The validator looks for forgotten processes in this row.
Looks(v, r) == Bounded(v) /\ (v.checked = Never \/ r.stamp - v.checked >= CheckEvery)

\* What is old is forgotten, when the validator looks.
LEMMA ExpireIs ==
  ASSUME NEW v \in Validators, NEW r \in Rows
  PROVE  LET w == Expire(v, r) IN
         /\ w \in Validators /\ w.seq = v.seq /\ w.stamp = v.stamp /\ w.limit = v.limit
         /\ w.checked = IF Looks(v, r) THEN r.stamp ELSE v.checked
         /\ DOMAIN w.previous = {i \in DOMAIN v.previous : Looks(v, r) => r.stamp - v.previous[i].stamp <= Grace}
         /\ \A i \in DOMAIN w.previous : w.previous[i] = v.previous[i]
<1> DEFINE m == Keep(v.previous, {i \in DOMAIN v.previous : r.stamp - v.previous[i].stamp <= Grace})
<1>1. v.previous \in Memory /\ r.stamp \in Nat
  BY DEF Validators, Rows
<1>2. /\ m \in Memory
      /\ DOMAIN m = {i \in DOMAIN v.previous : r.stamp - v.previous[i].stamp <= Grace}
      /\ \A i \in DOMAIN m : m[i] = v.previous[i]
  <2>1. PICK S : S = {i \in DOMAIN v.previous : r.stamp - v.previous[i].stamp <= Grace}
    OBVIOUS
  <2>2. /\ Keep(v.previous, S) \in Memory
        /\ DOMAIN Keep(v.previous, S) = DOMAIN v.previous \cap S
        /\ \A i \in DOMAIN v.previous \cap S : Keep(v.previous, S)[i] = v.previous[i]
    BY <1>1, KeepIs
  <2> QED
    BY <2>1, <2>2
<1>3. Expire(v, r) = IF Looks(v, r) THEN [v EXCEPT !.previous = m, !.checked = r.stamp] ELSE v
  BY DEF Expire, Looks
<1> HIDE DEF m
<1>4. CASE Looks(v, r)
  <2>1. PICK w : w = [v EXCEPT !.previous = m, !.checked = r.stamp]
    OBVIOUS
  <2>2. w = [previous |-> m, seq |-> v.seq, stamp |-> v.stamp, checked |-> r.stamp, limit |-> v.limit]
    BY <2>1 DEF Validators
  <2>3. w \in Validators
    BY <1>1, <1>2, <2>2 DEF Validators
  <2>4. Expire(v, r) = w
    BY <1>3, <1>4, <2>1
  <2> QED
    BY <1>2, <1>4, <2>2, <2>3, <2>4
<1>5. CASE ~Looks(v, r)
  BY <1>3, <1>5
<1> QED
  BY <1>4, <1>5

\* What a validator knows before it meets the first process of a row.
LEMMA FreshIs ==
  ASSUME NEW v \in Validators, WithinLimit(v), NEW r \in Rows
  PROVE  LET w == Fresh(v, r) IN
         /\ w \in Validators /\ w.seq = v.seq /\ w.stamp = v.stamp /\ w.limit = v.limit
         /\ w.checked = IF Looks(v, r) THEN r.stamp ELSE v.checked
         /\ DOMAIN w.previous = {i \in DOMAIN v.previous : Looks(v, r) => r.stamp - v.previous[i].stamp <= Grace}
                                \ Resets(r.quality)
         /\ \A i \in DOMAIN w.previous : w.previous[i] = v.previous[i]
         /\ WithinLimit(w)
<1> DEFINE u == Expire(v, r)
           m == Keep(u.previous, DOMAIN u.previous \ Resets(r.quality))
           w == Fresh(v, r)
<1>1. /\ u \in Validators /\ u.seq = v.seq /\ u.stamp = v.stamp /\ u.limit = v.limit
      /\ u.checked = IF Looks(v, r) THEN r.stamp ELSE v.checked
      /\ DOMAIN u.previous = {i \in DOMAIN v.previous : Looks(v, r) => r.stamp - v.previous[i].stamp <= Grace}
      /\ \A i \in DOMAIN u.previous : u.previous[i] = v.previous[i]
  BY ExpireIs
<1>2. w = [u EXCEPT !.previous = m]
  BY DEF Fresh
<1> HIDE DEF u, w
<1>3. /\ m \in Memory /\ DOMAIN m = DOMAIN u.previous \ Resets(r.quality)
      /\ \A i \in DOMAIN m : m[i] = u.previous[i]
  <2>1. u.previous \in Memory
    BY <1>1 DEF Validators
  <2>2. PICK f, S : f = u.previous /\ S = DOMAIN u.previous \ Resets(r.quality)
    OBVIOUS
  <2>3. /\ Keep(f, S) \in Memory /\ DOMAIN Keep(f, S) = DOMAIN f \cap S
        /\ \A i \in DOMAIN f \cap S : Keep(f, S)[i] = f[i]
    <3>1. f \in Memory
      BY <2>1, <2>2
    <3> QED
      BY <3>1, KeepIs
  <2> QED
    BY <2>2, <2>3
<1> HIDE DEF m
<1>4. /\ w \in Validators /\ w.seq = v.seq /\ w.stamp = v.stamp /\ w.limit = v.limit
      /\ w.checked = u.checked /\ w.previous = m
  BY <1>1, <1>2, <1>3 DEF Validators
<1>5. DOMAIN w.previous \subseteq DOMAIN v.previous
  BY <1>1, <1>3, <1>4
<1>6. WithinLimit(w)
  <2> SUFFICES ASSUME Bounded(w)  PROVE Cardinality(DOMAIN w.previous) <= w.limit
    BY DEF WithinLimit
  <2>1. Bounded(v) /\ v.previous \in Memory /\ w.previous \in Memory
    BY <1>4 DEF Bounded, Validators
  <2>2. IsFiniteSet(DOMAIN v.previous)
    <3>1. DOMAIN v.previous \in SUBSET Ids
      BY <2>1, MemoryIs
    <3> QED
      BY <3>1, LiveReplayAssumption, FS_Subset
  <2>3. /\ Cardinality(DOMAIN w.previous) <= Cardinality(DOMAIN v.previous)
        /\ Cardinality(DOMAIN w.previous) \in Nat /\ Cardinality(DOMAIN v.previous) \in Nat
    BY <1>5, <2>2, FS_Subset, FS_CardinalityType
  <2>4. Cardinality(DOMAIN v.previous) <= v.limit /\ v.limit \in Int
    BY <2>1 DEF WithinLimit, Validators
  <2> QED
    BY <1>4, <2>3, <2>4
<1> QED
  BY <1>1, <1>3, <1>4, <1>6 DEF w

\* What validation makes of a row and of the validator.
LEMMA ValidatedIs ==
  ASSUME NEW v \in Validators, WithinLimit(v), NEW r \in Rows, Distinct(r.processes)
  PROVE  LET o == Validated(v, r)
             w == Fresh(v, r)
             P == ToSet(r.processes)
         IN  /\ o.v \in Validators /\ WithinLimit(o.v)
             /\ o.v.seq = r.seq /\ o.v.stamp = r.stamp /\ o.v.checked = w.checked /\ o.v.limit = v.limit
             /\ o.row \in Rows /\ o.row = [r EXCEPT !.quality = o.row.quality]
             /\ o.boundary \in BOOLEAN
             /\ Remembered(w, r, o.v, P)
             /\ Reported(w, r, r.quality, o.row.quality, P)
             /\ Bordered(w, r, \E e \in r.quality : IsRegression(e), o.boundary, P)
<1> DEFINE o == Validated(v, r)
           w == Fresh(v, r)
           P == ToSet(r.processes)
           start == [v |-> w, quality |-> r.quality, boundary |-> \E e \in r.quality : IsRegression(e)]
           end == ObserveEach(r, start, r.processes)
<1>1. w \in Validators /\ w.limit = v.limit /\ WithinLimit(w)
  BY FreshIs
<1>2. o = [v |-> [end.v EXCEPT !.seq = r.seq, !.stamp = r.stamp],
           row |-> [r EXCEPT !.quality = end.quality],
           boundary |-> end.boundary]
  BY Zenon DEF Validated, Fresh, ObserveEach
<1>3. start.v = w /\ start.quality = r.quality /\ start.boundary = (\E e \in r.quality : IsRegression(e))
  OBVIOUS
<1> HIDE DEF w, start
<1>4. r.quality \subseteq Event /\ r.seq \in Nat /\ r.stamp \in Nat /\ (\E e \in r.quality : IsRegression(e)) \in BOOLEAN
  BY DEF Rows, IsRegression
<1>5. Observed(start, r, end, P)
  BY <1>1, <1>3, <1>4, ObservedAll
<1> HIDE DEF end
<1>6. /\ end.v \in Validators /\ SameClock(w, end.v) /\ WithinLimit(end.v)
      /\ end.boundary \in BOOLEAN
      /\ Remembered(w, r, end.v, P)
      /\ Reported(w, r, r.quality, end.quality, P)
      /\ Bordered(w, r, \E e \in r.quality : IsRegression(e), end.boundary, P)
  BY <1>3, <1>5 DEF Observed
<1>7. /\ o.v = [end.v EXCEPT !.seq = r.seq, !.stamp = r.stamp]
      /\ o.row = [r EXCEPT !.quality = end.quality]
      /\ o.boundary = end.boundary
  BY <1>2
<1> HIDE DEF o
<1>8. o.v = [previous |-> end.v.previous, seq |-> r.seq, stamp |-> r.stamp,
             checked |-> end.v.checked, limit |-> end.v.limit]
  BY <1>6, <1>7 DEF Validators
<1>9. /\ o.v \in Validators /\ o.v.previous = end.v.previous /\ o.v.limit = end.v.limit
      /\ o.v.seq = r.seq /\ o.v.stamp = r.stamp /\ o.v.checked = end.v.checked
  BY <1>4, <1>6, <1>8 DEF Validators
<1>10. WithinLimit(o.v) /\ o.v.limit = v.limit /\ o.v.checked = w.checked
  BY <1>1, <1>6, <1>9 DEF WithinLimit, Bounded, SameClock
<1>11. Remembered(w, r, o.v, P)
  BY <1>6, <1>9 DEF Remembered
<1>12. o.row \in Rows /\ o.row.quality = end.quality
  <2>1. end.quality \subseteq Event
    BY <1>6 DEF Reported
  <2> HIDE DEF Event
  <2> QED
    BY <2>1, <1>7 DEF Rows
<1> QED
  BY <1>6, <1>7, <1>9, <1>10, <1>11, <1>12 DEF o, w

\* A row as it goes on file
Annotated(v, r) == Sorted(Validated(v, r).row)

\* The row on file has the processes and the time of the row.
LEMMA AnnotatedIs ==
  ASSUME NEW v \in Validators, WithinLimit(v), NEW r \in Rows, Distinct(r.processes)
  PROVE  LET s == Annotated(v, r) IN
         /\ s \in Rows /\ s.seq = r.seq /\ s.stamp = r.stamp /\ s.quality = Validated(v, r).row.quality
         /\ Len(s.processes) = Len(r.processes) /\ Len(Validated(v, r).row.processes) = Len(r.processes)
         /\ Distinct(s.processes) /\ ToSet(s.processes) = ToSet(r.processes)
         /\ Validated(v, r).row.stamp = r.stamp
<1> DEFINE o == Validated(v, r).row
<1>1. o \in Rows /\ o = [r EXCEPT !.quality = o.quality]
  BY ValidatedIs
<1> HIDE DEF o
<1>2. o.processes = r.processes /\ o.seq = r.seq /\ o.stamp = r.stamp
  BY <1>1 DEF Rows
<1> QED
  BY <1>1, <1>2, SortedIs DEF Annotated, o

\* What the live validator remembers after a row
LEMMA LiveMemory ==
  ASSUME NEW v \in Validators, WithinLimit(v), NEW r \in Rows, Distinct(r.processes), r.quality = {}
  PROVE  LET w == Validated(v, r).v
             P == ToSet(r.processes)
         IN  /\ \A i \in DOMAIN w.previous :
                  \/ \E p \in P : p.id = i /\ w.previous[i] = Stated(r, p)
                  \/ /\ \A p \in P : p.id # i
                     /\ i \in DOMAIN v.previous /\ w.previous[i] = v.previous[i]
                     /\ Looks(v, r) => r.stamp - v.previous[i].stamp <= Grace
             /\ Roomy(v) => \A p \in P : p.id \in DOMAIN w.previous
             /\ \A i \in DOMAIN v.previous :
                  (\A p \in P : p.id # i) /\ r.stamp - v.previous[i].stamp <= Grace => i \in DOMAIN w.previous
<1> DEFINE w == Validated(v, r).v
           f == Fresh(v, r)
           P == ToSet(r.processes)
<1>1. w \in Validators /\ Remembered(f, r, w, P)
  BY ValidatedIs
<1>2. /\ f \in Validators /\ f.limit = v.limit
      /\ DOMAIN f.previous = {i \in DOMAIN v.previous : Looks(v, r) => r.stamp - v.previous[i].stamp <= Grace}
                             \ Resets(r.quality)
      /\ \A i \in DOMAIN f.previous : f.previous[i] = v.previous[i]
  BY FreshIs
<1>3. Resets(r.quality) = {}
  BY DEF Resets
<1>4. DOMAIN w.previous \subseteq Ids /\ DOMAIN v.previous \subseteq Ids
  BY <1>1, MemoryIs DEF Validators
<1>5. Roomy(f) <=> Roomy(v)
  BY <1>2 DEF Roomy, Bounded
<1> HIDE DEF w, f, P
<1>6. \A i \in DOMAIN w.previous :
        \/ \E p \in P : p.id = i /\ w.previous[i] = Stated(r, p)
        \/ /\ \A p \in P : p.id # i
           /\ i \in DOMAIN v.previous /\ w.previous[i] = v.previous[i]
           /\ Looks(v, r) => r.stamp - v.previous[i].stamp <= Grace
  <2> TAKE i \in DOMAIN w.previous
  <2>1. CASE \A p \in P : p.id # i
    BY <2>1, <1>1, <1>2, <1>4 DEF Remembered
  <2>2. CASE \E p \in P : p.id = i
    BY <2>2, <1>1 DEF Remembered
  <2> QED
    BY <2>1, <2>2
<1>7. Roomy(v) => \A p \in P : p.id \in DOMAIN w.previous
  BY <1>1, <1>5 DEF Remembered
<1>8. \A i \in DOMAIN v.previous :
        (\A p \in P : p.id # i) /\ r.stamp - v.previous[i].stamp <= Grace => i \in DOMAIN w.previous
  BY <1>1, <1>2, <1>3, <1>4 DEF Remembered
<1> QED
  BY <1>6, <1>7, <1>8 DEF w, P

\* A process without an event was remembered, and none of its counters went down.
LEMMA Silent ==
  ASSUME NEW v \in Validators, WithinLimit(v), Bounded(v),
         NEW r \in Rows, Distinct(r.processes), r.quality = {}, NEW p \in ToSet(r.processes),
         ~Cuts(Annotated(v, r), p.id)
  PROVE  p.id \in DOMAIN v.previous /\ \A c \in Components : v.previous[p.id].cpu[c] <= p.cpu[c]
<1> DEFINE f == Fresh(v, r)
           Q == Annotated(v, r).quality
<1>1. Reported(f, r, r.quality, Q, ToSet(r.processes))
  BY ValidatedIs, AnnotatedIs
<1>2. /\ f \in Validators /\ f.limit = v.limit
      /\ DOMAIN f.previous = {i \in DOMAIN v.previous : Looks(v, r) => r.stamp - v.previous[i].stamp <= Grace}
                             \ Resets(r.quality)
      /\ \A i \in DOMAIN f.previous : f.previous[i] = v.previous[i]
  BY FreshIs
<1>3. \A e \in Q : e.kind \in {"unknown", "regression"} => e.id # p.id
  BY DEF Cuts
<1> HIDE DEF f, Q
<1>4. p \in Process
  BY Together
<1>5. Bounded(f)
  BY <1>2 DEF Bounded
<1>6. p.id \notin Resets(Q)
  BY <1>3 DEF Resets
<1>7. Remembers(f, r, p)
  BY <1>1, <1>5, <1>6 DEF Reported
<1>8. p.id \in DOMAIN f.previous
  BY <1>7 DEF Remembers
<1>9. Lower(f, r, p) = {}
  <2> SUFFICES ASSUME NEW c \in Lower(f, r, p)  PROVE FALSE
    OBVIOUS
  <2> DEFINE e == RegressionEvent(c, p, f.previous[p.id], r)
  <2>1. e \in Q
    BY <1>1 DEF Reported, Regressed
  <2>2. e.kind = "regression" /\ e.id = p.id
    BY DEF RegressionEvent
  <2> QED
    BY <2>1, <2>2, <1>3
<1>10. p.cpu \in Counted /\ v.previous[p.id].cpu \in Counted
  <2>1. f.previous[p.id] \in State
    BY <1>2, <1>8, MemoryIs DEF Validators
  <2> QED
    BY <2>1, <1>2, <1>4, <1>8 DEF State, Process
<1>11. \A c \in Components : ~(p.cpu[c] < v.previous[p.id].cpu[c])
  BY <1>2, <1>7, <1>8, <1>9, <1>10 DEF Lower, Counted
<1>12. \A c \in Components : p.cpu[c] \in Nat /\ v.previous[p.id].cpu[c] \in Nat
  BY <1>10, LiveReplayAssumption DEF Counted
<1> QED
  BY <1>2, <1>8, <1>11, <1>12

\* A row that begins no block has no lower counter of a process that is not forgotten.
LEMMA Unbroken ==
  ASSUME NEW v \in Validators, WithinLimit(v), Roomy(v),
         NEW r \in Rows, Distinct(r.processes), r.quality = {}, NEW p \in ToSet(r.processes),
         ~Validated(v, r).boundary,
         p.id \in DOMAIN v.previous, r.stamp - v.previous[p.id].stamp <= Grace
  PROVE  \A c \in Components : v.previous[p.id].cpu[c] <= p.cpu[c]
<1> DEFINE f == Fresh(v, r)
<1>1. /\ Bordered(f, r, \E e \in r.quality : IsRegression(e), Validated(v, r).boundary, ToSet(r.processes))
  BY ValidatedIs
<1>2. /\ f \in Validators /\ f.limit = v.limit
      /\ DOMAIN f.previous = {i \in DOMAIN v.previous : Looks(v, r) => r.stamp - v.previous[i].stamp <= Grace}
                             \ Resets(r.quality)
      /\ \A i \in DOMAIN f.previous : f.previous[i] = v.previous[i]
  BY FreshIs
<1> HIDE DEF f
<1>3. p \in Process
  BY Together
<1>4. Resets(r.quality) = {}
  BY DEF Resets
<1>5. p.id \in DOMAIN f.previous /\ f.previous[p.id] = v.previous[p.id]
  BY <1>2, <1>4
<1>6. f.previous[p.id] \in State
  BY <1>2, <1>5, MemoryIs DEF Validators
<1>7. f.previous[p.id].stamp \in Nat /\ r.stamp \in Nat /\ Grace \in Nat
  BY <1>6, ValidatorAssumption DEF State, Rows
<1>8. Remembers(f, r, p)
  BY <1>5, <1>7 DEF Remembers, Forgotten
<1>9. Roomy(f)
  BY <1>2 DEF Roomy, Bounded
<1>10. Lower(f, r, p) = {}
  BY <1>1, <1>9 DEF Bordered
<1>11. p.cpu \in Counted /\ v.previous[p.id].cpu \in Counted
  BY <1>3, <1>5, <1>6 DEF State, Process
<1>12. \A c \in Components : ~(p.cpu[c] < v.previous[p.id].cpu[c])
  BY <1>5, <1>8, <1>10, <1>11 DEF Lower, Counted
<1>13. \A c \in Components : p.cpu[c] \in Nat /\ v.previous[p.id].cpu[c] \in Nat
  BY <1>11, LiveReplayAssumption DEF Counted
<1> QED
  BY <1>12, <1>13

\* Replay of a row that the live validator annotated: it adds nothing, remembers at least as
\* much, and begins a block where the live validator did.
LEMMA ReplayIs ==
  ASSUME NEW v \in Validators, WithinLimit(v), Bounded(v), NEW u \in Validators, ~Bounded(u),
         \A i \in DOMAIN v.previous : i \in DOMAIN u.previous /\ u.previous[i] = v.previous[i],
         NEW r \in Rows, Distinct(r.processes), r.quality = {}
  PROVE  LET s == Annotated(v, r)
             l == Validated(v, r)
             o == Validated(u, s)
             P == ToSet(r.processes)
         IN  /\ o.row = s
             /\ o.v \in Validators /\ o.v.stamp = r.stamp /\ o.v.limit = u.limit
             /\ \A p \in P : p.id \in DOMAIN o.v.previous /\ o.v.previous[p.id] = Stated(r, p)
             /\ \A i \in DOMAIN o.v.previous : (\A p \in P : p.id # i) =>
                  i \in DOMAIN u.previous /\ o.v.previous[i] = u.previous[i]
             /\ \A i \in DOMAIN l.v.previous :
                  i \in DOMAIN o.v.previous /\ o.v.previous[i] = l.v.previous[i]
             /\ Roomy(v) => (o.boundary <=> l.boundary)
<1> DEFINE s == Annotated(v, r)
           l == Validated(v, r)
           o == Validated(u, s)
           P == ToSet(r.processes)
           f == Fresh(v, r)
           g == Fresh(u, s)
<1>1. WithinLimit(u)
  BY DEF WithinLimit
<1>2. /\ s \in Rows /\ s.seq = r.seq /\ s.stamp = r.stamp /\ s.quality = l.row.quality
      /\ Distinct(s.processes) /\ ToSet(s.processes) = P
  BY AnnotatedIs
<1>3. /\ Reported(f, r, r.quality, s.quality, P)
      /\ Bordered(f, r, \E e \in r.quality : IsRegression(e), l.boundary, P)
      /\ l.boundary \in BOOLEAN /\ l.v \in Validators
  BY <1>2, ValidatedIs
<1>4. /\ f \in Validators /\ f.limit = v.limit
      /\ DOMAIN f.previous \subseteq DOMAIN v.previous
      /\ \A i \in DOMAIN f.previous : f.previous[i] = v.previous[i]
  BY FreshIs
<1>5. /\ \A i \in DOMAIN l.v.previous :
           \/ \E p \in P : p.id = i /\ l.v.previous[i] = Stated(r, p)
           \/ /\ \A p \in P : p.id # i
              /\ i \in DOMAIN v.previous /\ l.v.previous[i] = v.previous[i]
  BY LiveMemory
<1>6. P \subseteq Process
  BY Together
<1> HIDE DEF s, l, f, P
<1>7. /\ o.v \in Validators /\ o.v.seq = s.seq /\ o.v.stamp = s.stamp /\ o.v.limit = u.limit
      /\ o.row \in Rows /\ o.row = [s EXCEPT !.quality = o.row.quality]
      /\ o.boundary \in BOOLEAN
      /\ Remembered(g, s, o.v, P)
      /\ Reported(g, s, s.quality, o.row.quality, P)
      /\ Bordered(g, s, \E e \in s.quality : IsRegression(e), o.boundary, P)
  BY <1>1, <1>2, ValidatedIs
<1>8. ~Looks(u, s)
  BY DEF Looks
<1>9. /\ g \in Validators /\ g.limit = u.limit
      /\ DOMAIN g.previous = DOMAIN u.previous \ Resets(s.quality)
      /\ \A i \in DOMAIN g.previous : g.previous[i] = u.previous[i]
  BY <1>1, <1>2, <1>8, FreshIs
<1> HIDE DEF o, g
<1>10. Bounded(f) /\ ~Bounded(g) /\ Roomy(g)
  BY <1>4, <1>9 DEF Bounded, Roomy
<1>11. \A p \in P : Stated(s, p) = Stated(r, p)
  BY <1>2 DEF Stated
\* What replay remembers of a process, the live validator had remembered.
<1>12. \A p \in P : Remembers(g, s, p) => /\ Remembers(f, r, p)
                                          /\ g.previous[p.id] = f.previous[p.id]
  <2> SUFFICES ASSUME NEW p \in P, Remembers(g, s, p)
               PROVE  Remembers(f, r, p) /\ g.previous[p.id] = f.previous[p.id]
    OBVIOUS
  <2>1. p.id \in DOMAIN g.previous
    BY DEF Remembers
  <2>2. Remembers(f, r, p)
    BY <2>1, <1>3, <1>9, <1>10 DEF Reported
  <2>3. p.id \in DOMAIN f.previous
    BY <2>2 DEF Remembers
  <2> QED
    BY <2>1, <2>2, <2>3, <1>4, <1>9
<1>13. \A p \in P : \A e : Regressed(g, s, p, e) => Regressed(f, r, p, e)
  <2> SUFFICES ASSUME NEW p \in P, NEW e, Regressed(g, s, p, e)  PROVE Regressed(f, r, p, e)
    OBVIOUS
  <2>1. PICK c \in Lower(g, s, p) : e = RegressionEvent(c, p, g.previous[p.id], s)
    BY DEF Regressed
  <2>2. Remembers(f, r, p) /\ g.previous[p.id] = f.previous[p.id]
    BY <2>1, <1>12 DEF Lower
  <2>3. c \in Lower(f, r, p)
    BY <2>1, <2>2 DEF Lower
  <2>4. e = RegressionEvent(c, p, f.previous[p.id], r)
    BY <2>1, <2>2, <1>2 DEF RegressionEvent
  <2> QED
    BY <2>3, <2>4 DEF Regressed
<1>14. o.row.quality = s.quality
  <2>1. s.quality \subseteq o.row.quality
    BY <1>7 DEF Reported
  <2>2. \A e \in o.row.quality : e \in s.quality
    <3> SUFFICES ASSUME NEW e \in o.row.quality, e \notin s.quality  PROVE FALSE
      OBVIOUS
    <3>1. PICK p \in P : Regressed(g, s, p, e)
      BY <1>7, <1>10 DEF Reported
    <3>2. Regressed(f, r, p, e)
      BY <3>1, <1>13
    <3> QED
      BY <3>2, <1>3 DEF Reported
  <2> QED
    BY <2>1, <2>2
<1>15. o.row = s
  BY <1>2, <1>7, <1>14 DEF Rows
<1>16. /\ \A p \in P : p.id \in DOMAIN o.v.previous /\ o.v.previous[p.id] = Stated(r, p)
       /\ \A i \in DOMAIN o.v.previous : (\A p \in P : p.id # i) =>
            i \in DOMAIN u.previous /\ o.v.previous[i] = u.previous[i]
  <2>1. DOMAIN o.v.previous \subseteq Ids
    BY <1>7, MemoryIs DEF Validators
  <2> QED
    BY <2>1, <1>7, <1>9, <1>10, <1>11 DEF Remembered
<1>17. ASSUME NEW i \in DOMAIN l.v.previous
       PROVE  i \in DOMAIN o.v.previous /\ o.v.previous[i] = l.v.previous[i]
  <2>1. CASE \E p \in P : p.id = i /\ l.v.previous[i] = Stated(r, p)
    BY <2>1, <1>16
  <2>2. CASE /\ \A p \in P : p.id # i
             /\ i \in DOMAIN v.previous /\ l.v.previous[i] = v.previous[i]
    <3>1. i \notin Resets(s.quality)
      <4> SUFFICES ASSUME NEW e \in s.quality, e.kind = "unknown", e.id = i  PROVE FALSE
        BY DEF Resets
      <4>1. PICK p \in P : Regressed(f, r, p, e) \/ e.id = p.id
        BY <1>3 DEF Reported
      <4>2. ~Regressed(f, r, p, e)
        BY DEF Regressed, RegressionEvent
      <4> QED
        BY <4>1, <4>2, <2>2
    <3>2. i \in DOMAIN u.previous /\ u.previous[i] = v.previous[i] /\ i \in Ids
      BY <2>2, MemoryIs DEF Validators
    <3>3. i \in DOMAIN g.previous /\ g.previous[i] = v.previous[i]
      BY <3>1, <3>2, <1>9
    <3>4. i \in DOMAIN o.v.previous /\ o.v.previous[i] = g.previous[i]
      BY <3>2, <3>3, <2>2, <1>7 DEF Remembered
    <3> QED
      BY <3>3, <3>4, <2>2
  <2> QED
    BY <2>1, <2>2, <1>5
<1>18. ASSUME Roomy(v)  PROVE o.boundary <=> l.boundary
  <2>1. Roomy(f)
    BY <1>4, <1>18 DEF Roomy, Bounded
  <2>2. l.boundary <=> \E p \in P : Lower(f, r, p) # {}
    BY <2>1, <1>3 DEF Bordered
  <2>3. (\E p \in P : Lower(f, r, p) # {}) <=> \E e \in s.quality : IsRegression(e)
    <3>1. ASSUME NEW p \in P, NEW c \in Lower(f, r, p)
          PROVE  \E e \in s.quality : IsRegression(e)
      <4> DEFINE e == RegressionEvent(c, p, f.previous[p.id], r)
      <4>1. e \in s.quality
        BY <1>3 DEF Reported, Regressed
      <4>2. IsRegression(e)
        BY DEF RegressionEvent, IsRegression
      <4> QED
        BY <4>1, <4>2
    <3>2. ASSUME NEW e \in s.quality, IsRegression(e)
          PROVE  \E p \in P : Lower(f, r, p) # {}
      <4>1. PICK p \in P : Regressed(f, r, p, e) \/ e.kind = "unknown"
        BY <1>3 DEF Reported
      <4>2. e.kind = "regression"
        BY <3>2 DEF IsRegression
      <4>3. Regressed(f, r, p, e)
        BY <4>1, <4>2
      <4> QED
        BY <4>3 DEF Regressed
    <3> QED
      BY <3>1, <3>2
  <2>4. \A p \in P : Lower(g, s, p) # {} => Lower(f, r, p) # {}
    BY <1>12 DEF Lower
  <2>5. o.boundary <=> (\E e \in s.quality : IsRegression(e)) \/ \E p \in P : Lower(g, s, p) # {}
    BY <1>7, <1>10 DEF Bordered
  <2> QED
    BY <2>2, <2>3, <2>4, <2>5
<1>19. o.v.stamp = r.stamp
  BY <1>2, <1>7
<1> QED
  BY <1>7, <1>15, <1>16, <1>17, <1>18, <1>19 DEF s, l, o, P

-----------------------------------------------------------------------------
(* Totals.                                                                 *)

\* g folds the counters, the way MapThenSumSet does.
SumIter(g, h, S) ==
  g = [s \in SUBSET S |-> IF s = {} THEN 0 ELSE h[CHOOSE x \in s : TRUE] + g[s \ {CHOOSE x \in s : TRUE}]]

\* The total of counters h over the components S.
Total(h, S) == MapThenSumSet(LAMBDA c : h[c], S)

\* Total is the value of such a fold.
LEMMA TotalDef ==
  ASSUME NEW h, NEW S
  PROVE  Total(h, S) = (CHOOSE g : SumIter(g, h, S))[S]
<1>1. Total(h, S) = (CHOOSE g : g = [s \in SUBSET S |->
                        IF s = {} THEN 0 ELSE h[CHOOSE x \in s : TRUE] + g[s \ {CHOOSE x \in s : TRUE}]])[S]
  BY Zenon DEF Total, MapThenSumSet, MapThenFoldSet
<1> QED
  BY <1>1, Zenon DEF SumIter

\* The fold exists, and Total is its value.
LEMMA TotalIter ==
  ASSUME NEW h, NEW S, IsFiniteSet(S)
  PROVE  \E g : SumIter(g, h, S) /\ Total(h, S) = g[S]
<1> DEFINE pick(s) == CHOOSE x \in s : TRUE
           next(g) == [s \in SUBSET S |-> IF s = {} THEN 0 ELSE h[pick(s)] + g[s \ {pick(s)}]]
           Good(g, n) == /\ g = [s \in SUBSET S |-> g[s]]
                         /\ \A s \in SUBSET S : Cardinality(s) <= n => g[s] = next(g)[s]
           T == {n \in Nat : \E g : Good(g, n)}
<1>1. \A s \in SUBSET S : /\ IsFiniteSet(s) /\ Cardinality(s) \in Nat /\ Cardinality(s) <= Cardinality(S)
                          /\ s # {} => pick(s) \in s /\ Cardinality(s \ {pick(s)}) = Cardinality(s) - 1
  <2> TAKE s \in SUBSET S
  <2>1. IsFiniteSet(s) /\ Cardinality(s) <= Cardinality(S)
    BY FS_Subset
  <2>2. Cardinality(s) \in Nat
    BY <2>1, FS_CardinalityType
  <2>3. s # {} => pick(s) \in s
    OBVIOUS
  <2>4. s # {} => Cardinality(s \ {pick(s)}) = Cardinality(s) - 1
    BY <2>1, <2>3, FS_RemoveElement
  <2> QED
    BY <2>1, <2>2, <2>3, <2>4
<1>2. Cardinality(S) \in Nat
  BY <1>1
<1> HIDE DEF pick
<1>3. 0 \in T
  <2> DEFINE g == [s \in SUBSET S |-> 0]
  <2>1. \A s \in SUBSET S : Cardinality(s) <= 0 => s = {}
    <3> TAKE s \in SUBSET S
    <3>1. IsFiniteSet(s) /\ Cardinality(s) \in Nat
      BY <1>1
    <3>2. IsFiniteSet(s) /\ (Cardinality(s) <= 0 => Cardinality(s) = 0)
      BY <3>1
    <3> QED
      BY <3>2, FS_EmptySet
  <2>2. Good(g, 0)
    BY <2>1
  <2> QED
    BY <2>2
<1>4. ASSUME NEW n \in Nat, n \in T  PROVE n + 1 \in T
  <2>1. PICK g : Good(g, n)
    BY <1>4
  <2> DEFINE k == next(g)
  <2>2. k = [s \in SUBSET S |-> k[s]]
    OBVIOUS
  <2>3. ASSUME NEW s \in SUBSET S, Cardinality(s) <= n + 1
        PROVE  k[s] = next(k)[s]
    <3>1. CASE s = {}
      BY <3>1
    <3>2. CASE s # {}
      <4> DEFINE t == s \ {pick(s)}
      <4>1. t \in SUBSET S /\ Cardinality(t) <= n
        BY <3>2, <2>3, <1>1
      <4>2. g[t] = next(g)[t]
        BY <4>1, <2>1
      <4>3. next(k)[s] = h[pick(s)] + k[t]
        BY <3>2
      <4>4. k[s] = h[pick(s)] + g[t]
        BY <3>2
      <4> QED
        BY <4>2, <4>3, <4>4
    <3> QED
      BY <3>1, <3>2
  <2>4. Good(k, n + 1)
    BY <2>2, <2>3
  <2> HIDE DEF Good, k
  <2> QED
    BY <2>4
<1>5. Cardinality(S) \in T
  <2> HIDE DEF T
  <2> QED
    BY <1>2, <1>3, <1>4, Induction
<1>6. PICK g : Good(g, Cardinality(S))
  BY <1>5
<1>7. SumIter(g, h, S)
  <2>1. \A s \in SUBSET S : g[s] = next(g)[s]
    BY <1>1, <1>6
  <2>2. g = next(g)
    BY <1>6, <2>1
  <2> QED
    BY <2>2 DEF SumIter, pick
<1>8. SumIter(CHOOSE k : SumIter(k, h, S), h, S)
  BY <1>7, Zenon
<1> QED
  BY <1>8, TotalDef, Zenon

\* Where no counter is lower, neither is the total.
LEMMA TotalRises ==
  ASSUME NEW S, IsFiniteSet(S), NEW h \in [S -> Nat], NEW k \in [S -> Nat],
         \A c \in S : h[c] <= k[c]
  PROVE  Total(h, S) <= Total(k, S)
<1>1. PICK f : SumIter(f, h, S) /\ Total(h, S) = f[S]
  BY TotalIter
<1>2. PICK g : SumIter(g, k, S) /\ Total(k, S) = g[S]
  BY TotalIter
<1> DEFINE T == {n \in Nat : \A s \in SUBSET S : Cardinality(s) = n =>
                               f[s] \in Nat /\ g[s] \in Nat /\ f[s] <= g[s]}
<1>3. \A s \in SUBSET S : IsFiniteSet(s) /\ Cardinality(s) \in Nat
  BY FS_Subset, FS_CardinalityType
<1>4. 0 \in T
  <2>1. \A s \in SUBSET S : Cardinality(s) = 0 => s = {}
    BY <1>3, FS_EmptySet
  <2> QED
    BY <2>1, <1>1, <1>2 DEF SumIter
<1>5. ASSUME NEW n \in Nat, n \in T  PROVE n + 1 \in T
  <2> SUFFICES ASSUME NEW s \in SUBSET S, Cardinality(s) = n + 1
               PROVE  f[s] \in Nat /\ g[s] \in Nat /\ f[s] <= g[s]
    OBVIOUS
  <2>1. s # {}
    BY FS_EmptySet
  <2> DEFINE x == CHOOSE x \in s : TRUE
  <2>2. x \in s
    BY <2>1
  <2>3. f[s] = h[x] + f[s \ {x}] /\ g[s] = k[x] + g[s \ {x}]
    BY <2>1, <1>1, <1>2 DEF SumIter
  <2> HIDE DEF x
  <2>4. Cardinality(s \ {x}) = n
    <3>1. IsFiniteSet(s)
      BY <1>3
    <3>2. Cardinality(s \ {x}) = Cardinality(s) - 1
      BY <3>1, <2>2, FS_RemoveElement
    <3> QED
      BY <3>2
  <2>5. f[s \ {x}] \in Nat /\ g[s \ {x}] \in Nat /\ f[s \ {x}] <= g[s \ {x}]
    BY <2>4, <1>5
  <2>6. h[x] \in Nat /\ k[x] \in Nat /\ h[x] <= k[x]
    BY <2>2
  <2> QED
    BY <2>3, <2>5, <2>6
<1>6. Cardinality(S) \in T
  <2>1. Cardinality(S) \in Nat
    BY FS_CardinalityType
  <2> HIDE DEF T
  <2> QED
    BY <2>1, <1>4, <1>5, Induction
<1> QED
  BY <1>1, <1>2, <1>6

-----------------------------------------------------------------------------
(* The inductive invariant of the rows.                                    *)

\* The types of the state
Shapes ==
  /\ live \in Validators /\ replay \in Validators
  /\ liveBlock \in Seq(Rows) /\ replayBlock \in Seq(Rows)
  /\ row \in Rows /\ replayed = row
  /\ seen \in UNION {[D -> Counted] : D \in SUBSET Ids}
  /\ cuts \subseteq {"live", "replay"} /\ failed \in BOOLEAN

\* The live validator is bounded and replay is not.
Limited == live.limit \in Limits /\ replay.limit = Unlimited /\ WithinLimit(live)

\* Nothing remembered is from the future, or from before the first row.
Clocked ==
  /\ replay.stamp = live.stamp
  /\ \A i \in DOMAIN live.previous : live.previous[i].stamp \in 1..live.stamp
  /\ \A i \in DOMAIN replay.previous : replay.previous[i].stamp \in 1..live.stamp

\* The live validator looks for forgotten processes in time.
CheckedOften ==
  /\ live.checked <= live.stamp
  /\ live.checked = Never => DOMAIN live.previous = {}
  /\ live.checked # Never => live.stamp - live.checked < CheckEvery
  /\ \A i \in DOMAIN live.previous : live.checked - live.previous[i].stamp <= Grace

\* What the live validator remembers, replay remembers too, and it was the last to be seen.
KnownAlike ==
  \A i \in DOMAIN live.previous :
    /\ i \in DOMAIN replay.previous /\ replay.previous[i] = live.previous[i]
    /\ i \in DOMAIN seen /\ seen[i] = live.previous[i].cpu

\* A block within its limits of rows and of age
BlockKept(b) ==
  /\ Len(b) <= BlockRows
  /\ \A i \in DOMAIN b : /\ Head(b).stamp <= b[i].stamp /\ b[i].stamp <= live.stamp
                         /\ b[i].stamp - Head(b).stamp < BlockAge

\* What a block holds of a process is not above what was seen last, unless a later row of
\* the block has an event about the process.
BlockSeen(b) ==
  \A i \in DOMAIN b : \A p \in ToSet(b[i].processes) :
    \/ \E k \in i + 1..Len(b) : Cuts(b[k], p.id)
    \/ p.id \in DOMAIN seen /\ \A c \in Components : p.cpu[c] <= seen[p.id][c]

\* With room for every process, what a block holds of a process is remembered, with counters
\* at least as high.
BlockTracked(b) ==
  \A i \in DOMAIN b : \A p \in ToSet(b[i].processes) :
    /\ p.id \in DOMAIN live.previous /\ b[i].stamp <= live.previous[p.id].stamp
    /\ \A c \in Components : p.cpu[c] <= live.previous[p.id].cpu[c]

\* All of it
RowInv ==
  /\ Shapes /\ Limited /\ Clocked /\ CheckedOften /\ KnownAlike /\ SameCuts
  /\ \A b \in {liveBlock, replayBlock} : BlockKept(b) /\ Encodable(b) /\ BlockSeen(b)
  /\ HasRoom => TotalsRise(liveBlock) /\ BlockTracked(liveBlock)

\* nb is the block of row s: one of its own when the block is cut, otherwise b and the row.
Pushed(b, s, cut, nb) ==
  /\ nb \in Seq(Rows) /\ Len(nb) = (IF cut THEN 1 ELSE Len(b) + 1)
  /\ DOMAIN nb = 1..Len(nb) /\ Len(nb) \in DOMAIN nb /\ Len(nb) \in Nat /\ Len(b) \in Nat
  /\ nb[Len(nb)] = s
  /\ \A i \in DOMAIN nb : i # Len(nb) => ~cut /\ i \in DOMAIN b /\ i \in Nat /\ nb[i] = b[i]
  /\ Head(nb) = IF cut \/ b = <<>> THEN s ELSE Head(b)

\* Push adds the row to the block, or begins a new one with it.
LEMMA PushIs ==
  ASSUME NEW b \in Seq(Rows), NEW s \in Rows, NEW cut \in BOOLEAN, NEW nb, nb = Push(b, cut, s)
  PROVE  Pushed(b, s, cut, nb)
<1>1. CASE cut
  BY <1>1 DEF Push, Pushed
<1>2. CASE ~cut
  <2>1. nb = Append(b, s)
    BY <1>2 DEF Push
  <2>2. /\ nb \in Seq(Rows) /\ Len(nb) = Len(b) + 1 /\ Len(b) \in Nat
        /\ DOMAIN nb = 1..Len(nb) /\ DOMAIN b = 1..Len(b)
        /\ nb[Len(b) + 1] = s /\ \A i \in 1..Len(b) : nb[i] = b[i]
    BY <2>1
  <2>3. Head(nb) = IF b = <<>> THEN s ELSE Head(b)
    BY <2>1
  <2> QED
    BY <1>2, <2>2, <2>3 DEF Pushed
<1> QED
  BY <1>1, <1>2

\* A row keeps its block within the limits.
LEMMA BlockKeeps ==
  ASSUME NEW b \in Seq(Rows), BlockKept(b), NEW s \in Rows, NEW cut \in BOOLEAN, live.stamp \in Nat,
         live.stamp < s.stamp, live'.stamp = s.stamp, ~cut => ~ShouldCut(b, s)
  PROVE  BlockKept(Push(b, cut, s))'
<1>0. PICK nb : nb = Push(b, cut, s)
  OBVIOUS
<1>1. /\ nb \in Seq(Rows) /\ Len(nb) = (IF cut THEN 1 ELSE Len(b) + 1)
      /\ DOMAIN nb = 1..Len(nb) /\ Len(nb) \in Nat /\ Len(b) \in Nat
      /\ nb[Len(nb)] = s
      /\ \A i \in DOMAIN nb : i # Len(nb) => ~cut /\ i \in DOMAIN b /\ nb[i] = b[i]
      /\ Head(nb) = IF cut \/ b = <<>> THEN s ELSE Head(b)
  <2>1. Pushed(b, s, cut, nb)
    BY <1>0, PushIs
  <2> QED
    BY <2>1 DEF Pushed
<1>2. ~cut /\ b # <<>> => Len(b) < BlockRows /\ s.stamp - Head(b).stamp < BlockAge
  <2>1. Len(b) \in Nat /\ BlockRows \in Nat /\ BlockAge \in Nat /\ s.stamp \in Nat
    BY <1>1, ValidatorAssumption DEF Rows
  <2>2. b # <<>> => Head(b) \in Rows
    OBVIOUS
  <2>3. b # <<>> => Head(b).stamp \in Nat
    BY <2>2 DEF Rows
  <2> QED
    BY <2>1, <2>3 DEF ShouldCut
<1>3. BlockRows \in Nat \ {0} /\ BlockAge \in Nat \ {0} /\ s.stamp \in Nat
  BY ValidatorAssumption DEF Rows
<1>4. Len(nb) <= BlockRows
  <2>1. b = <<>> => Len(b) = 0
    OBVIOUS
  <2> QED
    BY <2>1, <1>1, <1>2, <1>3
<1>5. ASSUME NEW i \in DOMAIN nb
      PROVE  /\ Head(nb).stamp <= nb[i].stamp /\ nb[i].stamp <= s.stamp
             /\ nb[i].stamp - Head(nb).stamp < BlockAge
  <2>1. CASE cut \/ b = <<>>
    <3>1. nb[i] = s /\ Head(nb) = s
      <4>1. b = <<>> => DOMAIN b = {}
        OBVIOUS
      <4> QED
        BY <4>1, <2>1, <1>1
    <3> QED
      BY <3>1, <1>3
  <2>2. CASE ~cut /\ b # <<>>
    <3>1. Head(nb) = Head(b) /\ Head(b) = b[1] /\ 1 \in DOMAIN b
      BY <2>2, <1>1
    <3>2. \A j \in DOMAIN b : b[j] \in Rows
      OBVIOUS
    <3>3. \A j \in DOMAIN b : b[j].stamp \in Nat
      BY <3>2 DEF Rows
    <3>4. \A j \in DOMAIN b : /\ Head(b).stamp <= b[j].stamp /\ b[j].stamp <= live.stamp
                              /\ b[j].stamp - Head(b).stamp < BlockAge
      BY DEF BlockKept
    <3>5. CASE i = Len(nb)
      <4>1. nb[i] = s
        BY <3>5, <1>1
      <4>2. Head(b).stamp <= live.stamp /\ Head(b).stamp \in Nat
        BY <3>1, <3>3, <3>4
      <4> QED
        BY <4>1, <4>2, <3>1, <2>2, <1>2, <1>3
    <3>6. CASE i # Len(nb)
      <4>1. i \in DOMAIN b /\ nb[i] = b[i]
        BY <3>6, <1>1
      <4>2. b[i].stamp \in Nat /\ Head(b).stamp <= b[i].stamp /\ b[i].stamp <= live.stamp
            /\ b[i].stamp - Head(b).stamp < BlockAge
        BY <4>1, <3>3, <3>4
      <4> QED
        BY <4>1, <4>2, <3>1, <1>3
    <3> QED
      BY <3>5, <3>6
  <2> QED
    BY <2>1, <2>2
<1> QED
  BY <1>0, <1>4, <1>5 DEF BlockKept

\* What was last seen of a process does not go down in silence.
NoSilentDrop(s) ==
  \A q \in ToSet(s.processes) :
    \/ Cuts(s, q.id)
    \/ q.id \in DOMAIN seen /\ \A c \in Components : seen[q.id][c] <= q.cpu[c]

\* A row that hides no drop leaves its block encodable.
LEMMA BlockSees ==
  ASSUME NEW b \in Seq(Rows), BlockSeen(b), Encodable(b), NEW s \in Rows, NEW cut \in BOOLEAN,
         NoSilentDrop(s),
         \A i \in DOMAIN seen : seen[i] \in Counted,
         \A q \in ToSet(s.processes) : q.id \in DOMAIN seen' /\ seen'[q.id] = q.cpu,
         \A i \in DOMAIN seen : (\A q \in ToSet(s.processes) : q.id # i)
                                  => i \in DOMAIN seen' /\ seen'[i] = seen[i]
  PROVE  Encodable(Push(b, cut, s)) /\ BlockSeen(Push(b, cut, s))'
<1>0. PICK nb : nb = Push(b, cut, s)
  OBVIOUS
<1>1. /\ nb \in Seq(Rows) /\ DOMAIN nb = 1..Len(nb) /\ Len(nb) \in DOMAIN nb /\ Len(nb) \in Nat /\ Len(b) \in Nat
      /\ nb[Len(nb)] = s /\ Len(nb) = (IF cut THEN 1 ELSE Len(b) + 1)
      /\ \A i \in DOMAIN nb : i # Len(nb) => ~cut /\ i \in DOMAIN b /\ i \in Nat /\ nb[i] = b[i]
  <2>1. Pushed(b, s, cut, nb)
    BY <1>0, PushIs
  <2> QED
    BY <2>1 DEF Pushed
<1>2. DOMAIN b = 1..Len(b)
  OBVIOUS
<1>3. \A r \in Rows : \A p \in ToSet(r.processes) : p \in Process /\ p.cpu \in Counted
  <2> TAKE r \in Rows
  <2>1. r.processes \in Seq(Process)
    BY DEF Rows
  <2>2. ToSet(r.processes) \subseteq Process
    BY <2>1 DEF ToSet
  <2> QED
    BY <2>2 DEF Process
<1>4. \A f \in Counted : \A c \in Components : f[c] \in Nat
  BY LiveReplayAssumption DEF Counted
\* An earlier row of the block, and what is seen of its processes
<1>5. ASSUME NEW i \in DOMAIN nb, i # Len(nb), NEW p \in ToSet(nb[i].processes)
      PROVE  \/ \E k \in i + 1..Len(nb) : Cuts(nb[k], p.id)
             \/ /\ p.id \in DOMAIN seen' /\ \A c \in Components : p.cpu[c] <= seen'[p.id][c]
                /\ \A q \in ToSet(s.processes) : q.id = p.id => \A c \in Components : p.cpu[c] <= q.cpu[c]
  <2>1. ~cut /\ i \in DOMAIN b /\ i \in Nat /\ nb[i] = b[i] /\ Len(nb) = Len(b) + 1
    BY <1>1, <1>5
  <2>2. CASE \E k \in i + 1..Len(b) : Cuts(b[k], p.id)
    <3>1. PICK k \in i + 1..Len(b) : Cuts(b[k], p.id)
      BY <2>2
    <3>2. k \in i + 1..Len(nb) /\ k \in DOMAIN nb /\ k # Len(nb)
      BY <2>1, <1>1
    <3>3. nb[k] = b[k]
      BY <3>2, <1>1
    <3> QED
      BY <3>1, <3>2, <3>3
  <2>3. CASE p.id \in DOMAIN seen /\ \A c \in Components : p.cpu[c] <= seen[p.id][c]
    <3>1. CASE Cuts(s, p.id)
      <4>1. Len(nb) \in i + 1..Len(nb)
        BY <2>1, <1>1, <1>2
      <4> QED
        BY <3>1, <4>1, <1>1
    <3>2. CASE ~Cuts(s, p.id)
      <4>1. p.cpu \in Counted /\ seen[p.id] \in Counted
        <5>1. nb[i] \in Rows
          BY <1>1
        <5> QED
          BY <5>1, <1>3, <2>3
      <4>2. \A q \in ToSet(s.processes) : q.id = p.id => \A c \in Components : p.cpu[c] <= q.cpu[c]
        <5> TAKE q \in ToSet(s.processes)
        <5> HAVE q.id = p.id
        <5>1. \A c \in Components : seen[p.id][c] <= q.cpu[c]
          BY <3>2 DEF NoSilentDrop
        <5>2. q.cpu \in Counted
          BY <1>3
        <5> TAKE c \in Components
        <5>3. p.cpu[c] \in Nat /\ seen[p.id][c] \in Nat /\ q.cpu[c] \in Nat
          BY <4>1, <5>2, <1>4
        <5> QED
          BY <5>1, <5>3, <2>3
      <4>3. CASE \E q \in ToSet(s.processes) : q.id = p.id
        BY <4>2, <4>3
      <4>4. CASE \A q \in ToSet(s.processes) : q.id # p.id
        BY <4>2, <4>4, <2>3
      <4> QED
        BY <4>2, <4>3, <4>4
    <3> QED
      BY <3>1, <3>2
  <2> QED
    BY <2>1, <2>2, <2>3 DEF BlockSeen
<1>6. BlockSeen(nb)'
  <2> SUFFICES ASSUME NEW i \in DOMAIN nb, NEW p \in ToSet(nb[i].processes)
               PROVE  \/ \E k \in i + 1..Len(nb) : Cuts(nb[k], p.id)
                      \/ p.id \in DOMAIN seen' /\ \A c \in Components : p.cpu[c] <= seen'[p.id][c]
    BY DEF BlockSeen
  <2>1. CASE i = Len(nb)
    <3>1. p \in ToSet(s.processes)
      BY <2>1, <1>1
    <3>2. \A c \in Components : p.cpu[c] \in Nat
      BY <3>1, <1>3, <1>4
    <3> QED
      BY <3>1, <3>2
  <2>2. CASE i # Len(nb)
    BY <2>2, <1>5
  <2> QED
    BY <2>1, <2>2
<1>7. Encodable(nb)
  <2> SUFFICES ASSUME NEW i \in DOMAIN nb, NEW j \in DOMAIN nb, i < j,
                      NEW q \in ToSet(nb[j].processes)
               PROVE  \/ \E k \in i + 1..j : Cuts(nb[k], q.id)
                      \/ \A a \in CpuIn(nb[i], q.id), d \in CpuIn(nb[j], q.id) :
                            \A c \in DOMAIN a : a[c] <= d[c]
    BY DEF Encodable, ToSet
  <2>1. i # Len(nb) /\ ~cut /\ i \in DOMAIN b /\ nb[i] = b[i]
    BY <1>1
  <2>2. CASE j # Len(nb)
    <3>1. j \in DOMAIN b /\ nb[j] = b[j]
      BY <2>2, <1>1
    <3>2. \A k \in i + 1..j : nb[k] = b[k]
      BY <2>1, <2>2, <3>1, <1>1, <1>2
    <3>3. \/ \E k \in i + 1..j : Cuts(b[k], q.id)
          \/ \A a \in CpuIn(b[i], q.id), d \in CpuIn(b[j], q.id) : \A c \in DOMAIN a : a[c] <= d[c]
      BY <2>1, <3>1 DEF Encodable, ToSet
    <3> QED
      BY <2>1, <3>1, <3>2, <3>3
  <2>3. CASE j = Len(nb)
    <3>1. nb[j] = s
      BY <2>3, <1>1
    <3> SUFFICES ASSUME ~\E k \in i + 1..j : Cuts(nb[k], q.id),
                        NEW a \in CpuIn(nb[i], q.id), NEW d \in CpuIn(s, q.id)
                 PROVE  \A c \in DOMAIN a : a[c] <= d[c]
      BY <3>1
    <3>2. PICK p \in ToSet(nb[i].processes) : p.id = q.id /\ a = p.cpu
      BY DEF CpuIn, ToSet
    <3>3. PICK z \in ToSet(s.processes) : z.id = q.id /\ d = z.cpu
      BY DEF CpuIn, ToSet
    <3>4. \A c \in Components : p.cpu[c] <= z.cpu[c]
      BY <2>1, <2>3, <3>2, <3>3, <1>5
    <3>5. DOMAIN a = Components
      <4>1. nb[i] \in Rows
        BY <1>1
      <4> QED
        BY <3>2, <4>1, <1>3 DEF Counted
    <3> QED
      BY <3>2, <3>3, <3>4, <3>5
  <2> QED
    BY <2>2, <2>3
<1> QED
  BY <1>0, <1>6, <1>7

\* TotalsRise, with the total of the counters as an operator of its own
LEMMA RisesIs ==
  ASSUME NEW rows
  PROVE  TotalsRise(rows) <=>
           \A i, j \in DOMAIN rows : i < j =>
             \A p \in ToSet(rows[i].processes), q \in ToSet(rows[j].processes) :
               p.id = q.id => Total(p.cpu, DOMAIN p.cpu) <= Total(q.cpu, DOMAIN q.cpu)
BY Zenon DEF TotalsRise, Total

\* The processes of a row, and their counters
LEMMA CountersIn ==
  ASSUME NEW r \in Rows, NEW p \in ToSet(r.processes)
  PROVE  p \in Process /\ p.cpu \in Counted /\ \A c \in Components : p.cpu[c] \in Nat
<1>1. r.processes \in Seq(Process)
  BY DEF Rows
<1>2. p \in Process
  BY <1>1 DEF ToSet
<1>3. p.cpu \in Counted
  BY <1>2 DEF Process
<1> QED
  BY <1>2, <1>3, LiveReplayAssumption DEF Counted

\* A block within the grace: what it holds is still remembered when the next row joins it.
LEMMA StillKnown ==
  ASSUME NEW b \in Seq(Rows), BlockKept(b), NEW i \in DOMAIN b, NEW p \in ToSet(b[i].processes),
         NEW v \in Validators, v = live, BlockTracked(b), NEW s \in Rows, ~ShouldCut(b, s)
  PROVE  /\ p.id \in DOMAIN v.previous /\ v.previous[p.id] \in State
         /\ b[i].stamp \in Nat /\ b[i].stamp <= live.stamp
         /\ b[i].stamp <= v.previous[p.id].stamp /\ s.stamp - v.previous[p.id].stamp <= Grace
         /\ \A c \in Components : p.cpu[c] <= v.previous[p.id].cpu[c]
<1>1. /\ p.id \in DOMAIN v.previous /\ b[i].stamp <= v.previous[p.id].stamp
      /\ \A c \in Components : p.cpu[c] <= v.previous[p.id].cpu[c]
  BY DEF BlockTracked
<1>2. v.previous[p.id] \in State
  <2>1. v.previous \in Memory
    BY DEF Validators
  <2> QED
    BY <2>1, <1>1, MemoryIs
<1>3. Head(b).stamp <= b[i].stamp /\ b[i].stamp <= live.stamp
  BY DEF BlockKept
<1>4. b[i] \in Rows /\ Head(b) = b[1] /\ 1 \in DOMAIN b /\ b[1] \in Rows /\ b # <<>>
  OBVIOUS
<1>5. b[i].stamp \in Nat /\ b[1].stamp \in Nat /\ s.stamp \in Nat
  BY <1>4 DEF Rows
<1>6. v.previous[p.id].stamp \in Nat
  BY <1>2 DEF State
<1>7. s.stamp - b[1].stamp < BlockAge
  <2>1. ~(s.stamp - Head(b).stamp >= BlockAge)
    BY <1>4 DEF ShouldCut
  <2> QED
    BY <2>1, <1>4, <1>5, ValidatorAssumption
<1>8. s.stamp - v.previous[p.id].stamp <= Grace
  <2>1. BlockAge \in Nat /\ Grace \in Nat /\ BlockAge <= Grace
    BY ValidatorAssumption, LiveReplayAssumption
  <2>2. b[1].stamp <= b[i].stamp /\ b[i].stamp <= v.previous[p.id].stamp
    BY <1>1, <1>3, <1>4
  <2> QED
    BY <2>1, <2>2, <1>5, <1>6, <1>7
<1> QED
  BY <1>1, <1>2, <1>3, <1>5, <1>8

\* With room for every process, a row that joins a block lowers nothing in it.
LEMMA BlockTracks ==
  ASSUME NEW b \in Seq(Rows), BlockKept(b), TotalsRise(b), BlockTracked(b),
         NEW v \in Validators, v = live, WithinLimit(v), Roomy(v), live.stamp \in Nat,
         NEW r \in Rows, Distinct(r.processes), r.quality = {}, live.stamp < r.stamp,
         NEW w, w = live', w = Validated(v, r).v,
         NEW s, s = Annotated(v, r), NEW cut \in BOOLEAN,
         ~cut => ~ShouldCut(b, s) /\ ~Validated(v, r).boundary
  PROVE  TotalsRise(Push(b, cut, s)) /\ BlockTracked(Push(b, cut, s))'
<1> PICK P : P = ToSet(r.processes)
  OBVIOUS
<1>1. s \in Rows /\ s.stamp = r.stamp /\ ToSet(s.processes) = P /\ r.stamp \in Nat
  <2>1. s \in Rows /\ s.stamp = r.stamp /\ ToSet(s.processes) = P
    BY AnnotatedIs
  <2> QED
    BY <2>1 DEF Rows
<1>2. /\ \A i \in DOMAIN w.previous :
           \/ \E p \in P : p.id = i /\ w.previous[i] = Stated(r, p)
           \/ /\ \A p \in P : p.id # i
              /\ i \in DOMAIN v.previous /\ w.previous[i] = v.previous[i]
      /\ \A p \in P : p.id \in DOMAIN w.previous
      /\ \A i \in DOMAIN v.previous :
           (\A p \in P : p.id # i) /\ r.stamp - v.previous[i].stamp <= Grace => i \in DOMAIN w.previous
  BY LiveMemory
<1>3. \A p, q \in P : p.id = q.id => p = q
  BY Together
<1>4. \A q \in P : /\ q.id \in DOMAIN w.previous /\ w.previous[q.id].cpu = q.cpu
                  /\ w.previous[q.id].stamp = r.stamp
  <2> TAKE q \in P
  <2>1. q.id \in DOMAIN w.previous
    BY <1>2
  <2>2. w.previous[q.id] = Stated(r, q)
    BY <2>1, <1>2, <1>3
  <2>3. Stated(r, q).cpu = q.cpu /\ Stated(r, q).stamp = r.stamp
    BY DEF Stated
  <2> QED
    BY <2>1, <2>2, <2>3
<1>5. PICK nb : nb = Push(b, cut, s)
  OBVIOUS
<1>6. Pushed(b, s, cut, nb)
  BY <1>5, <1>1, PushIs
<1>7. /\ nb \in Seq(Rows) /\ Len(nb) = (IF cut THEN 1 ELSE Len(b) + 1)
      /\ DOMAIN nb = 1..Len(nb) /\ Len(nb) \in DOMAIN nb /\ Len(nb) \in Nat /\ Len(b) \in Nat
      /\ nb[Len(nb)] = s
      /\ \A i \in DOMAIN nb : i # Len(nb) => ~cut /\ i \in DOMAIN b /\ i \in Nat /\ nb[i] = b[i]
  BY <1>6 DEF Pushed
<1>8. ASSUME NEW i \in DOMAIN nb, i # Len(nb), NEW p \in ToSet(nb[i].processes)
      PROVE  /\ p.id \in DOMAIN w.previous /\ nb[i].stamp <= w.previous[p.id].stamp
             /\ \A c \in Components : p.cpu[c] <= w.previous[p.id].cpu[c]
             /\ \A q \in P : q.id = p.id => \A c \in Components : p.cpu[c] <= q.cpu[c]
  <2>1. ~cut /\ i \in DOMAIN b /\ nb[i] = b[i]
    BY <1>7, <1>8
  <2>2. /\ p.id \in DOMAIN v.previous /\ v.previous[p.id] \in State
        /\ b[i].stamp \in Nat /\ b[i].stamp <= live.stamp
        /\ b[i].stamp <= v.previous[p.id].stamp /\ r.stamp - v.previous[p.id].stamp <= Grace
        /\ \A c \in Components : p.cpu[c] <= v.previous[p.id].cpu[c]
    BY <2>1, <1>1, StillKnown
  <2>3. \A c \in Components : p.cpu[c] \in Nat
    BY <2>1, CountersIn
  <2>4. CASE \A q \in P : q.id # p.id
    <3>1. p.id \in DOMAIN w.previous /\ w.previous[p.id] = v.previous[p.id]
      BY <2>2, <2>4, <1>2
    <3> QED
      BY <3>1, <2>1, <2>2, <2>4
  <2>5. CASE \E q \in P : q.id = p.id
    <3>1. PICK q \in P : q.id = p.id
      BY <2>5
    <3>2. \A c \in Components : v.previous[q.id].cpu[c] <= q.cpu[c]
      BY <3>1, <2>1, <2>2, Unbroken
    <3>3. \A c \in Components : p.cpu[c] <= q.cpu[c]
      <4>1. \A c \in Components : q.cpu[c] \in Nat
        BY CountersIn
      <4>2. \A c \in Components : v.previous[p.id].cpu[c] \in Nat
        BY <2>2, LiveReplayAssumption DEF State, Counted
      <4> QED
        BY <4>1, <4>2, <3>1, <3>2, <2>2, <2>3
    <3>4. w.previous[p.id].cpu = q.cpu /\ w.previous[p.id].stamp = r.stamp /\ p.id \in DOMAIN w.previous
      BY <3>1, <1>4
    <3>5. nb[i].stamp <= r.stamp
      BY <2>1, <2>2, <1>1
    <3>6. \A z \in P : z.id = p.id => z = q
      BY <3>1, <1>3
    <3> QED
      BY <3>3, <3>4, <3>5, <3>6
  <2> QED
    BY <2>4, <2>5
<1>9. BlockTracked(nb)'
  <2> SUFFICES ASSUME NEW i \in DOMAIN nb, NEW p \in ToSet(nb[i].processes)
               PROVE  /\ p.id \in DOMAIN w.previous /\ nb[i].stamp <= w.previous[p.id].stamp
                      /\ \A c \in Components : p.cpu[c] <= w.previous[p.id].cpu[c]
    BY DEF BlockTracked
  <2>1. CASE i = Len(nb)
    <3>1. p \in P /\ nb[i] = s
      BY <2>1, <1>1, <1>7
    <3>2. w.previous[p.id].cpu = p.cpu /\ w.previous[p.id].stamp = r.stamp /\ p.id \in DOMAIN w.previous
      BY <3>1, <1>4
    <3>3. \A c \in Components : p.cpu[c] \in Nat
      BY <3>1, CountersIn
    <3> QED
      BY <3>1, <3>2, <3>3, <1>1
  <2>2. CASE i # Len(nb)
    BY <2>2, <1>8
  <2> QED
    BY <2>1, <2>2
<1>10. TotalsRise(nb)
  <2> SUFFICES ASSUME NEW i \in DOMAIN nb, NEW j \in DOMAIN nb, i < j,
                      NEW p \in ToSet(nb[i].processes), NEW q \in ToSet(nb[j].processes), p.id = q.id
               PROVE  Total(p.cpu, DOMAIN p.cpu) <= Total(q.cpu, DOMAIN q.cpu)
    BY RisesIs
  <2>1. i # Len(nb) /\ i \in DOMAIN b /\ nb[i] = b[i]
    BY <1>7
  <2>2. CASE j # Len(nb)
    <3>1. j \in DOMAIN b /\ nb[j] = b[j]
      BY <2>2, <1>7
    <3> QED
      BY <2>1, <3>1, RisesIs
  <2>3. CASE j = Len(nb)
    <3>1. q \in P
      BY <2>3, <1>1, <1>7
    <3>2. \A c \in Components : p.cpu[c] <= q.cpu[c]
      BY <2>1, <3>1, <1>8
    <3>3. p.cpu \in Counted /\ q.cpu \in Counted
      <4>1. nb[i] \in Rows /\ nb[j] \in Rows
        BY <1>7
      <4> QED
        BY <4>1, CountersIn
    <3>4. DOMAIN p.cpu = Components /\ DOMAIN q.cpu = Components
      BY <3>3 DEF Counted
    <3>5. p.cpu \in [Components -> Nat] /\ q.cpu \in [Components -> Nat] /\ IsFiniteSet(Components)
      BY <3>3, LiveReplayAssumption DEF Counted
    <3>6. PICK h, k : h = p.cpu /\ k = q.cpu
      OBVIOUS
    <3>7. h \in [Components -> Nat]
      BY <3>5, <3>6
    <3>8. k \in [Components -> Nat]
      BY <3>5, <3>6
    <3>9. Total(h, Components) <= Total(k, Components)
      BY <3>2, <3>5, <3>6, <3>7, <3>8, TotalRises
    <3> QED
      BY <3>4, <3>6, <3>9
  <2> QED
    BY <2>2, <2>3
<1> QED
  BY <1>5, <1>9, <1>10

\* The invariant holds before the first row.
LEMMA RowInit ==
  Init => RowInv
<1> SUFFICES ASSUME Init  PROVE RowInv
  OBVIOUS
<1>1. Nothing \in Memory /\ DOMAIN Nothing = {}
  BY MemoryIs DEF Nothing
<1>2. \A n \in Int : /\ NewValidator(n) \in Validators
                     /\ NewValidator(n).limit = n /\ NewValidator(n).previous = Nothing
                     /\ NewValidator(n).stamp = 0 /\ NewValidator(n).checked = 0
  BY <1>1 DEF NewValidator, Validators, Never
<1>3. PICK n \in Limits : live = NewValidator(n)
  BY DEF Init
<1>4. n \in Nat
  BY LiveReplayAssumption
<1>5. replay = NewValidator(Unlimited)
  BY DEF Init
<1>6. /\ live \in Validators /\ live.limit = n /\ DOMAIN live.previous = {} /\ live.stamp = 0 /\ live.checked = 0
      /\ replay \in Validators /\ replay.limit = Unlimited /\ DOMAIN replay.previous = {} /\ replay.stamp = 0
  BY <1>1, <1>2, <1>3, <1>4, <1>5 DEF Unlimited
<1>7. /\ liveBlock = <<>> /\ replayBlock = <<>> /\ cuts = {} /\ failed = FALSE
      /\ row = NoRow /\ replayed = NoRow /\ seen = Nothing
  BY DEF Init
<1>8. Shapes
  <2>1. NoRow \in Rows
    BY DEF NoRow, Rows, Never
  <2>2. Nothing \in UNION {[D -> Counted] : D \in SUBSET Ids}
    <3>1. Nothing \in [{} -> Counted]
      BY DEF Nothing
    <3> QED
      BY <3>1
  <2>3. <<>> \in Seq(Rows)
    OBVIOUS
  <2> QED
    BY <1>6, <1>7, <2>1, <2>2, <2>3 DEF Shapes
<1>9. Limited
  <2>1. Cardinality(DOMAIN live.previous) = 0
    BY <1>6, FS_EmptySet
  <2> QED
    BY <2>1, <1>4, <1>6 DEF Limited, WithinLimit
<1>10. Clocked /\ CheckedOften /\ KnownAlike
  BY <1>6 DEF Clocked, CheckedOften, KnownAlike, Never
<1>11. SameCuts
  BY <1>7 DEF SameCuts
<1>12. \A b \in {liveBlock, replayBlock} : BlockKept(b) /\ Encodable(b) /\ BlockSeen(b)
  <2>1. Len(<<>>) = 0 /\ DOMAIN <<>> = {}
    OBVIOUS
  <2>2. BlockKept(<<>>)
    BY <2>1, ValidatorAssumption DEF BlockKept
  <2>3. Encodable(<<>>) /\ BlockSeen(<<>>)
    BY <2>1 DEF Encodable, BlockSeen
  <2> QED
    BY <1>7, <2>2, <2>3
<1>13. TotalsRise(liveBlock) /\ BlockTracked(liveBlock)
  <2>1. DOMAIN <<>> = {}
    OBVIOUS
  <2> QED
    BY <1>7, <2>1 DEF TotalsRise, BlockTracked
<1> QED
  BY <1>8, <1>9, <1>10, <1>11, <1>12, <1>13 DEF RowInv

\* A scan is a row.
LEMMA ScanIs ==
  ASSUME NEW ps \in Scans
  PROVE  ps \in Seq(Process)
<1>1. PICK n \in 0..Cardinality(Ids) : ps \in [1..n -> [id : Ids, cpu : [Components -> Counters]]]
  BY DEF Scans
<1>2. [id : Ids, cpu : [Components -> Counters]] = Process
  BY DEF Process, Counted
<1>3. n \in Nat
  BY FS_CardinalityType, LiveReplayAssumption
<1>4. ps \in [1..n -> Process]
  BY <1>1, <1>2
<1>5. \A T, f : f \in [1..n -> T] => f \in Seq(T)
  BY <1>3
<1> QED
  BY <1>4, <1>5

\* The last counters of every process, after a row
SeenAfter(f, ps) ==
  [i \in DOMAIN f \cup {ps[k].id : k \in DOMAIN ps} |->
     IF \E k \in DOMAIN ps : ps[k].id = i
     THEN (CHOOSE p \in ToSet(ps) : p.id = i).cpu
     ELSE f[i]]

\* After a row, the last counters of its processes are those in it.
LEMMA SeenIs ==
  ASSUME NEW f \in UNION {[D -> Counted] : D \in SUBSET Ids},
         NEW r \in Rows, Distinct(r.processes), NEW g, g = SeenAfter(f, r.processes)
  PROVE  /\ g \in UNION {[D -> Counted] : D \in SUBSET Ids}
         /\ \A i \in DOMAIN f : f[i] \in Counted
         /\ \A q \in ToSet(r.processes) : q.id \in DOMAIN g /\ g[q.id] = q.cpu
         /\ \A i \in DOMAIN f : (\A q \in ToSet(r.processes) : q.id # i)
                                     => i \in DOMAIN g /\ g[i] = f[i]
<1> PICK ps : ps = r.processes
  OBVIOUS
<1> DEFINE P == ToSet(ps)
<1>1. P \subseteq Process /\ \A p, q \in P : p.id = q.id => p = q
  BY Together
<1>2. \A i : (\E k \in DOMAIN ps : ps[k].id = i) <=> \E p \in P : p.id = i
  BY DEF ToSet
<1>3. {ps[k].id : k \in DOMAIN ps} = {p.id : p \in P}
  BY DEF ToSet
<1>4. /\ DOMAIN g = DOMAIN f \cup {p.id : p \in P} /\ g = [i \in DOMAIN g |-> g[i]]
      /\ \A i \in DOMAIN g : g[i] = IF \E k \in DOMAIN ps : ps[k].id = i
                                  THEN (CHOOSE p \in ToSet(ps) : p.id = i).cpu ELSE f[i]
  <2>1. g = SeenAfter(f, ps)
    OBVIOUS
  <2>2. g = [i \in DOMAIN f \cup {ps[k].id : k \in DOMAIN ps} |->
               IF \E k \in DOMAIN ps : ps[k].id = i
               THEN (CHOOSE p \in ToSet(ps) : p.id = i).cpu ELSE f[i]]
    BY <2>1, Zenon DEF SeenAfter
  <2>3. PICK D : D = DOMAIN f \cup {ps[k].id : k \in DOMAIN ps}
    OBVIOUS
  <2>4. /\ DOMAIN g = D /\ g = [i \in DOMAIN g |-> g[i]]
        /\ \A i \in D : g[i] = IF \E k \in DOMAIN ps : ps[k].id = i
                              THEN (CHOOSE p \in ToSet(ps) : p.id = i).cpu ELSE f[i]
    BY <2>2, <2>3
  <2>5. D = DOMAIN f \cup {p.id : p \in P}
    BY <2>3, <1>3
  <2> QED
    BY <2>4, <2>5
<1> HIDE DEF P
<1>5. \A i \in DOMAIN g : g[i] = IF \E p \in P : p.id = i
                                 THEN (CHOOSE p \in P : p.id = i).cpu ELSE f[i]
  BY <1>2, <1>4 DEF P
<1>6. DOMAIN f \subseteq Ids /\ \A i \in DOMAIN f : f[i] \in Counted
  OBVIOUS
<1>7. \A q \in P : (CHOOSE p \in P : p.id = q.id) = q
  BY <1>1
<1>8. \A q \in P : q.id \in DOMAIN g /\ g[q.id] = q.cpu
  <2> TAKE q \in P
  <2>1. q.id \in DOMAIN f \cup {p.id : p \in P} /\ \E p \in P : p.id = q.id
    OBVIOUS
  <2>2. g[q.id] = (CHOOSE p \in P : p.id = q.id).cpu /\ q.id \in DOMAIN g
    BY <2>1, <1>4, <1>5
  <2> QED
    BY <2>2, <1>7
<1>9. \A i \in DOMAIN f : (\A q \in P : q.id # i) => i \in DOMAIN g /\ g[i] = f[i]
  BY <1>4, <1>5
<1>10. \A i \in DOMAIN g : i \in DOMAIN f \/ \E q \in P : q.id = i
  BY <1>4, <1>5
<1>11. \A q \in P : q.cpu \in Counted /\ q.id \in Ids
  BY <1>1 DEF Process
<1>12. DOMAIN g \subseteq Ids /\ \A i \in DOMAIN g : g[i] \in Counted
  <2> SUFFICES ASSUME NEW i \in DOMAIN g  PROVE i \in Ids /\ g[i] \in Counted
    OBVIOUS
  <2>1. CASE \E q \in P : q.id = i
    BY <2>1, <1>8, <1>11
  <2>2. CASE \A q \in P : q.id # i
    <3>1. i \in DOMAIN f
      BY <2>2, <1>10
    <3>2. g[i] = f[i]
      BY <3>1, <2>2, <1>9
    <3> QED
      BY <3>1, <3>2, <1>6
  <2> QED
    BY <2>1, <2>2
<1>13. g = [i \in DOMAIN g |-> g[i]]
  BY <1>4, <1>5
<1>14. g \in [DOMAIN g -> Counted]
  BY <1>12, <1>13
<1>15. g \in UNION {[D -> Counted] : D \in SUBSET Ids}
  <2>1. DOMAIN g \in SUBSET Ids
    BY <1>12
  <2> QED
    BY <2>1, <1>14
<1> QED
  BY <1>6, <1>8, <1>9, <1>10, <1>15 DEF P

\* One row through both recorders keeps what is known, and hides no counter that went down.
LEMMA RowStep ==
  ASSUME RowInv, NEW step \in Steps \ {0}, NEW ps \in Scans, Distinct(ps), Row(step, ps)
  PROVE  RowInv' /\ NoSilentDrop(row')
<1> PICK v, u, w, x : v = live /\ u = replay /\ w = live' /\ x = replay'
  OBVIOUS
<1> PICK b, d : b = liveBlock /\ d = replayBlock
  OBVIOUS
<1>1. /\ Shapes /\ Limited /\ Clocked /\ CheckedOften /\ KnownAlike /\ SameCuts
      /\ BlockKept(b) /\ Encodable(b) /\ BlockSeen(b) /\ BlockKept(d) /\ Encodable(d) /\ BlockSeen(d)
      /\ HasRoom => TotalsRise(b) /\ BlockTracked(b)
  BY DEF RowInv
<1>2. /\ v \in Validators /\ u \in Validators /\ b \in Seq(Rows) /\ d \in Seq(Rows)
      /\ seen \in UNION {[D -> Counted] : D \in SUBSET Ids} /\ failed \in BOOLEAN
  BY <1>1 DEF Shapes
<1>3. /\ WithinLimit(v) /\ Bounded(v) /\ ~Bounded(u) /\ v.limit \in Nat /\ v.limit \in Limits
      /\ u.limit = Unlimited /\ WithinLimit(u)
  <2>1. v.limit \in Limits /\ u.limit = Unlimited /\ WithinLimit(v)
    BY <1>1 DEF Limited
  <2>2. v.limit \in Nat
    BY <2>1, LiveReplayAssumption
  <2>3. Bounded(v) /\ ~Bounded(u)
    BY <2>1, <2>2 DEF Bounded, Unlimited
  <2> QED
    BY <2>1, <2>2, <2>3 DEF WithinLimit
<1>4. /\ v.previous \in Memory /\ u.previous \in Memory
      /\ v.seq \in Nat /\ v.stamp \in Nat /\ v.checked \in Nat
  BY <1>2 DEF Validators
<1>5. PICK r : r = [seq |-> live.seq + 1, stamp |-> live.stamp + step, processes |-> ps, quality |-> {}]
  OBVIOUS
<1>6. /\ r \in Rows /\ r.stamp = v.stamp + step /\ r.processes = ps /\ r.quality = {}
      /\ Distinct(r.processes) /\ r.stamp \in Nat /\ step \in Nat /\ v.stamp < r.stamp
  <2>1. ps \in Seq(Process)
    BY ScanIs
  <2>2. step \in Nat /\ step # 0
    BY LiveReplayAssumption
  <2> QED
    BY <2>1, <2>2, <1>4, <1>5 DEF Rows
<1>7. PICK s : s = Annotated(v, r)
  OBVIOUS
<1>8. /\ w = Validated(v, r).v /\ x = Validated(u, s).v
      /\ row' = s /\ replayed' = Validated(u, s).row
      /\ liveBlock' = Push(b, ShouldCut(b, Validated(v, r).row) \/ Validated(v, r).boundary, s)
      /\ replayBlock' = Push(d, ShouldCut(d, Validated(u, s).row) \/ Validated(u, s).boundary, Validated(u, s).row)
      /\ cuts' = (IF ShouldCut(b, Validated(v, r).row) \/ Validated(v, r).boundary THEN {"live"} ELSE {})
                 \cup (IF ShouldCut(d, Validated(u, s).row) \/ Validated(u, s).boundary THEN {"replay"} ELSE {})
      /\ seen' = SeenAfter(seen, ps)
      /\ failed' = failed
  BY <1>5, <1>7 DEF Row, Annotated, SeenAfter, ToSet
<1> PICK P : P = ToSet(r.processes)
  OBVIOUS
<1>9. /\ s \in Rows /\ s.stamp = r.stamp /\ Distinct(s.processes) /\ ToSet(s.processes) = P
      /\ Len(s.processes) = Len(r.processes) /\ Len(Validated(v, r).row.processes) = Len(r.processes)
      /\ Validated(v, r).row.stamp = r.stamp
  BY <1>2, <1>3, <1>6, <1>7, AnnotatedIs
<1>10. \A i \in DOMAIN v.previous : /\ i \in DOMAIN u.previous /\ u.previous[i] = v.previous[i]
                                    /\ i \in DOMAIN seen /\ seen[i] = v.previous[i].cpu
  BY <1>1 DEF KnownAlike
<1>11. /\ Validated(u, s).row = s /\ x \in Validators /\ x.stamp = r.stamp /\ x.limit = u.limit
       /\ \A p \in P : p.id \in DOMAIN x.previous /\ x.previous[p.id] = Stated(r, p)
       /\ \A i \in DOMAIN x.previous : (\A p \in P : p.id # i) =>
            i \in DOMAIN u.previous /\ x.previous[i] = u.previous[i]
       /\ \A i \in DOMAIN w.previous : i \in DOMAIN x.previous /\ x.previous[i] = w.previous[i]
       /\ Roomy(v) => (Validated(u, s).boundary <=> Validated(v, r).boundary)
  BY <1>2, <1>3, <1>6, <1>7, <1>8, <1>10, ReplayIs
<1>12. /\ w \in Validators /\ WithinLimit(w) /\ w.stamp = r.stamp /\ w.limit = v.limit
       /\ w.checked = Fresh(v, r).checked /\ Validated(v, r).boundary \in BOOLEAN
  <2>1. PICK o : o = Validated(v, r)
    OBVIOUS
  <2>2. /\ o.v \in Validators /\ WithinLimit(o.v) /\ o.v.stamp = r.stamp /\ o.v.limit = v.limit
        /\ o.v.checked = Fresh(v, r).checked /\ o.boundary \in BOOLEAN
    BY <2>1, <1>2, <1>3, <1>6, ValidatedIs, Zenon
  <2> QED
    BY <2>1, <2>2, <1>8
<1>13. w.checked = IF Looks(v, r) THEN r.stamp ELSE v.checked
  BY <1>2, <1>3, <1>6, <1>12, FreshIs
<1>14. /\ \A i \in DOMAIN w.previous :
            \/ \E p \in P : p.id = i /\ w.previous[i] = Stated(r, p)
            \/ /\ \A p \in P : p.id # i
               /\ i \in DOMAIN v.previous /\ w.previous[i] = v.previous[i]
               /\ Looks(v, r) => r.stamp - v.previous[i].stamp <= Grace
  BY <1>2, <1>3, <1>6, <1>8, LiveMemory
<1>15. /\ seen' \in UNION {[D -> Counted] : D \in SUBSET Ids}
       /\ \A i \in DOMAIN seen : seen[i] \in Counted
       /\ \A q \in P : q.id \in DOMAIN seen' /\ seen'[q.id] = q.cpu
       /\ \A i \in DOMAIN seen : (\A q \in P : q.id # i) => i \in DOMAIN seen' /\ seen'[i] = seen[i]
  <2>1. PICK f, g : f = seen /\ g = seen'
    OBVIOUS
  <2>2. f \in UNION {[D -> Counted] : D \in SUBSET Ids} /\ g = SeenAfter(f, r.processes)
    BY <2>1, <1>2, <1>6, <1>8
  <2>3. /\ g \in UNION {[D -> Counted] : D \in SUBSET Ids}
        /\ \A i \in DOMAIN f : f[i] \in Counted
        /\ \A q \in P : q.id \in DOMAIN g /\ g[q.id] = q.cpu
        /\ \A i \in DOMAIN f : (\A q \in P : q.id # i) => i \in DOMAIN g /\ g[i] = f[i]
    BY <2>2, <1>6, SeenIs
  <2> QED
    BY <2>1, <2>3
<1>16. ShouldCut(b, Validated(v, r).row) <=> ShouldCut(b, s)
  BY <1>9 DEF ShouldCut
<1>17. PICK lc \in BOOLEAN : lc <=> ShouldCut(b, s) \/ Validated(v, r).boundary
  OBVIOUS
<1>18. PICK rc \in BOOLEAN : rc <=> ShouldCut(d, s) \/ Validated(u, s).boundary
  OBVIOUS
<1>19. /\ liveBlock' = Push(b, lc, s) /\ replayBlock' = Push(d, rc, s)
       /\ cuts' = (IF lc THEN {"live"} ELSE {}) \cup (IF rc THEN {"replay"} ELSE {})
  BY <1>8, <1>11, <1>16, <1>17, <1>18 DEF Push
<1>20. PICK nb, nd : nb = Push(b, lc, s) /\ nd = Push(d, rc, s)
  OBVIOUS
<1>21. nb \in Seq(Rows) /\ nd \in Seq(Rows)
  <2>1. Pushed(b, s, lc, nb) /\ Pushed(d, s, rc, nd)
    BY <1>2, <1>9, <1>20, PushIs
  <2> QED
    BY <2>1 DEF Pushed
<1>22. Stated(r, r) = Stated(r, r) /\ \A p : Stated(r, p).stamp = r.stamp /\ Stated(r, p).cpu = p.cpu
  BY DEF Stated
<1>23. Shapes'
  <2>1. cuts' \subseteq {"live", "replay"}
    BY <1>19
  <2> QED
    BY <2>1, <1>2, <1>8, <1>9, <1>11, <1>12, <1>15, <1>19, <1>20, <1>21 DEF Shapes
<1>24. Limited'
  <2>1. WithinLimit(live')
    BY <1>12
  <2> QED
    BY <2>1, <1>3, <1>11, <1>12 DEF Limited, WithinLimit, Bounded
<1>25. Clocked'
  <2>1. ASSUME NEW i \in DOMAIN w.previous  PROVE w.previous[i].stamp \in 1..r.stamp
    <3>1. CASE \E p \in P : p.id = i /\ w.previous[i] = Stated(r, p)
      <4>1. w.previous[i].stamp = r.stamp
        BY <3>1, <1>22
      <4> QED
        BY <4>1, <1>4, <1>6
    <3>2. CASE i \in DOMAIN v.previous /\ w.previous[i] = v.previous[i]
      <4>1. v.previous[i].stamp \in 1..v.stamp
        BY <3>2, <1>1 DEF Clocked
      <4> QED
        BY <4>1, <3>2, <1>4, <1>6
    <3> QED
      BY <3>1, <3>2, <1>14
  <2>2. ASSUME NEW i \in DOMAIN x.previous  PROVE x.previous[i].stamp \in 1..r.stamp
    <3>1. CASE \E p \in P : p.id = i
      <4>1. x.previous[i].stamp = r.stamp
        BY <3>1, <1>11, <1>22
      <4> QED
        BY <4>1, <1>4, <1>6
    <3>2. CASE \A p \in P : p.id # i
      <4>1. i \in DOMAIN u.previous /\ x.previous[i] = u.previous[i]
        BY <3>2, <1>11
      <4>2. u.previous[i].stamp \in 1..v.stamp
        BY <4>1, <1>1 DEF Clocked
      <4> QED
        BY <4>1, <4>2, <1>4, <1>6
    <3> QED
      BY <3>1, <3>2
  <2> QED
    BY <2>1, <2>2, <1>11, <1>12 DEF Clocked
<1>26. CheckedOften'
  <2>1. /\ v.checked <= v.stamp /\ (v.checked = 0 => DOMAIN v.previous = {})
        /\ v.checked # 0 => v.stamp - v.checked < CheckEvery
        /\ \A i \in DOMAIN v.previous : v.checked - v.previous[i].stamp <= Grace
    BY <1>1 DEF CheckedOften, Never
  <2>2. Grace \in Nat /\ CheckEvery \in Nat /\ CheckEvery > 0
    BY ValidatorAssumption
  <2>3. Looks(v, r) <=> v.checked = 0 \/ r.stamp - v.checked >= CheckEvery
    BY <1>3 DEF Looks, Never
  <2>4. w.checked <= r.stamp /\ w.checked # 0 /\ r.stamp - w.checked < CheckEvery
    BY <2>1, <2>2, <2>3, <1>4, <1>6, <1>13
  <2>5. ASSUME NEW i \in DOMAIN w.previous  PROVE w.checked - w.previous[i].stamp <= Grace
    <3>1. CASE \E p \in P : p.id = i /\ w.previous[i] = Stated(r, p)
      <4>1. w.previous[i].stamp = r.stamp
        BY <3>1, <1>22
      <4>2. w.checked \in Nat
        BY <1>4, <1>6, <1>13
      <4> QED
        BY <4>1, <4>2, <2>2, <2>4, <1>6
    <3>2. CASE i \in DOMAIN v.previous /\ w.previous[i] = v.previous[i]
                 /\ (Looks(v, r) => r.stamp - v.previous[i].stamp <= Grace)
      BY <3>2, <2>1, <1>13
    <3> QED
      BY <3>1, <3>2, <1>14
  <2> QED
    BY <2>4, <2>5, <1>12 DEF CheckedOften, Never
<1>27. KnownAlike'
  <2> SUFFICES ASSUME NEW i \in DOMAIN w.previous
               PROVE  /\ i \in DOMAIN x.previous /\ x.previous[i] = w.previous[i]
                      /\ i \in DOMAIN seen' /\ seen'[i] = w.previous[i].cpu
    BY DEF KnownAlike
  <2>1. i \in DOMAIN x.previous /\ x.previous[i] = w.previous[i]
    BY <1>11
  <2>2. CASE \E p \in P : p.id = i /\ w.previous[i] = Stated(r, p)
    BY <2>1, <2>2, <1>15, <1>22
  <2>3. CASE (\A p \in P : p.id # i) /\ i \in DOMAIN v.previous /\ w.previous[i] = v.previous[i]
    BY <2>1, <2>3, <1>10, <1>15
  <2> QED
    BY <2>2, <2>3, <1>14
<1>28. HasRoom <=> Roomy(v)
  <2>1. Cardinality(Ids) \in Nat
    BY LiveReplayAssumption, FS_CardinalityType
  <2> QED
    BY <2>1, <1>3 DEF HasRoom, Roomy
<1>29. HasRoom' <=> HasRoom
  BY <1>12 DEF HasRoom
<1>30. SameCuts'
  <2> SUFFICES ASSUME HasRoom
               PROVE  liveBlock' = replayBlock' /\ (cuts' = {} \/ cuts' = {"live", "replay"})
    BY <1>29 DEF SameCuts
  <2>1. b = d /\ (lc <=> rc)
    BY <1>1, <1>11, <1>17, <1>18, <1>28 DEF SameCuts
  <2> QED
    BY <2>1, <1>19
<1>31. NoSilentDrop(s)
  <2>1. ASSUME NEW q \in P, ~Cuts(s, q.id)
        PROVE  q.id \in DOMAIN seen /\ \A c \in Components : seen[q.id][c] <= q.cpu[c]
    <3>1. q.id \in DOMAIN v.previous /\ \A c \in Components : v.previous[q.id].cpu[c] <= q.cpu[c]
      BY <2>1, <1>2, <1>3, <1>6, <1>7, Silent
    <3> QED
      BY <3>1, <1>10
  <2>2. \A q \in ToSet(s.processes) : ~Cuts(s, q.id) =>
          q.id \in DOMAIN seen /\ \A c \in Components : seen[q.id][c] <= q.cpu[c]
    BY <2>1, <1>9
  <2> SUFFICES ASSUME NEW q \in ToSet(s.processes)
               PROVE  \/ Cuts(s, q.id)
                      \/ q.id \in DOMAIN seen /\ \A c \in Components : seen[q.id][c] <= q.cpu[c]
    BY DEF NoSilentDrop
  <2> QED
    BY <2>2
<1>32. /\ ~lc => ~ShouldCut(b, s) /\ ~Validated(v, r).boundary
       /\ ~rc => ~ShouldCut(d, s)
  BY <1>17, <1>18
<1>33. BlockKept(nb)' /\ BlockKept(nd)'
  <2>1. live.stamp \in Nat /\ live.stamp < s.stamp /\ live'.stamp = s.stamp
    BY <1>4, <1>6, <1>9, <1>12
  <2> QED
    BY <2>1, <1>1, <1>2, <1>9, <1>20, <1>32, BlockKeeps
<1>34. Encodable(nb) /\ BlockSeen(nb)' /\ Encodable(nd) /\ BlockSeen(nd)'
  BY <1>1, <1>2, <1>9, <1>15, <1>20, <1>31, BlockSees
<1>35. HasRoom => TotalsRise(nb) /\ BlockTracked(nb)'
  <2>1. live.stamp \in Nat
    BY <1>4
  <2> QED
    BY <2>1, <1>1, <1>2, <1>3, <1>6, <1>7, <1>8, <1>20, <1>28, <1>32, BlockTracks
<1>37. RowInv'
  BY <1>19, <1>20, <1>23, <1>24, <1>25, <1>26, <1>27, <1>29, <1>30, <1>33, <1>34, <1>35
     DEF RowInv, BlockKept, BlockSeen, BlockTracked
<1> QED
  BY <1>8, <1>31, <1>37

\* A step that changes none of the rows' state but the failure keeps the invariant.
LEMMA RowStill ==
  ASSUME RowInv, UNCHANGED <<validators, blocks, row, replayed, cuts, seen>>, failed' \in BOOLEAN
  PROVE  RowInv'
<1>1. /\ live' = live /\ replay' = replay /\ liveBlock' = liveBlock /\ replayBlock' = replayBlock
      /\ row' = row /\ replayed' = replayed /\ cuts' = cuts /\ seen' = seen
  BY DEF validators, blocks
<1>2. Shapes' /\ Limited' /\ Clocked' /\ CheckedOften' /\ KnownAlike'
  <2>1. Shapes /\ Limited /\ Clocked /\ CheckedOften /\ KnownAlike
    BY DEF RowInv
  <2>2. Shapes'
    BY <1>1, <2>1 DEF Shapes
  <2>3. Limited'
    BY <1>1, <2>1 DEF Limited, WithinLimit, Bounded
  <2>4. Clocked' /\ CheckedOften' /\ KnownAlike'
    BY <1>1, <2>1 DEF Clocked, CheckedOften, KnownAlike
  <2> QED
    BY <2>2, <2>3, <2>4
<1>3. SameCuts' /\ (HasRoom' <=> HasRoom)
  BY <1>1 DEF RowInv, SameCuts, HasRoom
<1>4. ASSUME NEW b, BlockKept(b), BlockSeen(b)  PROVE BlockKept(b)' /\ BlockSeen(b)'
  BY <1>1, <1>4 DEF BlockKept, BlockSeen
<1>5. ASSUME NEW b, BlockTracked(b)  PROVE BlockTracked(b)'
  BY <1>1, <1>5 DEF BlockTracked
<1>6. PICK b, d : b = liveBlock /\ d = replayBlock
  OBVIOUS
<1>7. /\ BlockKept(b) /\ Encodable(b) /\ BlockSeen(b) /\ BlockKept(d) /\ Encodable(d) /\ BlockSeen(d)
      /\ HasRoom => TotalsRise(b) /\ BlockTracked(b)
  BY <1>6 DEF RowInv
<1>8. /\ BlockKept(b)' /\ BlockSeen(b)' /\ BlockKept(d)' /\ BlockSeen(d)'
      /\ HasRoom => BlockTracked(b)'
  BY <1>4, <1>5, <1>7
<1> QED
  BY <1>1, <1>2, <1>3, <1>6, <1>7, <1>8 DEF RowInv, BlockKept, BlockSeen, BlockTracked

\* Whatever step is taken, the invariant stays, and a row taken hides no counter that went down.
LEMMA RowNext ==
  ASSUME RowInv, [MCNext]_<<moves, vars, frameVars>>
  PROVE  RowInv' /\ (row' = row \/ NoSilentDrop(row'))
<1>1. CASE UNCHANGED vars
  <2>1. UNCHANGED <<validators, blocks, row, replayed, cuts, seen>> /\ failed' \in BOOLEAN
    BY <1>1 DEF vars, RowInv, Shapes
  <2> QED
    BY <2>1, RowStill
<1>2. CASE Next
  <2>1. CASE Refuse
    BY <2>1, RowStill DEF Refuse
  <2>2. ASSUME NEW step \in Steps \ {0}, NEW ps \in {s \in Scans : Distinct(s)}, Row(step, ps)
        PROVE  RowInv' /\ NoSilentDrop(row')
    <3>1. ps \in Scans /\ Distinct(ps)
      OBVIOUS
    <3> QED
      BY <3>1, <2>2, RowStep
  <2> QED
    BY <1>2, <2>1, <2>2 DEF Next
<1> QED
  BY <1>1, <1>2 DEF MCNext

\* The invariant says all that is claimed of the rows.
LEMMA RowTells ==
  ASSUME RowInv
  PROVE  RowsBounded /\ BlocksEncodable /\ ReplayAgrees
<1> PICK v, u, b, d : v = live /\ u = replay /\ b = liveBlock /\ d = replayBlock
  OBVIOUS
<1>1. /\ Shapes /\ Limited /\ Clocked /\ CheckedOften /\ SameCuts
      /\ BlockKept(b) /\ Encodable(b) /\ BlockKept(d) /\ Encodable(d)
      /\ HasRoom => TotalsRise(b)
  BY DEF RowInv
<1>2. /\ v \in Validators /\ u \in Validators /\ replayed = row
      /\ cuts \subseteq {"live", "replay"} /\ failed \in BOOLEAN
  BY <1>1 DEF Shapes
<1>3. /\ v.limit \in Nat /\ u.limit = Unlimited /\ WithinLimit(v)
  BY <1>1, LiveReplayAssumption DEF Limited
<1>4. Bounded(v) /\ ~Bounded(u)
  BY <1>3 DEF Bounded, Unlimited
<1>5. \A m \in Memory : DOMAIN m \subseteq Ids /\ \A i \in DOMAIN m : m[i] \in State /\ m[i].stamp \in Nat
  BY MemoryIs DEF State
<1>6. /\ v.previous \in Memory /\ u.previous \in Memory /\ v.stamp \in Nat /\ v.checked \in Nat
  BY <1>2 DEF Validators
<1>7. /\ u.stamp = v.stamp
      /\ \A i \in DOMAIN v.previous : v.previous[i].stamp \in 1..v.stamp
      /\ \A i \in DOMAIN u.previous : u.previous[i].stamp \in 1..v.stamp
  BY <1>1 DEF Clocked
<1>8. TypeOK
  <2>1. Len(b) <= BlockRows /\ Len(d) <= BlockRows
    BY <1>1 DEF BlockKept
  <2>2. DOMAIN v.previous \subseteq Ids /\ DOMAIN u.previous \subseteq Ids
    BY <1>5, <1>6
  <2> QED
    BY <2>1, <2>2, <1>2, <1>4, <1>7 DEF TypeOK
<1>9. LiveStateBounded
  <2>1. Cardinality(DOMAIN v.previous) <= v.limit
    BY <1>3, <1>4 DEF WithinLimit
  <2>2. ASSUME NEW i \in DOMAIN v.previous  PROVE v.stamp - v.previous[i].stamp < Grace + CheckEvery
    <3>1. v.checked # 0 /\ v.stamp - v.checked < CheckEvery /\ v.checked - v.previous[i].stamp <= Grace
      BY <1>1 DEF CheckedOften, Never
    <3>2. v.previous[i].stamp \in Nat /\ Grace \in Nat /\ CheckEvery \in Nat
      BY <1>5, <1>6, ValidatorAssumption
    <3> QED
      BY <3>1, <3>2, <1>6
  <2> QED
    BY <2>1, <2>2 DEF LiveStateBounded
<1>10. BlocksYoung
  BY <1>1 DEF BlocksYoung, BlockKept
<1>11. BlocksEncodable
  <2>1. HasRoom => b = d
    BY <1>1 DEF SameCuts
  <2> QED
    BY <2>1, <1>1 DEF BlocksEncodable
<1>12. ReplayAgrees
  BY <1>1, <1>2 DEF ReplayAgrees, ReplayAddsNothing
<1> QED
  BY <1>8, <1>9, <1>10, <1>11, <1>12 DEF RowsBounded

\* The inductive invariant holds in every reachable state.
LEMMA AlwaysRowInv ==
  MCSpec => []RowInv
<1>1. MCInit => RowInv
  BY RowInit DEF MCInit
<1>2. RowInv /\ [MCNext]_<<moves, vars, frameVars>> => RowInv'
  BY RowNext
<1> QED
  BY <1>1, <1>2, PTL DEF MCSpec

\* The transform of the raw rows of any live recording annotates every row as the live recorder
\* did and, when there was room for every process, cuts where it cut (pipeline.rs).
THEOREM AlwaysReplayAgrees == MCSpec => []ReplayAgrees
<1>1. RowInv => ReplayAgrees
  BY RowTells
<1> QED
  BY <1>1, AlwaysRowInv, PTL

\* No block that either recorder builds is refused by the encoder for a counter that went down.
THEOREM AlwaysBlocksEncodable == MCSpec => []BlocksEncodable
<1>1. RowInv => BlocksEncodable
  BY RowTells
<1> QED
  BY <1>1, AlwaysRowInv, PTL

\* The live validator forgets in time and holds no more than its limit, and no block is longer
\* or older than it may be.
THEOREM AlwaysRowsBounded == MCSpec => []RowsBounded
<1>1. RowInv => RowsBounded
  BY RowTells
<1> QED
  BY <1>1, AlwaysRowInv, PTL

\* A row in which a counter is lower than it last was says that the rate is not available.
LEMMA DropIsSaid ==
  ASSUME RowInv, RowInv', NoSilentDrop(row')
  PROVE  \A k \in DOMAIN row'.processes :
           LET p == row'.processes[k] IN
           p.id \in DOMAIN seen /\ (\E c \in Components : p.cpu[c] < seen[p.id][c]) => Cuts(row', p.id)
<1> PICK s, f : s = row' /\ f = seen
  OBVIOUS
<1>1. s \in Rows /\ f \in UNION {[D -> Counted] : D \in SUBSET Ids}
  BY DEF RowInv, Shapes
<1> SUFFICES ASSUME NEW k \in DOMAIN s.processes, NEW p, p = s.processes[k],
                    p.id \in DOMAIN f, NEW c \in Components, p.cpu[c] < f[p.id][c]
             PROVE  Cuts(s, p.id)
  OBVIOUS
<1>2. p \in ToSet(s.processes)
  BY DEF ToSet
<1>3. p.cpu[c] \in Nat
  BY <1>1, <1>2, CountersIn
<1>4. f[p.id] \in Counted
  BY <1>1
<1>5. f[p.id][c] \in Nat
  BY <1>4, LiveReplayAssumption DEF Counted
<1>6. ~(f[p.id][c] <= p.cpu[c])
  BY <1>3, <1>5
<1> QED
  BY <1>2, <1>6 DEF NoSilentDrop

\* Whenever a counter is lower than it last was, however long ago the process was seen, the row
\* denies the continuity (Validator::validate, pipeline.rs).
THEOREM DropsReported == MCSpec => DropReported
<1>1. RowInv /\ RowInv' /\ [MCNext]_<<moves, vars, frameVars>> =>
        [\A k \in DOMAIN row'.processes :
          LET p == row'.processes[k] IN
          p.id \in DOMAIN seen /\ (\E c \in Components : p.cpu[c] < seen[p.id][c])
          => Cuts(row', p.id)]_row
  BY RowNext, DropIsSaid
<1> QED
  BY <1>1, AlwaysRowInv, PTL DEF MCSpec, DropReported
=============================================================================
