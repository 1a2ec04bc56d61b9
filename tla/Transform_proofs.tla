-------------------------- MODULE Transform_proofs --------------------------
(***************************************************************************)
(* What the bulk transform writes, for all sources, workers and failures.  *)
(*                                                                         *)
(* The folds of the module come first, each with the recursion it obeys;   *)
(* then validators, rows and sources: when two transforms do the same with *)
(* the same row, and what the summary of a source tells of the serial      *)
(* transform; then plans, which fold those summaries; the invariant IInv,  *)
(* one lemma for each action, and its theorems; at last the limits on what *)
(* is in memory at a time, which follow with IInv.                         *)
(***************************************************************************)
EXTENDS Transform, FiniteSetTheorems, SequenceTheorems, WellFoundedInduction, TLAPS

-----------------------------------------------------------------------------
(* Folds                                                                    *)

\* Induction over the natural numbers, for a set instead of a predicate
LEMMA Induction ==
  ASSUME NEW T, 0 \in T, \A n \in Nat : n \in T => n + 1 \in T
  PROVE  Nat \subseteq T
<1> SUFFICES ASSUME Nat \ T # {} PROVE FALSE
  OBVIOUS
<1>1. PICK n \in Nat \ T : \A m \in Nat \ T : ~(<<m, n>> \in OpToRel(<, Nat))
  <2>1. IsWellFoundedOn(OpToRel(<, Nat), Nat)
    BY NatLessThanWellFounded
  <2>2. Nat \ T \subseteq Nat
    OBVIOUS
  <2> QED
    BY <2>1, <2>2, WFMin
<1>2. n - 1 \in Nat /\ n - 1 < n /\ (n - 1) + 1 = n
  <2>1. n # 0
    OBVIOUS
  <2> QED
    BY <2>1
<1>3. n - 1 \notin T
  BY <1>2
<1>4. <<n - 1, n>> \in OpToRel(<, Nat)
  BY <1>2 DEF OpToRel
<1> QED
  BY <1>1, <1>2, <1>3, <1>4

\* A non-empty set of indices has a maximum, and Max is it.
LEMMA MaxIs ==
  ASSUME NEW n \in Nat, NEW t \in SUBSET (1..n), t # {}
  PROVE  Max(t) \in t /\ \A y \in t : y <= Max(t)
<1> DEFINE T == {m \in Nat : \A s \in SUBSET (1..m) : s # {} => \E x \in s : \A y \in s : x >= y}
<1>1. 0 \in T
  <2>1. 1..0 = {}
    OBVIOUS
  <2> QED
    BY <2>1
<1>2. ASSUME NEW m \in Nat, m \in T  PROVE m + 1 \in T
  <2> SUFFICES ASSUME NEW s \in SUBSET (1..(m + 1)), s # {}
               PROVE  \E x \in s : \A y \in s : x >= y
    OBVIOUS
  <2>1. CASE m + 1 \in s
    BY <2>1
  <2>2. CASE m + 1 \notin s
    <3>1. s \in SUBSET (1..m)
      BY <2>2
    <3> QED
      BY <3>1, <1>2
  <2> QED
    BY <2>1, <2>2
<1>3. n \in T
  <2> HIDE DEF T
  <2> QED
    BY <1>1, <1>2, Induction
<1>4. \E x \in t : \A y \in t : x >= y
  BY <1>3
<1>5. Max(t) \in t /\ \A y \in t : Max(t) >= y
  BY <1>4 DEF Max
<1> QED
  BY <1>5

\* The last of the first k indices.
LEMMA UpTo ==
  ASSUME NEW k \in Nat \ {0}
  PROVE  Max(1..k) = k /\ (1..k) \ {k} = 1..(k - 1) /\ 1..k # {}
<1>1. k \in 1..k
  OBVIOUS
<1>2. Max(1..k) \in 1..k /\ k <= Max(1..k)
  BY <1>1, MaxIs
<1>3. (1..k) \ {k} = 1..(k - 1)
  OBVIOUS
<1> QED
  BY <1>1, <1>2, <1>3

\* One index more: what h is on the sets with it and on those without it.
LEMMA Longer ==
  ASSUME NEW n \in Nat, NEW g, NEW top, NEW h,
         h = [t \in SUBSET (1..(n + 1)) |-> IF n + 1 \in t THEN top[t \ {n + 1}] ELSE g[t]],
         NEW t \in SUBSET (1..(n + 1))
  PROVE  /\ t = {} => h[t] = g[t]
         /\ n + 1 \in t => /\ t # {} /\ Max(t) = n + 1 /\ h[t] = top[t \ {n + 1}]
                           /\ t \ {n + 1} \in SUBSET (1..n) /\ h[t \ {n + 1}] = g[t \ {n + 1}]
         /\ t # {} /\ n + 1 \notin t => /\ t \in SUBSET (1..n) /\ h[t] = g[t]
                                        /\ h[t \ {Max(t)}] = g[t \ {Max(t)}]
<1>1. CASE t = {}
  BY <1>1
<1>2. CASE n + 1 \in t
  <2>1. Max(t) = n + 1
    <3>1. n + 1 \in Nat /\ t # {}
      BY <1>2
    <3>2. Max(t) \in t /\ n + 1 <= Max(t)
      BY <3>1, <1>2, MaxIs
    <3>3. Max(t) \in 1..(n + 1)
      BY <3>2
    <3> QED
      BY <3>2, <3>3
  <2>2. n + 1 \notin t \ {n + 1} /\ t \ {n + 1} \in SUBSET (1..n) /\ t \ {n + 1} \in SUBSET (1..(n + 1))
    OBVIOUS
  <2> QED
    BY <1>2, <2>1, <2>2
<1>3. CASE t # {} /\ n + 1 \notin t
  <2>1. t \in SUBSET (1..n)
    BY <1>3
  <2>2. PICK m : m = Max(t)
    OBVIOUS
  <2>3. t \ {m} \in SUBSET (1..(n + 1)) /\ n + 1 \notin t \ {m}
    BY <1>3
  <2> QED
    BY <1>3, <2>1, <2>2, <2>3
<1> QED
  BY <1>1, <1>2, <1>3

-----------------------------------------------------------------------------
\* The first n processes of a row through a validator
Observed(row, start, ps, n) == FoldLeft(LAMBDA acc, p : Observe(row, acc, p), start, [i \in 1..n |-> ps[i]])

\* g is a fold as FoldLeft chooses one.
ObservedFold(g, row, start, ps, n) ==
  g = [t \in SUBSET (1..n) |-> IF t = {} THEN start ELSE Observe(row, g[t \ {Max(t)}], ps[Max(t)])]

\* There is a fold that observes the processes of a row.
LEMMA ObservedFoldExists ==
  ASSUME NEW row, NEW start, NEW ps
  PROVE  \A n \in Nat : \E g : ObservedFold(g, row, start, ps, n)
<1> DEFINE T == {n \in Nat : \E g : ObservedFold(g, row, start, ps, n)}
<1>1. 0 \in T
  <2>1. SUBSET (1..0) = {{}}
    OBVIOUS
  <2>2. ObservedFold([t \in SUBSET (1..0) |-> start], row, start, ps, 0)
    BY <2>1 DEF ObservedFold
  <2> QED
    BY <2>2
<1>2. ASSUME NEW n \in Nat, n \in T  PROVE n + 1 \in T
  <2>1. PICK g : ObservedFold(g, row, start, ps, n)
    BY <1>2
  <2>2. PICK top : top = [u \in SUBSET (1..n) |-> Observe(row, g[u], ps[n + 1])]
    OBVIOUS
  <2>3. PICK h : h = [t \in SUBSET (1..(n + 1)) |-> IF n + 1 \in t THEN top[t \ {n + 1}] ELSE g[t]]
    OBVIOUS
  <2>4. ASSUME NEW t \in SUBSET (1..(n + 1))
        PROVE  h[t] = IF t = {} THEN start ELSE Observe(row, h[t \ {Max(t)}], ps[Max(t)])
    <3>1. CASE t = {}
      <4>1. h[t] = g[t] /\ t \in SUBSET (1..n)
        BY <2>3, <3>1, Longer
      <4> QED
        BY <2>1, <3>1, <4>1 DEF ObservedFold
    <3>2. CASE n + 1 \in t
      <4>1. /\ t # {} /\ Max(t) = n + 1 /\ h[t] = top[t \ {n + 1}]
            /\ t \ {n + 1} \in SUBSET (1..n) /\ h[t \ {n + 1}] = g[t \ {n + 1}]
        BY <2>3, <3>2, Longer
      <4> QED
        BY <2>2, <4>1
    <3>3. CASE t # {} /\ n + 1 \notin t
      <4>1. t \in SUBSET (1..n) /\ h[t] = g[t] /\ h[t \ {Max(t)}] = g[t \ {Max(t)}]
        BY <2>3, <3>3, Longer
      <4>2. g[t] = Observe(row, g[t \ {Max(t)}], ps[Max(t)])
        BY <2>1, <3>3, <4>1 DEF ObservedFold
      <4> QED
        BY <3>3, <4>1, <4>2
    <3> QED
      BY <3>1, <3>2, <3>3
  <2>5. h = [t \in SUBSET (1..(n + 1)) |-> IF t = {} THEN start ELSE Observe(row, h[t \ {Max(t)}], ps[Max(t)])]
    BY <2>3, <2>4
  <2>6. ObservedFold(h, row, start, ps, n + 1)
    BY <2>5, Zenon DEF ObservedFold
  <2> QED
    BY <2>6
<1> QED
  <2> HIDE DEF T
  <2>1. Nat \subseteq T
    BY <1>1, <1>2, Induction
  <2> QED
    BY <2>1 DEF T

\* Observed is the value of such a fold g.
ObservedIs(g, row, start, ps, n) ==
  /\ g[{}] = start /\ Observed(row, start, ps, n) = g[1..n]
  /\ \A k \in 1..n : g[1..k] = Observe(row, g[1..(k - 1)], ps[k])

\* Observed is a fold over the intervals 1..k.
LEMMA ObservedIsFold ==
  ASSUME NEW row, NEW start, NEW ps
  PROVE  \A n \in Nat : \E g : ObservedIs(g, row, start, ps, n)
<1> TAKE n \in Nat
<1> DEFINE q == [i \in 1..n |-> ps[i]]
           g == CHOOSE g : ObservedFold(g, row, start, q, n)
<1>1. DOMAIN q = 1..n
  OBVIOUS
<1>2. Observed(row, start, ps, n) = (CHOOSE f : f = [t \in SUBSET DOMAIN q |-> IF t = {} THEN start ELSE Observe(row, f[t \ {Max(t)}], q[Max(t)])])[DOMAIN q]
  BY Zenon DEF Observed, FoldLeft, MapThenFoldSet
<1>3. Observed(row, start, ps, n) = g[1..n]
  BY <1>1, <1>2, Zenon DEF ObservedFold
<1>4. ObservedFold(g, row, start, q, n)
  <2> HIDE DEF q
  <2>1. \E f : ObservedFold(f, row, start, q, n)
    BY ObservedFoldExists
  <2> QED
    BY <2>1, Zenon
<1> HIDE DEF g
<1>5. g[{}] = start
  BY <1>4 DEF ObservedFold
<1>6. ASSUME NEW k \in 1..n  PROVE g[1..k] = Observe(row, g[1..(k - 1)], ps[k])
  <2>1. k \in Nat \ {0} /\ 1..k \in SUBSET (1..n) /\ q[k] = ps[k]
    OBVIOUS
  <2>2. Max(1..k) = k /\ (1..k) \ {k} = 1..(k - 1) /\ 1..k # {}
    BY <2>1, UpTo
  <2> HIDE DEF q
  <2>3. g[1..k] = Observe(row, g[1..(k - 1)], q[k])
    BY <1>4, <2>1, <2>2 DEF ObservedFold
  <2> QED
    BY <2>1, <2>3
<1> QED
  BY <1>3, <1>5, <1>6 DEF ObservedIs

\* One element after the other.
LEMMA ObservedFirst ==
  ASSUME NEW row, NEW start, NEW ps
  PROVE  Observed(row, start, ps, 0) = start
<1>1. 1..0 = {} /\ 0 \in Nat
  OBVIOUS
<1> QED
  BY <1>1, ObservedIsFold DEF ObservedIs

\* One more process is one more observation.
LEMMA ObservedStep ==
  ASSUME NEW row, NEW start, NEW ps, NEW n \in Nat
  PROVE  Observed(row, start, ps, n + 1) = Observe(row, Observed(row, start, ps, n), ps[n + 1])
<1>1. PICK g : ObservedIs(g, row, start, ps, n)
  BY ObservedIsFold
<1>2. n + 1 \in Nat
  OBVIOUS
<1>3. PICK h : ObservedIs(h, row, start, ps, n + 1)
  BY <1>2, ObservedIsFold
<1> USE DEF ObservedIs
<1> DEFINE T == {k \in Nat : k <= n => g[1..k] = h[1..k]}
<1>4. 0 \in T
  <2>1. 1..0 = {}
    OBVIOUS
  <2> QED
    BY <1>1, <1>3, <2>1
<1>5. ASSUME NEW k \in Nat, k \in T  PROVE k + 1 \in T
  <2> SUFFICES ASSUME k + 1 <= n  PROVE g[1..(k + 1)] = h[1..(k + 1)]
    OBVIOUS
  <2>1. k + 1 \in 1..n /\ k + 1 \in 1..(n + 1) /\ (k + 1) - 1 = k /\ k <= n
    OBVIOUS
  <2>2. g[1..k] = h[1..k]
    BY <1>5, <2>1
  <2>3. g[1..(k + 1)] = Observe(row, g[1..k], ps[k + 1]) /\ h[1..(k + 1)] = Observe(row, h[1..k], ps[k + 1])
    BY <1>1, <1>3, <2>1
  <2> QED
    BY <2>2, <2>3
<1>6. n \in T
  <2> HIDE DEF T
  <2> QED
    BY <1>4, <1>5, Induction
<1>7. g[1..n] = h[1..n]
  BY <1>6
<1>8. n + 1 \in 1..(n + 1) /\ (n + 1) - 1 = n
  OBVIOUS
<1> QED
  BY <1>1, <1>3, <1>7, <1>8

-----------------------------------------------------------------------------
\* The first n rows of a source through the serial transform
Rows(s, context, rs, n) == FoldLeft(LAMBDA a, row : SerialRow(a, context, row), s, [i \in 1..n |-> rs[i]])

\* g is a fold as FoldLeft chooses one.
RowsFold(g, s, context, rs, n) ==
  g = [t \in SUBSET (1..n) |-> IF t = {} THEN s ELSE SerialRow(g[t \ {Max(t)}], context, rs[Max(t)])]

\* There is a fold over the rows of a source.
LEMMA RowsFoldExists ==
  ASSUME NEW s, NEW context, NEW rs
  PROVE  \A n \in Nat : \E g : RowsFold(g, s, context, rs, n)
<1> DEFINE T == {n \in Nat : \E g : RowsFold(g, s, context, rs, n)}
<1>1. 0 \in T
  <2>1. SUBSET (1..0) = {{}}
    OBVIOUS
  <2>2. RowsFold([t \in SUBSET (1..0) |-> s], s, context, rs, 0)
    BY <2>1 DEF RowsFold
  <2> QED
    BY <2>2
<1>2. ASSUME NEW n \in Nat, n \in T  PROVE n + 1 \in T
  <2>1. PICK g : RowsFold(g, s, context, rs, n)
    BY <1>2
  <2>2. PICK top : top = [u \in SUBSET (1..n) |-> SerialRow(g[u], context, rs[n + 1])]
    OBVIOUS
  <2>3. PICK h : h = [t \in SUBSET (1..(n + 1)) |-> IF n + 1 \in t THEN top[t \ {n + 1}] ELSE g[t]]
    OBVIOUS
  <2>4. ASSUME NEW t \in SUBSET (1..(n + 1))
        PROVE  h[t] = IF t = {} THEN s ELSE SerialRow(h[t \ {Max(t)}], context, rs[Max(t)])
    <3>1. CASE t = {}
      <4>1. h[t] = g[t] /\ t \in SUBSET (1..n)
        BY <2>3, <3>1, Longer
      <4> QED
        BY <2>1, <3>1, <4>1 DEF RowsFold
    <3>2. CASE n + 1 \in t
      <4>1. /\ t # {} /\ Max(t) = n + 1 /\ h[t] = top[t \ {n + 1}]
            /\ t \ {n + 1} \in SUBSET (1..n) /\ h[t \ {n + 1}] = g[t \ {n + 1}]
        BY <2>3, <3>2, Longer
      <4> QED
        BY <2>2, <4>1
    <3>3. CASE t # {} /\ n + 1 \notin t
      <4>1. t \in SUBSET (1..n) /\ h[t] = g[t] /\ h[t \ {Max(t)}] = g[t \ {Max(t)}]
        BY <2>3, <3>3, Longer
      <4>2. g[t] = SerialRow(g[t \ {Max(t)}], context, rs[Max(t)])
        BY <2>1, <3>3, <4>1 DEF RowsFold
      <4> QED
        BY <3>3, <4>1, <4>2
    <3> QED
      BY <3>1, <3>2, <3>3
  <2>5. h = [t \in SUBSET (1..(n + 1)) |-> IF t = {} THEN s ELSE SerialRow(h[t \ {Max(t)}], context, rs[Max(t)])]
    BY <2>3, <2>4
  <2>6. RowsFold(h, s, context, rs, n + 1)
    BY <2>5, Zenon DEF RowsFold
  <2> QED
    BY <2>6
<1> QED
  <2> HIDE DEF T
  <2>1. Nat \subseteq T
    BY <1>1, <1>2, Induction
  <2> QED
    BY <2>1 DEF T

\* Rows is the value of such a fold g.
RowsIs(g, s, context, rs, n) ==
  /\ g[{}] = s /\ Rows(s, context, rs, n) = g[1..n]
  /\ \A k \in 1..n : g[1..k] = SerialRow(g[1..(k - 1)], context, rs[k])

\* So is Rows.
LEMMA RowsIsFold ==
  ASSUME NEW s, NEW context, NEW rs
  PROVE  \A n \in Nat : \E g : RowsIs(g, s, context, rs, n)
<1> TAKE n \in Nat
<1> DEFINE q == [i \in 1..n |-> rs[i]]
           g == CHOOSE g : RowsFold(g, s, context, q, n)
<1>1. DOMAIN q = 1..n
  OBVIOUS
<1>2. Rows(s, context, rs, n) = (CHOOSE f : f = [t \in SUBSET DOMAIN q |-> IF t = {} THEN s ELSE SerialRow(f[t \ {Max(t)}], context, q[Max(t)])])[DOMAIN q]
  BY Zenon DEF Rows, FoldLeft, MapThenFoldSet
<1>3. Rows(s, context, rs, n) = g[1..n]
  BY <1>1, <1>2, Zenon DEF RowsFold
<1>4. RowsFold(g, s, context, q, n)
  <2> HIDE DEF q
  <2>1. \E f : RowsFold(f, s, context, q, n)
    BY RowsFoldExists
  <2> QED
    BY <2>1, Zenon
<1> HIDE DEF g
<1>5. g[{}] = s
  BY <1>4 DEF RowsFold
<1>6. ASSUME NEW k \in 1..n  PROVE g[1..k] = SerialRow(g[1..(k - 1)], context, rs[k])
  <2>1. k \in Nat \ {0} /\ 1..k \in SUBSET (1..n) /\ q[k] = rs[k]
    OBVIOUS
  <2>2. Max(1..k) = k /\ (1..k) \ {k} = 1..(k - 1) /\ 1..k # {}
    BY <2>1, UpTo
  <2> HIDE DEF q
  <2>3. g[1..k] = SerialRow(g[1..(k - 1)], context, q[k])
    BY <1>4, <2>1, <2>2 DEF RowsFold
  <2> QED
    BY <2>1, <2>3
<1> QED
  BY <1>3, <1>5, <1>6 DEF RowsIs

\* One element after the other.
LEMMA RowsFirst ==
  ASSUME NEW s, NEW context, NEW rs
  PROVE  Rows(s, context, rs, 0) = s
<1>1. 1..0 = {} /\ 0 \in Nat
  OBVIOUS
<1> QED
  BY <1>1, RowsIsFold DEF RowsIs

\* One more row is one more step of the serial transform.
LEMMA RowsStep ==
  ASSUME NEW s, NEW context, NEW rs, NEW n \in Nat
  PROVE  Rows(s, context, rs, n + 1) = SerialRow(Rows(s, context, rs, n), context, rs[n + 1])
<1>1. PICK g : RowsIs(g, s, context, rs, n)
  BY RowsIsFold
<1>2. n + 1 \in Nat
  OBVIOUS
<1>3. PICK h : RowsIs(h, s, context, rs, n + 1)
  BY <1>2, RowsIsFold
<1> USE DEF RowsIs
<1> DEFINE T == {k \in Nat : k <= n => g[1..k] = h[1..k]}
<1>4. 0 \in T
  <2>1. 1..0 = {}
    OBVIOUS
  <2> QED
    BY <1>1, <1>3, <2>1
<1>5. ASSUME NEW k \in Nat, k \in T  PROVE k + 1 \in T
  <2> SUFFICES ASSUME k + 1 <= n  PROVE g[1..(k + 1)] = h[1..(k + 1)]
    OBVIOUS
  <2>1. k + 1 \in 1..n /\ k + 1 \in 1..(n + 1) /\ (k + 1) - 1 = k /\ k <= n
    OBVIOUS
  <2>2. g[1..k] = h[1..k]
    BY <1>5, <2>1
  <2>3. g[1..(k + 1)] = SerialRow(g[1..k], context, rs[k + 1]) /\ h[1..(k + 1)] = SerialRow(h[1..k], context, rs[k + 1])
    BY <1>1, <1>3, <2>1
  <2> QED
    BY <2>2, <2>3
<1>6. n \in T
  <2> HIDE DEF T
  <2> QED
    BY <1>4, <1>5, Induction
<1>7. g[1..n] = h[1..n]
  BY <1>6
<1>8. n + 1 \in 1..(n + 1) /\ (n + 1) - 1 = n
  OBVIOUS
<1> QED
  BY <1>1, <1>3, <1>7, <1>8

-----------------------------------------------------------------------------
\* The first n sources through the serial transform
Sources(fs, n) == FoldLeft(LAMBDA a, f : SerialSource(a, f), NoSerial, [i \in 1..n |-> fs[i]])

\* g is a fold as FoldLeft chooses one.
SourcesFold(g, fs, n) ==
  g = [t \in SUBSET (1..n) |-> IF t = {} THEN NoSerial ELSE SerialSource(g[t \ {Max(t)}], fs[Max(t)])]

\* There is a fold over the sources.
LEMMA SourcesFoldExists ==
  ASSUME NEW fs
  PROVE  \A n \in Nat : \E g : SourcesFold(g, fs, n)
<1> DEFINE T == {n \in Nat : \E g : SourcesFold(g, fs, n)}
<1>1. 0 \in T
  <2>1. SUBSET (1..0) = {{}}
    OBVIOUS
  <2>2. SourcesFold([t \in SUBSET (1..0) |-> NoSerial], fs, 0)
    BY <2>1 DEF SourcesFold
  <2> QED
    BY <2>2
<1>2. ASSUME NEW n \in Nat, n \in T  PROVE n + 1 \in T
  <2>1. PICK g : SourcesFold(g, fs, n)
    BY <1>2
  <2>2. PICK top : top = [u \in SUBSET (1..n) |-> SerialSource(g[u], fs[n + 1])]
    OBVIOUS
  <2>3. PICK h : h = [t \in SUBSET (1..(n + 1)) |-> IF n + 1 \in t THEN top[t \ {n + 1}] ELSE g[t]]
    OBVIOUS
  <2>4. ASSUME NEW t \in SUBSET (1..(n + 1))
        PROVE  h[t] = IF t = {} THEN NoSerial ELSE SerialSource(h[t \ {Max(t)}], fs[Max(t)])
    <3>1. CASE t = {}
      <4>1. h[t] = g[t] /\ t \in SUBSET (1..n)
        BY <2>3, <3>1, Longer
      <4> QED
        BY <2>1, <3>1, <4>1 DEF SourcesFold
    <3>2. CASE n + 1 \in t
      <4>1. /\ t # {} /\ Max(t) = n + 1 /\ h[t] = top[t \ {n + 1}]
            /\ t \ {n + 1} \in SUBSET (1..n) /\ h[t \ {n + 1}] = g[t \ {n + 1}]
        BY <2>3, <3>2, Longer
      <4> QED
        BY <2>2, <4>1
    <3>3. CASE t # {} /\ n + 1 \notin t
      <4>1. t \in SUBSET (1..n) /\ h[t] = g[t] /\ h[t \ {Max(t)}] = g[t \ {Max(t)}]
        BY <2>3, <3>3, Longer
      <4>2. g[t] = SerialSource(g[t \ {Max(t)}], fs[Max(t)])
        BY <2>1, <3>3, <4>1 DEF SourcesFold
      <4> QED
        BY <3>3, <4>1, <4>2
    <3> QED
      BY <3>1, <3>2, <3>3
  <2>5. h = [t \in SUBSET (1..(n + 1)) |-> IF t = {} THEN NoSerial ELSE SerialSource(h[t \ {Max(t)}], fs[Max(t)])]
    BY <2>3, <2>4
  <2>6. SourcesFold(h, fs, n + 1)
    BY <2>5, Zenon DEF SourcesFold
  <2> QED
    BY <2>6
<1> QED
  <2> HIDE DEF T
  <2>1. Nat \subseteq T
    BY <1>1, <1>2, Induction
  <2> QED
    BY <2>1 DEF T

\* Sources is the value of such a fold g.
SourcesIs(g, fs, n) ==
  /\ g[{}] = NoSerial /\ Sources(fs, n) = g[1..n]
  /\ \A k \in 1..n : g[1..k] = SerialSource(g[1..(k - 1)], fs[k])

\* So is Sources.
LEMMA SourcesIsFold ==
  ASSUME NEW fs
  PROVE  \A n \in Nat : \E g : SourcesIs(g, fs, n)
<1> TAKE n \in Nat
<1> DEFINE q == [i \in 1..n |-> fs[i]]
           g == CHOOSE g : SourcesFold(g, q, n)
<1>1. DOMAIN q = 1..n
  OBVIOUS
<1>2. Sources(fs, n) = (CHOOSE f : f = [t \in SUBSET DOMAIN q |-> IF t = {} THEN NoSerial ELSE SerialSource(f[t \ {Max(t)}], q[Max(t)])])[DOMAIN q]
  BY Zenon DEF Sources, FoldLeft, MapThenFoldSet
<1>3. Sources(fs, n) = g[1..n]
  BY <1>1, <1>2, Zenon DEF SourcesFold
<1>4. SourcesFold(g, q, n)
  <2> HIDE DEF q
  <2>1. \E f : SourcesFold(f, q, n)
    BY SourcesFoldExists
  <2> QED
    BY <2>1, Zenon
<1> HIDE DEF g
<1>5. g[{}] = NoSerial
  BY <1>4 DEF SourcesFold
<1>6. ASSUME NEW k \in 1..n  PROVE g[1..k] = SerialSource(g[1..(k - 1)], fs[k])
  <2>1. k \in Nat \ {0} /\ 1..k \in SUBSET (1..n) /\ q[k] = fs[k]
    OBVIOUS
  <2>2. Max(1..k) = k /\ (1..k) \ {k} = 1..(k - 1) /\ 1..k # {}
    BY <2>1, UpTo
  <2> HIDE DEF q
  <2>3. g[1..k] = SerialSource(g[1..(k - 1)], q[k])
    BY <1>4, <2>1, <2>2 DEF SourcesFold
  <2> QED
    BY <2>1, <2>3
<1> QED
  BY <1>3, <1>5, <1>6 DEF SourcesIs

\* One element after the other.
LEMMA SourcesFirst ==
  ASSUME NEW fs
  PROVE  Sources(fs, 0) = NoSerial
<1>1. 1..0 = {} /\ 0 \in Nat
  OBVIOUS
<1> QED
  BY <1>1, SourcesIsFold DEF SourcesIs

\* One more source is taken after those before it.
LEMMA SourcesStep ==
  ASSUME NEW fs, NEW n \in Nat
  PROVE  Sources(fs, n + 1) = SerialSource(Sources(fs, n), fs[n + 1])
<1>1. PICK g : SourcesIs(g, fs, n)
  BY SourcesIsFold
<1>2. n + 1 \in Nat
  OBVIOUS
<1>3. PICK h : SourcesIs(h, fs, n + 1)
  BY <1>2, SourcesIsFold
<1> USE DEF SourcesIs
<1> DEFINE T == {k \in Nat : k <= n => g[1..k] = h[1..k]}
<1>4. 0 \in T
  <2>1. 1..0 = {}
    OBVIOUS
  <2> QED
    BY <1>1, <1>3, <2>1
<1>5. ASSUME NEW k \in Nat, k \in T  PROVE k + 1 \in T
  <2> SUFFICES ASSUME k + 1 <= n  PROVE g[1..(k + 1)] = h[1..(k + 1)]
    OBVIOUS
  <2>1. k + 1 \in 1..n /\ k + 1 \in 1..(n + 1) /\ (k + 1) - 1 = k /\ k <= n
    OBVIOUS
  <2>2. g[1..k] = h[1..k]
    BY <1>5, <2>1
  <2>3. g[1..(k + 1)] = SerialSource(g[1..k], fs[k + 1]) /\ h[1..(k + 1)] = SerialSource(h[1..k], fs[k + 1])
    BY <1>1, <1>3, <2>1
  <2> QED
    BY <2>2, <2>3
<1>6. n \in T
  <2> HIDE DEF T
  <2> QED
    BY <1>4, <1>5, Induction
<1>7. g[1..n] = h[1..n]
  BY <1>6
<1>8. n + 1 \in 1..(n + 1) /\ (n + 1) - 1 = n
  OBVIOUS
<1> QED
  BY <1>1, <1>3, <1>7, <1>8

-----------------------------------------------------------------------------
\* The rows of the first n sources of a group
GroupRows(s, context, fs, n) == FoldLeft(LAMBDA a, f : SourceRows(a, context, f.rows), s, [i \in 1..n |-> fs[i]])

\* g is a fold as FoldLeft chooses one.
GroupRowsFold(g, s, context, fs, n) ==
  g = [t \in SUBSET (1..n) |-> IF t = {} THEN s ELSE SourceRows(g[t \ {Max(t)}], context, fs[Max(t)].rows)]

\* There is a fold over the sources of a group.
LEMMA GroupRowsFoldExists ==
  ASSUME NEW s, NEW context, NEW fs
  PROVE  \A n \in Nat : \E g : GroupRowsFold(g, s, context, fs, n)
<1> DEFINE T == {n \in Nat : \E g : GroupRowsFold(g, s, context, fs, n)}
<1>1. 0 \in T
  <2>1. SUBSET (1..0) = {{}}
    OBVIOUS
  <2>2. GroupRowsFold([t \in SUBSET (1..0) |-> s], s, context, fs, 0)
    BY <2>1 DEF GroupRowsFold
  <2> QED
    BY <2>2
<1>2. ASSUME NEW n \in Nat, n \in T  PROVE n + 1 \in T
  <2>1. PICK g : GroupRowsFold(g, s, context, fs, n)
    BY <1>2
  <2>2. PICK top : top = [u \in SUBSET (1..n) |-> SourceRows(g[u], context, fs[n + 1].rows)]
    OBVIOUS
  <2>3. PICK h : h = [t \in SUBSET (1..(n + 1)) |-> IF n + 1 \in t THEN top[t \ {n + 1}] ELSE g[t]]
    OBVIOUS
  <2>4. ASSUME NEW t \in SUBSET (1..(n + 1))
        PROVE  h[t] = IF t = {} THEN s ELSE SourceRows(h[t \ {Max(t)}], context, fs[Max(t)].rows)
    <3>1. CASE t = {}
      <4>1. h[t] = g[t] /\ t \in SUBSET (1..n)
        BY <2>3, <3>1, Longer
      <4> QED
        BY <2>1, <3>1, <4>1 DEF GroupRowsFold
    <3>2. CASE n + 1 \in t
      <4>1. /\ t # {} /\ Max(t) = n + 1 /\ h[t] = top[t \ {n + 1}]
            /\ t \ {n + 1} \in SUBSET (1..n) /\ h[t \ {n + 1}] = g[t \ {n + 1}]
        BY <2>3, <3>2, Longer
      <4> QED
        BY <2>2, <4>1
    <3>3. CASE t # {} /\ n + 1 \notin t
      <4>1. t \in SUBSET (1..n) /\ h[t] = g[t] /\ h[t \ {Max(t)}] = g[t \ {Max(t)}]
        BY <2>3, <3>3, Longer
      <4>2. g[t] = SourceRows(g[t \ {Max(t)}], context, fs[Max(t)].rows)
        BY <2>1, <3>3, <4>1 DEF GroupRowsFold
      <4> QED
        BY <3>3, <4>1, <4>2
    <3> QED
      BY <3>1, <3>2, <3>3
  <2>5. h = [t \in SUBSET (1..(n + 1)) |-> IF t = {} THEN s ELSE SourceRows(h[t \ {Max(t)}], context, fs[Max(t)].rows)]
    BY <2>3, <2>4
  <2>6. GroupRowsFold(h, s, context, fs, n + 1)
    BY <2>5, Zenon DEF GroupRowsFold
  <2> QED
    BY <2>6
<1> QED
  <2> HIDE DEF T
  <2>1. Nat \subseteq T
    BY <1>1, <1>2, Induction
  <2> QED
    BY <2>1 DEF T

\* GroupRows is the value of such a fold g.
GroupRowsIs(g, s, context, fs, n) ==
  /\ g[{}] = s /\ GroupRows(s, context, fs, n) = g[1..n]
  /\ \A k \in 1..n : g[1..k] = SourceRows(g[1..(k - 1)], context, fs[k].rows)

\* So is GroupRows.
LEMMA GroupRowsIsFold ==
  ASSUME NEW s, NEW context, NEW fs
  PROVE  \A n \in Nat : \E g : GroupRowsIs(g, s, context, fs, n)
<1> TAKE n \in Nat
<1> DEFINE q == [i \in 1..n |-> fs[i]]
           g == CHOOSE g : GroupRowsFold(g, s, context, q, n)
<1>1. DOMAIN q = 1..n
  OBVIOUS
<1>2. GroupRows(s, context, fs, n) = (CHOOSE f : f = [t \in SUBSET DOMAIN q |-> IF t = {} THEN s ELSE SourceRows(f[t \ {Max(t)}], context, q[Max(t)].rows)])[DOMAIN q]
  BY Zenon DEF GroupRows, FoldLeft, MapThenFoldSet
<1>3. GroupRows(s, context, fs, n) = g[1..n]
  BY <1>1, <1>2, Zenon DEF GroupRowsFold
<1>4. GroupRowsFold(g, s, context, q, n)
  <2> HIDE DEF q
  <2>1. \E f : GroupRowsFold(f, s, context, q, n)
    BY GroupRowsFoldExists
  <2> QED
    BY <2>1, Zenon
<1> HIDE DEF g
<1>5. g[{}] = s
  BY <1>4 DEF GroupRowsFold
<1>6. ASSUME NEW k \in 1..n  PROVE g[1..k] = SourceRows(g[1..(k - 1)], context, fs[k].rows)
  <2>1. k \in Nat \ {0} /\ 1..k \in SUBSET (1..n) /\ q[k] = fs[k]
    OBVIOUS
  <2>2. Max(1..k) = k /\ (1..k) \ {k} = 1..(k - 1) /\ 1..k # {}
    BY <2>1, UpTo
  <2> HIDE DEF q
  <2>3. g[1..k] = SourceRows(g[1..(k - 1)], context, q[k].rows)
    BY <1>4, <2>1, <2>2 DEF GroupRowsFold
  <2> QED
    BY <2>1, <2>3
<1> QED
  BY <1>3, <1>5, <1>6 DEF GroupRowsIs

\* One element after the other.
LEMMA GroupRowsFirst ==
  ASSUME NEW s, NEW context, NEW fs
  PROVE  GroupRows(s, context, fs, 0) = s
<1>1. 1..0 = {} /\ 0 \in Nat
  OBVIOUS
<1> QED
  BY <1>1, GroupRowsIsFold DEF GroupRowsIs

\* One more source of the group is replayed after those before it.
LEMMA GroupRowsStep ==
  ASSUME NEW s, NEW context, NEW fs, NEW n \in Nat
  PROVE  GroupRows(s, context, fs, n + 1) = SourceRows(GroupRows(s, context, fs, n), context, fs[n + 1].rows)
<1>1. PICK g : GroupRowsIs(g, s, context, fs, n)
  BY GroupRowsIsFold
<1>2. n + 1 \in Nat
  OBVIOUS
<1>3. PICK h : GroupRowsIs(h, s, context, fs, n + 1)
  BY <1>2, GroupRowsIsFold
<1> USE DEF GroupRowsIs
<1> DEFINE T == {k \in Nat : k <= n => g[1..k] = h[1..k]}
<1>4. 0 \in T
  <2>1. 1..0 = {}
    OBVIOUS
  <2> QED
    BY <1>1, <1>3, <2>1
<1>5. ASSUME NEW k \in Nat, k \in T  PROVE k + 1 \in T
  <2> SUFFICES ASSUME k + 1 <= n  PROVE g[1..(k + 1)] = h[1..(k + 1)]
    OBVIOUS
  <2>1. k + 1 \in 1..n /\ k + 1 \in 1..(n + 1) /\ (k + 1) - 1 = k /\ k <= n
    OBVIOUS
  <2>2. g[1..k] = h[1..k]
    BY <1>5, <2>1
  <2>3. g[1..(k + 1)] = SourceRows(g[1..k], context, fs[k + 1].rows) /\ h[1..(k + 1)] = SourceRows(h[1..k], context, fs[k + 1].rows)
    BY <1>1, <1>3, <2>1
  <2> QED
    BY <2>2, <2>3
<1>6. n \in T
  <2> HIDE DEF T
  <2> QED
    BY <1>4, <1>5, Induction
<1>7. g[1..n] = h[1..n]
  BY <1>6
<1>8. n + 1 \in 1..(n + 1) /\ (n + 1) - 1 = n
  OBVIOUS
<1> QED
  BY <1>1, <1>3, <1>7, <1>8

-----------------------------------------------------------------------------
\* The first n rows through a validator, until one is refused
Checked(start, rs, n) == FoldLeft(LAMBDA a, row : OfflineRow(a, row), start, [i \in 1..n |-> rs[i]])

\* g is a fold as FoldLeft chooses one.
CheckedFold(g, start, rs, n) ==
  g = [t \in SUBSET (1..n) |-> IF t = {} THEN start ELSE OfflineRow(g[t \ {Max(t)}], rs[Max(t)])]

\* There is a fold that checks rows offline.
LEMMA CheckedFoldExists ==
  ASSUME NEW start, NEW rs
  PROVE  \A n \in Nat : \E g : CheckedFold(g, start, rs, n)
<1> DEFINE T == {n \in Nat : \E g : CheckedFold(g, start, rs, n)}
<1>1. 0 \in T
  <2>1. SUBSET (1..0) = {{}}
    OBVIOUS
  <2>2. CheckedFold([t \in SUBSET (1..0) |-> start], start, rs, 0)
    BY <2>1 DEF CheckedFold
  <2> QED
    BY <2>2
<1>2. ASSUME NEW n \in Nat, n \in T  PROVE n + 1 \in T
  <2>1. PICK g : CheckedFold(g, start, rs, n)
    BY <1>2
  <2>2. PICK top : top = [u \in SUBSET (1..n) |-> OfflineRow(g[u], rs[n + 1])]
    OBVIOUS
  <2>3. PICK h : h = [t \in SUBSET (1..(n + 1)) |-> IF n + 1 \in t THEN top[t \ {n + 1}] ELSE g[t]]
    OBVIOUS
  <2>4. ASSUME NEW t \in SUBSET (1..(n + 1))
        PROVE  h[t] = IF t = {} THEN start ELSE OfflineRow(h[t \ {Max(t)}], rs[Max(t)])
    <3>1. CASE t = {}
      <4>1. h[t] = g[t] /\ t \in SUBSET (1..n)
        BY <2>3, <3>1, Longer
      <4> QED
        BY <2>1, <3>1, <4>1 DEF CheckedFold
    <3>2. CASE n + 1 \in t
      <4>1. /\ t # {} /\ Max(t) = n + 1 /\ h[t] = top[t \ {n + 1}]
            /\ t \ {n + 1} \in SUBSET (1..n) /\ h[t \ {n + 1}] = g[t \ {n + 1}]
        BY <2>3, <3>2, Longer
      <4> QED
        BY <2>2, <4>1
    <3>3. CASE t # {} /\ n + 1 \notin t
      <4>1. t \in SUBSET (1..n) /\ h[t] = g[t] /\ h[t \ {Max(t)}] = g[t \ {Max(t)}]
        BY <2>3, <3>3, Longer
      <4>2. g[t] = OfflineRow(g[t \ {Max(t)}], rs[Max(t)])
        BY <2>1, <3>3, <4>1 DEF CheckedFold
      <4> QED
        BY <3>3, <4>1, <4>2
    <3> QED
      BY <3>1, <3>2, <3>3
  <2>5. h = [t \in SUBSET (1..(n + 1)) |-> IF t = {} THEN start ELSE OfflineRow(h[t \ {Max(t)}], rs[Max(t)])]
    BY <2>3, <2>4
  <2>6. CheckedFold(h, start, rs, n + 1)
    BY <2>5, Zenon DEF CheckedFold
  <2> QED
    BY <2>6
<1> QED
  <2> HIDE DEF T
  <2>1. Nat \subseteq T
    BY <1>1, <1>2, Induction
  <2> QED
    BY <2>1 DEF T

\* Checked is the value of such a fold g.
CheckedIs(g, start, rs, n) ==
  /\ g[{}] = start /\ Checked(start, rs, n) = g[1..n]
  /\ \A k \in 1..n : g[1..k] = OfflineRow(g[1..(k - 1)], rs[k])

\* So is Checked.
LEMMA CheckedIsFold ==
  ASSUME NEW start, NEW rs
  PROVE  \A n \in Nat : \E g : CheckedIs(g, start, rs, n)
<1> TAKE n \in Nat
<1> DEFINE q == [i \in 1..n |-> rs[i]]
           g == CHOOSE g : CheckedFold(g, start, q, n)
<1>1. DOMAIN q = 1..n
  OBVIOUS
<1>2. Checked(start, rs, n) = (CHOOSE f : f = [t \in SUBSET DOMAIN q |-> IF t = {} THEN start ELSE OfflineRow(f[t \ {Max(t)}], q[Max(t)])])[DOMAIN q]
  BY Zenon DEF Checked, FoldLeft, MapThenFoldSet
<1>3. Checked(start, rs, n) = g[1..n]
  BY <1>1, <1>2, Zenon DEF CheckedFold
<1>4. CheckedFold(g, start, q, n)
  <2> HIDE DEF q
  <2>1. \E f : CheckedFold(f, start, q, n)
    BY CheckedFoldExists
  <2> QED
    BY <2>1, Zenon
<1> HIDE DEF g
<1>5. g[{}] = start
  BY <1>4 DEF CheckedFold
<1>6. ASSUME NEW k \in 1..n  PROVE g[1..k] = OfflineRow(g[1..(k - 1)], rs[k])
  <2>1. k \in Nat \ {0} /\ 1..k \in SUBSET (1..n) /\ q[k] = rs[k]
    OBVIOUS
  <2>2. Max(1..k) = k /\ (1..k) \ {k} = 1..(k - 1) /\ 1..k # {}
    BY <2>1, UpTo
  <2> HIDE DEF q
  <2>3. g[1..k] = OfflineRow(g[1..(k - 1)], q[k])
    BY <1>4, <2>1, <2>2 DEF CheckedFold
  <2> QED
    BY <2>1, <2>3
<1> QED
  BY <1>3, <1>5, <1>6 DEF CheckedIs

\* One element after the other.
LEMMA CheckedFirst ==
  ASSUME NEW start, NEW rs
  PROVE  Checked(start, rs, 0) = start
<1>1. 1..0 = {} /\ 0 \in Nat
  OBVIOUS
<1> QED
  BY <1>1, CheckedIsFold DEF CheckedIs

\* One more row is checked after those before it.
LEMMA CheckedStep ==
  ASSUME NEW start, NEW rs, NEW n \in Nat
  PROVE  Checked(start, rs, n + 1) = OfflineRow(Checked(start, rs, n), rs[n + 1])
<1>1. PICK g : CheckedIs(g, start, rs, n)
  BY CheckedIsFold
<1>2. n + 1 \in Nat
  OBVIOUS
<1>3. PICK h : CheckedIs(h, start, rs, n + 1)
  BY <1>2, CheckedIsFold
<1> USE DEF CheckedIs
<1> DEFINE T == {k \in Nat : k <= n => g[1..k] = h[1..k]}
<1>4. 0 \in T
  <2>1. 1..0 = {}
    OBVIOUS
  <2> QED
    BY <1>1, <1>3, <2>1
<1>5. ASSUME NEW k \in Nat, k \in T  PROVE k + 1 \in T
  <2> SUFFICES ASSUME k + 1 <= n  PROVE g[1..(k + 1)] = h[1..(k + 1)]
    OBVIOUS
  <2>1. k + 1 \in 1..n /\ k + 1 \in 1..(n + 1) /\ (k + 1) - 1 = k /\ k <= n
    OBVIOUS
  <2>2. g[1..k] = h[1..k]
    BY <1>5, <2>1
  <2>3. g[1..(k + 1)] = OfflineRow(g[1..k], rs[k + 1]) /\ h[1..(k + 1)] = OfflineRow(h[1..k], rs[k + 1])
    BY <1>1, <1>3, <2>1
  <2> QED
    BY <2>2, <2>3
<1>6. n \in T
  <2> HIDE DEF T
  <2> QED
    BY <1>4, <1>5, Induction
<1>7. g[1..n] = h[1..n]
  BY <1>6
<1>8. n + 1 \in 1..(n + 1) /\ (n + 1) - 1 = n
  OBVIOUS
<1> QED
  BY <1>1, <1>3, <1>7, <1>8

-----------------------------------------------------------------------------
\* The first n results of a batch into a plan, is from first
Planning(p, results, order, n) == FoldLeft(LAMBDA a, i : Fold(a, i, results[i]), p, [i \in 1..n |-> order[i]])

\* g is a fold as FoldLeft chooses one.
PlanningFold(g, p, results, order, n) ==
  g = [t \in SUBSET (1..n) |-> IF t = {} THEN p ELSE Fold(g[t \ {Max(t)}], order[Max(t)], results[order[Max(t)]])]

\* There is a fold over the results of a batch.
LEMMA PlanningFoldExists ==
  ASSUME NEW p, NEW results, NEW order
  PROVE  \A n \in Nat : \E g : PlanningFold(g, p, results, order, n)
<1> DEFINE T == {n \in Nat : \E g : PlanningFold(g, p, results, order, n)}
<1>1. 0 \in T
  <2>1. SUBSET (1..0) = {{}}
    OBVIOUS
  <2>2. PlanningFold([t \in SUBSET (1..0) |-> p], p, results, order, 0)
    BY <2>1 DEF PlanningFold
  <2> QED
    BY <2>2
<1>2. ASSUME NEW n \in Nat, n \in T  PROVE n + 1 \in T
  <2>1. PICK g : PlanningFold(g, p, results, order, n)
    BY <1>2
  <2>2. PICK top : top = [u \in SUBSET (1..n) |-> Fold(g[u], order[n + 1], results[order[n + 1]])]
    OBVIOUS
  <2>3. PICK h : h = [t \in SUBSET (1..(n + 1)) |-> IF n + 1 \in t THEN top[t \ {n + 1}] ELSE g[t]]
    OBVIOUS
  <2>4. ASSUME NEW t \in SUBSET (1..(n + 1))
        PROVE  h[t] = IF t = {} THEN p ELSE Fold(h[t \ {Max(t)}], order[Max(t)], results[order[Max(t)]])
    <3>1. CASE t = {}
      <4>1. h[t] = g[t] /\ t \in SUBSET (1..n)
        BY <2>3, <3>1, Longer
      <4> QED
        BY <2>1, <3>1, <4>1 DEF PlanningFold
    <3>2. CASE n + 1 \in t
      <4>1. /\ t # {} /\ Max(t) = n + 1 /\ h[t] = top[t \ {n + 1}]
            /\ t \ {n + 1} \in SUBSET (1..n) /\ h[t \ {n + 1}] = g[t \ {n + 1}]
        BY <2>3, <3>2, Longer
      <4> QED
        BY <2>2, <4>1
    <3>3. CASE t # {} /\ n + 1 \notin t
      <4>1. t \in SUBSET (1..n) /\ h[t] = g[t] /\ h[t \ {Max(t)}] = g[t \ {Max(t)}]
        BY <2>3, <3>3, Longer
      <4>2. g[t] = Fold(g[t \ {Max(t)}], order[Max(t)], results[order[Max(t)]])
        BY <2>1, <3>3, <4>1 DEF PlanningFold
      <4> QED
        BY <3>3, <4>1, <4>2
    <3> QED
      BY <3>1, <3>2, <3>3
  <2>5. h = [t \in SUBSET (1..(n + 1)) |-> IF t = {} THEN p ELSE Fold(h[t \ {Max(t)}], order[Max(t)], results[order[Max(t)]])]
    BY <2>3, <2>4
  <2>6. PlanningFold(h, p, results, order, n + 1)
    BY <2>5, Zenon DEF PlanningFold
  <2> QED
    BY <2>6
<1> QED
  <2> HIDE DEF T
  <2>1. Nat \subseteq T
    BY <1>1, <1>2, Induction
  <2> QED
    BY <2>1 DEF T

\* Planning is the value of such a fold g.
PlanningIs(g, p, results, order, n) ==
  /\ g[{}] = p /\ Planning(p, results, order, n) = g[1..n]
  /\ \A k \in 1..n : g[1..k] = Fold(g[1..(k - 1)], order[k], results[order[k]])

\* So is Planning.
LEMMA PlanningIsFold ==
  ASSUME NEW p, NEW results, NEW order
  PROVE  \A n \in Nat : \E g : PlanningIs(g, p, results, order, n)
<1> TAKE n \in Nat
<1> DEFINE q == [i \in 1..n |-> order[i]]
           g == CHOOSE g : PlanningFold(g, p, results, q, n)
<1>1. DOMAIN q = 1..n
  OBVIOUS
<1>2. Planning(p, results, order, n) = (CHOOSE f : f = [t \in SUBSET DOMAIN q |-> IF t = {} THEN p ELSE Fold(f[t \ {Max(t)}], q[Max(t)], results[q[Max(t)]])])[DOMAIN q]
  BY Zenon DEF Planning, FoldLeft, MapThenFoldSet
<1>3. Planning(p, results, order, n) = g[1..n]
  BY <1>1, <1>2, Zenon DEF PlanningFold
<1>4. PlanningFold(g, p, results, q, n)
  <2> HIDE DEF q
  <2>1. \E f : PlanningFold(f, p, results, q, n)
    BY PlanningFoldExists
  <2> QED
    BY <2>1, Zenon
<1> HIDE DEF g
<1>5. g[{}] = p
  BY <1>4 DEF PlanningFold
<1>6. ASSUME NEW k \in 1..n  PROVE g[1..k] = Fold(g[1..(k - 1)], order[k], results[order[k]])
  <2>1. k \in Nat \ {0} /\ 1..k \in SUBSET (1..n) /\ q[k] = order[k]
    OBVIOUS
  <2>2. Max(1..k) = k /\ (1..k) \ {k} = 1..(k - 1) /\ 1..k # {}
    BY <2>1, UpTo
  <2> HIDE DEF q
  <2>3. g[1..k] = Fold(g[1..(k - 1)], q[k], results[q[k]])
    BY <1>4, <2>1, <2>2 DEF PlanningFold
  <2> QED
    BY <2>1, <2>3
<1> QED
  BY <1>3, <1>5, <1>6 DEF PlanningIs

\* One element after the other.
LEMMA PlanningFirst ==
  ASSUME NEW p, NEW results, NEW order
  PROVE  Planning(p, results, order, 0) = p
<1>1. 1..0 = {} /\ 0 \in Nat
  OBVIOUS
<1> QED
  BY <1>1, PlanningIsFold DEF PlanningIs

\* One more result is folded into the plan after those before it.
LEMMA PlanningStep ==
  ASSUME NEW p, NEW results, NEW order, NEW n \in Nat
  PROVE  Planning(p, results, order, n + 1) = Fold(Planning(p, results, order, n), order[n + 1], results[order[n + 1]])
<1>1. PICK g : PlanningIs(g, p, results, order, n)
  BY PlanningIsFold
<1>2. n + 1 \in Nat
  OBVIOUS
<1>3. PICK h : PlanningIs(h, p, results, order, n + 1)
  BY <1>2, PlanningIsFold
<1> USE DEF PlanningIs
<1> DEFINE T == {k \in Nat : k <= n => g[1..k] = h[1..k]}
<1>4. 0 \in T
  <2>1. 1..0 = {}
    OBVIOUS
  <2> QED
    BY <1>1, <1>3, <2>1
<1>5. ASSUME NEW k \in Nat, k \in T  PROVE k + 1 \in T
  <2> SUFFICES ASSUME k + 1 <= n  PROVE g[1..(k + 1)] = h[1..(k + 1)]
    OBVIOUS
  <2>1. k + 1 \in 1..n /\ k + 1 \in 1..(n + 1) /\ (k + 1) - 1 = k /\ k <= n
    OBVIOUS
  <2>2. g[1..k] = h[1..k]
    BY <1>5, <2>1
  <2>3. g[1..(k + 1)] = Fold(g[1..k], order[k + 1], results[order[k + 1]]) /\ h[1..(k + 1)] = Fold(h[1..k], order[k + 1], results[order[k + 1]])
    BY <1>1, <1>3, <2>1
  <2> QED
    BY <2>2, <2>3
<1>6. n \in T
  <2> HIDE DEF T
  <2> QED
    BY <1>4, <1>5, Induction
<1>7. g[1..n] = h[1..n]
  BY <1>6
<1>8. n + 1 \in 1..(n + 1) /\ (n + 1) - 1 = n
  OBVIOUS
<1> QED
  BY <1>1, <1>3, <1>7, <1>8

-----------------------------------------------------------------------------
\* The first n sources of a group, in this order, as pass two reads them
Replaying(g, order, n) == FoldLeft(LAMBDA a, i : ReplaySource(a, g, i), StartOf(g), [i \in 1..n |-> order[i]])

\* f is a fold as FoldLeft chooses one.
ReplayingFold(f, g, order, n) ==
  f = [t \in SUBSET (1..n) |-> IF t = {} THEN StartOf(g) ELSE ReplaySource(f[t \ {Max(t)}], g, order[Max(t)])]

\* There is a fold over the sources of a group.
LEMMA ReplayingFoldExists ==
  ASSUME NEW g, NEW order
  PROVE  \A n \in Nat : \E f : ReplayingFold(f, g, order, n)
<1> DEFINE T == {n \in Nat : \E f : ReplayingFold(f, g, order, n)}
<1>1. 0 \in T
  <2>1. SUBSET (1..0) = {{}}
    OBVIOUS
  <2>2. ReplayingFold([t \in SUBSET (1..0) |-> StartOf(g)], g, order, 0)
    BY <2>1 DEF ReplayingFold
  <2> QED
    BY <2>2
<1>2. ASSUME NEW n \in Nat, n \in T  PROVE n + 1 \in T
  <2>1. PICK f : ReplayingFold(f, g, order, n)
    BY <1>2
  <2>2. PICK top : top = [u \in SUBSET (1..n) |-> ReplaySource(f[u], g, order[n + 1])]
    OBVIOUS
  <2>3. PICK h : h = [t \in SUBSET (1..(n + 1)) |-> IF n + 1 \in t THEN top[t \ {n + 1}] ELSE f[t]]
    OBVIOUS
  <2>4. ASSUME NEW t \in SUBSET (1..(n + 1))
        PROVE  h[t] = IF t = {} THEN StartOf(g) ELSE ReplaySource(h[t \ {Max(t)}], g, order[Max(t)])
    <3>1. CASE t = {}
      <4>1. h[t] = f[t] /\ t \in SUBSET (1..n)
        BY <2>3, <3>1, Longer
      <4> QED
        BY <2>1, <3>1, <4>1 DEF ReplayingFold
    <3>2. CASE n + 1 \in t
      <4>1. /\ t # {} /\ Max(t) = n + 1 /\ h[t] = top[t \ {n + 1}]
            /\ t \ {n + 1} \in SUBSET (1..n) /\ h[t \ {n + 1}] = f[t \ {n + 1}]
        BY <2>3, <3>2, Longer
      <4> QED
        BY <2>2, <4>1
    <3>3. CASE t # {} /\ n + 1 \notin t
      <4>1. t \in SUBSET (1..n) /\ h[t] = f[t] /\ h[t \ {Max(t)}] = f[t \ {Max(t)}]
        BY <2>3, <3>3, Longer
      <4>2. f[t] = ReplaySource(f[t \ {Max(t)}], g, order[Max(t)])
        BY <2>1, <3>3, <4>1 DEF ReplayingFold
      <4> QED
        BY <3>3, <4>1, <4>2
    <3> QED
      BY <3>1, <3>2, <3>3
  <2>5. h = [t \in SUBSET (1..(n + 1)) |-> IF t = {} THEN StartOf(g) ELSE ReplaySource(h[t \ {Max(t)}], g, order[Max(t)])]
    BY <2>3, <2>4
  <2>6. ReplayingFold(h, g, order, n + 1)
    BY <2>5, Zenon DEF ReplayingFold
  <2> QED
    BY <2>6
<1> QED
  <2> HIDE DEF T
  <2>1. Nat \subseteq T
    BY <1>1, <1>2, Induction
  <2> QED
    BY <2>1 DEF T

\* Replaying is the value of such a fold f.
ReplayingIs(f, g, order, n) ==
  /\ f[{}] = StartOf(g) /\ Replaying(g, order, n) = f[1..n]
  /\ \A k \in 1..n : f[1..k] = ReplaySource(f[1..(k - 1)], g, order[k])

\* So is Replaying.
LEMMA ReplayingIsFold ==
  ASSUME NEW g, NEW order
  PROVE  \A n \in Nat : \E f : ReplayingIs(f, g, order, n)
<1> TAKE n \in Nat
<1> DEFINE q == [i \in 1..n |-> order[i]]
           f == CHOOSE f : ReplayingFold(f, g, q, n)
<1>1. DOMAIN q = 1..n
  OBVIOUS
<1>2. Replaying(g, order, n) = (CHOOSE e : e = [t \in SUBSET DOMAIN q |-> IF t = {} THEN StartOf(g) ELSE ReplaySource(e[t \ {Max(t)}], g, q[Max(t)])])[DOMAIN q]
  BY Zenon DEF Replaying, FoldLeft, MapThenFoldSet
<1>3. Replaying(g, order, n) = f[1..n]
  BY <1>1, <1>2, Zenon DEF ReplayingFold
<1>4. ReplayingFold(f, g, q, n)
  <2> HIDE DEF q
  <2>1. \E e : ReplayingFold(e, g, q, n)
    BY ReplayingFoldExists
  <2> QED
    BY <2>1, Zenon
<1> HIDE DEF f
<1>5. f[{}] = StartOf(g)
  BY <1>4 DEF ReplayingFold
<1>6. ASSUME NEW k \in 1..n  PROVE f[1..k] = ReplaySource(f[1..(k - 1)], g, order[k])
  <2>1. k \in Nat \ {0} /\ 1..k \in SUBSET (1..n) /\ q[k] = order[k]
    OBVIOUS
  <2>2. Max(1..k) = k /\ (1..k) \ {k} = 1..(k - 1) /\ 1..k # {}
    BY <2>1, UpTo
  <2> HIDE DEF q
  <2>3. f[1..k] = ReplaySource(f[1..(k - 1)], g, q[k])
    BY <1>4, <2>1, <2>2 DEF ReplayingFold
  <2> QED
    BY <2>1, <2>3
<1> QED
  BY <1>3, <1>5, <1>6 DEF ReplayingIs

\* One element after the other.
LEMMA ReplayingFirst ==
  ASSUME NEW g, NEW order
  PROVE  Replaying(g, order, 0) = StartOf(g)
<1>1. 1..0 = {} /\ 0 \in Nat
  OBVIOUS
<1> QED
  BY <1>1, ReplayingIsFold DEF ReplayingIs

\* One more source is replayed after those before it.
LEMMA ReplayingStep ==
  ASSUME NEW g, NEW order, NEW n \in Nat
  PROVE  Replaying(g, order, n + 1) = ReplaySource(Replaying(g, order, n), g, order[n + 1])
<1>1. PICK f : ReplayingIs(f, g, order, n)
  BY ReplayingIsFold
<1>2. n + 1 \in Nat
  OBVIOUS
<1>3. PICK h : ReplayingIs(h, g, order, n + 1)
  BY <1>2, ReplayingIsFold
<1> USE DEF ReplayingIs
<1> DEFINE T == {k \in Nat : k <= n => f[1..k] = h[1..k]}
<1>4. 0 \in T
  <2>1. 1..0 = {}
    OBVIOUS
  <2> QED
    BY <1>1, <1>3, <2>1
<1>5. ASSUME NEW k \in Nat, k \in T  PROVE k + 1 \in T
  <2> SUFFICES ASSUME k + 1 <= n  PROVE f[1..(k + 1)] = h[1..(k + 1)]
    OBVIOUS
  <2>1. k + 1 \in 1..n /\ k + 1 \in 1..(n + 1) /\ (k + 1) - 1 = k /\ k <= n
    OBVIOUS
  <2>2. f[1..k] = h[1..k]
    BY <1>5, <2>1
  <2>3. f[1..(k + 1)] = ReplaySource(f[1..k], g, order[k + 1]) /\ h[1..(k + 1)] = ReplaySource(h[1..k], g, order[k + 1])
    BY <1>1, <1>3, <2>1
  <2> QED
    BY <2>2, <2>3
<1>6. n \in T
  <2> HIDE DEF T
  <2> QED
    BY <1>4, <1>5, Induction
<1>7. f[1..n] = h[1..n]
  BY <1>6
<1>8. n + 1 \in 1..(n + 1) /\ (n + 1) - 1 = n
  OBVIOUS
<1> QED
  BY <1>1, <1>3, <1>7, <1>8

-----------------------------------------------------------------------------
(* A row through a validator                                                *)

IsRow(row) ==
  /\ row.seq \in Nat \ {0} /\ row.stamp = row.seq
  /\ row.processes \in Seq(ToSet(row.processes))

Ids(row) == {row.processes[k].id : k \in 1..Len(row.processes)}

\* The validator of a transform: unlimited, with one clock.
IsValidator(v) ==
  /\ v = [previous |-> v.previous, seq |-> v.seq, stamp |-> v.stamp, checked |-> v.checked, limit |-> Unlimited]
  /\ v.previous = [i \in DOMAIN v.previous |-> v.previous[i]]
  /\ v.seq \in Nat /\ v.stamp = v.seq

\* Two validators that know the same of the processes T
Alike(v, w, T) ==
  /\ IsValidator(v) /\ IsValidator(w) /\ v.seq = w.seq
  /\ \A i \in T : /\ i \in DOMAIN v.previous <=> i \in DOMAIN w.previous
                  /\ i \in DOMAIN v.previous => v.previous[i] = w.previous[i]

\* What is known from f and then from g
Over(f, g) == [i \in DOMAIN f \cup DOMAIN g |-> IF i \in DOMAIN g THEN g[i] ELSE f[i]]

\* v knows what w knows, and of the others, but for R, what was known before.
Beyond(v, w, before, R) == v.previous = Over(Keep(before, DOMAIN before \ R), w.previous)

StateOf(row, p) == [cpu |-> p.cpu, seq |-> row.seq, stamp |-> row.stamp]
Seen(v, row, p) ==
  [previous |-> With(v.previous, p.id, StateOf(row, p)), seq |-> v.seq, stamp |-> v.stamp,
   checked |-> v.checked, limit |-> Unlimited]

Lowered(v, p) ==
  IF p.id \in DOMAIN v.previous THEN {c \in DOMAIN p.cpu : p.cpu[c] < v.previous[p.id].cpu[c]} ELSE {}

LowerEvents(v, row, p) == {RegressionEvent(c, p, v.previous[p.id], row) : c \in Lowered(v, p)}

\* The validator of a transform takes every process.
LEMMA ObserveIs ==
  ASSUME NEW row, NEW acc, NEW p, IsValidator(acc.v)
  PROVE  /\ Observe(row, acc, p) = [v |-> Seen(acc.v, row, p),
                                    quality |-> acc.quality \cup LowerEvents(acc.v, row, p),
                                    boundary |-> acc.boundary \/ Lowered(acc.v, p) # {}]
         /\ IsValidator(Seen(acc.v, row, p))
<1> PICK v : v = acc.v
  OBVIOUS
<1>1. v.limit = Unlimited
  BY DEF IsValidator
<1>2. ~Bounded(v) /\ Room(v, row, p)
  BY <1>1 DEF Bounded, Room
<1>3. Remembers(v, row, p) <=> p.id \in DOMAIN v.previous
  BY <1>2 DEF Remembers, Forgotten
<1>4. Lower(v, row, p) = Lowered(v, p)
  BY <1>3 DEF Lower, Lowered
<1>5. Events(v, row, p) = LowerEvents(v, row, p)
  <2>1. CASE Remembers(v, row, p)
    BY <1>4, <2>1 DEF Events, LowerEvents
  <2>2. CASE ~Remembers(v, row, p)
    BY <1>2, <1>3, <2>2 DEF Events, LowerEvents, Lowered
  <2> QED
    BY <2>1, <2>2
<1>6. BeginsBlock(v, row, p) <=> Lowered(v, p) # {}
  BY <1>2, <1>4 DEF BeginsBlock
<1>7. [v EXCEPT !.previous = With(@, p.id, StateOf(row, p))] = Seen(v, row, p)
  <2>1. IsValidator(v)
    OBVIOUS
  <2> QED
    BY <2>1 DEF IsValidator, Seen
<1>8. Observe(row, acc, p) = [v |-> Seen(v, row, p), quality |-> acc.quality \cup LowerEvents(v, row, p),
                              boundary |-> acc.boundary \/ Lowered(v, p) # {}]
  BY <1>2, <1>5, <1>6, <1>7 DEF Observe, StateOf
<1>9. IsValidator(Seen(v, row, p))
  BY DEF IsValidator, Seen, With
<1> QED
  BY <1>8, <1>9

\* What one process does to two validators that know the same of it
LEMMA ObserveAlike ==
  ASSUME NEW row, NEW a, NEW b, NEW p, NEW T, p.id \in T,
         Alike(a.v, b.v, T), a.quality = b.quality, a.boundary = b.boundary
  PROVE  LET x == Observe(row, a, p)
             y == Observe(row, b, p)
         IN  Alike(x.v, y.v, T) /\ x.quality = y.quality /\ x.boundary = y.boundary
<1>1. IsValidator(a.v) /\ IsValidator(b.v)
  BY DEF Alike
<1>2. Lowered(a.v, p) = Lowered(b.v, p)
  BY DEF Alike, Lowered
<1>3. LowerEvents(a.v, row, p) = LowerEvents(b.v, row, p)
  <2>1. CASE p.id \in DOMAIN a.v.previous
    <3>1. a.v.previous[p.id] = b.v.previous[p.id]
      BY <2>1 DEF Alike
    <3> QED
      BY <1>2, <3>1 DEF LowerEvents
  <2>2. CASE p.id \notin DOMAIN a.v.previous
    BY <1>2, <2>2 DEF LowerEvents, Lowered
  <2> QED
    BY <2>1, <2>2
<1>4. Alike(Seen(a.v, row, p), Seen(b.v, row, p), T)
  <2>1. IsValidator(Seen(a.v, row, p)) /\ IsValidator(Seen(b.v, row, p))
    BY <1>1, ObserveIs
  <2> QED
    BY <2>1 DEF Alike, Seen, With
<1>5. /\ Observe(row, a, p) = [v |-> Seen(a.v, row, p), quality |-> a.quality \cup LowerEvents(a.v, row, p),
                               boundary |-> a.boundary \/ Lowered(a.v, p) # {}]
      /\ Observe(row, b, p) = [v |-> Seen(b.v, row, p), quality |-> b.quality \cup LowerEvents(b.v, row, p),
                               boundary |-> b.boundary \/ Lowered(b.v, p) # {}]
  BY <1>1, ObserveIs
<1> QED
  BY <1>2, <1>3, <1>4, <1>5

\* What one process does to a validator that knows more
LEMMA ObserveBeyond ==
  ASSUME NEW row, NEW a, NEW b, NEW p, NEW before, NEW R,
         IsValidator(a.v), IsValidator(b.v), Beyond(a.v, b.v, before, R),
         NEW x, x = Observe(row, a, p), NEW y, y = Observe(row, b, p)
  PROVE  /\ IsValidator(x.v) /\ IsValidator(y.v) /\ Beyond(x.v, y.v, before, R)
         /\ DOMAIN y.v.previous = DOMAIN b.v.previous \cup {p.id}
<1>1. Observe(row, a, p).v = Seen(a.v, row, p) /\ Observe(row, b, p).v = Seen(b.v, row, p)
  BY ObserveIs
<1>2. IsValidator(Seen(a.v, row, p)) /\ IsValidator(Seen(b.v, row, p))
  BY ObserveIs
<1>3. PICK f, g, kept, s : /\ f = a.v.previous /\ g = b.v.previous
                           /\ kept = Keep(before, DOMAIN before \ R) /\ s = StateOf(row, p)
  OBVIOUS
<1>4. f = Over(kept, g)
  BY <1>3 DEF Beyond
<1>5. With(f, p.id, s) = Over(kept, With(g, p.id, s))
  BY <1>4 DEF With, Over
<1>6. Beyond(Seen(a.v, row, p), Seen(b.v, row, p), before, R)
  BY <1>3, <1>5 DEF Beyond, Seen
<1>7. DOMAIN Seen(b.v, row, p).previous = DOMAIN b.v.previous \cup {p.id}
  BY DEF Seen, With
<1> QED
  BY <1>1, <1>2, <1>6, <1>7

Forgetful(v, R) ==
  [previous |-> Keep(v.previous, DOMAIN v.previous \ R), seq |-> v.seq, stamp |-> v.stamp,
   checked |-> v.checked, limit |-> Unlimited]

\* Before the first process of a row
Begun(v, row) ==
  [v |-> Forgetful(v, Resets(row.quality)), quality |-> row.quality, boundary |-> \E e \in row.quality : IsRegression(e)]

\* After the last
Ended(v, row) == Observed(row, Begun(v, row), row.processes, Len(row.processes))

Stamped(v, row) ==
  [previous |-> v.previous, seq |-> row.seq, stamp |-> row.stamp, checked |-> v.checked, limit |-> Unlimited]

\* A validator that forgets some processes is a validator.
LEMMA ForgetfulIs ==
  ASSUME NEW v, NEW R, IsValidator(v)
  PROVE  IsValidator(Forgetful(v, R))
BY DEF IsValidator, Forgetful, Keep

\* A validator that takes a row has the sequence number and the time stamp of the row.
LEMMA StampedIs ==
  ASSUME NEW v, NEW row, IsValidator(v), IsRow(row)
  PROVE  /\ IsValidator(Stamped(v, row)) /\ Stamped(v, row).seq = row.seq
         /\ [v EXCEPT !.seq = row.seq, !.stamp = row.stamp] = Stamped(v, row)
<1>1. IsValidator(Stamped(v, row)) /\ Stamped(v, row).seq = row.seq
  BY DEF IsValidator, Stamped, IsRow
<1>2. [v EXCEPT !.seq = row.seq, !.stamp = row.stamp] = Stamped(v, row)
  <2>1. PICK a, b, c, d, e : v = [previous |-> a, seq |-> d, stamp |-> e, checked |-> b, limit |-> c]
                             /\ c = Unlimited
    BY DEF IsValidator
  <2>2. PICK x, y : x = row.seq /\ y = row.stamp
    OBVIOUS
  <2>3. [v EXCEPT !.seq = x] = [previous |-> a, seq |-> x, stamp |-> e, checked |-> b, limit |-> c]
    BY <2>1
  <2>4. PICK u : u = [v EXCEPT !.seq = x]
    OBVIOUS
  <2>5. [v EXCEPT !.seq = x, !.stamp = y] = [u EXCEPT !.stamp = y]
    BY <2>4
  <2>6. u = [previous |-> a, seq |-> x, stamp |-> e, checked |-> b, limit |-> c]
    BY <2>3, <2>4
  <2>7. [u EXCEPT !.stamp = y] = [previous |-> a, seq |-> x, stamp |-> y, checked |-> b, limit |-> c]
    BY <2>6
  <2>8. v.previous = a /\ v.checked = b
    BY <2>1
  <2> QED
    BY <2>1, <2>2, <2>5, <2>7, <2>8 DEF Stamped
<1> QED
  BY <1>1, <1>2

\* A row in terms of the steps for its processes
LEMMA ValidatedIs ==
  ASSUME NEW v, NEW row, IsValidator(v), IsRow(row), IsValidator(Ended(v, row).v)
  PROVE  Validated(v, row) = [v |-> Stamped(Ended(v, row).v, row),
                              row |-> [row EXCEPT !.quality = Ended(v, row).quality],
                              boundary |-> Ended(v, row).boundary]
<1>1. Expire(v, row) = v
  BY DEF IsValidator, Expire, Bounded
<1>2. [v EXCEPT !.previous = Keep(@, DOMAIN @ \ Resets(row.quality))] = Forgetful(v, Resets(row.quality))
  BY DEF IsValidator, Forgetful
<1>3. row.processes = [i \in 1..Len(row.processes) |-> row.processes[i]]
  BY DEF IsRow
<1>4. FoldLeft(LAMBDA acc, p : Observe(row, acc, p), Begun(v, row), row.processes) = Ended(v, row)
  <2>1. FoldLeft(LAMBDA acc, p : Observe(row, acc, p), Begun(v, row), [i \in 1..Len(row.processes) |-> row.processes[i]])
          = Ended(v, row)
    BY Zenon DEF Ended, Observed
  <2> QED
    BY <1>3, <2>1, Zenon
<1>5. [Ended(v, row).v EXCEPT !.seq = row.seq, !.stamp = row.stamp] = Stamped(Ended(v, row).v, row)
  BY StampedIs
<1>6. Begun(v, row) = [v |-> [Expire(v, row) EXCEPT !.previous = Keep(@, DOMAIN @ \ Resets(row.quality))],
                       quality |-> row.quality, boundary |-> \E e \in row.quality : IsRegression(e)]
  BY <1>1, <1>2, Zenon DEF Begun
<1>7. Validated(v, row) =
        [v |-> [Ended(v, row).v EXCEPT !.seq = row.seq, !.stamp = row.stamp],
         row |-> [row EXCEPT !.quality = Ended(v, row).quality], boundary |-> Ended(v, row).boundary]
  BY <1>4, <1>6, Zenon DEF Validated
<1> QED
  BY <1>5, <1>7, Zenon

\* Validators that know the same of the processes of a row make the same of it.
LEMMA ValidatedAlike ==
  ASSUME NEW v, NEW w, NEW row, NEW T, IsRow(row), Alike(v, w, T), Ids(row) \subseteq T
  PROVE  LET x == Validated(v, row)
             y == Validated(w, row)
         IN  Alike(x.v, y.v, T) /\ x.row = y.row /\ x.boundary = y.boundary /\ x.v.seq = row.seq
<1> DEFINE ps == row.processes
           n == Len(ps)
           f(k) == Observed(row, Begun(v, row), ps, k)
           g(k) == Observed(row, Begun(w, row), ps, k)
           A == {k \in Nat : k <= n => /\ Alike(f(k).v, g(k).v, T)
                                       /\ f(k).quality = g(k).quality /\ f(k).boundary = g(k).boundary}
<1>1. n \in Nat
  BY DEF IsRow
<1>2. \A k \in Nat : /\ f(k + 1) = Observe(row, f(k), ps[k + 1])
                     /\ g(k + 1) = Observe(row, g(k), ps[k + 1])
  BY ObservedStep
<1>3. 0 \in A
  <2>1. f(0) = Begun(v, row) /\ g(0) = Begun(w, row)
    BY ObservedFirst
  <2>2. Alike(Forgetful(v, Resets(row.quality)), Forgetful(w, Resets(row.quality)), T)
    <3>1. IsValidator(Forgetful(v, Resets(row.quality))) /\ IsValidator(Forgetful(w, Resets(row.quality)))
      BY ForgetfulIs DEF Alike
    <3> QED
      BY <3>1 DEF Alike, Forgetful, Keep
  <2>3. /\ Alike(Begun(v, row).v, Begun(w, row).v, T)
        /\ Begun(v, row).quality = Begun(w, row).quality /\ Begun(v, row).boundary = Begun(w, row).boundary
    BY <2>2, Zenon DEF Begun
  <2> HIDE DEF f, g, n
  <2> QED
    BY <2>1, <2>3
<1>4. ASSUME NEW k \in Nat, k \in A  PROVE k + 1 \in A
  <2> SUFFICES ASSUME k + 1 <= n
               PROVE  /\ Alike(f(k + 1).v, g(k + 1).v, T)
                      /\ f(k + 1).quality = g(k + 1).quality /\ f(k + 1).boundary = g(k + 1).boundary
    OBVIOUS
  <2>1. k <= n /\ k + 1 \in 1..n
    BY <1>1
  <2>2. /\ Alike(f(k).v, g(k).v, T)
        /\ f(k).quality = g(k).quality /\ f(k).boundary = g(k).boundary
    BY <1>4, <2>1
  <2>3. ps[k + 1].id \in T
    BY <2>1 DEF Ids
  <2>4. f(k + 1) = Observe(row, f(k), ps[k + 1]) /\ g(k + 1) = Observe(row, g(k), ps[k + 1])
    BY <1>2
  <2> HIDE DEF f, g, ps, n
  <2> QED
    BY <2>2, <2>3, <2>4, ObserveAlike
<1>5. n \in A
  <2> HIDE DEF A, n
  <2> QED
    BY <1>1, <1>3, <1>4, Induction
<1>6. /\ Alike(Ended(v, row).v, Ended(w, row).v, T)
      /\ Ended(v, row).quality = Ended(w, row).quality /\ Ended(v, row).boundary = Ended(w, row).boundary
  BY <1>5 DEF Ended
<1>7. PICK e, d : e = Ended(v, row) /\ d = Ended(w, row)
  OBVIOUS
<1>8. IsValidator(v) /\ IsValidator(w) /\ IsValidator(e.v) /\ IsValidator(d.v)
  BY <1>6, <1>7 DEF Alike
<1>9. /\ Validated(v, row) = [v |-> Stamped(e.v, row), row |-> [row EXCEPT !.quality = e.quality], boundary |-> e.boundary]
      /\ Validated(w, row) = [v |-> Stamped(d.v, row), row |-> [row EXCEPT !.quality = d.quality], boundary |-> d.boundary]
  BY <1>7, <1>8, ValidatedIs
<1>10. Alike(Stamped(e.v, row), Stamped(d.v, row), T)
  <2>1. IsValidator(Stamped(e.v, row)) /\ IsValidator(Stamped(d.v, row))
    BY <1>8, StampedIs
  <2> QED
    BY <1>6, <1>7, <2>1 DEF Alike, Stamped
<1>11. Stamped(e.v, row).seq = row.seq
  BY DEF Stamped
<1> QED
  BY <1>6, <1>7, <1>9, <1>10, <1>11

\* What a row does to a validator that knows more.
Further(v, w, row, before, R) ==
  LET x == Validated(v, row).v
      y == Validated(w, row).v
  IN  /\ IsValidator(x) /\ IsValidator(y) /\ x.seq = row.seq /\ y.seq = row.seq
      /\ Beyond(x, y, before, R \cup Resets(row.quality))
      /\ DOMAIN y.previous = (DOMAIN w.previous \ Resets(row.quality)) \cup Ids(row)

\* Two validators that agree beyond the processes of R agree beyond them after a row too.
LEMMA ValidatedBeyond ==
  ASSUME NEW v, NEW w, NEW row, NEW before, NEW R,
         IsRow(row), IsValidator(v), IsValidator(w), Beyond(v, w, before, R)
  PROVE  Further(v, w, row, before, R)
<1> DEFINE ps == row.processes
           n == Len(ps)
           Q == Resets(row.quality)
           f(k) == Observed(row, Begun(v, row), ps, k)
           g(k) == Observed(row, Begun(w, row), ps, k)
           A == {k \in Nat : k <= n => /\ IsValidator(f(k).v) /\ IsValidator(g(k).v)
                                       /\ Beyond(f(k).v, g(k).v, before, R \cup Q)
                                       /\ DOMAIN g(k).v.previous = (DOMAIN w.previous \ Q) \cup {ps[i].id : i \in 1..k}}
<1>1. n \in Nat
  BY DEF IsRow
<1>2. \A k \in Nat : /\ f(k + 1) = Observe(row, f(k), ps[k + 1])
                     /\ g(k + 1) = Observe(row, g(k), ps[k + 1])
  BY ObservedStep
<1>3. 0 \in A
  <2>1. f(0) = Begun(v, row) /\ g(0) = Begun(w, row)
    BY ObservedFirst
  <2>2. IsValidator(Forgetful(v, Q)) /\ IsValidator(Forgetful(w, Q))
    BY ForgetfulIs
  <2>3. Beyond(Forgetful(v, Q), Forgetful(w, Q), before, R \cup Q)
    <3>1. PICK a, b : a = v.previous /\ b = w.previous
      OBVIOUS
    <3>2. a = Over(Keep(before, DOMAIN before \ R), b)
      BY <3>1 DEF Beyond
    <3>3. Keep(a, DOMAIN a \ Q) = Over(Keep(before, DOMAIN before \ (R \cup Q)), Keep(b, DOMAIN b \ Q))
      BY <3>2 DEF Over, Keep
    <3> QED
      BY <3>1, <3>3 DEF Beyond, Forgetful
  <2>4. DOMAIN Forgetful(w, Q).previous = DOMAIN w.previous \ Q
    BY DEF Forgetful, Keep
  <2>5. {ps[i].id : i \in 1..0} = {}
    OBVIOUS
  <2> HIDE DEF Q
  <2>6. Begun(v, row).v = Forgetful(v, Q) /\ Begun(w, row).v = Forgetful(w, Q)
    BY DEF Begun, Q
  <2> QED
    BY <2>1, <2>2, <2>3, <2>4, <2>5, <2>6
<1>4. ASSUME NEW k \in Nat, k \in A  PROVE k + 1 \in A
  <2> SUFFICES ASSUME k + 1 <= n
               PROVE  /\ IsValidator(f(k + 1).v) /\ IsValidator(g(k + 1).v)
                      /\ Beyond(f(k + 1).v, g(k + 1).v, before, R \cup Q)
                      /\ DOMAIN g(k + 1).v.previous = (DOMAIN w.previous \ Q) \cup {ps[i].id : i \in 1..(k + 1)}
    OBVIOUS
  <2>1. k <= n /\ k + 1 \in 1..n
    BY <1>1
  <2>2. /\ IsValidator(f(k).v) /\ IsValidator(g(k).v) /\ Beyond(f(k).v, g(k).v, before, R \cup Q)
        /\ DOMAIN g(k).v.previous = (DOMAIN w.previous \ Q) \cup {ps[i].id : i \in 1..k}
    BY <1>4, <2>1
  <2>3. {ps[i].id : i \in 1..(k + 1)} = {ps[i].id : i \in 1..k} \cup {ps[k + 1].id}
    <3>1. 1..(k + 1) = (1..k) \cup {k + 1}
      OBVIOUS
    <3> QED
      BY <3>1
  <2>4. f(k + 1) = Observe(row, f(k), ps[k + 1]) /\ g(k + 1) = Observe(row, g(k), ps[k + 1])
    BY <1>2
  <2> HIDE DEF f, g, ps, n, Q
  <2>5. /\ IsValidator(f(k + 1).v) /\ IsValidator(g(k + 1).v)
        /\ Beyond(f(k + 1).v, g(k + 1).v, before, R \cup Q)
        /\ DOMAIN g(k + 1).v.previous = DOMAIN g(k).v.previous \cup {ps[k + 1].id}
    <3>1. PICK a, b, p, S : a = f(k) /\ b = g(k) /\ p = ps[k + 1] /\ S = R \cup Q
      OBVIOUS
    <3>2. IsValidator(a.v) /\ IsValidator(b.v) /\ Beyond(a.v, b.v, before, S)
      BY <2>2, <3>1
    <3>3. PICK a1, b1 : a1 = Observe(row, a, p) /\ b1 = Observe(row, b, p)
      OBVIOUS
    <3>4. IsValidator(a1.v) /\ IsValidator(b1.v)
      BY <3>2, <3>3, ObserveIs
    <3>5. Beyond(a1.v, b1.v, before, S)
      BY <3>2, <3>3, ObserveBeyond
    <3>6. DOMAIN b1.v.previous = DOMAIN b.v.previous \cup {p.id}
      <4>1. b1.v = Seen(b.v, row, p)
        BY <3>2, <3>3, ObserveIs
      <4> QED
        BY <4>1 DEF Seen, With
    <3> QED
      BY <2>4, <3>1, <3>3, <3>4, <3>5, <3>6
  <2>6. DOMAIN g(k + 1).v.previous = (DOMAIN w.previous \ Q) \cup {ps[i].id : i \in 1..(k + 1)}
    BY <2>2, <2>3, <2>5
  <2> QED
    BY <2>5, <2>6
<1>5. n \in A
  <2> HIDE DEF A, n
  <2> QED
    BY <1>1, <1>3, <1>4, Induction
<1>6. PICK e, d : e = Ended(v, row) /\ d = Ended(w, row)
  OBVIOUS
<1>7. /\ IsValidator(e.v) /\ IsValidator(d.v) /\ Beyond(e.v, d.v, before, R \cup Q)
      /\ DOMAIN d.v.previous = (DOMAIN w.previous \ Q) \cup Ids(row)
  BY <1>5, <1>6 DEF Ended, Ids
<1>8. /\ Validated(v, row) = [v |-> Stamped(e.v, row), row |-> [row EXCEPT !.quality = e.quality], boundary |-> e.boundary]
      /\ Validated(w, row) = [v |-> Stamped(d.v, row), row |-> [row EXCEPT !.quality = d.quality], boundary |-> d.boundary]
  BY <1>6, <1>7, ValidatedIs
<1>9. /\ IsValidator(Stamped(e.v, row)) /\ IsValidator(Stamped(d.v, row))
      /\ Stamped(e.v, row).seq = row.seq /\ Stamped(d.v, row).seq = row.seq
  BY <1>7, StampedIs
<1>10. Beyond(Stamped(e.v, row), Stamped(d.v, row), before, R \cup Q)
  BY <1>7 DEF Beyond, Stamped
<1>11. Stamped(d.v, row).previous = d.v.previous
  BY DEF Stamped
<1>12. Validated(v, row).v = Stamped(e.v, row) /\ Validated(w, row).v = Stamped(d.v, row)
  BY <1>8
<1> QED
  BY <1>7, <1>9, <1>10, <1>11, <1>12 DEF Further

\* What a validator knows of after a row
LEMMA ValidatedKnows ==
  ASSUME NEW w, NEW row, IsRow(row), IsValidator(w)
  PROVE  /\ IsValidator(Validated(w, row).v) /\ Validated(w, row).v.seq = row.seq
         /\ DOMAIN Validated(w, row).v.previous = (DOMAIN w.previous \ Resets(row.quality)) \cup Ids(row)
<1>1. PICK before, R : before = Nothing /\ R = {}
  OBVIOUS
<1>2. Beyond(w, w, before, R)
  <2>1. PICK f : f = w.previous
    OBVIOUS
  <2>2. f = [i \in DOMAIN f |-> f[i]]
    BY <2>1 DEF IsValidator
  <2>3. f = Over(Keep(before, DOMAIN before \ R), f)
    BY <1>1, <2>2 DEF Over, Keep, Nothing
  <2> QED
    BY <2>1, <2>3 DEF Beyond
<1>3. Further(w, w, row, before, R)
  BY <1>2, ValidatedBeyond
<1> QED
  BY <1>3 DEF Further

-----------------------------------------------------------------------------
(* A row through the serial transform                                       *)

IsSeq(q) == q \in Seq(ToSet(q))

\* Every sequence over a set is one for the lemmas below.
LEMMA SeqIs ==
  ASSUME NEW S, NEW q \in Seq(S)
  PROVE  IsSeq(q)
<1>1. Len(q) \in Nat /\ DOMAIN q = 1..Len(q) /\ q = [i \in 1..Len(q) |-> q[i]]
  OBVIOUS
<1>2. \A i \in 1..Len(q) : q[i] \in ToSet(q)
  BY <1>1 DEF ToSet
<1> HIDE DEF IsSeq
<1>3. [i \in 1..Len(q) |-> q[i]] \in Seq(ToSet(q))
  BY <1>1, <1>2, IsASeq
<1> QED
  BY <1>1, <1>3 DEF IsSeq

\* The empty sequence is one.
LEMMA EmptyIsSeq == IsSeq(<<>>)
BY DEF IsSeq

\* Sequences of the same elements, for the laws of concatenation
LEMMA Together ==
  ASSUME NEW a, NEW b, IsSeq(a), IsSeq(b)
  PROVE  a \in Seq(ToSet(a) \cup ToSet(b)) /\ b \in Seq(ToSet(a) \cup ToSet(b))
BY SeqMonotonic DEF IsSeq

\* So is a sequence with one element more,
LEMMA AppendSeq ==
  ASSUME NEW a, NEW x, IsSeq(a)
  PROVE  IsSeq(Append(a, x))
<1>1. a \in Seq(ToSet(a) \cup {x})
  BY SeqMonotonic DEF IsSeq
<1>2. Append(a, x) \in Seq(ToSet(a) \cup {x})
  BY <1>1
<1> QED
  BY <1>2, SeqIs

\* and one sequence after another.
LEMMA ConcatSeq ==
  ASSUME NEW a, NEW b, IsSeq(a), IsSeq(b)
  PROVE  IsSeq(a \o b)
<1>1. a \o b \in Seq(ToSet(a) \cup ToSet(b))
  BY Together, ConcatProperties
<1> QED
  BY <1>1, SeqIs

\* Appending to a concatenation appends to its second part.
LEMMA ConcatAppend ==
  ASSUME NEW a, NEW b, NEW x, IsSeq(a), IsSeq(b)
  PROVE  Append(a \o b, x) = a \o Append(b, x)
<1>1. PICK S : S = (ToSet(a) \cup ToSet(b)) \cup {x}
  OBVIOUS
<1>2. a \in Seq(S) /\ b \in Seq(S) /\ x \in S
  BY <1>1, SeqMonotonic DEF IsSeq
<1>3. a \o b \in Seq(S) /\ <<x>> \in Seq(S)
  BY <1>2, ConcatProperties
<1>4. Append(a \o b, x) = (a \o b) \o <<x>> /\ Append(b, x) = b \o <<x>>
  BY <1>2, <1>3, AppendIsConcat
<1> QED
  BY <1>2, <1>3, <1>4, ConcatAssociative

\* Concatenation is associative.
LEMMA ConcatThree ==
  ASSUME NEW a, NEW b, NEW c, IsSeq(a), IsSeq(b), IsSeq(c)
  PROVE  (a \o b) \o c = a \o (b \o c)
<1>1. PICK S : S = (ToSet(a) \cup ToSet(b)) \cup ToSet(c)
  OBVIOUS
<1>2. a \in Seq(S) /\ b \in Seq(S) /\ c \in Seq(S)
  BY <1>1, SeqMonotonic DEF IsSeq
<1> QED
  BY <1>2, ConcatAssociative

\* The empty sequence changes no concatenation.
LEMMA ConcatEmpty ==
  ASSUME NEW a, IsSeq(a)
  PROVE  a \o <<>> = a /\ <<>> \o a = a
BY ConcatEmptySeq DEF IsSeq

\* What is emitted stays a sequence of blocks.
LEMMA EmitSeq ==
  ASSUME NEW out, NEW context, NEW rows, IsSeq(out)
  PROVE  IsSeq(Emit(out, context, rows))
BY AppendSeq DEF Emit

\* What has been emitted before does not change what is emitted.
LEMMA EmitAfter ==
  ASSUME NEW a, NEW b, NEW context, NEW rows, IsSeq(a), IsSeq(b)
  PROVE  Emit(a \o b, context, rows) = a \o Emit(b, context, rows)
BY ConcatAppend DEF Emit

\* The state of the serial transform
IsState(s) ==
  /\ s = [v |-> s.v, block |-> s.block, ctx |-> s.ctx, first |-> s.first, out |-> s.out, error |-> s.error]
  /\ IsValidator(s.v) /\ IsSeq(s.out)

\* All its blocks, the open one included
Flushed(s) == Emit(s.out, s.ctx, s.block)

\* Entering a context flushes the block of another one and changes nothing else.
LEMMA EnterIs ==
  ASSUME NEW s, NEW context, IsState(s)
  PROVE  /\ Enter(s, context) =
              [v |-> s.v, block |-> IF s.ctx = context THEN s.block ELSE <<>>, ctx |-> context,
               first |-> s.first, out |-> IF s.ctx = context THEN s.out ELSE Flushed(s), error |-> s.error]
         /\ IsState(Enter(s, context))
<1>1. PICK v, block, ctx, first, out, err :
        s = [v |-> v, block |-> block, ctx |-> ctx, first |-> first, out |-> out, error |-> err]
  BY DEF IsState
<1>2. CASE ctx = context
  <2>1. Enter(s, context) = s
    BY <1>1, <1>2 DEF Enter
  <2> QED
    BY <1>1, <1>2, <2>1
<1>3. CASE ctx # context
  <2>1. PICK x : x = Emit(out, ctx, block)
    OBVIOUS
  <2>2. Enter(s, context) = [s EXCEPT !.out = x, !.block = <<>>, !.ctx = context]
    BY <1>1, <1>3, <2>1 DEF Enter
  <2>3. PICK s1 : s1 = [s EXCEPT !.out = x]
    OBVIOUS
  <2>4. s1 = [v |-> v, block |-> block, ctx |-> ctx, first |-> first, out |-> x, error |-> err]
    BY <1>1, <2>3
  <2>5. PICK s2 : s2 = [s1 EXCEPT !.block = <<>>]
    OBVIOUS
  <2>6. s2 = [v |-> v, block |-> <<>>, ctx |-> ctx, first |-> first, out |-> x, error |-> err]
    BY <2>4, <2>5
  <2>7. Enter(s, context) = [s2 EXCEPT !.ctx = context]
    BY <2>2, <2>3, <2>5
  <2>8. Enter(s, context) = [v |-> v, block |-> <<>>, ctx |-> context, first |-> first, out |-> x, error |-> err]
    BY <2>6, <2>7
  <2>9. IsSeq(x)
    BY <1>1, <2>1, EmitSeq DEF IsState
  <2>10. IsState(Enter(s, context))
    BY <1>1, <2>8, <2>9 DEF IsState
  <2> QED
    BY <1>1, <1>3, <2>1, <2>8, <2>10 DEF Flushed
<1> QED
  BY <1>2, <1>3

\* A row that is taken begins a block or is the last of the one that is built.
LEMMA JoinIs ==
  ASSUME NEW s, NEW context, NEW val, IsState(s), IsValidator(val.v), NEW x, x = Join(s, context, val)
  PROVE  /\ IsState(x) /\ x.v = val.v /\ x.ctx = s.ctx /\ x.error = s.error
         /\ x.first = IF s.first = None THEN context ELSE s.first
         /\ ShouldCut(s.block, val.row) \/ val.boundary =>
              x.block = <<val.row>> /\ x.out = Emit(s.out, context, s.block)
         /\ ~(ShouldCut(s.block, val.row) \/ val.boundary) =>
              x.block = Append(s.block, val.row) /\ x.out = s.out
<1>1. PICK v, block, ctx, first, out, err :
        s = [v |-> v, block |-> block, ctx |-> ctx, first |-> first, out |-> out, error |-> err]
  BY DEF IsState
<1>2. PICK b, f, o : /\ b = IF ShouldCut(block, val.row) \/ val.boundary THEN <<val.row>> ELSE Append(block, val.row)
                     /\ f = IF first = None THEN context ELSE first
                     /\ o = IF ShouldCut(block, val.row) \/ val.boundary THEN Emit(out, context, block) ELSE out
  OBVIOUS
<1>3. s.block = block /\ s.first = first /\ s.out = out
  BY <1>1
<1>4. Join(s, context, val) = [s EXCEPT !.v = val.v, !.first = f, !.out = o, !.block = b]
  BY <1>2, <1>3, Zenon DEF Join
<1>5. PICK s1 : s1 = [s EXCEPT !.v = val.v]
  OBVIOUS
<1>6. s1 = [v |-> val.v, block |-> block, ctx |-> ctx, first |-> first, out |-> out, error |-> err]
  BY <1>1, <1>5
<1>7. PICK s2 : s2 = [s1 EXCEPT !.first = f]
  OBVIOUS
<1>8. s2 = [v |-> val.v, block |-> block, ctx |-> ctx, first |-> f, out |-> out, error |-> err]
  BY <1>6, <1>7
<1>9. PICK s3 : s3 = [s2 EXCEPT !.out = o]
  OBVIOUS
<1>10. s3 = [v |-> val.v, block |-> block, ctx |-> ctx, first |-> f, out |-> o, error |-> err]
  BY <1>8, <1>9
<1>11. Join(s, context, val) = [s3 EXCEPT !.block = b]
  BY <1>4, <1>5, <1>7, <1>9
<1>12. Join(s, context, val) = [v |-> val.v, block |-> b, ctx |-> ctx, first |-> f, out |-> o, error |-> err]
  BY <1>10, <1>11
<1>13. IsSeq(o)
  BY <1>1, <1>2, EmitSeq DEF IsState
<1>14. IsState(Join(s, context, val))
  BY <1>12, <1>13 DEF IsState
<1> QED
  BY <1>1, <1>2, <1>12, <1>14

\* The stream of a context is that of the sources before it.
Fits(s, context) == s.first = None \/ s.first[1] = context[1]

\* A row is taken, or it is an error.
LEMMA SerialRowIs ==
  ASSUME NEW s, NEW context, NEW row, IsState(s), s.error = "none", IsRow(row),
         NEW x, x = SerialRow(s, context, row)
  PROVE  /\ IsState(x)
         /\ x.error = "none" <=> Fits(s, context) /\ Accepts(s.v, row)
         /\ x.error = "none" => x = Join(Enter(s, context), context, Validated(s.v, row))
<1>1. CASE ~Fits(s, context)
  <2>1. x = [s EXCEPT !.error = "stream"]
    BY <1>1, Zenon DEF SerialRow, Fits
  <2>2. IsState(x) /\ x.error = "stream"
    BY <2>1 DEF IsState
  <2> QED
    BY <1>1, <2>2
<1>2. CASE Fits(s, context) /\ ~Accepts(s.v, row)
  <2>1. PICK e : e = Enter(s, context)
    OBVIOUS
  <2>2. x = [e EXCEPT !.error = "order"]
    BY <1>2, <2>1, Zenon DEF SerialRow, Fits
  <2>3. IsState(e)
    BY <2>1, EnterIs
  <2>4. IsState(x) /\ x.error = "order"
    BY <2>2, <2>3 DEF IsState
  <2> QED
    BY <1>2, <2>4
<1>3. CASE Fits(s, context) /\ Accepts(s.v, row)
  <2>1. x = Join(Enter(s, context), context, Validated(s.v, row))
    BY <1>3, Zenon DEF SerialRow, Fits
  <2>2. IsState(Enter(s, context)) /\ Enter(s, context).error = "none"
    BY EnterIs
  <2>3. IsValidator(Validated(s.v, row).v)
    <3>1. Alike(s.v, s.v, Ids(row))
      BY DEF Alike, IsState
    <3> QED
      BY <3>1, ValidatedAlike DEF Alike
  <2>4. PICK e, val : e = Enter(s, context) /\ val = Validated(s.v, row)
    OBVIOUS
  <2>5. IsState(e) /\ e.error = "none" /\ IsValidator(val.v) /\ x = Join(e, context, val)
    BY <2>1, <2>2, <2>3, <2>4
  <2>6. IsState(x) /\ x.error = "none"
    BY <2>5, JoinIs
  <2> QED
    BY <1>3, <2>1, <2>6
<1> QED
  BY <1>1, <1>2, <1>3

\* After an error nothing more is done.
LEMMA SerialRowStops ==
  ASSUME NEW s, NEW context, NEW row, s.error # "none"
  PROVE  SerialRow(s, context, row) = s
BY DEF SerialRow

\* t, which began with the blocks before already written, does what s does in context.
Follows(s, t, before, context, T) ==
  /\ IsState(s) /\ IsState(t) /\ s.error = "none" /\ t.error = "none"
  /\ Alike(s.v, t.v, T) /\ IsSeq(before)
  /\ Enter(s, context).block = t.block /\ Enter(s, context).out = before \o t.out
  /\ t.ctx = context /\ t.first # None /\ t.first[1] = context[1]

\* A transform that follows another one still does after a row of the two.
LEMMA FollowsRow ==
  ASSUME NEW s, NEW t, NEW before, NEW context, NEW T, NEW row,
         Follows(s, t, before, context, T), IsRow(row), Ids(row) \subseteq T,
         NEW x, x = SerialRow(s, context, row), x.error = "none",
         NEW y, y = SerialRow(t, context, row)
  PROVE  Follows(x, y, before, context, T) /\ x.ctx = context
<1>1. /\ IsState(s) /\ IsState(t) /\ s.error = "none" /\ t.error = "none" /\ Alike(s.v, t.v, T)
      /\ t.ctx = context /\ t.first # None /\ t.first[1] = context[1] /\ IsSeq(before)
  BY DEF Follows
<1>2. IsState(x) /\ Fits(s, context) /\ Accepts(s.v, row)
      /\ x = Join(Enter(s, context), context, Validated(s.v, row))
  BY <1>1, SerialRowIs
<1>3. Fits(t, context) /\ Accepts(t.v, row)
  BY <1>1, <1>2 DEF Fits, Accepts, Alike, IsValidator
<1>4. IsState(y) /\ y.error = "none" /\ y = Join(Enter(t, context), context, Validated(t.v, row))
  BY <1>1, <1>3, SerialRowIs
<1>5. PICK v, w : v = Validated(s.v, row) /\ w = Validated(t.v, row)
  OBVIOUS
<1>6. Alike(v.v, w.v, T) /\ v.row = w.row /\ v.boundary = w.boundary
  BY <1>1, <1>5, ValidatedAlike
<1>7. PICK e, d : e = Enter(s, context) /\ d = Enter(t, context)
  OBVIOUS
<1>8. IsState(e) /\ IsState(d) /\ e.ctx = context /\ d.ctx = context /\ d.block = t.block /\ d.out = t.out /\ d.first = t.first
  BY <1>1, <1>7, EnterIs
<1>9. e.block = d.block /\ e.out = before \o d.out
  BY <1>7, <1>8 DEF Follows
<1>10. IsValidator(v.v) /\ IsValidator(w.v)
  BY <1>6 DEF Alike
<1>11. x = Join(e, context, v) /\ y = Join(d, context, w)
  BY <1>2, <1>4, <1>5, <1>7
<1>12. /\ x.v = v.v /\ x.ctx = context
       /\ y.v = w.v /\ y.ctx = context /\ y.first = t.first
  BY <1>1, <1>8, <1>10, <1>11, JoinIs
<1>13. /\ x.block = y.block
       /\ \/ (x.out = e.out /\ y.out = d.out)
          \/ (x.out = Emit(e.out, context, e.block) /\ y.out = Emit(d.out, context, e.block))
  <2>1. CASE ShouldCut(e.block, v.row) \/ v.boundary
    <3>1. ShouldCut(d.block, w.row) \/ w.boundary
      BY <1>6, <1>9, <2>1
    <3>2. x.block = <<v.row>> /\ x.out = Emit(e.out, context, e.block)
      BY <1>8, <1>10, <1>11, <2>1, JoinIs
    <3>3. y.block = <<w.row>> /\ y.out = Emit(d.out, context, d.block)
      BY <1>8, <1>10, <1>11, <3>1, JoinIs
    <3> QED
      BY <1>6, <1>9, <3>2, <3>3
  <2>2. CASE ~(ShouldCut(e.block, v.row) \/ v.boundary)
    <3>1. ~(ShouldCut(d.block, w.row) \/ w.boundary)
      BY <1>6, <1>9, <2>2
    <3>2. x.block = Append(e.block, v.row) /\ x.out = e.out
      BY <1>8, <1>10, <1>11, <2>2, JoinIs
    <3>3. y.block = Append(d.block, w.row) /\ y.out = d.out
      BY <1>8, <1>10, <1>11, <3>1, JoinIs
    <3>4. x.block = y.block
      BY <1>6, <1>9, <3>2, <3>3
    <3> QED
      BY <3>2, <3>3, <3>4
  <2> QED
    BY <2>1, <2>2
<1>14. x.out = before \o y.out
  <2>1. IsSeq(d.out)
    BY <1>8 DEF IsState
  <2>2. Emit(before \o d.out, context, e.block) = before \o Emit(d.out, context, e.block)
    <3>1. PICK q, rows : q = d.out /\ rows = e.block
      OBVIOUS
    <3>2. IsSeq(before) /\ IsSeq(q)
      BY <1>1, <2>1, <3>1
    <3>3. Emit(before \o q, context, rows) = before \o Emit(q, context, rows)
      BY <3>2, EmitAfter
    <3> QED
      BY <3>1, <3>3, Zenon
  <2> QED
    BY <1>9, <1>13, <2>2, Zenon
<1>15. Enter(x, context).block = x.block /\ Enter(x, context).out = x.out
  BY <1>2, <1>12, EnterIs
<1> QED
  BY <1>1, <1>2, <1>4, <1>6, <1>12, <1>13, <1>14, <1>15 DEF Follows

-----------------------------------------------------------------------------
(* The rows of a source                                                     *)

AreRows(rs, n) == \A k \in 1..n : IsRow(rs[k])

\* A state is one, and no error is ever taken back.
LEMMA RowsState ==
  ASSUME NEW s, NEW context, NEW rs, NEW n \in Nat, IsState(s), AreRows(rs, n)
  PROVE  /\ IsState(Rows(s, context, rs, n))
         /\ s.error # "none" => Rows(s, context, rs, n) = s
<1> DEFINE A == {k \in Nat : k <= n => /\ IsState(Rows(s, context, rs, k))
                                       /\ s.error # "none" => Rows(s, context, rs, k) = s}
<1>1. 0 \in A
  BY RowsFirst
<1>2. ASSUME NEW k \in Nat, k \in A  PROVE k + 1 \in A
  <2> SUFFICES ASSUME k + 1 <= n
               PROVE  /\ IsState(Rows(s, context, rs, k + 1))
                      /\ s.error # "none" => Rows(s, context, rs, k + 1) = s
    OBVIOUS
  <2>1. PICK x, y, row : x = Rows(s, context, rs, k) /\ y = Rows(s, context, rs, k + 1) /\ row = rs[k + 1]
    OBVIOUS
  <2>2. IsState(x) /\ (s.error # "none" => x = s) /\ IsRow(row)
    BY <1>2, <2>1 DEF AreRows
  <2>3. y = SerialRow(x, context, row)
    BY <2>1, RowsStep
  <2>4. CASE x.error = "none"
    BY <2>1, <2>2, <2>3, <2>4, SerialRowIs
  <2>5. CASE x.error # "none"
    BY <2>1, <2>2, <2>3, <2>5, SerialRowStops
  <2> QED
    BY <2>4, <2>5
<1>3. n \in A
  <2> HIDE DEF A
  <2> QED
    BY <1>1, <1>2, Induction
<1> QED
  BY <1>3

\* t follows s through rows that s takes.
LEMMA RowsFollow ==
  ASSUME NEW s, NEW t, NEW before, NEW context, NEW T, NEW rs, NEW n \in Nat,
         Follows(s, t, before, context, T), AreRows(rs, n), \A k \in 1..n : Ids(rs[k]) \subseteq T,
         Rows(s, context, rs, n).error = "none"
  PROVE  /\ Follows(Rows(s, context, rs, n), Rows(t, context, rs, n), before, context, T)
         /\ n > 0 => Rows(s, context, rs, n).ctx = context
<1> DEFINE A == {k \in Nat : k <= n /\ Rows(s, context, rs, k).error = "none" =>
                    /\ Follows(Rows(s, context, rs, k), Rows(t, context, rs, k), before, context, T)
                    /\ k > 0 => Rows(s, context, rs, k).ctx = context}
<1>1. 0 \in A
  BY RowsFirst
<1>2. ASSUME NEW k \in Nat, k \in A  PROVE k + 1 \in A
  <2> SUFFICES ASSUME k + 1 <= n, Rows(s, context, rs, k + 1).error = "none"
               PROVE  /\ Follows(Rows(s, context, rs, k + 1), Rows(t, context, rs, k + 1), before, context, T)
                      /\ Rows(s, context, rs, k + 1).ctx = context
    OBVIOUS
  <2>1. PICK a, b, x, y, row : /\ a = Rows(s, context, rs, k) /\ b = Rows(t, context, rs, k)
                               /\ x = Rows(s, context, rs, k + 1) /\ y = Rows(t, context, rs, k + 1)
                               /\ row = rs[k + 1]
    OBVIOUS
  <2>2. x = SerialRow(a, context, row) /\ y = SerialRow(b, context, row)
    BY <2>1, RowsStep
  <2>3. a.error = "none"
    BY <2>1, <2>2, SerialRowStops
  <2>4. Follows(a, b, before, context, T)
    BY <1>2, <2>1, <2>3
  <2>5. IsRow(row) /\ Ids(row) \subseteq T
    BY <2>1 DEF AreRows
  <2>6. x.error = "none"
    BY <2>1
  <2>7. Follows(x, y, before, context, T) /\ x.ctx = context
    BY <2>2, <2>4, <2>5, <2>6, FollowsRow
  <2> QED
    BY <2>1, <2>7
<1>3. n \in A
  <2> HIDE DEF A
  <2> QED
    BY <1>1, <1>2, Induction
<1> QED
  BY <1>3

\* A validator that has seen nothing yet
Blank == [ok |-> TRUE, v |-> NewValidator(Unlimited)]
ResetsTo(rs, n) == UNION {Resets(rs[k].quality) : k \in 1..n}

\* What pass one finds out about the first n rows of a source, and what the serial transform does
\* with them
Summed(s, context, rs, n) ==
  LET u == Checked(Blank, rs, n)
      x == Rows(s, context, rs, n)
  IN  /\ IsValidator(u.v)
      /\ x.error = "none" <=> u.ok /\ (n > 0 => rs[1].seq > s.v.seq)
      /\ x.error = "none" =>
           /\ Beyond(x.v, u.v, s.v.previous, ResetsTo(rs, n))
           /\ \A k \in 1..n : Ids(rs[k]) \subseteq ResetsTo(rs, n) \cup DOMAIN u.v.previous
           /\ x.first = (IF n > 0 /\ s.first = None THEN context ELSE s.first)
           /\ n > 0 => x.v.seq = rs[n].seq /\ u.v.seq = rs[n].seq /\ x.ctx = context

\* Where an offline check begins
LEMMA BlankIs == IsValidator(Blank.v) /\ Blank.ok /\ Blank.v.seq = 0 /\ Blank.v.previous = Nothing /\ DOMAIN Nothing = {}
BY DEF Blank, NewValidator, IsValidator, Nothing, Never

\* A row that is accepted is checked as it is validated, and after one that is not nothing is.
LEMMA OfflineRowIs ==
  ASSUME NEW a, NEW row, NEW b, b = OfflineRow(a, row), a = [ok |-> a.ok, v |-> a.v]
  PROVE  /\ b = [ok |-> b.ok, v |-> b.v]
         /\ a.ok /\ Accepts(a.v, row) => b.ok /\ b.v = Validated(a.v, row).v
         /\ ~(a.ok /\ Accepts(a.v, row)) => ~b.ok /\ b.v = a.v
BY DEF OfflineRow

\* What the serial transform makes of one more row, when the offline check goes on
LEMMA SummedRow ==
  ASSUME NEW s, NEW context, NEW rs, NEW n \in Nat, AreRows(rs, n + 1), context # None,
         IsState(s), s.error = "none", Fits(s, context), Summed(s, context, rs, n),
         Checked(Blank, rs, n) = [ok |-> Checked(Blank, rs, n).ok, v |-> Checked(Blank, rs, n).v]
  PROVE  Summed(s, context, rs, n + 1)
<1>1. PICK x, u, y, w, row : /\ x = Rows(s, context, rs, n) /\ u = Checked(Blank, rs, n)
                             /\ y = Rows(s, context, rs, n + 1) /\ w = Checked(Blank, rs, n + 1)
                             /\ row = rs[n + 1]
  OBVIOUS
<1>2. y = SerialRow(x, context, row) /\ w = OfflineRow(u, row)
  BY <1>1, RowsStep, CheckedStep
<1>3. IsRow(row) /\ n + 1 \in 1..(n + 1)
  BY <1>1 DEF AreRows
<1>4. AreRows(rs, n)
  BY DEF AreRows
<1>5. IsState(x)
  BY <1>1, <1>4, RowsState
<1>6. /\ IsValidator(u.v)
      /\ x.error = "none" <=> u.ok /\ (n > 0 => rs[1].seq > s.v.seq)
      /\ x.error = "none" =>
           /\ Beyond(x.v, u.v, s.v.previous, ResetsTo(rs, n))
           /\ \A k \in 1..n : Ids(rs[k]) \subseteq ResetsTo(rs, n) \cup DOMAIN u.v.previous
           /\ x.first = (IF n > 0 /\ s.first = None THEN context ELSE s.first)
           /\ n > 0 => x.v.seq = rs[n].seq /\ u.v.seq = rs[n].seq /\ x.ctx = context
  BY <1>1 DEF Summed
<1>7. /\ u.ok /\ Accepts(u.v, row) => w.ok /\ w.v = Validated(u.v, row).v
      /\ ~(u.ok /\ Accepts(u.v, row)) => ~w.ok /\ w.v = u.v
  BY <1>1, <1>2, OfflineRowIs
<1>8. IsValidator(w.v)
  <2>1. IsValidator(Validated(u.v, row).v)
    <3>1. Alike(u.v, u.v, Ids(row))
      BY <1>6 DEF Alike
    <3> QED
      BY <1>3, <3>1, ValidatedAlike DEF Alike
  <2> QED
    BY <1>6, <1>7, <2>1
<1>9. CASE x.error # "none"
  <2>1. y.error # "none"
    BY <1>2, <1>9, SerialRowStops
  <2>2. ~(w.ok /\ rs[1].seq > s.v.seq)
    <3>1. CASE ~u.ok
      BY <1>7, <3>1
    <3>2. CASE n > 0 /\ ~(rs[1].seq > s.v.seq)
      BY <3>2
    <3> QED
      BY <1>6, <1>9, <3>1, <3>2
  <2> QED
    BY <1>1, <1>8, <2>1, <2>2 DEF Summed
<1>10. CASE x.error = "none"
  <2>1. Fits(x, context)
    BY <1>6, <1>10 DEF Fits
  <2>2. /\ y.error = "none" <=> Accepts(x.v, row)
        /\ y.error = "none" => y = Join(Enter(x, context), context, Validated(x.v, row))
    BY <1>2, <1>3, <1>5, <1>10, <2>1, SerialRowIs
  <2>3. Accepts(x.v, row) <=> Accepts(u.v, row) /\ rs[1].seq > s.v.seq
    <3>1. IsValidator(x.v) /\ IsValidator(s.v)
      BY <1>5 DEF IsState
    <3>2. CASE n = 0
      <4>1. x = s /\ u = Blank /\ row = rs[1]
        BY <1>1, <3>2, RowsFirst, CheckedFirst
      <4>2. u.v.seq = 0 /\ u.v.stamp = 0 /\ x.v.stamp = x.v.seq
        BY <3>1, <4>1, BlankIs DEF IsValidator
      <4>3. row.seq \in Nat \ {0} /\ row.stamp = row.seq /\ x.v.seq \in Nat
        BY <1>3, <3>1 DEF IsRow, IsValidator
      <4> QED
        BY <4>1, <4>2, <4>3 DEF Accepts
    <3>3. CASE n > 0
      <4>1. x.v.seq = u.v.seq /\ rs[1].seq > s.v.seq
        BY <1>6, <1>10, <3>3
      <4>2. x.v.stamp = u.v.stamp
        BY <1>6, <3>1, <4>1 DEF IsValidator
      <4> QED
        BY <4>1, <4>2 DEF Accepts
    <3> QED
      BY <3>2, <3>3
  <2>4. y.error = "none" <=> w.ok /\ rs[1].seq > s.v.seq
    BY <1>6, <1>7, <1>10, <2>2, <2>3
  <2>5. ASSUME y.error = "none"
        PROVE  /\ Beyond(y.v, w.v, s.v.previous, ResetsTo(rs, n + 1))
               /\ \A k \in 1..(n + 1) : Ids(rs[k]) \subseteq ResetsTo(rs, n + 1) \cup DOMAIN w.v.previous
               /\ y.first = (IF s.first = None THEN context ELSE s.first)
               /\ y.v.seq = row.seq /\ w.v.seq = row.seq /\ y.ctx = context
    <3>1. PICK xv, uv, yv, val : /\ xv = x.v /\ uv = u.v /\ val = Validated(x.v, row) /\ yv = val.v
      OBVIOUS
    <3>2. w.v = Validated(uv, row).v /\ y = Join(Enter(x, context), context, val)
      <4>1. u.ok /\ Accepts(u.v, row)
        BY <1>6, <1>10, <2>2, <2>3, <2>5
      <4>2. w.v = Validated(u.v, row).v
        BY <1>7, <4>1
      <4> QED
        BY <2>2, <2>5, <3>1, <4>2
    <3>3. IsValidator(xv) /\ IsValidator(uv) /\ Beyond(xv, uv, s.v.previous, ResetsTo(rs, n))
      BY <1>5, <1>6, <1>10, <3>1 DEF IsState
    <3>4. PICK before, R, wv : before = s.v.previous /\ R = ResetsTo(rs, n) /\ wv = w.v
      OBVIOUS
    <3>5. /\ IsValidator(yv) /\ yv.seq = row.seq /\ wv.seq = row.seq
          /\ Beyond(yv, wv, before, R \cup Resets(row.quality))
          /\ DOMAIN wv.previous = (DOMAIN uv.previous \ Resets(row.quality)) \cup Ids(row)
      <4>1. IsValidator(xv) /\ IsValidator(uv) /\ Beyond(xv, uv, before, R) /\ IsRow(row)
        BY <1>3, <3>3, <3>4
      <4>2. yv = Validated(xv, row).v /\ wv = Validated(uv, row).v
        BY <3>1, <3>2, <3>4
      <4>3. Beyond(yv, wv, before, R \cup Resets(row.quality))
        <5>1. Further(xv, uv, row, before, R)
          BY <4>1, ValidatedBeyond
        <5> QED
          BY <4>2, <5>1 DEF Further
      <4>4. /\ IsValidator(yv) /\ IsValidator(wv) /\ yv.seq = row.seq /\ wv.seq = row.seq
            /\ DOMAIN wv.previous = (DOMAIN uv.previous \ Resets(row.quality)) \cup Ids(row)
        BY <4>1, <4>2, ValidatedKnows
      <4> QED
        BY <4>3, <4>4
    <3>6. ResetsTo(rs, n + 1) = R \cup Resets(row.quality)
      <4>1. 1..(n + 1) = (1..n) \cup {n + 1}
        OBVIOUS
      <4> QED
        BY <1>1, <3>4, <4>1 DEF ResetsTo
    <3>7. ASSUME NEW k \in 1..(n + 1)
          PROVE  Ids(rs[k]) \subseteq ResetsTo(rs, n + 1) \cup DOMAIN wv.previous
      <4>1. CASE k = n + 1
        BY <1>1, <3>5, <4>1
      <4>2. CASE k \in 1..n
        <5>1. Ids(rs[k]) \subseteq R \cup DOMAIN uv.previous
          BY <1>6, <1>10, <3>1, <3>4, <4>2
        <5> QED
          BY <3>5, <3>6, <5>1
      <4> QED
        BY <4>1, <4>2
    <3>8. y.v = yv /\ y.ctx = context /\ y.first = (IF s.first = None THEN context ELSE s.first)
      <4>1. PICK e : e = Enter(x, context)
        OBVIOUS
      <4>2. IsState(e) /\ e.first = x.first /\ e.ctx = context
        BY <1>5, <4>1, EnterIs
      <4>3. y = Join(e, context, val) /\ IsValidator(val.v) /\ yv = val.v
        BY <3>1, <3>2, <3>5, <4>1
      <4>4. y.v = val.v /\ y.ctx = e.ctx /\ y.first = IF e.first = None THEN context ELSE e.first
        BY <4>2, <4>3, JoinIs
      <4> QED
        BY <1>6, <1>10, <4>2, <4>3, <4>4
    <3> QED
      BY <3>4, <3>5, <3>6, <3>7, <3>8
  <2> QED
    BY <1>1, <1>8, <2>4, <2>5 DEF Summed
<1> QED
  BY <1>9, <1>10

\* What pass one finds out about a source is what the serial transform does with it.
LEMMA AllSummed ==
  ASSUME NEW s, NEW context, NEW rs, NEW n \in Nat, AreRows(rs, n), context # None,
         IsState(s), s.error = "none", Fits(s, context)
  PROVE  Summed(s, context, rs, n)
<1> DEFINE A == {k \in Nat : k <= n => /\ Summed(s, context, rs, k)
                                       /\ Checked(Blank, rs, k) = [ok |-> Checked(Blank, rs, k).ok, v |-> Checked(Blank, rs, k).v]}
<1>1. 0 \in A
  <2>1. Rows(s, context, rs, 0) = s /\ Checked(Blank, rs, 0) = Blank
    BY RowsFirst, CheckedFirst
  <2>2. 1..0 = {} /\ ResetsTo(rs, 0) = {}
    BY DEF ResetsTo
  <2>3. Beyond(s.v, Blank.v, s.v.previous, {})
    <3>1. PICK f : f = s.v.previous
      OBVIOUS
    <3>2. f = [i \in DOMAIN f |-> f[i]]
      BY <3>1 DEF IsState, IsValidator
    <3>3. f = Over(Keep(f, DOMAIN f \ {}), Nothing)
      BY <3>2, BlankIs DEF Over, Keep
    <3> QED
      BY <3>1, <3>3, BlankIs DEF Beyond
  <2>4. Blank = [ok |-> Blank.ok, v |-> Blank.v]
    BY DEF Blank
  <2>5. Summed(s, context, rs, 0)
    BY <2>1, <2>2, <2>3, BlankIs DEF Summed
  <2> QED
    BY <2>1, <2>4, <2>5
<1>2. ASSUME NEW k \in Nat, k \in A  PROVE k + 1 \in A
  <2> SUFFICES ASSUME k + 1 <= n
               PROVE  /\ Summed(s, context, rs, k + 1)
                      /\ Checked(Blank, rs, k + 1) = [ok |-> Checked(Blank, rs, k + 1).ok, v |-> Checked(Blank, rs, k + 1).v]
    OBVIOUS
  <2>1. AreRows(rs, k + 1)
    BY DEF AreRows
  <2>2. Checked(Blank, rs, k + 1) = OfflineRow(Checked(Blank, rs, k), rs[k + 1])
    BY CheckedStep
  <2>3. PICK u, w : u = Checked(Blank, rs, k) /\ w = Checked(Blank, rs, k + 1)
    OBVIOUS
  <2>4. w = [ok |-> w.ok, v |-> w.v]
    BY <1>2, <2>2, <2>3, OfflineRowIs
  <2>5. Summed(s, context, rs, k + 1)
    BY <1>2, <2>1, SummedRow
  <2> QED
    BY <2>3, <2>4, <2>5
<1>3. n \in A
  <2> HIDE DEF A
  <2> QED
    BY <1>1, <1>2, Induction
<1> QED
  BY <1>3

-----------------------------------------------------------------------------
(* A source through the serial transform                                    *)

IsSource(f) ==
  /\ f = [context |-> f.context, rows |-> f.rows] /\ f.context # None
  /\ IsSeq(f.rows) /\ AreRows(f.rows, Len(f.rows))

\* The rows of a source, as the fold the lemmas are about
LEMMA SourceRowsIs ==
  ASSUME NEW s, NEW context, NEW rows, IsSeq(rows)
  PROVE  SourceRows(s, context, rows) = Rows(s, context, rows, Len(rows))
<1>1. rows = [i \in 1..Len(rows) |-> rows[i]]
  BY DEF IsSeq
<1>2. FoldLeft(LAMBDA a, row : SerialRow(a, context, row), s, [i \in 1..Len(rows) |-> rows[i]]) = Rows(s, context, rows, Len(rows))
  BY Zenon DEF Rows
<1> QED
  BY <1>1, <1>2, Zenon DEF SourceRows

\* The offline check of the rows, as the fold the lemmas are about
LEMMA OfflineIs ==
  ASSUME NEW rows, IsSeq(rows)
  PROVE  Offline(NewValidator(Unlimited), rows) = Checked(Blank, rows, Len(rows))
<1>1. rows = [i \in 1..Len(rows) |-> rows[i]]
  BY DEF IsSeq
<1>2. FoldLeft(LAMBDA a, row : OfflineRow(a, row), Blank, [i \in 1..Len(rows) |-> rows[i]]) = Checked(Blank, rows, Len(rows))
  BY Zenon DEF Checked
<1> QED
  BY <1>1, <1>2, Zenon DEF Offline, Blank

\* The summary of a source
End(f) == Checked(Blank, f.rows, Len(f.rows))
All(f) == ResetsTo(f.rows, Len(f.rows))
Suits(s, f) == Fits(s, f.context) /\ End(f).ok /\ (Len(f.rows) > 0 => f.rows[1].seq > s.v.seq)

\* The end of a source only counts when nothing has been written yet.
LEMMA EndSourceIs ==
  ASSUME NEW s, NEW context, IsState(s), NEW x, x = EndSource(s, context)
  PROVE  /\ IsState(x) /\ x.v = s.v /\ x.block = s.block /\ x.out = s.out
         /\ s.error # "none" => x = s
         /\ s.error = "none" => /\ x.error = "none" <=> Fits(s, context)
                                /\ Fits(s, context) /\ s.first # None => x = s
                                /\ s.first = None => x.first = context /\ x.ctx = context
<1>1. CASE s.error # "none"
  BY <1>1 DEF EndSource
<1>2. CASE s.error = "none" /\ ~Fits(s, context)
  <2>1. x = [s EXCEPT !.error = "stream"]
    BY <1>2, Zenon DEF EndSource, Fits
  <2> QED
    BY <1>2, <2>1 DEF IsState, Fits
<1>3. CASE s.error = "none" /\ Fits(s, context) /\ s.first # None
  BY <1>3 DEF EndSource, Fits
<1>4. CASE s.error = "none" /\ s.first = None
  <2>1. x = [s EXCEPT !.first = context, !.ctx = context]
    BY <1>4, Zenon DEF EndSource
  <2>2. PICK u : u = [s EXCEPT !.first = context]
    OBVIOUS
  <2>3. u = [v |-> s.v, block |-> s.block, ctx |-> s.ctx, first |-> context, out |-> s.out, error |-> s.error]
    BY <2>2 DEF IsState
  <2>4. x = [u EXCEPT !.ctx = context]
    BY <2>1, <2>2
  <2>5. x = [v |-> s.v, block |-> s.block, ctx |-> context, first |-> context, out |-> s.out, error |-> s.error]
    BY <2>3, <2>4
  <2> QED
    BY <1>4, <2>5 DEF IsState, Fits
<1> QED
  BY <1>1, <1>2, <1>3, <1>4 DEF Fits

\* No row of another stream is taken.
LEMMA RowsRefused ==
  ASSUME NEW s, NEW context, NEW rs, NEW n \in Nat, AreRows(rs, n), n > 0,
         IsState(s), s.error = "none", ~Fits(s, context)
  PROVE  Rows(s, context, rs, n).error # "none"
<1> DEFINE A == {k \in Nat : k + 1 <= n => Rows(s, context, rs, k + 1).error # "none"}
<1>1. 0 \in A
  <2>1. Rows(s, context, rs, 0) = s /\ Rows(s, context, rs, 0 + 1) = SerialRow(Rows(s, context, rs, 0), context, rs[0 + 1])
    BY RowsFirst, RowsStep
  <2>2. IsRow(rs[1])
    BY DEF AreRows
  <2>3. PICK x : x = SerialRow(s, context, rs[1])
    OBVIOUS
  <2>4. x.error # "none"
    BY <2>2, <2>3, SerialRowIs
  <2> QED
    BY <2>1, <2>3, <2>4
<1>2. ASSUME NEW k \in Nat, k \in A  PROVE k + 1 \in A
  <2> SUFFICES ASSUME k + 2 <= n
               PROVE  Rows(s, context, rs, (k + 1) + 1).error # "none"
    OBVIOUS
  <2>1. Rows(s, context, rs, k + 1).error # "none"
    BY <1>2
  <2>2. PICK j, x, y : j = k + 1 /\ x = Rows(s, context, rs, j) /\ y = Rows(s, context, rs, j + 1)
    OBVIOUS
  <2>3. y = SerialRow(x, context, rs[j + 1])
    BY <2>2, RowsStep
  <2> QED
    BY <2>1, <2>2, <2>3, SerialRowStops
<1>3. n - 1 \in A
  <2> HIDE DEF A
  <2>1. n - 1 \in Nat
    OBVIOUS
  <2> QED
    BY <1>1, <1>2, <2>1, Induction
<1>4. (n - 1) + 1 = n
  OBVIOUS
<1> QED
  BY <1>3, <1>4

\* What the serial transform does with a source, in terms of its summary
Taken(s, f) ==
  LET x == SerialSource(s, f)
      n == Len(f.rows)
  IN  /\ IsState(x)
      /\ x.error = "none" <=> Suits(s, f)
      /\ x.error = "none" =>
           /\ Beyond(x.v, End(f).v, s.v.previous, All(f))
           /\ \A k \in 1..n : Ids(f.rows[k]) \subseteq All(f) \cup DOMAIN End(f).v.previous
           /\ x.first = (IF s.first = None THEN f.context ELSE s.first)
           /\ n > 0 => /\ x = Rows(s, f.context, f.rows, n)
                       /\ x.v.seq = f.rows[n].seq /\ x.ctx = f.context
           /\ n = 0 => /\ x.v = s.v /\ x.block = s.block /\ x.out = s.out
                       /\ x.ctx = IF s.first = None THEN f.context ELSE s.ctx

\* What the serial transform makes of one more source
LEMMA SourceTaken ==
  ASSUME NEW s, NEW f, IsState(s), s.error = "none", IsSource(f)
  PROVE  Taken(s, f)
<1>1. PICK x, y, context, rows, n : /\ x = SerialSource(s, f) /\ y = Rows(s, context, rows, n)
                                    /\ context = f.context /\ rows = f.rows /\ n = Len(rows)
  OBVIOUS
<1>2. n \in Nat /\ IsSeq(rows) /\ AreRows(rows, n) /\ context # None
  BY <1>1 DEF IsSource, IsSeq
<1>3. x = EndSource(y, context)
  BY <1>1, <1>2, SourceRowsIs DEF SerialSource
<1>4. IsState(y)
  BY <1>1, <1>2, RowsState
<1>5. IsState(x)
  BY <1>3, <1>4, EndSourceIs
<1>6. PICK u : u = Checked(Blank, rows, n)
  OBVIOUS
<1>7. u = End(f) /\ All(f) = ResetsTo(rows, n)
  BY <1>1, <1>6 DEF End, All
<1>8. CASE Fits(s, context)
  <2>1. Summed(s, context, rows, n)
    BY <1>2, <1>8, AllSummed
  <2>2. /\ y.error = "none" <=> u.ok /\ (n > 0 => rows[1].seq > s.v.seq)
        /\ y.error = "none" =>
           /\ Beyond(y.v, u.v, s.v.previous, ResetsTo(rows, n))
           /\ \A k \in 1..n : Ids(rows[k]) \subseteq ResetsTo(rows, n) \cup DOMAIN u.v.previous
           /\ y.first = (IF n > 0 /\ s.first = None THEN context ELSE s.first)
           /\ n > 0 => y.v.seq = rows[n].seq /\ u.v.seq = rows[n].seq /\ y.ctx = context
    BY <1>1, <1>6, <2>1, Zenon DEF Summed
  <2>3. CASE y.error # "none"
    <3>1. x.error # "none"
      BY <1>3, <1>4, <2>3, EndSourceIs
    <3>2. ~Suits(s, f)
      BY <1>1, <1>7, <2>2, <2>3 DEF Suits
    <3> QED
      BY <1>1, <1>5, <3>1, <3>2 DEF Taken
  <2>4. CASE y.error = "none"
    <3>1. Fits(y, context)
      BY <1>8, <2>2, <2>4 DEF Fits
    <3>2. x.error = "none" /\ x.v = y.v /\ x.block = y.block /\ x.out = y.out
      BY <1>3, <1>4, <2>4, <3>1, EndSourceIs
    <3>3. Suits(s, f)
      BY <1>1, <1>7, <1>8, <2>2, <2>4 DEF Suits
    <3>4. x.first = (IF s.first = None THEN context ELSE s.first)
      <4>1. CASE y.first = None
        <5>1. x.first = context
          BY <1>3, <1>4, <2>4, <4>1, EndSourceIs
        <5>2. s.first = None
          BY <1>2, <2>2, <2>4, <4>1
        <5> QED
          BY <5>1, <5>2
      <4>2. CASE y.first # None
        <5>1. x = y
          BY <1>3, <1>4, <2>4, <3>1, <4>2, EndSourceIs
        <5> QED
          BY <2>2, <2>4, <4>2, <5>1
      <4> QED
        BY <4>1, <4>2
    <3>5. ASSUME n > 0
          PROVE  x = y /\ x.v.seq = rows[n].seq /\ x.ctx = context
      <4>1. y.first # None
        BY <1>2, <2>2, <2>4, <3>5
      <4>2. x = y
        BY <1>3, <1>4, <2>4, <3>1, <4>1, EndSourceIs
      <4> QED
        BY <2>2, <2>4, <3>5, <4>2
    <3>6. ASSUME n = 0
          PROVE  x.v = s.v /\ x.block = s.block /\ x.out = s.out /\ x.ctx = IF s.first = None THEN context ELSE s.ctx
      <4>1. y = s
        BY <1>1, <3>6, RowsFirst
      <4>2. CASE s.first = None
        <5>1. x.ctx = context
          BY <1>3, <1>4, <2>4, <4>1, <4>2, EndSourceIs
        <5> QED
          BY <3>2, <4>1, <4>2, <5>1
      <4>3. CASE s.first # None
        <5>1. x = s
          BY <1>3, <1>4, <2>4, <3>1, <4>1, <4>3, EndSourceIs
        <5> QED
          BY <4>3, <5>1
      <4> QED
        BY <4>2, <4>3
    <3>7. /\ Beyond(x.v, End(f).v, s.v.previous, All(f))
          /\ \A k \in 1..n : Ids(f.rows[k]) \subseteq All(f) \cup DOMAIN End(f).v.previous
      BY <1>1, <1>7, <2>2, <2>4, <3>2
    <3> QED
      BY <1>1, <1>5, <3>2, <3>3, <3>4, <3>5, <3>6, <3>7 DEF Taken
  <2> QED
    BY <2>3, <2>4
<1>9. CASE ~Fits(s, context)
  <2>1. ~Suits(s, f)
    BY <1>1, <1>9 DEF Suits
  <2>2. x.error # "none"
    <3>1. CASE n = 0
      <4>1. y = s
        BY <1>1, <3>1, RowsFirst
      <4> QED
        BY <1>3, <1>9, <4>1, EndSourceIs
    <3>2. CASE n > 0
      <4>1. y.error # "none"
        BY <1>1, <1>2, <1>9, <3>2, RowsRefused
      <4> QED
        BY <1>3, <1>4, <4>1, EndSourceIs
    <3> QED
      BY <1>2, <3>1, <3>2
  <2> QED
    BY <1>1, <1>5, <2>1, <2>2 DEF Taken
<1> QED
  BY <1>8, <1>9

\* After an error no source is taken.
LEMMA SourceStops ==
  ASSUME NEW s, NEW f, IsState(s), s.error # "none", IsSource(f)
  PROVE  SerialSource(s, f) = s
<1>1. Len(f.rows) \in Nat /\ IsSeq(f.rows) /\ AreRows(f.rows, Len(f.rows))
  BY DEF IsSource, IsSeq
<1>2. SourceRows(s, f.context, f.rows) = s
  BY <1>1, SourceRowsIs, RowsState
<1> QED
  BY <1>2 DEF SerialSource, EndSource

-----------------------------------------------------------------------------
(* The sources, one after the other                                         *)

AreSources(fs, n) == \A i \in 1..n : IsSource(fs[i])

\* Nothing is open before the stream is fixed.
Opens(s) == s.first = None => s.block = <<>>

\* Where the serial transform begins
LEMMA NoSerialIs == IsState(NoSerial) /\ NoSerial.error = "none" /\ NoSerial.first = None /\ Opens(NoSerial)
                    /\ NoSerial.v = NewValidator(Unlimited) /\ NoSerial.out = <<>> /\ NoSerial.block = <<>>
<1>1. IsValidator(NewValidator(Unlimited))
  BY BlankIs DEF Blank
<1> QED
  BY <1>1, EmptyIsSeq DEF NoSerial, IsState, Opens

\* Without an error, the serial transform has opened an archive when it has taken a source.
LEMMA SourcesState ==
  ASSUME NEW fs, NEW n \in Nat, AreSources(fs, n)
  PROVE  /\ IsState(Sources(fs, n))
         /\ Sources(fs, n).error = "none" => Opens(Sources(fs, n)) /\ (n > 0 => Sources(fs, n).first # None)
<1> DEFINE A == {k \in Nat : k <= n => /\ IsState(Sources(fs, k))
                                       /\ Sources(fs, k).error = "none" => /\ Opens(Sources(fs, k))
                                                                           /\ k > 0 => Sources(fs, k).first # None}
<1>1. 0 \in A
  BY SourcesFirst, NoSerialIs
<1>2. ASSUME NEW k \in Nat, k \in A  PROVE k + 1 \in A
  <2> SUFFICES ASSUME k + 1 <= n
               PROVE  /\ IsState(Sources(fs, k + 1))
                      /\ Sources(fs, k + 1).error = "none" => /\ Opens(Sources(fs, k + 1))
                                                              /\ Sources(fs, k + 1).first # None
    OBVIOUS
  <2>1. PICK s, f, x : s = Sources(fs, k) /\ f = fs[k + 1] /\ x = Sources(fs, k + 1)
    OBVIOUS
  <2>2. x = SerialSource(s, f)
    BY <2>1, SourcesStep
  <2>3. IsState(s) /\ IsSource(f)
    BY <1>2, <2>1 DEF AreSources
  <2>4. CASE s.error # "none"
    BY <2>1, <2>2, <2>3, <2>4, SourceStops
  <2>5. CASE s.error = "none"
    <3>1. Taken(s, f)
      BY <2>3, <2>5, SourceTaken
    <3>2. IsState(x) /\ (x.error = "none" => x.first = (IF s.first = None THEN f.context ELSE s.first))
      BY <2>2, <3>1 DEF Taken
    <3>3. f.context # None
      BY <2>3 DEF IsSource
    <3> QED
      BY <2>1, <3>2, <3>3 DEF Opens
  <2> QED
    BY <2>4, <2>5
<1>3. n \in A
  <2> HIDE DEF A
  <2> QED
    BY <1>1, <1>2, Induction
<1> QED
  BY <1>3

\* What one source has failed, those after it do not mend.
LEMMA SourcesStop ==
  ASSUME NEW fs, NEW n \in Nat, AreSources(fs, n), NEW k \in 0..n, Sources(fs, k).error # "none"
  PROVE  Sources(fs, n).error # "none"
<1> DEFINE A == {j \in Nat : k + j <= n => Sources(fs, k + j).error # "none"}
<1>1. 0 \in A
  OBVIOUS
<1>2. ASSUME NEW j \in Nat, j \in A  PROVE j + 1 \in A
  <2> SUFFICES ASSUME k + (j + 1) <= n
               PROVE  Sources(fs, k + (j + 1)).error # "none"
    OBVIOUS
  <2>1. PICK i : i = k + j
    OBVIOUS
  <2>2. i \in Nat /\ i + 1 \in 1..n /\ i <= n /\ k + (j + 1) = i + 1
    BY <2>1
  <2>3. PICK s, f, x : s = Sources(fs, i) /\ f = fs[i + 1] /\ x = Sources(fs, i + 1)
    OBVIOUS
  <2>4. x = SerialSource(s, f)
    BY <2>2, <2>3, SourcesStep
  <2>5. s.error # "none"
    BY <1>2, <2>1, <2>2, <2>3
  <2>6. AreSources(fs, i) /\ IsSource(f)
    BY <2>2, <2>3 DEF AreSources
  <2>7. IsState(s)
    BY <2>2, <2>3, <2>6, SourcesState
  <2> QED
    BY <2>2, <2>3, <2>4, <2>5, <2>6, <2>7, SourceStops
<1>3. n - k \in A
  <2> HIDE DEF A
  <2>1. n - k \in Nat
    OBVIOUS
  <2> QED
    BY <1>1, <1>2, <2>1, Induction
<1>4. k + (n - k) = n
  OBVIOUS
<1> QED
  BY <1>3, <1>4

\* Only the sources up to n matter.
LEMMA SourcesSame ==
  ASSUME NEW fs, NEW gs, NEW n \in Nat, \A i \in 1..n : fs[i] = gs[i]
  PROVE  Sources(fs, n) = Sources(gs, n)
<1>1. [i \in 1..n |-> fs[i]] = [i \in 1..n |-> gs[i]]
  OBVIOUS
<1> QED
  BY <1>1, Zenon DEF Sources

-----------------------------------------------------------------------------
(* A group replayed from its seed                                           *)

\* t follows s through a source.
LEMMA FollowsSource ==
  ASSUME NEW s, NEW t, NEW before, NEW context, NEW T, NEW f,
         Follows(s, t, before, context, T), IsSource(f), Opens(s),
         Len(f.rows) > 0 => f.context = context, \A k \in 1..Len(f.rows) : Ids(f.rows[k]) \subseteq T,
         NEW x, x = SerialSource(s, f), x.error = "none",
         NEW y, y = SourceRows(t, context, f.rows)
  PROVE  Follows(x, y, before, context, T)
<1>1. IsState(s) /\ IsState(t) /\ s.error = "none" /\ t.error = "none"
  BY DEF Follows
<1>2. PICK n : n = Len(f.rows)
  OBVIOUS
<1>3. n \in Nat /\ IsSeq(f.rows) /\ AreRows(f.rows, n)
  BY <1>2 DEF IsSource, IsSeq
<1>4. Taken(s, f)
  BY <1>1, SourceTaken
<1>5. y = Rows(t, context, f.rows, n)
  BY <1>2, <1>3, SourceRowsIs
<1>6. CASE n > 0
  <2>1. x = Rows(s, context, f.rows, n) /\ f.context = context
    BY <1>2, <1>4, <1>6 DEF Taken
  <2>2. PICK rs : rs = f.rows
    OBVIOUS
  <2>3. Follows(Rows(s, context, rs, n), Rows(t, context, rs, n), before, context, T)
    BY <1>2, <1>3, <2>1, <2>2, RowsFollow
  <2> QED
    BY <1>5, <2>1, <2>2, <2>3
<1>7. CASE n = 0
  <2>1. y = t
    BY <1>5, <1>7, RowsFirst
  <2>2. /\ IsState(x) /\ x.v = s.v /\ x.block = s.block /\ x.out = s.out
        /\ x.ctx = IF s.first = None THEN f.context ELSE s.ctx
    BY <1>2, <1>4, <1>7 DEF Taken
  <2>3. Enter(x, context).block = Enter(s, context).block /\ Enter(x, context).out = Enter(s, context).out
    <3>1. PICK d, e : d = Enter(x, context) /\ e = Enter(s, context)
      OBVIOUS
    <3>2. /\ d.block = (IF x.ctx = context THEN x.block ELSE <<>>)
          /\ d.out = (IF x.ctx = context THEN x.out ELSE Flushed(x))
      BY <2>2, <3>1, EnterIs
    <3>3. /\ e.block = (IF s.ctx = context THEN s.block ELSE <<>>)
          /\ e.out = (IF s.ctx = context THEN s.out ELSE Flushed(s))
      BY <1>1, <3>1, EnterIs
    <3>4. CASE s.first = None
      <4>1. s.block = <<>> /\ x.block = <<>>
        BY <2>2, <3>4 DEF Opens
      <4>2. Flushed(x) = x.out /\ Flushed(s) = s.out
        BY <4>1 DEF Flushed, Emit
      <4> QED
        BY <2>2, <3>1, <3>2, <3>3, <4>1, <4>2
    <3>5. CASE s.first # None
      <4>1. x.ctx = s.ctx
        BY <2>2, <3>5
      <4>2. Flushed(x) = Flushed(s)
        BY <2>2, <4>1 DEF Flushed
      <4> QED
        BY <2>2, <3>1, <3>2, <3>3, <4>1, <4>2
    <3> QED
      BY <3>4, <3>5
  <2> QED
    BY <1>1, <2>1, <2>2, <2>3 DEF Follows
<1> QED
  BY <1>3, <1>6, <1>7

\* What is written in the end
LEMMA FollowsFlushed ==
  ASSUME NEW s, NEW t, NEW before, NEW context, NEW T, Follows(s, t, before, context, T)
  PROVE  Flushed(s) = before \o Flushed(t) /\ IsSeq(Flushed(t))
<1>1. /\ IsState(s) /\ IsState(t) /\ IsSeq(before) /\ IsSeq(t.out) /\ t.ctx = context
      /\ Enter(s, context).block = t.block /\ Enter(s, context).out = before \o t.out
  BY DEF Follows, IsState
<1>2. PICK e, rows, q : e = Enter(s, context) /\ rows = t.block /\ q = t.out
  OBVIOUS
<1>3. /\ e.block = (IF s.ctx = context THEN s.block ELSE <<>>)
      /\ e.out = (IF s.ctx = context THEN s.out ELSE Flushed(s))
  BY <1>1, <1>2, EnterIs
<1>4. IsSeq(Flushed(t))
  BY <1>1, EmitSeq DEF Flushed
<1>5. CASE s.ctx = context
  <2>1. s.block = rows /\ s.out = before \o q
    BY <1>1, <1>2, <1>3, <1>5
  <2>2. Emit(before \o q, context, rows) = before \o Emit(q, context, rows)
    BY <1>1, <1>2, EmitAfter
  <2>3. Flushed(s) = Emit(before \o q, context, rows) /\ Flushed(t) = Emit(q, context, rows)
    BY <1>1, <1>2, <1>5, <2>1, Zenon DEF Flushed
  <2> QED
    BY <1>4, <2>2, <2>3, Zenon
<1>6. CASE s.ctx # context
  <2>1. t.block = <<>> /\ Flushed(s) = before \o t.out
    BY <1>1, <1>2, <1>3, <1>6
  <2>2. Flushed(t) = t.out
    BY <2>1 DEF Flushed, Emit
  <2> QED
    BY <1>4, <2>1, <2>2
<1> QED
  BY <1>5, <1>6

\* The processes of the sources from a up to b, b excluded
Named(fs, a, b) == UNION {UNION {Ids(fs[i].rows[k]) : k \in 1..Len(fs[i].rows)} : i \in a..(b - 1)}

\* With seed and last, a validator knows of the processes T what it knows after s; and no block is
\* open in context.
Starts(s, context, seed, last, T) ==
  /\ s.ctx # context \/ s.block = <<>>
  /\ s.v.seq = last /\ seed = [i \in DOMAIN seed |-> seed[i]]
  /\ \A i \in T : /\ i \in DOMAIN seed <=> i \in DOMAIN s.v.previous
                  /\ i \in DOMAIN seed => seed[i] = s.v.previous[i]

GroupTrue(fs, g) ==
  /\ g.start \in Nat \ {0} /\ g.end \in Nat /\ g.start < g.end /\ g.context # None
  /\ \A i \in g.start..(g.end - 1) : Len(fs[i].rows) > 0 => fs[i].context = g.context
  /\ Starts(Sources(fs, g.start - 1), g.context, g.seed, g.last, Named(fs, g.start, g.end))

\* Where the replay of a group begins
LEMMA StartOfIs ==
  ASSUME NEW g, NEW t, t = StartOf(g), g.seed = [i \in DOMAIN g.seed |-> g.seed[i]], g.last \in Nat
  PROVE  /\ IsState(t) /\ t.error = "none" /\ t.out = <<>> /\ t.block = <<>>
         /\ t.ctx = g.context /\ t.first = g.context /\ t.v.previous = g.seed /\ t.v.seq = g.last
<1>1. PICK a, b, c : a = g.seed /\ b = g.last /\ c = g.context
  OBVIOUS
<1>2. NoSerial = [v |-> NewValidator(Unlimited), block |-> <<>>, ctx |-> None, first |-> None, out |-> <<>>, error |-> "none"]
  BY DEF NoSerial
<1>3. PICK x : x = [previous |-> a, seq |-> b, stamp |-> b, checked |-> Never, limit |-> Unlimited]
  OBVIOUS
<1>4. x = [previous |-> a, seq |-> b, stamp |-> b, checked |-> Never, limit |-> Unlimited]
  BY <1>3
<1>5. [NoSerial.v EXCEPT !.previous = a, !.seq = b, !.stamp = b] = x
  <2>1. PICK v : v = NewValidator(Unlimited)
    OBVIOUS
  <2>2. v = [previous |-> Nothing, seq |-> Never, stamp |-> Never, checked |-> Never, limit |-> Unlimited]
    BY <2>1 DEF NewValidator
  <2>3. PICK w : w = [v EXCEPT !.previous = a]
    OBVIOUS
  <2>4. w = [previous |-> a, seq |-> Never, stamp |-> Never, checked |-> Never, limit |-> Unlimited]
    BY <2>2, <2>3
  <2>5. PICK u : u = [w EXCEPT !.seq = b]
    OBVIOUS
  <2>6. u = [previous |-> a, seq |-> b, stamp |-> Never, checked |-> Never, limit |-> Unlimited]
    BY <2>4, <2>5
  <2>7. [u EXCEPT !.stamp = b] = x
    BY <1>3, <2>6
  <2> QED
    BY <1>2, <2>1, <2>3, <2>5, <2>7
<1>6. t = [NoSerial EXCEPT !.v = x, !.ctx = c, !.first = c]
  BY <1>1, <1>5, Zenon DEF StartOf
<1>7. PICK t1 : t1 = [NoSerial EXCEPT !.v = x]
  OBVIOUS
<1>8. t1 = [v |-> x, block |-> <<>>, ctx |-> None, first |-> None, out |-> <<>>, error |-> "none"]
  BY <1>2, <1>7
<1>9. PICK t2 : t2 = [t1 EXCEPT !.ctx = c]
  OBVIOUS
<1>10. t2 = [v |-> x, block |-> <<>>, ctx |-> c, first |-> None, out |-> <<>>, error |-> "none"]
  BY <1>8, <1>9
<1>11. t = [t2 EXCEPT !.first = c]
  BY <1>6, <1>7, <1>9
<1>12. t = [v |-> x, block |-> <<>>, ctx |-> c, first |-> c, out |-> <<>>, error |-> "none"]
  BY <1>10, <1>11
<1>13. IsValidator(x)
  BY <1>1, <1>4 DEF IsValidator
<1> QED
  BY <1>1, <1>4, <1>12, <1>13, EmptyIsSeq DEF IsState

\* replay_group of the first j sources of g, and of all of them, when the sources are fs
ReplayTo(fs, g, j) == GroupRows(StartOf(g), g.context, [k \in 1..(g.end - g.start) |-> fs[g.start + k - 1]], j)
Replay(fs, g) == ReplayTo(fs, g, g.end - g.start)

\* So far there is no error.
Replayable(fs, g) == \A j \in 0..(g.end - g.start) : IsState(ReplayTo(fs, g, j)) /\ ReplayTo(fs, g, j).error = "none"

\* What a group is replayed to is what the serial transform writes for its sources.
LEMMA ReplayIs ==
  ASSUME NEW fs, NEW g, GroupTrue(fs, g), AreSources(fs, g.end - 1), Sources(fs, g.end - 1).error = "none"
  PROVE  /\ Replayable(fs, g)
         /\ Replay(fs, g).error = "none" /\ IsSeq(Flushed(Replay(fs, g))) /\ IsSeq(Flushed(Sources(fs, g.start - 1)))
         /\ Flushed(Sources(fs, g.end - 1)) = Flushed(Sources(fs, g.start - 1)) \o Flushed(Replay(fs, g))
<1>1. PICK start, end, context, T, before, t0, ms, s0 :
         /\ start = g.start /\ end = g.end /\ context = g.context /\ T = Named(fs, start, end)
         /\ s0 = Sources(fs, start - 1) /\ before = Flushed(s0) /\ t0 = StartOf(g)
         /\ ms = [k \in 1..(end - start) |-> fs[start + k - 1]]
  OBVIOUS
<1>2. /\ start \in Nat \ {0} /\ end \in Nat /\ start < end /\ context # None
      /\ \A i \in start..(end - 1) : Len(fs[i].rows) > 0 => fs[i].context = context
      /\ Starts(s0, context, g.seed, g.last, T)
  BY <1>1 DEF GroupTrue
<1>3. \A j \in 0..(end - 1) : AreSources(fs, j) /\ IsState(Sources(fs, j)) /\ Sources(fs, j).error = "none" /\ Opens(Sources(fs, j))
  <2> TAKE j \in 0..(end - 1)
  <2>1. AreSources(fs, j) /\ j \in Nat /\ end - 1 \in Nat /\ AreSources(fs, end - 1)
    BY <1>1, <1>2 DEF AreSources
  <2>2. Sources(fs, j).error = "none"
    BY <1>1, <2>1, SourcesStop
  <2> QED
    BY <2>1, <2>2, SourcesState
<1>4. start - 1 \in 0..(end - 1)
  BY <1>2
<1>5. IsState(s0) /\ s0.error = "none"
  BY <1>1, <1>3, <1>4
<1>6. /\ IsState(t0) /\ t0.error = "none" /\ t0.out = <<>> /\ t0.block = <<>>
      /\ t0.ctx = context /\ t0.first = context /\ t0.v.previous = g.seed /\ t0.v.seq = g.last
  <2>1. g.seed = [i \in DOMAIN g.seed |-> g.seed[i]] /\ g.last \in Nat
    BY <1>2, <1>5 DEF Starts, IsState, IsValidator
  <2> QED
    BY <1>1, <2>1, StartOfIs
<1>7. IsSeq(before)
  BY <1>1, <1>5, EmitSeq DEF Flushed, IsState
<1>8. Follows(s0, t0, before, context, T)
  <2>1. Alike(s0.v, t0.v, T)
    <3>1. IsValidator(s0.v) /\ IsValidator(t0.v)
      BY <1>5, <1>6 DEF IsState
    <3> QED
      BY <1>2, <1>6, <3>1 DEF Starts, Alike
  <2>2. Enter(s0, context).block = <<>> /\ Enter(s0, context).out = before
    <3>1. PICK e : e = Enter(s0, context)
      OBVIOUS
    <3>2. /\ e.block = (IF s0.ctx = context THEN s0.block ELSE <<>>)
          /\ e.out = (IF s0.ctx = context THEN s0.out ELSE Flushed(s0))
      BY <1>5, <3>1, EnterIs
    <3>3. CASE s0.ctx = context
      <4>1. s0.block = <<>>
        BY <1>2, <3>3 DEF Starts
      <4>2. Flushed(s0) = s0.out
        BY <4>1 DEF Flushed, Emit
      <4> QED
        BY <1>1, <3>1, <3>2, <3>3, <4>1, <4>2
    <3> QED
      BY <1>1, <3>1, <3>2, <3>3
  <2>3. before \o t0.out = before
    BY <1>6, <1>7, ConcatEmpty
  <2> QED
    BY <1>2, <1>5, <1>6, <1>7, <2>1, <2>2, <2>3 DEF Follows
<1> DEFINE x(j) == Sources(fs, start - 1 + j)
           y(j) == GroupRows(t0, context, ms, j)
           A == {j \in Nat : j <= end - start => Follows(x(j), y(j), before, context, T)}
<1>9. 0 \in A
  <2>1. y(0) = t0 /\ x(0) = s0
    BY <1>1, <1>2, GroupRowsFirst
  <2> HIDE DEF x, y
  <2> QED
    BY <1>8, <2>1
<1>10. ASSUME NEW j \in Nat, j \in A  PROVE j + 1 \in A
  <2> SUFFICES ASSUME j + 1 <= end - start
               PROVE  Follows(x(j + 1), y(j + 1), before, context, T)
    OBVIOUS
  <2>1. PICK m, f : m = start - 1 + j /\ f = fs[m + 1]
    OBVIOUS
  <2>2. /\ m \in Nat /\ m + 1 \in start..(end - 1) /\ m \in 0..(end - 1) /\ m + 1 \in 0..(end - 1)
        /\ start - 1 + (j + 1) = m + 1 /\ j + 1 \in 1..(end - start) /\ start + (j + 1) - 1 = m + 1
    BY <1>2, <2>1
  <2>3. PICK a, b, c, d : a = x(j) /\ b = y(j) /\ c = x(j + 1) /\ d = y(j + 1)
    OBVIOUS
  <2>4. c = SerialSource(a, f)
    BY <2>1, <2>2, <2>3, SourcesStep
  <2>5. ms[j + 1] = f
    BY <1>1, <2>1, <2>2
  <2>6. d = SourceRows(b, context, f.rows)
    <3>1. GroupRows(t0, context, ms, j + 1) = SourceRows(GroupRows(t0, context, ms, j), context, ms[j + 1].rows)
      BY GroupRowsStep
    <3> QED
      BY <2>3, <2>5, <3>1
  <2>7. c.error = "none" /\ Opens(a)
    BY <1>3, <2>1, <2>2, <2>3
  <2>8. IsSource(f)
    <3>1. AreSources(fs, end - 1) /\ m + 1 \in 1..(end - 1)
      BY <1>1, <1>2, <2>2
    <3> QED
      BY <2>1, <3>1 DEF AreSources
  <2>9. (Len(f.rows) > 0 => f.context = context) /\ \A k \in 1..Len(f.rows) : Ids(f.rows[k]) \subseteq T
    <3>1. Len(f.rows) > 0 => f.context = context
      BY <1>2, <2>1, <2>2
    <3>2. PICK i : i = m + 1
      OBVIOUS
    <3>3. i \in start..(end - 1) /\ f = fs[i]
      BY <2>1, <2>2, <3>2
    <3>4. T = UNION {UNION {Ids(fs[h].rows[k]) : k \in 1..Len(fs[h].rows)} : h \in start..(end - 1)}
      BY <1>1 DEF Named
    <3>5. UNION {Ids(fs[i].rows[k]) : k \in 1..Len(fs[i].rows)} \subseteq T
      BY <3>3, <3>4
    <3> QED
      BY <3>1, <3>3, <3>5
  <2>10. Follows(a, b, before, context, T)
    BY <1>2, <1>10, <2>2, <2>3
  <2>11. Follows(c, d, before, context, T)
    BY <2>4, <2>6, <2>7, <2>8, <2>9, <2>10, FollowsSource
  <2> QED
    BY <2>3, <2>11
<1>11. \A j \in Nat : j \in A
  <2> HIDE DEF A
  <2> QED
    BY <1>9, <1>10, Induction
<1>12. start - 1 + (end - start) = end - 1
  BY <1>2
<1>13. PICK s1, t1 : s1 = Sources(fs, end - 1) /\ t1 = GroupRows(t0, context, ms, end - start)
  OBVIOUS
<1>14. Follows(s1, t1, before, context, T)
  <2>1. end - start \in Nat
    BY <1>2
  <2> QED
    BY <1>11, <1>12, <1>13, <2>1
<1>15. t1 = Replay(fs, g)
  BY <1>1, <1>13, Zenon DEF Replay, ReplayTo
<1>18. Replayable(fs, g)
  <2> SUFFICES ASSUME NEW j \in 0..(end - start)
               PROVE  IsState(ReplayTo(fs, g, j)) /\ ReplayTo(fs, g, j).error = "none"
    BY <1>1 DEF Replayable
  <2>1. j \in Nat /\ j <= end - start
    BY <1>2
  <2>2. ReplayTo(fs, g, j) = y(j)
    BY <1>1, Zenon DEF ReplayTo
  <2>3. Follows(x(j), y(j), before, context, T)
    BY <1>11, <2>1
  <2> HIDE DEF x, y
  <2> QED
    BY <2>2, <2>3 DEF Follows
<1>16. Flushed(s1) = before \o Flushed(t1) /\ IsSeq(Flushed(t1))
  BY <1>14, FollowsFlushed
<1>17. t1.error = "none"
  BY <1>14 DEF Follows
<1> QED
  BY <1>1, <1>7, <1>13, <1>15, <1>16, <1>17, <1>18

-----------------------------------------------------------------------------
(* The plan                                                                 *)

IsPlan(p) ==
  p = [global |-> p.global, last |-> p.last, first |-> p.first, group |-> p.group, from |-> p.from,
       groups |-> p.groups, read |-> p.read, retained |-> p.retained, error |-> p.error]

IsGroup(g) ==
  g = [start |-> g.start, context |-> g.context, seed |-> g.seed, touched |-> g.touched, last |-> g.last]

\* What a validator remembers after the sources read is what the plan holds.
ReadTrue(p) ==
  LET s == Sources(p.read, Len(p.read)) IN
  /\ IsPlan(p) /\ p.error = "none" /\ IsSeq(p.read) /\ AreSources(p.read, Len(p.read))
  /\ s.error = "none" /\ s.first = p.first /\ s.v.previous = p.global /\ s.v.seq = p.last

\* The groups are one after the other, up to from.
GroupsTrue(p) ==
  /\ IsSeq(p.groups) /\ p.from \in 1..(Len(p.read) + 1)
  /\ p.from = IF Len(p.groups) = 0 THEN 1 ELSE p.groups[Len(p.groups)].end
  /\ \A k \in 1..Len(p.groups) : /\ GroupTrue(p.read, p.groups[k]) /\ p.groups[k].end <= p.from
                                 /\ p.groups[k].start = IF k = 1 THEN 1 ELSE p.groups[k - 1].end

\* The group that begins at from: what is not touched since has not changed since.
GroupOpen(p) ==
  LET g == p.group
      before == Sources(p.read, p.from - 1)
  IN  /\ IsGroup(g) /\ g.start = p.from /\ g.context # None
      /\ \A i \in p.from..Len(p.read) : Len(p.read[i].rows) > 0 => p.read[i].context = g.context
      /\ Named(p.read, p.from, Len(p.read) + 1) \subseteq g.touched /\ DOMAIN g.seed \subseteq g.touched
      /\ Starts(before, g.context, g.seed, g.last, g.touched)
      /\ \A i \in (DOMAIN p.global \cup DOMAIN before.v.previous) \ g.touched :
            i \in DOMAIN p.global /\ i \in DOMAIN before.v.previous /\ p.global[i] = before.v.previous[i]

Empty(p) ==
  /\ Len(p.groups) = 0 /\ p.last = 0 /\ p.global = Nothing
  /\ \A i \in 1..Len(p.read) : Len(p.read[i].rows) = 0

PlanTrue(p) ==
  /\ ReadTrue(p) /\ GroupsTrue(p)
  /\ p.group = None => Empty(p)
  /\ p.group # None => /\ GroupOpen(p) /\ p.from <= Len(p.read)
                       /\ Sources(p.read, Len(p.read)).ctx = p.group.context

\* A group is not the absence of one.
LEMMA GroupIsSome == ASSUME NEW g, IsGroup(g) PROVE g # None
<1>1. PICK a, b, c, d, e : g = [start |-> a, context |-> b, seed |-> c, touched |-> d, last |-> e]
  BY DEF IsGroup
<1>2. DOMAIN g # {}
  BY <1>1
<1>3. DOMAIN None = {}
  BY DEF None
<1> QED
  BY <1>2, <1>3

\* A group stays true while sources are read after it.
LEMMA GroupStays ==
  ASSUME NEW fs, NEW gs, NEW g, GroupTrue(fs, g), \A i \in 1..(g.end - 1) : fs[i] = gs[i]
  PROVE  GroupTrue(gs, g)
<1>1. PICK a, b : a = g.start /\ b = g.end
  OBVIOUS
<1>2. a \in Nat \ {0} /\ b \in Nat /\ a < b
  BY <1>1 DEF GroupTrue
<1>3. a - 1 \in Nat /\ \A i \in 1..(a - 1) : fs[i] = gs[i]
  BY <1>1, <1>2
<1>4. Sources(fs, a - 1) = Sources(gs, a - 1)
  BY <1>3, SourcesSame
<1>5. \A i \in a..(b - 1) : fs[i] = gs[i]
  BY <1>1, <1>2
<1>6. Named(fs, a, b) = Named(gs, a, b)
  BY <1>5 DEF Named
<1> QED
  BY <1>1, <1>4, <1>5, <1>6 DEF GroupTrue

\* With fewer processes to know of, the seed is still right.
LEMMA StartsLess ==
  ASSUME NEW s, NEW context, NEW seed, NEW last, NEW T, NEW U, Starts(s, context, seed, last, T), U \subseteq T
  PROVE  Starts(s, context, seed, last, U)
BY DEF Starts

\* At the boundary of a context a replay may begin knowing nothing.
LEMMA StartsBlank ==
  ASSUME NEW s, NEW context, s.ctx # context \/ s.block = <<>>
  PROVE  Starts(s, context, Nothing, s.v.seq, {})
BY DEF Starts, Nothing

\* The closed form of a group
Shut(g, end) == [start |-> g.start, end |-> end, context |-> g.context, seed |-> g.seed, last |-> g.last]

\* A group that is closed is the last of the groups, and nothing else changes.
LEMMA CloseIs ==
  ASSUME NEW p, NEW end, IsPlan(p), NEW q, q = Close(p, end)
  PROVE  /\ IsPlan(q) /\ q.global = p.global /\ q.last = p.last /\ q.first = p.first /\ q.group = None
         /\ q.from = end /\ q.groups = Append(p.groups, Shut(p.group, end)) /\ q.read = p.read /\ q.error = p.error
         /\ q.retained = p.retained + Cardinality(DOMAIN p.group.seed)
<1>1. PICK gs, r : gs = Append(p.groups, Shut(p.group, end)) /\ r = p.retained + Cardinality(DOMAIN p.group.seed)
  OBVIOUS
<1>2. q = [p EXCEPT !.groups = gs, !.retained = r, !.group = None, !.from = end]
  BY <1>1, Zenon DEF Close, Shut
<1>3. PICK a : a = [p EXCEPT !.groups = gs]
  OBVIOUS
<1>4. a = [global |-> p.global, last |-> p.last, first |-> p.first, group |-> p.group, from |-> p.from,
           groups |-> gs, read |-> p.read, retained |-> p.retained, error |-> p.error]
  BY <1>3 DEF IsPlan
<1>5. PICK b : b = [a EXCEPT !.retained = r]
  OBVIOUS
<1>6. b = [global |-> p.global, last |-> p.last, first |-> p.first, group |-> p.group, from |-> p.from,
           groups |-> gs, read |-> p.read, retained |-> r, error |-> p.error]
  BY <1>4, <1>5
<1>7. PICK c : c = [b EXCEPT !.group = None]
  OBVIOUS
<1>8. c = [global |-> p.global, last |-> p.last, first |-> p.first, group |-> None, from |-> p.from,
           groups |-> gs, read |-> p.read, retained |-> r, error |-> p.error]
  BY <1>6, <1>7
<1>9. q = [c EXCEPT !.from = end]
  BY <1>2, <1>3, <1>5, <1>7
<1>10. q = [global |-> p.global, last |-> p.last, first |-> p.first, group |-> None, from |-> end,
            groups |-> gs, read |-> p.read, retained |-> r, error |-> p.error]
  BY <1>8, <1>9
<1> QED
  BY <1>1, <1>10 DEF IsPlan

\* Closing a group that is right makes one more that is right.
LEMMA ClosedTrue ==
  ASSUME NEW p, PlanTrue(p), p.group # None, NEW end, end = Len(p.read) + 1, NEW q, q = Close(p, end)
  PROVE  ReadTrue(q) /\ GroupsTrue(q) /\ q.read = p.read /\ q.from = end /\ Len(q.groups) > 0
<1>1. ReadTrue(p) /\ GroupsTrue(p) /\ GroupOpen(p) /\ p.from <= Len(p.read) /\ IsPlan(p)
  BY DEF PlanTrue, ReadTrue
<1>2. PICK g, read, n : g = Shut(p.group, end) /\ read = p.read /\ n = Len(read)
  OBVIOUS
<1>3. /\ IsPlan(q) /\ q.global = p.global /\ q.last = p.last /\ q.first = p.first /\ q.group = None
      /\ q.from = end /\ q.groups = Append(p.groups, g) /\ q.read = read /\ q.error = p.error
  BY <1>1, <1>2, CloseIs
<1>4. ReadTrue(q)
  BY <1>1, <1>2, <1>3 DEF ReadTrue
<1>5. n \in Nat
  BY <1>1, <1>2 DEF ReadTrue, IsSeq
<1>6. /\ g.start = p.from /\ g.end = end /\ g.context = p.group.context /\ g.seed = p.group.seed /\ g.last = p.group.last
  BY <1>1, <1>2 DEF GroupOpen, Shut
<1>7. GroupTrue(read, g)
  <2>1. p.from \in Nat \ {0} /\ end \in Nat /\ p.from < end /\ end - 1 = n
    BY <1>1, <1>2, <1>5 DEF GroupsTrue
  <2>2. Starts(Sources(read, p.from - 1), g.context, g.seed, g.last, Named(read, p.from, end))
    <3>1. PICK s, context, seed, last, T, U : /\ s = Sources(read, p.from - 1) /\ context = g.context /\ seed = g.seed
                                              /\ last = g.last /\ T = p.group.touched /\ U = Named(read, p.from, end)
      OBVIOUS
    <3>2. Starts(s, context, seed, last, T) /\ U \subseteq T
      BY <1>1, <1>2, <1>6, <3>1 DEF GroupOpen
    <3> QED
      BY <3>1, <3>2, StartsLess
  <2>3. g.context # None /\ \A i \in p.from..n : Len(read[i].rows) > 0 => read[i].context = g.context
    BY <1>1, <1>2, <1>6 DEF GroupOpen
  <2> QED
    BY <1>6, <2>1, <2>2, <2>3 DEF GroupTrue
<1>8. PICK gs, m : gs = p.groups /\ m = Len(gs)
  OBVIOUS
<1>9. m \in Nat /\ IsSeq(gs) /\ gs \in Seq(ToSet(gs))
  BY <1>1, <1>8 DEF GroupsTrue, IsSeq
<1>10. /\ Len(q.groups) = m + 1 /\ q.groups[m + 1] = g /\ \A k \in 1..m : q.groups[k] = gs[k]
  BY <1>3, <1>8, <1>9
<1>11. IsSeq(q.groups)
  BY <1>3, <1>8, <1>9, AppendSeq
<1>12. GroupsTrue(q)
  <2>1. q.from \in 1..(Len(q.read) + 1)
    BY <1>2, <1>3, <1>5
  <2>2. q.from = q.groups[Len(q.groups)].end
    BY <1>3, <1>6, <1>10
  <2>3. ASSUME NEW k \in 1..Len(q.groups)
        PROVE  /\ GroupTrue(q.read, q.groups[k]) /\ q.groups[k].end <= q.from
               /\ q.groups[k].start = IF k = 1 THEN 1 ELSE q.groups[k - 1].end
    <3>1. CASE k = m + 1
      <4>1. p.from = IF m = 0 THEN 1 ELSE gs[m].end
        BY <1>1, <1>8 DEF GroupsTrue
      <4>2. m # 0 => q.groups[k - 1] = gs[m]
        BY <1>9, <1>10, <3>1
      <4>3. GroupTrue(q.read, q.groups[k])
        BY <1>3, <1>7, <1>10, <3>1
      <4>4. q.groups[k].end <= q.from
        BY <1>2, <1>3, <1>5, <1>6, <1>10, <3>1
      <4> QED
        BY <1>6, <1>9, <1>10, <3>1, <4>1, <4>2, <4>3, <4>4
    <3>2. CASE k \in 1..m
      <4>1. /\ GroupTrue(p.read, gs[k]) /\ gs[k].end <= p.from
            /\ gs[k].start = IF k = 1 THEN 1 ELSE gs[k - 1].end
        BY <1>1, <1>8, <3>2 DEF GroupsTrue
      <4>2. q.groups[k] = gs[k] /\ (k # 1 => q.groups[k - 1] = gs[k - 1])
        BY <1>9, <1>10, <3>2
      <4>3. gs[k].end \in Nat /\ p.from \in Nat /\ p.from < end /\ end \in Nat
        BY <1>1, <1>2, <1>5, <4>1 DEF GroupTrue, GroupsTrue
      <4> QED
        BY <1>2, <1>3, <4>1, <4>2, <4>3
    <3> QED
      BY <1>9, <1>10, <3>1, <3>2
  <2> QED
    BY <1>9, <1>10, <1>11, <2>1, <2>2, <2>3 DEF GroupsTrue
<1> QED
  BY <1>2, <1>3, <1>4, <1>9, <1>10, <1>12

\* What JoinGroup opens
Fresh(p, from, context) == [start |-> from, context |-> context, seed |-> Nothing, touched |-> {}, last |-> p.last]
ClosedFor(p, i, context) == IF p.group # None /\ p.group.context # context THEN Close(p, i) ELSE p
OpenedFor(p, i, context) ==
  LET closed == ClosedFor(p, i, context)
  IN  IF closed.group # None THEN closed ELSE [closed EXCEPT !.group = Fresh(p, closed.from, context)]

Opening(p, g) == [p EXCEPT !.group = g]

\* Giving the plan another open group changes nothing else.
LEMMA OpeningIs ==
  ASSUME NEW p, NEW g, IsPlan(p), NEW q, q = Opening(p, g)
  PROVE  /\ IsPlan(q) /\ q.global = p.global /\ q.last = p.last /\ q.first = p.first /\ q.group = g
         /\ q.from = p.from /\ q.groups = p.groups /\ q.read = p.read /\ q.error = p.error
         /\ q.retained = p.retained
BY DEF IsPlan, Opening

\* The group a source with rows belongs to is open, and right.
Opened(p, context, q) ==
  /\ ReadTrue(q) /\ GroupsTrue(q) /\ GroupOpen(q) /\ q.group.context = context /\ q.read = p.read
  /\ q.global = p.global /\ q.last = p.last /\ q.first = p.first

\* The plan has an open group of the context when a source of it is joined.
LEMMA OpenedTrue ==
  ASSUME NEW p, PlanTrue(p), NEW i, i = Len(p.read) + 1, NEW context, context # None
  PROVE  Opened(p, context, OpenedFor(p, i, context))
<1>1. PICK q : q = OpenedFor(p, i, context)
  OBVIOUS
<1>2. ReadTrue(p) /\ GroupsTrue(p) /\ IsPlan(p)
  BY DEF PlanTrue, ReadTrue
<1>3. PICK n : n = Len(p.read)
  OBVIOUS
<1>4. n \in Nat
  BY <1>2, <1>3 DEF ReadTrue, IsSeq
<1>5. CASE p.group # None /\ p.group.context = context
  <2>1. q = p
    BY <1>1, <1>5 DEF OpenedFor, ClosedFor
  <2> QED
    BY <1>1, <1>2, <1>5, <2>1 DEF PlanTrue, Opened
<1>6. CASE p.group # None /\ p.group.context # context
  <2>1. PICK c, g : c = Close(p, i) /\ g = Fresh(p, i, context)
    OBVIOUS
  <2>2. /\ IsPlan(c) /\ c.global = p.global /\ c.last = p.last /\ c.first = p.first /\ c.group = None
        /\ c.read = p.read
    BY <1>2, <2>1, CloseIs
  <2>3. ReadTrue(c) /\ GroupsTrue(c) /\ c.from = i /\ Len(c.groups) > 0
    BY <1>6, <2>1, ClosedTrue
  <2>4. q = Opening(c, g)
    <3>1. ClosedFor(p, i, context) = c
      BY <1>6, <2>1 DEF ClosedFor
    <3> QED
      BY <1>1, <2>1, <2>2, <2>3, <3>1, Zenon DEF OpenedFor, Opening
  <2>5. /\ IsPlan(q) /\ q.global = c.global /\ q.last = c.last /\ q.first = c.first /\ q.group = g
        /\ q.from = c.from /\ q.groups = c.groups /\ q.read = c.read /\ q.error = c.error
    BY <2>2, <2>4, OpeningIs
  <2>6. ReadTrue(q)
    BY <2>3, <2>5 DEF ReadTrue
  <2>7. GroupsTrue(q)
    BY <2>3, <2>5 DEF GroupsTrue
  <2>8. GroupOpen(q)
    <3>1. IsGroup(g) /\ g.start = q.from /\ g.context = context /\ g.touched = {} /\ g.seed = Nothing /\ g.last = p.last
      BY <2>1, <2>3, <2>5 DEF Fresh, IsGroup
    <3>2. q.from - 1 = n /\ q.from = n + 1
      BY <1>3, <1>4, <2>3, <2>5
    <3>3. PICK s : s = Sources(p.read, n)
      OBVIOUS
    <3>4. s.v.seq = p.last /\ s.v.previous = p.global
      BY <1>2, <1>3, <3>3 DEF ReadTrue
    <3>5. s.ctx # context
      BY <1>3, <1>6, <3>3 DEF PlanTrue
    <3>6. Starts(s, context, Nothing, s.v.seq, {})
      BY <3>5, StartsBlank
    <3>7. Named(q.read, q.from, Len(q.read) + 1) = {}
      <4>1. (n + 1)..((n + 1) - 1) = {}
        BY <1>4
      <4>2. Named(q.read, n + 1, n + 1) = {}
        BY <4>1 DEF Named
      <4> QED
        BY <1>3, <2>2, <2>5, <3>2, <4>2
    <3>8. (n + 1)..n = {}
      BY <1>4
    <3>9. Sources(q.read, q.from - 1) = s /\ q.global = s.v.previous
      BY <2>2, <2>5, <3>2, <3>3, <3>4
    <3>10. DOMAIN Nothing = {}
      BY DEF Nothing
    <3> QED
      BY <1>3, <2>2, <2>5, <3>1, <3>2, <3>4, <3>6, <3>7, <3>8, <3>9, <3>10 DEF GroupOpen
  <2> QED
    BY <1>1, <2>1, <2>2, <2>5, <2>6, <2>7, <2>8 DEF Fresh, Opened
<1>7. CASE p.group = None
  <2>1. PICK g : g = Fresh(p, p.from, context)
    OBVIOUS
  <2>2. q = Opening(p, g)
    BY <1>1, <1>7, <2>1, Zenon DEF OpenedFor, ClosedFor, Opening
  <2>3. /\ IsPlan(q) /\ q.global = p.global /\ q.last = p.last /\ q.first = p.first /\ q.group = g
        /\ q.from = p.from /\ q.groups = p.groups /\ q.read = p.read /\ q.error = p.error
    BY <1>2, <2>2, OpeningIs
  <2>4. ReadTrue(q)
    BY <1>2, <2>3 DEF ReadTrue
  <2>5. GroupsTrue(q)
    BY <1>2, <2>3 DEF GroupsTrue
  <2>6. Empty(p) /\ p.from = 1
    BY <1>2, <1>7 DEF PlanTrue, Empty, GroupsTrue
  <2>7. IsGroup(g) /\ g.start = q.from /\ g.context = context /\ g.touched = {} /\ g.seed = Nothing /\ g.last = 0
    BY <2>1, <2>3, <2>6 DEF Fresh, IsGroup, Empty
  <2>8. Sources(q.read, q.from - 1) = NoSerial
    BY <2>3, <2>6, SourcesFirst
  <2>9. Starts(NoSerial, context, Nothing, 0, {})
    <3>1. NoSerial.v.seq = 0
      BY NoSerialIs, BlankIs DEF Blank
    <3> QED
      BY <3>1, NoSerialIs, StartsBlank
  <2>10. NoSerial.v.previous = Nothing /\ DOMAIN Nothing = {}
    BY NoSerialIs, BlankIs DEF Blank
  <2>11. Named(q.read, 1, n + 1) = {}
    <3>1. \A h \in 1..((n + 1) - 1) : 1..Len(q.read[h].rows) = {}
      BY <1>3, <1>4, <2>3, <2>6 DEF Empty
    <3> QED
      BY <3>1 DEF Named
  <2>12. \A h \in 1..n : ~(Len(q.read[h].rows) > 0)
    BY <1>3, <2>3, <2>6 DEF Empty
  <2>13. GroupOpen(q)
    BY <1>3, <2>3, <2>6, <2>7, <2>8, <2>9, <2>10, <2>11, <2>12 DEF GroupOpen, Empty
  <2> QED
    BY <1>1, <2>3, <2>4, <2>5, <2>7, <2>13 DEF Opened
<1> QED
  BY <1>5, <1>6, <1>7

-----------------------------------------------------------------------------
(* A summary joins the plan                                                 *)

SeedFor(p, ids) ==
  LET new == (ids \ p.group.touched) \cap DOMAIN p.global
  IN  [i \in DOMAIN p.group.seed \cup new |-> IF i \in new THEN p.global[i] ELSE p.group.seed[i]]

TouchedGroup(p, ids) ==
  [start |-> p.group.start, context |-> p.group.context, seed |-> SeedFor(p, ids),
   touched |-> p.group.touched \cup ids, last |-> p.group.last]

\* Touching processes only changes the open group.
LEMMA TouchIs ==
  ASSUME NEW p, NEW ids, IsPlan(p), IsGroup(p.group)
  PROVE  Touch(p, ids) = Opening(p, TouchedGroup(p, ids))
<1>1. PICK g, a : g = p.group /\ a = g.touched \cup ids
  OBVIOUS
<1>2. g = [start |-> g.start, context |-> g.context, seed |-> g.seed, touched |-> g.touched, last |-> g.last]
  BY <1>1 DEF IsGroup
<1>3. PICK h : h = [g EXCEPT !.touched = a]
  OBVIOUS
<1>4. h = [start |-> g.start, context |-> g.context, seed |-> g.seed, touched |-> a, last |-> g.last]
  BY <1>2, <1>3
<1>5. PICK q : q = [p EXCEPT !.group = h]
  OBVIOUS
<1>6. q.group = h
  BY <1>5 DEF IsPlan
<1>7. Touch(p, ids) = [q EXCEPT !.group = [h EXCEPT !.seed =
                         LET new == (ids \ p.group.touched) \cap DOMAIN p.global
                         IN  [i \in DOMAIN @ \cup new |-> IF i \in new THEN p.global[i] ELSE @[i]]]]
  BY <1>1, <1>3, <1>5, <1>6, Zenon DEF Touch
<1>8. h.seed = p.group.seed
  BY <1>1, <1>4
<1>9. PICK b : b = SeedFor(p, ids)
  OBVIOUS
<1>10. Touch(p, ids) = [q EXCEPT !.group = [h EXCEPT !.seed = b]]
  BY <1>7, <1>8, <1>9, Zenon DEF SeedFor
<1>11. [h EXCEPT !.seed = b] = TouchedGroup(p, ids)
  BY <1>1, <1>4, <1>9 DEF TouchedGroup
<1>12. PICK k : k = TouchedGroup(p, ids)
  OBVIOUS
<1>13. [q EXCEPT !.group = k] = [p EXCEPT !.group = k]
  BY <1>5 DEF IsPlan
<1> QED
  BY <1>10, <1>11, <1>12, <1>13, Zenon DEF Opening

\* The processes touched come in with the state they had where the group began.
LEMMA TouchTrue ==
  ASSUME NEW p, IsPlan(p), GroupOpen(p), NEW ids, NEW before, before = Sources(p.read, p.from - 1),
         NEW h, h = TouchedGroup(p, ids)
  PROVE  /\ IsGroup(h) /\ h.start = p.from /\ h.context = p.group.context /\ h.last = p.group.last
         /\ h.touched = p.group.touched \cup ids /\ DOMAIN h.seed \subseteq h.touched
         /\ Starts(before, h.context, h.seed, h.last, h.touched)
<1>1. PICK g, t, seed, global, prev : /\ g = p.group /\ t = g.touched /\ seed = g.seed /\ global = p.global
                                      /\ prev = before.v.previous
  OBVIOUS
<1>2. /\ IsGroup(g) /\ g.start = p.from /\ DOMAIN seed \subseteq t
      /\ Starts(before, g.context, seed, g.last, t)
      /\ \A i \in (DOMAIN global \cup DOMAIN prev) \ t :
            i \in DOMAIN global /\ i \in DOMAIN prev /\ global[i] = prev[i]
  BY <1>1 DEF GroupOpen
<1>3. /\ IsGroup(h) /\ h.start = p.from /\ h.context = g.context /\ h.last = g.last
      /\ h.touched = t \cup ids /\ h.seed = SeedFor(p, ids)
  BY <1>1, <1>2 DEF TouchedGroup, IsGroup
<1>4. PICK new : new = (ids \ t) \cap DOMAIN global
  OBVIOUS
<1>5. h.seed = [i \in DOMAIN seed \cup new |-> IF i \in new THEN global[i] ELSE seed[i]]
  BY <1>1, <1>3, <1>4 DEF SeedFor
<1>6. DOMAIN h.seed = DOMAIN seed \cup new
  BY <1>5
<1>7. ASSUME NEW i \in t \cup ids
      PROVE  /\ i \in DOMAIN h.seed <=> i \in DOMAIN prev
             /\ i \in DOMAIN h.seed => h.seed[i] = prev[i]
  <2>1. CASE i \in t
    <3>1. i \notin new
      BY <1>4, <2>1
    <3>2. /\ i \in DOMAIN seed <=> i \in DOMAIN prev
          /\ i \in DOMAIN seed => seed[i] = prev[i]
      BY <1>1, <1>2, <2>1 DEF Starts
    <3> QED
      BY <1>5, <1>6, <3>1, <3>2
  <2>2. CASE i \notin t
    <3>1. i \notin DOMAIN seed /\ (i \in new <=> i \in DOMAIN global)
      BY <1>2, <1>4, <2>2
    <3>2. i \in DOMAIN global <=> i \in DOMAIN prev
      BY <1>2, <2>2
    <3>3. i \in DOMAIN global => global[i] = prev[i]
      BY <1>2, <2>2
    <3> QED
      BY <1>5, <1>6, <3>1, <3>2, <3>3
  <2> QED
    BY <2>1, <2>2
<1>8. Starts(before, h.context, h.seed, h.last, h.touched)
  <2>1. h.seed = [i \in DOMAIN h.seed |-> h.seed[i]]
    BY <1>5, <1>6
  <2>2. (before.ctx # g.context \/ before.block = <<>>) /\ before.v.seq = g.last
    BY <1>2 DEF Starts
  <2> QED
    BY <1>1, <1>3, <1>7, <2>1, <2>2 DEF Starts
<1> QED
  BY <1>1, <1>2, <1>3, <1>4, <1>6, <1>8

\* A summary says what a blank validator makes of the source.
SumTrue(sum) ==
  /\ IsSource(sum.file) /\ End(sum.file).ok
  /\ sum.resets = All(sum.file) /\ sum.final = End(sum.file).v.previous

TouchedBy(sum) == sum.resets \cup DOMAIN sum.final

Refused(p) == [p EXCEPT !.error = "too many"]
Lasting(p, last) == [p EXCEPT !.last = last]

\* A source is refused or joins the open group.
LEMMA JoinGroupIs ==
  ASSUME NEW p, NEW i, NEW sum
  PROVE  \/ JoinGroup(p, i, sum) = Refused(p)
         \/ JoinGroup(p, i, sum) = Lasting(Touch(OpenedFor(p, i, sum.file.context), TouchedBy(sum)), Last(sum.file.rows).seq)
BY Zenon DEF JoinGroup, OpenedFor, ClosedFor, Fresh, TouchedBy, Refused, Lasting

\* What Fold adds in the end
Grown(j, sum) ==
  [j EXCEPT !.read = Append(@, sum.file), !.first = IF @ = None THEN sum.file.context ELSE @,
            !.global = [i \in (DOMAIN @ \ sum.resets) \cup DOMAIN sum.final |->
                          IF i \in DOMAIN sum.final THEN sum.final[i] ELSE @[i]]]

Grows(j, sum, q) ==
  /\ IsPlan(q) /\ q.last = j.last /\ q.group = j.group /\ q.from = j.from /\ q.groups = j.groups
  /\ q.read = Append(j.read, sum.file) /\ q.error = j.error /\ q.retained = j.retained
  /\ q.first = (IF j.first = None THEN sum.file.context ELSE j.first)
  /\ q.global = Over(Keep(j.global, DOMAIN j.global \ sum.resets), sum.final)

\* What a source that has joined adds to the whole plan
LEMMA GrownIs ==
  ASSUME NEW j, NEW sum, IsPlan(j)
  PROVE  Grows(j, sum, Grown(j, sum))
<1>1. PICK q : q = Grown(j, sum)
  OBVIOUS
<1>2. PICK rs, first, global :
        /\ rs = Append(j.read, sum.file) /\ first = (IF j.first = None THEN sum.file.context ELSE j.first)
        /\ global = [i \in (DOMAIN j.global \ sum.resets) \cup DOMAIN sum.final |->
                       IF i \in DOMAIN sum.final THEN sum.final[i] ELSE j.global[i]]
  OBVIOUS
<1>3. q = [j EXCEPT !.read = rs, !.first = first, !.global = global]
  BY <1>1, <1>2, Zenon DEF Grown
<1>4. PICK a : a = [j EXCEPT !.read = rs]
  OBVIOUS
<1>5. a = [global |-> j.global, last |-> j.last, first |-> j.first, group |-> j.group, from |-> j.from,
           groups |-> j.groups, read |-> rs, retained |-> j.retained, error |-> j.error]
  BY <1>4 DEF IsPlan
<1>6. PICK b : b = [a EXCEPT !.first = first]
  OBVIOUS
<1>7. b = [global |-> j.global, last |-> j.last, first |-> first, group |-> j.group, from |-> j.from,
           groups |-> j.groups, read |-> rs, retained |-> j.retained, error |-> j.error]
  BY <1>5, <1>6
<1>8. q = [b EXCEPT !.global = global]
  BY <1>3, <1>4, <1>6
<1>9. q = [global |-> global, last |-> j.last, first |-> first, group |-> j.group, from |-> j.from,
           groups |-> j.groups, read |-> rs, retained |-> j.retained, error |-> j.error]
  BY <1>7, <1>8
<1>10. global = Over(Keep(j.global, DOMAIN j.global \ sum.resets), sum.final)
  BY <1>2 DEF Over, Keep
<1>11. IsPlan(q) /\ q.last = j.last /\ q.group = j.group /\ q.from = j.from /\ q.groups = j.groups /\ q.error = j.error
       /\ q.retained = j.retained
  BY <1>9 DEF IsPlan
<1>12. q.read = rs /\ q.first = first /\ q.global = global
  BY <1>9
<1>13. Grows(j, sum, q)
  BY <1>2, <1>10, <1>11, <1>12 DEF Grows
<1> QED
  BY <1>1, <1>13

\* The sources after one more
Appended(read, f, n, rs) ==
  /\ n \in Nat /\ IsSeq(rs) /\ Len(rs) = n + 1 /\ rs[n + 1] = f /\ \A i \in 1..n : rs[i] = read[i]
  /\ Sources(rs, n + 1) = SerialSource(Sources(read, n), f)
  /\ \A k \in 0..n : Sources(rs, k) = Sources(read, k)
  /\ AreSources(read, n) /\ IsSource(f) => AreSources(rs, n + 1)

\* What has been read, with one source more
LEMMA OneMore ==
  ASSUME NEW read, NEW f, IsSeq(read), NEW n, n = Len(read), NEW rs, rs = Append(read, f)
  PROVE  Appended(read, f, n, rs)
<1>1. n \in Nat /\ read \in Seq(ToSet(read))
  BY DEF IsSeq
<1>2. IsSeq(rs)
  BY AppendSeq
<1>3. Len(rs) = n + 1 /\ rs[n + 1] = f /\ \A i \in 1..n : rs[i] = read[i]
  BY <1>1
<1>4. \A k \in 0..n : Sources(rs, k) = Sources(read, k)
  <2> TAKE k \in 0..n
  <2>1. k \in Nat /\ \A i \in 1..k : rs[i] = read[i]
    BY <1>1, <1>3
  <2> QED
    BY <2>1, SourcesSame
<1>5. Sources(rs, n + 1) = SerialSource(Sources(rs, n), rs[n + 1])
  BY <1>1, SourcesStep
<1>6. Sources(rs, n) = Sources(read, n)
  BY <1>1, <1>4
<1>7. AreSources(read, n) /\ IsSource(f) => AreSources(rs, n + 1)
  <2>1. \A i \in 1..(n + 1) : i = n + 1 \/ i \in 1..n
    BY <1>1
  <2> QED
    BY <1>3, <2>1 DEF AreSources
<1> QED
  BY <1>1, <1>2, <1>3, <1>4, <1>5, <1>6, <1>7 DEF Appended

\* What a plan knows after one more source that the serial transform takes
LEMMA ReadGrows ==
  ASSUME NEW j, NEW sum, SumTrue(sum), NEW q, q = Grown(j, sum),
         IsPlan(j), j.error = "none", IsSeq(j.read), AreSources(j.read, Len(j.read)),
         NEW s, s = Sources(j.read, Len(j.read)), s.error = "none", s.first = j.first, s.v.previous = j.global,
         Suits(s, sum.file),
         j.last = IF Len(sum.file.rows) > 0 THEN sum.file.rows[Len(sum.file.rows)].seq ELSE s.v.seq
  PROVE  ReadTrue(q)
<1>1. PICK f, read, n, rs : f = sum.file /\ read = j.read /\ n = Len(read) /\ rs = Append(read, f)
  OBVIOUS
<1>2. IsSource(f) /\ sum.resets = All(f) /\ sum.final = End(f).v.previous
  BY <1>1 DEF SumTrue
<1>3. /\ n \in Nat /\ IsSeq(rs) /\ Len(rs) = n + 1
      /\ Sources(rs, n + 1) = SerialSource(Sources(read, n), f) /\ AreSources(rs, n + 1)
  <2>1. IsSeq(read) /\ AreSources(read, n) /\ IsSource(f)
    BY <1>1, <1>2
  <2>2. Appended(read, f, n, rs)
    BY <1>1, <2>1, OneMore
  <2> QED
    BY <1>1, <2>1, <2>2 DEF Appended
<1>4. IsState(s)
  BY <1>1, <1>3, SourcesState
<1>5. PICK x : x = SerialSource(s, f)
  OBVIOUS
<1>6. Taken(s, f)
  BY <1>2, <1>4, SourceTaken
<1>7. x.error = "none"
  BY <1>1, <1>5, <1>6 DEF Taken
<1>8. /\ Beyond(x.v, End(f).v, s.v.previous, All(f)) /\ x.first = (IF s.first = None THEN f.context ELSE s.first)
      /\ Len(f.rows) > 0 => x.v.seq = f.rows[Len(f.rows)].seq
      /\ Len(f.rows) = 0 => x.v = s.v
  BY <1>5, <1>6, <1>7 DEF Taken
<1>9. x.v.seq = j.last
  <2>1. Len(f.rows) \in Nat
    BY <1>2 DEF IsSource, IsSeq
  <2> QED
    BY <1>1, <1>8, <2>1
<1>10. /\ IsPlan(q) /\ q.last = j.last /\ q.read = rs /\ q.error = "none"
       /\ q.first = (IF j.first = None THEN f.context ELSE j.first)
       /\ q.global = Over(Keep(j.global, DOMAIN j.global \ sum.resets), sum.final)
  <2>1. /\ IsPlan(q) /\ q.last = j.last /\ q.read = Append(j.read, sum.file) /\ q.error = j.error
        /\ q.first = (IF j.first = None THEN sum.file.context ELSE j.first)
        /\ q.global = Over(Keep(j.global, DOMAIN j.global \ sum.resets), sum.final)
    BY GrownIs DEF Grows
  <2> QED
    BY <1>1, <2>1
<1>11. x.v.previous = q.global
  BY <1>2, <1>8, <1>10 DEF Beyond
<1>12. Sources(rs, n + 1) = x
  BY <1>1, <1>3, <1>5
<1> QED
  BY <1>3, <1>7, <1>8, <1>9, <1>10, <1>11, <1>12 DEF ReadTrue

\* The groups stay as they are.
LEMMA GroupsStay ==
  ASSUME NEW j, NEW q, GroupsTrue(j), Len(j.read) \in Nat, q.groups = j.groups, q.from = j.from,
         Len(q.read) = Len(j.read) + 1, \A i \in 1..Len(j.read) : q.read[i] = j.read[i]
  PROVE  GroupsTrue(q)
<1>1. PICK read, rs, n, gs, from : read = j.read /\ rs = q.read /\ n = Len(read) /\ gs = j.groups /\ from = j.from
  OBVIOUS
<1>2. n \in Nat /\ Len(rs) = n + 1 /\ \A i \in 1..n : rs[i] = read[i]
  BY <1>1
<1>3. from \in 1..(n + 1)
  BY <1>1 DEF GroupsTrue
<1>4. ASSUME NEW k \in 1..Len(gs)
      PROVE  GroupTrue(rs, gs[k])
  <2>1. PICK g : g = gs[k]
    OBVIOUS
  <2>2. GroupTrue(read, g) /\ g.end <= from
    BY <1>1, <2>1 DEF GroupsTrue
  <2>3. g.end \in Nat
    BY <2>2 DEF GroupTrue
  <2>4. \A i \in 1..(g.end - 1) : read[i] = rs[i]
    BY <1>2, <1>3, <2>2, <2>3
  <2> QED
    BY <2>1, <2>2, <2>4, GroupStays
<1>5. from \in 1..(Len(rs) + 1)
  BY <1>2, <1>3
<1> QED
  BY <1>1, <1>4, <1>5 DEF GroupsTrue

\* The open group takes a source of its context whose processes are all touched.
LEMMA GroupGrows ==
  ASSUME NEW j, NEW sum, NEW q, q = Grown(j, sum), IsPlan(j), IsSeq(j.read), j.from \in 1..(Len(j.read) + 1),
         GroupOpen(j), TouchedBy(sum) \subseteq j.group.touched,
         Len(sum.file.rows) > 0 => sum.file.context = j.group.context,
         \A k \in 1..Len(sum.file.rows) : Ids(sum.file.rows[k]) \subseteq TouchedBy(sum)
  PROVE  GroupOpen(q)
<1>1. PICK f, read, n, rs, g, from, before :
        /\ f = sum.file /\ read = j.read /\ n = Len(read) /\ rs = Append(read, f) /\ g = j.group /\ from = j.from
        /\ before = Sources(read, from - 1)
  OBVIOUS
<1>2. Appended(read, f, n, rs)
  BY <1>1, OneMore
<1>3. n \in Nat /\ Len(rs) = n + 1 /\ rs[n + 1] = f /\ \A i \in 1..n : rs[i] = read[i]
  BY <1>2 DEF Appended
<1>4. from \in 1..(n + 1)
  BY <1>1
<1>5. q.group = g /\ q.from = from /\ q.read = rs /\ q.global = Over(Keep(j.global, DOMAIN j.global \ sum.resets), sum.final)
  BY <1>1, GrownIs DEF Grows
<1>6. /\ IsGroup(g) /\ g.start = from /\ g.context # None
      /\ \A i \in from..n : Len(read[i].rows) > 0 => read[i].context = g.context
      /\ Named(read, from, n + 1) \subseteq g.touched /\ DOMAIN g.seed \subseteq g.touched
      /\ Starts(before, g.context, g.seed, g.last, g.touched)
      /\ \A i \in (DOMAIN j.global \cup DOMAIN before.v.previous) \ g.touched :
            i \in DOMAIN j.global /\ i \in DOMAIN before.v.previous /\ j.global[i] = before.v.previous[i]
  BY <1>1 DEF GroupOpen
<1>7. Sources(rs, from - 1) = before
  <2>1. \A k \in 0..n : Sources(rs, k) = Sources(read, k)
    BY <1>2 DEF Appended
  <2>2. from - 1 \in 0..n
    BY <1>3, <1>4
  <2> QED
    BY <1>1, <2>1, <2>2
<1>8. \A i \in from..(n + 1) : Len(rs[i].rows) > 0 => rs[i].context = g.context
  <2>1. \A i \in from..(n + 1) : i = n + 1 \/ (i \in from..n /\ i \in 1..n)
    BY <1>3, <1>4
  <2> QED
    BY <1>1, <1>3, <1>6, <2>1
<1>9. Named(rs, from, (n + 1) + 1) \subseteq g.touched
  <2>1. \A i \in from..(((n + 1) + 1) - 1) : i = n + 1 \/ (i \in from..((n + 1) - 1) /\ i \in 1..n)
    BY <1>3, <1>4
  <2>2. ASSUME NEW i \in from..(((n + 1) + 1) - 1)
        PROVE  UNION {Ids(rs[i].rows[k]) : k \in 1..Len(rs[i].rows)} \subseteq g.touched
    <3>1. CASE i = n + 1
      BY <1>1, <1>3, <3>1
    <3>2. CASE i \in from..((n + 1) - 1) /\ i \in 1..n
      <4>1. UNION {Ids(read[i].rows[k]) : k \in 1..Len(read[i].rows)} \subseteq Named(read, from, n + 1)
        BY <3>2 DEF Named
      <4> QED
        BY <1>3, <1>6, <3>2, <4>1
    <3> QED
      BY <2>1, <3>1, <3>2
  <2> QED
    BY <2>2 DEF Named
<1>10. ASSUME NEW i \in (DOMAIN q.global \cup DOMAIN before.v.previous) \ g.touched
       PROVE  i \in DOMAIN q.global /\ i \in DOMAIN before.v.previous /\ q.global[i] = before.v.previous[i]
  <2>1. i \notin sum.resets /\ i \notin DOMAIN sum.final
    BY <1>1 DEF TouchedBy
  <2>2. i \in DOMAIN q.global <=> i \in DOMAIN j.global
    BY <1>5, <2>1 DEF Over, Keep
  <2>3. i \in DOMAIN q.global => q.global[i] = j.global[i]
    BY <1>5, <2>1 DEF Over, Keep
  <2> QED
    BY <1>6, <2>2, <2>3
<1>11. /\ \A i \in q.from..Len(q.read) : Len(q.read[i].rows) > 0 => q.read[i].context = g.context
       /\ Named(q.read, q.from, Len(q.read) + 1) \subseteq g.touched
       /\ Starts(Sources(q.read, q.from - 1), g.context, g.seed, g.last, g.touched)
  BY <1>3, <1>5, <1>6, <1>7, <1>8, <1>9
<1>12. Sources(q.read, q.from - 1) = before
  BY <1>5, <1>7
<1> QED
  BY <1>5, <1>6, <1>10, <1>11, <1>12, Zenon DEF GroupOpen

\* The first and the last row of a source
LEMMA EndsOf ==
  ASSUME NEW rows, IsSeq(rows)
  PROVE  /\ Len(rows) \in Nat /\ (rows = <<>> <=> Len(rows) = 0)
         /\ Len(rows) > 0 => Head(rows) = rows[1] /\ Last(rows) = rows[Len(rows)]
<1>1. rows \in Seq(ToSet(rows))
  BY DEF IsSeq
<1> QED
  BY <1>1 DEF Last

\* What Fold does
LEMMA FoldIs ==
  ASSUME NEW p, NEW i, NEW sum, p.error = "none", NEW q, q = Fold(p, i, sum),
         NEW j, j = IF sum.file.rows = <<>> THEN p ELSE JoinGroup(p, i, sum)
  PROVE  \/ p.first # None /\ p.first[1] # sum.file.context[1] /\ q = [p EXCEPT !.error = "stream"]
         \/ sum.file.rows # <<>> /\ p.last # Never /\ Head(sum.file.rows).seq <= p.last /\ q = [p EXCEPT !.error = "order"]
         \/ j.error # "none" /\ q = j
         \/ /\ ~(p.first # None /\ p.first[1] # sum.file.context[1])
            /\ ~(sum.file.rows # <<>> /\ p.last # Never /\ Head(sum.file.rows).seq <= p.last)
            /\ j.error = "none" /\ q = Grown(j, sum)
BY Zenon DEF Fold, Grown

\* A source joins a plan.
Folded(p, sum, q) ==
  /\ q.error \in {"none", "stream", "order", "too many"}
  /\ q.error = "none" => PlanTrue(q) /\ q.read = Append(p.read, sum.file)
  /\ q.error \in {"stream", "order"} => ~Suits(Sources(p.read, Len(p.read)), sum.file)

\* What is true of a plan stays true of its groups when a source joins.
LEMMA JoinedTrue ==
  ASSUME NEW p, NEW sum, PlanTrue(p), SumTrue(sum), NEW i, i = Len(p.read) + 1, Len(sum.file.rows) > 0,
         NEW j, j = JoinGroup(p, i, sum), j.error = "none"
  PROVE  /\ IsPlan(j) /\ j.global = p.global /\ j.first = p.first /\ j.read = p.read
         /\ j.last = sum.file.rows[Len(sum.file.rows)].seq
         /\ GroupsTrue(j) /\ GroupOpen(j) /\ TouchedBy(sum) \subseteq j.group.touched
         /\ j.group.context = sum.file.context
<1>1. PICK context, ids, o : context = sum.file.context /\ ids = TouchedBy(sum) /\ o = OpenedFor(p, i, context)
  OBVIOUS
<1>2. IsPlan(p) /\ IsSource(sum.file)
  BY DEF PlanTrue, ReadTrue, SumTrue
<1>3. context # None /\ IsSeq(sum.file.rows)
  BY <1>1, <1>2 DEF IsSource
<1>4. /\ ReadTrue(o) /\ GroupsTrue(o) /\ GroupOpen(o) /\ o.group.context = context /\ o.read = p.read
      /\ o.global = p.global /\ o.last = p.last /\ o.first = p.first
  <2>1. Opened(p, context, o)
    BY <1>1, <1>3, OpenedTrue
  <2> QED
    BY <2>1 DEF Opened
<1>5. IsPlan(o) /\ IsGroup(o.group)
  BY <1>4 DEF ReadTrue, GroupOpen
<1>6. j = Lasting(Touch(o, ids), Last(sum.file.rows).seq)
  <2>1. Refused(p).error # "none"
    BY <1>2 DEF IsPlan, Refused
  <2> QED
    BY <1>1, <2>1, JoinGroupIs
<1>7. PICK h, t : h = TouchedGroup(o, ids) /\ t = Opening(o, h)
  OBVIOUS
<1>8. Touch(o, ids) = t
  BY <1>5, <1>7, TouchIs
<1>9. /\ IsPlan(t) /\ t.global = o.global /\ t.last = o.last /\ t.first = o.first /\ t.group = h
      /\ t.from = o.from /\ t.groups = o.groups /\ t.read = o.read /\ t.error = o.error
  BY <1>5, <1>7, OpeningIs
<1>10. PICK l : l = Last(sum.file.rows).seq
  OBVIOUS
<1>11. j = [t EXCEPT !.last = l]
  BY <1>6, <1>8, <1>10 DEF Lasting
<1>12. /\ IsPlan(j) /\ j.global = t.global /\ j.last = l /\ j.first = t.first /\ j.group = h
       /\ j.from = t.from /\ j.groups = t.groups /\ j.read = t.read
  BY <1>9, <1>11 DEF IsPlan
<1>13. GroupsTrue(j)
  BY <1>4, <1>9, <1>12 DEF GroupsTrue
<1>14. PICK before : before = Sources(o.read, o.from - 1)
  OBVIOUS
<1>15. /\ IsGroup(h) /\ h.start = o.from /\ h.context = o.group.context /\ h.last = o.group.last
       /\ h.touched = o.group.touched \cup ids /\ DOMAIN h.seed \subseteq h.touched
       /\ Starts(before, h.context, h.seed, h.last, h.touched)
  BY <1>4, <1>5, <1>7, <1>14, TouchTrue
<1>16. /\ o.group.context # None
       /\ \A k \in o.from..Len(o.read) : Len(o.read[k].rows) > 0 => o.read[k].context = o.group.context
       /\ Named(o.read, o.from, Len(o.read) + 1) \subseteq o.group.touched
       /\ \A k \in (DOMAIN o.global \cup DOMAIN before.v.previous) \ o.group.touched :
            k \in DOMAIN o.global /\ k \in DOMAIN before.v.previous /\ o.global[k] = before.v.previous[k]
  BY <1>4, <1>14 DEF GroupOpen
<1>17. GroupOpen(j)
  <2>1. j.group = h /\ j.from = o.from /\ j.read = o.read /\ j.global = o.global
    BY <1>9, <1>12
  <2>2. \A k \in j.from..Len(j.read) : Len(j.read[k].rows) > 0 => j.read[k].context = h.context
    BY <1>15, <1>16, <2>1
  <2>3. Named(j.read, j.from, Len(j.read) + 1) \subseteq h.touched
    BY <1>15, <1>16, <2>1
  <2>4. Sources(j.read, j.from - 1) = before
    BY <1>14, <2>1
  <2>5. \A k \in (DOMAIN j.global \cup DOMAIN before.v.previous) \ h.touched :
            k \in DOMAIN j.global /\ k \in DOMAIN before.v.previous /\ j.global[k] = before.v.previous[k]
    BY <1>15, <1>16, <2>1
  <2>6. IsGroup(h) /\ h.start = j.from /\ h.context # None /\ DOMAIN h.seed \subseteq h.touched
        /\ Starts(before, h.context, h.seed, h.last, h.touched)
    BY <1>15, <1>16, <2>1
  <2> QED
    BY <2>1, <2>2, <2>3, <2>4, <2>5, <2>6 DEF GroupOpen
<1>18. l = sum.file.rows[Len(sum.file.rows)].seq
  BY <1>3, <1>10, EndsOf
<1> QED
  BY <1>1, <1>4, <1>9, <1>12, <1>13, <1>15, <1>17, <1>18

\* Folding the summary of a source keeps what is true of a plan.
LEMMA FoldTrue ==
  ASSUME NEW p, NEW sum, PlanTrue(p), SumTrue(sum), NEW i, i = Len(p.read) + 1, NEW q, q = Fold(p, i, sum)
  PROVE  Folded(p, sum, q)
<1>1. PICK f, read, n, s, x, j :
        /\ f = sum.file /\ read = p.read /\ n = Len(read) /\ s = Sources(read, n) /\ x = SerialSource(s, f)
        /\ j = IF f.rows = <<>> THEN p ELSE JoinGroup(p, i, sum)
  OBVIOUS
<1>2. /\ IsPlan(p) /\ p.error = "none" /\ IsSeq(read) /\ AreSources(read, n) /\ s.error = "none" /\ s.first = p.first
      /\ s.v.previous = p.global /\ s.v.seq = p.last /\ GroupsTrue(p)
  BY <1>1 DEF PlanTrue, ReadTrue
<1>3. IsSource(f) /\ End(f).ok /\ sum.resets = All(f) /\ sum.final = End(f).v.previous
  BY <1>1 DEF SumTrue
<1>4. n \in Nat
  BY <1>1, <1>2 DEF IsSeq
<1>5. IsState(s) /\ (n > 0 => s.first # None)
  BY <1>1, <1>2, <1>4, SourcesState
<1>6. /\ Len(f.rows) \in Nat /\ (f.rows = <<>> <=> Len(f.rows) = 0)
      /\ Len(f.rows) > 0 => Head(f.rows) = f.rows[1]
  BY <1>3, EndsOf DEF IsSource
<1>7. p.last \in Nat
  BY <1>2, <1>5 DEF IsState, IsValidator
<1>8. CASE p.first # None /\ p.first[1] # f.context[1] /\ q = [p EXCEPT !.error = "stream"]
  <2>1. q.error = "stream"
    BY <1>2, <1>8 DEF IsPlan
  <2>2. ~Suits(s, f)
    BY <1>2, <1>8 DEF Suits, Fits
  <2> QED
    BY <1>1, <2>1, <2>2 DEF Folded
<1>9. CASE f.rows # <<>> /\ p.last # Never /\ Head(f.rows).seq <= p.last /\ q = [p EXCEPT !.error = "order"]
  <2>1. q.error = "order"
    BY <1>2, <1>9 DEF IsPlan
  <2>2. f.rows[1].seq \in Nat
    <3>1. 1 \in 1..Len(f.rows) /\ AreRows(f.rows, Len(f.rows))
      BY <1>3, <1>6, <1>9 DEF IsSource
    <3> QED
      BY <3>1 DEF AreRows, IsRow
  <2>3. ~Suits(s, f)
    BY <1>2, <1>6, <1>7, <1>9, <2>2 DEF Suits
  <2> QED
    BY <1>1, <2>1, <2>3 DEF Folded
<1>10. CASE j.error # "none" /\ q = j
  <2>1. j = JoinGroup(p, i, sum)
    BY <1>1, <1>2, <1>10
  <2>2. j.error = "too many"
    <3>1. CASE j = Refused(p)
      BY <1>2, <3>1 DEF IsPlan, Refused
    <3>2. CASE j = Lasting(Touch(OpenedFor(p, i, f.context), TouchedBy(sum)), Last(f.rows).seq)
      <4>1. PICK o, t, ids, l : /\ o = OpenedFor(p, i, f.context) /\ ids = TouchedBy(sum) /\ t = Touch(o, ids)
                                /\ l = Last(f.rows).seq
        OBVIOUS
      <4>2. f.context # None
        BY <1>3 DEF IsSource
      <4>3. ReadTrue(o) /\ GroupOpen(o)
        BY <1>1, <4>1, <4>2, OpenedTrue DEF Opened
      <4>4. IsPlan(o) /\ IsGroup(o.group) /\ o.error = "none"
        BY <4>3 DEF ReadTrue, GroupOpen
      <4>5. PICK h : h = TouchedGroup(o, ids)
        OBVIOUS
      <4>6. t = Opening(o, h)
        BY <4>1, <4>4, <4>5, TouchIs
      <4>7. IsPlan(t) /\ t.error = "none"
        BY <4>4, <4>6, OpeningIs
      <4>8. j = [t EXCEPT !.last = l]
        BY <3>2, <4>1 DEF Lasting
      <4>9. j.error = "none"
        BY <4>7, <4>8 DEF IsPlan
      <4> QED
        BY <1>10, <4>9
    <3> QED
      BY <1>1, <2>1, <3>1, <3>2, JoinGroupIs
  <2> QED
    BY <1>10, <2>2 DEF Folded
<1>11. CASE /\ ~(p.first # None /\ p.first[1] # f.context[1])
            /\ ~(f.rows # <<>> /\ p.last # Never /\ Head(f.rows).seq <= p.last)
            /\ j.error = "none" /\ q = Grown(j, sum)
  <2>1. Suits(s, f)
    <3>1. Fits(s, f.context)
      BY <1>2, <1>11 DEF Fits
    <3>2. ASSUME Len(f.rows) > 0
          PROVE  f.rows[1].seq > s.v.seq
      <4>1. f.rows[1].seq \in Nat \ {0}
        <5>1. 1 \in 1..Len(f.rows) /\ AreRows(f.rows, Len(f.rows))
          BY <1>3, <1>6, <3>2 DEF IsSource
        <5> QED
          BY <5>1 DEF AreRows, IsRow
      <4> QED
        BY <1>2, <1>6, <1>7, <1>11, <3>2, <4>1 DEF Never
    <3> QED
      BY <1>3, <3>1, <3>2 DEF Suits
  <2>2. Taken(s, f)
    BY <1>2, <1>3, <1>5, SourceTaken
  <2>3. x.error = "none" /\ \A k \in 1..Len(f.rows) : Ids(f.rows[k]) \subseteq TouchedBy(sum)
    BY <1>1, <1>3, <2>1, <2>2 DEF Taken, TouchedBy
  <2>4. q.read = Append(p.read, f) /\ q.error = "none" /\ q.group = j.group /\ q.from = j.from /\ q.groups = j.groups
        /\ q.last = j.last /\ q.global = Over(Keep(j.global, DOMAIN j.global \ sum.resets), sum.final)
        /\ IsPlan(j) /\ j.read = p.read /\ j.global = p.global /\ j.first = p.first
        /\ j.last = (IF Len(f.rows) > 0 THEN f.rows[Len(f.rows)].seq ELSE s.v.seq)
    <3>1. IsPlan(j) /\ j.read = p.read /\ j.global = p.global /\ j.first = p.first
          /\ j.last = (IF Len(f.rows) > 0 THEN f.rows[Len(f.rows)].seq ELSE s.v.seq)
      <4>1. CASE Len(f.rows) > 0
        <5>1. j = JoinGroup(p, i, sum) /\ Len(sum.file.rows) > 0 /\ j.error = "none"
          BY <1>1, <1>6, <1>11, <4>1
        <5>2. /\ IsPlan(j) /\ j.global = p.global /\ j.first = p.first /\ j.read = p.read
              /\ j.last = sum.file.rows[Len(sum.file.rows)].seq
          BY <5>1, JoinedTrue
        <5> QED
          BY <1>1, <4>1, <5>2
      <4>2. CASE Len(f.rows) = 0
        BY <1>1, <1>2, <1>6, <4>2
      <4> QED
        BY <1>6, <4>1, <4>2
    <3>2. Grows(j, sum, q)
      BY <1>11, <3>1, GrownIs
    <3> QED
      BY <1>1, <1>11, <3>1, <3>2 DEF Grows
  <2>5. ReadTrue(q)
    <3>1. s = Sources(j.read, Len(j.read)) /\ IsSeq(j.read) /\ AreSources(j.read, Len(j.read))
      BY <1>1, <1>2, <2>4
    <3> QED
      BY <1>1, <1>2, <1>11, <2>1, <2>4, <3>1, ReadGrows
  <2>6. PICK rs : rs = Append(read, f)
    OBVIOUS
  <2>7. Appended(read, f, n, rs)
    BY <1>1, <1>2, <2>6, OneMore
  <2>8. /\ Len(rs) = n + 1 /\ rs[n + 1] = f /\ (\A k \in 1..n : rs[k] = read[k]) /\ q.read = rs
        /\ Sources(rs, n + 1) = x
    BY <1>1, <2>4, <2>6, <2>7 DEF Appended
  <2>9. CASE Len(f.rows) > 0
    <3>1. j = JoinGroup(p, i, sum) /\ Len(sum.file.rows) > 0 /\ j.error = "none"
      BY <1>1, <1>6, <1>11, <2>9
    <3>2. /\ GroupsTrue(j) /\ GroupOpen(j) /\ TouchedBy(sum) \subseteq j.group.touched
          /\ j.group.context = sum.file.context
      BY <3>1, JoinedTrue
    <3>3. GroupsTrue(q)
      BY <1>1, <1>4, <2>4, <2>8, <3>2, GroupsStay
    <3>4. j.from \in 1..(Len(j.read) + 1) /\ IsSeq(j.read)
      BY <1>1, <1>2, <2>4, <3>2 DEF GroupsTrue
    <3>5. GroupOpen(q)
      BY <1>1, <1>11, <2>3, <2>4, <3>2, <3>4, GroupGrows
    <3>6. q.group # None
      BY <3>5, GroupIsSome DEF GroupOpen
    <3>7. q.from <= Len(q.read)
      BY <1>1, <1>4, <2>4, <2>8, <3>4
    <3>8. x.ctx = f.context
      BY <1>1, <2>2, <2>3, <2>9 DEF Taken
    <3> QED
      <4>1. Sources(q.read, Len(q.read)).ctx = q.group.context
        BY <1>1, <2>4, <2>8, <3>2, <3>8
      <4>2. PlanTrue(q)
        BY <2>5, <3>3, <3>5, <3>6, <3>7, <4>1 DEF PlanTrue
      <4> QED
        BY <1>1, <2>4, <4>2 DEF Folded
  <2>10. CASE Len(f.rows) = 0
    <3>1. j = p
      BY <1>1, <1>6, <2>10
    <3>2. GroupsTrue(q)
      BY <1>1, <1>2, <1>4, <2>4, <2>8, <3>1, GroupsStay
    <3>3. End(f) = Blank /\ All(f) = {}
      <4>1. 1..0 = {}
        OBVIOUS
      <4> QED
        BY <2>10, <4>1, CheckedFirst DEF End, All, ResetsTo
    <3>4. sum.resets = {} /\ sum.final = Nothing /\ TouchedBy(sum) = {}
      BY <1>3, <3>3, BlankIs DEF TouchedBy
    <3>5. CASE p.group = None
      <4>1. Empty(p)
        BY <3>5 DEF PlanTrue
      <4>2. q.global = Nothing
        <5>1. q.global = Over(Keep(Nothing, DOMAIN Nothing \ {}), Nothing)
          BY <2>4, <3>1, <3>4, <4>1 DEF Empty
        <5>2. Over(Keep(Nothing, DOMAIN Nothing \ {}), Nothing) = Nothing
          BY DEF Over, Keep, Nothing
        <5> QED
          BY <5>1, <5>2
      <4>3. \A k \in 1..(n + 1) : Len(rs[k].rows) = 0
        <5>1. \A k \in 1..(n + 1) : k = n + 1 \/ k \in 1..n
          BY <1>4
        <5> QED
          BY <1>1, <2>8, <2>10, <4>1, <5>1 DEF Empty
      <4>4. Empty(q)
        BY <2>4, <2>8, <3>1, <4>1, <4>2, <4>3 DEF Empty
      <4> QED
        BY <1>1, <2>4, <2>5, <2>8, <3>1, <3>2, <3>5, <4>4 DEF PlanTrue, Folded
    <3>6. CASE p.group # None
      <4>1. GroupOpen(p) /\ p.from <= n /\ s.ctx = p.group.context /\ p.from \in 1..(n + 1)
        BY <1>1, <1>2, <3>6 DEF PlanTrue, GroupsTrue
      <4>2. TouchedBy(sum) \subseteq j.group.touched /\ IsSeq(j.read) /\ j.from \in 1..(Len(j.read) + 1) /\ GroupOpen(j)
        BY <1>1, <1>2, <2>4, <3>1, <3>4, <4>1
      <4>3. GroupOpen(q)
        BY <1>1, <1>11, <2>3, <2>4, <2>10, <4>2, GroupGrows
      <4>4. x.ctx = s.ctx
        <5>1. s.first # None
          BY <1>4, <1>5, <4>1
        <5> QED
          BY <1>1, <2>2, <2>3, <2>10, <5>1 DEF Taken
      <4>5. q.from <= Len(q.read)
        BY <1>4, <2>4, <2>8, <3>1, <4>1
      <4> QED
        BY <1>1, <2>4, <2>5, <2>8, <3>1, <3>2, <3>6, <4>1, <4>3, <4>4, <4>5 DEF PlanTrue, Folded
    <3> QED
      BY <3>5, <3>6
  <2> QED
    BY <1>6, <2>9, <2>10
<1> QED
  <2>1. \/ p.first # None /\ p.first[1] # sum.file.context[1] /\ q = [p EXCEPT !.error = "stream"]
        \/ sum.file.rows # <<>> /\ p.last # Never /\ Head(sum.file.rows).seq <= p.last /\ q = [p EXCEPT !.error = "order"]
        \/ j.error # "none" /\ q = j
        \/ /\ ~(p.first # None /\ p.first[1] # sum.file.context[1])
           /\ ~(sum.file.rows # <<>> /\ p.last # Never /\ Head(sum.file.rows).seq <= p.last)
           /\ j.error = "none" /\ q = Grown(j, sum)
    BY <1>1, <1>2, FoldIs
  <2> QED
    BY <1>1, <1>8, <1>9, <1>10, <1>11, <2>1

-----------------------------------------------------------------------------
(* The whole plan                                                           *)

PlanDone(p) ==
  /\ IsSeq(p.read) /\ Len(p.read) = N /\ AreSources(p.read, N) /\ Sources(p.read, N).error = "none"
  /\ IsSeq(p.groups) /\ Len(p.groups) > 0 /\ p.groups[Len(p.groups)].end = N + 1
  /\ \A k \in 1..Len(p.groups) : /\ GroupTrue(p.read, p.groups[k]) /\ p.groups[k].end <= N + 1
                                 /\ p.groups[k].start = IF k = 1 THEN 1 ELSE p.groups[k - 1].end

\* The group of a plan without rows
Whole(p) == [start |-> 1, end |-> N + 1, context |-> p.first, seed |-> Nothing, last |-> Never]

\* When every source has been read, the groups are those of a whole plan.
LEMMA PlannedTrue ==
  ASSUME NEW p, PlanTrue(p), Len(p.read) = N, NEW q, q = Planned(p)
  PROVE  PlanDone(q) /\ q.read = p.read /\ q.error = "none"
<1>1. N \in Nat \ {0}
  BY TransformAssumption
<1>2. /\ IsPlan(p) /\ p.error = "none" /\ IsSeq(p.read) /\ AreSources(p.read, N)
      /\ Sources(p.read, N).error = "none" /\ Sources(p.read, N).first = p.first
  BY DEF PlanTrue, ReadTrue
<1>3. CASE p.group # None
  <2>1. q = Close(p, N + 1)
    BY <1>2, <1>3 DEF Planned
  <2>2. ReadTrue(q) /\ GroupsTrue(q) /\ q.read = p.read /\ q.from = N + 1 /\ Len(q.groups) > 0
    BY <1>3, <2>1, ClosedTrue
  <2>3. q.groups[Len(q.groups)].end = N + 1
    BY <2>2 DEF GroupsTrue
  <2> QED
    BY <1>2, <2>2, <2>3 DEF ReadTrue, GroupsTrue, PlanDone
<1>4. CASE p.group = None
  <2>1. PICK g : g = Whole(p)
    OBVIOUS
  <2>2. q = [p EXCEPT !.groups = <<g>>]
    BY <1>2, <1>4, <2>1 DEF Planned, Whole
  <2>3. q.groups = <<g>> /\ q.read = p.read /\ q.error = "none"
    BY <1>2, <2>2 DEF IsPlan
  <2>4. g.start = 1 /\ g.end = N + 1 /\ g.context = p.first /\ g.seed = Nothing /\ g.last = 0
    BY <2>1 DEF Whole, Never
  <2>5. p.first # None
    BY <1>1, <1>2, SourcesState
  <2>6. \A i \in 1..N : Len(p.read[i].rows) = 0
    BY <1>4 DEF PlanTrue, Empty
  <2>7. Named(p.read, 1, N + 1) = {}
    <3>1. \A i \in 1..((N + 1) - 1) : 1..Len(p.read[i].rows) = {}
      BY <1>1, <2>6
    <3> QED
      BY <3>1 DEF Named
  <2>8. Starts(Sources(p.read, 0), p.first, Nothing, 0, {})
    <3>1. NoSerial.v.seq = 0
      BY NoSerialIs, BlankIs DEF Blank
    <3> QED
      BY <3>1, NoSerialIs, StartsBlank, SourcesFirst
  <2>9. GroupTrue(p.read, g)
    <3>1. \A i \in g.start..(g.end - 1) : Len(p.read[i].rows) > 0 => p.read[i].context = g.context
      <4>1. g.start..(g.end - 1) = 1..N
        BY <1>1, <2>4
      <4>2. \A i \in 1..N : ~(Len(p.read[i].rows) > 0)
        BY <2>6
      <4> QED
        BY <4>1, <4>2
    <3>2. g.start \in Nat \ {0} /\ g.end \in Nat /\ g.start < g.end /\ g.context # None
      BY <1>1, <2>4, <2>5
    <3>3. g.start - 1 = 0
      BY <2>4
    <3>4. Starts(Sources(p.read, g.start - 1), g.context, g.seed, g.last, Named(p.read, g.start, g.end))
      BY <2>4, <2>7, <2>8, <3>3
    <3> QED
      BY <3>1, <3>2, <3>4 DEF GroupTrue
  <2>10. IsSeq(<<g>>) /\ Len(<<g>>) = 1 /\ <<g>>[1] = g
    <3>1. <<g>> \in Seq({g}) /\ Len(<<g>>) = 1 /\ <<g>>[1] = g
      OBVIOUS
    <3> QED
      BY <3>1, SeqIs
  <2> QED
    BY <1>1, <1>2, <2>3, <2>4, <2>9, <2>10 DEF PlanDone
<1> QED
  BY <1>3, <1>4

-----------------------------------------------------------------------------
\* Beginnings
Begins(a, c) == IsSeq(a) /\ \E b : IsSeq(b) /\ c = a \o b

\* A sequence begins each one that goes on after it.
LEMMA BeginsConcat ==
  ASSUME NEW a, NEW b, IsSeq(a), IsSeq(b)
  PROVE  Begins(a, a \o b)
BY DEF Begins

\* It begins itself.
LEMMA BeginsSelf ==
  ASSUME NEW a, IsSeq(a)
  PROVE  Begins(a, a)
BY ConcatEmpty, EmptyIsSeq DEF Begins

\* What begins a beginning begins the whole.
LEMMA BeginsOn ==
  ASSUME NEW a, NEW b, NEW c, Begins(a, b), Begins(b, c)
  PROVE  Begins(a, c)
<1>1. IsSeq(a)
  BY DEF Begins
<1>2. PICK x : IsSeq(x) /\ b = a \o x
  BY DEF Begins
<1>3. PICK y : IsSeq(y) /\ c = b \o y
  BY DEF Begins
<1>4. PICK z : z = x \o y
  OBVIOUS
<1>5. IsSeq(z)
  BY <1>2, <1>3, <1>4, ConcatSeq
<1>6. (a \o x) \o y = a \o (x \o y)
  BY <1>1, <1>2, <1>3, ConcatThree
<1>7. c = a \o z
  BY <1>2, <1>3, <1>4, <1>6
<1> QED
  BY <1>1, <1>5, <1>7 DEF Begins

\* a and the first k elements of b
LEMMA BeginsPart ==
  ASSUME NEW a, NEW b, IsSeq(a), IsSeq(b), NEW k \in 0..Len(b)
  PROVE  Begins(a \o SubSeq(b, 1, k), a \o b)
<1>1. PICK x, y : x = SubSeq(b, 1, k) /\ y = SubSeq(b, k + 1, Len(b))
  OBVIOUS
<1>2. PICK S : S = ToSet(b)
  OBVIOUS
<1>3. b \in Seq(S) /\ Len(b) \in Nat
  BY <1>2 DEF IsSeq
<1>4. x \in Seq(S) /\ y \in Seq(S) /\ Len(x) = k /\ Len(y) = Len(b) - k
  BY <1>1, <1>3
<1>5. IsSeq(x) /\ IsSeq(y)
  BY <1>4, SeqIs
<1>6. b = x \o y
  <2>1. x \o y \in Seq(S) /\ Len(x \o y) = Len(b)
    BY <1>3, <1>4
  <2>2. \A i \in 1..Len(b) : (x \o y)[i] = b[i]
    <3> SUFFICES ASSUME NEW i \in 1..Len(b)
                 PROVE  (x \o y)[i] = b[i]
      OBVIOUS
    <3>1. CASE i <= k
      <4>1. (x \o y)[i] = x[i]
        BY <1>3, <1>4, <3>1
      <4>2. x[i] = b[i]
        BY <1>1, <1>3, <3>1
      <4> QED
        BY <4>1, <4>2
    <3>2. CASE i > k
      <4>1. (x \o y)[i] = y[i - k]
        BY <1>3, <1>4, <3>2
      <4>2. y[i - k] = b[i]
        BY <1>1, <1>3, <3>2
      <4> QED
        BY <4>1, <4>2
    <3>3. i <= k \/ i > k
      BY <1>3
    <3> QED
      BY <3>1, <3>2, <3>3
  <2>3. PICK z, n : z = x \o y /\ n = Len(b)
    OBVIOUS
  <2>4. z \in Seq(S) /\ Len(z) = n /\ Len(b) = n /\ \A i \in 1..n : z[i] = b[i]
    BY <2>1, <2>2, <2>3
  <2>5. z = b
    BY <1>3, <2>4
  <2> QED
    BY <2>3, <2>5
<1>7. (a \o x) \o y = a \o (x \o y) /\ IsSeq(a \o x)
  BY <1>5, ConcatThree, ConcatSeq
<1>8. Begins(a \o x, (a \o x) \o y)
  BY <1>5, <1>7, BeginsConcat
<1> QED
  BY <1>1, <1>6, <1>7, <1>8

\* To begin a sequence is to be a prefix of it.
LEMMA BeginsIsPrefix ==
  ASSUME NEW a, NEW c, Begins(a, c)
  PROVE  IsPrefix(a, c)
<1>1. PICK b : IsSeq(a) /\ IsSeq(b) /\ c = a \o b
  BY DEF Begins
<1>2. PICK S : S = ToSet(a) \cup ToSet(b)
  OBVIOUS
<1>3. a \in Seq(S) /\ b \in Seq(S)
  BY <1>1, <1>2, Together
<1>4. SubSeq(a, 1, Len(a)) = a /\ SubSeq(a \o b, 1, Len(a)) = a /\ Len(a) <= Len(a \o b)
  BY <1>3
<1> QED
  BY <1>1, <1>4 DEF IsPrefix

-----------------------------------------------------------------------------
(* What the groups are replayed to is what the serial transform writes.     *)

\* The last source of the first k groups, and what the serial transform has written by then
Bound(p, k) == IF k = 0 THEN 0 ELSE p.groups[k].end - 1
Written(p, k) == Flushed(Sources(p.read, Bound(p, k)))

\* The archive of one group after the other
Extends(p, k) ==
  /\ Bound(p, k - 1) = p.groups[k].start - 1 /\ Bound(p, k) \in 1..N /\ Bound(p, k - 1) < Bound(p, k)
  /\ Bound(p, k - 1) \in 0..N
  /\ Replay(p.read, p.groups[k]).error = "none" /\ Replayable(p.read, p.groups[k])
  /\ IsSeq(Flushed(Replay(p.read, p.groups[k]))) /\ IsSeq(Written(p, k - 1)) /\ IsSeq(Written(p, k))
  /\ Written(p, k) = Written(p, k - 1) \o Flushed(Replay(p.read, p.groups[k]))

\* One more group adds its blocks to the archive, and its sources to those that are done.
LEMMA GroupsExtend ==
  ASSUME NEW p, PlanDone(p), NEW k \in 1..Len(p.groups)
  PROVE  Extends(p, k)
<1>1. PICK g, read : g = p.groups[k] /\ read = p.read
  OBVIOUS
<1>2. N \in Nat \ {0}
  BY TransformAssumption
<1>3. /\ AreSources(read, N) /\ Sources(read, N).error = "none" /\ GroupTrue(read, g) /\ g.end <= N + 1
      /\ g.start = (IF k = 1 THEN 1 ELSE p.groups[k - 1].end) /\ Len(p.groups) \in Nat
  BY <1>1 DEF PlanDone, IsSeq
<1>4. g.start \in Nat \ {0} /\ g.end \in Nat /\ g.start < g.end
  BY <1>3 DEF GroupTrue
<1>5. Bound(p, k) = g.end - 1 /\ Bound(p, k - 1) = g.start - 1
  BY <1>1, <1>3, <1>4 DEF Bound
<1>6. AreSources(read, g.end - 1)
  BY <1>2, <1>3, <1>4 DEF AreSources
<1>7. Sources(read, g.end - 1).error = "none"
  <2>1. g.end - 1 \in 0..N
    BY <1>2, <1>3, <1>4
  <2> QED
    BY <1>2, <1>3, <2>1, SourcesStop
<1>8. PICK t, x, y : t = Replay(read, g) /\ x = Flushed(Sources(read, g.start - 1)) /\ y = Flushed(Sources(read, g.end - 1))
  OBVIOUS
<1>9. /\ t.error = "none" /\ IsSeq(Flushed(t)) /\ IsSeq(x) /\ y = x \o Flushed(t) /\ Replayable(read, g)
  BY <1>3, <1>6, <1>7, <1>8, ReplayIs
<1>10. IsSeq(y)
  BY <1>9, ConcatSeq
<1>11. Written(p, k) = y /\ Written(p, k - 1) = x
  BY <1>1, <1>5, <1>8 DEF Written
<1>12. Bound(p, k - 1) = p.groups[k].start - 1 /\ Bound(p, k) \in 1..N /\ Bound(p, k - 1) < Bound(p, k) /\ Bound(p, k - 1) \in 0..N
  <2>1. PICK a, b : a = g.start /\ b = g.end
    OBVIOUS
  <2>2. a \in Nat \ {0} /\ b \in Nat /\ a < b /\ b <= N + 1
    BY <1>3, <1>4, <2>1
  <2>3. Bound(p, k) = b - 1 /\ Bound(p, k - 1) = a - 1 /\ p.groups[k].start = a
    BY <1>1, <1>5, <2>1
  <2>4. b - 1 \in 1..N /\ a - 1 < b - 1 /\ a - 1 \in 0..N
    BY <1>2, <2>2
  <2> QED
    BY <2>3, <2>4
<1>13. t = Replay(p.read, p.groups[k])
  BY <1>1, <1>8
<1>14. /\ Replay(p.read, p.groups[k]).error = "none" /\ IsSeq(Flushed(Replay(p.read, p.groups[k])))
       /\ Replayable(p.read, p.groups[k])
  BY <1>1, <1>9, <1>13
<1>15. IsSeq(Written(p, k - 1)) /\ IsSeq(Written(p, k)) /\ Written(p, k) = Written(p, k - 1) \o Flushed(Replay(p.read, p.groups[k]))
  BY <1>9, <1>10, <1>11, <1>13
<1> QED
  BY <1>12, <1>14, <1>15 DEF Extends

\* The groups end with the last source; what is written before is a beginning.
LEMMA WrittenBegins ==
  ASSUME NEW p, PlanDone(p), NEW k \in 0..Len(p.groups)
  PROVE  /\ Begins(Written(p, k), Flushed(Sources(p.read, N)))
         /\ Bound(p, Len(p.groups)) = N /\ Written(p, Len(p.groups)) = Flushed(Sources(p.read, N))
<1>1. PICK size : size = Len(p.groups)
  OBVIOUS
<1>2. size \in Nat /\ size > 0 /\ p.groups[size].end = N + 1 /\ N \in Nat
  BY <1>1, TransformAssumption DEF PlanDone, IsSeq
<1>3. Bound(p, size) = N
  BY <1>2 DEF Bound
<1>4. Written(p, size) = Flushed(Sources(p.read, N))
  BY <1>3 DEF Written
<1> DEFINE A == {j \in Nat : k + j <= size => Begins(Written(p, k), Written(p, k + j))}
<1>5. 0 \in A
  <2>1. IsSeq(Written(p, k))
    <3>1. CASE k = 0
      <4>1. 1 \in 1..Len(p.groups)
        BY <1>1, <1>2
      <4>2. Extends(p, 1)
        BY <4>1, GroupsExtend
      <4> QED
        BY <3>1, <4>2 DEF Extends
    <3>2. CASE k # 0
      <4>1. k \in 1..Len(p.groups)
        BY <1>1, <1>2, <3>2
      <4>2. Extends(p, k)
        BY <4>1, GroupsExtend
      <4> QED
        BY <4>2 DEF Extends
    <3> QED
      BY <3>1, <3>2
  <2>2. k + 0 = k
    OBVIOUS
  <2> QED
    BY <2>1, <2>2, BeginsSelf
<1>6. ASSUME NEW j \in Nat, j \in A  PROVE j + 1 \in A
  <2> SUFFICES ASSUME k + (j + 1) <= size
               PROVE  Begins(Written(p, k), Written(p, k + (j + 1)))
    OBVIOUS
  <2>1. PICK i : i = k + (j + 1)
    OBVIOUS
  <2>2. i \in 1..Len(p.groups) /\ i - 1 = k + j /\ k + j <= size
    BY <1>1, <1>2, <2>1
  <2>3. Extends(p, i)
    BY <2>2, GroupsExtend
  <2>4. PICK a, b, c, d : /\ a = Written(p, k) /\ b = Written(p, i - 1) /\ c = Written(p, i)
                          /\ d = Flushed(Replay(p.read, p.groups[i]))
    OBVIOUS
  <2>5. IsSeq(b) /\ IsSeq(d) /\ c = b \o d
    BY <2>3, <2>4 DEF Extends
  <2>6. Begins(b, c)
    BY <2>5, BeginsConcat
  <2>7. Begins(a, b)
    BY <1>6, <2>2, <2>4
  <2> QED
    BY <2>1, <2>4, <2>6, <2>7, BeginsOn
<1>7. size - k \in A
  <2> HIDE DEF A
  <2>1. size - k \in Nat
    BY <1>1, <1>2
  <2> QED
    BY <1>5, <1>6, <2>1, Induction
<1>8. k + (size - k) = size
  BY <1>1, <1>2
<1> QED
  BY <1>1, <1>3, <1>4, <1>7, <1>8

\* No group has written nothing.
LEMMA WrittenNone == ASSUME NEW p PROVE Written(p, 0) = <<>> /\ Bound(p, 0) = 0
BY SourcesFirst, NoSerialIs DEF Written, Bound, Flushed, Emit

\* What the serial transform makes of files
LEMMA SeriallyIs ==
  ASSUME NEW fs
  PROVE  /\ Serially(fs).error = Sources(fs, N).error /\ Serially(fs).out = Flushed(Sources(fs, N))
         /\ Serially(fs) = [out |-> Flushed(Sources(fs, N)), error |-> Sources(fs, N).error]
<1>1. FoldLeft(LAMBDA a, f : SerialSource(a, f), NoSerial, [i \in Files |-> fs[i]]) = Sources(fs, N)
  BY Zenon DEF Sources, Files
<1>2. Serially(fs) = [out |-> Emit(Sources(fs, N).out, Sources(fs, N).ctx, Sources(fs, N).block), error |-> Sources(fs, N).error]
  BY <1>1, Zenon DEF Serially
<1>3. Serially(fs) = [out |-> Flushed(Sources(fs, N)), error |-> Sources(fs, N).error]
  BY <1>2, Zenon DEF Flushed
<1> QED
  BY <1>3

-----------------------------------------------------------------------------
(* The summaries of a batch, folded in order                                *)

\* Source i as it is read: by the plan, or by its worker
Given(p, results, i) == IF i <= Len(p.read) THEN p.read[i] ELSE results[i].file

\* What m more summaries make of p.  What is refused for its order or its stream, the serial
\* transform refuses too.
Progress(p, results, m, q) ==
  /\ q.error \in {"none", "stream", "order", "too many"}
  /\ q.error = "none" => /\ PlanTrue(q) /\ Len(q.read) = Len(p.read) + m
                         /\ \A i \in 1..(Len(p.read) + m) : q.read[i] = Given(p, results, i)
  /\ q.error \in {"stream", "order"} =>
       \A fs : (\A i \in 1..(Len(p.read) + m) : fs[i] = Given(p, results, i)) => Sources(fs, Len(p.read) + m).error # "none"

\* What is true of a plan after some of a batch is true of it after one result more,
LEMMA ProgressStep ==
  ASSUME NEW p, NEW results, NEW m \in Nat, NEW q, IsSeq(p.read), Progress(p, results, m, q),
         AreSources(p.read, Len(p.read)), NEW n, n = Len(p.read) + m + 1,
         \A i \in (Len(p.read) + 1)..n : SumTrue(results[i]),
         NEW x, x = Fold(q, n, results[n])
  PROVE  Progress(p, results, m + 1, x)
<1>1. PICK l : l = Len(p.read)
  OBVIOUS
<1>2. l \in Nat /\ n = l + m + 1 /\ n \in Nat /\ n - 1 = l + m /\ l + (m + 1) = n /\ n > l
  <2>1. Len(p.read) \in Nat
    BY DEF IsSeq
  <2>2. l \in Nat /\ n = l + m + 1
    BY <1>1, <2>1
  <2>3. n \in Nat /\ n - 1 = l + m /\ l + (m + 1) = n /\ n > l
    BY <2>2
  <2> QED
    BY <2>2, <2>3
<1>3. PICK sum : sum = results[n]
  OBVIOUS
<1>4. SumTrue(sum) /\ Given(p, results, n) = sum.file
  BY <1>1, <1>2, <1>3 DEF Given
<1>5. \A i \in 1..n : IsSource(Given(p, results, i))
  <2> SUFFICES ASSUME NEW i \in 1..n
               PROVE  IsSource(Given(p, results, i))
    OBVIOUS
  <2>1. CASE i <= l
    BY <1>1, <2>1 DEF Given, AreSources
  <2>2. CASE ~(i <= l)
    <3>1. i \in (l + 1)..n
      BY <1>2, <2>2
    <3>2. SumTrue(results[i])
      BY <1>1, <3>1
    <3> QED
      BY <1>1, <2>2, <3>2 DEF Given, SumTrue
  <2> QED
    BY <2>1, <2>2
<1>6. CASE q.error # "none"
  <2>1. x = q
    BY <1>6 DEF Fold
  <2>2. ASSUME q.error \in {"stream", "order"}, NEW fs, \A i \in 1..n : fs[i] = Given(p, results, i)
        PROVE  Sources(fs, n).error # "none"
    <3>1. AreSources(fs, n)
      BY <1>5, <2>2 DEF AreSources
    <3>2. \A i \in 1..(l + m) : fs[i] = Given(p, results, i)
      BY <1>2, <2>2
    <3>3. Sources(fs, l + m).error # "none"
      BY <1>1, <2>2, <3>2 DEF Progress
    <3>4. l + m \in 0..n
      BY <1>2
    <3> QED
      BY <1>2, <3>1, <3>3, <3>4, SourcesStop
  <2>3. q.error \in {"stream", "order", "too many"}
    BY <1>6 DEF Progress
  <2> QED
    BY <1>1, <1>2, <2>1, <2>2, <2>3 DEF Progress
<1>7. CASE q.error = "none"
  <2>1. PlanTrue(q) /\ Len(q.read) = l + m /\ \A i \in 1..(l + m) : q.read[i] = Given(p, results, i)
    BY <1>1, <1>7 DEF Progress
  <2>2. Folded(q, sum, x)
    <3>1. n = Len(q.read) + 1
      BY <1>2, <2>1
    <3> QED
      BY <1>3, <1>4, <2>1, <3>1, FoldTrue
  <2>3. ASSUME x.error = "none"
        PROVE  PlanTrue(x) /\ Len(x.read) = n /\ \A i \in 1..n : x.read[i] = Given(p, results, i)
    <3>1. PlanTrue(x) /\ x.read = Append(q.read, sum.file)
      BY <2>2, <2>3 DEF Folded
    <3>2. IsSeq(q.read)
      BY <2>1 DEF PlanTrue, ReadTrue
    <3>3. Appended(q.read, sum.file, l + m, x.read)
      BY <2>1, <3>1, <3>2, OneMore
    <3>4. Len(x.read) = n /\ x.read[n] = sum.file /\ \A i \in 1..(l + m) : x.read[i] = q.read[i]
      BY <1>2, <3>3 DEF Appended
    <3>5. ASSUME NEW i \in 1..n
          PROVE  x.read[i] = Given(p, results, i)
      <4>1. CASE i = n
        BY <1>4, <3>4, <4>1
      <4>2. CASE i # n
        <5>1. i \in 1..(l + m)
          BY <1>2, <4>2
        <5> QED
          BY <2>1, <3>4, <5>1
      <4> QED
        BY <4>1, <4>2
    <3> QED
      BY <3>1, <3>4, <3>5
  <2>4. ASSUME x.error \in {"stream", "order"}, NEW fs, \A i \in 1..n : fs[i] = Given(p, results, i)
        PROVE  Sources(fs, n).error # "none"
    <3>1. PICK s : s = Sources(fs, l + m)
      OBVIOUS
    <3>2. s = Sources(q.read, l + m)
      <4>1. \A i \in 1..(l + m) : fs[i] = q.read[i]
        BY <1>2, <2>1, <2>4
      <4> QED
        BY <1>2, <3>1, <4>1, SourcesSame
    <3>3. ~Suits(s, sum.file)
      BY <2>1, <2>2, <2>4, <3>2 DEF Folded
    <3>4. s.error = "none"
      BY <2>1, <3>2 DEF PlanTrue, ReadTrue
    <3>5. IsState(s)
      <4>1. AreSources(fs, l + m)
        BY <1>2, <1>5, <2>4 DEF AreSources
      <4> QED
        BY <1>2, <3>1, <4>1, SourcesState
    <3>6. Sources(fs, (l + m) + 1) = SerialSource(s, fs[(l + m) + 1])
      BY <1>2, <3>1, SourcesStep
    <3>7. (l + m) + 1 = n /\ fs[n] = sum.file
      BY <1>2, <1>4, <2>4
    <3>8. Taken(s, sum.file)
      BY <1>4, <3>4, <3>5, SourceTaken DEF SumTrue
    <3>9. SerialSource(s, sum.file).error # "none"
      BY <3>3, <3>8 DEF Taken
    <3> QED
      BY <3>6, <3>7, <3>9
  <2>5. x.error \in {"none", "stream", "order", "too many"}
    BY <2>2 DEF Folded
  <2> QED
    BY <1>1, <1>2, <2>3, <2>4, <2>5 DEF Progress
<1> QED
  BY <1>6, <1>7

\* and so after the whole batch.
LEMMA PlanningTrue ==
  ASSUME NEW p, NEW results, NEW order, NEW m \in Nat, PlanTrue(p),
         \A k \in 1..m : order[k] = Len(p.read) + k /\ SumTrue(results[Len(p.read) + k])
  PROVE  Progress(p, results, m, Planning(p, results, order, m))
<1>1. PICK l : l = Len(p.read)
  OBVIOUS
<1>2. IsSeq(p.read) /\ l \in Nat /\ AreSources(p.read, l) /\ p.error = "none"
  BY <1>1 DEF PlanTrue, ReadTrue, IsSeq
<1> DEFINE A == {j \in Nat : j <= m => Progress(p, results, j, Planning(p, results, order, j))}
<1>3. 0 \in A
  <2>1. Planning(p, results, order, 0) = p
    BY PlanningFirst
  <2>2. Progress(p, results, 0, p)
    <3>1. Len(p.read) + 0 = l /\ \A i \in 1..l : Given(p, results, i) = p.read[i]
      BY <1>1, <1>2 DEF Given
    <3> QED
      BY <1>1, <1>2, <3>1 DEF Progress
  <2> QED
    BY <2>1, <2>2
<1>4. ASSUME NEW j \in Nat, j \in A  PROVE j + 1 \in A
  <2> SUFFICES ASSUME j + 1 <= m
               PROVE  Progress(p, results, j + 1, Planning(p, results, order, j + 1))
    OBVIOUS
  <2>1. j <= m /\ j + 1 \in 1..m /\ l + (j + 1) = l + j + 1
    BY <1>2
  <2>2. PICK q, x, n : q = Planning(p, results, order, j) /\ x = Planning(p, results, order, j + 1) /\ n = l + j + 1
    OBVIOUS
  <2>3. Progress(p, results, j, q)
    BY <1>4, <2>1, <2>2
  <2>4. order[j + 1] = n
    BY <1>1, <2>1, <2>2
  <2>5. x = Fold(q, n, results[n])
    BY <2>2, <2>4, PlanningStep
  <2>6. \A i \in (l + 1)..n : SumTrue(results[i])
    <3> SUFFICES ASSUME NEW i \in (l + 1)..n
                 PROVE  SumTrue(results[i])
      OBVIOUS
    <3>1. i - l \in 1..m /\ l + (i - l) = i
      BY <1>2, <2>1, <2>2
    <3> QED
      BY <1>1, <3>1
  <2>7. Progress(p, results, j + 1, x)
    BY <1>1, <1>2, <2>2, <2>3, <2>5, <2>6, ProgressStep
  <2> QED
    BY <2>2, <2>7
<1>5. m \in A
  <2> HIDE DEF A
  <2> QED
    BY <1>3, <1>4, Induction
<1> QED
  BY <1>5

\* A row is only refused for its stream or its order.
LEMMA RowsErrors ==
  ASSUME NEW s, NEW context, NEW rs, IsState(s), s.error = "none", IsSeq(rs), AreRows(rs, Len(rs))
  PROVE  IsState(SourceRows(s, context, rs)) /\ SourceRows(s, context, rs).error \in {"none", "stream", "order"}
<1>1. PICK n : n = Len(rs)
  OBVIOUS
<1>2. n \in Nat /\ AreRows(rs, n) /\ IsSeq(rs)
  BY <1>1 DEF IsSeq
<1> DEFINE A == {k \in Nat : k <= n => Rows(s, context, rs, k).error \in {"none", "stream", "order"}}
<1>3. 0 \in A
  BY RowsFirst
<1>4. ASSUME NEW k \in Nat, k \in A  PROVE k + 1 \in A
  <2> SUFFICES ASSUME k + 1 <= n
               PROVE  Rows(s, context, rs, k + 1).error \in {"none", "stream", "order"}
    OBVIOUS
  <2>1. PICK a, b, row : a = Rows(s, context, rs, k) /\ b = Rows(s, context, rs, k + 1) /\ row = rs[k + 1]
    OBVIOUS
  <2>2. a.error \in {"none", "stream", "order"} /\ b = SerialRow(a, context, row)
    BY <1>2, <1>4, <2>1, RowsStep
  <2>3. IsState(a) /\ IsRow(row)
    <3>1. AreRows(rs, k) /\ k + 1 \in 1..n
      BY <1>2 DEF AreRows
    <3> QED
      BY <1>2, <2>1, <3>1, RowsState DEF AreRows
  <2>4. CASE a.error # "none"
    BY <2>1, <2>2, <2>4, SerialRowStops
  <2>5. CASE a.error = "none"
    <3>1. CASE b.error = "none"
      BY <2>1, <3>1
    <3>2. CASE b.error # "none"
      <4>1. CASE a.first # None /\ a.first[1] # context[1]
        <5>1. b = [a EXCEPT !.error = "stream"]
          BY <2>2, <2>5, <4>1 DEF SerialRow
        <5> QED
          BY <2>1, <2>3, <5>1 DEF IsState
      <4>2. CASE ~(a.first # None /\ a.first[1] # context[1])
        <5>1. ~Accepts(a.v, row)
          BY <2>1, <2>2, <2>3, <2>5, <3>2, <4>2, SerialRowIs DEF Fits
        <5>2. b = [Enter(a, context) EXCEPT !.error = "order"]
          BY <2>2, <2>5, <4>2, <5>1 DEF SerialRow
        <5>3. PICK e : e = Enter(a, context)
          OBVIOUS
        <5>4. IsState(e)
          BY <2>3, <5>3, EnterIs
        <5>5. b.error = "order"
          BY <5>2, <5>3, <5>4 DEF IsState
        <5> QED
          BY <2>1, <5>5
      <4> QED
        BY <4>1, <4>2
    <3> QED
      BY <3>1, <3>2
  <2> QED
    BY <2>4, <2>5
<1>5. n \in A
  <2> HIDE DEF A
  <2> QED
    BY <1>2, <1>3, <1>4, Induction
<1> QED
  BY <1>1, <1>2, <1>5, SourceRowsIs, RowsState

\* A source is only refused for its stream or its order.
LEMMA EndErrors ==
  ASSUME NEW t, NEW context, IsState(t), t.error \in {"none", "stream", "order"}, NEW x, x = EndSource(t, context)
  PROVE  IsState(x) /\ x.error \in {"none", "stream", "order"}
<1>1. IsState(x)
  BY EndSourceIs
<1>2. CASE t.error # "none"
  BY <1>2, EndSourceIs
<1>3. CASE t.error = "none" /\ ~Fits(t, context)
  <2>1. x = [t EXCEPT !.error = "stream"]
    BY <1>3, Zenon DEF EndSource, Fits
  <2> QED
    BY <1>1, <2>1 DEF IsState
<1>4. CASE t.error = "none" /\ Fits(t, context)
  BY <1>4, EndSourceIs
<1> QED
  BY <1>1, <1>2, <1>3, <1>4

-----------------------------------------------------------------------------
(* The invariant                                                            *)

\* Files are only ever cut short: what has changed is not what it was.
InputsTrue ==
  /\ files = [i \in Files |-> files[i]] /\ claimed = [i \in Files |-> claimed[i]]
  /\ \A i \in Files : /\ IsSource(files[i]) /\ IsSource(claimed[i])
                      /\ files[i] = claimed[i] \/ Len(files[i].rows) < Len(claimed[i].rows)
  /\ workers \in Nat \ {0}

\* The serial transform would refuse the sources too, or they have changed.
Bad == Serially(claimed).error # "none" \/ ~Same

\* What is read is what the sources were when the transform began.
Known == ledger \/ Same

ControlTrue ==
  /\ pc \in {"serial", "rows", "confirm", "plan", "encode", "commit", "finish", "publish", "end"}
  /\ pc \in {"serial", "rows", "confirm"} => ~Bulk
  /\ pc \in {"plan", "encode", "commit"} => Bulk
  /\ pc \in {"serial", "rows", "confirm", "commit"} => error = "none"
  /\ pc \in {"plan", "encode"} => error \in {"none", "spawn"}
  /\ pc # "end" => status = "in-progress"
  /\ status = "complete" => error = "none" /\ upstream # "partial"
  /\ error # "cancelled" /\ (error \in {"order", "stream"} => Bad)

\* The sources listed by the serial transform, and what was read of them
ListedFiles == [k \in 1..(next - 1) |-> listed[k].file]

ListTrue ==
  /\ next \in 1..(N + 1) /\ listed = [k \in 1..(next - 1) |-> Entry(k, listed[k].file)]
  /\ \A k \in 1..(next - 1) : IsSource(listed[k].file) /\ (Known => listed[k].file = claimed[k])

\* Between two sources, or before the rows of the next one
BetweenTrue == IsState(serial) /\ serial.error = "none" /\ serial = Sources(ListedFiles, next - 1)

\* The rows of a source have been read.
SeenTrue ==
  /\ IsSource(seen) /\ (Same => seen = claimed[next])
  /\ IsState(serial) /\ serial.error = "none"
  /\ serial = SourceRows(Sources(ListedFiles, next - 1), seen.context, seen.rows)

\* All sources have been read, and none was refused.
WholeTrue ==
  /\ next = N + 1 /\ IsState(serial)
  /\ Sources(ListedFiles, N).error = "none" /\ Flushed(serial) = Flushed(Sources(ListedFiles, N))
  /\ pc \in {"publish", "end"} => serial.block = <<>>

SerialTrue ==
  ~Bulk =>
    /\ ListTrue
    /\ pc \in {"serial", "rows", "confirm"} \/ error = "none" => committed = serial.out
    /\ pc \in {"rows", "confirm"} => next <= N
    /\ pc \in {"serial", "rows"} /\ next <= N => BetweenTrue
    /\ pc = "confirm" => SeenTrue
    /\ (pc = "serial" /\ next > N) \/ (pc \in {"finish", "publish", "end"} /\ error = "none") => WholeTrue

\* What a worker has come to: what the serial transform accepts is not refused for its order, and
\* nobody is cancelled but after an error.
ResultTrue(r) ==
  /\ r.is \in {"todo", "ok", "changed", "too many", "order", "stream", "io", "large", "cancelled", "unspawned"}
  /\ r.is = "todo" => r = Todo
  /\ r.is \in {"order", "stream"} => Bad
  /\ r.is = "unspawned" => error = "spawn"
  /\ r.is = "cancelled" => cancel

CancelTrue == cancel => error = "spawn" \/ \E j \in DOMAIN job : IsError(job[j])

\* The last of the batch
Top(width, size) == Least(next + width - 1, size)

\* A job for each of the batch
Jobs(j, from, to) == j = [i \in from..to |-> j[i]]

\* The results of summaries
SummaryTrue(i) == job[i].is = "ok" => SumTrue(job[i]) /\ (Known => job[i].file = claimed[i])
Summaries == CancelTrue /\ \A i \in DOMAIN job : ResultTrue(job[i]) /\ SummaryTrue(i)

\* What the plan has read of the first k sources
ReadKnown(k) == Known => \A i \in 1..k : plan.read[i] = claimed[i]

PlanPhase ==
  pc = "plan" =>
    /\ next \in 1..N /\ PlanTrue(plan) /\ Len(plan.read) = next - 1 /\ ReadKnown(next - 1)
    /\ committed = <<>> /\ listed = <<>>
    /\ Jobs(job, next, Top(Least(workers, N), N)) /\ Summaries

\* The sources of a group, with what pass one read of them
EntriesIn(p, k) ==
  [i \in 1..(p.groups[k].end - p.groups[k].start) |->
     Entry(p.groups[k].start + i - 1, p.read[p.groups[k].start + i - 1])]

\* The blocks of a group are those the serial transform makes of its sources.
BlocksTrue(i) ==
  job[i].is = "ok" => job[i].blocks = Flushed(Replay(plan.read, plan.groups[i])) /\ job[i].sources = EntriesIn(plan, i)
Encodings == CancelTrue /\ \A i \in DOMAIN job : ResultTrue(job[i]) /\ BlocksTrue(i)

\* The first d groups are in the archive.
UpToGroup(d) == committed = Written(plan, d) /\ listed = [k \in 1..Bound(plan, d) |-> Entry(k, plan.read[k])]

EncodePhase ==
  pc = "encode" =>
    /\ PlanDone(plan) /\ ReadKnown(N) /\ next \in 1..Len(plan.groups) /\ UpToGroup(next - 1)
    /\ Len(plan.groups) = 1 => error = "none"
    /\ Jobs(job, next, Top(Least(workers, Len(plan.groups)), Len(plan.groups))) /\ Encodings

\* The groups after the first d of the batch are still to be committed.
Committing(d, to) ==
  /\ d \in (next - 1)..to /\ UpToGroup(d) /\ DOMAIN job = (d + 1)..to
  /\ \A i \in DOMAIN job : job[i].is = "ok" /\ BlocksTrue(i)

CommitPhase ==
  pc = "commit" =>
    /\ PlanDone(plan) /\ ReadKnown(N) /\ next \in 1..Len(plan.groups) /\ Len(plan.groups) > 1
    /\ \E d : Committing(d, Top(Least(workers, Len(plan.groups)), Len(plan.groups)))

\* What has been written when the transform ends
EndPhase ==
  pc \in {"finish", "publish", "end"} /\ Bulk =>
    /\ error = "none" => PlanDone(plan) /\ ReadKnown(N) /\ UpToGroup(Len(plan.groups))
    /\ committed # <<>> /\ (Len(plan.groups) > 1 \/ Same) =>
         PlanDone(plan) /\ Begins(committed, Flushed(Sources(plan.read, N)))

IInv == InputsTrue /\ ControlTrue /\ SerialTrue /\ PlanPhase /\ EncodePhase /\ CommitPhase /\ EndPhase

-----------------------------------------------------------------------------
(* The first state                                                          *)

\* Whatever is captured is a file for each source.
LEMMA CaptureIs ==
  ASSUME NEW fs \in Captures
  PROVE  fs = [i \in Files |-> fs[i]] /\ \A i \in Files : IsSource(fs[i])
<1> DEFINE Some(n) == {Spread(rows, c, cut) : rows \in Recordings(n), c \in Contexts, cut \in Spreads(n)}
<1>1. PICK n \in 0..MaxRows : fs \in Some(n)
  <2> HIDE DEF Some
  <2>1. Captures = UNION {Some(n) : n \in 0..MaxRows}
    BY DEF Captures, Some
  <2> QED
    BY <2>1
<1>2. PICK q \in Recordings(n), c \in Contexts, cut \in Spreads(n) : fs = Spread(q, c, cut)
  BY <1>1
<1>3. PICK b \in [1..n -> Bodies], r \in (Repeats \cap 2..n) \cup {0} : q = Recorded(n, b, r)
  BY DEF Recordings
<1>4. /\ fs = [i \in Files |-> [context |-> c[i], rows |-> SubSeq(q, cut[i - 1] + 1, cut[i])]]
      /\ cut \in [0..N -> 0..n] /\ \A i \in Files : cut[i - 1] <= cut[i]
  BY <1>2 DEF Spread, Spreads
<1>5. n \in Nat
  BY TransformAssumption
<1>6. \A k \in 1..n : IsRow(q[k])
  <2> SUFFICES ASSUME NEW k \in 1..n
               PROVE  IsRow(q[k])
    OBVIOUS
  <2>1. q[k] = [seq |-> Stamp(r, k), stamp |-> Stamp(r, k), processes |-> b[k].processes, quality |-> b[k].quality]
    BY <1>3 DEF Recorded
  <2>2. Stamp(r, k) \in Nat \ {0}
    BY <1>3, <1>5 DEF Stamp
  <2>3. b[k].processes \in Seq(ToSet(b[k].processes))
    BY TransformAssumption
  <2> QED
    BY <2>1, <2>2, <2>3 DEF IsRow
<1>7. PICK S : S = {q[k] : k \in 1..n}
  OBVIOUS
<1>8. q \in Seq(S) /\ Len(q) = n
  BY <1>3, <1>5, <1>7 DEF Recorded
<1>9. ASSUME NEW i \in Files
      PROVE  IsSource(fs[i])
  <2>1. PICK x, y : x = cut[i - 1] /\ y = cut[i]
    OBVIOUS
  <2>2. x \in 0..n /\ y \in 0..n /\ x <= y
    <3>1. i \in 0..N /\ i - 1 \in 0..N /\ N \in Nat
      BY TransformAssumption DEF Files
    <3> QED
      BY <1>4, <2>1, <3>1
  <2>3. fs[i] = [context |-> c[i], rows |-> SubSeq(q, x + 1, y)]
    BY <1>4, <2>1
  <2>4. PICK rows : rows = SubSeq(q, x + 1, y)
    OBVIOUS
  <2>5. rows \in Seq(S) /\ Len(rows) = y - x /\ \A k \in 1..(y - x) : rows[k] = q[x + k]
    BY <1>5, <1>8, <2>2, <2>4
  <2>6. AreRows(rows, Len(rows))
    <3> SUFFICES ASSUME NEW k \in 1..(y - x)
                 PROVE  IsRow(rows[k])
      BY <2>5 DEF AreRows
    <3>1. x + k \in 1..n
      BY <1>5, <2>2
    <3> QED
      BY <1>6, <2>5, <3>1
  <2>7. c[i] # None
    BY TransformAssumption DEF Files, None
  <2>8. PICK f : f = fs[i]
    OBVIOUS
  <2>9. f = [context |-> c[i], rows |-> rows]
    BY <2>3, <2>4, <2>8
  <2>10. f = [context |-> f.context, rows |-> f.rows] /\ f.context # None /\ f.rows = rows
    BY <2>7, <2>9
  <2>11. IsSeq(rows)
    BY <2>5, SeqIs
  <2> QED
    BY <2>6, <2>8, <2>10, <2>11 DEF IsSource
<1> QED
  BY <1>4, <1>9

\* A plan of no source is true.
LEMMA NoPlanTrue == PlanTrue(NoPlan) /\ Len(NoPlan.read) = 0
<1>1. PICK p : p = NoPlan
  OBVIOUS
<1>2. /\ IsPlan(p) /\ p.global = Nothing /\ p.last = 0 /\ p.first = None /\ p.group = None /\ p.from = 1
      /\ p.groups = <<>> /\ p.read = <<>> /\ p.error = "none"
  BY <1>1 DEF NoPlan, IsPlan, Never
<1>3. Len(p.read) = 0 /\ Len(p.groups) = 0 /\ IsSeq(p.read) /\ IsSeq(p.groups)
  BY <1>2, EmptyIsSeq
<1>4. Sources(p.read, Len(p.read)) = NoSerial
  BY <1>3, SourcesFirst
<1>5. ReadTrue(p)
  <2>1. NoSerial.v.previous = Nothing /\ NoSerial.v.seq = 0
    BY NoSerialIs, BlankIs DEF Blank
  <2> QED
    BY <1>2, <1>3, <1>4, <2>1, NoSerialIs DEF ReadTrue, AreSources
<1>6. GroupsTrue(p)
  BY <1>2, <1>3 DEF GroupsTrue
<1>7. Empty(p)
  BY <1>2, <1>3 DEF Empty
<1> QED
  BY <1>1, <1>2, <1>3, <1>5, <1>6, <1>7 DEF PlanTrue

\* The smaller of two numbers is one of the two.
LEMMA LeastIs == ASSUME NEW a \in Nat, NEW b \in Nat
                 PROVE  Least(a, b) \in Nat /\ Least(a, b) <= a /\ Least(a, b) <= b /\ (Least(a, b) = a \/ Least(a, b) = b)
BY DEF Least

\* The invariant holds initially.
LEMMA InitTrue ==
  ASSUME Init
  PROVE  IInv
<1>1. N \in Nat \ {0} /\ workers \in Nat \ {0}
  BY TransformAssumption DEF Init
<1>2. InputsTrue
  <2>1. files \in Captures /\ claimed = files
    BY DEF Init
  <2> QED
    BY <1>1, <2>1, CaptureIs DEF InputsTrue
<1>3. /\ pc = (IF Bulk THEN "plan" ELSE "serial") /\ next = 1 /\ serial = NoSerial /\ cancel = FALSE /\ plan = NoPlan
      /\ job = [i \in 1..Least(workers, N) |-> Todo] /\ committed = <<>> /\ listed = <<>> /\ error = "none" /\ status = "in-progress"
  BY DEF Init, Todo, Only
<1>4. ControlTrue
  BY <1>3 DEF ControlTrue
<1>5. SerialTrue
  <2>1. next \in 1..(N + 1) /\ next <= N /\ next - 1 = 0 /\ 1..0 = {}
    BY <1>1, <1>3
  <2>2. <<>> = [k \in 1..0 |-> Entry(k, listed[k].file)]
    OBVIOUS
  <2>3. ListTrue
    BY <1>3, <2>1, <2>2 DEF ListTrue
  <2>4. BetweenTrue
    BY <1>3, <2>1, SourcesFirst, NoSerialIs DEF BetweenTrue
  <2> QED
    BY <1>1, <1>3, <2>1, <2>3, <2>4, NoSerialIs DEF SerialTrue
<1>6. PlanPhase
  <2>1. PlanTrue(plan) /\ Len(plan.read) = next - 1 /\ next \in 1..N
    BY <1>1, <1>3, NoPlanTrue
  <2>2. Jobs(job, next, Top(Least(workers, N), N))
    <3>1. PICK w : w = Least(workers, N)
      OBVIOUS
    <3>2. w \in Nat /\ w <= N
      BY <1>1, <3>1, LeastIs
    <3>3. next + w - 1 = w /\ Least(w, N) = w
      BY <1>1, <1>3, <3>2 DEF Least
    <3>4. Top(w, N) = w
      BY <3>3 DEF Top
    <3> QED
      BY <1>3, <3>1, <3>4 DEF Jobs
  <2>3. \A i \in DOMAIN job : ResultTrue(job[i]) /\ SummaryTrue(i)
    <3>1. \A i \in DOMAIN job : job[i] = Todo /\ job[i].is = "todo"
      BY <1>3 DEF Todo, Only
    <3> QED
      BY <3>1 DEF ResultTrue, SummaryTrue
  <2>4. ReadKnown(next - 1)
    BY <1>3 DEF ReadKnown
  <2>5. CancelTrue
    BY <1>3 DEF CancelTrue
  <2> QED
    BY <1>3, <2>1, <2>2, <2>3, <2>4, <2>5 DEF PlanPhase, Summaries
<1>7. EncodePhase /\ CommitPhase /\ EndPhase
  BY <1>3 DEF EncodePhase, CommitPhase, EndPhase
<1> QED
  BY <1>2, <1>4, <1>5, <1>6, <1>7 DEF IInv

-----------------------------------------------------------------------------
(* Steps of the serial transform, the end, and changes of the files         *)

\* A step that reads the sources does not change what they are.
LEMMA InputsStay ==
  ASSUME InputsTrue, UNCHANGED inputs
  PROVE  InputsTrue' /\ (Same' <=> Same) /\ (Known' <=> Known) /\ (Bad' <=> Bad) /\ (Bulk' <=> Bulk)
BY DEF InputsTrue, inputs, Same, Known, Bad, Bulk, Files

\* What the serial transform refuses after some sources, it refuses.
LEMMA RefusedIsBad ==
  ASSUME InputsTrue, NEW k \in 0..N, Same => Sources(claimed, k).error # "none"
  PROVE  Bad
<1>1. CASE Same
  <2>1. AreSources(claimed, N) /\ N \in Nat
    BY TransformAssumption DEF InputsTrue, AreSources, Files
  <2>2. Sources(claimed, N).error # "none"
    BY <1>1, <2>1, SourcesStop
  <2> QED
    BY <2>2, SeriallyIs DEF Bad
<1>2. CASE ~Same
  BY <1>2 DEF Bad
<1> QED
  BY <1>1, <1>2

\* What is listed, and what has been read, stay what they are.
LEMMA ListStays ==
  ASSUME ListTrue, UNCHANGED <<next, listed, claimed>>, Known' => Known
  PROVE  ListTrue' /\ ListedFiles' = ListedFiles
BY DEF ListTrue, ListedFiles

\* So do the reader and its place.
LEMMA SerialStays ==
  ASSUME SerialTrue, UNCHANGED <<pc, next, serial, seen, listed, committed, error, claimed>>,
         Known' => Known, Same' => Same, Bulk' <=> Bulk
  PROVE  SerialTrue'
<1> SUFFICES ASSUME ~Bulk
             PROVE  SerialTrue'
  BY DEF SerialTrue
<1>1. ListTrue /\ ListTrue' /\ ListedFiles' = ListedFiles
  BY ListStays DEF SerialTrue
<1>2. BetweenTrue => BetweenTrue'
  BY <1>1 DEF BetweenTrue
<1>3. SeenTrue => SeenTrue'
  BY <1>1 DEF SeenTrue
<1>4. WholeTrue => WholeTrue'
  BY <1>1 DEF WholeTrue
<1> QED
  BY <1>1, <1>2, <1>3, <1>4 DEF SerialTrue

\* What the serial transform has made of the sources it has listed
LEMMA ListedState ==
  ASSUME ListTrue
  PROVE  /\ next - 1 \in Nat /\ IsState(Sources(ListedFiles, next - 1))
         /\ Same => Sources(ListedFiles, next - 1) = Sources(claimed, next - 1)
<1>1. next - 1 \in Nat
  BY TransformAssumption DEF ListTrue
<1>2. \A k \in 1..(next - 1) : IsSource(ListedFiles[k]) /\ (Same => ListedFiles[k] = claimed[k])
  BY DEF ListTrue, ListedFiles, Known
<1>3. AreSources(ListedFiles, next - 1)
  BY <1>2 DEF AreSources
<1>4. IsState(Sources(ListedFiles, next - 1))
  BY <1>1, <1>3, SourcesState
<1>5. Same => Sources(ListedFiles, next - 1) = Sources(claimed, next - 1)
  BY <1>1, <1>2, SourcesSame
<1> QED
  BY <1>1, <1>4, <1>5

\* A source that is refused after those that are listed would always have been.
LEMMA ReadIsBad ==
  ASSUME InputsTrue, ListTrue, next <= N, NEW f, Same => f = claimed[next],
         SerialSource(Sources(ListedFiles, next - 1), f).error # "none"
  PROVE  Bad
<1>1. next \in 0..N /\ next - 1 \in Nat /\ (next - 1) + 1 = next
  BY TransformAssumption DEF ListTrue
<1>2. Sources(claimed, next) = SerialSource(Sources(claimed, next - 1), claimed[next])
  BY <1>1, SourcesStep
<1>3. Same => Sources(claimed, next).error # "none"
  BY <1>2, ListedState
<1> QED
  BY <1>1, <1>3, RefusedIsBad

\* The list of the first n sources
IsList(l, n) == l = [k \in 1..n |-> Entry(k, l[k].file)]

\* One more is listed after the first n - 1, with f.
NextList(l, n, f, m) == IsList(m, n) /\ m[n].file = f /\ \A k \in 1..(n - 1) : m[k] = l[k]
LEMMA ListedNext ==
  ASSUME NEW n \in Nat \ {0}, NEW l, IsList(l, n - 1), NEW f, NEW m, m = Append(l, Entry(n, f))
  PROVE  NextList(l, n, f, m)
<1>1. PICK S : S = {l[k] : k \in 1..(n - 1)} \cup {Entry(n, f)}
  OBVIOUS
<1>2. l \in Seq(S) /\ Len(l) = n - 1 /\ Entry(n, f) \in S
  BY <1>1 DEF IsList
<1>3. m \in Seq(S) /\ Len(m) = n /\ m[n] = Entry(n, f) /\ \A k \in 1..(n - 1) : m[k] = l[k]
  <2>1. PICK e : e = Entry(n, f)
    OBVIOUS
  <2> QED
    BY <1>2, <2>1
<1>4. m = [k \in 1..n |-> m[k]]
  <2>1. \A q \in Seq(S) : q = [k \in 1..Len(q) |-> q[k]]
    OBVIOUS
  <2> QED
    BY <1>3, <2>1
<1>5. ASSUME NEW k \in 1..n
      PROVE  m[k] = Entry(k, m[k].file)
  <2>1. CASE k = n
    BY <1>3, <2>1 DEF Entry
  <2>2. CASE k # n
    <3>1. k \in 1..(n - 1)
      BY <2>2
    <3>2. l[k] = Entry(k, l[k].file)
      BY <3>1 DEF IsList
    <3> QED
      BY <1>3, <3>1, <3>2
  <2> QED
    BY <2>1, <2>2
<1>6. m = [k \in 1..n |-> Entry(k, m[k].file)]
  BY <1>4, <1>5
<1>7. m[n].file = f
  BY <1>3 DEF Entry
<1> QED
  BY <1>3, <1>6, <1>7 DEF NextList, IsList

\* The next source is hashed, where there is a ledger.
LEMMA HashSourceKeeps ==
  ASSUME IInv, HashSource
  PROVE  IInv'
<1>1. /\ pc = "serial" /\ next <= N /\ UNCHANGED <<inputs, next, serial, seen, committed, listed, status>>
      /\ (pc' = "rows" /\ error' = error) \/ (pc' = "finish" /\ error' = "changed")
  BY DEF HashSource
<1>2. InputsTrue' /\ (Same' <=> Same) /\ (Known' <=> Known) /\ (Bad' <=> Bad) /\ (Bulk' <=> Bulk)
  BY <1>1, InputsStay DEF IInv
<1>3. ~Bulk /\ error = "none" /\ status = "in-progress"
  BY <1>1 DEF IInv, ControlTrue
<1>4. ControlTrue'
  BY <1>1, <1>2, <1>3 DEF ControlTrue
<1>5. SerialTrue'
  <2>1. ListTrue /\ BetweenTrue /\ committed = serial.out
    BY <1>1, <1>3 DEF IInv, SerialTrue
  <2>2. claimed' = claimed
    BY <1>1 DEF inputs
  <2>3. ListTrue' /\ ListedFiles' = ListedFiles
    BY <1>1, <1>2, <2>1, <2>2, ListStays
  <2>4. BetweenTrue'
    BY <1>1, <2>1, <2>3 DEF BetweenTrue
  <2>5. committed' = serial'.out /\ next' <= N
    BY <1>1, <2>1
  <2> QED
    BY <1>1, <2>3, <2>4, <2>5 DEF SerialTrue
<1>6. PlanPhase' /\ EncodePhase' /\ CommitPhase' /\ EndPhase'
  BY <1>1, <1>2, <1>3 DEF PlanPhase, EncodePhase, CommitPhase, EndPhase
<1> QED
  BY <1>2, <1>4, <1>5, <1>6 DEF IInv

\* The serial transform reads the rows of a source, or some of them.
LEMMA ReadRowsKeeps ==
  ASSUME IInv, ReadRows
  PROVE  IInv'
<1>1. pc = "rows" /\ UNCHANGED <<inputs, next, listed, status>> /\ committed' = serial'.out
  BY DEF ReadRows
<1>2. InputsTrue' /\ (Same' <=> Same) /\ (Known' <=> Known) /\ (Bad' <=> Bad) /\ (Bulk' <=> Bulk)
  BY <1>1, InputsStay DEF IInv
<1>3. ~Bulk /\ error = "none" /\ status = "in-progress"
  BY <1>1 DEF IInv, ControlTrue
<1>4. ListTrue /\ next <= N /\ BetweenTrue
  BY <1>1, <1>3 DEF IInv, SerialTrue
<1>5. PICK f, x : f = files[next] /\ x = SourceRows(serial, f.context, f.rows)
  OBVIOUS
<1>6. IsSource(f) /\ (Same => f = claimed[next])
  <2>1. next \in Files
    BY <1>4, TransformAssumption DEF ListTrue, Files
  <2> QED
    BY <1>5, <2>1 DEF IInv, InputsTrue, Same
<1>7. IsState(x) /\ x.error \in {"none", "stream", "order"}
  BY <1>4, <1>6, <1>5, RowsErrors DEF IsSource, BetweenTrue
<1>8. x.error # "none" => Bad
  <2>1. ASSUME x.error # "none"
        PROVE  SerialSource(Sources(ListedFiles, next - 1), f).error # "none"
    BY <1>4, <1>5, <2>1 DEF SerialSource, EndSource, BetweenTrue
  <2> QED
    BY <1>4, <1>6, <2>1, ReadIsBad DEF IInv
<1>9. claimed' = claimed
  BY <1>1 DEF inputs
<1>10. ListTrue' /\ ListedFiles' = ListedFiles
  BY <1>1, <1>2, <1>4, <1>9, ListStays
<1>11. PlanPhase' /\ EncodePhase' /\ CommitPhase' /\ EndPhase'
  BY <1>1, <1>2, <1>3 DEF ReadRows, PlanPhase, EncodePhase, CommitPhase, EndPhase
<1>12. CASE serial' = x /\ error' = x.error /\ seen' = f /\ pc' = IF error' = "none" THEN "confirm" ELSE "finish"
  <2>1. ControlTrue'
    BY <1>1, <1>2, <1>3, <1>7, <1>8, <1>12 DEF ControlTrue
  <2>2. x.error = "none" => SeenTrue'
    BY <1>1, <1>2, <1>4, <1>5, <1>6, <1>7, <1>9, <1>10, <1>12 DEF SeenTrue, BetweenTrue
  <2>3. SerialTrue'
    BY <1>1, <1>4, <1>10, <1>12, <2>2 DEF SerialTrue
  <2> QED
    BY <1>2, <1>11, <2>1, <2>3 DEF IInv
<1>13. CASE error' \in {"io", "storage"} /\ pc' = "finish"
  <2>1. ControlTrue'
    BY <1>1, <1>2, <1>3, <1>13 DEF ControlTrue
  <2>2. SerialTrue'
    BY <1>10, <1>13 DEF SerialTrue
  <2> QED
    BY <1>2, <1>11, <2>1, <2>2 DEF IInv
<1> QED
  BY <1>5, <1>12, <1>13 DEF ReadRows

\* A source that is what it should be is listed.
LEMMA SourceListed ==
  ASSUME IInv, ~Bulk, pc = "confirm", pc' = "serial", UNCHANGED <<claimed, committed>>, Known' => seen = claimed[next], Known' => Known,
         serial' = EndSource(serial, seen.context), serial'.error = "none", Bulk' <=> Bulk,
         listed' = Append(listed, Entry(next, seen)), next' = next + 1
  PROVE  SerialTrue'
<1>1. ListTrue /\ next <= N /\ SeenTrue /\ committed = serial.out
  BY DEF IInv, SerialTrue
<1>2. N \in Nat /\ next \in Nat \ {0} /\ next' - 1 = next /\ next - 1 \in Nat /\ (next - 1) + 1 = next /\ next' \in 1..(N + 1)
  BY <1>1, TransformAssumption DEF ListTrue
<1>3. PICK m, n, l, f : m = listed' /\ n = next /\ l = listed /\ f = seen
  OBVIOUS
<1>4. /\ IsList(m, n) /\ m[n].file = f
      /\ \A k \in 1..(n - 1) : m[k] = l[k]
  <2>1. IsList(l, n - 1)
    BY <1>1, <1>3, Zenon DEF ListTrue, IsList
  <2>2. m = Append(l, Entry(n, f))
    BY <1>3, Zenon
  <2>3. n \in Nat \ {0}
    BY <1>2, <1>3
  <2>4. NextList(l, n, f, m)
    BY <2>1, <2>2, <2>3, ListedNext
  <2> QED
    BY <2>4 DEF NextList
<1>5. ListTrue'
  <2>1. ASSUME NEW k \in 1..n
        PROVE  IsSource(m[k].file) /\ (Known' => m[k].file = claimed[k])
    <3>1. CASE k = n
      BY <1>1, <1>3, <1>4, <3>1 DEF SeenTrue
    <3>2. CASE k # n
      <4>1. k \in 1..(n - 1)
        BY <1>2, <1>3, <3>2
      <4> QED
        BY <1>1, <1>3, <1>4, <4>1 DEF ListTrue
    <3> QED
      BY <3>1, <3>2
  <2>2. listed' = [k \in 1..(next' - 1) |-> Entry(k, listed'[k].file)]
    BY <1>2, <1>3, <1>4 DEF IsList
  <2>3. \A k \in 1..(next' - 1) : IsSource(listed'[k].file) /\ (Known' => listed'[k].file = claimed'[k])
    BY <1>2, <1>3, <2>1
  <2> QED
    BY <1>2, <2>2, <2>3, Zenon DEF ListTrue
<1>6. Sources(ListedFiles', next) = SerialSource(Sources(ListedFiles, next - 1), seen)
  <2>1. PICK a, b : a = ListedFiles /\ b = ListedFiles'
    OBVIOUS
  <2>2. a = [k \in 1..(n - 1) |-> l[k].file] /\ b = [k \in 1..n |-> m[k].file]
    <3>1. ListedFiles' = [k \in 1..(next' - 1) |-> listed'[k].file]
      BY Zenon DEF ListedFiles
    <3>2. ListedFiles' = [k \in 1..n |-> m[k].file]
      BY <1>2, <1>3, <3>1, Zenon
    <3> QED
      BY <1>3, <2>1, <3>2, Zenon DEF ListedFiles
  <2>8. n \in 1..n /\ \A k \in 1..(n - 1) : k \in 1..n /\ m[k] = l[k]
    <3>1. n \in Nat \ {0}
      BY <1>2, <1>3
    <3>2. n \in 1..n /\ \A k \in 1..(n - 1) : k \in 1..n
      BY <3>1
    <3> QED
      BY <1>4, <3>2
  <2>9. \A k \in 1..(next - 1) : b[k] = a[k]
    BY <1>3, <2>2, <2>8
  <2>3. b[next] = seen
    BY <1>3, <1>4, <2>2, <2>8
  <2>4. Sources(b, next) = SerialSource(Sources(b, next - 1), b[next])
    BY <1>2, SourcesStep
  <2>5. Sources(b, next - 1) = Sources(a, next - 1)
    BY <1>2, <2>9, SourcesSame
  <2> QED
    BY <2>1, <2>3, <2>4, <2>5
<1>7. serial' = Sources(ListedFiles', next' - 1)
  BY <1>1, <1>2, <1>6 DEF SeenTrue, SerialSource
<1>8. IsState(serial') /\ serial'.out = serial.out
  BY <1>1, EndSourceIs DEF SeenTrue
<1>9. BetweenTrue'
  BY <1>7, <1>8 DEF BetweenTrue
<1>10. ASSUME next' > N
       PROVE  WholeTrue'
  <2>1. next' = N + 1 /\ next' - 1 = N
    BY <1>2, <1>10
  <2> QED
    BY <1>7, <1>8, <2>1 DEF WholeTrue
<1> QED
  BY <1>1, <1>5, <1>8, <1>9, <1>10 DEF SerialTrue

\* What has been read is compared with the ledger, where there is one.
LEMMA ConfirmSourceKeeps ==
  ASSUME IInv, ConfirmSource
  PROVE  IInv'
<1>1. pc = "confirm" /\ UNCHANGED <<inputs, seen, committed, status>>
  BY DEF ConfirmSource
<1>2. InputsTrue' /\ (Same' <=> Same) /\ (Known' <=> Known) /\ (Bad' <=> Bad) /\ (Bulk' <=> Bulk)
  BY <1>1, InputsStay DEF IInv
<1>3. ~Bulk /\ error = "none" /\ status = "in-progress"
  BY <1>1 DEF IInv, ControlTrue
<1>4. ListTrue /\ next <= N /\ SeenTrue
  BY <1>1, <1>3 DEF IInv, SerialTrue
<1>5. claimed' = claimed
  BY <1>1 DEF inputs
<1>6. PICK x : x = EndSource(serial, seen.context)
  OBVIOUS
<1>7. x.error \in {"none", "stream", "order"}
  BY <1>4, <1>6, EndErrors DEF SeenTrue
<1>8. x.error # "none" => Bad
  <2>1. x = SerialSource(Sources(ListedFiles, next - 1), seen)
    BY <1>4, <1>6 DEF SerialSource, SeenTrue
  <2>2. Same => seen = claimed[next]
    BY <1>4 DEF SeenTrue
  <2> QED
    BY <1>4, <2>1, <2>2, ReadIsBad DEF IInv
<1>9. PlanPhase' /\ EncodePhase' /\ CommitPhase' /\ EndPhase'
  BY <1>1, <1>2, <1>3 DEF ConfirmSource, PlanPhase, EncodePhase, CommitPhase, EndPhase
<1>10. \/ /\ ledger => seen = claimed[next]
          /\ serial' = x /\ error' = "none" /\ x.error = "none" /\ pc' = "serial"
          /\ listed' = Append(listed, Entry(next, seen)) /\ next' = next + 1
       \/ error' = x.error /\ x.error # "none" /\ pc' = "finish" /\ UNCHANGED <<listed, next>>
       \/ error' \in {"changed", "io"} /\ pc' = "finish" /\ UNCHANGED <<listed, next>>
  <2>1. {seen, files[next]} = {claimed[next]} => seen = claimed[next]
    OBVIOUS
  <2> QED
    BY <1>6, <2>1 DEF ConfirmSource
<1>11. CASE error' # "none" /\ (error' \in {"order", "stream"} => Bad) /\ error' # "cancelled" /\ pc' = "finish"
            /\ UNCHANGED <<listed, next>>
  <2>1. ControlTrue'
    BY <1>1, <1>2, <1>3, <1>11 DEF ControlTrue
  <2>2. ListTrue'
    BY <1>2, <1>4, <1>5, <1>11, ListStays
  <2>3. SerialTrue'
    BY <1>11, <2>2 DEF SerialTrue
  <2> QED
    BY <1>2, <1>9, <2>1, <2>3 DEF IInv
<1>12. CASE /\ ledger => seen = claimed[next]
            /\ serial' = x /\ error' = "none" /\ x.error = "none" /\ pc' = "serial"
            /\ listed' = Append(listed, Entry(next, seen)) /\ next' = next + 1
  <2>1. ControlTrue'
    BY <1>1, <1>2, <1>3, <1>12 DEF ControlTrue
  <2>2. Known' => seen = claimed[next]
    BY <1>2, <1>4, <1>12 DEF Known, SeenTrue
  <2>3. SerialTrue'
    BY <1>1, <1>2, <1>3, <1>5, <1>6, <1>12, <2>2, SourceListed
  <2> QED
    BY <1>2, <1>9, <2>1, <2>3 DEF IInv
<1> QED
  BY <1>7, <1>8, <1>10, <1>11, <1>12

\* The serial transform appends the last block, or fails to.
LEMMA TailKeeps ==
  ASSUME IInv, AppendTail \/ TailFails
  PROVE  IInv'
<1>1. /\ SourcesOver /\ UNCHANGED <<inputs, next, listed, status>>
      /\ pc' \in {"serial", "finish"} /\ (error' = error \/ error' = "storage")
  BY DEF AppendTail, TailFails, SourcesOver
<1>2. InputsTrue' /\ (Same' <=> Same) /\ (Known' <=> Known) /\ (Bad' <=> Bad) /\ (Bulk' <=> Bulk)
  BY <1>1, InputsStay DEF IInv
<1>3. ~Bulk /\ status = "in-progress"
  BY <1>1 DEF SourcesOver, IInv, ControlTrue
<1>4. upstream' = upstream /\ claimed' = claimed
  BY <1>1 DEF inputs
<1>5. ListTrue /\ ListTrue' /\ ListedFiles' = ListedFiles
  <2>1. ListTrue
    BY <1>3 DEF IInv, SerialTrue
  <2> QED
    BY <1>1, <1>2, <1>4, <2>1, ListStays
<1>6. PlanPhase' /\ EncodePhase' /\ CommitPhase' /\ EndPhase'
  BY <1>1, <1>2, <1>3 DEF PlanPhase, EncodePhase, CommitPhase, EndPhase
<1>7. CASE AppendTail
  <2>1. pc' = pc /\ error' = error
    BY <1>7 DEF AppendTail
  <2>2. ControlTrue'
    BY <1>1, <1>2, <1>3, <2>1 DEF IInv, ControlTrue
  <2>3. ~(next <= N /\ pc = "serial")
    <3>1. N \in Nat /\ next \in Nat
      BY <1>5, TransformAssumption DEF ListTrue
    <3> QED
      BY <1>1, <1>3, <3>1 DEF SourcesOver
  <2>4. ASSUME error = "none"
        PROVE  WholeTrue' /\ committed' = serial'.out
    <3>1. WholeTrue
      BY <1>1, <1>3, <2>4 DEF SourcesOver, IInv, SerialTrue
    <3>2. PICK out, y : out = Flushed(serial) /\ y = serial'
      OBVIOUS
    <3>3. committed' = out /\ y = [serial EXCEPT !.out = out, !.block = <<>>]
      BY <1>7, <3>2 DEF AppendTail, Flushed
    <3>4. PICK z : z = [serial EXCEPT !.out = out]
      OBVIOUS
    <3>5. z = [v |-> serial.v, block |-> serial.block, ctx |-> serial.ctx, first |-> serial.first, out |-> out, error |-> serial.error]
      BY <3>1, <3>4 DEF WholeTrue, IsState
    <3>6. y = [z EXCEPT !.block = <<>>]
      BY <3>3, <3>4
    <3>7. y = [v |-> serial.v, block |-> <<>>, ctx |-> serial.ctx, first |-> serial.first, out |-> out, error |-> serial.error]
      BY <3>5, <3>6
    <3>8. IsSeq(out)
      BY <3>1, <3>2, EmitSeq DEF WholeTrue, IsState, Flushed
    <3>9. IsState(y) /\ Flushed(y) = out
      BY <3>1, <3>7, <3>8 DEF WholeTrue, IsState, Flushed, Emit
    <3>10. y.block = <<>> /\ y.out = out
      BY <3>7
    <3> QED
      BY <1>1, <1>5, <3>1, <3>2, <3>3, <3>9, <3>10 DEF WholeTrue
  <2>5. pc = "serial" => error = "none"
    BY DEF IInv, ControlTrue
  <2>6. SerialTrue'
    BY <1>1, <1>5, <2>1, <2>3, <2>4, <2>5 DEF SerialTrue
  <2> QED
    BY <1>2, <1>6, <2>2, <2>6 DEF IInv
<1>8. CASE TailFails
  <2>1. pc' = "finish" /\ error' # "none" /\ (error' = error \/ error' = "storage")
    BY <1>8 DEF TailFails
  <2>2. ControlTrue'
    BY <1>1, <1>2, <1>3, <2>1 DEF IInv, ControlTrue
  <2>3. SerialTrue'
    BY <1>5, <2>1 DEF SerialTrue
  <2> QED
    BY <1>2, <1>6, <2>2, <2>3 DEF IInv
<1> QED
  BY <1>7, <1>8

\* The serial transform has read them all.
LEMMA SerialDoneKeeps ==
  ASSUME IInv, SerialDone
  PROVE  IInv'
<1>1. pc = "serial" /\ next > N /\ pc' = "finish" /\ UNCHANGED <<inputs, next, serial, seen, listed, committed, error, status>>
  BY DEF SerialDone, outVars
<1>2. InputsTrue' /\ (Same' <=> Same) /\ (Known' <=> Known) /\ (Bad' <=> Bad) /\ (Bulk' <=> Bulk)
  BY <1>1, InputsStay DEF IInv
<1>3. ~Bulk /\ error = "none" /\ status = "in-progress"
  BY <1>1 DEF IInv, ControlTrue
<1>4. ControlTrue'
  BY <1>1, <1>3 DEF ControlTrue
<1>5. SerialTrue'
  <2>1. ListTrue /\ WholeTrue /\ committed = serial.out
    BY <1>1, <1>3 DEF IInv, SerialTrue
  <2>2. claimed' = claimed
    BY <1>1 DEF inputs
  <2>3. ListTrue' /\ ListedFiles' = ListedFiles
    BY <1>1, <1>2, <2>1, <2>2, ListStays
  <2>4. WholeTrue'
    BY <1>1, <2>1, <2>3 DEF WholeTrue
  <2> QED
    BY <1>1, <2>1, <2>3, <2>4 DEF SerialTrue
<1>6. PlanPhase' /\ EncodePhase' /\ CommitPhase' /\ EndPhase'
  BY <1>1, <1>2, <1>3 DEF PlanPhase, EncodePhase, CommitPhase, EndPhase
<1> QED
  BY <1>2, <1>4, <1>5, <1>6 DEF IInv

\* From finish on, nothing but the error and the status changes.
LEMMA EndKeeps ==
  ASSUME IInv, pc \in {"finish", "publish"}, pc' \in {"publish", "end"},
         UNCHANGED <<inputs, next, serial, plan, committed, listed>>, ~Bulk /\ error = "none" => serial.block = <<>>,
         error' = error \/ error' = "storage", error # "none" => error' = error,
         pc' = "publish" => status' = status,
         pc' = "end" => error' = error /\ (status' = "complete" => error = "none" /\ upstream # "partial")
  PROVE  IInv'
<1>1. InputsTrue' /\ (Same' <=> Same) /\ (Known' <=> Known) /\ (Bad' <=> Bad) /\ (Bulk' <=> Bulk)
  BY InputsStay DEF IInv
<1>2. upstream' = upstream /\ claimed' = claimed
  BY DEF inputs
<1>3. ControlTrue'
  BY <1>1, <1>2 DEF IInv, ControlTrue
<1>4. SerialTrue'
  <2> SUFFICES ASSUME ~Bulk
               PROVE  SerialTrue'
    BY <1>1 DEF SerialTrue
  <2>1. ListTrue /\ (error = "none" => WholeTrue /\ committed = serial.out)
    BY DEF IInv, SerialTrue
  <2>2. ListTrue' /\ ListedFiles' = ListedFiles
    BY <1>1, <1>2, <2>1, ListStays
  <2>3. error = "none" => WholeTrue'
    BY <2>1, <2>2 DEF WholeTrue
  <2>4. error' = "none" => error = "none"
    OBVIOUS
  <2> QED
    BY <2>1, <2>2, <2>3, <2>4 DEF SerialTrue
<1>5. PlanPhase' /\ EncodePhase' /\ CommitPhase'
  BY DEF PlanPhase, EncodePhase, CommitPhase
<1>6. EndPhase'
  <2> SUFFICES ASSUME Bulk
               PROVE  EndPhase'
    BY <1>1 DEF EndPhase
  <2>1. error = "none" => PlanDone(plan) /\ ReadKnown(N) /\ UpToGroup(Len(plan.groups))
    BY DEF IInv, EndPhase
  <2>2. committed # <<>> /\ (Len(plan.groups) > 1 \/ Same) => PlanDone(plan) /\ Begins(committed, Flushed(Sources(plan.read, N)))
    BY DEF IInv, EndPhase
  <2>3. error' = "none" => error = "none"
    OBVIOUS
  <2>4. error' = "none" => PlanDone(plan') /\ ReadKnown(N)' /\ UpToGroup(Len(plan.groups))'
    BY <1>1, <1>2, <2>1, <2>3 DEF ReadKnown, UpToGroup
  <2>5. committed' # <<>> /\ (Len(plan'.groups) > 1 \/ Same') => PlanDone(plan') /\ Begins(committed', Flushed(Sources(plan'.read, N)))
    BY <1>1, <2>2
  <2> QED
    BY <2>4, <2>5 DEF EndPhase
<1> QED
  BY <1>1, <1>3, <1>4, <1>5, <1>6 DEF IInv

\* The archive is finished or is not, and the import is published.
LEMMA FinishKeeps ==
  ASSUME IInv, FinishFails \/ FinishArchive \/ Publish
  PROVE  IInv'
<1>1. CASE FinishFails
  BY <1>1, EndKeeps DEF FinishFails, bulkVars
<1>2. CASE FinishArchive
  BY <1>2, EndKeeps DEF FinishArchive, bulkVars, outVars
<1>3. CASE Publish
  <2>1. ~Bulk /\ error = "none" => serial.block = <<>>
    BY <1>3 DEF Publish, IInv, SerialTrue, WholeTrue
  <2> QED
    BY <1>3, <2>1, EndKeeps DEF Publish, bulkVars
<1> QED
  BY <1>1, <1>2, <1>3

\* A source that loses its last row is still a source.
LEMMA ShorterSource ==
  ASSUME NEW f, IsSource(f), f.rows # <<>>, NEW h, h = [context |-> f.context, rows |-> Front(f.rows)]
  PROVE  IsSource(h) /\ Len(h.rows) = Len(f.rows) - 1 /\ Len(f.rows) \in Nat
<1>1. PICK S : S = ToSet(f.rows)
  OBVIOUS
<1>2. PICK rs : rs = f.rows
  OBVIOUS
<1>3. rs \in Seq(S) /\ rs # <<>> /\ f.context # None /\ AreRows(rs, Len(rs))
  BY <1>1, <1>2 DEF IsSource, IsSeq
<1>4. PICK qs : qs = SubSeq(rs, 1, Len(rs) - 1)
  OBVIOUS
<1>5. Len(rs) \in Nat /\ Len(rs) > 0
  BY <1>3
<1>6. qs \in Seq(S) /\ Len(qs) = Len(rs) - 1 /\ \A k \in 1..(Len(rs) - 1) : qs[k] = rs[k]
  <2>1. PICK n : n = Len(rs) - 1
    OBVIOUS
  <2>2. n \in Nat /\ n <= Len(rs)
    BY <1>5, <2>1
  <2>3. qs = SubSeq(rs, 1, n)
    BY <1>4, <2>1
  <2>4. qs \in Seq(S) /\ Len(qs) = n /\ \A k \in 1..n : qs[k] = rs[k]
    BY <1>3, <1>5, <2>2, <2>3
  <2> QED
    BY <2>1, <2>4
<1>7. h.rows = qs /\ h.context = f.context /\ h = [context |-> h.context, rows |-> h.rows]
  BY <1>2, <1>4 DEF Front
<1>8. AreRows(qs, Len(qs)) /\ IsSeq(qs)
  BY <1>3, <1>5, <1>6, SeqIs DEF AreRows
<1> QED
  BY <1>2, <1>3, <1>5, <1>6, <1>7, <1>8 DEF IsSource

\* A source is cut short while the transform runs.
LEMMA ChangeKeeps ==
  ASSUME IInv, NEW i \in Files, Change(i)
  PROVE  IInv'
<1>1. /\ pc \notin {"publish", "end"} /\ files[i].rows # <<>> /\ files' = [files EXCEPT ![i].rows = Front(@)]
      /\ UNCHANGED <<claimed, ledger, upstream, workers, pc, next, serial, seen, job, cancel, plan, committed, listed, error, status>>
  BY DEF Change, bulkVars, outVars
<1>2. PICK h : h = [context |-> files[i].context, rows |-> Front(files[i].rows)]
  OBVIOUS
<1>3. files[i] = [context |-> files[i].context, rows |-> files[i].rows] /\ IsSource(files[i]) /\ IsSource(claimed[i])
  BY DEF IInv, InputsTrue, IsSource
<1>4. files' = [files EXCEPT ![i] = h]
  <2>1. PICK x : x = [files[i] EXCEPT !.rows = Front(files[i].rows)]
    OBVIOUS
  <2>2. x = h
    BY <1>2, <1>3, <2>1
  <2>3. files' = [files EXCEPT ![i] = x]
    BY <1>1, <2>1, Zenon
  <2> QED
    BY <2>2, <2>3
<1>5. IsSource(h) /\ Len(h.rows) = Len(files[i].rows) - 1 /\ Len(files[i].rows) \in Nat
  BY <1>1, <1>2, <1>3, ShorterSource
<1>6. Len(h.rows) < Len(claimed[i].rows) /\ Len(claimed[i].rows) \in Nat
  <2>1. Len(claimed[i].rows) \in Nat
    BY <1>3 DEF IsSource, IsSeq
  <2> QED
    BY <1>5, <2>1 DEF IInv, InputsTrue
<1>7. InputsTrue'
  <2>1. files = [j \in Files |-> files[j]]
    BY DEF IInv, InputsTrue
  <2>2. files' = [j \in Files |-> IF j = i THEN h ELSE files[j]]
    BY <1>4, <2>1
  <2>3. files'[i] = h /\ \A j \in Files : j # i => files'[j] = files[j]
    BY <2>2
  <2>4. files' = [j \in Files |-> files'[j]]
    BY <2>2
  <2> QED
    BY <1>1, <1>5, <1>6, <2>3, <2>4 DEF IInv, InputsTrue, Files
<1>8. ~Same'
  <2>1. files'[i] = h /\ claimed'[i] = claimed[i]
    BY <1>1, <1>4 DEF IInv, InputsTrue
  <2>2. h # claimed[i]
    BY <1>6
  <2> QED
    BY <2>1, <2>2 DEF Same, Files
<1>9. Bad' /\ (Known' => Known) /\ (Bulk' <=> Bulk)
  BY <1>1, <1>8 DEF Bad, Known, Bulk
<1>10. ControlTrue'
  BY <1>1, <1>9 DEF IInv, ControlTrue
<1>11. SerialTrue'
  BY <1>1, <1>8, <1>9, SerialStays DEF IInv
<1>12. \A k : ReadKnown(k) => ReadKnown(k)'
  BY <1>1, <1>9 DEF ReadKnown
<1>13. \A j : (ResultTrue(job[j]) => ResultTrue(job[j])') /\ (SummaryTrue(j) => SummaryTrue(j)') /\ (BlocksTrue(j) => BlocksTrue(j)')
  BY <1>1, <1>9 DEF ResultTrue, SummaryTrue, BlocksTrue
<1>14. \A d : UpToGroup(d) => UpToGroup(d)'
  BY <1>1 DEF UpToGroup
<1>15. CancelTrue => CancelTrue'
  BY <1>1 DEF CancelTrue
<1>16. PlanPhase'
  <2> SUFFICES ASSUME pc = "plan"
               PROVE  PlanPhase'
    BY <1>1 DEF PlanPhase
  <2>1. /\ next \in 1..N /\ PlanTrue(plan) /\ Len(plan.read) = next - 1 /\ ReadKnown(next - 1)
        /\ committed = <<>> /\ listed = <<>>
        /\ Jobs(job, next, Top(Least(workers, N), N)) /\ Summaries
    BY DEF IInv, PlanPhase
  <2>2. Summaries'
    BY <1>1, <1>13, <1>15, <2>1 DEF Summaries
  <2>3. ReadKnown(next - 1)'
    BY <1>1, <1>12, <2>1
  <2>4. Jobs(job, next, Top(Least(workers, N), N))'
    BY <1>1, <2>1 DEF Top, Least
  <2>5. (next \in 1..N /\ PlanTrue(plan) /\ Len(plan.read) = next - 1)'
    BY <1>1, <2>1
  <2>6. (committed = <<>> /\ listed = <<>>)'
    BY <1>1, <2>1
  <2> QED
    BY <2>2, <2>3, <2>4, <2>5, <2>6 DEF PlanPhase
<1>17. EncodePhase'
  <2> SUFFICES ASSUME pc = "encode"
               PROVE  EncodePhase'
    BY <1>1 DEF EncodePhase
  <2>1. /\ PlanDone(plan) /\ ReadKnown(N) /\ next \in 1..Len(plan.groups) /\ UpToGroup(next - 1)
        /\ Len(plan.groups) = 1 => error = "none"
        /\ Jobs(job, next, Top(Least(workers, Len(plan.groups)), Len(plan.groups))) /\ Encodings
    BY DEF IInv, EncodePhase
  <2>2. Encodings'
    BY <1>1, <1>13, <1>15, <2>1 DEF Encodings
  <2>3. ReadKnown(N)' /\ UpToGroup(next - 1)'
    BY <1>1, <1>12, <1>14, <2>1
  <2>4. Jobs(job, next, Top(Least(workers, Len(plan.groups)), Len(plan.groups)))'
    BY <1>1, <2>1 DEF Top, Least
  <2>5. (PlanDone(plan) /\ next \in 1..Len(plan.groups) /\ (Len(plan.groups) = 1 => error = "none"))'
    BY <1>1, <2>1
  <2> QED
    BY <2>2, <2>3, <2>4, <2>5 DEF EncodePhase
<1>18. CommitPhase'
  <2> SUFFICES ASSUME pc = "commit"
               PROVE  CommitPhase'
    BY <1>1 DEF CommitPhase
  <2>1. /\ PlanDone(plan) /\ ReadKnown(N) /\ next \in 1..Len(plan.groups) /\ Len(plan.groups) > 1
        /\ \E d : Committing(d, Top(Least(workers, Len(plan.groups)), Len(plan.groups)))
    BY DEF IInv, CommitPhase
  <2>2. PICK d : Committing(d, Top(Least(workers, Len(plan.groups)), Len(plan.groups)))
    BY <2>1
  <2>3. Committing(d, Top(Least(workers, Len(plan.groups)), Len(plan.groups)))'
    <3>1. PICK to : to = Top(Least(workers, Len(plan.groups)), Len(plan.groups))
      OBVIOUS
    <3>2. to = Top(Least(workers, Len(plan.groups)), Len(plan.groups))'
      BY <1>1, <3>1 DEF Top, Least
    <3>3. Committing(d, to)
      BY <2>2, <3>1
    <3>4. Committing(d, to)'
      BY <1>1, <1>13, <1>14, <3>3 DEF Committing
    <3> QED
      BY <3>2, <3>4
  <2>4. ReadKnown(N)'
    BY <1>12, <2>1
  <2> QED
    BY <1>1, <2>1, <2>3, <2>4 DEF CommitPhase
<1>19. EndPhase'
  BY <1>1, <1>8, <1>9, <1>12, <1>14 DEF IInv, EndPhase
<1> QED
  BY <1>7, <1>10, <1>11, <1>16, <1>17, <1>18, <1>19 DEF IInv

-----------------------------------------------------------------------------
(* Workers                                                                  *)

\* What pass one refuses for its order, the serial transform refuses.
LEMMA SummaryIs ==
  ASSUME InputsTrue, NEW i \in Files, NEW r, r = Summary(i)
  PROVE  /\ r.is \in {"ok", "changed", "too many", "order"} /\ (r.is = "order" => Bad)
         /\ r.is = "ok" => SumTrue(r) /\ (Known => r.file = claimed[i])
<1>1. PICK f : f = files[i]
  OBVIOUS
<1>2. IsSource(f) /\ IsSource(claimed[i]) /\ IsSeq(f.rows)
  BY <1>1 DEF InputsTrue, IsSource
<1>3. Offline(NewValidator(Unlimited), f.rows) = End(f)
  BY <1>2, OfflineIs DEF End
<1>4. CASE ~AsClaimed(i)
  BY <1>4 DEF Summary, Only
<1>5. CASE AsClaimed(i) /\ TooManyIn(f.rows)
  BY <1>1, <1>5 DEF Summary, Only
<1>6. CASE AsClaimed(i) /\ ~TooManyIn(f.rows) /\ ~End(f).ok
  <2>1. r.is = "order"
    BY <1>1, <1>3, <1>6 DEF Summary, Only
  <2>2. N \in Nat /\ i \in 1..N /\ i \in 0..N /\ i - 1 \in Nat /\ (i - 1) + 1 = i /\ i \in Nat /\ i - 1 \in 0..i
    BY TransformAssumption DEF Files
  <2>3. AreSources(claimed, i)
    BY <2>2 DEF InputsTrue, AreSources, Files
  <2>4. AreSources(claimed, i - 1)
    BY <2>2, <2>3 DEF AreSources
  <2>5. PICK s : s = Sources(claimed, i - 1)
    OBVIOUS
  <2>6. Sources(claimed, i) = SerialSource(s, claimed[i])
    BY <2>2, <2>5, SourcesStep
  <2>7. ASSUME Same  PROVE Sources(claimed, i).error # "none"
    <3>1. claimed[i] = f
      BY <1>1, <2>7 DEF Same
    <3>2. CASE s.error # "none"
      BY <2>2, <2>3, <2>5, <3>2, SourcesStop
    <3>3. CASE s.error = "none"
      <4>1. IsState(s)
        BY <2>2, <2>4, <2>5, SourcesState
      <4>2. Taken(s, f)
        BY <1>2, <3>3, <4>1, SourceTaken
      <4>3. ~Suits(s, f)
        BY <1>6 DEF Suits
      <4> QED
        BY <2>6, <3>1, <4>2, <4>3 DEF Taken
    <3> QED
      BY <3>2, <3>3
  <2>8. Bad
    BY <2>2, <2>7, RefusedIsBad
  <2> QED
    BY <2>1, <2>8
<1>7. CASE AsClaimed(i) /\ ~TooManyIn(f.rows) /\ End(f).ok
  <2>1. r = [is |-> "ok", file |-> f, resets |-> ResetsOf(f.rows), final |-> End(f).v.previous]
    BY <1>1, <1>3, <1>7 DEF Summary
  <2>2. ResetsOf(f.rows) = All(f)
    <3>1. DOMAIN f.rows = 1..Len(f.rows)
      BY <1>2 DEF IsSeq
    <3> QED
      BY <3>1 DEF ResetsOf, All, ResetsTo
  <2>3. SumTrue(r)
    BY <1>2, <1>7, <2>1, <2>2 DEF SumTrue
  <2>4. Known => f = claimed[i]
    BY <1>1, <1>7 DEF Known, Same, AsClaimed
  <2> QED
    BY <2>1, <2>3, <2>4
<1> QED
  BY <1>4, <1>5, <1>6, <1>7

\* Source i, replayed after a to x
RepliedOne(a, g, i, x) ==
  /\ x.error \in {"none", "changed", "order", "stream"}
  /\ x.error = "none" => x = SourceRows(a, g.context, plan.read[i].rows) /\ files[i] = plan.read[i]
  /\ x.error # "none" => files[i] # plan.read[i] \/ ~AsClaimed(i)

\* A source of a group is only refused for its rows if it is not what pass one read.
LEMMA SourceReplayed ==
  ASSUME InputsTrue, NEW g, NEW i \in Files, NEW a, IsState(a), a.error = "none", NEW x, x = ReplaySource(a, g, i),
         SourceRows(a, g.context, plan.read[i].rows).error = "none"
  PROVE  RepliedOne(a, g, i, x)
<1> USE DEF RepliedOne
<1>1. PICK y : y = SourceRows(a, g.context, files[i].rows)
  OBVIOUS
<1>2. IsState(y) /\ y.error \in {"none", "stream", "order"}
  BY <1>1, RowsErrors DEF InputsTrue, IsSource
<1>3. CASE ~AsClaimed(i)
  <2>1. x = [a EXCEPT !.error = "changed"]
    BY <1>3 DEF ReplaySource
  <2>2. x.error = "changed"
    BY <2>1 DEF IsState
  <2> QED
    BY <1>3, <2>2
<1>4. CASE AsClaimed(i) /\ y.error = "none" /\ files[i] # plan.read[i]
  <2>1. x = [y EXCEPT !.error = "changed"]
    BY <1>1, <1>4 DEF ReplaySource
  <2>2. x.error = "changed"
    BY <1>2, <2>1 DEF IsState
  <2> QED
    BY <1>4, <2>2
<1>5. CASE AsClaimed(i) /\ ~(y.error = "none" /\ files[i] # plan.read[i])
  <2>1. x = y
    BY <1>1, <1>5 DEF ReplaySource
  <2> QED
    BY <1>1, <1>2, <1>5, <2>1
<1> QED
  BY <1>3, <1>4, <1>5

\* The first j sources of group g, replayed to x
RepliedTo(g, j, x) ==
  /\ x.error \in {"none", "changed", "order", "stream"}
  /\ x.error = "none" => x = ReplayTo(plan.read, g, j) /\ \A k \in 1..j : files[g.start + k - 1] = plan.read[g.start + k - 1]
  /\ x.error # "none" => \E i \in Files : files[i] # plan.read[i] \/ ~AsClaimed(i)

\* One source after the other
LEMMA ReplayedTo ==
  ASSUME InputsTrue, PlanDone(plan), NEW m \in 1..Len(plan.groups), NEW g, g = plan.groups[m]
  PROVE  RepliedTo(g, g.end - g.start, Replaying(g, SourcesOf(g), g.end - g.start))
<1>1. PICK n, start, read, order, ms : /\ n = g.end - g.start /\ start = g.start /\ read = plan.read
                                       /\ order = SourcesOf(g) /\ ms = [k \in 1..n |-> read[start + k - 1]]
  OBVIOUS
<1>2. n \in Nat /\ start \in Nat \ {0} /\ start + n <= N + 1 /\ N \in Nat
  <2>1. GroupTrue(plan.read, g) /\ g.end <= N + 1 /\ N \in Nat
    BY TransformAssumption DEF PlanDone
  <2> QED
    BY <1>1, <2>1 DEF GroupTrue
<1>3. Replayable(read, g)
  BY <1>1, GroupsExtend DEF Extends
<1>4. \A j \in Nat : ReplayTo(read, g, j) = GroupRows(StartOf(g), g.context, ms, j)
  BY <1>1 DEF ReplayTo
<1>5. \A k \in 1..n : order[k] = start + k - 1 /\ order[k] \in Files /\ ms[k] = read[start + k - 1]
  BY <1>1, <1>2 DEF SourcesOf, Files
<1> DEFINE A == {j \in Nat : j <= n => RepliedTo(g, j, Replaying(g, order, j))}
<1>6. 0 \in A
  <2>1. Replaying(g, order, 0) = StartOf(g) /\ ReplayTo(read, g, 0) = StartOf(g)
    BY <1>4, ReplayingFirst, GroupRowsFirst
  <2>2. 0 \in 0..n /\ 1..0 = {}
    BY <1>2
  <2>3. StartOf(g).error = "none"
    BY <1>1, <1>3, <2>1, <2>2 DEF Replayable
  <2> QED
    BY <1>1, <2>1, <2>2, <2>3 DEF RepliedTo
<1>7. ASSUME NEW j \in Nat, j \in A  PROVE j + 1 \in A
  <2> SUFFICES ASSUME j + 1 <= n
               PROVE  RepliedTo(g, j + 1, Replaying(g, order, j + 1))
    OBVIOUS
  <2>1. PICK a, x, i : a = Replaying(g, order, j) /\ x = Replaying(g, order, j + 1) /\ i = start + (j + 1) - 1
    OBVIOUS
  <2>2. j \in 0..n /\ j + 1 \in 0..n /\ j + 1 \in 1..n
    BY <1>2
  <2>3. RepliedTo(g, j, a)
    BY <1>2, <1>7, <2>1
  <2>4. order[j + 1] = i /\ i \in Files /\ ms[j + 1] = read[i]
    BY <1>5, <2>1, <2>2
  <2>5. x = ReplaySource(a, g, i)
    BY <2>1, <2>4, ReplayingStep
  <2>6. CASE a.error # "none"
    <3>1. x = a
      BY <2>5, <2>6 DEF ReplaySource
    <3> QED
      BY <2>1, <2>3, <2>6, <3>1 DEF RepliedTo
  <2>7. CASE a.error = "none"
    <3>1. a = ReplayTo(read, g, j) /\ \A k \in 1..j : files[g.start + k - 1] = plan.read[g.start + k - 1]
      BY <1>1, <2>3, <2>7 DEF RepliedTo
    <3>2. ReplayTo(read, g, j + 1) = SourceRows(a, g.context, read[i].rows)
      <4>1. PICK t, c : t = StartOf(g) /\ c = g.context
        OBVIOUS
      <4>2. GroupRows(t, c, ms, j + 1) = SourceRows(GroupRows(t, c, ms, j), c, ms[j + 1].rows)
        BY GroupRowsStep
      <4>3. ReplayTo(read, g, j) = GroupRows(t, c, ms, j) /\ ReplayTo(read, g, j + 1) = GroupRows(t, c, ms, j + 1)
        BY <1>4, <4>1
      <4>4. a = GroupRows(t, c, ms, j)
        BY <3>1, <4>3
      <4>5. ReplayTo(read, g, j + 1) = SourceRows(a, c, ms[j + 1].rows)
        BY <4>2, <4>3, <4>4
      <4> QED
        BY <2>4, <4>1, <4>5
    <3>3. IsState(a) /\ ReplayTo(read, g, j + 1).error = "none"
      BY <1>1, <1>3, <2>2, <3>1 DEF Replayable
    <3>4. RepliedOne(a, g, i, x)
      <4>1. SourceRows(a, g.context, plan.read[i].rows).error = "none"
        BY <1>1, <3>2, <3>3
      <4> QED
        BY <2>4, <2>5, <2>7, <3>3, <4>1, SourceReplayed
    <3>5. ASSUME x.error = "none", NEW k \in 1..(j + 1)
          PROVE  files[g.start + k - 1] = plan.read[g.start + k - 1]
      <4>1. CASE k = j + 1
        BY <1>1, <2>1, <3>4, <3>5, <4>1 DEF RepliedOne
      <4>2. CASE k # j + 1
        <5>1. k \in 1..j
          BY <4>2
        <5> QED
          BY <3>1, <5>1
      <4> QED
        BY <4>1, <4>2
    <3>6. x.error = "none" => x = ReplayTo(plan.read, g, j + 1)
      BY <1>1, <3>2, <3>4 DEF RepliedOne
    <3>7. x.error # "none" => \E h \in Files : files[h] # plan.read[h] \/ ~AsClaimed(h)
      BY <2>4, <3>4 DEF RepliedOne
    <3> QED
      BY <2>1, <3>4, <3>5, <3>6, <3>7 DEF RepliedTo, RepliedOne
  <2> QED
    BY <2>6, <2>7
<1>8. n \in A
  <2> HIDE DEF A
  <2> QED
    BY <1>2, <1>6, <1>7, Induction
<1> QED
  BY <1>1, <1>2, <1>8

\* A group is replayed without an error from the sources that pass one read, and only then.
LEMMA ReplayedIs ==
  ASSUME InputsTrue, PlanDone(plan), NEW k \in 1..Len(plan.groups), NEW g, g = plan.groups[k], NEW s, s = Replayed(g)
  PROVE  /\ s.error \in {"none", "changed", "order", "stream"}
         /\ s.error = "none" => s = Replay(plan.read, g) /\ EntriesOf(g) = EntriesIn(plan, k)
         /\ s.error # "none" /\ ReadKnown(N) => ~Same
<1>1. PICK n : n = g.end - g.start
  OBVIOUS
<1>2. Replaying(g, SourcesOf(g), n) = s
  <2>1. [i \in 1..n |-> SourcesOf(g)[i]] = SourcesOf(g)
    BY <1>1 DEF SourcesOf
  <2>2. FoldLeft(LAMBDA a, i : ReplaySource(a, g, i), StartOf(g), [i \in 1..n |-> SourcesOf(g)[i]]) = Replaying(g, SourcesOf(g), n)
    BY Zenon DEF Replaying
  <2> QED
    BY <2>1, <2>2, Zenon DEF Replayed
<1>3. RepliedTo(g, n, s)
  BY <1>1, <1>2, ReplayedTo
<1>4. ASSUME s.error = "none"
      PROVE  s = Replay(plan.read, g) /\ EntriesOf(g) = EntriesIn(plan, k)
  <2>1. s = ReplayTo(plan.read, g, n) /\ \A j \in 1..n : files[g.start + j - 1] = plan.read[g.start + j - 1]
    BY <1>3, <1>4 DEF RepliedTo
  <2>2. EntriesOf(g) = [j \in 1..n |-> Entry(g.start + j - 1, files[g.start + j - 1])]
    BY <1>1, Zenon DEF EntriesOf
  <2>3. EntriesIn(plan, k) = [j \in 1..n |-> Entry(g.start + j - 1, plan.read[g.start + j - 1])]
    BY <1>1, Zenon DEF EntriesIn
  <2> QED
    BY <1>1, <2>1, <2>2, <2>3 DEF Replay
<1>5. ASSUME s.error # "none", ReadKnown(N)
      PROVE  ~Same
  <2>1. PICK i \in Files : files[i] # plan.read[i] \/ ~AsClaimed(i)
    BY <1>3, <1>5 DEF RepliedTo
  <2>2. Same => plan.read[i] = claimed[i] /\ files[i] = claimed[i] /\ AsClaimed(i)
    BY <1>5 DEF ReadKnown, Known, Same, AsClaimed, Files
  <2> QED
    BY <2>1, <2>2
<1> QED
  BY <1>3, <1>4, <1>5 DEF RepliedTo

\* The blocks a worker makes of a group are those of its replay.
LEMMA EncodedIs ==
  ASSUME InputsTrue, PlanDone(plan), ReadKnown(N), NEW k \in 1..Len(plan.groups), NEW r, r = Encoded(plan.groups[k])
  PROVE  /\ r.is \in {"ok", "changed", "large", "order", "stream"}
         /\ r.is \in {"order", "stream"} => Bad
         /\ r.is = "ok" => r.blocks = Flushed(Replay(plan.read, plan.groups[k])) /\ r.sources = EntriesIn(plan, k)
<1>1. PICK g, s : g = plan.groups[k] /\ s = Replayed(g)
  OBVIOUS
<1>2. /\ s.error \in {"none", "changed", "order", "stream"}
      /\ s.error = "none" => s = Replay(plan.read, g) /\ EntriesOf(g) = EntriesIn(plan, k)
      /\ s.error # "none" => ~Same
  BY <1>1, ReplayedIs
<1>3. \/ r = Only("large") \/ (s.error # "none" /\ r = Only(s.error))
      \/ s.error = "none" /\ r = [is |-> "ok", blocks |-> BlocksOf(s), sources |-> EntriesOf(g)]
  BY <1>1 DEF Encoded
<1>4. CASE r = Only("large")
  BY <1>4 DEF Only
<1>5. CASE s.error # "none" /\ r = Only(s.error)
  BY <1>2, <1>5 DEF Only, Bad
<1>6. CASE s.error = "none" /\ r = [is |-> "ok", blocks |-> BlocksOf(s), sources |-> EntriesOf(g)]
  <2>1. BlocksOf(s) = Flushed(Replay(plan.read, g))
    BY <1>2, <1>6 DEF BlocksOf, Flushed
  <2> QED
    BY <1>1, <1>2, <1>6, <2>1
<1> QED
  BY <1>3, <1>4, <1>5, <1>6

\* The result of a worker of a batch
LEMMA ResultArrives ==
  ASSUME NEW i \in DOMAIN job, job[i] = Todo, NEW r, job' = [job EXCEPT ![i] = r], r.is # "todo",
         cancel' = (cancel \/ IsError(job'[i])), error' = error, (Bad' <=> Bad),
         CancelTrue, \A j \in DOMAIN job : ResultTrue(job[j]), ResultTrue(r)
  PROVE  CancelTrue' /\ \A j \in DOMAIN job' : ResultTrue(job[j])'
<1>1. DOMAIN job' = DOMAIN job /\ job'[i] = r /\ \A j \in DOMAIN job : j # i => job'[j] = job[j]
  OBVIOUS
<1>2. cancel => cancel'
  OBVIOUS
<1>3. ASSUME NEW j \in DOMAIN job'
      PROVE  ResultTrue(job[j])'
  <2>1. CASE j = i
    BY <1>1, <1>2, <2>1 DEF ResultTrue
  <2>2. CASE j # i
    BY <1>1, <1>2, <2>2 DEF ResultTrue
  <2> QED
    BY <2>1, <2>2
<1>4. CancelTrue'
  <2> SUFFICES ASSUME cancel'
               PROVE  error' = "spawn" \/ \E j \in DOMAIN job' : IsError(job'[j])
    BY DEF CancelTrue
  <2>1. CASE IsError(job'[i])
    BY <1>1, <2>1
  <2>2. CASE cancel
    <3>1. error = "spawn" \/ \E j \in DOMAIN job : IsError(job[j])
      BY <2>2 DEF CancelTrue
    <3>2. ~IsError(job[i])
      <4>1. job[i].is = "todo"
        BY DEF Todo, Only
      <4> QED
        BY <4>1 DEF IsError
    <3> QED
      BY <1>1, <3>1, <3>2
  <2> QED
    BY <2>1, <2>2
<1> QED
  BY <1>3, <1>4

\* The jobs of a batch are of sources, or of groups, that there are.
LEMMA JobsBound ==
  ASSUME NEW w \in Nat, NEW size \in Nat, next \in Nat \ {0}, NEW j, Jobs(j, next, Top(w, size))
  PROVE  DOMAIN j = next..Top(w, size) /\ DOMAIN j \subseteq 1..size
<1>1. Top(w, size) \in Int /\ Top(w, size) <= size
  BY DEF Top, Least
<1> QED
  BY <1>1 DEF Jobs

\* A worker ends its job, in whatever way.
LEMMA WorkKeeps ==
  ASSUME IInv, NEW i \in DOMAIN job, Work(i)
  PROVE  IInv'
<1>1. /\ Batched /\ job[i] = Todo /\ cancel' = (cancel \/ IsError(job'[i]))
      /\ UNCHANGED <<inputs, pc, next, serial, plan, committed, listed, error, status>>
  BY DEF Work, outVars
<1>2. PICK r : job' = [job EXCEPT ![i] = r] /\ (r = Compute(i) \/ (r = Only("cancelled") /\ cancel) \/ r = Only("io"))
  BY DEF Work
<1>3. InputsTrue' /\ (Same' <=> Same) /\ (Known' <=> Known) /\ (Bad' <=> Bad) /\ (Bulk' <=> Bulk)
  BY <1>1, InputsStay DEF IInv
<1>4. upstream' = upstream /\ claimed' = claimed /\ workers' = workers
  BY <1>1 DEF inputs
<1>5. ControlTrue'
  BY <1>1, <1>3, <1>4 DEF IInv, ControlTrue
<1>6. pc \in {"plan", "encode"} /\ Bulk
  BY <1>1 DEF Batched, IInv, ControlTrue
<1>7. SerialTrue' /\ CommitPhase' /\ EndPhase'
  BY <1>1, <1>3, <1>6 DEF SerialTrue, CommitPhase, EndPhase
<1>8. DOMAIN job' = DOMAIN job /\ job'[i] = r /\ \A j \in DOMAIN job : j # i => job'[j] = job[j]
  BY <1>2
<1>9. N \in Nat /\ workers \in Nat \ {0}
  BY TransformAssumption DEF IInv, InputsTrue
<1>10. \A from, to : Jobs(job, from, to) => Jobs(job', from, to)
  BY <1>2 DEF Jobs
<1>11. CASE pc = "plan"
  <2>1. /\ next \in 1..N /\ PlanTrue(plan) /\ Len(plan.read) = next - 1 /\ ReadKnown(next - 1)
        /\ committed = <<>> /\ listed = <<>>
        /\ Jobs(job, next, Top(Least(workers, N), N)) /\ Summaries
    BY <1>11 DEF IInv, PlanPhase
  <2>2. Least(workers, N) \in Nat /\ next \in Nat \ {0}
    BY <1>9, <2>1, LeastIs
  <2>3. i \in Files
    BY <1>9, <2>1, <2>2, JobsBound DEF Files
  <2>4. /\ ResultTrue(r) /\ r.is # "todo"
        /\ r.is = "ok" => SumTrue(r) /\ (Known => r.file = claimed[i])
    <3>1. CASE r = Compute(i)
      <4>1. r = Summary(i)
        BY <1>11, <3>1 DEF Compute
      <4> QED
        BY <2>3, <4>1, SummaryIs DEF IInv, ResultTrue
    <3>2. CASE r = Only("cancelled") /\ cancel
      BY <3>2 DEF Only, ResultTrue
    <3>3. CASE r = Only("io")
      BY <3>3 DEF Only, ResultTrue
    <3> QED
      BY <1>2, <3>1, <3>2, <3>3
  <2>5. CancelTrue' /\ \A j \in DOMAIN job' : ResultTrue(job[j])'
    BY <1>1, <1>2, <1>3, <2>1, <2>4, ResultArrives DEF Summaries
  <2>6. ASSUME NEW j \in DOMAIN job'
        PROVE  SummaryTrue(j)'
    <3>1. CASE j = i
      BY <1>3, <1>4, <1>8, <2>4, <3>1 DEF SummaryTrue
    <3>2. CASE j # i
      BY <1>3, <1>4, <1>8, <2>1, <3>2 DEF Summaries, SummaryTrue
    <3> QED
      BY <3>1, <3>2
  <2>7. Summaries'
    BY <2>5, <2>6 DEF Summaries
  <2>8. ReadKnown(next - 1)'
    BY <1>1, <1>3, <1>4, <2>1 DEF ReadKnown
  <2>9. Jobs(job, next, Top(Least(workers, N), N))'
    <3>1. Top(Least(workers, N), N)' = Top(Least(workers, N), N)
      BY <1>1, <1>4 DEF Top, Least
    <3> QED
      BY <1>1, <1>10, <2>1, <3>1
  <2>10. PlanPhase'
    BY <1>1, <2>1, <2>7, <2>8, <2>9 DEF PlanPhase
  <2>11. EncodePhase'
    BY <1>1, <1>11 DEF EncodePhase
  <2> QED
    BY <1>3, <1>5, <1>7, <2>10, <2>11 DEF IInv
<1>12. CASE pc = "encode"
  <2>1. /\ PlanDone(plan) /\ ReadKnown(N) /\ next \in 1..Len(plan.groups) /\ UpToGroup(next - 1)
        /\ Len(plan.groups) = 1 => error = "none"
        /\ Jobs(job, next, Top(Least(workers, Len(plan.groups)), Len(plan.groups))) /\ Encodings
    BY <1>12 DEF IInv, EncodePhase
  <2>2. Len(plan.groups) \in Nat
    BY <2>1 DEF PlanDone, IsSeq
  <2>3. Least(workers, Len(plan.groups)) \in Nat /\ next \in Nat \ {0}
    <3>1. Least(workers, Len(plan.groups)) \in Nat
      BY <1>9, <2>2 DEF Least
    <3> QED
      BY <2>1, <2>2, <3>1
  <2>4. i \in 1..Len(plan.groups)
    BY <2>1, <2>2, <2>3, JobsBound
  <2>5. /\ ResultTrue(r) /\ r.is # "todo"
        /\ r.is = "ok" => r.blocks = Flushed(Replay(plan.read, plan.groups[i])) /\ r.sources = EntriesIn(plan, i)
    <3>1. CASE r = Compute(i)
      <4>1. r = Encoded(plan.groups[i])
        BY <1>12, <3>1 DEF Compute
      <4> QED
        BY <2>1, <2>4, <4>1, EncodedIs DEF IInv, ResultTrue
    <3>2. CASE r = Only("cancelled") /\ cancel
      BY <3>2 DEF Only, ResultTrue
    <3>3. CASE r = Only("io")
      BY <3>3 DEF Only, ResultTrue
    <3> QED
      BY <1>2, <3>1, <3>2, <3>3
  <2>6. CancelTrue' /\ \A j \in DOMAIN job' : ResultTrue(job[j])'
    BY <1>1, <1>2, <1>3, <2>1, <2>5, ResultArrives DEF Encodings
  <2>7. ASSUME NEW j \in DOMAIN job'
        PROVE  BlocksTrue(j)'
    <3>1. CASE j = i
      BY <1>1, <1>8, <2>5, <3>1 DEF BlocksTrue
    <3>2. CASE j # i
      BY <1>1, <1>8, <2>1, <3>2 DEF Encodings, BlocksTrue
    <3> QED
      BY <3>1, <3>2
  <2>8. Encodings'
    BY <2>6, <2>7 DEF Encodings
  <2>9. ReadKnown(N)' /\ UpToGroup(next - 1)'
    BY <1>1, <1>3, <1>4, <2>1 DEF ReadKnown, UpToGroup
  <2>10. Jobs(job, next, Top(Least(workers, Len(plan.groups)), Len(plan.groups)))'
    <3>1. Top(Least(workers, Len(plan.groups)), Len(plan.groups))' = Top(Least(workers, Len(plan.groups)), Len(plan.groups))
      BY <1>1, <1>4 DEF Top, Least
    <3> QED
      BY <1>1, <1>10, <2>1, <3>1
  <2>11. EncodePhase'
    BY <1>1, <2>1, <2>8, <2>9, <2>10 DEF EncodePhase
  <2>12. PlanPhase'
    BY <1>1, <1>12 DEF PlanPhase
  <2> QED
    BY <1>3, <1>5, <1>7, <2>11, <2>12 DEF IInv
<1> QED
  BY <1>6, <1>11, <1>12

\* Neither the worker that cannot be started nor those after it come to anything.
LEMMA SpawnFailsKeeps ==
  ASSUME IInv, NEW i \in DOMAIN job, SpawnFails(i)
  PROVE  IInv'
<1>1. /\ Batched /\ error = "none" /\ cancel' = TRUE /\ error' = "spawn"
      /\ job' = [j \in DOMAIN job |-> IF j >= i THEN Only("unspawned") ELSE job[j]]
      /\ UNCHANGED <<inputs, pc, next, serial, plan, committed, listed, status>>
  BY DEF SpawnFails
<1>2. InputsTrue' /\ (Same' <=> Same) /\ (Known' <=> Known) /\ (Bad' <=> Bad) /\ (Bulk' <=> Bulk)
  BY <1>1, InputsStay DEF IInv
<1>3. upstream' = upstream /\ claimed' = claimed /\ workers' = workers
  BY <1>1 DEF inputs
<1>4. pc \in {"plan", "encode"} /\ Bulk /\ status = "in-progress"
  BY <1>1 DEF Batched, IInv, ControlTrue
<1>5. ControlTrue'
  BY <1>1, <1>2, <1>4 DEF ControlTrue
<1>6. SerialTrue' /\ CommitPhase' /\ EndPhase'
  BY <1>1, <1>2, <1>4 DEF SerialTrue, CommitPhase, EndPhase
<1>7. DOMAIN job' = DOMAIN job /\ \A j \in DOMAIN job : job'[j] = Only("unspawned") \/ job'[j] = job[j]
  BY <1>1
<1>8. \A from, to : Jobs(job, from, to) => Jobs(job', from, to)
  BY <1>1 DEF Jobs
<1>9. CancelTrue'
  BY <1>1 DEF CancelTrue
<1>10. ASSUME NEW j \in DOMAIN job', ResultTrue(job[j])
       PROVE  ResultTrue(job[j])'
  <2>1. CASE job'[j] = Only("unspawned")
    <3>1. job'[j].is = "unspawned"
      BY <2>1 DEF Only
    <3>2. error' = "spawn"
      BY <1>1
    <3> QED
      BY <3>1, <3>2 DEF ResultTrue
  <2>2. CASE job'[j] = job[j]
    BY <1>1, <1>2, <1>10, <2>2 DEF ResultTrue
  <2> QED
    BY <1>7, <2>1, <2>2
<1>11. CASE pc = "plan"
  <2>1. /\ next \in 1..N /\ PlanTrue(plan) /\ Len(plan.read) = next - 1 /\ ReadKnown(next - 1)
        /\ committed = <<>> /\ listed = <<>>
        /\ Jobs(job, next, Top(Least(workers, N), N)) /\ Summaries
    BY <1>11 DEF IInv, PlanPhase
  <2>2. ASSUME NEW j \in DOMAIN job'
        PROVE  SummaryTrue(j)'
    BY <1>2, <1>3, <1>7, <2>1 DEF Summaries, SummaryTrue, Only
  <2>3. Summaries'
    BY <1>7, <1>9, <1>10, <2>1, <2>2 DEF Summaries
  <2>4. ReadKnown(next - 1)'
    BY <1>1, <1>2, <1>3, <2>1 DEF ReadKnown
  <2>5. Jobs(job, next, Top(Least(workers, N), N))'
    <3>1. Top(Least(workers, N), N)' = Top(Least(workers, N), N)
      BY <1>1, <1>3 DEF Top, Least
    <3> QED
      BY <1>1, <1>8, <2>1, <3>1
  <2>6. PlanPhase' /\ EncodePhase'
    BY <1>1, <1>11, <2>1, <2>3, <2>4, <2>5 DEF PlanPhase, EncodePhase
  <2> QED
    BY <1>2, <1>5, <1>6, <2>6 DEF IInv
<1>12. CASE pc = "encode"
  <2>1. /\ PlanDone(plan) /\ ReadKnown(N) /\ next \in 1..Len(plan.groups) /\ UpToGroup(next - 1)
        /\ Jobs(job, next, Top(Least(workers, Len(plan.groups)), Len(plan.groups))) /\ Encodings
    BY <1>12 DEF IInv, EncodePhase
  <2>2. Len(plan.groups) \in Nat /\ Len(plan.groups) > 1
    <3>1. Len(plan.groups) \in Nat
      BY <2>1 DEF PlanDone, IsSeq
    <3> QED
      BY <1>1, <1>12, <3>1 DEF Batched
  <2>3. ASSUME NEW j \in DOMAIN job'
        PROVE  BlocksTrue(j)'
    BY <1>1, <1>7, <2>1 DEF Encodings, BlocksTrue, Only
  <2>4. Encodings'
    BY <1>7, <1>9, <1>10, <2>1, <2>3 DEF Encodings
  <2>5. ReadKnown(N)' /\ UpToGroup(next - 1)'
    BY <1>1, <1>2, <1>3, <2>1 DEF ReadKnown, UpToGroup
  <2>6. Jobs(job, next, Top(Least(workers, Len(plan.groups)), Len(plan.groups)))'
    <3>1. Top(Least(workers, Len(plan.groups)), Len(plan.groups))' = Top(Least(workers, Len(plan.groups)), Len(plan.groups))
      BY <1>1, <1>3 DEF Top, Least
    <3> QED
      BY <1>1, <1>8, <2>1, <3>1
  <2>7. PlanPhase' /\ EncodePhase'
    <3>1. pc' = "encode"
      BY <1>1, <1>12
    <3>2. (PlanDone(plan) /\ next \in 1..Len(plan.groups))'
      BY <1>1, <2>1
    <3>3. (Len(plan.groups) = 1 => error = "none")'
      BY <1>1, <2>2
    <3> QED
      BY <2>4, <2>5, <2>6, <3>1, <3>2, <3>3 DEF PlanPhase, EncodePhase
  <2> QED
    BY <1>2, <1>5, <1>6, <2>7 DEF IInv
<1> QED
  BY <1>4, <1>11, <1>12

-----------------------------------------------------------------------------
(* The end of a batch                                                       *)

\* A set of numbers has a smallest one.
LEMMA SmallestIs ==
  ASSUME NEW T \in SUBSET Nat, T # {}
  PROVE  \E i \in T : \A j \in T : i <= j
<1> SUFFICES ASSUME ~\E i \in T : \A j \in T : i <= j
             PROVE  FALSE
  OBVIOUS
<1> DEFINE A == {n \in Nat : \A i \in T : n < i}
<1>1. 0 \in A
  <2> SUFFICES ASSUME NEW i \in T
               PROVE  0 < i
    OBVIOUS
  <2>1. i # 0
    <3>1. \A j \in T : 0 <= j
      OBVIOUS
    <3> QED
      BY <3>1
  <2> QED
    BY <2>1
<1>2. ASSUME NEW n \in Nat, n \in A  PROVE n + 1 \in A
  <2> SUFFICES ASSUME NEW i \in T
               PROVE  n + 1 < i
    OBVIOUS
  <2>1. \A j \in T : n + 1 <= j
    BY <1>2
  <2>2. i # n + 1
    BY <2>1
  <2> QED
    BY <2>1, <2>2
<1>3. PICK i : i \in T
  OBVIOUS
<1>4. i \in A
  <2> HIDE DEF A
  <2> QED
    BY <1>1, <1>2, <1>3, Induction
<1> QED
  BY <1>3, <1>4

\* Nobody is cancelled but for a cause, and the cause is what is reported.
LEMMA CauseIs ==
  ASSUME ControlTrue, DOMAIN job \subseteq Nat, CancelTrue, \A j \in DOMAIN job : ResultTrue(job[j]), AllJoined,
         NEW c, c = Cause
  PROVE  /\ c # "cancelled" /\ (c \in {"order", "stream"} => Bad)
         /\ c = "none" => error = "none" /\ \A j \in DOMAIN job : job[j].is = "ok"
<1>1. CASE error # "none"
  <2>1. c = error
    BY <1>1 DEF Cause
  <2> QED
    BY <1>1, <2>1 DEF ControlTrue
<1>2. CASE error = "none"
  <2>1. PICK failed : failed = {i \in DOMAIN job : IsError(job[i])}
    OBVIOUS
  <2>2. CASE failed # {}
    <3>1. PICK m : m = CHOOSE i \in failed : \A j \in failed : i <= j
      OBVIOUS
    <3>2. m \in failed
      <4>1. failed \in SUBSET Nat
        BY <2>1
      <4> QED
        BY <2>2, <3>1, <4>1, SmallestIs
    <3>3. c = job[m].is
      BY <1>2, <2>1, <2>2, <3>1 DEF Cause
    <3>4. m \in DOMAIN job /\ IsError(job[m])
      BY <2>1, <3>2
    <3>5. c \in {"changed", "too many", "order", "stream", "io", "large"}
      BY <3>3, <3>4 DEF IsError
    <3>6. c \in {"order", "stream"} => Bad
      BY <3>3, <3>4 DEF ResultTrue
    <3> QED
      BY <3>5, <3>6
  <2>3. CASE failed = {}
    <3>1. \A j \in DOMAIN job : ~IsError(job[j])
      BY <2>1, <2>3
    <3>2. ~cancel
      BY <1>2, <3>1 DEF CancelTrue
    <3>3. ASSUME NEW j \in DOMAIN job
          PROVE  job[j].is = "ok"
      <4>1. ResultTrue(job[j]) /\ job[j] # Todo /\ ~IsError(job[j])
        BY <3>1 DEF AllJoined
      <4> QED
        BY <1>2, <3>2, <4>1 DEF ResultTrue, IsError
    <3>4. c = "none"
      BY <1>2, <2>1, <2>3, <3>3 DEF Cause
    <3> QED
      BY <1>2, <3>3, <3>4
  <2> QED
    BY <2>2, <2>3
<1> QED
  BY <1>1, <1>2

\* A batch that begins has a job to do for each number.
LEMMA BatchIs ==
  ASSUME NEW from, NEW w, NEW size, NEW j, j = NewBatch(from, w, size)
  PROVE  Jobs(j, from, Least(from + w - 1, size)) /\ \A i \in DOMAIN j : j[i] = Todo
BY DEF NewBatch, Jobs

\* Nothing is known of a batch that begins.
LEMMA BatchBegins ==
  ASSUME cancel' = FALSE, \A i \in DOMAIN job' : job'[i] = Todo
  PROVE  Summaries' /\ Encodings'
<1>1. \A i \in DOMAIN job' : job'[i].is = "todo"
  BY DEF Todo, Only
<1>2. CancelTrue'
  BY DEF CancelTrue
<1>3. \A i \in DOMAIN job' : ResultTrue(job[i])' /\ SummaryTrue(i)' /\ BlocksTrue(i)'
  BY <1>1 DEF ResultTrue, SummaryTrue, BlocksTrue
<1> QED
  BY <1>2, <1>3 DEF Summaries, Encodings

\* The fold of m summaries
FoldedBatch(m) == FoldLeft(LAMBDA a, i : Fold(a, i, job[i]), plan, [k \in 1..m |-> next + k - 1])

\* p is what m summaries of the batch make of the plan.
Summarised(p, m) ==
  \E order : /\ p = Planning(plan, job, order, m)
             /\ \A k \in 1..m : order[k] = Len(plan.read) + k /\ SumTrue(job[Len(plan.read) + k])

\* The summaries of a batch and what they make of the plan
LEMMA BatchFolded ==
  ASSUME IInv, pc = "plan", AllJoined, Cause = "none", NEW w, w = Least(workers, N), NEW m, m = Least(w, N + 1 - next),
         NEW p, p = FoldedBatch(m)
  PROVE  /\ w \in Nat \ {0} /\ m \in Nat /\ m = (IF next + w > N THEN N + 1 - next ELSE w)
         /\ Progress(plan, job, m, p) /\ Summarised(p, m)
         /\ error = "none" /\ \A i \in 1..(next - 1 + m) : Known => Given(plan, job, i) = claimed[i]
<1>1. N \in Nat \ {0} /\ workers \in Nat \ {0}
  BY TransformAssumption DEF IInv, InputsTrue
<1>2. /\ next \in 1..N /\ PlanTrue(plan) /\ Len(plan.read) = next - 1 /\ ReadKnown(next - 1)
      /\ Jobs(job, next, Top(w, N)) /\ Summaries
  BY DEF IInv, PlanPhase
<1>3. w \in Nat \ {0} /\ m \in Nat /\ m = (IF next + w > N THEN N + 1 - next ELSE w) /\ Top(w, N) = next + m - 1
  BY <1>1, <1>2 DEF Least, Top
<1>4. DOMAIN job = next..(next + m - 1)
  BY <1>2, <1>3 DEF Jobs
<1>5. error = "none" /\ \A j \in DOMAIN job : job[j].is = "ok"
  <2>1. DOMAIN job \subseteq Nat
    BY <1>2, <1>4
  <2> QED
    BY <1>2, <2>1, CauseIs DEF Summaries, IInv
<1>6. \A j \in DOMAIN job : SumTrue(job[j]) /\ (Known => job[j].file = claimed[j])
  BY <1>2, <1>5 DEF Summaries, SummaryTrue
<1>7. PICK order : order = [k \in 1..m |-> next + k - 1]
  OBVIOUS
<1>8. order = [k \in 1..m |-> order[k]]
  BY <1>7
<1>9. p = Planning(plan, job, order, m)
  <2>1. p = FoldLeft(LAMBDA a, i : Fold(a, i, job[i]), plan, order)
    BY <1>7, Zenon DEF FoldedBatch
  <2>2. Planning(plan, job, order, m) = FoldLeft(LAMBDA a, i : Fold(a, i, job[i]), plan, [k \in 1..m |-> order[k]])
    BY Zenon DEF Planning
  <2> QED
    BY <1>8, <2>1, <2>2, Zenon
<1>10. \A k \in 1..m : order[k] = Len(plan.read) + k /\ SumTrue(job[Len(plan.read) + k])
  <2> SUFFICES ASSUME NEW k \in 1..m
               PROVE  order[k] = Len(plan.read) + k /\ SumTrue(job[Len(plan.read) + k])
    OBVIOUS
  <2>1. Len(plan.read) + k = next + k - 1 /\ next + k - 1 \in next..(next + m - 1)
    BY <1>2, <1>3
  <2> QED
    BY <1>4, <1>6, <1>7, <2>1
<1>11. Progress(plan, job, m, p)
  BY <1>2, <1>3, <1>9, <1>10, PlanningTrue
<1>12. ASSUME NEW i \in 1..(next - 1 + m), Known
       PROVE  Given(plan, job, i) = claimed[i]
  <2>1. CASE i <= Len(plan.read)
    <3>1. i \in 1..(next - 1)
      BY <1>2, <2>1
    <3>2. plan.read[i] = claimed[i]
      BY <1>2, <1>12, <3>1 DEF ReadKnown
    <3> QED
      BY <2>1, <3>2 DEF Given
  <2>2. CASE ~(i <= Len(plan.read))
    <3>1. i \in next..(next + m - 1)
      BY <1>2, <1>3, <2>2
    <3>2. job[i].file = claimed[i]
      BY <1>4, <1>6, <1>12, <3>1
    <3> QED
      BY <2>2, <3>2 DEF Given
  <2> QED
    BY <2>1, <2>2
<1>13. Summarised(p, m)
  BY <1>9, <1>10 DEF Summarised
<1> QED
  BY <1>3, <1>5, <1>11, <1>12, <1>13

-----------------------------------------------------------------------------
(* Batches folded and joined                                                *)

\* The ways a batch of pass one ends: with an error, or with the next batch of this pass or of the
\* other
FoldEnds(w, p) ==
  \/ Cause # "none" /\ error' = Cause /\ pc' = "finish" /\ UNCHANGED <<next, job, cancel, plan>>
  \/ Cause = "none" /\ p.error # "none" /\ error' = p.error /\ pc' = "finish" /\ UNCHANGED <<next, job, cancel, plan>>
  \/ /\ Cause = "none" /\ p.error = "none" /\ error' = error /\ cancel' = FALSE
     /\ \/ /\ next + w > N /\ pc' = "encode" /\ plan' = Planned(p) /\ next' = 1
           /\ job' = NewBatch(1, Least(workers, Len(Planned(p).groups)), Len(Planned(p).groups))
        \/ /\ ~(next + w > N) /\ pc' = "plan" /\ plan' = p /\ next' = next + w
           /\ job' = NewBatch(next + w, w, N)

\* A batch without an error ends with the plan of one batch more.
LEMMA FoldBatchEnds ==
  ASSUME FoldBatch, NEW w, w = Least(workers, N), NEW m, m = Least(w, N + 1 - next), NEW p, p = FoldedBatch(m)
  PROVE  FoldEnds(w, p)
<1>1. pc = "plan" /\ Width = w
  BY DEF FoldBatch, Width
<1>2. p = FoldLeft(LAMBDA a, i : Fold(a, i, job[i]), plan, [k \in 1..Least(Width, N + 1 - next) |-> next + k - 1])
  BY <1>1, Zenon DEF FoldedBatch
<1>3. LET over == next + Width > N
          whole == IF over THEN Planned(p) ELSE p
          why == IF Cause # "none" THEN Cause ELSE p.error
      IN  IF why # "none"
          THEN error' = why /\ pc' = "finish" /\ UNCHANGED <<next, job, cancel, plan>>
          ELSE /\ plan' = whole
               /\ pc' = IF over THEN "encode" ELSE "plan"
               /\ next' = IF over THEN 1 ELSE next + Width
               /\ job' = IF over THEN NewBatch(1, Least(workers, Len(whole.groups)), Len(whole.groups))
                         ELSE NewBatch(next + Width, Width, N)
               /\ cancel' = FALSE /\ UNCHANGED error
  BY <1>2, Zenon DEF FoldBatch
<1> QED
  BY <1>1, <1>3, Zenon DEF FoldEnds

\* The results of a batch are folded into the plan, or the first error is reported.
LEMMA FoldBatchKeeps ==
  ASSUME IInv, FoldBatch
  PROVE  IInv'
<1>1. pc = "plan" /\ AllJoined /\ UNCHANGED <<inputs, serial, committed, listed, status>>
  BY DEF FoldBatch
<1>2. InputsTrue' /\ (Same' <=> Same) /\ (Known' <=> Known) /\ (Bad' <=> Bad) /\ (Bulk' <=> Bulk)
  BY <1>1, InputsStay DEF IInv
<1>3. upstream' = upstream /\ claimed' = claimed /\ workers' = workers
  BY <1>1 DEF inputs
<1>4. Bulk /\ status = "in-progress"
  BY <1>1 DEF IInv, ControlTrue
<1>5. SerialTrue'
  BY <1>2, <1>4 DEF SerialTrue
<1>6. /\ next \in 1..N /\ PlanTrue(plan) /\ Len(plan.read) = next - 1 /\ ReadKnown(next - 1)
      /\ committed = <<>> /\ listed = <<>> /\ Jobs(job, next, Top(Least(workers, N), N)) /\ Summaries
  BY <1>1 DEF IInv, PlanPhase
<1>7. N \in Nat \ {0} /\ workers \in Nat \ {0}
  BY TransformAssumption DEF IInv, InputsTrue
<1>8. PICK w, m : w = Least(workers, N) /\ m = Least(w, N + 1 - next)
  OBVIOUS
<1>9. PICK p : p = FoldedBatch(m)
  OBVIOUS
<1>10. FoldEnds(w, p)
  BY <1>8, <1>9, FoldBatchEnds
<1>11. CASE error' # "none" /\ error' # "cancelled" /\ (error' \in {"order", "stream"} => Bad) /\ pc' = "finish"
  <2>1. ControlTrue'
    BY <1>1, <1>2, <1>4, <1>11 DEF ControlTrue
  <2>2. PlanPhase' /\ EncodePhase' /\ CommitPhase' /\ EndPhase'
    BY <1>1, <1>6, <1>11 DEF PlanPhase, EncodePhase, CommitPhase, EndPhase
  <2> QED
    BY <1>2, <1>5, <2>1, <2>2 DEF IInv
<1>12. CASE Cause # "none" /\ error' = Cause /\ pc' = "finish"
  <2>1. DOMAIN job \subseteq Nat
    <3>1. Least(workers, N) \in Nat /\ next \in Nat \ {0}
      BY <1>6, <1>7, LeastIs
    <3>2. DOMAIN job \subseteq 1..N
      BY <1>6, <1>7, <3>1, JobsBound
    <3> QED
      BY <3>2
  <2>2. error' # "cancelled" /\ (error' \in {"order", "stream"} => Bad)
    BY <1>1, <1>6, <1>12, <2>1, CauseIs DEF IInv, Summaries
  <2> QED
    BY <1>11, <1>12, <2>2
<1>13. CASE Cause = "none"
  <2>1. /\ w \in Nat \ {0} /\ m \in Nat /\ m = (IF next + w > N THEN N + 1 - next ELSE w)
        /\ Progress(plan, job, m, p) /\ error = "none"
        /\ \A i \in 1..(next - 1 + m) : Known => Given(plan, job, i) = claimed[i]
    BY <1>1, <1>8, <1>9, <1>13, BatchFolded
  <2>2. CASE p.error # "none" /\ error' = p.error /\ pc' = "finish"
    <3>1. p.error \in {"none", "stream", "order", "too many"}
      BY <2>1 DEF Progress
    <3>2. ASSUME p.error \in {"order", "stream"}
          PROVE  Bad
      <4>1. PICK k : k = Len(plan.read) + m
        OBVIOUS
      <4>2. k \in 0..N /\ k = next - 1 + m
        BY <1>6, <1>7, <2>1, <4>1
      <4>3. ASSUME Same
            PROVE  Sources(claimed, k).error # "none"
        <5>1. \A i \in 1..k : claimed[i] = Given(plan, job, i)
          BY <2>1, <4>2, <4>3 DEF Known
        <5> QED
          BY <2>1, <3>2, <4>1, <5>1 DEF Progress
      <4> QED
        BY <4>2, <4>3, RefusedIsBad DEF IInv
    <3> QED
      BY <1>11, <2>2, <3>1, <3>2
  <2>3. ASSUME p.error = "none"
        PROVE  /\ PlanTrue(p) /\ Len(p.read) = next - 1 + m
               /\ Known => \A i \in 1..(next - 1 + m) : p.read[i] = claimed[i]
    <3>1. PICK k : k = Len(plan.read) + m
      OBVIOUS
    <3>2. k = next - 1 + m
      BY <1>6, <2>1, <3>1
    <3>3. PlanTrue(p) /\ Len(p.read) = k /\ \A i \in 1..k : p.read[i] = Given(plan, job, i)
      BY <2>1, <2>3, <3>1 DEF Progress
    <3> QED
      BY <2>1, <3>2, <3>3
  <2>4. CASE /\ p.error = "none" /\ error' = error /\ cancel' = FALSE
             /\ ~(next + w > N) /\ pc' = "plan" /\ plan' = p /\ next' = next + w /\ job' = NewBatch(next + w, w, N)
    <3>1. PICK a : a = next + w
      OBVIOUS
    <3>2. a \in 1..N /\ a - 1 = next - 1 + m /\ next' = a
      BY <1>6, <1>7, <2>1, <2>4, <3>1
    <3>3. Jobs(job', a, Least(a + w - 1, N)) /\ \A i \in DOMAIN job' : job'[i] = Todo
      BY <2>4, <3>1, BatchIs
    <3>4. Jobs(job, next, Top(Least(workers, N), N))'
      <4>1. Top(Least(workers, N), N)' = Least(a + w - 1, N)
        BY <1>3, <1>8, <3>2 DEF Top, Least
      <4> QED
        BY <3>2, <3>3, <4>1
    <3>5. Summaries'
      BY <2>4, <3>3, BatchBegins
    <3>6. ReadKnown(next - 1)'
      BY <1>2, <1>3, <2>3, <2>4, <3>2 DEF ReadKnown
    <3>7. (next \in 1..N /\ PlanTrue(plan) /\ Len(plan.read) = next - 1)'
      BY <2>3, <2>4, <3>2
    <3>8. (committed = <<>> /\ listed = <<>>)'
      BY <1>1, <1>6
    <3>9. PlanPhase'
      BY <3>4, <3>5, <3>6, <3>7, <3>8 DEF PlanPhase
    <3>10. EncodePhase' /\ CommitPhase' /\ EndPhase'
      BY <2>4 DEF EncodePhase, CommitPhase, EndPhase
    <3>11. ControlTrue'
      BY <1>1, <1>2, <1>4, <2>1, <2>4 DEF ControlTrue
    <3> QED
      BY <1>2, <1>5, <3>9, <3>10, <3>11 DEF IInv
  <2>5. CASE /\ p.error = "none" /\ error' = error /\ cancel' = FALSE
             /\ next + w > N /\ pc' = "encode" /\ plan' = Planned(p) /\ next' = 1
             /\ job' = NewBatch(1, Least(workers, Len(Planned(p).groups)), Len(Planned(p).groups))
    <3>1. PICK q, size, b : q = Planned(p) /\ size = Len(q.groups) /\ b = Least(workers, size)
      OBVIOUS
    <3>2. next - 1 + m = N
      BY <1>6, <1>7, <2>1, <2>5
    <3>3. PlanDone(q) /\ q.read = p.read
      BY <2>3, <2>5, <3>1, <3>2, PlannedTrue
    <3>4. size \in Nat /\ size > 0
      BY <3>1, <3>3 DEF PlanDone, IsSeq
    <3>5. plan' = q /\ next' = 1 /\ job' = NewBatch(1, b, size)
      BY <2>5, <3>1
    <3>6. Jobs(job', 1, Least(1 + b - 1, size)) /\ \A i \in DOMAIN job' : job'[i] = Todo
      BY <3>5, BatchIs
    <3>7. Jobs(job, next, Top(Least(workers, Len(plan.groups)), Len(plan.groups)))'
      <4>1. Top(Least(workers, Len(plan.groups)), Len(plan.groups))' = Least(1 + b - 1, size)
        BY <1>3, <3>1, <3>5 DEF Top, Least
      <4> QED
        BY <3>5, <3>6, <4>1
    <3>8. Encodings'
      BY <2>5, <3>6, BatchBegins
    <3>9. ReadKnown(N)'
      BY <1>2, <1>3, <2>3, <2>5, <3>2, <3>3, <3>5 DEF ReadKnown
    <3>10. UpToGroup(next - 1)'
      <4>1. committed' = Written(q, 0) /\ listed' = [k \in 1..Bound(q, 0) |-> Entry(k, q.read[k])]
        <5>1. Written(q, 0) = <<>> /\ Bound(q, 0) = 0
          BY WrittenNone
        <5>2. [k \in 1..0 |-> Entry(k, q.read[k])] = <<>>
          OBVIOUS
        <5> QED
          BY <1>1, <1>6, <5>1, <5>2
      <4>2. next' - 1 = 0
        BY <3>5
      <4> QED
        BY <3>5, <4>1, <4>2 DEF UpToGroup
    <3>11. (PlanDone(plan) /\ next \in 1..Len(plan.groups) /\ (Len(plan.groups) = 1 => error = "none"))'
      BY <2>1, <2>5, <3>1, <3>3, <3>4, <3>5
    <3>12. EncodePhase'
      BY <3>7, <3>8, <3>9, <3>10, <3>11 DEF EncodePhase
    <3>13. PlanPhase' /\ CommitPhase' /\ EndPhase'
      BY <2>5 DEF PlanPhase, CommitPhase, EndPhase
    <3>14. ControlTrue'
      BY <1>1, <1>2, <1>4, <2>1, <2>5 DEF ControlTrue
    <3> QED
      BY <1>2, <1>5, <3>12, <3>13, <3>14 DEF IInv
  <2> QED
    BY <1>10, <1>13, <2>2, <2>4, <2>5 DEF FoldEnds
<1> QED
  BY <1>10, <1>12, <1>13 DEF FoldEnds

\* What is in the archive after some groups is a beginning of what the serial transform writes.
LEMMA GroupsBegin ==
  ASSUME PlanDone(plan), NEW d \in 0..Len(plan.groups), UpToGroup(d)
  PROVE  Begins(committed, Flushed(Sources(plan.read, N)))
BY WrittenBegins DEF UpToGroup

\* The encoders of a batch are joined.
LEMMA JoinBatchKeeps ==
  ASSUME IInv, JoinBatch
  PROVE  IInv'
<1>1. /\ pc = "encode" /\ Len(plan.groups) > 1 /\ AllJoined
      /\ UNCHANGED <<inputs, next, serial, job, cancel, plan, committed, listed, status>>
  BY DEF JoinBatch, bulkVars
<1>2. InputsTrue' /\ (Same' <=> Same) /\ (Known' <=> Known) /\ (Bad' <=> Bad) /\ (Bulk' <=> Bulk)
  BY <1>1, InputsStay DEF IInv
<1>3. upstream' = upstream /\ claimed' = claimed /\ workers' = workers
  BY <1>1 DEF inputs
<1>4. Bulk /\ status = "in-progress"
  BY <1>1 DEF IInv, ControlTrue
<1>5. SerialTrue'
  BY <1>2, <1>4 DEF SerialTrue
<1>6. /\ PlanDone(plan) /\ ReadKnown(N) /\ next \in 1..Len(plan.groups) /\ UpToGroup(next - 1)
      /\ Jobs(job, next, Top(Least(workers, Len(plan.groups)), Len(plan.groups))) /\ Encodings
  BY <1>1 DEF IInv, EncodePhase
<1>7. workers \in Nat \ {0} /\ Len(plan.groups) \in Nat
  BY <1>6 DEF IInv, InputsTrue, PlanDone, IsSeq
<1>8. PICK size, w, to : size = Len(plan.groups) /\ w = Least(workers, size) /\ to = Top(w, size)
  OBVIOUS
<1>9. w \in Nat \ {0} /\ size \in Nat /\ to \in next..size /\ DOMAIN job = next..to /\ DOMAIN job \subseteq Nat
  <2>1. w \in Nat \ {0} /\ size \in Nat
    BY <1>1, <1>7, <1>8 DEF Least
  <2>2. next \in 1..size
    BY <1>6, <1>8
  <2>3. to \in next..size
    BY <1>8, <2>1, <2>2 DEF Top, Least
  <2>4. DOMAIN job = next..to
    BY <1>6, <1>8 DEF Jobs
  <2> QED
    BY <2>1, <2>2, <2>3, <2>4
<1>10. /\ Cause # "cancelled" /\ (Cause \in {"order", "stream"} => Bad)
       /\ Cause = "none" => error = "none" /\ \A j \in DOMAIN job : job[j].is = "ok"
  BY <1>1, <1>6, <1>9, CauseIs DEF IInv, Encodings
<1>11. CASE Cause # "none"
  <2>1. error' = Cause /\ pc' = "finish"
    BY <1>11 DEF JoinBatch
  <2>2. ControlTrue'
    BY <1>1, <1>2, <1>4, <1>10, <1>11, <2>1 DEF ControlTrue
  <2>3. Begins(committed, Flushed(Sources(plan.read, N)))
    <3>1. next - 1 \in 0..Len(plan.groups)
      BY <1>6, <1>7
    <3> QED
      BY <1>6, <3>1, GroupsBegin
  <2>4. PlanPhase' /\ EncodePhase' /\ CommitPhase' /\ EndPhase'
    BY <1>1, <1>6, <1>11, <2>1, <2>3 DEF PlanPhase, EncodePhase, CommitPhase, EndPhase
  <2> QED
    BY <1>2, <1>5, <2>2, <2>4 DEF IInv
<1>12. CASE Cause = "none"
  <2>1. error' = error /\ pc' = "commit"
    BY <1>12 DEF JoinBatch
  <2>2. ControlTrue'
    BY <1>1, <1>2, <1>4, <1>10, <1>12, <2>1 DEF ControlTrue
  <2>3. Committing(next - 1, to)'
    <3>1. next - 1 \in (next - 1)..to /\ (next - 1) + 1 = next
      BY <1>6, <1>7, <1>9
    <3>2. UpToGroup(next - 1)'
      BY <1>1, <1>6 DEF UpToGroup
    <3>3. \A i \in DOMAIN job' : job'[i].is = "ok" /\ BlocksTrue(i)'
      BY <1>1, <1>6, <1>10, <1>12 DEF Encodings, BlocksTrue
    <3>4. next' = next /\ DOMAIN job' = DOMAIN job
      BY <1>1
    <3> QED
      BY <1>9, <3>1, <3>2, <3>3, <3>4 DEF Committing
  <2>4. to = Top(Least(workers, Len(plan.groups)), Len(plan.groups))'
    BY <1>1, <1>3, <1>8 DEF Top, Least
  <2>5. ReadKnown(N)'
    BY <1>1, <1>2, <1>3, <1>6 DEF ReadKnown
  <2>6. (PlanDone(plan) /\ next \in 1..Len(plan.groups) /\ Len(plan.groups) > 1)'
    BY <1>1, <1>6
  <2>7. CommitPhase'
    BY <2>3, <2>4, <2>5, <2>6 DEF CommitPhase
  <2>8. PlanPhase' /\ EncodePhase' /\ EndPhase'
    BY <2>1 DEF PlanPhase, EncodePhase, EndPhase
  <2> QED
    BY <1>2, <1>5, <2>2, <2>7, <2>8 DEF IInv
<1> QED
  BY <1>11, <1>12

-----------------------------------------------------------------------------
(* Groups committed                                                         *)

\* The first a of h and those from a + 1 to b are the first b.
LEMMA ListedMore ==
  ASSUME NEW h, NEW a \in Nat, NEW b \in Nat, a <= b
  PROVE  [k \in 1..a |-> h[k]] \o [k \in 1..(b - a) |-> h[a + k]] = [k \in 1..b |-> h[k]]
<1>1. PICK x, y, z : x = [k \in 1..a |-> h[k]] /\ y = [k \in 1..(b - a) |-> h[a + k]] /\ z = [k \in 1..b |-> h[k]]
  OBVIOUS
<1>2. PICK c : c = b - a
  OBVIOUS
<1>3. c \in Nat /\ a + c = b
  BY <1>2
<1>4. y = [k \in 1..c |-> h[a + k]]
  BY <1>1, <1>2
<1>5. PICK S : S = {h[k] : k \in 1..b}
  OBVIOUS
<1>6. x \in Seq(S) /\ y \in Seq(S) /\ z \in Seq(S) /\ Len(x) = a /\ Len(y) = c /\ Len(z) = b
  <2>1. \A k \in 1..b : h[k] \in S
    BY <1>5
  <2>2. \A k \in 1..a : h[k] \in S
    BY <2>1
  <2>3. \A k \in 1..c : h[a + k] \in S
    BY <1>3, <2>1
  <2> QED
    BY <1>1, <1>3, <1>4, <2>1, <2>2, <2>3
<1>7. /\ x \o y \in Seq(S) /\ Len(x \o y) = a + c
      /\ \A k \in 1..a : (x \o y)[k] = x[k]
      /\ \A k \in 1..c : (x \o y)[a + k] = y[k]
  <2>1. /\ x \o y \in Seq(S) /\ Len(x \o y) = Len(x) + Len(y)
        /\ \A k \in 1..Len(x) : (x \o y)[k] = x[k]
        /\ \A k \in 1..Len(y) : (x \o y)[Len(x) + k] = y[k]
    BY <1>6
  <2> QED
    BY <1>6, <2>1
<1>8. ASSUME NEW k \in 1..b
      PROVE  (x \o y)[k] = z[k]
  <2>1. CASE k <= a
    <3>1. k \in 1..a
      BY <1>3, <2>1
    <3>2. (x \o y)[k] = x[k]
      BY <1>7, <3>1
    <3>3. x[k] = h[k] /\ z[k] = h[k]
      BY <1>1, <3>1
    <3> QED
      BY <3>2, <3>3
  <2>2. CASE k > a
    <3>1. PICK j : j = k - a
      OBVIOUS
    <3>2. j \in 1..c /\ k = a + j
      BY <1>3, <2>2, <3>1
    <3>3. (x \o y)[a + j] = y[j]
      BY <1>7, <3>2
    <3>4. y[j] = h[a + j]
      BY <1>4, <3>2
    <3>5. z[k] = h[k]
      BY <1>1
    <3> QED
      BY <3>2, <3>3, <3>4, <3>5
  <2>3. k <= a \/ k > a
    OBVIOUS
  <2> QED
    BY <2>1, <2>2, <2>3
<1>9. PICK u : u = x \o y
  OBVIOUS
<1>10. u \in Seq(S) /\ Len(u) = b /\ \A k \in 1..b : u[k] = z[k]
  BY <1>3, <1>7, <1>8, <1>9
<1>11. u = z
  BY <1>6, <1>10
<1> QED
  BY <1>1, <1>9, <1>11

\* What one more group adds to the archive and to the list
LEMMA GroupAdds ==
  ASSUME PlanDone(plan), NEW k \in 1..Len(plan.groups), UpToGroup(k - 1), NEW g, g = plan.groups[k]
  PROVE  /\ committed \o Flushed(Replay(plan.read, g)) = Written(plan, k)
         /\ listed \o EntriesIn(plan, k) = [i \in 1..Bound(plan, k) |-> Entry(i, plan.read[i])]
<1>1. Extends(plan, k)
  BY GroupsExtend
<1>2. committed \o Flushed(Replay(plan.read, g)) = Written(plan, k)
  BY <1>1 DEF Extends, UpToGroup
<1>3. PICK a, b : a = Bound(plan, k - 1) /\ b = Bound(plan, k)
  OBVIOUS
<1>4. N \in Nat /\ a \in Nat /\ b \in Nat /\ a <= b
  BY <1>1, <1>3, TransformAssumption DEF Extends
<1>5. g.start = a + 1 /\ g.end - g.start = b - a
  <2>1. GroupTrue(plan.read, g)
    BY DEF PlanDone
  <2>2. g.start \in Nat /\ g.end \in Nat
    BY <2>1 DEF GroupTrue
  <2>3. a = g.start - 1 /\ b = g.end - 1
    <3>1. Len(plan.groups) \in Nat
      BY DEF PlanDone, IsSeq
    <3> QED
      BY <1>1, <1>3, <3>1 DEF Extends, Bound
  <2>4. PICK u, v : u = g.start /\ v = g.end
    OBVIOUS
  <2>5. u \in Nat /\ v \in Nat /\ a = u - 1 /\ b = v - 1
    BY <2>2, <2>3, <2>4
  <2>6. u = a + 1 /\ v - u = b - a
    BY <2>5
  <2> QED
    BY <2>4, <2>6
<1>6. PICK h : h = [i \in 1..b |-> Entry(i, plan.read[i])]
  OBVIOUS
<1>7. EntriesIn(plan, k) = [i \in 1..(b - a) |-> h[a + i]]
  <2>1. EntriesIn(plan, k) = [i \in 1..(b - a) |-> Entry((a + 1) + i - 1, plan.read[(a + 1) + i - 1])]
    BY <1>5 DEF EntriesIn
  <2>2. ASSUME NEW i \in 1..(b - a)
        PROVE  Entry((a + 1) + i - 1, plan.read[(a + 1) + i - 1]) = h[a + i]
    <3>1. (a + 1) + i - 1 = a + i /\ a + i \in 1..b
      BY <1>4
    <3> QED
      BY <1>6, <3>1
  <2> QED
    BY <2>1, <2>2
<1>8. listed = [i \in 1..a |-> h[i]]
  <2>1. listed = [i \in 1..a |-> Entry(i, plan.read[i])]
    BY <1>3 DEF UpToGroup
  <2>2. \A i \in 1..a : i \in 1..b
    BY <1>4
  <2>3. \A i \in 1..a : Entry(i, plan.read[i]) = h[i]
    BY <1>6, <2>2
  <2> QED
    BY <2>1, <2>3
<1>9. listed \o EntriesIn(plan, k) = [i \in 1..b |-> h[i]]
  BY <1>4, <1>7, <1>8, ListedMore
<1>10. [i \in 1..b |-> h[i]] = [i \in 1..b |-> Entry(i, plan.read[i])]
  BY <1>6
<1> QED
  BY <1>2, <1>3, <1>9, <1>10

\* The batch that is committed
CommitBounds(w, to) ==
  /\ w \in Nat \ {0} /\ to \in next..Len(plan.groups) /\ Len(plan.groups) \in Nat /\ next \in Nat \ {0}
  /\ to = IF next + w > Len(plan.groups) THEN Len(plan.groups) ELSE next + w - 1

\* The groups of a batch are in the plan.
LEMMA CommitBoundsHold ==
  ASSUME PlanDone(plan), next \in 1..Len(plan.groups), workers \in Nat \ {0},
         NEW w, w = Least(workers, Len(plan.groups)), NEW to, to = Top(w, Len(plan.groups))
  PROVE  CommitBounds(w, to)
<1>1. PICK size : size = Len(plan.groups)
  OBVIOUS
<1>2. size \in Nat /\ size > 0
  BY <1>1 DEF PlanDone, IsSeq
<1>3. w \in Nat \ {0}
  BY <1>1, <1>2 DEF Least
<1>4. next \in 1..size /\ to = Least(next + w - 1, size)
  BY <1>1 DEF Top
<1>5. to \in next..size /\ to = IF next + w > size THEN size ELSE next + w - 1
  BY <1>2, <1>3, <1>4 DEF Least
<1> QED
  BY <1>1, <1>2, <1>3, <1>4, <1>5 DEF CommitBounds

\* The blocks of one more group go into the archive.
LEMMA CommitGroupKeeps ==
  ASSUME IInv, CommitGroup
  PROVE  IInv'
<1>1. pc = "commit" /\ DOMAIN job # {} /\ UNCHANGED <<inputs, next, serial, cancel, plan, status>>
  BY DEF CommitGroup
<1>2. InputsTrue' /\ (Same' <=> Same) /\ (Known' <=> Known) /\ (Bad' <=> Bad) /\ (Bulk' <=> Bulk)
  BY <1>1, InputsStay DEF IInv
<1>3. upstream' = upstream /\ claimed' = claimed /\ workers' = workers
  BY <1>1 DEF inputs
<1>4. Bulk /\ status = "in-progress" /\ error = "none"
  BY <1>1 DEF IInv, ControlTrue
<1>5. SerialTrue'
  BY <1>2, <1>4 DEF SerialTrue
<1>6. /\ PlanDone(plan) /\ ReadKnown(N) /\ next \in 1..Len(plan.groups) /\ Len(plan.groups) > 1
      /\ \E d : Committing(d, Top(Least(workers, Len(plan.groups)), Len(plan.groups)))
  BY <1>1 DEF IInv, CommitPhase
<1>7. PICK w, to : w = Least(workers, Len(plan.groups)) /\ to = Top(w, Len(plan.groups))
  OBVIOUS
<1>8. CommitBounds(w, to)
  BY <1>6, <1>7, CommitBoundsHold DEF IInv, InputsTrue
<1>9. PICK d : Committing(d, to)
  BY <1>6, <1>7
<1>10. /\ d \in (next - 1)..to /\ UpToGroup(d) /\ DOMAIN job = (d + 1)..to
       /\ \A i \in DOMAIN job : job[i].is = "ok" /\ BlocksTrue(i)
  BY <1>9 DEF Committing
<1>11. PICK e : e = d + 1
  OBVIOUS
<1>12. e \in Nat /\ e - 1 = d /\ e \in 1..Len(plan.groups) /\ e \in DOMAIN job /\ e \in (next - 1)..to /\ \A j \in DOMAIN job : e <= j
  BY <1>1, <1>8, <1>10, <1>11 DEF CommitBounds
<1>13. (CHOOSE i \in DOMAIN job : \A j \in DOMAIN job : i <= j) = e
  <2>1. \A i \in DOMAIN job : (\A j \in DOMAIN job : i <= j) => i = e
    BY <1>8, <1>10, <1>12 DEF CommitBounds
  <2> QED
    BY <1>12, <2>1
<1>14. PICK g, blocks : g = plan.groups[e] /\ blocks = job[e].blocks
  OBVIOUS
<1>15. blocks = Flushed(Replay(plan.read, g)) /\ job[e].sources = EntriesIn(plan, e)
  BY <1>10, <1>12, <1>14 DEF BlocksTrue
<1>16. \/ /\ committed' = committed \o blocks /\ listed' = listed \o EntriesIn(plan, e)
          /\ job' = [j \in DOMAIN job \ {e} |-> job[j]] /\ pc' = pc /\ error' = error
       \/ /\ (\E k \in 0..(Len(blocks) - 1) : committed' = committed \o SubSeq(blocks, 1, k)) \/ committed' = committed \o blocks
          /\ error' = "storage" /\ pc' = "finish"
  BY <1>13, <1>14, <1>15 DEF CommitGroup, CommitFails
<1>17. CASE /\ committed' = committed \o blocks /\ listed' = listed \o EntriesIn(plan, e)
            /\ job' = [j \in DOMAIN job \ {e} |-> job[j]] /\ pc' = pc /\ error' = error
  <2>1. committed' = Written(plan, e) /\ listed' = [i \in 1..Bound(plan, e) |-> Entry(i, plan.read[i])]
    BY <1>6, <1>10, <1>12, <1>14, <1>15, <1>17, GroupAdds
  <2>2. UpToGroup(e)'
    BY <1>1, <2>1 DEF UpToGroup
  <2>3. DOMAIN job' = (e + 1)..to
    <3>1. DOMAIN job' = (e..to) \ {e}
      BY <1>10, <1>11, <1>17
    <3> QED
      BY <1>8, <1>12, <3>1 DEF CommitBounds
  <2>4. \A i \in DOMAIN job' : job'[i].is = "ok" /\ BlocksTrue(i)'
    BY <1>1, <1>10, <1>17 DEF BlocksTrue
  <2>5. Committing(e, to)'
    BY <1>1, <1>12, <2>2, <2>3, <2>4 DEF Committing
  <2>6. to = Top(Least(workers, Len(plan.groups)), Len(plan.groups))'
    BY <1>1, <1>3, <1>7 DEF Top, Least
  <2>7. ReadKnown(N)'
    BY <1>1, <1>2, <1>3, <1>6 DEF ReadKnown
  <2>8. (PlanDone(plan) /\ next \in 1..Len(plan.groups) /\ Len(plan.groups) > 1)'
    BY <1>1, <1>6
  <2>9. CommitPhase'
    BY <2>5, <2>6, <2>7, <2>8 DEF CommitPhase
  <2>10. PlanPhase' /\ EncodePhase' /\ EndPhase'
    BY <1>1, <1>17 DEF PlanPhase, EncodePhase, EndPhase
  <2>11. ControlTrue'
    BY <1>1, <1>2, <1>4, <1>17 DEF ControlTrue
  <2> QED
    BY <1>2, <1>5, <2>9, <2>10, <2>11 DEF IInv
<1>18. CASE /\ (\E k \in 0..(Len(blocks) - 1) : committed' = committed \o SubSeq(blocks, 1, k)) \/ committed' = committed \o blocks
            /\ error' = "storage" /\ pc' = "finish"
  <2>2. IsSeq(blocks) /\ IsSeq(committed) /\ committed \o blocks = Written(plan, e)
    <3>1. Extends(plan, e)
      BY <1>6, <1>12, GroupsExtend
    <3>2. committed = Written(plan, e - 1)
      BY <1>10, <1>12 DEF UpToGroup
    <3> QED
      BY <1>14, <1>15, <3>1, <3>2 DEF Extends
  <2>3. \A k \in 0..(Len(blocks) - 1) : k \in 0..Len(blocks)
    BY <2>2 DEF IsSeq
  <2>4. Begins(committed', Written(plan, e))
    <3>1. CASE \E k \in 0..(Len(blocks) - 1) : committed' = committed \o SubSeq(blocks, 1, k)
      <4>1. PICK k \in 0..(Len(blocks) - 1) : committed' = committed \o SubSeq(blocks, 1, k)
        BY <3>1
      <4> QED
        BY <2>2, <2>3, <4>1, BeginsPart
    <3>2. CASE committed' = committed \o blocks
      <4>1. IsSeq(committed \o blocks)
        BY <2>2, ConcatSeq
      <4> QED
        BY <2>2, <3>2, <4>1, BeginsSelf
    <3> QED
      BY <1>18, <3>1, <3>2
  <2>5. Begins(Written(plan, e), Flushed(Sources(plan.read, N)))
    <3>1. e \in 0..Len(plan.groups)
      BY <1>12
    <3> QED
      BY <1>6, <3>1, WrittenBegins
  <2>6. Begins(committed', Flushed(Sources(plan.read, N)))
    BY <2>4, <2>5, BeginsOn
  <2>7. EndPhase'
    BY <1>1, <1>6, <1>18, <2>6 DEF EndPhase
  <2>8. PlanPhase' /\ EncodePhase' /\ CommitPhase'
    BY <1>18 DEF PlanPhase, EncodePhase, CommitPhase
  <2>9. ControlTrue'
    BY <1>1, <1>2, <1>4, <1>18 DEF ControlTrue
  <2> QED
    BY <1>2, <1>5, <2>7, <2>8, <2>9 DEF IInv
<1> QED
  BY <1>16, <1>17, <1>18

\* A batch has been committed, and the next one begins.
LEMMA NextBatchKeeps ==
  ASSUME IInv, NextBatch
  PROVE  IInv'
<1>1. pc = "commit" /\ DOMAIN job = {} /\ UNCHANGED <<inputs, serial, plan, committed, listed, error, status>>
  BY DEF NextBatch, outVars
<1>2. InputsTrue' /\ (Same' <=> Same) /\ (Known' <=> Known) /\ (Bad' <=> Bad) /\ (Bulk' <=> Bulk)
  BY <1>1, InputsStay DEF IInv
<1>3. upstream' = upstream /\ claimed' = claimed /\ workers' = workers
  BY <1>1 DEF inputs
<1>4. Bulk /\ status = "in-progress" /\ error = "none"
  BY <1>1 DEF IInv, ControlTrue
<1>5. SerialTrue'
  BY <1>2, <1>4 DEF SerialTrue
<1>6. /\ PlanDone(plan) /\ ReadKnown(N) /\ next \in 1..Len(plan.groups) /\ Len(plan.groups) > 1
      /\ \E d : Committing(d, Top(Least(workers, Len(plan.groups)), Len(plan.groups)))
  BY <1>1 DEF IInv, CommitPhase
<1>7. PICK w, to : w = Least(workers, Len(plan.groups)) /\ to = Top(w, Len(plan.groups))
  OBVIOUS
<1>8. CommitBounds(w, to)
  BY <1>6, <1>7, CommitBoundsHold DEF IInv, InputsTrue
<1>9. UpToGroup(to)
  <2>1. PICK d : Committing(d, to)
    BY <1>6, <1>7
  <2>2. d \in (next - 1)..to /\ UpToGroup(d) /\ DOMAIN job = (d + 1)..to
    BY <2>1 DEF Committing
  <2>3. d = to
    BY <1>1, <1>8, <2>2 DEF CommitBounds
  <2> QED
    BY <2>2, <2>3
<1>10. PICK size : size = Len(plan.groups)
  OBVIOUS
<1>11. ControlTrue' \/ pc' \notin {"finish", "encode"}
  BY <1>1, <1>2, <1>4 DEF ControlTrue
<1>12. CASE next + w > size
  <2>1. pc' = "finish"
    BY <1>7, <1>10, <1>12 DEF NextBatch
  <2>2. to = size
    BY <1>8, <1>10, <1>12 DEF CommitBounds
  <2>3. Begins(committed, Flushed(Sources(plan.read, N)))
    <3>1. size \in 0..Len(plan.groups)
      BY <1>8, <1>10 DEF CommitBounds
    <3> QED
      BY <1>6, <1>9, <2>2, <3>1, GroupsBegin
  <2>4. UpToGroup(Len(plan.groups))'
    BY <1>1, <1>9, <1>10, <2>2 DEF UpToGroup
  <2>5. ReadKnown(N)'
    BY <1>1, <1>2, <1>3, <1>6 DEF ReadKnown
  <2>6. EndPhase'
    BY <1>1, <1>6, <2>3, <2>4, <2>5 DEF EndPhase
  <2>7. PlanPhase' /\ EncodePhase' /\ CommitPhase'
    BY <2>1 DEF PlanPhase, EncodePhase, CommitPhase
  <2> QED
    BY <1>2, <1>5, <1>11, <2>1, <2>6, <2>7 DEF IInv
<1>13. CASE ~(next + w > size)
  <2>1. pc' = "encode" /\ next' = next + w /\ job' = NewBatch(next + w, w, size) /\ cancel' = FALSE
    BY <1>7, <1>10, <1>13 DEF NextBatch
  <2>2. PICK a : a = next + w
    OBVIOUS
  <2>3. a \in 1..size /\ a - 1 = to /\ next' = a
    BY <1>8, <1>10, <1>13, <2>1, <2>2 DEF CommitBounds
  <2>4. Jobs(job', a, Least(a + w - 1, size)) /\ \A i \in DOMAIN job' : job'[i] = Todo
    BY <2>1, <2>2, BatchIs
  <2>5. Jobs(job, next, Top(Least(workers, Len(plan.groups)), Len(plan.groups)))'
    <3>1. Top(Least(workers, Len(plan.groups)), Len(plan.groups))' = Least(a + w - 1, size)
      BY <1>1, <1>3, <1>7, <1>10, <2>3 DEF Top, Least
    <3> QED
      BY <2>3, <2>4, <3>1
  <2>6. Encodings'
    BY <2>1, <2>4, BatchBegins
  <2>7. UpToGroup(next - 1)'
    <3>1. committed' = Written(plan', to) /\ listed' = [k \in 1..Bound(plan', to) |-> Entry(k, plan'.read[k])]
      BY <1>1, <1>9 DEF UpToGroup
    <3> QED
      BY <2>3, <3>1 DEF UpToGroup
  <2>8. ReadKnown(N)'
    BY <1>1, <1>2, <1>3, <1>6 DEF ReadKnown
  <2>9. (PlanDone(plan) /\ next \in 1..Len(plan.groups) /\ (Len(plan.groups) = 1 => error = "none"))'
    BY <1>1, <1>4, <1>6, <1>10, <2>3
  <2>10. EncodePhase'
    BY <2>5, <2>6, <2>7, <2>8, <2>9 DEF EncodePhase
  <2>11. PlanPhase' /\ CommitPhase' /\ EndPhase'
    BY <2>1 DEF PlanPhase, CommitPhase, EndPhase
  <2> QED
    BY <1>2, <1>5, <1>11, <2>1, <2>10, <2>11 DEF IInv
<1> QED
  BY <1>12, <1>13

\* A single group is committed as it is made; when a source has changed, nobody knows what is.
LEMMA StreamGroupKeeps ==
  ASSUME IInv, StreamGroup
  PROVE  IInv'
<1>1. /\ pc = "encode" /\ Len(plan.groups) = 1 /\ pc' = "finish"
      /\ UNCHANGED <<inputs, next, serial, plan, status>>
  BY DEF StreamGroup, CommitFails, bulkVars
<1>2. InputsTrue' /\ (Same' <=> Same) /\ (Known' <=> Known) /\ (Bad' <=> Bad) /\ (Bulk' <=> Bulk)
  BY <1>1, InputsStay DEF IInv
<1>3. upstream' = upstream /\ claimed' = claimed /\ workers' = workers
  BY <1>1 DEF inputs
<1>4. Bulk /\ status = "in-progress"
  BY <1>1 DEF IInv, ControlTrue
<1>5. SerialTrue'
  BY <1>2, <1>4 DEF SerialTrue
<1>6. /\ PlanDone(plan) /\ ReadKnown(N) /\ next \in 1..Len(plan.groups) /\ UpToGroup(next - 1) /\ error = "none"
  BY <1>1 DEF IInv, EncodePhase
<1>7. next = 1 /\ 1 \in 1..Len(plan.groups) /\ next - 1 = 0 /\ 1 - 1 = 0 /\ 1 \in 0..Len(plan.groups)
  BY <1>1, <1>6
<1>8. PICK g, s : g = plan.groups[1] /\ s = Replayed(g)
  OBVIOUS
<1>9. /\ s.error \in {"none", "changed", "order", "stream"}
      /\ s.error = "none" => s = Replay(plan.read, g) /\ EntriesOf(g) = EntriesIn(plan, 1)
      /\ s.error # "none" => ~Same
  BY <1>6, <1>7, <1>8, ReplayedIs DEF IInv
<1>10. committed = <<>> /\ listed = <<>>
  <2>1. committed = Written(plan, 0) /\ listed = [k \in 1..Bound(plan, 0) |-> Entry(k, plan.read[k])]
    BY <1>6, <1>7 DEF UpToGroup
  <2>2. [k \in 1..0 |-> Entry(k, plan.read[k])] = <<>>
    OBVIOUS
  <2> QED
    BY <2>1, <2>2, WrittenNone
<1>11. s.error = "none" =>
         /\ BlocksOf(s) = Written(plan, 1) /\ IsSeq(s.out) /\ IsSeq(BlocksOf(s)) /\ Begins(s.out, BlocksOf(s))
         /\ EntriesOf(g) = [i \in 1..Bound(plan, 1) |-> Entry(i, plan.read[i])]
  <2> SUFFICES ASSUME s.error = "none"
               PROVE  /\ BlocksOf(s) = Written(plan, 1) /\ IsSeq(s.out) /\ IsSeq(BlocksOf(s)) /\ Begins(s.out, BlocksOf(s))
                      /\ EntriesOf(g) = [i \in 1..Bound(plan, 1) |-> Entry(i, plan.read[i])]
    OBVIOUS
  <2>1. s = Replay(plan.read, g) /\ EntriesOf(g) = EntriesIn(plan, 1) /\ BlocksOf(s) = Flushed(s)
    BY <1>9 DEF BlocksOf, Flushed
  <2>2. /\ committed \o Flushed(s) = Written(plan, 1)
        /\ listed \o EntriesIn(plan, 1) = [i \in 1..Bound(plan, 1) |-> Entry(i, plan.read[i])]
    <3>1. UpToGroup(1 - 1)
      BY <1>6, <1>7
    <3> QED
      BY <1>6, <1>7, <1>8, <2>1, <3>1, GroupAdds
  <2>3. IsSeq(s.out) /\ IsSeq(Flushed(s))
    <3>1. Extends(plan, 1)
      BY <1>6, <1>7, GroupsExtend
    <3>2. g.end - g.start \in 0..(g.end - g.start)
      <4>1. GroupTrue(plan.read, g)
        BY <1>6, <1>7, <1>8 DEF PlanDone
      <4>2. PICK a, b : a = g.start /\ b = g.end
        OBVIOUS
      <4>3. a \in Nat /\ b \in Nat /\ a < b
        BY <4>1, <4>2 DEF GroupTrue
      <4> QED
        BY <4>2, <4>3
    <3>3. IsState(s)
      BY <1>8, <2>1, <3>1, <3>2 DEF Extends, Replayable, Replay
    <3> QED
      BY <3>3, EmitSeq DEF IsState, Flushed
  <2>4. BlocksOf(s) = Written(plan, 1)
    BY <1>10, <2>1, <2>2, <2>3, ConcatEmpty
  <2>5. EntriesOf(g) = [i \in 1..Bound(plan, 1) |-> Entry(i, plan.read[i])]
    <3>1. PICK l : l = EntriesIn(plan, 1)
      OBVIOUS
    <3>2. PICK n : n = g.end - g.start
      OBVIOUS
    <3>3. n \in Nat
      <4>1. GroupTrue(plan.read, g)
        BY <1>6, <1>7, <1>8 DEF PlanDone
      <4>2. PICK a, b : a = g.start /\ b = g.end
        OBVIOUS
      <4>3. a \in Nat /\ b \in Nat /\ a < b
        BY <4>1, <4>2 DEF GroupTrue
      <4> QED
        BY <3>2, <4>2, <4>3
    <3>4. l = [i \in 1..n |-> l[i]]
      BY <1>8, <3>1, <3>2 DEF EntriesIn
    <3>5. PICK S : S = {l[i] : i \in 1..n}
      OBVIOUS
    <3>6. l \in Seq(S)
      BY <3>3, <3>4, <3>5
    <3>7. <<>> \o l = l
      BY <3>6, SeqIs, ConcatEmpty
    <3> QED
      BY <1>10, <2>1, <2>2, <3>1, <3>7
  <2>6. Begins(s.out, Flushed(s))
    <3>1. CASE s.block = <<>>
      BY <2>3, <3>1, BeginsSelf DEF Flushed, Emit
    <3>2. CASE s.block # <<>>
      <4>1. PICK out, e : out = s.out /\ e = Block(s.ctx, s.block)
        OBVIOUS
      <4>2. Flushed(s) = Append(out, e)
        BY <3>2, <4>1 DEF Flushed, Emit
      <4>3. out \in Seq(ToSet(out) \cup {e})
        <5>1. out \in Seq(ToSet(out))
          BY <2>3, <4>1 DEF IsSeq
        <5> QED
          BY <5>1
      <4>4. Append(out, e) = out \o <<e>>
        BY <4>3
      <4>5. IsSeq(<<e>>)
        <5>1. <<e>> \in Seq({e})
          OBVIOUS
        <5> QED
          BY <5>1, SeqIs
      <4> QED
        BY <2>3, <4>1, <4>2, <4>4, <4>5, BeginsConcat
    <3> QED
      BY <3>1, <3>2
  <2> QED
    BY <2>1, <2>3, <2>4, <2>5, <2>6
<1>12. Begins(Written(plan, 1), Flushed(Sources(plan.read, N)))
  BY <1>6, <1>7, WrittenBegins
<1>13. ReadKnown(N)'
  BY <1>1, <1>2, <1>3, <1>6 DEF ReadKnown
<1>14. PlanPhase' /\ EncodePhase' /\ CommitPhase'
  BY <1>1 DEF PlanPhase, EncodePhase, CommitPhase
<1>15. CASE s.error = "none" /\ committed' = BlocksOf(s) /\ listed' = EntriesOf(g) /\ error' = "none"
  <2>1. UpToGroup(Len(plan.groups))'
    BY <1>1, <1>11, <1>15 DEF UpToGroup
  <2>2. Begins(committed', Flushed(Sources(plan.read, N)))
    BY <1>11, <1>12, <1>15
  <2>3. EndPhase'
    BY <1>1, <1>6, <1>13, <2>1, <2>2 DEF EndPhase
  <2>4. ControlTrue'
    BY <1>1, <1>2, <1>4, <1>15 DEF ControlTrue
  <2> QED
    BY <1>2, <1>5, <1>14, <2>3, <2>4 DEF IInv
<1>16. CASE s.error # "none" /\ error' \in {"changed", "order", "stream", "io", "storage"}
  <2>1. ControlTrue'
    BY <1>1, <1>2, <1>4, <1>9, <1>16 DEF ControlTrue, Bad
  <2>2. ~(Len(plan'.groups) > 1) /\ ~(Same')
    <3>1. Len(plan'.groups) = 1
      BY <1>1
    <3> QED
      BY <1>2, <1>9, <1>16, <3>1
  <2>3. EndPhase'
    BY <1>16, <2>2 DEF EndPhase
  <2> QED
    BY <1>2, <1>5, <1>14, <2>1, <2>3 DEF IInv
<1>17. CASE s.error = "none" /\ error' \in {"io", "storage"} /\ Begins(committed', Written(plan, 1))
  <2>1. ControlTrue'
    BY <1>1, <1>2, <1>4, <1>17 DEF ControlTrue
  <2>2. Begins(committed', Flushed(Sources(plan.read, N)))
    BY <1>12, <1>17, BeginsOn
  <2>3. EndPhase'
    BY <1>1, <1>6, <1>17, <2>2 DEF EndPhase
  <2> QED
    BY <1>2, <1>5, <1>14, <2>1, <2>3 DEF IInv
<1>18. PICK q, es : q = BlocksOf(s) /\ es = (IF s.error = "none" THEN EntriesOf(g) ELSE <<>>)
  OBVIOUS
<1>19. \/ committed' = q /\ listed' = es /\ error' = s.error
       \/ (\E k \in 0..Len(s.out) : committed' = SubSeq(s.out, 1, k)) /\ error' = "io"
       \/ CommitFails(q, es)
  BY <1>8, <1>18, Zenon DEF StreamGroup
<1>20. CASE committed' = q /\ listed' = es /\ error' = s.error
  BY <1>9, <1>15, <1>16, <1>18, <1>20
<1>21. CASE (\E k \in 0..Len(s.out) : committed' = SubSeq(s.out, 1, k)) /\ error' = "io"
  <2>1. CASE s.error = "none"
    <3>1. PICK k \in 0..Len(s.out) : committed' = SubSeq(s.out, 1, k)
      BY <1>21
    <3>2. IsSeq(s.out) /\ Begins(s.out, Written(plan, 1))
      BY <1>11, <2>1
    <3>3. Begins(<<>> \o SubSeq(s.out, 1, k), <<>> \o s.out)
      BY <3>2, BeginsPart, EmptyIsSeq
    <3>4. IsSeq(SubSeq(s.out, 1, k))
      <4>1. PICK x : x = s.out
        OBVIOUS
      <4>2. x \in Seq(ToSet(x)) /\ k \in 0..Len(x) /\ Len(x) \in Nat
        BY <3>2, <4>1 DEF IsSeq
      <4>3. SubSeq(x, 1, k) \in Seq(ToSet(x))
        BY <4>2
      <4> QED
        BY <4>1, <4>3, SeqIs
    <3>5. Begins(committed', s.out)
      BY <3>1, <3>2, <3>3, <3>4, ConcatEmpty
    <3> QED
      BY <1>17, <1>21, <2>1, <3>2, <3>5, BeginsOn
  <2>2. CASE s.error # "none"
    BY <1>16, <1>21, <2>2
  <2> QED
    BY <2>1, <2>2
<1>22. CASE CommitFails(q, es)
  <2>1. /\ error' = "storage"
        /\ (\E k \in 0..(Len(q) - 1) : committed' = committed \o SubSeq(q, 1, k)) \/ committed' = committed \o q
    BY <1>22 DEF CommitFails
  <2>2. CASE s.error = "none"
    <3>1. IsSeq(q) /\ q = Written(plan, 1)
      BY <1>11, <1>18, <2>2
    <3>2. <<>> \o q = q
      BY <3>1, ConcatEmpty
    <3>3. CASE \E k \in 0..(Len(q) - 1) : committed' = committed \o SubSeq(q, 1, k)
      <4>1. PICK k \in 0..(Len(q) - 1) : committed' = committed \o SubSeq(q, 1, k)
        BY <3>3
      <4>2. k \in 0..Len(q)
        BY <3>1 DEF IsSeq
      <4>3. Begins(<<>> \o SubSeq(q, 1, k), <<>> \o q)
        BY <3>1, <4>2, BeginsPart, EmptyIsSeq
      <4> QED
        BY <1>10, <1>17, <2>1, <2>2, <3>1, <3>2, <4>1, <4>3
    <3>4. CASE committed' = committed \o q
      BY <1>10, <1>17, <2>1, <2>2, <3>1, <3>2, <3>4, BeginsSelf
    <3> QED
      BY <2>1, <3>3, <3>4
  <2>3. CASE s.error # "none"
    BY <1>16, <2>1, <2>3
  <2> QED
    BY <2>2, <2>3
<1> QED
  BY <1>19, <1>20, <1>21, <1>22

\* The directory or the archive of the output cannot be opened.
LEMMA OpenFailsKeeps ==
  ASSUME IInv, OpenFails
  PROVE  IInv'
<1>1. /\ pc = "encode" /\ next = 1 /\ error' = "storage" /\ pc' = "publish"
      /\ UNCHANGED <<inputs, next, serial, plan, committed, listed, status>>
  BY DEF OpenFails, bulkVars
<1>2. InputsTrue' /\ (Same' <=> Same) /\ (Known' <=> Known) /\ (Bad' <=> Bad) /\ (Bulk' <=> Bulk)
  BY <1>1, InputsStay DEF IInv
<1>3. Bulk /\ status = "in-progress"
  BY <1>1 DEF IInv, ControlTrue
<1>4. SerialTrue'
  BY <1>2, <1>3 DEF SerialTrue
<1>5. committed = <<>>
  <2>1. UpToGroup(next - 1) /\ next - 1 = 0
    BY <1>1 DEF IInv, EncodePhase
  <2> QED
    BY <2>1, WrittenNone DEF UpToGroup
<1>6. ControlTrue'
  BY <1>1, <1>2, <1>3 DEF ControlTrue
<1>7. PlanPhase' /\ EncodePhase' /\ CommitPhase' /\ EndPhase'
  BY <1>1, <1>5 DEF PlanPhase, EncodePhase, CommitPhase, EndPhase
<1> QED
  BY <1>2, <1>4, <1>6, <1>7 DEF IInv

-----------------------------------------------------------------------------
(* The theorems                                                             *)

\* A step that changes nothing keeps the invariant.
LEMMA StutterKeeps ==
  ASSUME IInv, UNCHANGED vars
  PROVE  IInv'
<1>1. UNCHANGED <<inputs, pc, next, serial, seen, job, cancel, plan, committed, listed, error, status>>
  BY DEF vars, bulkVars, outVars
<1>2. InputsTrue' /\ (Same' <=> Same) /\ (Known' <=> Known) /\ (Bad' <=> Bad) /\ (Bulk' <=> Bulk)
  BY <1>1, InputsStay DEF IInv
<1>3. upstream' = upstream /\ claimed' = claimed /\ workers' = workers
  BY <1>1 DEF inputs
<1>4. ControlTrue' /\ SerialTrue'
  <2>1. ControlTrue'
    BY <1>1, <1>2, <1>3 DEF IInv, ControlTrue
  <2>2. SerialTrue'
    BY <1>1, <1>2, <1>3, SerialStays DEF IInv
  <2> QED
    BY <2>1, <2>2
<1>5. \A k : ReadKnown(k) => ReadKnown(k)'
  BY <1>1, <1>2, <1>3 DEF ReadKnown
<1>6. \A j : (ResultTrue(job[j]) => ResultTrue(job[j])') /\ (SummaryTrue(j) => SummaryTrue(j)') /\ (BlocksTrue(j) => BlocksTrue(j)')
  BY <1>1, <1>2, <1>3 DEF ResultTrue, SummaryTrue, BlocksTrue
<1>7. \A d : UpToGroup(d) => UpToGroup(d)'
  BY <1>1 DEF UpToGroup
<1>8. CancelTrue => CancelTrue'
  BY <1>1 DEF CancelTrue
<1>9. (Summaries => Summaries') /\ (Encodings => Encodings')
  BY <1>1, <1>6, <1>8 DEF Summaries, Encodings
<1>10. PlanPhase'
  BY <1>1, <1>3, <1>5, <1>9 DEF IInv, PlanPhase, Top, Least
<1>11. EncodePhase'
  BY <1>1, <1>3, <1>5, <1>7, <1>9 DEF IInv, EncodePhase, Top, Least
<1>12. CommitPhase'
  <2>1. \A d, to : Committing(d, to) => Committing(d, to)'
    BY <1>1, <1>6, <1>7 DEF Committing
  <2> QED
    BY <1>1, <1>3, <1>5, <2>1 DEF IInv, CommitPhase, Top, Least
<1>13. EndPhase'
  BY <1>1, <1>2, <1>5, <1>7 DEF IInv, EndPhase
<1> QED
  BY <1>2, <1>4, <1>10, <1>11, <1>12, <1>13 DEF IInv

\* Every step keeps the invariant.
LEMMA NextKeeps ==
  ASSUME IInv, [Next]_vars
  PROVE  IInv'
<1>1. CASE HashSource \/ ReadRows \/ ConfirmSource \/ AppendTail \/ TailFails \/ SerialDone
  BY <1>1, HashSourceKeeps, ReadRowsKeeps, ConfirmSourceKeeps, TailKeeps, SerialDoneKeeps
<1>2. CASE \E i \in DOMAIN job : Work(i) \/ SpawnFails(i)
  BY <1>2, WorkKeeps, SpawnFailsKeeps
<1>3. CASE FoldBatch \/ JoinBatch \/ CommitGroup \/ NextBatch \/ StreamGroup \/ OpenFails
  BY <1>3, FoldBatchKeeps, JoinBatchKeeps, CommitGroupKeeps, NextBatchKeeps, StreamGroupKeeps, OpenFailsKeeps
<1>4. CASE FinishFails \/ FinishArchive \/ Publish
  BY <1>4, FinishKeeps
<1>5. CASE \E i \in Files : Change(i)
  BY <1>5, ChangeKeeps
<1>6. CASE Done
  BY <1>6, StutterKeeps DEF Done
<1>7. CASE UNCHANGED vars
  BY <1>7, StutterKeeps
<1> QED
  BY <1>1, <1>2, <1>3, <1>4, <1>5, <1>6, <1>7 DEF Next

\* Whatever the sources, the workers and the failures, the plan is that of the sources read, each
\* worker's result is what the serial transform makes of its source or group, and the archive holds
\* the groups committed, in their order.
THEOREM AlwaysPlanned == Spec => []IInv
<1>1. Init => IInv
  BY InitTrue
<1>2. IInv /\ [Next]_vars => IInv'
  BY NextKeeps
<1> QED
  BY <1>1, <1>2, PTL DEF Spec

\* The serial transform takes the sources that a whole plan has read, and writes their blocks.
LEMMA SeriallyRead ==
  ASSUME PlanDone(plan), NEW s, s = Serially([i \in Files |-> plan.read[i]])
  PROVE  s.error = "none" /\ s.out = Flushed(Sources(plan.read, N))
<1>1. PICK fs : fs = [i \in Files |-> plan.read[i]]
  OBVIOUS
<1>2. N \in Nat /\ \A i \in 1..N : fs[i] = plan.read[i]
  BY <1>1, TransformAssumption DEF Files
<1>3. Sources(fs, N) = Sources(plan.read, N)
  BY <1>2, SourcesSame
<1> QED
  BY <1>1, <1>3, SeriallyIs DEF PlanDone

\* However the workers are scheduled and whatever fails, the archive of a bulk transform is at every
\* moment a beginning of the serial transform's, and all of it when the transform ends well.
THEOREM AlwaysBulkIsSerial == Spec => []BulkIsSerial
<1>1. ASSUME IInv  PROVE BulkIsSerial
  <2> SUFFICES ASSUME Bulk, NEW s, s = Serially([i \in Files |-> plan.read[i]])
               PROVE  /\ pc = "end" /\ error = "none" => s.error = "none" /\ committed = s.out
                      /\ committed # <<>> /\ (Len(plan.groups) > 1 \/ Same) => IsPrefix(committed, s.out)
    BY DEF BulkIsSerial
  <2>1. ASSUME pc = "end", error = "none"
        PROVE  s.error = "none" /\ committed = s.out
    <3>1. PlanDone(plan) /\ UpToGroup(Len(plan.groups))
      BY <1>1, <2>1 DEF IInv, EndPhase
    <3>2. committed = Flushed(Sources(plan.read, N))
      <4>1. Len(plan.groups) \in Nat
        BY <3>1 DEF PlanDone, IsSeq
      <4> QED
        BY <3>1, <4>1, WrittenBegins DEF UpToGroup
    <3> QED
      BY <3>1, <3>2, SeriallyRead
  <2>2. ASSUME committed # <<>>, Len(plan.groups) > 1 \/ Same
        PROVE  IsPrefix(committed, s.out)
    <3>1. PlanDone(plan) /\ Begins(committed, Flushed(Sources(plan.read, N)))
      <4>1. CASE pc = "plan"
        BY <1>1, <2>2, <4>1 DEF IInv, PlanPhase
      <4>2. CASE pc = "encode"
        <5>1. PlanDone(plan) /\ next \in 1..Len(plan.groups) /\ UpToGroup(next - 1)
          BY <1>1, <4>2 DEF IInv, EncodePhase
        <5>2. Len(plan.groups) \in Nat
          BY <5>1 DEF PlanDone, IsSeq
        <5>3. next - 1 \in 0..Len(plan.groups)
          BY <5>1, <5>2
        <5> QED
          BY <5>1, <5>3, GroupsBegin
      <4>3. CASE pc = "commit"
        <5>1. /\ PlanDone(plan) /\ next \in 1..Len(plan.groups)
              /\ \E d : Committing(d, Top(Least(workers, Len(plan.groups)), Len(plan.groups)))
          BY <1>1, <4>3 DEF IInv, CommitPhase
        <5>2. PICK w, to : w = Least(workers, Len(plan.groups)) /\ to = Top(w, Len(plan.groups))
          OBVIOUS
        <5>3. CommitBounds(w, to)
          BY <1>1, <5>1, <5>2, CommitBoundsHold DEF IInv, InputsTrue
        <5>4. PICK d : Committing(d, to)
          BY <5>1, <5>2
        <5>5. d \in 0..Len(plan.groups) /\ UpToGroup(d)
          BY <5>3, <5>4 DEF Committing, CommitBounds
        <5> QED
          BY <5>1, <5>5, GroupsBegin
      <4>4. CASE pc \in {"finish", "publish", "end"}
        BY <1>1, <2>2, <4>4 DEF IInv, EndPhase
      <4> QED
        BY <1>1, <4>1, <4>2, <4>3, <4>4 DEF IInv, ControlTrue
    <3>2. s.out = Flushed(Sources(plan.read, N))
      BY <3>1, SeriallyRead
    <3> QED
      BY <3>1, <3>2, BeginsIsPrefix
  <2> QED
    BY <2>1, <2>2
<1> QED
  BY <1>1, AlwaysPlanned, PTL

\* Nothing is refused for its order or its stream that the serial transform would take, and a
\* cancellation is never reported as the cause.
THEOREM AlwaysRefusedForCause == Spec => []RefusedForCause
<1>1. ASSUME IInv  PROVE RefusedForCause
  <2>1. error # "cancelled" /\ (error \in {"order", "stream"} => Bad)
    BY <1>1 DEF IInv, ControlTrue
  <2> QED
    BY <2>1 DEF RefusedForCause, Bad
<1> QED
  BY <1>1, AlwaysPlanned, PTL

\* An import is only complete when it lists every source, from a run that ended well; what was read of
\* each is what the ledger says, and what pass one summarised; and the archive is what the serial
\* transform makes of what was read.
THEOREM AlwaysCompleteIsWhole == Spec => []CompleteIsWhole
<1>1. ASSUME IInv  PROVE CompleteIsWhole
  <2> DEFINE Listed == [i \in Files |-> listed[i].file]
  <2> SUFFICES ASSUME status = "complete"
               PROVE  /\ upstream # "partial" /\ Len(listed) = N
                      /\ \A i \in Files : /\ listed[i].source = i
                                          /\ ledger => listed[i].file = claimed[i]
                                          /\ Bulk => listed[i].file = plan.read[i]
                      /\ Serially(Listed) = [out |-> committed, error |-> "none"]
    BY Zenon DEF CompleteIsWhole
  <2>1. pc = "end" /\ error = "none" /\ upstream # "partial"
    BY <1>1 DEF IInv, ControlTrue
  <2>2. N \in Nat /\ Files = 1..N
    BY TransformAssumption DEF Files
  <2>3. PICK fs : fs = Listed
    OBVIOUS
  <2>4. \A i \in 1..N : fs[i] = listed[i].file
    BY <2>2, <2>3
  <2>5. ASSUME NEW qs, \A i \in 1..N : fs[i] = qs[i], Sources(qs, N).error = "none", committed = Flushed(Sources(qs, N))
        PROVE  Serially(Listed) = [out |-> committed, error |-> "none"]
    <3>1. Sources(fs, N) = Sources(qs, N)
      BY <2>2, <2>5, SourcesSame
    <3>2. Serially(fs) = [out |-> Flushed(Sources(fs, N)), error |-> Sources(fs, N).error]
      BY SeriallyIs
    <3> QED
      BY <2>3, <2>5, <3>1, <3>2
  <2>6. CASE ~Bulk
    <3>1. ListTrue /\ WholeTrue /\ committed = serial.out /\ serial.block = <<>>
      BY <1>1, <2>1, <2>6 DEF IInv, SerialTrue, WholeTrue
    <3>2. next - 1 = N
      BY <2>2, <3>1 DEF WholeTrue
    <3>3. listed = [k \in 1..N |-> Entry(k, listed[k].file)]
      BY <3>1, <3>2, Zenon DEF ListTrue
    <3>4. PICK l : l = listed
      OBVIOUS
    <3>5. l = [k \in 1..N |-> Entry(k, l[k].file)]
      BY <3>3, <3>4
    <3>6. Len(l) = N /\ \A i \in 1..N : l[i].source = i
      BY <2>2, <3>5 DEF Entry
    <3>7. ledger => \A i \in 1..N : l[i].file = claimed[i]
      BY <3>1, <3>2, <3>4 DEF ListTrue, Known
    <3>8. committed = Flushed(Sources(ListedFiles, N)) /\ Sources(ListedFiles, N).error = "none"
      BY <3>1 DEF WholeTrue, Flushed, Emit
    <3>9. \A i \in 1..N : fs[i] = ListedFiles[i]
      BY <2>4, <3>2 DEF ListedFiles
    <3>10. Serially(Listed) = [out |-> committed, error |-> "none"]
      BY <2>5, <3>8, <3>9
    <3> QED
      BY <2>1, <2>2, <2>6, <3>4, <3>6, <3>7, <3>10
  <2>7. CASE Bulk
    <3>1. PlanDone(plan) /\ ReadKnown(N) /\ UpToGroup(Len(plan.groups))
      BY <1>1, <2>1, <2>7 DEF IInv, EndPhase
    <3>2. Bound(plan, Len(plan.groups)) = N /\ Written(plan, Len(plan.groups)) = Flushed(Sources(plan.read, N))
      <4>1. Len(plan.groups) \in Nat
        BY <3>1 DEF PlanDone, IsSeq
      <4> QED
        BY <3>1, <4>1, WrittenBegins
    <3>3. PICK l, r : l = listed /\ r = plan.read
      OBVIOUS
    <3>4. l = [k \in 1..N |-> Entry(k, r[k])] /\ committed = Flushed(Sources(r, N))
      BY <3>1, <3>2, <3>3 DEF UpToGroup
    <3>5. Len(l) = N /\ \A i \in 1..N : l[i].source = i /\ l[i].file = r[i]
      BY <2>2, <3>4 DEF Entry
    <3>6. ledger => \A i \in 1..N : r[i] = claimed[i]
      BY <3>1, <3>3 DEF ReadKnown, Known
    <3>7. \A i \in 1..N : fs[i] = r[i]
      BY <2>4, <3>3, <3>5
    <3>8. Serially(Listed) = [out |-> committed, error |-> "none"]
      BY <2>5, <3>1, <3>3, <3>4, <3>7 DEF PlanDone
    <3> QED
      BY <2>1, <2>2, <3>3, <3>5, <3>6, <3>8
  <2> QED
    BY <2>6, <2>7
<1> QED
  BY <1>1, AlwaysPlanned, PTL

-----------------------------------------------------------------------------
(* The limits                                                               *)

\* There are not more groups than sources.
LEMMA GroupsCount ==
  ASSUME NEW p, PlanDone(p)
  PROVE  Len(p.groups) \in 1..N
<1>1. PICK size, gs : size = Len(p.groups) /\ gs = p.groups
  OBVIOUS
<1>2. N \in Nat /\ size \in Nat /\ size > 0
  BY <1>1, TransformAssumption DEF PlanDone, IsSeq
<1>3. gs[size].end = N + 1
  BY <1>1 DEF PlanDone
<1>4. \A k \in 1..size : /\ gs[k].start \in Nat \ {0} /\ gs[k].end \in Nat /\ gs[k].start < gs[k].end
                         /\ gs[k].start = IF k = 1 THEN 1 ELSE gs[k - 1].end
  BY <1>1 DEF PlanDone, GroupTrue
<1> DEFINE T == {k \in Nat : k + 1 <= size => gs[k + 1].start >= k + 1}
<1>5. 0 \in T
  BY <1>2, <1>4
<1>6. ASSUME NEW k \in Nat, k \in T  PROVE k + 1 \in T
  <2> SUFFICES ASSUME (k + 1) + 1 <= size  PROVE gs[(k + 1) + 1].start >= (k + 1) + 1
    OBVIOUS
  <2>1. k + 1 \in 1..size /\ (k + 1) + 1 \in 1..size /\ (k + 1) + 1 # 1 /\ ((k + 1) + 1) - 1 = k + 1
    BY <1>2
  <2>2. gs[k + 1].start >= k + 1
    BY <1>6, <2>1
  <2>3. gs[(k + 1) + 1].start = gs[k + 1].end
    BY <1>4, <2>1
  <2>4. gs[k + 1].start \in Nat /\ gs[k + 1].end \in Nat /\ gs[k + 1].start < gs[k + 1].end
    BY <1>4, <2>1
  <2> QED
    BY <2>2, <2>3, <2>4
<1>7. size - 1 \in T
  <2> HIDE DEF T
  <2>1. size - 1 \in Nat
    BY <1>2
  <2> QED
    BY <1>5, <1>6, <2>1, Induction
<1>8. (size - 1) + 1 = size /\ size \in 1..size
  BY <1>2
<1>9. gs[size].start >= size
  BY <1>7, <1>8
<1>10. gs[size].start \in Nat /\ gs[size].start < N + 1
  BY <1>3, <1>4, <1>8
<1> QED
  BY <1>1, <1>2, <1>9, <1>10

\* The groups committed are of sources that there are.
LEMMA BoundFits ==
  ASSUME NEW p, PlanDone(p), NEW d \in 0..Len(p.groups)
  PROVE  Bound(p, d) \in 0..N
<1>1. N \in Nat
  BY TransformAssumption
<1>2. CASE d = 0
  BY <1>1, <1>2 DEF Bound
<1>3. CASE d # 0
  <2>1. d \in 1..Len(p.groups)
    BY <1>3
  <2>2. PICK a, b : a = p.groups[d].start /\ b = p.groups[d].end
    OBVIOUS
  <2>3. a \in Nat \ {0} /\ b \in Nat /\ a < b /\ b <= N + 1
    BY <2>1, <2>2 DEF PlanDone, GroupTrue
  <2>4. Bound(p, d) = b - 1
    BY <1>3, <2>2 DEF Bound
  <2> QED
    BY <1>1, <2>3, <2>4
<1> QED
  BY <1>2, <1>3

\* No more jobs than workers, and none but of a source or a group
JobsFit == DOMAIN job \subseteq 1..N /\ Cardinality(DOMAIN job) <= workers

\* Numbers in a row are as many as there are.
LEMMA RowOfJobs ==
  ASSUME NEW a \in Nat \ {0}, NEW b \in 0..N, NEW w \in Nat, b <= a + w - 1
  PROVE  a..b \subseteq 1..N /\ Cardinality(a..b) <= w
<1>1. N \in Nat
  BY TransformAssumption
<1>2. Cardinality(a..b) = IF a > b THEN 0 ELSE b - a + 1
  BY <1>1, FS_Interval
<1> QED
  BY <1>1, <1>2

\* A batch has a job for each worker, at most.
LEMMA BatchFits ==
  ASSUME IInv, pc \in {"plan", "encode", "commit"}
  PROVE  JobsFit /\ next \in 1..N
<1>1. N \in Nat \ {0} /\ workers \in Nat \ {0}
  BY TransformAssumption DEF IInv, InputsTrue
<1>2. ASSUME NEW size \in 1..N, NEW w, w = Least(workers, size), next \in 1..size,
             NEW a \in Nat, next <= a, DOMAIN job = a..Top(w, size)
      PROVE  JobsFit
  <2>1. w \in Nat /\ w <= workers
    BY <1>1, <1>2, LeastIs
  <2>2. Top(w, size) \in 0..N /\ Top(w, size) <= a + workers - 1
    BY <1>1, <1>2, <2>1 DEF Top, Least
  <2>3. a \in Nat \ {0}
    BY <1>2
  <2> QED
    BY <1>1, <1>2, <2>2, <2>3, RowOfJobs DEF JobsFit
<1>3. CASE pc = "plan"
  <2>1. next \in 1..N /\ Jobs(job, next, Top(Least(workers, N), N))
    BY <1>3 DEF IInv, PlanPhase
  <2>2. DOMAIN job = next..Top(Least(workers, N), N)
    BY <2>1 DEF Jobs
  <2>3. N \in 1..N /\ next \in Nat /\ next <= next
    BY <1>1, <2>1
  <2> QED
    BY <1>2, <2>1, <2>2, <2>3
<1>4. PICK size : size = Len(plan.groups)
  OBVIOUS
<1>5. ASSUME PlanDone(plan), next \in 1..size  PROVE size \in 1..N /\ next \in 1..N /\ next \in Nat
  BY <1>1, <1>4, <1>5, GroupsCount
<1>6. CASE pc = "encode"
  <2>1. PlanDone(plan) /\ next \in 1..size /\ Jobs(job, next, Top(Least(workers, size), size))
    BY <1>4, <1>6 DEF IInv, EncodePhase
  <2>2. DOMAIN job = next..Top(Least(workers, size), size)
    BY <2>1 DEF Jobs
  <2>3. size \in 1..N /\ next \in 1..N /\ next \in Nat /\ next <= next
    BY <1>5, <2>1
  <2> QED
    BY <1>2, <2>1, <2>2, <2>3
<1>7. CASE pc = "commit"
  <2>1. PlanDone(plan) /\ next \in 1..size /\ \E d : Committing(d, Top(Least(workers, size), size))
    BY <1>4, <1>7 DEF IInv, CommitPhase
  <2>2. size \in 1..N /\ next \in 1..N /\ next \in Nat
    BY <1>5, <2>1
  <2>3. PICK d : d \in (next - 1)..Top(Least(workers, size), size) /\ DOMAIN job = (d + 1)..Top(Least(workers, size), size)
    BY <2>1 DEF Committing
  <2>4. d + 1 \in Nat /\ next <= d + 1
    BY <2>2, <2>3
  <2> QED
    BY <1>2, <2>1, <2>2, <2>3, <2>4
<1> QED
  BY <1>3, <1>6, <1>7

\* A row has finitely many processes.
LEMMA FewIds ==
  ASSUME NEW row, IsRow(row)
  PROVE  IsFiniteSet(Ids(row))
<1>1. PICK n, ps : n = Len(row.processes) /\ ps = row.processes
  OBVIOUS
<1>2. n \in Nat
  BY <1>1 DEF IsRow
<1>3. PICK f : f = [k \in 1..n |-> ps[k].id]
  OBVIOUS
<1>4. IsFiniteSet(1..n)
  BY <1>2, FS_Interval
<1>5. f \in Surjection(1..n, Ids(row))
  BY <1>1, <1>3 DEF Surjection, Ids
<1> QED
  BY <1>4, <1>5, FS_Surjection

\* A summary remembers finitely many processes.
LEMMA FewRemembered ==
  ASSUME NEW f, IsSource(f)
  PROVE  IsFiniteSet(DOMAIN End(f).v.previous)
<1>1. PICK rs, n : rs = f.rows /\ n = Len(f.rows)
  OBVIOUS
<1>2. n \in Nat /\ \A k \in 1..n : IsRow(rs[k])
  BY <1>1 DEF IsSource, IsSeq, AreRows
<1> DEFINE Few(u) == u = [ok |-> u.ok, v |-> u.v] /\ IsValidator(u.v) /\ IsFiniteSet(DOMAIN u.v.previous)
           T == {k \in Nat : k <= n => Few(Checked(Blank, rs, k))}
<1>3. 0 \in T
  <2>1. Few(Blank)
    <3>1. Blank = [ok |-> Blank.ok, v |-> Blank.v]
      BY DEF Blank
    <3> QED
      BY <3>1, BlankIs, FS_EmptySet
  <2> QED
    BY <2>1, CheckedFirst
<1>4. ASSUME NEW k \in Nat, k \in T  PROVE k + 1 \in T
  <2> SUFFICES ASSUME k + 1 <= n  PROVE Few(Checked(Blank, rs, k + 1))
    OBVIOUS
  <2>1. PICK u, x, row : u = Checked(Blank, rs, k) /\ x = Checked(Blank, rs, k + 1) /\ row = rs[k + 1]
    OBVIOUS
  <2>2. k <= n /\ k + 1 \in 1..n
    BY <1>2
  <2>3. Few(u)
    BY <1>4, <2>1, <2>2
  <2>4. IsRow(row)
    BY <1>2, <2>1, <2>2
  <2>5. x = OfflineRow(u, row)
    BY <2>1, CheckedStep
  <2>6. /\ x = [ok |-> x.ok, v |-> x.v]
        /\ u.ok /\ Accepts(u.v, row) => x.ok /\ x.v = Validated(u.v, row).v
        /\ ~(u.ok /\ Accepts(u.v, row)) => ~x.ok /\ x.v = u.v
    BY <2>3, <2>5, OfflineRowIs
  <2>7. IsValidator(Validated(u.v, row).v) /\ IsFiniteSet(DOMAIN Validated(u.v, row).v.previous)
    <3>1. PICK w : w = Validated(u.v, row).v
      OBVIOUS
    <3>2. IsValidator(w) /\ DOMAIN w.previous = (DOMAIN u.v.previous \ Resets(row.quality)) \cup Ids(row)
      BY <2>3, <2>4, <3>1, ValidatedKnows
    <3>3. IsFiniteSet(DOMAIN u.v.previous \ Resets(row.quality))
      BY <2>3, FS_Difference
    <3>4. IsFiniteSet(DOMAIN w.previous)
      BY <2>4, <3>2, <3>3, FewIds, FS_Union
    <3> QED
      BY <3>1, <3>2, <3>4
  <2>8. Few(x)
    BY <2>3, <2>6, <2>7
  <2> QED
    BY <2>1, <2>8
<1>5. n \in T
  <2> HIDE DEF T
  <2> QED
    BY <1>2, <1>3, <1>4, Induction
<1> QED
  BY <1>1, <1>2, <1>5 DEF End

\* The seeds of the plan, of the groups closed and of the one that is open, fit the limit.
SeedsFit(p) ==
  /\ IsFiniteSet(DOMAIN p.global) /\ p.retained \in Nat
  /\ p.group = None => p.retained <= MaxSeeds
  /\ p.group # None => IsFiniteSet(DOMAIN p.group.seed) /\ p.retained + Cardinality(DOMAIN p.group.seed) <= MaxSeeds

\* The group a source joins has finitely many seeds.
LEMMA OpenedFits ==
  ASSUME NEW p, PlanTrue(p), SeedsFit(p), NEW i, NEW context, NEW o, o = OpenedFor(p, i, context)
  PROVE  o.retained \in Nat /\ IsFiniteSet(DOMAIN o.group.seed)
<1>1. IsPlan(p)
  BY DEF PlanTrue, ReadTrue
<1>2. PICK c : c = ClosedFor(p, i, context)
  OBVIOUS
<1>3. IsPlan(c) /\ c.retained \in Nat /\ (c.group # None => c = p /\ p.group # None)
  <2>1. CASE p.group # None /\ p.group.context # context
    <3>1. c = Close(p, i)
      BY <1>2, <2>1 DEF ClosedFor
    <3>2. IsPlan(c) /\ c.group = None /\ c.retained = p.retained + Cardinality(DOMAIN p.group.seed)
      BY <1>1, <3>1, CloseIs
    <3>3. Cardinality(DOMAIN p.group.seed) \in Nat
      BY <2>1, FS_CardinalityType DEF SeedsFit
    <3> QED
      BY <3>2, <3>3 DEF SeedsFit
  <2>2. CASE ~(p.group # None /\ p.group.context # context)
    <3>1. c = p
      BY <1>2, <2>2, Zenon DEF ClosedFor
    <3> QED
      BY <1>1, <3>1 DEF SeedsFit
  <2> QED
    BY <2>1, <2>2
<1>4. CASE c.group # None
  <2>1. o = c
    BY <1>2, <1>4, Zenon DEF OpenedFor
  <2> QED
    BY <1>3, <1>4, <2>1 DEF SeedsFit
<1>5. CASE c.group = None
  <2>1. PICK g : g = Fresh(p, c.from, context)
    OBVIOUS
  <2>2. o = Opening(c, g)
    BY <1>2, <1>5, <2>1, Zenon DEF OpenedFor, Opening
  <2>3. o.group = g /\ o.retained = c.retained
    BY <1>3, <2>2, OpeningIs
  <2>4. DOMAIN g.seed = {}
    BY <2>1, BlankIs DEF Fresh
  <2> QED
    BY <1>3, <2>3, <2>4, FS_EmptySet
<1> QED
  BY <1>4, <1>5

\* A source only joins a group while the seeds fit.
LEMMA JoinWithinLimit ==
  ASSUME NEW p, NEW i, NEW sum, NEW t, t = Touch(OpenedFor(p, i, sum.file.context), TouchedBy(sum))
  PROVE  \/ JoinGroup(p, i, sum) = Refused(p)
         \/ /\ JoinGroup(p, i, sum) = Lasting(t, Last(sum.file.rows).seq)
            /\ ~(t.retained + Cardinality(DOMAIN t.group.seed) > MaxSeeds)
BY Zenon DEF JoinGroup, OpenedFor, ClosedFor, Fresh, TouchedBy, Refused, Lasting

\* What a source touches first joins the seeds, and they still fit.
LEMMA JoinFits ==
  ASSUME NEW p, NEW sum, PlanTrue(p), SumTrue(sum), NEW i, i = Len(p.read) + 1, Len(sum.file.rows) > 0,
         NEW j, j = JoinGroup(p, i, sum), j.error = "none", SeedsFit(p)
  PROVE  SeedsFit(j)
<1>1. PICK context, ids, o : context = sum.file.context /\ ids = TouchedBy(sum) /\ o = OpenedFor(p, i, context)
  OBVIOUS
<1>2. IsPlan(p) /\ context # None
  BY <1>1 DEF PlanTrue, ReadTrue, SumTrue, IsSource
<1>3. ReadTrue(o) /\ GroupOpen(o) /\ o.global = p.global
  <2>1. Opened(p, context, o)
    BY <1>1, <1>2, OpenedTrue
  <2> QED
    BY <2>1 DEF Opened
<1>4. IsPlan(o) /\ IsGroup(o.group)
  BY <1>3 DEF ReadTrue, GroupOpen
<1>5. PICK h, t : h = TouchedGroup(o, ids) /\ t = Opening(o, h)
  OBVIOUS
<1>6. t = Touch(o, ids)
  BY <1>4, <1>5, TouchIs
<1>7. IsPlan(t) /\ t.global = p.global /\ t.group = h /\ t.retained = o.retained
  BY <1>3, <1>4, <1>5, OpeningIs
<1>8. PICK l : l = Last(sum.file.rows).seq
  OBVIOUS
<1>9. j = Lasting(t, l) /\ ~(t.retained + Cardinality(DOMAIN t.group.seed) > MaxSeeds)
  <2>1. Refused(p).error # "none"
    BY <1>2 DEF IsPlan, Refused
  <2> QED
    BY <1>1, <1>6, <1>8, <2>1, JoinWithinLimit
<1>10. j.global = p.global /\ j.group = h /\ j.retained = o.retained
  BY <1>7, <1>9 DEF Lasting, IsPlan
<1>11. o.retained \in Nat /\ IsFiniteSet(DOMAIN o.group.seed) /\ IsFiniteSet(DOMAIN p.global)
  BY <1>1, OpenedFits DEF SeedsFit
<1>12. IsFiniteSet(DOMAIN h.seed)
  <2>1. DOMAIN h.seed = DOMAIN o.group.seed \cup ((ids \ o.group.touched) \cap DOMAIN o.global)
    BY <1>5 DEF TouchedGroup, SeedFor
  <2>2. IsFiniteSet((ids \ o.group.touched) \cap DOMAIN o.global)
    BY <1>3, <1>11, FS_Subset
  <2> QED
    BY <1>11, <2>1, <2>2, FS_Union
<1>13. Cardinality(DOMAIN h.seed) \in Nat /\ MaxSeeds \in Nat
  BY <1>12, FS_CardinalityType, TransformAssumption
<1>14. o.retained + Cardinality(DOMAIN h.seed) <= MaxSeeds
  BY <1>7, <1>9, <1>11, <1>13
<1>15. h # None
  <2>1. IsGroup(h)
    BY <1>5 DEF TouchedGroup, IsGroup
  <2> QED
    BY <2>1, GroupIsSome
<1> QED
  BY <1>10, <1>11, <1>12, <1>14, <1>15 DEF SeedsFit

\* Folding a summary keeps the seeds within the limit.
LEMMA FoldFits ==
  ASSUME NEW p, NEW sum, PlanTrue(p), SumTrue(sum), NEW i, i = Len(p.read) + 1, NEW q, q = Fold(p, i, sum),
         q.error = "none", SeedsFit(p)
  PROVE  SeedsFit(q)
<1>1. PICK j : j = IF sum.file.rows = <<>> THEN p ELSE JoinGroup(p, i, sum)
  OBVIOUS
<1>2. IsPlan(p) /\ p.error = "none" /\ IsSource(sum.file)
  BY DEF PlanTrue, ReadTrue, SumTrue
<1>3. j.error = "none" /\ q = Grown(j, sum)
  <2>1. q # [p EXCEPT !.error = "stream"] /\ q # [p EXCEPT !.error = "order"]
    BY <1>2 DEF IsPlan
  <2>2. \/ p.first # None /\ p.first[1] # sum.file.context[1] /\ q = [p EXCEPT !.error = "stream"]
        \/ sum.file.rows # <<>> /\ p.last # Never /\ Head(sum.file.rows).seq <= p.last /\ q = [p EXCEPT !.error = "order"]
        \/ j.error # "none" /\ q = j
        \/ /\ ~(p.first # None /\ p.first[1] # sum.file.context[1])
           /\ ~(sum.file.rows # <<>> /\ p.last # Never /\ Head(sum.file.rows).seq <= p.last)
           /\ j.error = "none" /\ q = Grown(j, sum)
    BY <1>1, <1>2, FoldIs
  <2> QED
    BY <2>1, <2>2, Zenon
<1>4. IsPlan(j) /\ SeedsFit(j)
  <2>1. CASE sum.file.rows = <<>>
    BY <1>1, <1>2, <2>1
  <2>2. CASE sum.file.rows # <<>>
    <3>1. Len(sum.file.rows) > 0
      BY <1>2, <2>2, EndsOf DEF IsSource
    <3> QED
      BY <1>1, <1>3, <2>2, <3>1, JoinedTrue, JoinFits
  <2> QED
    BY <2>1, <2>2
<1>5. /\ q.group = j.group /\ q.retained = j.retained
      /\ q.global = Over(Keep(j.global, DOMAIN j.global \ sum.resets), sum.final)
  <2>1. Grows(j, sum, q)
    BY <1>3, <1>4, GrownIs
  <2> QED
    BY <2>1 DEF Grows
<1>6. IsFiniteSet(DOMAIN q.global)
  <2>1. DOMAIN q.global = (DOMAIN j.global \ sum.resets) \cup DOMAIN sum.final
    BY <1>5 DEF Over, Keep
  <2>2. IsFiniteSet(DOMAIN sum.final)
    BY <1>2, FewRemembered DEF SumTrue
  <2>3. IsFiniteSet(DOMAIN j.global \ sum.resets)
    BY <1>4, FS_Difference DEF SeedsFit
  <2> QED
    BY <2>1, <2>2, <2>3, FS_Union
<1> QED
  BY <1>4, <1>5, <1>6 DEF SeedsFit

\* So does folding the summaries of a batch.
LEMMA PlanningFits ==
  ASSUME NEW p, NEW results, NEW order, NEW m \in Nat, PlanTrue(p), SeedsFit(p),
         \A k \in 1..m : order[k] = Len(p.read) + k /\ SumTrue(results[Len(p.read) + k]),
         Planning(p, results, order, m).error = "none"
  PROVE  SeedsFit(Planning(p, results, order, m))
<1>1. PICK l : l = Len(p.read)
  OBVIOUS
<1>2. l \in Nat
  BY <1>1 DEF PlanTrue, ReadTrue, IsSeq
<1> DEFINE T == {k \in Nat : k <= m /\ Planning(p, results, order, k).error = "none" => SeedsFit(Planning(p, results, order, k))}
<1>3. 0 \in T
  BY PlanningFirst
<1>4. ASSUME NEW k \in Nat, k \in T  PROVE k + 1 \in T
  <2>1. PICK q, x, n : q = Planning(p, results, order, k) /\ x = Planning(p, results, order, k + 1) /\ n = l + (k + 1)
    OBVIOUS
  <2> SUFFICES ASSUME k + 1 <= m, x.error = "none"  PROVE SeedsFit(x)
    BY <2>1
  <2>2. k <= m /\ k + 1 \in 1..m /\ \A e \in 1..k : e \in 1..m
    OBVIOUS
  <2>3. x = Fold(q, n, results[n]) /\ SumTrue(results[n])
    <3>1. order[k + 1] = n /\ SumTrue(results[n])
      BY <1>1, <2>1, <2>2
    <3>2. x = Fold(q, order[k + 1], results[order[k + 1]])
      BY <2>1, PlanningStep
    <3> QED
      BY <3>1, <3>2
  <2>4. q.error = "none"
    <3>1. CASE q.error # "none"
      <4>1. x = q
        BY <2>3, <3>1, Zenon DEF Fold
      <4> QED
        BY <3>1, <4>1
    <3> QED
      BY <3>1
  <2>5. PlanTrue(q) /\ Len(q.read) = l + k
    <3>1. \A e \in 1..k : order[e] = Len(p.read) + e /\ SumTrue(results[Len(p.read) + e])
      BY <2>2
    <3>2. Progress(p, results, k, q)
      BY <2>1, <3>1, PlanningTrue
    <3> QED
      BY <1>1, <2>4, <3>2 DEF Progress
  <2>6. SeedsFit(q)
    BY <1>4, <2>1, <2>2, <2>4
  <2>7. n = Len(q.read) + 1
    BY <1>2, <2>1, <2>5
  <2> QED
    BY <2>3, <2>5, <2>6, <2>7, FoldFits
<1>5. m \in T
  <2> HIDE DEF T
  <2> QED
    BY <1>3, <1>4, Induction
<1> QED
  BY <1>5

\* The seeds kept for pass two are those of all groups.
LEMMA PlannedFits ==
  ASSUME NEW p, PlanTrue(p), SeedsFit(p)
  PROVE  Planned(p).retained <= MaxSeeds
<1>1. PICK q : q = Planned(p)
  OBVIOUS
<1>2. IsPlan(p) /\ p.error = "none"
  BY DEF PlanTrue, ReadTrue
<1>3. CASE p.group # None
  <2>1. q = Close(p, N + 1)
    BY <1>1, <1>2, <1>3, Zenon DEF Planned
  <2>2. q.retained = p.retained + Cardinality(DOMAIN p.group.seed)
    BY <1>2, <2>1, CloseIs
  <2> QED
    BY <1>1, <1>3, <2>2 DEF SeedsFit
<1>4. CASE p.group = None
  <2>1. PICK gs : gs = <<Whole(p)>>
    OBVIOUS
  <2>2. q = [p EXCEPT !.groups = gs]
    BY <1>1, <1>2, <1>4, <2>1 DEF Planned, Whole
  <2>3. q.retained = p.retained
    BY <1>2, <2>2 DEF IsPlan
  <2> QED
    BY <1>1, <1>4, <2>3 DEF SeedsFit
<1> QED
  BY <1>3, <1>4

-----------------------------------------------------------------------------
(* The limits are kept                                                      *)

\* A list is of the first sources.
FirstSources(l) == Len(l) <= N /\ \A k \in 1..Len(l) : l[k].source = k
ListedFits == FirstSources(listed)

\* A list of the first n sources is.
LEMMA FirstListed ==
  ASSUME NEW n \in 0..N, NEW h, NEW l, l = [k \in 1..n |-> Entry(k, h[k])]
  PROVE  FirstSources(l)
<1>1. N \in Nat
  BY TransformAssumption
<1>2. Len(l) = n
  BY <1>1
<1>3. \A k \in 1..n : l[k].source = k
  BY DEF Entry
<1> QED
  BY <1>1, <1>2, <1>3 DEF FirstSources

\* So is its beginning.
LEMMA FirstBegin ==
  ASSUME NEW a, NEW l, Begins(a, l), FirstSources(l)
  PROVE  FirstSources(a)
<1>1. PICK b : IsSeq(a) /\ IsSeq(b) /\ l = a \o b
  BY DEF Begins
<1>2. PICK S : S = ToSet(a) \cup ToSet(b)
  OBVIOUS
<1>3. a \in Seq(S) /\ b \in Seq(S)
  BY <1>1, <1>2, Together
<1>4. Len(l) = Len(a) + Len(b) /\ Len(a) \in Nat /\ Len(b) \in Nat /\ \A k \in 1..Len(a) : l[k] = a[k]
  BY <1>1, <1>3
<1>5. N \in Nat
  BY TransformAssumption
<1>6. Len(a) <= N
  BY <1>4, <1>5 DEF FirstSources
<1>7. ASSUME NEW k \in 1..Len(a)  PROVE a[k].source = k
  <2>1. k \in 1..Len(l)
    BY <1>4
  <2> QED
    BY <1>4, <2>1 DEF FirstSources
<1> QED
  BY <1>6, <1>7 DEF FirstSources

Batching == pc \in {"plan", "encode", "commit"}

\* What the invariant says of the sizes: of the batch while there is one, of the list unless a bulk
\* transform has failed, and of the next source of a serial transform
Sized ==
  /\ Batching => JobsFit /\ next \in 1..N
  /\ ~Bulk \/ Batching \/ error = "none" => ListedFits
  /\ ~Bulk => next \in 1..(N + 1)

\* The sizes follow from the invariant.
LEMMA SizesFit ==
  ASSUME IInv
  PROVE  Sized
<1>1. N \in Nat \ {0}
  BY TransformAssumption
<1>2. Batching => JobsFit /\ next \in 1..N
  BY BatchFits DEF Batching
<1>3. ASSUME ~Bulk  PROVE ListedFits /\ next \in 1..(N + 1)
  <2>1. next \in 1..(N + 1) /\ listed = [k \in 1..(next - 1) |-> Entry(k, listed[k].file)]
    BY <1>3, Zenon DEF IInv, SerialTrue, ListTrue
  <2>2. PICK n, l, h : n = next - 1 /\ l = listed /\ h = [k \in 1..n |-> l[k].file]
    OBVIOUS
  <2>3. n \in 0..N
    BY <1>1, <2>1, <2>2
  <2>4. l = [k \in 1..n |-> Entry(k, l[k].file)]
    BY <2>1, <2>2, Zenon
  <2>5. l = [k \in 1..n |-> Entry(k, h[k])]
    BY <2>2, <2>4
  <2>6. FirstSources(l)
    BY <2>3, <2>5, FirstListed
  <2>7. ListedFits
    BY <2>2, <2>6, Zenon DEF ListedFits
  <2> QED
    BY <2>1, <2>7
<1>4. ASSUME PlanDone(plan), NEW d \in 0..Len(plan.groups), UpToGroup(d)  PROVE ListedFits
  <2>1. PICK n, h : n = Bound(plan, d) /\ h = plan.read
    OBVIOUS
  <2>2. n \in 0..N
    BY <1>4, <2>1, BoundFits
  <2>3. listed = [k \in 1..n |-> Entry(k, h[k])]
    BY <1>4, <2>1 DEF UpToGroup
  <2> QED
    BY <2>2, <2>3, FirstListed DEF ListedFits
<1>5. CASE pc = "plan"
  <2>1. listed = <<>>
    BY <1>5 DEF IInv, PlanPhase
  <2>2. PICK h : h = plan.read
    OBVIOUS
  <2>4. 0 \in 0..N /\ listed = [k \in 1..0 |-> Entry(k, h[k])]
    BY <1>1, <2>1
  <2>3. ListedFits
    BY <2>4, FirstListed DEF ListedFits
  <2> QED
    BY <1>2, <1>3, <2>3 DEF Sized
<1>6. CASE pc = "encode"
  <2>1. PlanDone(plan) /\ next \in 1..Len(plan.groups) /\ UpToGroup(next - 1)
    BY <1>6 DEF IInv, EncodePhase
  <2>2. Len(plan.groups) \in Nat
    BY <2>1 DEF PlanDone, IsSeq
  <2>3. next - 1 \in 0..Len(plan.groups)
    BY <2>1, <2>2
  <2> QED
    BY <1>2, <1>3, <1>4, <2>1, <2>3 DEF Sized
<1>7. CASE pc = "commit"
  <2>1. PICK size, w, to : size = Len(plan.groups) /\ w = Least(workers, size) /\ to = Top(w, size)
    OBVIOUS
  <2>2. PlanDone(plan) /\ next \in 1..size /\ \E d : Committing(d, to)
    BY <1>7, <2>1 DEF IInv, CommitPhase
  <2>3. PICK d : Committing(d, to)
    BY <2>2
  <2>4. CommitBounds(w, to)
    BY <2>1, <2>2, CommitBoundsHold DEF IInv, InputsTrue
  <2>5. d \in 0..Len(plan.groups) /\ UpToGroup(d)
    BY <2>3, <2>4 DEF Committing, CommitBounds
  <2> QED
    BY <1>2, <1>3, <1>4, <2>2, <2>5 DEF Sized
<1>8. CASE pc \in {"finish", "publish", "end"} /\ Bulk /\ error = "none"
  <2>1. PlanDone(plan) /\ UpToGroup(Len(plan.groups))
    BY <1>8 DEF IInv, EndPhase
  <2>2. Len(plan.groups) \in 0..Len(plan.groups)
    BY <2>1 DEF PlanDone, IsSeq
  <2>3. ListedFits
    BY <1>4, <2>1, <2>2
  <2> QED
    BY <1>2, <1>3, <2>3 DEF Sized
<1>9. CASE ~Bulk \/ error # "none"
  <2>1. ~Batching \/ pc = "plan" \/ pc = "encode" \/ pc = "commit"
    BY DEF Batching
  <2> QED
    BY <1>2, <1>3, <1>5, <1>6, <1>7, <1>9, <2>1 DEF Sized
<1>10. pc \in {"plan", "encode", "commit", "finish", "publish", "end"} \/ ~Bulk
  BY DEF IInv, ControlTrue
<1> QED
  BY <1>5, <1>6, <1>7, <1>8, <1>9, <1>10

\* Types, and the seeds while they are counted
Limits ==
  /\ TypeOK
  /\ pc = "plan" => SeedsFit(plan)

\* What a step does to what the invariant does not give the size of
Counted ==
  /\ workers' = workers /\ faults' \in 0..MaxFaults /\ cancel' \in BOOLEAN
  /\ pc' \in {"serial", "rows", "confirm", "plan", "encode", "commit", "finish", "publish", "end"}
  /\ (pc' = "end") = (status' # "in-progress")
  /\ Batching' \/ UNCHANGED job
  /\ Batching' \/ ~Bulk' \/ UNCHANGED next
  /\ Batching' \/ ~Bulk' \/ error' = "none" \/ ListedFits'
  /\ pc' = "plan" => SeedsFit(plan')
  /\ pc' \in {"encode", "commit"} => plan'.retained <= MaxSeeds

\* Such a step keeps the limits.
LEMMA CountedFits ==
  ASSUME TypeOK, Counted, Sized'
  PROVE  Limits'
<1>1. N \in Nat \ {0}
  BY TransformAssumption
<1>2. next' \in 1..(N + 1)
  <2>1. CASE Batching'
    BY <1>1, <2>1 DEF Sized
  <2>2. CASE ~(Bulk')
    BY <2>2 DEF Sized
  <2>3. CASE UNCHANGED next
    BY <2>3 DEF TypeOK
  <2> QED
    BY <2>1, <2>2, <2>3 DEF Counted
<1>3. DOMAIN job' \subseteq 1..N /\ Cardinality(DOMAIN job') <= workers'
  <2>1. CASE Batching'
    BY <2>1 DEF Sized, JobsFit
  <2>2. CASE UNCHANGED job
    BY <2>2 DEF TypeOK, Counted
  <2> QED
    BY <2>1, <2>2 DEF Counted
<1>4. ListedFits'
  BY DEF Sized, Counted
<1>5. Len(listed') <= N /\ \A k \in 1..Len(listed') : listed'[k].source = k
  BY <1>4 DEF ListedFits, FirstSources
<1> QED
  BY <1>2, <1>3, <1>5 DEF Counted, Limits, TypeOK

\* A step of the serial transform
LEMMA SerialCounted ==
  ASSUME IInv, Limits, HashSource \/ ReadRows \/ ConfirmSource \/ AppendTail \/ TailFails \/ SerialDone
  PROVE  Counted
<1> DEFINE Stays == /\ ~Bulk /\ pc \in {"serial", "rows", "confirm", "finish"} /\ UNCHANGED <<inputs, job, cancel, plan, status>>
                    /\ pc' \in {"serial", "rows", "confirm", "finish"}
                    /\ (faults' = faults \/ (faults < MaxFaults /\ faults' = faults + 1))
<1>1. Stays
  <2>1. pc \in {"serial", "rows", "confirm"} => ~Bulk
    BY DEF IInv, ControlTrue
  <2>2. CASE HashSource
    BY <2>1, <2>2 DEF HashSource, bulkVars
  <2>3. CASE ReadRows
    BY <2>1, <2>3 DEF ReadRows, bulkVars
  <2>4. CASE ConfirmSource
    BY <2>1, <2>4 DEF ConfirmSource, bulkVars
  <2>5. CASE AppendTail \/ TailFails
    BY <2>1, <2>5 DEF AppendTail, TailFails, SourcesOver, bulkVars
  <2>6. CASE SerialDone
    BY <2>1, <2>6 DEF SerialDone, bulkVars, outVars
  <2> QED
    BY <2>2, <2>3, <2>4, <2>5, <2>6
<1>2. workers' = workers /\ ~(Bulk')
  BY <1>1 DEF inputs, Bulk
<1>3. faults' \in 0..MaxFaults
  BY <1>1, TransformAssumption DEF Limits, TypeOK
<1>4. cancel' \in BOOLEAN /\ (pc' = "end") = (status' # "in-progress")
  BY <1>1 DEF Limits, TypeOK
<1> QED
  BY <1>1, <1>2, <1>3, <1>4 DEF Counted

\* A worker ends, or cannot be started.
LEMMA WorkersCounted ==
  ASSUME IInv, Limits, NEW i \in DOMAIN job, Work(i) \/ SpawnFails(i)
  PROVE  Counted
<1>1. /\ pc \in {"plan", "encode"} /\ UNCHANGED <<inputs, pc, plan, status>>
      /\ (faults' = faults \/ (faults < MaxFaults /\ faults' = faults + 1))
  BY DEF Work, SpawnFails, Batched, outVars
<1>2. cancel' \in BOOLEAN
  <2>1. CASE Work(i)
    <3>1. cancel' = (cancel \/ IsError(job'[i]))
      BY <2>1 DEF Work
    <3>2. (cancel \/ IsError(job'[i])) \in BOOLEAN
      BY Zenon
    <3> QED
      BY <3>1, <3>2, Zenon
  <2>2. CASE SpawnFails(i)
    BY <2>2 DEF SpawnFails
  <2> QED
    BY <2>1, <2>2
<1>3. workers' = workers
  BY <1>1 DEF inputs
<1>4. faults' \in 0..MaxFaults
  BY <1>1, TransformAssumption DEF Limits, TypeOK
<1>5. (pc' = "end") = (status' # "in-progress")
  BY <1>1 DEF Limits, TypeOK
<1>6. (pc' = "plan" => SeedsFit(plan')) /\ (pc' \in {"encode", "commit"} => plan'.retained <= MaxSeeds)
  BY <1>1 DEF Limits, TypeOK
<1>7. Batching' /\ pc' \in {"serial", "rows", "confirm", "plan", "encode", "commit", "finish", "publish", "end"}
  BY <1>1 DEF Batching
<1> QED
  BY <1>2, <1>3, <1>4, <1>5, <1>6, <1>7 DEF Counted

\* The summaries of a batch are folded.
LEMMA FoldBatchCounted ==
  ASSUME IInv, Limits, FoldBatch
  PROVE  Counted
<1>1. pc = "plan" /\ AllJoined /\ UNCHANGED <<inputs, serial, committed, listed, status, faults>>
  BY DEF FoldBatch
<1>2. workers' = workers /\ faults' \in 0..MaxFaults /\ status' = "in-progress"
  BY <1>1 DEF inputs, Limits, TypeOK, IInv, ControlTrue
<1>3. PICK w, m : w = Least(workers, N) /\ m = Least(w, N + 1 - next)
  OBVIOUS
<1>4. PICK p : p = FoldedBatch(m)
  OBVIOUS
<1>5. FoldEnds(w, p)
  BY <1>3, <1>4, FoldBatchEnds
<1>6. CASE pc' = "finish" /\ UNCHANGED <<next, job, cancel, plan>>
  <2>1. cancel' \in BOOLEAN
    BY <1>6 DEF Limits, TypeOK
  <2>2. ListedFits'
    BY <1>1 DEF Limits, TypeOK, ListedFits, FirstSources
  <2> QED
    BY <1>1, <1>2, <1>6, <2>1, <2>2 DEF Counted
<1>7. CASE /\ Cause = "none" /\ p.error = "none" /\ cancel' = FALSE
           /\ \/ next + w > N /\ pc' = "encode" /\ plan' = Planned(p)
              \/ ~(next + w > N) /\ pc' = "plan" /\ plan' = p
  <2>1. m \in Nat /\ Progress(plan, job, m, p) /\ Summarised(p, m)
    BY <1>1, <1>3, <1>4, <1>7, BatchFolded
  <2>2. PlanTrue(p)
    BY <1>7, <2>1 DEF Progress
  <2>3. SeedsFit(p)
    <3>1. PICK order : /\ p = Planning(plan, job, order, m)
                       /\ \A k \in 1..m : order[k] = Len(plan.read) + k /\ SumTrue(job[Len(plan.read) + k])
      BY <2>1 DEF Summarised
    <3>2. PlanTrue(plan) /\ SeedsFit(plan)
      BY <1>1 DEF IInv, PlanPhase, Limits
    <3> QED
      BY <1>7, <2>1, <3>1, <3>2, PlanningFits
  <2>4. Planned(p).retained <= MaxSeeds
    BY <2>2, <2>3, PlannedFits
  <2>5. Batching' /\ pc' \in {"plan", "encode"}
    BY <1>7 DEF Batching
  <2>6. (pc' = "plan" => SeedsFit(plan')) /\ (pc' \in {"encode", "commit"} => plan'.retained <= MaxSeeds)
    BY <1>7, <2>3, <2>4
  <2>7. cancel' \in BOOLEAN /\ (pc' = "end") = (status' # "in-progress")
    BY <1>2, <1>7
  <2> QED
    BY <1>2, <2>5, <2>6, <2>7 DEF Counted
<1> QED
  BY <1>5, <1>6, <1>7 DEF FoldEnds

\* The group that is committed next
LEMMA NextCommitted ==
  ASSUME IInv, pc = "commit", DOMAIN job # {}, NEW e, e = CHOOSE i \in DOMAIN job : \A j \in DOMAIN job : i <= j
  PROVE  PlanDone(plan) /\ e \in 1..Len(plan.groups) /\ UpToGroup(e - 1) /\ job[e].sources = EntriesIn(plan, e)
<1>1. PICK w, to : w = Least(workers, Len(plan.groups)) /\ to = Top(w, Len(plan.groups))
  OBVIOUS
<1>2. PlanDone(plan) /\ next \in 1..Len(plan.groups) /\ \E d : Committing(d, to)
  BY <1>1 DEF IInv, CommitPhase
<1>3. CommitBounds(w, to)
  BY <1>1, <1>2, CommitBoundsHold DEF IInv, InputsTrue
<1>4. PICK d : Committing(d, to)
  BY <1>2
<1>5. /\ d \in (next - 1)..to /\ UpToGroup(d) /\ DOMAIN job = (d + 1)..to
      /\ \A i \in DOMAIN job : job[i].is = "ok" /\ BlocksTrue(i)
  BY <1>4 DEF Committing
<1>6. PICK f : f = d + 1
  OBVIOUS
<1>7. f - 1 = d /\ f \in 1..Len(plan.groups) /\ f \in DOMAIN job /\ \A j \in DOMAIN job : f <= j
  <2>1. PICK D, L : D = DOMAIN job /\ L = Len(plan.groups)
    OBVIOUS
  <2>2. D # {} /\ D = (d + 1)..to
    BY <1>5, <2>1
  <2>3. d \in Nat /\ to \in Nat /\ L \in Nat /\ to <= L
    BY <1>2, <1>3, <1>5, <2>1 DEF CommitBounds
  <2>4. d + 1 <= to
    BY <2>2, <2>3
  <2>5. f - 1 = d /\ f \in 1..L
    BY <1>6, <2>3, <2>4
  <2>6. f \in D /\ \A j \in D : f <= j
    BY <1>6, <2>2, <2>3, <2>4
  <2> QED
    BY <2>1, <2>5, <2>6
<1>8. e = f
  <2>1. \A i \in DOMAIN job : (\A j \in DOMAIN job : i <= j) => i = f
    <3>1. \A i \in DOMAIN job : i \in Int
      BY <1>5
    <3> QED
      BY <1>7, <3>1
  <2> QED
    BY <1>7, <2>1
<1>9. job[f].sources = EntriesIn(plan, f)
  BY <1>5, <1>7 DEF BlocksTrue
<1> QED
  BY <1>2, <1>5, <1>7, <1>8, <1>9

\* When a group is committed in part, the sources listed are still the first ones.
LEMMA PartFits ==
  ASSUME PlanDone(plan), NEW k \in 1..Len(plan.groups), UpToGroup(k - 1), NEW blocks, CommitFails(blocks, EntriesIn(plan, k)),
         ListedFits
  PROVE  ListedFits'
<1>1. CASE UNCHANGED listed
  BY <1>1 DEF ListedFits, FirstSources
<1>2. CASE \E m \in 1..Len(EntriesIn(plan, k)) : listed' = listed \o SubSeq(EntriesIn(plan, k), 1, m)
  <2>1. PICK g, x, y, a, c : /\ g = plan.groups[k] /\ x = listed /\ y = EntriesIn(plan, k) /\ a = Bound(plan, k - 1)
                             /\ c = g.end - g.start
    OBVIOUS
  <2>2. a \in Nat /\ Bound(plan, k) \in 0..N
    BY <2>1, GroupsExtend, TransformAssumption DEF Extends
  <2>3. c \in Nat
    <3>1. GroupTrue(plan.read, g)
      BY <2>1 DEF PlanDone
    <3>2. PICK u, v : u = g.start /\ v = g.end
      OBVIOUS
    <3>3. u \in Nat /\ v \in Nat /\ u < v
      BY <3>1, <3>2 DEF GroupTrue
    <3> QED
      BY <2>1, <3>2, <3>3
  <2>4. x = [i \in 1..a |-> x[i]] /\ y = [i \in 1..c |-> y[i]]
    BY <2>1 DEF UpToGroup, EntriesIn
  <2>5. IsSeq(x) /\ IsSeq(y)
    <3>1. PICK S : S = {x[i] : i \in 1..a} \cup {y[i] : i \in 1..c}
      OBVIOUS
    <3>2. x \in Seq(S)
      BY <2>2, <2>4, <3>1
    <3>3. y \in Seq(S)
      BY <2>3, <2>4, <3>1
    <3> QED
      BY <3>2, <3>3, SeqIs
  <2>6. PICK m \in 1..Len(y) : listed' = x \o SubSeq(y, 1, m)
    BY <1>2, <2>1
  <2>7. m \in 0..Len(y)
    OBVIOUS
  <2>8. Begins(listed', x \o y)
    BY <2>5, <2>6, <2>7, BeginsPart
  <2>9. PICK n, h : n = Bound(plan, k) /\ h = plan.read
    OBVIOUS
  <2>10. x \o y = [i \in 1..n |-> Entry(i, h[i])]
    BY <2>1, <2>9, GroupAdds
  <2>11. FirstSources(x \o y)
    BY <2>2, <2>9, <2>10, FirstListed
  <2> QED
    BY <2>8, <2>11, FirstBegin DEF ListedFits
<1> QED
  BY <1>1, <1>2 DEF CommitFails

\* A batch of groups is joined, committed, or followed by the next.
LEMMA GroupsCounted ==
  ASSUME IInv, Limits, JoinBatch \/ CommitGroup \/ NextBatch \/ StreamGroup
  PROVE  Counted
<1>1. /\ pc \in {"encode", "commit"} /\ UNCHANGED <<inputs, plan, status>> /\ pc' \in {"encode", "commit", "finish"}
      /\ (faults' = faults \/ (faults < MaxFaults /\ faults' = faults + 1))
  BY DEF JoinBatch, CommitGroup, NextBatch, StreamGroup, CommitFails, bulkVars, outVars
<1>2. workers' = workers /\ status' = "in-progress" /\ plan'.retained <= MaxSeeds
  BY <1>1 DEF inputs, Limits, TypeOK, IInv, ControlTrue
<1>3. faults' \in 0..MaxFaults
  BY <1>1, TransformAssumption DEF Limits, TypeOK
<1>4. cancel' \in BOOLEAN
  BY DEF JoinBatch, CommitGroup, NextBatch, StreamGroup, bulkVars, Limits, TypeOK
<1>5. ListedFits
  BY DEF Limits, TypeOK, ListedFits, FirstSources
<1>6. UNCHANGED listed => ListedFits'
  BY <1>5 DEF ListedFits, FirstSources
<1>7. /\ Batching' \/ UNCHANGED <<job, next>>
      /\ Batching' \/ error' = "none" \/ ListedFits'
  <2>1. CASE JoinBatch
    BY <1>6, <2>1 DEF JoinBatch, bulkVars
  <2>2. CASE CommitGroup
    <3>1. PICK e : e = CHOOSE i \in DOMAIN job : \A j \in DOMAIN job : i <= j
      OBVIOUS
    <3>2. pc = "commit" /\ DOMAIN job # {} /\ UNCHANGED next
      BY <2>2 DEF CommitGroup
    <3>3. UNCHANGED pc \/ (CommitFails(job[e].blocks, job[e].sources) /\ UNCHANGED job)
      BY <2>2, <3>1, Zenon DEF CommitGroup
    <3>4. ASSUME CommitFails(job[e].blocks, job[e].sources)  PROVE ListedFits'
      <4>1. PlanDone(plan) /\ e \in 1..Len(plan.groups) /\ UpToGroup(e - 1) /\ job[e].sources = EntriesIn(plan, e)
        BY <3>1, <3>2, NextCommitted
      <4> QED
        BY <1>5, <3>4, <4>1, PartFits
    <3> QED
      BY <3>2, <3>3, <3>4 DEF Batching
  <2>3. CASE NextBatch
    <3>1. UNCHANGED listed /\ ((pc' = "finish" /\ UNCHANGED <<next, job>>) \/ pc' = "encode")
      BY <2>3 DEF NextBatch, outVars
    <3> QED
      BY <1>6, <3>1 DEF Batching
  <2>4. CASE StreamGroup
    <3>1. pc = "encode" /\ Len(plan.groups) = 1 /\ UNCHANGED <<job, next>>
      BY <2>4 DEF StreamGroup, bulkVars
    <3>2. PlanDone(plan) /\ next \in 1..1 /\ UpToGroup(next - 1)
      BY <3>1 DEF IInv, EncodePhase
    <3>3. 1 \in 1..Len(plan.groups) /\ UpToGroup(1 - 1)
      BY <3>1, <3>2
    <3>4. PICK g, s, q, es : /\ g = plan.groups[1] /\ s = Replayed(g) /\ q = BlocksOf(s)
                             /\ es = (IF s.error = "none" THEN EntriesOf(g) ELSE <<>>)
      OBVIOUS
    <3>5. \/ listed' = es /\ error' = s.error
          \/ UNCHANGED listed
          \/ CommitFails(q, es)
      BY <2>4, <3>4, Zenon DEF StreamGroup
    <3>6. CASE s.error # "none"
      <4>1. es = <<>>
        BY <3>4, <3>6
      <4>2. listed' = <<>> \/ UNCHANGED listed
        <5>1. ~(\E m \in 1..Len(es) : TRUE)
          BY <4>1
        <5> QED
          BY <3>5, <4>1, <5>1 DEF CommitFails
      <4>3. FirstSources(<<>>)
        BY TransformAssumption DEF FirstSources
      <4> QED
        BY <1>6, <3>1, <4>2, <4>3 DEF ListedFits
    <3>7. CASE s.error = "none"
      <4>1. es = EntriesIn(plan, 1)
        BY <3>2, <3>3, <3>4, <3>7, ReplayedIs DEF IInv
      <4>2. CommitFails(q, es) => ListedFits'
        BY <1>5, <3>2, <3>3, <4>1, PartFits
      <4> QED
        BY <1>6, <3>1, <3>5, <3>7, <4>2
    <3> QED
      BY <3>6, <3>7
  <2> QED
    BY <2>1, <2>2, <2>3, <2>4
<1> QED
  BY <1>1, <1>2, <1>3, <1>4, <1>7 DEF Counted

\* The transform ends, a file is cut short, or nothing happens.
LEMMA RestCounted ==
  ASSUME IInv, Limits, \/ OpenFails \/ FinishFails \/ FinishArchive \/ Publish
                       \/ (\E i \in Files : Change(i))
                       \/ Done \/ UNCHANGED vars
  PROVE  Counted
<1>1. UNCHANGED <<next, job, cancel, plan, listed>> /\ workers' = workers
  BY DEF OpenFails, FinishFails, FinishArchive, Publish, Change, Done, vars, inputs, bulkVars, outVars
<1>2. (faults' = faults \/ (faults < MaxFaults /\ faults' = faults + 1))
  BY DEF OpenFails, FinishFails, FinishArchive, Publish, Change, Done, vars
<1>3. faults' \in 0..MaxFaults
  BY <1>2, TransformAssumption DEF Limits, TypeOK
<1>4. /\ pc' \in {pc, "publish", "end"}
      /\ (pc' = "end") = (status' # "in-progress")
  <2>1. CASE OpenFails \/ FinishFails \/ FinishArchive
    BY <2>1 DEF OpenFails, FinishFails, FinishArchive, outVars, IInv, ControlTrue
  <2>2. CASE Publish
    BY <2>2 DEF Publish
  <2>3. CASE (\E i \in Files : Change(i)) \/ Done \/ UNCHANGED vars
    <3>1. UNCHANGED <<pc, status>>
      BY <2>3 DEF Change, Done, vars, outVars
    <3> QED
      BY <3>1 DEF Limits, TypeOK
  <2> QED
    BY <2>1, <2>2, <2>3
<1>5. cancel' \in BOOLEAN /\ (pc' = "plan" => SeedsFit(plan')) /\ (pc' \in {"encode", "commit"} => plan'.retained <= MaxSeeds)
  BY <1>1, <1>4 DEF Limits, TypeOK
<1>6. pc' \in {"serial", "rows", "confirm", "plan", "encode", "commit", "finish", "publish", "end"}
  BY <1>4 DEF Limits, TypeOK
<1>7. ListedFits'
  BY <1>1 DEF Limits, TypeOK, ListedFits, FirstSources
<1> QED
  BY <1>1, <1>3, <1>4, <1>5, <1>6, <1>7 DEF Counted

\* The limits hold initially.
LEMMA InitFits ==
  ASSUME Init
  PROVE  Limits
<1>1. N \in Nat \ {0} /\ MaxFaults \in Nat /\ MaxSeeds \in Nat
  BY TransformAssumption
<1>2. /\ pc \in {"plan", "serial"} /\ next = 1 /\ cancel = FALSE /\ plan = NoPlan /\ faults = 0
      /\ listed = <<>> /\ status = "in-progress" /\ DOMAIN job = 1..Least(workers, N)
  BY DEF Init
<1>3. DOMAIN job \subseteq 1..N /\ Cardinality(DOMAIN job) <= workers
  <2>1. workers \in Nat \ {0}
    BY TransformAssumption DEF Init
  <2>2. Least(workers, N) \in 0..N /\ Least(workers, N) <= 1 + workers - 1
    BY <1>1, <2>1, LeastIs
  <2> QED
    BY <1>2, <2>1, <2>2, RowOfJobs
<1>4. SeedsFit(plan)
  <2>1. plan.global = Nothing /\ plan.retained = 0 /\ plan.group = None
    BY <1>2 DEF NoPlan
  <2> QED
    BY <1>1, <2>1, BlankIs, FS_EmptySet DEF SeedsFit
<1>5. Len(listed) <= N /\ \A k \in 1..Len(listed) : listed[k].source = k
  BY <1>1, <1>2
<1>6. next \in 1..(N + 1) /\ cancel \in BOOLEAN /\ faults \in 0..MaxFaults
  <2>1. next = 1 /\ faults = 0
    BY <1>2
  <2>2. cancel = FALSE
    BY <1>2
  <2>3. next \in 1..(N + 1) /\ faults \in 0..MaxFaults
    BY <1>1, <2>1
  <2> QED
    BY <2>2, <2>3
<1>7. pc # "end" /\ status = "in-progress"
  BY <1>2
<1> QED
  BY <1>2, <1>3, <1>4, <1>5, <1>6, <1>7 DEF Limits, TypeOK

\* Every step keeps the limits.
LEMMA LimitsKept ==
  ASSUME IInv, Limits, Sized', [Next]_vars
  PROVE  Limits'
<1>1. HashSource \/ ReadRows \/ ConfirmSource \/ AppendTail \/ TailFails \/ SerialDone => Counted
  BY SerialCounted
<1>2. (\E i \in DOMAIN job : Work(i) \/ SpawnFails(i)) => Counted
  BY WorkersCounted
<1>3. FoldBatch => Counted
  BY FoldBatchCounted
<1>4. JoinBatch \/ CommitGroup \/ NextBatch \/ StreamGroup => Counted
  BY GroupsCounted
<1>5. OpenFails \/ FinishFails \/ FinishArchive \/ Publish \/ (\E i \in Files : Change(i)) \/ Done \/ UNCHANGED vars => Counted
  BY RestCounted
<1>6. Counted
  BY <1>1, <1>2, <1>3, <1>4, <1>5 DEF Next
<1> QED
  BY <1>6, CountedFits DEF Limits

\* There are never more jobs than workers, nor more seeds kept for pass two than the limit, however
\* many processes the sources name; and the sources listed are always the first ones, each once.
THEOREM AlwaysWithinLimits == Spec => []TypeOK
<1>1. Init => Limits
  BY InitFits
<1>2. IInv => Sized
  BY SizesFit
<1>3. IInv /\ Limits /\ Sized' /\ [Next]_vars => Limits'
  BY LimitsKept
<1>4. Limits => TypeOK
  BY DEF Limits
<1> QED
  BY <1>1, <1>2, <1>3, <1>4, AlwaysPlanned, PTL DEF Spec

=============================================================================
