--------------------------- MODULE TraceSessionProofs ---------------------------
(***************************************************************************)
(* Safety of a trace session for any number of threads, spans and causes.  *)
(*                                                                         *)
(* The inductive invariant says which calls exclude each other (Exclusive) *)
(* and that a child is told, or met its parent's finish, before the parent *)
(* can go (Nested).                                                        *)
(***************************************************************************)
EXTENDS TraceSession, SequenceTheorems, WellFoundedInduction, TLAPS

\* What each thread's call says of its span: the one that registers it has it to
\* itself, and the one that removed it is the one that tells it.
Busy(t) ==
  /\ call[t].at = "idle" => call[t] = Idle
  /\ call[t].at # "idle" => call[t].span \in 1 .. spans
  /\ call[t].at = "register" =>
       /\ call[t].list = <<>>
       /\ call[t].span \notin active \cup ended \cup ToSet(told)
       /\ \A u \in Thread \ {t} : call[u].span # call[t].span
  /\ call[t].at = "build" => call[t].list \in CauseLists
  /\ call[t].at = "emit" =>
       /\ call[t].span \notin active \cup ToSet(told)
       /\ \A u \in Thread \ {t} : call[u].at = "emit" => call[u].span # call[t].span
  /\ call[t].at = "end" => call[t].span \in ToSet(told)

Exclusive == \A t \in Thread : Busy(t)

Gone == ToSet(told) \subseteq (1 .. spans) \ active

\* A child of a span that somebody finishes, or that is gone, is told, or two threads
\* worked on the two at the same time.
Nested ==
  \A c \in 1 .. spans, p \in Span :
    parent[c] = p =>
      \/ <<c, p>> \in overlap
      \/ c \in ToSet(told)
      \/ p \in active /\ \A t \in Thread : call[t].span # p

\* A span that is not active is told, or somebody registers it or is about to tell it.
Settled ==
  /\ IsInjective(told)
  /\ \A s \in (1 .. spans) \ active :
       \/ s \in ToSet(told)
       \/ \E t \in Thread : call[t].span = s /\ call[t].at \in {"register", "emit"}

IInv == /\ TypeOK /\ Exclusive /\ Gone /\ Nested /\ Settled
        /\ CausesAreKept /\ ReceiverIsHarmless

-----------------------------------------------------------------------------
(***************************************************************************)
(* Induction without an operator parameter: the least number principle     *)
(* follows from the well-foundedness of < for sets.                        *)
(***************************************************************************)
Before == {ss \in Nat \X Nat : ss[1] < ss[2]}

LEMMA Least ==
  ASSUME NEW T \in SUBSET Nat, T # {}
  PROVE  \E m \in T : \A k \in T : m <= k
<1>1. IsWellFoundedOn(Before, Nat)
  BY NatLessThanWellFounded DEF OpToRel, Before
<1>2. PICK m \in T : \A k \in T : ~ (<<k, m>> \in Before)
  BY <1>1, WFMin
<1>3. \A k \in T : ~ (k < m)
  BY <1>2 DEF Before
<1>4. QED
  BY <1>3

LEMMA Induction ==
  ASSUME NEW T, 0 \in T, \A n \in Nat : n \in T => n + 1 \in T
  PROVE  \A n \in Nat : n \in T
<1> SUFFICES ASSUME NEW n \in Nat, n \notin T PROVE FALSE
  OBVIOUS
<1> DEFINE U == {k \in Nat : k \notin T}
<1>1. U \in SUBSET Nat /\ U # {}
  OBVIOUS
<1>2. PICK m \in U : \A k \in U : m <= k
  BY <1>1, Least
<1>3. m # 0 /\ m - 1 \in Nat /\ m - 1 \in T
  BY <1>2
<1>4. m - 1 + 1 = m
  BY <1>2
<1>5. QED
  BY <1>2, <1>3, <1>4

-----------------------------------------------------------------------------
(***************************************************************************)
(* Folds of a step over a list.                                            *)
(***************************************************************************)
Fold(g, step, b, l, S) ==
  /\ g \in [0 .. Len(l) -> S] /\ g[0] = b
  /\ \A i \in 1 .. Len(l) : g[i] = step[<<g[i - 1], l[i]>>]

LEMMA FoldExists ==
  ASSUME NEW S, NEW T, NEW step \in [S \X T -> S], NEW b \in S, NEW l \in Seq(T)
  PROVE  \E g : Fold(g, step, b, l, S)
<1> DEFINE Upto(n, g) == /\ g \in [0 .. n -> S] /\ g[0] = b
                         /\ \A i \in 1 .. n : g[i] = step[<<g[i - 1], l[i]>>]
           U == {n \in Nat : n <= Len(l) => \E g : Upto(n, g)}
<1>1. 0 \in U
  <2>1. Upto(0, [i \in 0 .. 0 |-> b])
    OBVIOUS
  <2>2. QED
    BY <2>1
<1>2. ASSUME NEW n \in Nat, n \in U PROVE n + 1 \in U
  <2> SUFFICES ASSUME n + 1 <= Len(l) PROVE \E g : Upto(n + 1, g)
    OBVIOUS
  <2>1. n <= Len(l) /\ l[n + 1] \in T
    OBVIOUS
  <2>2. PICK g : Upto(n, g)
    BY <1>2, <2>1
  <2>3. step[<<g[n], l[n + 1]>>] \in S
    BY <2>1, <2>2
  <2> DEFINE h == [i \in 0 .. n + 1 |-> IF i <= n THEN g[i] ELSE step[<<g[n], l[n + 1]>>]]
  <2>4. h \in [0 .. n + 1 -> S] /\ h[0] = b
    BY <2>2, <2>3
  <2>5. ASSUME NEW i \in 1 .. n + 1 PROVE h[i] = step[<<h[i - 1], l[i]>>]
    <3>1. CASE i <= n
      BY <2>2, <3>1
    <3>2. CASE i = n + 1
      <4>1. h[n + 1] = step[<<g[n], l[n + 1]>>] /\ h[n] = g[n]
        OBVIOUS
      <4>2. i - 1 = n
        BY <3>2
      <4>3. QED
        BY <3>2, <4>1, <4>2
    <3>3. QED
      BY <3>1, <3>2
  <2>6. QED
    BY <2>4, <2>5
<1>3. Len(l) \in Nat
  OBVIOUS
<1> HIDE DEF U
<1>4. Len(l) \in U
  BY <1>1, <1>2, <1>3, Induction
<1>5. PICK g : Upto(Len(l), g)
  BY <1>3, <1>4 DEF U
<1>6. QED
  BY <1>5 DEF Fold

\* g agrees with what h is from d on, as far as n.
Agree(g, h, d, n) == \A i \in 0 .. n : h[d + i] = g[i]

\* Where two folds meet, and as long as their lists agree from there, they agree.
LEMMA FoldsAgree ==
  ASSUME NEW S, NEW T, NEW step \in [S \X T -> S], NEW l \in Seq(T), NEW m \in Seq(T),
         NEW b, NEW c, NEW g, NEW h, NEW d \in Nat,
         Fold(g, step, b, l, S), Fold(h, step, c, m, S),
         NEW n \in Nat, n <= Len(l), d + n <= Len(m),
         h[d] = b, \A i \in 1 .. n : m[d + i] = l[i]
  PROVE  Agree(g, h, d, n)
<1> DEFINE U == {i \in Nat : i <= n => h[d + i] = g[i]}
<1>1. 0 \in U
  BY DEF Fold
<1>2. ASSUME NEW i \in Nat, i \in U PROVE i + 1 \in U
  <2> SUFFICES ASSUME i + 1 <= n PROVE h[d + (i + 1)] = g[i + 1]
    OBVIOUS
  <2>1. h[d + i] = g[i] /\ i + 1 \in 1 .. Len(l) /\ d + (i + 1) \in 1 .. Len(m)
    BY <1>2
  <2>2. g[i + 1] = step[<<g[i], l[i + 1]>>]
    BY <2>1 DEF Fold
  <2>3. h[d + (i + 1)] = step[<<h[d + i], m[d + (i + 1)]>>]
    <3>1. d + (i + 1) - 1 = d + i
      OBVIOUS
    <3>2. QED
      BY <2>1, <3>1 DEF Fold
  <2>4. m[d + (i + 1)] = l[i + 1]
    BY <2>1
  <2>5. QED
    BY <2>1, <2>2, <2>3, <2>4
<1> HIDE DEF U
<1>3. \A i \in Nat : i \in U
  BY <1>1, <1>2, Induction
<1>4. QED
  BY <1>3 DEF U, Agree

\* A new element behind a list without duplicates.
LEMMA AppendOnce ==
  ASSUME NEW S, NEW q \in Seq(S), NEW x \in S, x \notin ToSet(q), IsInjective(q)
  PROVE  /\ Append(q, x) \in Seq(S) /\ Len(Append(q, x)) = Len(q) + 1
         /\ ToSet(Append(q, x)) = ToSet(q) \cup {x}
         /\ IsInjective(Append(q, x))
<1> DEFINE n == Len(q)
           m == Append(q, x)
<1>1. /\ n \in Nat /\ m \in Seq(S) /\ Len(m) = n + 1 /\ m[n + 1] = x
      /\ DOMAIN m = 1 .. n + 1 /\ DOMAIN q = 1 .. n
      /\ \A i \in 1 .. n : m[i] = q[i]
  OBVIOUS
<1>2. \A i \in 1 .. n + 1 : i \in 1 .. n \/ i = n + 1
  BY <1>1
<1>3. 1 .. n \subseteq 1 .. n + 1 /\ n + 1 \in 1 .. n + 1
  BY <1>1
<1> HIDE DEF m, n
<1>4. ToSet(m) = ToSet(q) \cup {x}
  BY <1>1, <1>2, <1>3 DEF ToSet
<1>5. \A i \in 1 .. n : q[i] # x
  BY <1>1 DEF ToSet
<1>6. IsInjective(m)
  BY <1>1, <1>2, <1>5 DEF IsInjective
<1>7. QED
  BY <1>1, <1>4, <1>6 DEF m, n

-----------------------------------------------------------------------------
(***************************************************************************)
(* Merge and FlattenSeq as folds.                                          *)
(***************************************************************************)
CauseSeq == Seq(Cause)

MergeStep == [p \in CauseSeq \X Cause |-> Meet(p[1], p[2])]

LEMMA MergeStepType ==
  /\ MergeStep \in [CauseSeq \X Cause -> CauseSeq]
  /\ \A s \in CauseSeq, x \in Cause : MergeStep[<<s, x>>] = Meet(s, x)
<1>1. \A s \in CauseSeq, x \in Cause : Meet(s, x) \in CauseSeq
  BY DEF CauseSeq, Meet
<1>2. QED
  BY <1>1 DEF MergeStep

Merging(known, list, f) ==
  f = [i \in 0 .. Len(list) |-> IF i = 0 THEN known ELSE Meet(f[i - 1], list[i])]

Merged(known, list) == CHOOSE f : Merging(known, list, f)

LEMMA MergeIsMerged ==
  ASSUME NEW known, NEW list PROVE Merge(known, list) = Merged(known, list)[Len(list)]
BY DEF Merge, Merged, Merging

LEMMA MergeFolds ==
  ASSUME NEW known \in CauseSeq, NEW list \in CauseSeq
  PROVE  /\ Fold(Merged(known, list), MergeStep, known, list, CauseSeq)
         /\ Merge(known, list) = Merged(known, list)[Len(list)]
         /\ Merge(known, list) \in CauseSeq
<1> DEFINE n == Len(list)
<1>1. n \in Nat /\ list \in [1 .. n -> Cause]
  BY DEF CauseSeq
<1>2. PICK g : Fold(g, MergeStep, known, list, CauseSeq)
  BY MergeStepType, FoldExists DEF CauseSeq
<1> HIDE DEF n
<1>3. g \in [0 .. n -> CauseSeq] /\ g[0] = known
      /\ \A i \in 1 .. n : g[i] = Meet(g[i - 1], list[i])
  <2>1. g \in [0 .. n -> CauseSeq] /\ g[0] = known
        /\ \A i \in 1 .. n : g[i] = MergeStep[<<g[i - 1], list[i]>>]
    BY <1>2 DEF Fold, n
  <2>2. \A i \in 1 .. n : g[i - 1] \in CauseSeq /\ list[i] \in Cause
    BY <1>1, <2>1
  <2>3. QED
    BY <2>1, <2>2, MergeStepType
<1>4. Merging(known, list, g)
  <2>1. \A i \in 0 .. n : g[i] = IF i = 0 THEN known ELSE Meet(g[i - 1], list[i])
    BY <1>1, <1>3
  <2>2. QED
    BY <1>3, <2>1 DEF Merging, n
<1>5. Merging(known, list, Merged(known, list))
  BY <1>4 DEF Merged
<1> DEFINE f == Merged(known, list)
<1> HIDE DEF f
<1>6. f = [i \in 0 .. n |-> f[i]] /\ f[0] = known
      /\ \A i \in 1 .. n : f[i] = Meet(f[i - 1], list[i])
  <2>1. f = [i \in 0 .. n |-> IF i = 0 THEN known ELSE Meet(f[i - 1], list[i])]
    BY <1>5 DEF Merging, n, f
  <2>2. \A i \in 0 .. n : f[i] = IF i = 0 THEN known ELSE Meet(f[i - 1], list[i])
    BY <2>1
  <2>3. f[0] = known /\ \A i \in 1 .. n : f[i] = Meet(f[i - 1], list[i])
    BY <1>1, <2>2
  <2>4. f = [i \in 0 .. n |-> f[i]]
    BY <2>1
  <2>5. QED
    BY <2>3, <2>4
<1> DEFINE U == {i \in Nat : i <= n => f[i] = g[i]}
<1>7. 0 \in U
  BY <1>3, <1>6
<1>8. ASSUME NEW i \in Nat, i \in U PROVE i + 1 \in U
  <2> SUFFICES ASSUME i + 1 <= n PROVE f[i + 1] = g[i + 1]
    OBVIOUS
  <2>1. i + 1 \in 1 .. n /\ i + 1 - 1 = i /\ f[i] = g[i]
    BY <1>1, <1>8
  <2>2. \A k \in 1 .. n : f[k - 1] = g[k - 1] => f[k] = g[k]
    BY <1>3, <1>6
  <2>3. QED
    BY <2>1, <2>2
<1> HIDE DEF U
<1>9. \A i \in Nat : i \in U
  BY <1>7, <1>8, Induction
<1>10. \A i \in 0 .. n : f[i] = g[i]
  BY <1>1, <1>9 DEF U
<1>11. f = g
  BY <1>3, <1>6, <1>10
<1>12. g[n] \in CauseSeq
  BY <1>1, <1>3
<1>13. QED
  BY <1>2, <1>11, <1>12, MergeIsMerged DEF f, n

\* Merging a list behind another is merging the one and then the other.
LEMMA MergeConcat ==
  ASSUME NEW known \in CauseSeq, NEW a \in CauseSeq, NEW z \in CauseSeq
  PROVE  Merge(known, a \o z) = Merge(Merge(known, a), z)
<1> DEFINE w == a \o z
           k == Merge(known, a)
<1>1. /\ w \in CauseSeq /\ Len(w) = Len(a) + Len(z) /\ Len(a) \in Nat /\ Len(z) \in Nat
      /\ \A i \in 1 .. Len(a) : w[i] = a[i]
      /\ \A i \in 1 .. Len(z) : w[Len(a) + i] = z[i]
  BY ConcatProperties DEF CauseSeq
<1> HIDE DEF w
<1>2. /\ Fold(Merged(known, a), MergeStep, known, a, CauseSeq)
      /\ k = Merged(known, a)[Len(a)] /\ k \in CauseSeq
  BY MergeFolds
<1> HIDE DEF k
<1>3. Fold(Merged(known, w), MergeStep, known, w, CauseSeq)
      /\ Merge(known, w) = Merged(known, w)[Len(w)]
  BY <1>1, MergeFolds
<1>4. Fold(Merged(k, z), MergeStep, k, z, CauseSeq)
      /\ Merge(k, z) = Merged(k, z)[Len(z)]
  BY <1>2, MergeFolds
<1>5. Agree(Merged(known, a), Merged(known, w), 0, Len(a))
  <2>1. Merged(known, w)[0] = known
    BY <1>3 DEF Fold
  <2>2. \A i \in 1 .. Len(a) : w[0 + i] = a[i]
    BY <1>1
  <2>3. Len(a) <= Len(a) /\ 0 + Len(a) <= Len(w)
    BY <1>1
  <2>4. a \in Seq(Cause) /\ w \in Seq(Cause) /\ 0 \in Nat
    BY <1>1 DEF CauseSeq
  <2>5. QED
    BY <1>1, <1>2, <1>3, <2>1, <2>2, <2>3, <2>4, MergeStepType, FoldsAgree
<1>6. Merged(known, w)[Len(a)] = k
  BY <1>1, <1>2, <1>5 DEF Agree
<1>7. Agree(Merged(k, z), Merged(known, w), Len(a), Len(z))
  <2>1. Len(z) <= Len(z) /\ Len(a) + Len(z) <= Len(w)
    BY <1>1
  <2>2. z \in Seq(Cause) /\ w \in Seq(Cause) /\ Len(a) \in Nat /\ Len(z) \in Nat
    BY <1>1 DEF CauseSeq
  <2>3. \A i \in 1 .. Len(z) : w[Len(a) + i] = z[i]
    BY <1>1
  <2>4. MergeStep \in [CauseSeq \X Cause -> CauseSeq]
    BY MergeStepType
  <2>5. QED
    BY <1>3, <1>4, <1>6, <2>1, <2>2, <2>3, <2>4, FoldsAgree
<1>8. Merged(known, w)[Len(w)] = Merged(k, z)[Len(z)]
  BY <1>1, <1>7 DEF Agree
<1>9. QED
  BY <1>3, <1>4, <1>8 DEF w, k

\* The merge has each of its values once, and all of both lists.
LEMMA MergeOnce ==
  ASSUME NEW known \in CauseSeq, NEW list \in CauseSeq, IsInjective(known)
  PROVE  /\ IsInjective(Merge(known, list))
         /\ ToSet(Merge(known, list)) = ToSet(known) \cup ToSet(list)
<1> DEFINE n == Len(list)
           g == Merged(known, list)
           To(i) == {list[j] : j \in 1 .. i}
           U == {i \in Nat : i <= n =>
                   IsInjective(g[i]) /\ ToSet(g[i]) = ToSet(known) \cup To(i)}
<1>1. n \in Nat /\ list \in [1 .. n -> Cause]
  BY DEF CauseSeq
<1>2. Fold(g, MergeStep, known, list, CauseSeq) /\ Merge(known, list) = g[n]
  BY MergeFolds
<1> HIDE DEF g
<1>3. /\ g \in [0 .. n -> CauseSeq] /\ g[0] = known
      /\ \A i \in 1 .. n : g[i] = MergeStep[<<g[i - 1], list[i]>>]
  BY <1>2 DEF Fold
<1> HIDE DEF n
<1>4. 0 \in U
  <2>1. To(0) = {}
    OBVIOUS
  <2>2. QED
    BY <1>3, <2>1
<1>5. ASSUME NEW i \in Nat, i \in U PROVE i + 1 \in U
  <2> SUFFICES ASSUME i + 1 <= n
               PROVE  IsInjective(g[i + 1]) /\ ToSet(g[i + 1]) = ToSet(known) \cup To(i + 1)
    OBVIOUS
  <2> DEFINE s == g[i]
             x == list[i + 1]
  <2>1. s \in CauseSeq /\ x \in Cause /\ IsInjective(s) /\ ToSet(s) = ToSet(known) \cup To(i)
    BY <1>1, <1>3, <1>5
  <2>2. g[i + 1] = MergeStep[<<s, x>>]
    <3>1. i + 1 \in 1 .. n /\ i + 1 - 1 = i
      BY <1>1
    <3>2. QED
      BY <1>3, <3>1
  <2>3. To(i + 1) = To(i) \cup {x}
    <3>1. \A j : j \in 1 .. i + 1 <=> j \in 1 .. i \/ j = i + 1
      OBVIOUS
    <3>2. QED
      BY <3>1
  <2> HIDE DEF s, x, To
  <2>4. g[i + 1] = Meet(s, x)
    BY <2>1, <2>2, MergeStepType
  <2>5. IsInjective(Meet(s, x)) /\ ToSet(Meet(s, x)) = ToSet(s) \cup {x}
    BY <2>1, AppendOnce DEF Meet, CauseSeq
  <2>6. QED
    BY <2>1, <2>3, <2>4, <2>5
<1> HIDE DEF U
<1>6. \A i \in Nat : i \in U
  BY <1>4, <1>5, Induction
<1>7. IsInjective(g[n]) /\ ToSet(g[n]) = ToSet(known) \cup To(n)
  BY <1>1, <1>6 DEF U
<1>8. To(n) = ToSet(list)
  BY <1>1 DEF ToSet
<1>9. QED
  BY <1>2, <1>7, <1>8

CatStep == [p \in CauseSeq \X CauseSeq |-> p[1] \o p[2]]

LEMMA CatStepType ==
  /\ CatStep \in [CauseSeq \X CauseSeq -> CauseSeq]
  /\ \A s \in CauseSeq, x \in CauseSeq : CatStep[<<s, x>>] = s \o x
<1>1. \A s \in CauseSeq, x \in CauseSeq : s \o x \in CauseSeq
  BY ConcatProperties DEF CauseSeq
<1>2. QED
  BY <1>1 DEF CatStep

Flattening(lists, f) ==
  f = [i \in 1 .. Len(lists) |-> IF i = 1 THEN lists[i] ELSE f[i - 1] \o lists[i]]

Flattened(lists) == CHOOSE f : Flattening(lists, f)

LEMMA FlattenIsFlattened ==
  ASSUME NEW lists
  PROVE  FlattenSeq(lists) = IF Len(lists) = 0 THEN lists ELSE Flattened(lists)[Len(lists)]
BY DEF FlattenSeq, Flattened, Flattening

LEMMA FlattenFolds ==
  ASSUME NEW lists \in Seq(CauseSeq)
  PROVE  /\ FlattenSeq(lists) \in CauseSeq
         /\ \E g : Fold(g, CatStep, <<>>, lists, CauseSeq)
                   /\ FlattenSeq(lists) = g[Len(lists)]
<1> DEFINE n == Len(lists)
<1>1. n \in Nat /\ lists \in [1 .. n -> CauseSeq]
  OBVIOUS
<1>2. PICK g : Fold(g, CatStep, <<>>, lists, CauseSeq)
  <2>1. <<>> \in CauseSeq
    BY DEF CauseSeq
  <2>2. QED
    BY <2>1, CatStepType, FoldExists
<1> HIDE DEF n
<1>3. g \in [0 .. n -> CauseSeq] /\ g[0] = <<>>
      /\ \A i \in 1 .. n : g[i] = g[i - 1] \o lists[i]
  <2>1. g \in [0 .. n -> CauseSeq] /\ g[0] = <<>>
        /\ \A i \in 1 .. n : g[i] = CatStep[<<g[i - 1], lists[i]>>]
    BY <1>2 DEF Fold, n
  <2>2. \A i \in 1 .. n : g[i - 1] \in CauseSeq /\ lists[i] \in CauseSeq
    BY <1>1, <2>1
  <2>3. QED
    BY <2>1, <2>2, CatStepType
<1>4. CASE n = 0
  <2>1. FlattenSeq(lists) = lists /\ lists = <<>>
    BY <1>1, <1>4, FlattenIsFlattened DEF n
  <2>2. QED
    BY <1>2, <1>3, <1>4, <2>1 DEF CauseSeq, n
<1>5. CASE n # 0
  <2> DEFINE h == [i \in 1 .. n |-> g[i]]
             f == Flattened(lists)
  <2>1. \A i \in 1 .. n : h[i] = IF i = 1 THEN lists[i] ELSE h[i - 1] \o lists[i]
    <3>1. ASSUME NEW i \in 1 .. n, i = 1 PROVE g[i] = lists[i]
      <4>1. lists[i] \in Seq(Cause) /\ g[i] = <<>> \o lists[i]
        <5>1. lists[i] \in CauseSeq /\ g[i] = g[i - 1] \o lists[i] /\ i - 1 = 0
          BY <1>1, <1>3, <3>1
        <5>2. QED
          BY <1>3, <5>1 DEF CauseSeq
      <4>2. QED
        BY <4>1, ConcatEmptySeq
    <3>2. ASSUME NEW i \in 1 .. n, i # 1 PROVE g[i] = g[i - 1] \o lists[i] /\ i - 1 \in 1 .. n
      BY <1>1, <1>3, <3>2
    <3>3. QED
      BY <3>1, <3>2
  <2>2. Flattening(lists, h)
    BY <2>1 DEF Flattening, n
  <2>3. Flattening(lists, f)
    BY <2>2 DEF Flattened
  <2> HIDE DEF f
  <2>4. f = [i \in 1 .. n |-> IF i = 1 THEN lists[i] ELSE f[i - 1] \o lists[i]]
    BY <2>3 DEF Flattening, n
  <2>5. \A i \in 1 .. n : f[i] = IF i = 1 THEN lists[i] ELSE f[i - 1] \o lists[i]
    BY <2>4
  <2> DEFINE U == {i \in Nat : i \in 1 .. n => f[i] = h[i]}
  <2> HIDE DEF h
  <2>6. 0 \in U
    OBVIOUS
  <2>7. ASSUME NEW i \in Nat, i \in U PROVE i + 1 \in U
    <3> SUFFICES ASSUME i + 1 \in 1 .. n PROVE f[i + 1] = h[i + 1]
      OBVIOUS
    <3>1. \A k \in 1 .. n : k = 1 \/ f[k - 1] = h[k - 1] => f[k] = h[k]
      BY <2>1, <2>5
    <3>2. i = 0 \/ (f[i] = h[i] /\ i + 1 - 1 = i)
      BY <1>1, <2>7
    <3>3. QED
      BY <3>1, <3>2
  <2> HIDE DEF U
  <2>8. \A i \in Nat : i \in U
    BY <2>6, <2>7, Induction
  <2>9. n \in 1 .. n
    BY <1>1, <1>5
  <2>10. f[n] = h[n]
    BY <1>1, <2>8, <2>9 DEF U
  <2>11. h[n] = g[n] /\ g[n] \in CauseSeq
    BY <1>1, <1>3, <1>5 DEF h
  <2>12. FlattenSeq(lists) = f[n]
    BY <1>5, FlattenIsFlattened DEF f, n
  <2>13. QED
    BY <1>2, <2>10, <2>11, <2>12 DEF n
<1>6. QED
  BY <1>4, <1>5

LEMMA FlattenAppend ==
  ASSUME NEW lists \in Seq(CauseSeq), NEW z \in CauseSeq
  PROVE  /\ FlattenSeq(lists) \in CauseSeq
         /\ FlattenSeq(Append(lists, z)) = FlattenSeq(lists) \o z
<1> DEFINE m == Append(lists, z)
<1>1. /\ m \in Seq(CauseSeq) /\ Len(m) = Len(lists) + 1 /\ Len(lists) \in Nat
      /\ m[Len(lists) + 1] = z
      /\ \A i \in 1 .. Len(lists) : m[i] = lists[i]
  OBVIOUS
<1> HIDE DEF m
<1>2. PICK g : Fold(g, CatStep, <<>>, lists, CauseSeq) /\ FlattenSeq(lists) = g[Len(lists)]
  BY FlattenFolds
<1>3. PICK h : Fold(h, CatStep, <<>>, m, CauseSeq) /\ FlattenSeq(m) = h[Len(m)]
  BY <1>1, FlattenFolds
<1>4. Agree(g, h, 0, Len(lists))
  <2>1. h[0] = <<>> /\ 0 \in Nat
    BY <1>3 DEF Fold
  <2>2. \A i \in 1 .. Len(lists) : m[0 + i] = lists[i]
    BY <1>1
  <2>3. /\ Len(lists) <= Len(lists) /\ 0 + Len(lists) <= Len(m)
        /\ Len(lists) \in Nat /\ m \in Seq(CauseSeq)
    BY <1>1
  <2>4. CatStep \in [CauseSeq \X CauseSeq -> CauseSeq]
    BY CatStepType
  <2>5. QED
    BY <1>2, <1>3, <2>1, <2>2, <2>3, <2>4, FoldsAgree
<1>5. h[Len(lists)] = g[Len(lists)]
  BY <1>1, <1>4 DEF Agree
<1>6. /\ h[Len(lists)] \in CauseSeq
      /\ h[Len(lists) + 1] = CatStep[<<h[Len(lists)], m[Len(lists) + 1]>>]
  <2>1. \A i \in 1 .. Len(m) : h[i] = CatStep[<<h[i - 1], m[i]>>]
    BY <1>3 DEF Fold
  <2>2. Len(lists) + 1 \in 1 .. Len(m) /\ Len(lists) + 1 - 1 = Len(lists)
    BY <1>1
  <2>3. h \in [0 .. Len(m) -> CauseSeq] /\ Len(lists) \in 0 .. Len(m)
    BY <1>1, <1>3 DEF Fold
  <2>4. QED
    BY <2>1, <2>2, <2>3
<1>7. h[Len(lists) + 1] = h[Len(lists)] \o z
  BY <1>1, <1>6, CatStepType
<1>8. FlattenSeq(lists) \in CauseSeq
  BY FlattenFolds
<1>9. QED
  BY <1>1, <1>2, <1>3, <1>5, <1>7, <1>8 DEF m

-----------------------------------------------------------------------------
(***************************************************************************)
(* The sink, the spans told and the handles.                               *)
(***************************************************************************)
LEMMA EmissionsAreHarmless ==
  ASSUME NEW answer \in Emissions(tracing), ~tracing
  PROVE  answer \in ExportErrors \cup {"accepted"}
<1>1. PICK fits \in BOOLEAN, reply \in Reply, parses \in BOOLEAN :
        answer = EmitSpan(tracing, fits, reply, parses)
  BY DEF Emissions
<1>2. Read(reply) \in {"unavailable", "response_error", "read"}
  BY DEF Read
<1>3. Posted(reply, parses) \in {"unavailable", "response_error", "accepted"}
  BY <1>2 DEF Posted
<1>4. QED
  BY <1>1, <1>3 DEF EmitSpan, ExportErrors

LEMMA IdleFields ==
  Idle.at = "idle" /\ Idle.span = None /\ Idle.list = <<>> /\ None \notin Span
  /\ MaxSpans \in Nat
BY TraceAssumption DEF Idle, Span

-----------------------------------------------------------------------------
LEMMA InitInvariant == Init => IInv
<1> SUFFICES ASSUME Init PROVE IInv
  OBVIOUS
<1>1. ToSet(<<>>) = {} /\ IsInjective(<<>>) /\ Len(<<>>) = 0
  BY DEF ToSet, IsInjective
<1>2. Idle \in [at : {"idle", "register", "build", "emit", "end"},
                span : Span \cup {None}, list : CauseLists \cup {<<>>}]
  BY DEF Idle
<1>3. 1 .. spans = {} /\ 0 \in 0 .. MaxSpans
  BY TraceAssumption DEF Init
<1>4. TypeOK
  <2>1. /\ parent \in [Span -> Span \cup {None}] /\ failures \in 0 .. Len(told)
        /\ spans \in 0 .. MaxSpans
        /\ causes \in Seq(Cause) /\ removed \in Seq(CauseLists) /\ told \in Seq(Span)
    BY <1>1, <1>3 DEF Init
  <2>2. call \in [Thread -> [at : {"idle", "register", "build", "emit", "end"},
                             span : Span \cup {None}, list : CauseLists \cup {<<>>}]]
    BY <1>2 DEF Init
  <2>3. QED
    BY <2>1, <2>2 DEF Init, TypeOK
<1>5. Exclusive
  BY IdleFields DEF Init, Exclusive, Busy
<1>6. Gone /\ Nested /\ Settled
  BY <1>1, <1>3 DEF Init, Gone, Nested, Settled
<1>7. CausesAreKept
  <2>1. <<>> \in CauseSeq /\ FlattenSeq(<<>>) = <<>>
    BY FlattenIsFlattened DEF CauseSeq
  <2>2. Merge(<<>>, <<>>) = <<>>
    BY <1>1, <2>1, MergeFolds DEF Fold
  <2>3. QED
    BY <2>1, <2>2 DEF Init, CausesAreKept
<1>8. ReceiverIsHarmless
  BY DEF Init, ReceiverIsHarmless
<1>9. QED
  BY <1>4, <1>5, <1>6, <1>7, <1>8 DEF IInv

LEMMA StutterInvariant == IInv /\ UNCHANGED vars => IInv'
BY DEF IInv, vars, state, TypeOK, Exclusive, Busy, Gone, Nested, Settled, CausesAreKept,
   ReceiverIsHarmless

\* The invariant in one place, for a step of one thread.
LEMMA Parts ==
  ASSUME IInv
  PROVE  /\ TypeOK /\ spans \in Nat /\ MaxSpans \in Nat
         /\ active \subseteq 1 .. spans /\ ended \subseteq (1 .. spans) \ active
         /\ ToSet(told) \subseteq (1 .. spans) \ active
         /\ Span = 1 .. MaxSpans /\ None \notin Span /\ 1 .. spans \subseteq Span
         /\ \A t \in Thread : Busy(t)
         /\ Nested /\ Settled /\ CausesAreKept /\ ReceiverIsHarmless
BY TraceAssumption DEF IInv, TypeOK, Exclusive, Gone, Span

\* A thread begins to work on a span: the types, and whom it met.
LEMMA BeginType ==
  ASSUME IInv, NEW t \in Thread, NEW at \in {"register", "build"}, NEW s \in Span,
         NEW list \in CauseLists \cup {<<>>}, Begin(t, at, s, list)
  PROVE  /\ call[t].at = "idle" /\ call[t].span = None
         /\ call' \in [Thread -> [at : {"idle", "register", "build", "emit", "end"},
                                  span : Span \cup {None}, list : CauseLists \cup {<<>>}]]
         /\ call'[t].at = at /\ call'[t].span = s /\ call'[t].list = list
         /\ \A u \in Thread \ {t} : call'[u] = call[u]
         /\ overlap' \subseteq Span \X Span /\ overlap \subseteq overlap'
         /\ \A u \in Thread : call[u].at # "idle" =>
              <<s, call[u].span>> \in overlap' /\ <<call[u].span, s>> \in overlap'
<1>1. /\ TypeOK /\ 1 .. spans \subseteq Span /\ \A u \in Thread : Busy(u)
  BY Parts
<1>2. /\ call[t] = Idle
      /\ call' = [call EXCEPT ![t] = [at |-> at, span |-> s, list |-> list]]
      /\ overlap' = overlap \cup
           UNION {{<<s, call[u].span>>, <<call[u].span, s>>} :
                    u \in {v \in Thread : call[v] # Idle}}
  BY DEF Begin
<1>3. \A u \in Thread : call[u].at # "idle" <=> call[u] # Idle
  BY <1>1, IdleFields DEF Busy
<1>4. \A u \in Thread : call[u] # Idle => call[u].span \in Span
  BY <1>1, <1>3 DEF Busy
<1>5. overlap' \subseteq Span \X Span
  <2> SUFFICES ASSUME NEW p \in overlap' PROVE p \in Span \X Span
    OBVIOUS
  <2>1. CASE p \in overlap
    BY <1>1, <2>1 DEF TypeOK
  <2>2. CASE p \notin overlap
    <3>1. PICK u \in Thread : call[u] # Idle /\ p \in {<<s, call[u].span>>, <<call[u].span, s>>}
      BY <1>2, <2>2
    <3>2. QED
      BY <1>4, <3>1
  <2>3. QED
    BY <2>1, <2>2
<1>6. \A u \in Thread : call[u].at # "idle" =>
        <<s, call[u].span>> \in overlap' /\ <<call[u].span, s>> \in overlap'
  BY <1>2, <1>3
<1>7. /\ call' \in [Thread -> [at : {"idle", "register", "build", "emit", "end"},
                               span : Span \cup {None}, list : CauseLists \cup {<<>>}]]
      /\ call'[t] = [at |-> at, span |-> s, list |-> list]
      /\ \A u \in Thread \ {t} : call'[u] = call[u]
  BY <1>1, <1>2 DEF TypeOK
<1>8. QED
  BY <1>2, <1>5, <1>6, <1>7, IdleFields

\* start_root() and start_child(): the new handle is the caller's own until it is
\* registered.
LEMMA NewHandleInvariant ==
  ASSUME IInv, NEW t \in Thread, NEW p, p = None \/ p \in active, NewHandle(t, p),
         rootStarted' \in BOOLEAN
  PROVE  IInv'
<1> DEFINE n == spans + 1
<1>1. /\ TypeOK /\ spans \in Nat /\ MaxSpans \in Nat
      /\ active \subseteq 1 .. spans /\ ended \subseteq (1 .. spans) \ active
      /\ ToSet(told) \subseteq (1 .. spans) \ active
      /\ Span = 1 .. MaxSpans /\ None \notin Span /\ 1 .. spans \subseteq Span
      /\ \A u \in Thread : Busy(u)
      /\ Nested /\ Settled /\ CausesAreKept /\ ReceiverIsHarmless
  BY Parts
<1>2. /\ spans < MaxSpans /\ Begin(t, "register", n, <<>>)
      /\ spans' = n /\ parent' = [parent EXCEPT ![n] = p]
      /\ UNCHANGED <<active, ended, causes, failures, tracing, removed, told, raised>>
  BY DEF NewHandle
<1>3. n \in Span /\ n \notin 1 .. spans /\ 1 .. n = (1 .. spans) \cup {n}
  BY <1>1, <1>2
<1>4. /\ call[t].at = "idle" /\ call[t].span = None
      /\ call' \in [Thread -> [at : {"idle", "register", "build", "emit", "end"},
                               span : Span \cup {None}, list : CauseLists \cup {<<>>}]]
      /\ call'[t].at = "register" /\ call'[t].span = n /\ call'[t].list = <<>>
      /\ \A u \in Thread \ {t} : call'[u] = call[u]
      /\ overlap' \subseteq Span \X Span /\ overlap \subseteq overlap'
      /\ \A u \in Thread : call[u].at # "idle" =>
           <<n, call[u].span>> \in overlap' /\ <<call[u].span, n>> \in overlap'
  BY <1>2, <1>3, BeginType
<1> HIDE DEF n
<1>5. parent' \in [Span -> Span \cup {None}] /\ parent'[n] = p
      /\ \A c \in 1 .. spans : parent'[c] = parent[c]
  BY <1>1, <1>2, <1>3 DEF TypeOK
<1>6. TypeOK'
  <2>1. spans' \in 0 .. MaxSpans
    BY <1>1, <1>2 DEF n
  <2>2. active' \subseteq 1 .. spans' /\ ended' \subseteq (1 .. spans') \ active'
    BY <1>1, <1>2, <1>3
  <2>3. QED
    BY <1>1, <1>2, <1>4, <1>5, <2>1, <2>2 DEF TypeOK
<1>7. \A u \in Thread : call[u].span # n
  BY <1>1, <1>3, IdleFields DEF Busy
<1>8. Exclusive'
  <2>1. Busy(t)'
    BY <1>1, <1>2, <1>3, <1>4, <1>7 DEF Busy
  <2>2. ASSUME NEW u \in Thread \ {t} PROVE Busy(u)'
    BY <1>1, <1>2, <1>3, <1>4, <1>7 DEF Busy
  <2>3. QED
    BY <2>1, <2>2 DEF Exclusive
<1>9. Gone'
  BY <1>1, <1>2, <1>3 DEF Gone
<1>10. Nested'
  <2> SUFFICES ASSUME NEW c \in 1 .. n, NEW q \in Span, parent'[c] = q
               PROVE  \/ <<c, q>> \in overlap'
                      \/ c \in ToSet(told)
                      \/ q \in active /\ \A u \in Thread : call'[u].span # q
    BY <1>2 DEF Nested
  <2>1. CASE c = n
    <3>1. q = p /\ q \in active /\ q # n
      BY <1>1, <1>3, <1>5, <2>1
    <3>2. ASSUME NEW u \in Thread, call'[u].span = q PROVE <<c, q>> \in overlap'
      <4>1. u # t /\ call[u].span = q
        BY <1>4, <3>1, <3>2
      <4>2. call[u].at # "idle"
        BY <1>1, <4>1, IdleFields DEF Busy
      <4>3. QED
        BY <1>4, <2>1, <4>1, <4>2
    <3>3. QED
      BY <3>1, <3>2
  <2>2. CASE c # n
    <3>1. c \in 1 .. spans /\ parent[c] = q
      BY <1>3, <1>5, <2>2
    <3>2. \/ <<c, q>> \in overlap
          \/ c \in ToSet(told)
          \/ q \in active /\ \A u \in Thread : call[u].span # q
      BY <1>1, <3>1 DEF Nested
    <3>3. q \in active => q # n
      BY <1>1, <1>3
    <3>4. QED
      BY <1>4, <3>2, <3>3
  <2>3. QED
    BY <2>1, <2>2
<1>11. Settled'
  <2>1. ASSUME NEW s \in (1 .. n) \ active, s \notin ToSet(told)
        PROVE  \E u \in Thread : call'[u].span = s /\ call'[u].at \in {"register", "emit"}
    <3>1. CASE s = n
      BY <1>4, <3>1
    <3>2. CASE s # n
      <4>1. PICK u \in Thread : call[u].span = s /\ call[u].at \in {"register", "emit"}
        BY <1>1, <1>3, <2>1, <3>2 DEF Settled
      <4>2. u # t
        BY <1>4, <4>1
      <4>3. QED
        BY <1>4, <4>1, <4>2
    <3>3. QED
      BY <3>1, <3>2
  <2>2. QED
    BY <1>1, <1>2, <2>1 DEF Settled
<1>12. CausesAreKept' /\ ReceiverIsHarmless'
  BY <1>1, <1>2 DEF CausesAreKept, ReceiverIsHarmless
<1>13. QED
  BY <1>6, <1>8, <1>9, <1>10, <1>11, <1>12 DEF IInv

\* finish() begins: no child is active, and a child that is being told meets it.
LEMMA CheckFinishInvariant ==
  ASSUME IInv, NEW t \in Thread, CheckFinish(t) PROVE IInv'
<1>1. /\ TypeOK /\ spans \in Nat /\ MaxSpans \in Nat
      /\ active \subseteq 1 .. spans /\ ended \subseteq (1 .. spans) \ active
      /\ ToSet(told) \subseteq (1 .. spans) \ active
      /\ Span = 1 .. MaxSpans /\ None \notin Span /\ 1 .. spans \subseteq Span
      /\ \A u \in Thread : Busy(u)
      /\ Nested /\ Settled /\ CausesAreKept /\ ReceiverIsHarmless
  BY Parts
<1>2. PICK s \in active \ ended, list \in CauseLists :
        ~ActiveChild(s) /\ Begin(t, "build", s, list)
  BY DEF CheckFinish
<1>3. UNCHANGED <<spans, parent, active, ended, rootStarted, causes, failures, tracing,
                  removed, told, raised>>
  BY DEF CheckFinish, state
<1>4. /\ call[t].at = "idle" /\ call[t].span = None
      /\ call' \in [Thread -> [at : {"idle", "register", "build", "emit", "end"},
                               span : Span \cup {None}, list : CauseLists \cup {<<>>}]]
      /\ call'[t].at = "build" /\ call'[t].span = s /\ call'[t].list = list
      /\ \A u \in Thread \ {t} : call'[u] = call[u]
      /\ overlap' \subseteq Span \X Span /\ overlap \subseteq overlap'
      /\ \A u \in Thread : call[u].at # "idle" =>
           <<s, call[u].span>> \in overlap' /\ <<call[u].span, s>> \in overlap'
  BY <1>1, <1>2, BeginType
<1>5. TypeOK'
  BY <1>1, <1>3, <1>4 DEF TypeOK
<1>6. Exclusive'
  <2>1. Busy(t)'
    BY <1>1, <1>2, <1>3, <1>4 DEF Busy
  <2>2. ASSUME NEW u \in Thread \ {t} PROVE Busy(u)'
    BY <1>1, <1>2, <1>3, <1>4 DEF Busy
  <2>3. QED
    BY <2>1, <2>2 DEF Exclusive
<1>7. Gone'
  BY <1>1, <1>3 DEF Gone
<1>8. Settled'
  BY <1>1, <1>3, <1>4 DEF Settled
<1>9. Nested'
  <2> SUFFICES ASSUME NEW c \in 1 .. spans, NEW q \in Span, parent[c] = q
               PROVE  \/ <<c, q>> \in overlap'
                      \/ c \in ToSet(told)
                      \/ q \in active /\ \A u \in Thread : call'[u].span # q
    BY <1>3 DEF Nested
  <2>1. CASE q # s
    BY <1>1, <1>4, <2>1 DEF Nested
  <2>2. CASE q = s /\ c \notin ToSet(told)
    <3>1. c \notin active
      BY <1>2, <2>2 DEF ActiveChild
    <3>2. PICK u \in Thread : call[u].span = c /\ call[u].at \in {"register", "emit"}
      BY <1>1, <2>2, <3>1 DEF Settled
    <3>3. QED
      BY <1>4, <2>2, <3>2
  <2>3. QED
    BY <2>1, <2>2
<1>10. CausesAreKept' /\ ReceiverIsHarmless'
  BY <1>1, <1>3 DEF CausesAreKept, ReceiverIsHarmless
<1>11. QED
  BY <1>5, <1>6, <1>7, <1>8, <1>9, <1>10 DEF IInv

LEMMA RegisterInvariant ==
  ASSUME IInv, NEW t \in Thread, Register(t) PROVE IInv'
<1> DEFINE s == call[t].span
<1>1. /\ TypeOK /\ spans \in Nat /\ MaxSpans \in Nat
      /\ active \subseteq 1 .. spans /\ ended \subseteq (1 .. spans) \ active
      /\ ToSet(told) \subseteq (1 .. spans) \ active
      /\ Span = 1 .. MaxSpans /\ None \notin Span /\ 1 .. spans \subseteq Span
      /\ \A u \in Thread : Busy(u)
      /\ Nested /\ Settled /\ CausesAreKept /\ ReceiverIsHarmless
  BY Parts
<1>2. /\ call[t].at = "register" /\ active' = active \cup {s}
      /\ call' = [call EXCEPT ![t] = Idle]
      /\ UNCHANGED <<spans, parent, ended, rootStarted, causes, failures, tracing, removed,
                     told, raised, overlap>>
  BY DEF Register, Return
<1>3. /\ s \in 1 .. spans /\ s \notin active \cup ended \cup ToSet(told)
      /\ \A u \in Thread \ {t} : call[u].span # s
  BY <1>1, <1>2 DEF Busy
<1> HIDE DEF s
<1>4. /\ call' \in [Thread -> [at : {"idle", "register", "build", "emit", "end"},
                               span : Span \cup {None}, list : CauseLists \cup {<<>>}]]
      /\ call'[t] = Idle /\ \A u \in Thread \ {t} : call'[u] = call[u]
  BY <1>1, <1>2 DEF TypeOK, Idle
<1>5. TypeOK'
  BY <1>1, <1>2, <1>3, <1>4 DEF TypeOK
<1>6. Exclusive'
  <2>1. Busy(t)'
    BY <1>4, IdleFields DEF Busy
  <2>2. ASSUME NEW u \in Thread \ {t} PROVE Busy(u)'
    BY <1>1, <1>2, <1>3, <1>4, IdleFields DEF Busy
  <2>3. QED
    BY <2>1, <2>2 DEF Exclusive
<1>7. Gone'
  BY <1>1, <1>2, <1>3 DEF Gone
<1>8. Nested'
  <2>1. \A u \in Thread, q \in Span : call'[u].span = q => call[u].span = q
    BY <1>1, <1>4, IdleFields
  <2>2. QED
    BY <1>1, <1>2, <2>1 DEF Nested
<1>9. Settled'
  <2>1. ASSUME NEW r \in (1 .. spans) \ active', r \notin ToSet(told)
        PROVE  \E u \in Thread : call'[u].span = r /\ call'[u].at \in {"register", "emit"}
    <3>1. PICK u \in Thread : call[u].span = r /\ call[u].at \in {"register", "emit"}
      BY <1>1, <1>2, <2>1 DEF Settled
    <3>2. u # t
      BY <1>2, <2>1, <3>1 DEF s
    <3>3. QED
      BY <1>4, <3>1, <3>2
  <2>2. QED
    BY <1>1, <1>2, <2>1 DEF Settled
<1>10. CausesAreKept' /\ ReceiverIsHarmless'
  BY <1>1, <1>2 DEF CausesAreKept, ReceiverIsHarmless
<1>11. QED
  BY <1>5, <1>6, <1>7, <1>8, <1>9, <1>10 DEF IInv

\* The steps that refuse or end a finish(): a handle may say that it has ended, if it
\* is not active and nobody registers it.
LEMMA EndInvariant ==
  ASSUME IInv, NEW t \in Thread,
         RefuseFinish(t) \/ RefuseSpan(t) \/ RemoveFails(t) \/ End(t)
  PROVE  IInv'
<1>1. /\ TypeOK /\ spans \in Nat /\ MaxSpans \in Nat
      /\ active \subseteq 1 .. spans /\ ended \subseteq (1 .. spans) \ active
      /\ ToSet(told) \subseteq (1 .. spans) \ active
      /\ Span = 1 .. MaxSpans /\ None \notin Span /\ 1 .. spans \subseteq Span
      /\ \A u \in Thread : Busy(u)
      /\ Nested /\ Settled /\ CausesAreKept /\ ReceiverIsHarmless
  BY Parts
<1>2. UNCHANGED <<spans, parent, active, rootStarted, causes, failures, tracing, removed,
                  told, raised, overlap>>
  BY DEF RefuseFinish, RefuseSpan, RemoveFails, End
<1>3. call' = call \/ (call' = [call EXCEPT ![t] = Idle] /\ call[t].at \in {"build", "end"})
  BY DEF RefuseFinish, RefuseSpan, RemoveFails, End, Return
<1>4. \E s \in 1 .. spans :
        /\ ended' = ended \/ (ended' = ended \cup {s} /\ s \notin active)
        /\ \A u \in Thread : call[u].at = "register" => call[u].span # s
  <2>1. CASE RefuseFinish(t)
    BY <2>1 DEF RefuseFinish, SettleRefusal, Handle
  <2>2. CASE RefuseSpan(t) \/ RemoveFails(t) \/ End(t)
    <3> DEFINE s == call[t].span
    <3>1. s \in 1 .. spans /\ \A u \in Thread : call[u].at = "register" => call[u].span # s
      <4>1. call[t].at \in {"build", "end"}
        BY <2>2 DEF RefuseSpan, RemoveFails, End
      <4>2. QED
        BY <1>1, <4>1 DEF Busy
    <3>2. call[t].at = "end" => s \notin active
      BY <1>1 DEF Busy
    <3>3. ended' = ended \/ (ended' = ended \cup {s} /\ s \notin active)
      <4>1. CASE RefuseSpan(t)
        BY <4>1 DEF RefuseSpan, SettleRefusal
      <4>2. CASE RemoveFails(t)
        BY <4>2 DEF RemoveFails
      <4>3. CASE End(t)
        BY <3>2, <4>3 DEF End
      <4>4. QED
        BY <2>2, <4>1, <4>2, <4>3
    <3>4. QED
      BY <3>1, <3>3
  <2>3. QED
    BY <2>1, <2>2
<1>5. /\ call' \in [Thread -> [at : {"idle", "register", "build", "emit", "end"},
                               span : Span \cup {None}, list : CauseLists \cup {<<>>}]]
      /\ call'[t] = call[t] \/ (call'[t] = Idle /\ call[t].at \in {"build", "end"})
      /\ \A u \in Thread \ {t} : call'[u] = call[u]
  <2>1. Idle \in [at : {"idle", "register", "build", "emit", "end"},
                  span : Span \cup {None}, list : CauseLists \cup {<<>>}]
    BY DEF Idle
  <2>2. call \in [Thread -> [at : {"idle", "register", "build", "emit", "end"},
                             span : Span \cup {None}, list : CauseLists \cup {<<>>}]]
    BY <1>1 DEF TypeOK
  <2>3. CASE call' = call
    BY <2>2, <2>3
  <2>4. CASE call' = [call EXCEPT ![t] = Idle] /\ call[t].at \in {"build", "end"}
    BY <2>1, <2>2, <2>4
  <2>5. QED
    BY <1>3, <2>3, <2>4
<1>6. TypeOK'
  BY <1>1, <1>2, <1>4, <1>5 DEF TypeOK
<1>7. Exclusive'
  <2> SUFFICES ASSUME NEW u \in Thread PROVE Busy(u)'
    BY DEF Exclusive
  <2>1. call'[u] = call[u] \/ call'[u] = Idle
    BY <1>5
  <2>2. CASE call'[u] = Idle
    BY <2>2, IdleFields DEF Busy
  <2>3. CASE call'[u] = call[u]
    <3>1. \A v \in Thread : call'[v] = call[v] \/ (call'[v].at = "idle" /\ call'[v].span = None)
      BY <1>5, IdleFields
    <3>2. call[u].at = "register" => call[u].span \notin ended'
      BY <1>1, <1>4 DEF Busy
    <3>3. Busy(u)
      BY <1>1
    <3>4. call[u].at # "idle" => call[u].span # None
      BY <1>1, <3>3 DEF Busy
    <3>5. QED
      BY <1>2, <2>3, <3>1, <3>2, <3>3, <3>4 DEF Busy
  <2>4. QED
    BY <2>1, <2>2, <2>3
<1>8. Gone'
  BY <1>1, <1>2 DEF Gone
<1>9. Nested'
  <2>1. \A u \in Thread, q \in Span : call'[u].span = q => call[u].span = q
    BY <1>1, <1>5, IdleFields
  <2>2. QED
    BY <1>1, <1>2, <2>1 DEF Nested
<1>10. Settled'
  <2>1. \A u \in Thread : call[u].at \in {"register", "emit"} => call'[u] = call[u]
    BY <1>5
  <2>2. QED
    BY <1>1, <1>2, <2>1 DEF Settled
<1>11. CausesAreKept' /\ ReceiverIsHarmless'
  BY <1>1, <1>2 DEF CausesAreKept, ReceiverIsHarmless
<1>12. QED
  BY <1>6, <1>7, <1>8, <1>9, <1>10, <1>11 DEF IInv

\* The one section under the lock that removes a span and adds its causes.
LEMMA RemoveSpanInvariant ==
  ASSUME IInv, NEW t \in Thread, RemoveSpan(t) PROVE IInv'
<1> DEFINE s == call[t].span
           z == call[t].list
<1>1. /\ TypeOK /\ spans \in Nat /\ MaxSpans \in Nat
      /\ active \subseteq 1 .. spans /\ ended \subseteq (1 .. spans) \ active
      /\ ToSet(told) \subseteq (1 .. spans) \ active
      /\ Span = 1 .. MaxSpans /\ None \notin Span /\ 1 .. spans \subseteq Span
      /\ \A u \in Thread : Busy(u)
      /\ Nested /\ Settled /\ CausesAreKept /\ ReceiverIsHarmless
  BY Parts
<1>2. /\ call[t].at = "build" /\ s \in active /\ active' = active \ {s}
      /\ causes' = Merge(causes, z) /\ removed' = Append(removed, z)
      /\ call' = [call EXCEPT ![t].at = "emit"]
      /\ UNCHANGED <<spans, parent, ended, rootStarted, failures, tracing, told, raised,
                     overlap>>
  BY DEF RemoveSpan, Goto
<1>3. z \in CauseLists
  BY <1>1, <1>2 DEF Busy
<1>4. /\ call' \in [Thread -> [at : {"idle", "register", "build", "emit", "end"},
                               span : Span \cup {None}, list : CauseLists \cup {<<>>}]]
      /\ call'[t].at = "emit" /\ call'[t].span = s
      /\ \A u \in Thread \ {t} : call'[u] = call[u]
      /\ \A u \in Thread : call'[u].span = call[u].span
  BY <1>1, <1>2 DEF TypeOK
<1> HIDE DEF s, z
<1>5. z \in CauseSeq /\ causes \in CauseSeq /\ removed \in Seq(CauseSeq)
      /\ removed' \in Seq(CauseLists)
  <2>1. CauseLists \subseteq CauseSeq
    BY TraceAssumption DEF CauseSeq
  <2>2. removed \in Seq(CauseLists)
    BY <1>1 DEF TypeOK
  <2>3. removed \in Seq(CauseSeq)
    BY <2>1, <2>2
  <2>4. QED
    BY <1>1, <1>2, <1>3, <2>1, <2>2, <2>3 DEF TypeOK, CauseSeq
<1>6. causes' \in CauseSeq
  BY <1>2, <1>5, MergeFolds
<1>7. TypeOK'
  BY <1>1, <1>2, <1>4, <1>5, <1>6 DEF TypeOK, CauseSeq
<1>8. Exclusive'
  <2>1. Busy(t)'
    BY <1>1, <1>2, <1>4 DEF Busy
  <2>2. ASSUME NEW u \in Thread \ {t} PROVE Busy(u)'
    BY <1>1, <1>2, <1>4 DEF Busy
  <2>3. QED
    BY <2>1, <2>2 DEF Exclusive
<1>9. Gone'
  BY <1>1, <1>2 DEF Gone
<1>10. Nested'
  BY <1>1, <1>2, <1>4 DEF Nested, s
<1>11. Settled'
  <2>1. ASSUME NEW r \in (1 .. spans) \ active', r \notin ToSet(told)
        PROVE  \E u \in Thread : call'[u].span = r /\ call'[u].at \in {"register", "emit"}
    <3>1. CASE r = s
      BY <1>4, <3>1
    <3>2. CASE r # s
      BY <1>1, <1>2, <1>4, <2>1, <3>2 DEF Settled
    <3>3. QED
      BY <3>1, <3>2
  <2>2. QED
    BY <1>1, <1>2, <2>1 DEF Settled
<1>12. CausesAreKept'
  <2>1. causes = Merge(<<>>, FlattenSeq(removed))
    BY <1>1 DEF CausesAreKept
  <2>2. /\ FlattenSeq(removed) \in CauseSeq
        /\ FlattenSeq(removed') = FlattenSeq(removed) \o z
    BY <1>2, <1>5, FlattenAppend
  <2>3. <<>> \in CauseSeq
    BY DEF CauseSeq
  <2>4. causes' = Merge(<<>>, FlattenSeq(removed) \o z)
    BY <1>2, <1>5, <2>1, <2>2, <2>3, MergeConcat
  <2>5. QED
    BY <2>2, <2>4 DEF CausesAreKept
<1>13. ReceiverIsHarmless'
  BY <1>1, <1>2 DEF ReceiverIsHarmless
<1>14. QED
  BY <1>7, <1>8, <1>9, <1>10, <1>11, <1>12, <1>13 DEF IInv

\* The sink is told.
LEMMA EmitInvariant ==
  ASSUME IInv, NEW t \in Thread, Emit(t) PROVE IInv'
<1> DEFINE s == call[t].span
<1>1. /\ TypeOK /\ spans \in Nat /\ MaxSpans \in Nat
      /\ active \subseteq 1 .. spans /\ ended \subseteq (1 .. spans) \ active
      /\ ToSet(told) \subseteq (1 .. spans) \ active
      /\ Span = 1 .. MaxSpans /\ None \notin Span /\ 1 .. spans \subseteq Span
      /\ \A u \in Thread : Busy(u)
      /\ Nested /\ Settled /\ CausesAreKept /\ ReceiverIsHarmless
  BY Parts
<1>2. /\ call[t].at = "emit" /\ told' = Append(told, s)
      /\ failures' \in {failures, failures + 1} /\ raised' \subseteq raised \cup {s}
      /\ call' = [call EXCEPT ![t].at = "end"]
      /\ UNCHANGED <<spans, parent, active, ended, rootStarted, causes, tracing, removed,
                     overlap>>
  BY DEF Emit, Goto
<1>3. /\ s \in 1 .. spans /\ s \notin active \cup ToSet(told)
      /\ \A u \in Thread \ {t} : call[u].at \in {"register", "emit"} => call[u].span # s
  BY <1>1, <1>2 DEF Busy
<1>4. /\ call' \in [Thread -> [at : {"idle", "register", "build", "emit", "end"},
                               span : Span \cup {None}, list : CauseLists \cup {<<>>}]]
      /\ call'[t].at = "end" /\ call'[t].span = s
      /\ \A u \in Thread \ {t} : call'[u] = call[u]
      /\ \A u \in Thread : call'[u].span = call[u].span
  BY <1>1, <1>2 DEF TypeOK
<1> HIDE DEF s
<1>5. /\ told' \in Seq(Span) /\ Len(told') = Len(told) + 1
      /\ ToSet(told') = ToSet(told) \cup {s} /\ IsInjective(told')
  <2>1. told \in Seq(Span) /\ s \in Span /\ s \notin ToSet(told) /\ IsInjective(told)
    BY <1>1, <1>3 DEF TypeOK, Settled
  <2>2. QED
    BY <1>2, <2>1, AppendOnce
<1>6. TypeOK'
  <2>1. failures' \in 0 .. Len(told')
    BY <1>1, <1>2, <1>5 DEF TypeOK
  <2>2. raised' \subseteq Span
    BY <1>1, <1>2, <1>3 DEF TypeOK
  <2>3. QED
    BY <1>1, <1>2, <1>4, <1>5, <2>1, <2>2 DEF TypeOK
<1>7. Exclusive'
  <2>1. Busy(t)'
    BY <1>1, <1>2, <1>3, <1>4, <1>5 DEF Busy
  <2>2. ASSUME NEW u \in Thread \ {t} PROVE Busy(u)'
    BY <1>1, <1>2, <1>3, <1>4, <1>5 DEF Busy
  <2>3. QED
    BY <2>1, <2>2 DEF Exclusive
<1>8. Gone'
  BY <1>1, <1>2, <1>3, <1>5 DEF Gone
<1>9. Nested'
  BY <1>1, <1>2, <1>4, <1>5 DEF Nested
<1>10. Settled'
  <2>1. ASSUME NEW r \in (1 .. spans) \ active, r \notin ToSet(told')
        PROVE  \E u \in Thread : call'[u].span = r /\ call'[u].at \in {"register", "emit"}
    <3>1. r # s /\ r \notin ToSet(told)
      BY <1>5, <2>1
    <3>2. PICK u \in Thread : call[u].span = r /\ call[u].at \in {"register", "emit"}
      BY <1>1, <2>1, <3>1 DEF Settled
    <3>3. u # t
      BY <3>1, <3>2 DEF s
    <3>4. QED
      BY <1>4, <3>2, <3>3
  <2>2. QED
    BY <1>2, <1>5, <2>1 DEF Settled
<1>11. CausesAreKept'
  BY <1>1, <1>2 DEF CausesAreKept
<1>12. ReceiverIsHarmless'
  <2> SUFFICES ASSUME ~tracing PROVE raised' = {}
    BY <1>2 DEF ReceiverIsHarmless
  <2>1. raised = {}
    BY <1>1 DEF ReceiverIsHarmless
  <2>2. \A answer \in Emissions(tracing) : answer \in ExportErrors \cup {"accepted"}
    BY EmissionsAreHarmless
  <2>3. raised' = raised
    BY <2>2 DEF Emit
  <2>4. QED
    BY <2>1, <2>3
<1>13. QED
  BY <1>6, <1>7, <1>8, <1>9, <1>10, <1>11, <1>12 DEF IInv

LEMMA SwitchInvariant == IInv /\ SwitchTracingOn => IInv'
<1> SUFFICES ASSUME IInv, SwitchTracingOn PROVE IInv'
  OBVIOUS
<1>1. UNCHANGED <<spans, parent, active, ended, rootStarted, causes, failures, call, removed,
                  told, raised, overlap>> /\ tracing' = TRUE
  BY DEF SwitchTracingOn, state
<1>2. QED
  BY <1>1 DEF IInv, TypeOK, Exclusive, Busy, Gone, Nested, Settled, CausesAreKept,
     ReceiverIsHarmless

-----------------------------------------------------------------------------
(***************************************************************************)
(* The specification.                                                      *)
(***************************************************************************)
LEMMA NextInvariant == IInv /\ [Next]_vars => IInv'
<1> SUFFICES ASSUME IInv, [Next]_vars PROVE IInv'
  OBVIOUS
<1>1. ASSUME NEW t \in Thread, StartRoot(t) PROVE IInv'
  BY <1>1, NewHandleInvariant DEF StartRoot
<1>2. ASSUME NEW t \in Thread, StartChild(t) PROVE IInv'
  <2>1. PICK p \in active : NewHandle(t, p)
    BY <1>2 DEF StartChild
  <2>2. rootStarted' \in BOOLEAN
    BY <1>2 DEF StartChild, IInv, TypeOK
  <2>3. QED
    BY <2>1, <2>2, NewHandleInvariant
<1>3. ASSUME NEW t \in Thread, Register(t) PROVE IInv'
  BY <1>3, RegisterInvariant
<1>4. ASSUME NEW t \in Thread, CheckFinish(t) PROVE IInv'
  BY <1>4, CheckFinishInvariant
<1>5. ASSUME NEW t \in Thread,
             RefuseFinish(t) \/ RefuseSpan(t) \/ RemoveFails(t) \/ End(t)
      PROVE  IInv'
  BY <1>5, EndInvariant
<1>6. ASSUME NEW t \in Thread, RemoveSpan(t) PROVE IInv'
  BY <1>6, RemoveSpanInvariant
<1>7. ASSUME NEW t \in Thread, Emit(t) PROVE IInv'
  BY <1>7, EmitInvariant
<1>8. CASE SwitchTracingOn
  BY <1>8, SwitchInvariant
<1>9. CASE UNCHANGED vars
  BY <1>9, StutterInvariant
<1>10. QED
  BY <1>1, <1>2, <1>3, <1>4, <1>5, <1>6, <1>7, <1>8, <1>9 DEF Next

\* The inductive invariant of a trace session.
THEOREM Invariance == Spec => []IInv
<1>1. QED
  BY InitInvariant, NextInvariant, PTL DEF Spec

\* Every variable keeps its type; what has ended is not active, and the failures
\* counted are at most the spans told.
THEOREM TypeCorrectness == Spec => []TypeOK
<1>1. IInv => TypeOK
  BY DEF IInv
<1>2. QED
  BY <1>1, Invariance, PTL

\* _finish_span removes a span once, under the lock, before it is emitted: however many
\* threads finish it, the sink is handed it once.
THEOREM SpansAreToldOnce == Spec => []ToldOnce
<1>1. IInv => ToldOnce
  BY DEF IInv, Settled, ToldOnce, Handle, Finishing
<1>2. QED
  BY <1>1, Invariance, PTL

\* The causes a review reads at its end are those of all removed spans, merged in order.
THEOREM CausesKept == Spec => []CausesAreKept
<1>1. IInv => CausesAreKept
  BY DEF IInv
<1>2. QED
  BY <1>1, Invariance, PTL

\* The check for active children under the lock keeps the tree nested, except where two
\* threads were at work on a span and its child at once.
THEOREM NestingKept == Spec => []NestedUnlessOverlapped
<1>1. IInv => NestedUnlessOverlapped
  <2> SUFFICES ASSUME IInv, NEW c \in Handle, NEW p \in Span, parent[c] = p, p \notin active,
                      c \in active \/ (p \in ToSet(told) /\ c \notin ToSet(told))
               PROVE  <<c, p>> \in overlap
    BY DEF NestedUnlessOverlapped
  <2>1. c \in 1 .. spans /\ c \notin ToSet(told)
    BY Parts DEF Handle
  <2>2. QED
    BY <2>1 DEF IInv, Nested
<1>2. QED
  BY <1>1, Invariance, PTL

\* As long as cloud tracing is off, each answer of the receiver is an export error that
\* finish() counts, or none.
THEOREM ReceiverHarmless == Spec => []ReceiverIsHarmless
<1>1. IInv => ReceiverIsHarmless
  BY DEF IInv
<1>2. QED
  BY <1>1, Invariance, PTL

\* The merge of _finish_span keeps every cause it has met, and none twice.
THEOREM CausesOnceEach ==
  Spec => [](IsInjective(causes) /\ ToSet(causes) = ToSet(FlattenSeq(removed)))
<1>1. IInv => IsInjective(causes) /\ ToSet(causes) = ToSet(FlattenSeq(removed))
  <2> SUFFICES ASSUME IInv
               PROVE  IsInjective(causes) /\ ToSet(causes) = ToSet(FlattenSeq(removed))
    OBVIOUS
  <2>1. removed \in Seq(CauseSeq)
    <3>1. CauseLists \subseteq CauseSeq /\ removed \in Seq(CauseLists)
      BY TraceAssumption DEF IInv, TypeOK, CauseSeq
    <3>2. QED
      BY <3>1
  <2>2. FlattenSeq(removed) \in CauseSeq /\ <<>> \in CauseSeq
    BY <2>1, FlattenFolds DEF CauseSeq
  <2>3. IsInjective(<<>>) /\ ToSet(<<>>) = {}
    BY DEF IsInjective, ToSet
  <2>4. causes = Merge(<<>>, FlattenSeq(removed))
    BY DEF IInv, CausesAreKept
  <2> DEFINE all == FlattenSeq(removed)
  <2> HIDE DEF all
  <2>5. /\ IsInjective(Merge(<<>>, all))
        /\ ToSet(Merge(<<>>, all)) = ToSet(<<>>) \cup ToSet(all)
    BY <2>2, <2>3, MergeOnce DEF all
  <2>6. ToSet(causes) = ToSet(all)
    BY <2>3, <2>4, <2>5 DEF all
  <2>7. QED
    BY <2>4, <2>5, <2>6 DEF all
<1>2. QED
  BY <1>1, Invariance, PTL
=============================================================================
