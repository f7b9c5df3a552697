--------------------------- MODULE ModelTheorems ----------------------------
(***************************************************************************)
(* Theorems about every model, whatever scenario it comes from:            *)
(*                                                                         *)
(*   1. folds and sequences;                                               *)
(*   2. the relational schema of the model, stage by stage;                *)
(*   3. the search for cycles of the validation rules, which ends and      *)
(*      reports the cycles there are;                                      *)
(*   4. the errors of the mapper are among those of the rules;             *)
(*   5. the keys a relationship gets in its turn, which the later ones     *)
(*      leave as they are;                                                 *)
(*   6. the manifest of a project against its tables, and the names its    *)
(*      files use against the names they define.                           *)
(*                                                                         *)
(* The folds of the model are cases of Combine, and what is proved of      *)
(* them, cases of Holds, both in DiagramInvariants.                        *)
(***************************************************************************)
EXTENDS DiagramInvariants, FiniteSetTheorems, WellFoundedInduction, TLAPS

(* A set that has 0 and with every number the next one has them all: the   *)
(* intervals up to a missing number would have no smallest.                *)
LEMMA SetInduction ==
  ASSUME NEW S, 0 \in S, \A n \in Nat : n \in S => n + 1 \in S
  PROVE  Nat \subseteq S
<1> SUFFICES ASSUME NEW n \in Nat, n \notin S PROVE FALSE
  OBVIOUS
<1> DEFINE T == {0..k : k \in {i \in 0..n : i \notin S}}
           R == StrictSubsetOrdering(0..n)
<1>1. IsWellFoundedOn(R, SUBSET (0..n))
  <2>1. IsFiniteSet(0..n)
    BY FS_Interval
  <2>2. FiniteSubsetsOf(0..n) = SUBSET (0..n)
    BY <2>1, FS_FiniteSubsetsOfFinite
  <2> QED
    BY <2>2, FS_StrictSubsetOrderingWellFounded
<1>2. T \subseteq SUBSET (0..n) /\ T # {}
  OBVIOUS
<1>3. PICK x \in T : \A y \in T : <<y, x>> \notin R
  <2> HIDE DEF T, R
  <2> QED
    BY <1>1, <1>2, WFMin
<1>4. PICK k \in 0..n : k \notin S /\ x = 0..k
  BY <1>3
<1>5. k - 1 \in 0..n /\ k - 1 \notin S
  BY <1>4
<1>6. 0..(k-1) \in T
  BY <1>5
<1>7. <<0..(k-1), x>> \in R
  BY <1>4, <1>5 DEF StrictSubsetOrdering
<1> QED
  BY <1>3, <1>6, <1>7

(* The largest member of a set of positions.                               *)
LEMMA MaxIs ==
  ASSUME NEW t, NEW m \in t, t \subseteq Int, \A i \in t : i <= m
  PROVE  Max(t) = m
<1>1. Max(t) \in t /\ \A y \in t : Max(t) >= y
  BY DEF Max
<1>2. Max(t) \in Int /\ m \in Int /\ Max(t) >= m /\ Max(t) <= m
  BY <1>1
<1> QED
  BY <1>2

LEMMA MaxOf ==
  ASSUME NEW n \in Nat, NEW t \in SUBSET (1..n), t # {}
  PROVE  Max(t) \in t /\ \A i \in t : i <= Max(t)
<1> DEFINE S == {k \in Nat : \A u \in SUBSET (1..k) : u # {} => \E m \in u : \A i \in u : i <= m}
<1>1. 0 \in S
  <2>1. \A u \in SUBSET (1..0) : u = {}
    OBVIOUS
  <2> QED
    BY <2>1
<1>2. ASSUME NEW k \in Nat, k \in S PROVE k + 1 \in S
  <2> SUFFICES ASSUME NEW u \in SUBSET (1..(k+1)), u # {}
               PROVE  \E m \in u : \A i \in u : i <= m
    OBVIOUS
  <2>1. CASE k + 1 \in u
    BY <2>1
  <2>2. CASE k + 1 \notin u
    BY <2>2, <1>2
  <2> QED
    BY <2>1, <2>2
<1>3. n \in S
  <2> HIDE DEF S
  <2> QED
    BY <1>1, <1>2, SetInduction
<1>4. PICK m \in t : \A i \in t : i <= m
  BY <1>3
<1>5. t \subseteq Int
  OBVIOUS
<1> QED
  BY <1>4, <1>5, MaxIs

LEMMA IterExists ==
  ASSUME NEW c, NEW base, NEW seq, NEW n \in Nat
  PROVE  \E g : IsIter(c, base, seq, n, g)
<1> DEFINE S == {k \in Nat : \E g : IsIter(c, base, seq, k, g)}
<1>1. 0 \in S
  <2> DEFINE g == [t \in SUBSET (1..0) |-> base]
  <2>1. \A t \in SUBSET (1..0) : Step(c, base, seq, g, t) = base
    BY DEF Step
  <2>2. IsIter(c, base, seq, 0, g)
    BY <2>1 DEF IsIter
  <2> QED
    BY <2>2
<1>2. ASSUME NEW k \in Nat, k \in S PROVE k + 1 \in S
  <2>1. PICK g : IsIter(c, base, seq, k, g)
    BY <1>2
  <2> DEFINE h == [t \in SUBSET (1..(k+1)) |->
                     IF k + 1 \in t THEN Combine(c, g[t \ {k+1}], seq[k+1]) ELSE g[t]]
  <2>2. ASSUME NEW t \in SUBSET (1..(k+1)) PROVE h[t] = Step(c, base, seq, h, t)
    <3>1. CASE k + 1 \in t
      <4>1. Max(t) = k + 1
        <5>1. t \subseteq Int /\ \A i \in t : i <= k + 1
          OBVIOUS
        <5> QED
          BY <3>1, <5>1, MaxIs
      <4>2. t \ {k+1} \in SUBSET (1..k) /\ t \ {k+1} \in SUBSET (1..(k+1))
        OBVIOUS
      <4>3. h[t \ {k+1}] = g[t \ {k+1}]
        BY <4>2
      <4> QED
        BY <3>1, <4>1, <4>3 DEF Step
    <3>2. CASE k + 1 \notin t /\ t # {}
      <4>1. t \in SUBSET (1..k)
        BY <3>2
      <4>2. Max(t) \in t
        BY <3>2, MaxOf
      <4>3. /\ t \ {Max(t)} \in SUBSET (1..(k+1))
            /\ k + 1 \notin t \ {Max(t)}
        BY <3>2
      <4>4. h[t \ {Max(t)}] = g[t \ {Max(t)}]
        BY <4>3
      <4>5. h[t] = g[t]
        BY <3>2
      <4>6. g[t] = Step(c, base, seq, g, t)
        BY <2>1, <4>1 DEF IsIter
      <4> QED
        BY <4>4, <4>5, <4>6, <3>2 DEF Step
    <3>3. CASE t = {}
      <4>1. {} \in SUBSET (1..k)
        OBVIOUS
      <4>2. g[{}] = base
        BY <2>1, <4>1 DEF IsIter, Step
      <4> QED
        BY <3>3, <4>2 DEF Step
    <3> QED
      BY <3>1, <3>2, <3>3
  <2>3. IsIter(c, base, seq, k + 1, h)
    BY <2>2 DEF IsIter
  <2> HIDE DEF h
  <2> QED
    BY <2>3
<1> QED
  <2> HIDE DEF S
  <2>1. n \in S
    BY <1>1, <1>2, SetInduction
  <2> QED
    BY <2>1 DEF S

THEOREM FoldRuns ==
  ASSUME NEW c, NEW base, NEW seq, NEW n \in Nat, DOMAIN seq = 1..n
  PROVE  \E f : IsRun(c, base, seq, n, f)
<1> DEFINE iter == CHOOSE g : IsIter(c, base, seq, n, g)
           f == [i \in 0..n |-> iter[1..i]]
<1>1. Fold(c, base, seq) = iter[1..n]
  BY DEF Fold, FoldLeft, MapThenFoldSet, IsIter, Step, Max
<1>2. IsIter(c, base, seq, n, iter)
  BY IterExists
<1>3. \A t \in SUBSET (1..n) : iter[t] = Step(c, base, seq, iter, t)
  <2> HIDE DEF iter
  <2> QED
    BY <1>2 DEF IsIter
<1> HIDE DEF iter
<1>4. f[0] = base
  <2>1. 1..0 = {}
    OBVIOUS
  <2>2. iter[{}] = base
    BY <1>3 DEF Step
  <2>3. f[0] = iter[1..0]
    OBVIOUS
  <2> QED
    BY <2>1, <2>2, <2>3
<1>5. ASSUME NEW i \in 1..n PROVE f[i] = Combine(c, f[i-1], seq[i])
  <2> DEFINE t == 1..i
  <2>1. /\ t \in SUBSET (1..n) /\ i \in t /\ t \subseteq Int
        /\ \A j \in t : j <= i
    OBVIOUS
  <2>2. t \ {i} = 1..(i-1)
    OBVIOUS
  <2>3. f[i] = iter[t] /\ f[i-1] = iter[1..(i-1)]
    OBVIOUS
  <2> HIDE DEF t, f
  <2>4. Max(t) = i
    BY <2>1, MaxIs
  <2>5. iter[t] = Combine(c, iter[t \ {i}], seq[i])
    BY <1>3, <2>1, <2>4 DEF Step
  <2> QED
    BY <2>2, <2>3, <2>5
<1>6. Fold(c, base, seq) = f[n]
  BY <1>1
<1> HIDE DEF f
<1> QED
  BY <1>4, <1>5, <1>6 DEF IsRun

(* What holds of the base, and after each step if it held before, holds of *)
(* the fold.                                                               *)
THEOREM FoldInduction ==
  ASSUME NEW c, NEW base, NEW seq, NEW n \in Nat, DOMAIN seq = 1..n,
         Holds(c, 0, base),
         \A i \in 1..n : \A a : Holds(c, i-1, a) => Holds(c, i, Combine(c, a, seq[i]))
  PROVE  Holds(c, n, Fold(c, base, seq))
<1>1. PICK f : IsRun(c, base, seq, n, f)
  BY FoldRuns
<1> DEFINE S == {k \in Nat : k <= n => Holds(c, k, f[k])}
<1>2. 0 \in S
  BY <1>1 DEF IsRun
<1>3. ASSUME NEW k \in Nat, k \in S PROVE k + 1 \in S
  <2> SUFFICES ASSUME k + 1 <= n PROVE Holds(c, k + 1, f[k + 1])
    OBVIOUS
  <2>1. k + 1 \in 1..n /\ (k + 1) - 1 = k /\ Holds(c, k, f[k])
    BY <1>3
  <2> QED
    BY <1>1, <2>1 DEF IsRun
<1>4. n \in S
  <2> HIDE DEF S
  <2> QED
    BY <1>2, <1>3, SetInduction
<1> QED
  BY <1>1, <1>4 DEF IsRun

(* Sequences.                                                              *)

LEMMA MinOf ==
  ASSUME NEW n \in Nat, NEW t \in SUBSET (1..n), t # {}
  PROVE  Min(t) \in t /\ \A i \in t : Min(t) <= i
<1> DEFINE u == {n + 1 - i : i \in t}
<1>1. u \in SUBSET (1..n) /\ u # {}
  <2>1. \A i \in t : n + 1 - i \in 1..n
    OBVIOUS
  <2>2. PICK i \in t : TRUE
    OBVIOUS
  <2>3. n + 1 - i \in u
    BY <2>2
  <2> QED
    BY <2>1, <2>3
<1>2. Max(u) \in u /\ \A i \in u : i <= Max(u)
  <2> HIDE DEF u
  <2> QED
    BY <1>1, MaxOf
<1>3. PICK m \in t : Max(u) = n + 1 - m
  BY <1>2
<1>4. \A i \in t : n + 1 - i <= n + 1 - m
  BY <1>2, <1>3
<1>5. \A i \in t : m <= i
  BY <1>4
<1> QED
  BY <1>5 DEF Min

LEMMA ToSetOf ==
  ASSUME NEW S, NEW seq \in Seq(S)
  PROVE  /\ ToSet(seq) \subseteq S
         /\ seq \in Seq(ToSet(seq))
         /\ \A T : ToSet(seq) \subseteq T => seq \in Seq(T)
BY DEF ToSet

LEMMA SameSequence ==
  ASSUME NEW S, NEW s \in Seq(S), NEW t \in Seq(S), Len(s) = Len(t),
         \A i \in 1..Len(s) : s[i] = t[i]
  PROVE  s = t
OBVIOUS

LEMMA AppendOf ==
  ASSUME NEW S, NEW seq \in Seq(S), NEW e
  PROVE  /\ Append(seq, e) \in Seq(S \cup {e})
         /\ DOMAIN Append(seq, e) = 1..(Len(seq) + 1)
         /\ Len(Append(seq, e)) = Len(seq) + 1
         /\ Append(seq, e)[Len(seq) + 1] = e
         /\ \A i \in DOMAIN seq : Append(seq, e)[i] = seq[i]
         /\ ToSet(Append(seq, e)) = ToSet(seq) \cup {e}
<1>1. seq \in Seq(S \cup {e})
  OBVIOUS
<1>2. Append(seq, e) \in Seq(S \cup {e}) /\ Len(Append(seq, e)) = Len(seq) + 1
  BY <1>1
<1>3. /\ Append(seq, e)[Len(seq) + 1] = e
      /\ \A i \in DOMAIN seq : Append(seq, e)[i] = seq[i]
  BY <1>1
<1>4. DOMAIN Append(seq, e) = 1..(Len(seq) + 1) /\ DOMAIN seq = 1..Len(seq) /\ Len(seq) \in Nat
  BY <1>1, <1>2
<1>5. DOMAIN Append(seq, e) = DOMAIN seq \cup {Len(seq) + 1}
  BY <1>4
<1>6. ToSet(Append(seq, e)) = ToSet(seq) \cup {e}
  BY <1>3, <1>5, Zenon DEF ToSet
<1> QED
  BY <1>2, <1>3, <1>4, <1>6

LEMMA ConcatOf ==
  ASSUME NEW S, NEW s \in Seq(S), NEW t \in Seq(S)
  PROVE  /\ s \o t \in Seq(S)
         /\ Len(s \o t) = Len(s) + Len(t)
         /\ \A i \in DOMAIN s : (s \o t)[i] = s[i]
         /\ \A i \in DOMAIN t : (s \o t)[Len(s) + i] = t[i]
         /\ \A i \in DOMAIN (s \o t) : i \in DOMAIN s \/ i - Len(s) \in DOMAIN t
         /\ ToSet(s \o t) = ToSet(s) \cup ToSet(t)
<1>1. /\ s \o t \in Seq(S)
      /\ Len(s \o t) = Len(s) + Len(t)
      /\ \A i \in DOMAIN s : (s \o t)[i] = s[i]
      /\ \A i \in DOMAIN t : (s \o t)[Len(s) + i] = t[i]
      /\ \A i \in DOMAIN (s \o t) : i \in DOMAIN s \/ i - Len(s) \in DOMAIN t
  OBVIOUS
<1>2. ASSUME NEW x \in ToSet(s \o t) PROVE x \in ToSet(s) \cup ToSet(t)
  BY <1>1 DEF ToSet
<1>3. ToSet(s) \subseteq ToSet(s \o t)
  <2>1. DOMAIN s \subseteq DOMAIN (s \o t)
    BY <1>1
  <2> QED
    BY <1>1, <2>1, Zenon DEF ToSet
<1>4. ToSet(t) \subseteq ToSet(s \o t)
  <2>1. \A i \in DOMAIN t : Len(s) + i \in DOMAIN (s \o t)
    BY <1>1
  <2> QED
    BY <1>1, <2>1, Zenon DEF ToSet
<1> QED
  BY <1>1, <1>2, <1>3, <1>4

LEMMA KeptExists ==
  ASSUME NEW seq, NEW kept, NEW n \in Nat
  PROVE  \E found : Kept(seq, kept, n, found)
<1> DEFINE S == {k \in Nat : \E found : Kept(seq, kept, k, found)}
<1>1. 0 \in S
  <2> DEFINE f == [i \in 0..0 |-> <<>>]
  <2>1. Kept(seq, kept, 0, f)
    BY DEF Kept
  <2> QED
    BY <2>1
<1>2. ASSUME NEW k \in Nat, k \in S PROVE k + 1 \in S
  <2>1. PICK f : Kept(seq, kept, k, f)
    BY <1>2
  <2> DEFINE g == [i \in 0..(k+1) |->
                     IF i <= k THEN f[i]
                     ELSE IF seq[k+1] \in kept THEN Append(f[k], seq[k+1]) ELSE f[k]]
  <2>2. ASSUME NEW i \in 0..(k+1)
        PROVE  g[i] = IF i = 0 THEN <<>>
                      ELSE IF seq[i] \in kept THEN Append(g[i-1], seq[i]) ELSE g[i-1]
    <3>1. CASE i <= k
      <4>1. i \in 0..k /\ g[i] = f[i] /\ (i # 0 => g[i-1] = f[i-1])
        BY <3>1
      <4>2. f[i] = IF i = 0 THEN <<>>
                   ELSE IF seq[i] \in kept THEN Append(f[i-1], seq[i]) ELSE f[i-1]
        BY <2>1, <4>1 DEF Kept
      <4> QED
        BY <4>1, <4>2
    <3>2. CASE i = k + 1
      BY <3>2
    <3> QED
      BY <3>1, <3>2
  <2>3. Kept(seq, kept, k + 1, g)
    BY <2>2 DEF Kept
  <2> HIDE DEF g
  <2> QED
    BY <2>3
<1> QED
  <2> HIDE DEF S
  <2>1. n \in S
    BY <1>1, <1>2, SetInduction
  <2> QED
    BY <2>1 DEF S

LEMMA PicksApart ==
  ASSUME NEW part, NEW seq, NEW at, Picks(part, seq, at), Len(part) \in Nat, Len(seq) \in Nat,
         NEW i \in 1..Len(part), NEW j \in 1..Len(part), at[i] = at[j]
  PROVE  i = j
<1>1. at[i] \in 1..Len(seq) /\ at[j] \in 1..Len(seq)
  BY DEF Picks
<1>2. (i < j => at[i] < at[j]) /\ (j < i => at[j] < at[i])
  BY DEF Picks
<1> HIDE DEF Picks
<1> QED
  BY <1>1, <1>2

LEMMA OnlyPicks ==
  ASSUME NEW S, NEW seq \in Seq(S), NEW kept
  PROVE  /\ Only(seq, kept) \in Seq(S)
         /\ \E at : Picks(Only(seq, kept), seq, at)
         /\ ToSet(Only(seq, kept)) = ToSet(seq) \cap kept
<1> DEFINE found == CHOOSE found : Kept(seq, kept, Len(seq), found)
<1>1. Only(seq, kept) = found[Len(seq)]
  BY DEF Only, Kept
<1>2. Kept(seq, kept, Len(seq), found)
  BY KeptExists
<1> HIDE DEF found
<1> DEFINE first(n) == {seq[i] : i \in 1..n}
           Good(n) == /\ found[n] \in Seq(S)
                      /\ \E at : /\ Picks(found[n], seq, at)
                                 /\ \A i \in 1..Len(found[n]) : at[i] <= n
                      /\ ToSet(found[n]) = first(n) \cap kept
           G == {n \in Nat : n <= Len(seq) => Good(n)}
<1>3. 0 \in G
  <2>1. found[0] = <<>>
    BY <1>2 DEF Kept
  <2>2. \E at : /\ Picks(<<>>, seq, at)
               /\ \A i \in 1..Len(<<>>) : at[i] <= 0
    <3> DEFINE at == [i \in 1..0 |-> 1]
    <3>1. Picks(<<>>, seq, at) /\ \A i \in 1..Len(<<>>) : at[i] <= 0
      BY DEF Picks
    <3> HIDE DEF at
    <3> QED
      BY <3>1
  <2>3. ToSet(<<>>) = {} /\ first(0) = {}
    BY DEF ToSet
  <2>4. found[0] \in Seq(S) /\ ToSet(found[0]) = first(0) \cap kept
    BY <2>1, <2>3
  <2>5. \E at : /\ Picks(found[0], seq, at)
               /\ \A i \in 1..Len(found[0]) : at[i] <= 0
    BY <2>1, <2>2, Zenon
  <2> HIDE DEF first
  <2>6. Good(0)
    BY <2>4, <2>5
  <2> QED
    BY <2>6
<1>4. ASSUME NEW n \in Nat, n \in G PROVE n + 1 \in G
  <2> SUFFICES ASSUME n + 1 <= Len(seq) PROVE Good(n + 1)
    OBVIOUS
  <2> DEFINE e == seq[n + 1]
  <2>1. Good(n) /\ n + 1 \in 1..Len(seq) /\ e \in S
    BY <1>4
  <2>2. found[n + 1] = IF e \in kept THEN Append(found[n], e) ELSE found[n]
    <3>1. (n + 1) - 1 = n /\ n + 1 \in 0..Len(seq) /\ n + 1 # 0
      OBVIOUS
    <3> QED
      BY <1>2, <3>1 DEF Kept
  <2>3. first(n + 1) = first(n) \cup {e}
    OBVIOUS
  <2>4. CASE e \notin kept
    <3>1. found[n + 1] = found[n]
      BY <2>2, <2>4
    <3>2. PICK at : /\ Picks(found[n], seq, at)
                    /\ \A i \in 1..Len(found[n]) : at[i] <= n
      BY <2>1
    <3>3. \A i \in 1..Len(found[n]) : at[i] <= n + 1
      BY <3>2 DEF Picks
    <3> HIDE DEF first
    <3> QED
      BY <2>1, <2>3, <2>4, <3>1, <3>2, <3>3
  <2>5. CASE e \in kept
    <3>1. found[n + 1] = Append(found[n], e) /\ found[n] \in Seq(S)
      BY <2>1, <2>2, <2>5
    <3>2. PICK at : /\ Picks(found[n], seq, at)
                    /\ \A i \in 1..Len(found[n]) : at[i] <= n
      BY <2>1
    <3> DEFINE len == Len(found[n])
               to == [i \in 1..(len + 1) |-> IF i = len + 1 THEN n + 1 ELSE at[i]]
    <3>3. /\ Append(found[n], e) \in Seq(S)
          /\ Len(Append(found[n], e)) = len + 1 /\ len \in Nat
          /\ \A i \in 1..len : Append(found[n], e)[i] = found[n][i]
          /\ Append(found[n], e)[len + 1] = e
          /\ ToSet(Append(found[n], e)) = ToSet(found[n]) \cup {e}
      BY <2>1, <3>1, AppendOf
    <3>4. Picks(found[n + 1], seq, to)
      <4>1. \A i \in 1..len : at[i] \in 1..Len(seq)
        BY <3>2 DEF Picks
      <4>2. to \in [1..(len + 1) -> 1..Len(seq)]
        BY <2>1, <3>3, <4>1
      <4>3. \A i \in 1..(len + 1) : Append(found[n], e)[i] = seq[to[i]]
        BY <3>2, <3>3 DEF Picks
      <4>4. \A i, j \in 1..(len + 1) : i < j => to[i] < to[j]
        <5> SUFFICES ASSUME NEW i \in 1..(len + 1), NEW j \in 1..(len + 1), i < j
                     PROVE  to[i] < to[j]
          OBVIOUS
        <5>1. i \in 1..len /\ at[i] <= n /\ at[i] \in Nat
          BY <3>2, <3>3, <4>1
        <5>2. CASE j = len + 1
          BY <5>1, <5>2, <3>3
        <5>3. CASE j # len + 1
          <6>0. len \in Nat
            BY <3>3
          <6>1. i \in 1..Len(found[n]) /\ j \in 1..Len(found[n])
            <7> HIDE DEF to
            <7> QED
              BY <5>3, <6>0, <5>1
          <6>2. at[i] < at[j]
            BY <3>2, <6>1 DEF Picks
          <6> QED
            BY <5>1, <5>3, <6>1, <6>2, <3>3
        <5> QED
          BY <5>2, <5>3
      <4> HIDE DEF to
      <4> QED
        BY <3>1, <3>3, <4>2, <4>3, <4>4 DEF Picks
    <3>5. \A i \in 1..Len(found[n + 1]) : to[i] <= n + 1
      <4> SUFFICES ASSUME NEW i \in 1..(len + 1) PROVE to[i] <= n + 1
        BY <3>1, <3>3
      <4>1. CASE i = len + 1
        BY <4>1
      <4>2. CASE i # len + 1
        <5>1. i \in 1..len
          BY <4>2, <3>3
        <5>2. at[i] <= n /\ at[i] \in 1..Len(seq)
          BY <3>2, <5>1 DEF Picks
        <5>3. to[i] = at[i]
          BY <4>2
        <5> QED
          BY <5>2, <5>3
      <4> QED
        BY <4>1, <4>2
    <3> HIDE DEF to, first
    <3> QED
      BY <2>1, <2>3, <2>5, <3>1, <3>3, <3>4, <3>5
  <2> QED
    BY <2>4, <2>5
<1>5. Good(Len(seq))
  <2> HIDE DEF Good
  <2>1. Len(seq) \in G
    <3> HIDE DEF G
    <3> QED
      BY <1>3, <1>4, SetInduction
  <2> QED
    BY <2>1
<1>6. first(Len(seq)) = ToSet(seq)
  BY DEF ToSet
<1> HIDE DEF first
<1> QED
  BY <1>1, <1>5, <1>6

LEMMA FilterIs ==
  ASSUME NEW S, NEW seq \in Seq(S), NEW kept
  PROVE  Only(seq, kept) \in Seq(S) /\ Only(seq, kept) \in Seq(ToSet(seq))
BY ToSetOf, OnlyPicks

LEMMA EndsExist ==
  ASSUME NEW seqs, NEW n \in Nat
  PROVE  \E flat : Ends(seqs, n, flat)
<1> DEFINE S == {k \in Nat : \E flat : Ends(seqs, k, flat)}
<1>1. 0 \in S
  <2> DEFINE f == [i \in 1..0 |-> <<>>]
  <2>1. Ends(seqs, 0, f)
    BY DEF Ends
  <2> QED
    BY <2>1
<1>2. ASSUME NEW k \in Nat, k \in S PROVE k + 1 \in S
  <2>1. PICK f : Ends(seqs, k, f)
    BY <1>2
  <2> DEFINE g == [i \in 1..(k+1) |->
                     IF i <= k THEN f[i]
                     ELSE IF k = 0 THEN seqs[1] ELSE f[k] \o seqs[k+1]]
  <2>2. ASSUME NEW i \in 1..(k+1)
        PROVE  g[i] = IF i = 1 THEN seqs[i] ELSE g[i-1] \o seqs[i]
    <3>1. CASE i <= k
      <4>1. i \in 1..k /\ g[i] = f[i] /\ (i # 1 => g[i-1] = f[i-1])
        BY <3>1
      <4>2. f[i] = IF i = 1 THEN seqs[i] ELSE f[i-1] \o seqs[i]
        BY <2>1, <4>1 DEF Ends
      <4> QED
        BY <4>1, <4>2
    <3>2. CASE i = k + 1
      BY <3>2
    <3> QED
      BY <3>1, <3>2
  <2>3. Ends(seqs, k + 1, g)
    BY <2>2 DEF Ends
  <2> HIDE DEF g
  <2> QED
    BY <2>3
<1> QED
  <2> HIDE DEF S
  <2>1. n \in S
    BY <1>1, <1>2, SetInduction
  <2> QED
    BY <2>1 DEF S

LEMMA FlattenIs ==
  ASSUME NEW S, NEW seqs \in Seq(Seq(S))
  PROVE  /\ FlattenSeq(seqs) \in Seq(S)
         /\ ToSet(FlattenSeq(seqs)) = UNION {ToSet(seqs[i]) : i \in DOMAIN seqs}
<1>1. CASE Len(seqs) = 0
  <2>1. seqs = <<>> /\ DOMAIN seqs = {}
    BY <1>1
  <2>2. FlattenSeq(seqs) = seqs
    BY <1>1, Zenon DEF FlattenSeq
  <2>3. ToSet(FlattenSeq(seqs)) = {}
    BY <2>1, <2>2, Zenon DEF ToSet
  <2>4. UNION {ToSet(seqs[i]) : i \in DOMAIN seqs} = {}
    BY <2>1
  <2>5. FlattenSeq(seqs) \in Seq(S)
    <3>1. FlattenSeq(seqs) = <<>>
      BY <2>1, <2>2
    <3> QED
      BY <3>1
  <2> QED
    BY <2>3, <2>4, <2>5, Zenon
<1>2. CASE Len(seqs) # 0
  <2> DEFINE len == Len(seqs)
             flat == CHOOSE flat : Ends(seqs, len, flat)
  <2>1. FlattenSeq(seqs) = flat[len]
    BY <1>2, Zenon DEF FlattenSeq, Ends
  <2>2. Ends(seqs, len, flat)
    <3>1. len \in Nat
      OBVIOUS
    <3> HIDE DEF len
    <3> QED
      BY <3>1, EndsExist
  <2> HIDE DEF flat
  <2> DEFINE upTo(n) == UNION {ToSet(seqs[i]) : i \in 1..n}
             G == {n \in Nat : n \in 1..len => flat[n] \in Seq(S) /\ ToSet(flat[n]) = upTo(n)}
  <2>3. 0 \in G
    OBVIOUS
  <2>4. ASSUME NEW n \in Nat, n \in G PROVE n + 1 \in G
    <3> SUFFICES ASSUME n + 1 \in 1..len
                 PROVE  flat[n + 1] \in Seq(S) /\ ToSet(flat[n + 1]) = upTo(n + 1)
      OBVIOUS
    <3>1. flat[n + 1] = IF n = 0 THEN seqs[n + 1] ELSE flat[n] \o seqs[n + 1]
      <4>1. (n + 1) - 1 = n /\ (n + 1 = 1 <=> n = 0)
        OBVIOUS
      <4> QED
        BY <2>2, <4>1 DEF Ends
    <3>2. seqs[n + 1] \in Seq(S)
      OBVIOUS
    <3>3. upTo(n + 1) = upTo(n) \cup ToSet(seqs[n + 1])
      <4>1. 1..(n + 1) = (1..n) \cup {n + 1}
        OBVIOUS
      <4> QED
        BY <4>1
    <3>4. CASE n = 0
      <4>1. 1..0 = {}
        OBVIOUS
      <4>2. upTo(0) = {}
        BY <4>1
      <4> HIDE DEF upTo
      <4> QED
        BY <3>1, <3>2, <3>3, <3>4, <4>2, Zenon
    <3>5. CASE n # 0
      <4>1. n \in 1..len
        BY <3>5
      <4>2. flat[n] \in Seq(S) /\ ToSet(flat[n]) = upTo(n)
        BY <2>4, <4>1
      <4>3. /\ flat[n] \o seqs[n + 1] \in Seq(S)
            /\ ToSet(flat[n] \o seqs[n + 1]) = ToSet(flat[n]) \cup ToSet(seqs[n + 1])
        BY <3>2, <4>2, ConcatOf
      <4>4. flat[n + 1] = flat[n] \o seqs[n + 1]
        BY <3>1, <3>5
      <4> HIDE DEF upTo
      <4>5. ToSet(flat[n + 1]) = upTo(n + 1)
        BY <3>3, <4>2, <4>3, <4>4, Zenon
      <4> QED
        BY <4>3, <4>4, <4>5, Zenon
    <3> QED
      BY <3>4, <3>5
  <2>5. len \in G
    <3> HIDE DEF G
    <3>1. Nat \subseteq G
      BY <2>3, <2>4, SetInduction
    <3> QED
      BY <3>1
  <2>6. len \in 1..len /\ DOMAIN seqs = 1..len
    BY <1>2
  <2> QED
    BY <2>1, <2>5, <2>6
<1> QED
  BY <1>1, <1>2

LEMMA FunctionIsSeq ==
  ASSUME NEW T, NEW n \in Nat, NEW f \in [1..n -> T]
  PROVE  f \in Seq(T) /\ Len(f) = n /\ DOMAIN f = 1..n
OBVIOUS

LEMMA SelectedIs ==
  ASSUME NEW S, NEW seq \in Seq(S), NEW I, I = {i \in 1..Len(seq) : i \in I},
         NEW at, at = IF I # {} THEN Min(I) ELSE 0
  PROVE  at \in Nat /\ (at = 0 \/ at \in I) /\ (at = 0 <=> I = {})
<1>1. I \in SUBSET (1..Len(seq)) /\ Len(seq) \in Nat
  OBVIOUS
<1>2. I # {} => Min(I) \in I
  BY <1>1, MinOf
<1> QED
  BY <1>1, <1>2

(* Sequences put together, as one fact each.                               *)

LEMMA LongerIs ==
  ASSUME NEW S, NEW prev \in Seq(S), NEW e
  PROVE  IsLonger(Append(prev, e), prev, e)
<1>1. /\ Append(prev, e) \in Seq(S \cup {e})
      /\ DOMAIN Append(prev, e) = 1..(Len(prev) + 1)
      /\ Len(Append(prev, e)) = Len(prev) + 1
      /\ Append(prev, e)[Len(prev) + 1] = e
      /\ \A i \in DOMAIN prev : Append(prev, e)[i] = prev[i]
      /\ ToSet(Append(prev, e)) = ToSet(prev) \cup {e}
  BY AppendOf
<1>2. Append(prev, e) \in Seq(ToSet(Append(prev, e)))
  BY <1>1, ToSetOf
<1>3. DOMAIN prev = 1..Len(prev)
  OBVIOUS
<1> QED
  BY <1>1, <1>2, <1>3 DEF IsLonger

LEMMA JoinIs ==
  ASSUME NEW S, NEW s \in Seq(S), NEW t \in Seq(S)
  PROVE  s \o t \in Seq(S) /\ IsJoin(s \o t, s, t)
BY ConcatOf DEF IsJoin

(* Names that are made unique (naming.py).                                 *)

(* Of Cardinality(taken) + 1 numbered names one is free.                   *)
LEMMA NumberedIsFree ==
  ASSUME StringFacts, NEW base \in Seq(Word), NEW taken, IsFiniteSet(taken)
  PROVE  Numbered(base, taken) \in Seq(Word) \ taken
<1> DEFINE with(k) == base \o <<ToString(k)>>
           n == Cardinality(taken)
           free == {k \in 2..(n + 2) : with(k) \notin taken}
<1>1. n \in Nat
  BY FS_CardinalityType
<1>2. Numbered(base, taken) = with(Min(free))
  BY DEF Numbered
<1>3. \A k \in Nat : ToString(k) \in Word
  BY DEF StringFacts, StringFactsFor
<1>4. \A k \in Nat : with(k) \in Seq(Word) /\ with(k)[Len(base) + 1] = ToString(k)
  <2> TAKE k \in Nat
  <2>1. ToString(k) \in Word
    BY <1>3
  <2> DEFINE number == ToString(k)
  <2> HIDE DEF number
  <2>2. number \in Word
    BY <2>1 DEF number
  <2>3. base \o <<number>> \in Seq(Word) /\ (base \o <<number>>)[Len(base) + 1] = number
    BY <2>2
  <2> QED
    BY <2>3 DEF number
<1>5. \A j, k \in Nat : with(j) = with(k) => j = k
  BY <1>4 DEF StringFacts, StringFactsFor
<1> HIDE DEF with, n
<1>6. free # {}
  <2> SUFFICES ASSUME free = {} PROVE FALSE
    OBVIOUS
  <2> DEFINE numbers == 2..(n + 2)
             f == [k \in numbers |-> with(k)]
  <2>1. f \in [numbers -> taken]
    OBVIOUS
  <2>2. IsFiniteSet(numbers) /\ Cardinality(numbers) = n + 1
    BY <1>1, FS_Interval
  <2>3. Cardinality(taken) < Cardinality(numbers)
    BY <1>1, <2>2 DEF n
  <2>4. PICK j, k \in numbers : j # k /\ f[j] = f[k]
    <3> HIDE DEF f, numbers
    <3> QED
      BY <2>1, <2>2, <2>3, FS_PigeonHole
  <2>5. with(j) = with(k) /\ j \in Nat /\ k \in Nat
    BY <1>1, <2>4
  <2> QED
    BY <1>5, <2>4, <2>5
<1>7. Min(free) \in free
  <2>1. free \in SUBSET (1..(n + 2)) /\ n + 2 \in Nat
    BY <1>1
  <2> HIDE DEF free
  <2> QED
    BY <1>6, <2>1, MinOf
<1>8. Min(free) \in Nat /\ with(Min(free)) \notin taken
  BY <1>1, <1>7
<1> QED
  BY <1>2, <1>4, <1>8

LEMMA UniqueNameIsFree ==
  ASSUME StringFacts, NEW base \in Seq(Word), NEW taken, IsFiniteSet(taken)
  PROVE  UniqueName(taken, base) \in Seq(Word) \ taken
BY NumberedIsFree DEF UniqueName

LEMMA UniqueOwnedNameIsFree ==
  ASSUME StringFacts, NEW base \in Seq(Word), NEW owner \in NameType, NEW taken, IsFiniteSet(taken)
  PROVE  UniqueOwnedName(taken, base, owner) \in Seq(Word) \ taken
<1>1. SnakeCase(owner) \in Seq(Word)
  BY DEF SnakeCase, NameType
<1>2. SnakeCase(owner) \o base \in Seq(Word)
  BY <1>1
<1> QED
  BY <1>2, UniqueNameIsFree DEF UniqueOwnedName

(* The names in use are finitely many.                                     *)
LEMMA NamesFinite ==
  ASSUME NEW S, NEW elements \in Seq(S)
  PROVE  IsFiniteSet(NamesOf(elements)) /\ IsFiniteSet(ColumnNames(elements))
<1> DEFINE n == Len(elements)
           f == [i \in 1..n |-> elements[i].name]
<1>1. n \in Nat /\ DOMAIN elements = 1..n
  OBVIOUS
<1>2. IsFiniteSet(1..n)
  BY <1>1, FS_Interval
<1>3. f \in Surjection(1..n, NamesOf(elements))
  BY <1>1 DEF Surjection, NamesOf
<1>4. IsFiniteSet(NamesOf(elements))
  <2> HIDE DEF f, n
  <2> QED
    BY <1>2, <1>3, FS_Surjection
<1> QED
  BY <1>4 DEF NamesOf, ColumnNames

(* A name that no element has may be added.                                *)
LEMMA NameAdded ==
  ASSUME NEW elements, elements \in Seq(ToSet(elements)), DistinctNames(elements),
         NEW e, e.name \notin NamesOf(elements)
  PROVE  LET longer == Append(elements, e)
         IN  /\ longer \in Seq(ToSet(longer)) /\ ToSet(longer) = ToSet(elements) \cup {e}
             /\ DistinctNames(longer) /\ NamesOf(longer) = NamesOf(elements) \cup {e.name}
<1> DEFINE S == ToSet(elements)
           longer == Append(elements, e)
           n == Len(elements)
           prev == elements
<1>1. prev \in Seq(S) /\ prev = elements
  OBVIOUS
<1>2. n \in Nat /\ DOMAIN elements = 1..n
  OBVIOUS
<1>3. \A i \in 1..n : elements[i].name \in NamesOf(elements)
  BY <1>2 DEF NamesOf
<1>4. \A i, j \in 1..n : elements[i].name = elements[j].name => i = j
  BY <1>2 DEF DistinctNames, IsInjective
<1>s. ToSet(elements) = S /\ n = Len(elements)
  OBVIOUS
<1> HIDE DEF S, n, prev
<1>5. /\ longer \in Seq(ToSet(longer)) /\ DOMAIN longer = 1..(n + 1)
      /\ longer[n + 1] = e /\ \A i \in 1..n : longer[i] = elements[i]
      /\ ToSet(longer) = S \cup {e}
  <2>1. IsLonger(longer, elements, e)
    BY <1>1, LongerIs, Zenon
  <2> HIDE DEF longer
  <2> QED
    BY <1>2, <1>s, <2>1 DEF IsLonger
<1> HIDE DEF longer
<1>6. DistinctNames(longer)
  <2>1. \A i, j \in 1..(n + 1) : longer[i].name = longer[j].name => i = j
    <3> SUFFICES ASSUME NEW i \in 1..(n + 1), NEW j \in 1..(n + 1), longer[i].name = longer[j].name
                 PROVE  i = j
      OBVIOUS
    <3>1. \A k \in 1..(n + 1) : k \in 1..n \/ k = n + 1
      BY <1>2
    <3>2. CASE i \in 1..n /\ j \in 1..n
      BY <1>4, <1>5, <3>2
    <3>3. CASE i = n + 1 /\ j = n + 1
      BY <3>3
    <3>4. CASE i \in 1..n /\ j = n + 1
      BY <1>3, <1>5, <3>4
    <3>5. CASE i = n + 1 /\ j \in 1..n
      BY <1>3, <1>5, <3>5
    <3> QED
      BY <3>1, <3>2, <3>3, <3>4, <3>5
  <2> QED
    BY <1>5, <2>1 DEF DistinctNames, IsInjective
<1>7. NamesOf(longer) = NamesOf(elements) \cup {e.name}
  <2>1. NamesOf(longer) = {longer[i].name : i \in 1..(n + 1)}
    BY <1>5 DEF NamesOf
  <2>2. 1..(n + 1) = (1..n) \cup {n + 1}
    BY <1>2
  <2>3. NamesOf(elements) = {longer[i].name : i \in 1..n}
    BY <1>5, <1>2 DEF NamesOf
  <2>4. longer[n + 1].name = e.name
    BY <1>5
  <2> QED
    BY <2>1, <2>2, <2>3, <2>4
<1> QED
  BY <1>5, <1>6, <1>7 DEF S, longer

(* A constraint's name tells its table and its columns.                    *)
LEMMA SeqMonotone ==
  ASSUME NEW S, NEW T, S \subseteq T, NEW seq \in Seq(S)
  PROVE  seq \in Seq(T)
OBVIOUS

LEMMA OneElement ==
  ASSUME NEW S, NEW e \in S
  PROVE  <<e>> \in Seq(S) /\ Len(<<e>>) = 1 /\ <<e>>[1] = e /\ DOMAIN <<e>> = {1}
OBVIOUS

LEMMA PartIs ==
  ASSUME NEW prefix, NEW table \in Seq(Word), NEW columns \in Seq(Word)
  PROVE  IsPart(Part(prefix, table, columns), prefix, table, columns)
<1> DEFINE S == Word \cup {"", prefix}
           s == <<prefix>>
           t == table
           empty == ""
           gap == <<empty>>
           u == columns
           m == Len(t)
           n == Len(u)
           v == s \o t
           w == v \o gap
           part == w \o u
<1>1. Part(prefix, table, columns) = part
  BY DEF Part
<1>2. t \in Seq(S) /\ u \in Seq(S)
  <2>1. Word \subseteq S
    OBVIOUS
  <2> HIDE DEF S
  <2> QED
    BY <2>1, SeqMonotone
<1>3. /\ s \in Seq(S) /\ Len(s) = 1 /\ s[1] = prefix
      /\ gap \in Seq(S) /\ Len(gap) = 1 /\ gap[1] = empty
  <2>1. prefix \in S /\ empty \in S
    OBVIOUS
  <2> HIDE DEF S
  <2> QED
    BY <2>1, OneElement
<1>4. t = table /\ u = columns
  OBVIOUS
<1>e. empty = ""
  OBVIOUS
<1> HIDE DEF S, s, gap, t, u, empty
<1>5. m \in Nat /\ n \in Nat
  BY <1>2
<1>6. v \in Seq(S) /\ Len(v) = m + 1 /\ v[1] = prefix /\ \A i \in 1..m : v[i + 1] = t[i]
  <2>1. v \in Seq(S) /\ IsJoin(v, s, t)
    BY <1>2, <1>3, JoinIs, Zenon
  <2> HIDE DEF v
  <2>2. v[1] = prefix
    BY <1>3, <2>1 DEF IsJoin
  <2>3. ASSUME NEW i \in 1..m PROVE v[i + 1] = t[i]
    BY <1>3, <1>5, <2>1 DEF IsJoin
  <2>4. Len(v) = m + 1
    BY <1>3, <1>5, <2>1 DEF IsJoin
  <2> QED
    BY <2>1, <2>2, <2>3, <2>4
<1> HIDE DEF v
<1>7. /\ w \in Seq(S) /\ Len(w) = m + 2 /\ w[m + 2] = empty
      /\ \A i \in 1..(m + 1) : w[i] = v[i]
  <2>1. w \in Seq(S) /\ IsJoin(w, v, gap)
    BY <1>3, <1>6, JoinIs, Zenon
  <2> HIDE DEF w
  <2>2. Len(w) = m + 2 /\ \A i \in 1..(m + 1) : w[i] = v[i]
    BY <1>3, <1>5, <1>6, <2>1 DEF IsJoin
  <2>3. w[Len(v) + 1] = gap[1] /\ Len(v) + 1 = m + 2
    BY <1>3, <1>5, <1>6, <2>1 DEF IsJoin
  <2> QED
    BY <1>3, <2>1, <2>2, <2>3
<1> HIDE DEF w
<1>8. /\ Len(part) = m + 2 + n
      /\ \A i \in 1..(m + 2) : part[i] = w[i]
      /\ \A i \in 1..n : part[m + 2 + i] = u[i]
  <2>1. IsJoin(part, w, u)
    BY <1>2, <1>7, JoinIs, Zenon
  <2> HIDE DEF part
  <2> QED
    BY <1>5, <1>7, <2>1 DEF IsJoin
<1> HIDE DEF part
<1>9. part[1] = prefix /\ part[m + 2] = empty /\ \A i \in 1..m : part[i + 1] = t[i]
  <2>1. 1 \in 1..(m + 1) /\ 1 \in 1..(m + 2) /\ m + 2 \in 1..(m + 2)
    BY <1>5
  <2>2. \A i \in 1..m : i + 1 \in 1..(m + 1) /\ i + 1 \in 1..(m + 2)
    BY <1>5
  <2>3. part[1] = w[1] /\ w[1] = v[1] /\ part[m + 2] = w[m + 2]
    BY <1>7, <1>8, <2>1
  <2>4. ASSUME NEW i \in 1..m PROVE part[i + 1] = t[i]
    BY <1>6, <1>7, <1>8, <2>2, Zenon
  <2> QED
    BY <1>6, <1>7, <2>3, <2>4
<1> QED
  BY <1>1, <1>4, <1>8, <1>9, <1>e DEF IsPart

LEMMA PartsDiffer ==
  ASSUME NEW prefix1, NEW table1 \in Seq(Word), NEW columns1 \in Seq(Word),
         NEW prefix2, NEW table2 \in Seq(Word), NEW columns2 \in Seq(Word),
         Part(prefix1, table1, columns1) = Part(prefix2, table2, columns2)
  PROVE  prefix1 = prefix2 /\ table1 = table2 /\ columns1 = columns2
<1> DEFINE part == Part(prefix1, table1, columns1)
           m == Len(table1)
           n == Len(table2)
<1>1. IsPart(part, prefix1, table1, columns1)
  BY PartIs
<1>2. IsPart(part, prefix2, table2, columns2)
  BY PartIs
<1> HIDE DEF part
<1>3. m \in Nat /\ n \in Nat /\ Len(columns1) \in Nat /\ Len(columns2) \in Nat
  OBVIOUS
<1>4. \A i \in 1..m : table1[i] # ""
  <2> TAKE i \in 1..m
  <2>1. table1[i] \in Word
    OBVIOUS
  <2> QED
    BY <2>1 DEF Word
<1>5. \A i \in 1..n : table2[i] # ""
  <2> TAKE i \in 1..n
  <2>1. table2[i] \in Word
    OBVIOUS
  <2> QED
    BY <2>1 DEF Word
<1>6. m = n
  <2>1. CASE m < n
    <3>1. m + 1 \in 1..n /\ (m + 1) + 1 = m + 2
      BY <1>3, <2>1
    <3>2. part[m + 2] = table2[m + 1]
      BY <1>2, <3>1 DEF IsPart
    <3> QED
      BY <1>1, <1>5, <3>1, <3>2 DEF IsPart
  <2>2. CASE n < m
    <3>1. n + 1 \in 1..m /\ (n + 1) + 1 = n + 2
      BY <1>3, <2>2
    <3>2. part[n + 2] = table1[n + 1]
      BY <1>1, <3>1 DEF IsPart
    <3> QED
      BY <1>2, <1>4, <3>1, <3>2 DEF IsPart
  <2> QED
    BY <1>3, <2>1, <2>2
<1>7. Len(columns1) = Len(columns2)
  <2>1. /\ Len(part) = Len(table1) + 2 + Len(columns1)
        /\ Len(part) = Len(table2) + 2 + Len(columns2)
    BY <1>1, <1>2, Zenon DEF IsPart
  <2> QED
    BY <1>3, <1>6, <2>1
<1>8. table1 = table2
  BY <1>1, <1>2, <1>6, SameSequence DEF IsPart
<1>9. columns1 = columns2
  BY <1>1, <1>2, <1>6, <1>7, SameSequence DEF IsPart
<1> QED
  BY <1>1, <1>2, <1>8, <1>9 DEF IsPart

(* Enumeration types.                                                      *)
LEMMA TypeAdded ==
  ASSUME StringFacts, NEW enums, NEW i \in Nat \ {0}, NEW types, TypesFollow(enums, i - 1, types),
         enums[i] \in EnumerationType
  PROVE  TypesFollow(enums, i, MapEnumeration(types, enums[i]))
<1> DEFINE name == UniqueName(NamesOf(types), SnakeCase(enums[i].name))
           new == [name   |-> name,
                   labels |-> [k \in DOMAIN enums[i].literals |-> Label(enums[i].literals[k])],
                   source |-> enums[i].id]
           longer == Append(types, new)
<1>1. MapEnumeration(types, enums[i]) = longer
  BY DEF MapEnumeration
<1>2. /\ types \in Seq(ToSet(types)) /\ DistinctNames(types) /\ NamesOf(types) \subseteq Seq(Word)
      /\ \A k \in 1..(i - 1) : \E t \in ToSet(types) : t.source = enums[k].id
  BY DEF TypesFollow
<1>3. name \in Seq(Word) \ NamesOf(types)
  BY <1>2, NamesFinite, UniqueNameIsFree DEF SnakeCase, EnumerationType, NameType
<1>4. new.name = name /\ new.source = enums[i].id
  OBVIOUS
<1> HIDE DEF name, new
<1>5. /\ longer \in Seq(ToSet(longer)) /\ ToSet(longer) = ToSet(types) \cup {new}
      /\ DistinctNames(longer) /\ NamesOf(longer) = NamesOf(types) \cup {new.name}
  BY <1>2, <1>3, <1>4, NameAdded
<1> HIDE DEF longer
<1>6. \A k \in 1..i : \E t \in ToSet(longer) : t.source = enums[k].id
  <2> TAKE k \in 1..i
  <2>1. k \in 1..(i - 1) \/ k = i
    OBVIOUS
  <2> QED
    BY <1>2, <1>4, <1>5, <2>1
<1>7. NamesOf(longer) \subseteq Seq(Word)
  BY <1>2, <1>3, <1>4, <1>5
<1> QED
  BY <1>1, <1>5, <1>6, <1>7 DEF TypesFollow

LEMMA EnumTypesAre ==
  ASSUME StringFacts, NEW m, IsModel(m)
  PROVE  TypesFollow(m.enums, Len(m.enums), EnumTypes(m))
<1> DEFINE enums == m.enums
           n == Len(enums)
<1>1. enums \in Seq(EnumerationType)
  BY DEF IsModel
<1>2. EnumTypes(m) = Fold(FoldOf("EnumTypes", enums), <<>>, enums)
  BY DEF EnumTypes, Fold, FoldOf, Combine, Max,
         AddType, FoldLeft, MapThenFoldSet
<1> HIDE DEF enums
<1>3. n \in Nat /\ DOMAIN enums = 1..n /\ \A i \in 1..n : enums[i] \in EnumerationType
  BY <1>1
<1> HIDE DEF n
<1>4. TypesFollow(enums, 0, <<>>)
  BY DEF TypesFollow, DistinctNames, IsInjective, NamesOf, ToSet
<1>5. \A i \in 1..n : \A types : TypesFollow(enums, i-1, types) =>
        TypesFollow(enums, i, AddType(enums, types, enums[i]))
  <2> SUFFICES ASSUME NEW i \in 1..n, NEW types, TypesFollow(enums, i-1, types)
               PROVE  TypesFollow(enums, i, MapEnumeration(types, enums[i]))
    BY DEF AddType
  <2>1. i \in Nat \ {0}
    BY <1>3
  <2> QED
    BY <1>3, <2>1, TypeAdded
<1>6. TypesFollow(enums, n, Fold(FoldOf("EnumTypes", enums), <<>>, enums))
  <2> DEFINE fold == FoldOf("EnumTypes", enums)
  <2>1. \A a, e : Combine(fold, a, e) = AddType(enums, a, e)
    BY DEF Combine, FoldOf
  <2>2. \A k, a : Holds(fold, k, a) <=> TypesFollow(enums, k, a)
    BY DEF Holds, FoldOf
  <2> HIDE DEF fold
  <2>3. Holds(fold, 0, <<>>) /\ \A i \in 1..n : \A a :
          Holds(fold, i-1, a) => Holds(fold, i, Combine(fold, a, enums[i]))
    BY <1>3, <1>4, <1>5, <2>1, <2>2
  <2>4. TypesFollow(enums, n, Fold(fold, <<>>, enums))
    BY <1>3, <1>4, <1>5, <2>2, <2>3, FoldInduction
  <2> QED
    BY <2>4 DEF fold
<1> QED
  BY <1>2, <1>6 DEF enums, n

(* The type of an attribute whose enumeration is there.                    *)
LEMMA EnumTypeNameIs ==
  ASSUME StringFacts, NEW m, IsModel(m), NEW id, HasId(m.enums, id)
  PROVE  EnumTypeName(EnumTypes(m), id) \in NamesOf(EnumTypes(m))
<1> DEFINE types == EnumTypes(m)
           I == {i \in 1..Len(types) : types[i].source = id}
           at == IF I # {} THEN Min(I) ELSE 0
<1>1. EnumTypeName(types, id) = types[at].name
  BY DEF EnumTypeName, SelectInSeq
<1>2. TypesFollow(m.enums, Len(m.enums), types)
  BY EnumTypesAre
<1> HIDE DEF types
<1>3. types \in Seq(ToSet(types))
  BY <1>2 DEF TypesFollow
<1>4. PICK k \in 1..Len(m.enums) : m.enums[k].id = id
  BY DEF HasId, IdsOf, IsModel
<1>5. PICK t \in ToSet(types) : t.source = id
  BY <1>2, <1>4 DEF TypesFollow
<1>6. I # {}
  BY <1>3, <1>5 DEF ToSet
<1>7. I = {i \in 1..Len(types) : i \in I}
  OBVIOUS
<1>8. at \in I
  <2> HIDE DEF I
  <2> QED
    BY <1>3, <1>6, <1>7, SelectedIs
<1>9. at \in DOMAIN types
  <2>1. I \subseteq DOMAIN types
    BY <1>3
  <2> HIDE DEF I, at
  <2> QED
    BY <1>8, <2>1
<1> HIDE DEF at
<1> QED
  BY <1>1, <1>9 DEF NamesOf, types

(* Columns.                                                                *)

LEMMA NoColumns == \A types : ColumnsAre(<<>>, types) /\ ColumnNames(<<>>) = {}
BY DEF ColumnsAre, DistinctNames, IsInjective, ColumnNames, ToSet

LEMMA ColumnAdded ==
  ASSUME NEW types, NEW columns, ColumnsAre(columns, types),
         NEW e, e.name \in Seq(Word) \ ColumnNames(columns), IsEnum(e) => e.enum \in NamesOf(types),
         e.name = Id => e.owner = NoOwner
  PROVE  /\ ColumnsAre(Append(columns, e), types)
         /\ ColumnNames(Append(columns, e)) = ColumnNames(columns) \cup {e.name}
<1> DEFINE longer == Append(columns, e)
<1>1. columns \in Seq(ToSet(columns)) /\ DistinctNames(columns)
  BY DEF ColumnsAre
<1>2. \A seq : ColumnNames(seq) = NamesOf(seq)
  BY DEF ColumnNames, NamesOf
<1>3. /\ longer \in Seq(ToSet(longer)) /\ ToSet(longer) = ToSet(columns) \cup {e}
      /\ DistinctNames(longer) /\ NamesOf(longer) = NamesOf(columns) \cup {e.name}
  BY <1>1, <1>2, NameAdded
<1> HIDE DEF longer
<1> QED
  BY <1>2, <1>3 DEF ColumnsAre, longer

LEMMA PlainColumnIs ==
  ASSUME NEW name, NEW type, NEW nullable
  PROVE  LET column == PlainColumn(name, type, nullable)
         IN  column.name = name /\ ~IsEnum(column) /\ column.owner = NoOwner
BY DEF PlainColumn, IsEnum

(* The words of the fixed columns.                                         *)
LEMMA FixedNames ==
  ASSUME StringFacts
  PROVE  Id \in Seq(Word) /\ <<"class", "type">> \in Seq(Word) /\ <<"class", "type">> # Id
<1>1. "id" \in Word /\ "class" \in Word /\ "type" \in Word
  BY DEF StringFacts, StringFactsFor, Word
<1>2. <<"id">> \in Seq(Word) /\ <<"class", "type">> \in Seq(Word)
  BY <1>1
<1>3. Len(<<"class", "type">>) # Len(<<"id">>)
  OBVIOUS
<1> QED
  BY <1>2, <1>3 DEF Id

LEMMA FixedColumns ==
  ASSUME StringFacts, NEW types
  PROVE  /\ ColumnsAre(<<PlainColumn(Id, "UUID", FALSE)>>, types)
         /\ ColumnNames(<<PlainColumn(Id, "UUID", FALSE)>>) = {Id}
         /\ ColumnsAre(<<PlainColumn(Id, "UUID", FALSE),
                         PlainColumn(<<"class", "type">>, "VARCHAR", FALSE)>>, types)
         /\ {Id, <<"class", "type">>} \subseteq
              ColumnNames(<<PlainColumn(Id, "UUID", FALSE),
                            PlainColumn(<<"class", "type">>, "VARCHAR", FALSE)>>)
<1> DEFINE id == PlainColumn(Id, "UUID", FALSE)
           class == PlainColumn(<<"class", "type">>, "VARCHAR", FALSE)
           kind == <<"class", "type">>
<1>1. /\ id.name = Id /\ ~IsEnum(id) /\ id.owner = NoOwner
      /\ class.name = kind /\ ~IsEnum(class) /\ class.owner = NoOwner
  BY PlainColumnIs
<1>2. Id \in Seq(Word) /\ kind \in Seq(Word) /\ kind # Id
  BY FixedNames
<1> HIDE DEF id, class, kind
<1>3. <<id>> = Append(<<>>, id) /\ <<id, class>> = Append(<<id>>, class)
  OBVIOUS
<1>4. ColumnsAre(<<id>>, types) /\ ColumnNames(<<id>>) = {} \cup {id.name}
  <2>1. ColumnsAre(Append(<<>>, id), types)
        /\ ColumnNames(Append(<<>>, id)) = ColumnNames(<<>>) \cup {id.name}
    BY <1>1, <1>2, NoColumns, ColumnAdded
  <2> QED
    BY <1>3, <2>1, NoColumns
<1>5. /\ ColumnsAre(Append(<<id>>, class), types)
      /\ ColumnNames(Append(<<id>>, class)) = ({} \cup {id.name}) \cup {class.name}
  BY <1>1, <1>2, <1>4, ColumnAdded
<1> QED
  BY <1>1, <1>3, <1>4, <1>5 DEF id, class, kind

(* The classes of a root's table, the root among them.                     *)
LEMMA DescendIs ==
  ASSUME NEW m, NEW K, m.classes \in Seq(K), NEW tree, tree.level \in Seq(K), tree.all \in Seq(K),
         NEW step
  PROVE  LET next == Descend(m, tree, step)
         IN  /\ next.level \in Seq(K) /\ next.all \in Seq(K)
             /\ ToSet(tree.all) \subseteq ToSet(next.all)
<1> DEFINE all == tree.all
           level == tree.level
           children == [i \in DOMAIN level |->
                          Filter(m.classes, LAMBDA d : level[i].id \in ParentsOf(m, d.id))]
           below == FlattenSeq(children)
<1>1. Descend(m, tree, step) = [all |-> all \o below, level |-> below]
  BY DEF Descend
<1>2. m.classes \in Seq(K)
  OBVIOUS
<1>3. level \in Seq(K) /\ all \in Seq(K)
  OBVIOUS
<1> HIDE DEF level, all
<1>4. children \in Seq(Seq(K))
  <2>1. Len(level) \in Nat /\ DOMAIN level = 1..Len(level)
    BY <1>3
  <2>2. ASSUME NEW i \in 1..Len(level) PROVE children[i] \in Seq(K)
    BY <1>2, <2>1, FilterIs DEF Filter
  <2>3. children \in [1..Len(level) -> Seq(K)]
    <3>1. children = [i \in 1..Len(level) |-> children[i]]
      BY <2>1
    <3> HIDE DEF children
    <3> QED
      BY <2>2, <3>1
  <2> HIDE DEF children
  <2> QED
    BY <2>1, <2>3, FunctionIsSeq
<1> HIDE DEF children
<1>5. below \in Seq(K)
  BY <1>4, FlattenIs
<1> HIDE DEF below
<1>6. all \o below \in Seq(K) /\ ToSet(all \o below) = ToSet(all) \cup ToSet(below)
  BY <1>3, <1>5, ConcatOf
<1> QED
  BY <1>1, <1>5, <1>6 DEF all

LEMMA TreeIs ==
  ASSUME NEW m, IsModel(m), NEW root \in ToSet(m.classes)
  PROVE  Tree(m, root) \in Seq(ToSet(m.classes)) /\ root \in ToSet(Tree(m, root))
<1> DEFINE c == [model |-> m, root |-> root]
           base == [all |-> <<root>>, level |-> <<root>>]
           classes == m.classes
           n == Len(classes)
<1>1. Tree(c.model, c.root) = Fold(FoldOf("Tree", c),
                               [all |-> <<c.root>>, level |-> <<c.root>>], c.model.classes).all
  <2> DEFINE folded == FoldLeft(LAMBDA tree, step : TreeNext(c, tree, step),
                         [all |-> <<c.root>>, level |-> <<c.root>>], c.model.classes)
  <2> HIDE DEF c
  <2>1. Tree(c.model, c.root) = folded.all
    BY DEF Tree, TreeNext, Descend, FoldLeft, MapThenFoldSet
  <2>2. folded = Fold(FoldOf("Tree", c), [all |-> <<c.root>>, level |-> <<c.root>>],
                      c.model.classes)
    BY DEF Fold, FoldOf, Combine, Max, FoldLeft, MapThenFoldSet
  <2> HIDE DEF folded
  <2> QED
    BY <2>1, <2>2
<1>2. c.model = m /\ c.root = root
  OBVIOUS
<1>3. m.classes \in Seq(ToSet(m.classes))
  BY ToSetOf DEF IsModel
<1> HIDE DEF c
<1>4. Tree(m, root) = Fold(FoldOf("Tree", c), base, classes).all
  BY <1>1, <1>2
<1>5. TreeFollows(c, 0, base)
  BY <1>2 DEF ToSet, TreeFollows
<1>6. n \in Nat /\ DOMAIN classes = 1..n
  BY DEF IsModel
<1> HIDE DEF n, base, classes
<1>7. \A i \in 1..n : \A tree : TreeFollows(c, i-1, tree) =>
        TreeFollows(c, i, TreeNext(c, tree, classes[i]))
  <2> SUFFICES ASSUME NEW i \in 1..n, NEW tree, TreeFollows(c, i-1, tree)
               PROVE  TreeFollows(c, i, Descend(m, tree, classes[i]))
    BY <1>2 DEF TreeNext
  <2> QED
    BY <1>2, <1>3, DescendIs DEF TreeFollows
<1>8. TreeFollows(c, n, Fold(FoldOf("Tree", c), base, classes))
  <2> DEFINE fold == FoldOf("Tree", c)
  <2>1. \A a, e : Combine(fold, a, e) = TreeNext(c, a, e)
    BY DEF Combine, FoldOf
  <2>2. \A k, a : Holds(fold, k, a) <=> TreeFollows(c, k, a)
    BY DEF Holds, FoldOf
  <2> HIDE DEF fold
  <2>3. Holds(fold, 0, base) /\ \A i \in 1..n : \A a :
          Holds(fold, i-1, a) => Holds(fold, i, Combine(fold, a, classes[i]))
    BY <1>5, <1>6, <1>7, <2>1, <2>2
  <2>4. TreeFollows(c, n, Fold(fold, base, classes))
    BY <1>5, <1>6, <1>7, <2>2, <2>3, FoldInduction
  <2> QED
    BY <2>4 DEF fold
<1> QED
  BY <1>2, <1>4, <1>8 DEF TreeFollows

(* The columns of attributes.                                              *)

LEMMA AttributesOfIs ==
  ASSUME NEW classes, classes \subseteq ClassType, NEW tree \in Seq(classes)
  PROVE  AttributesOf(tree) \in Seq(HeldIn(classes))
<1> DEFINE n == Len(tree)
           Held == HeldIn(classes)
           f == [k \in DOMAIN tree |->
                   [i \in DOMAIN tree[k].attrs |->
                      [attr |-> tree[k].attrs[i], cls |-> tree[k], nullable |-> k # 1]]]
<1>1. AttributesOf(tree) = FlattenSeq(f)
  BY DEF AttributesOf
<1>2. n \in Nat /\ DOMAIN tree = 1..n
  OBVIOUS
<1> HIDE DEF n, Held
<1>3. ASSUME NEW k \in 1..n PROVE f[k] \in Seq(Held)
  <2> DEFINE class == tree[k]
             attrs == class.attrs
             first == (k # 1)
  <2>1. f[k] = [i \in DOMAIN attrs |-> [attr |-> attrs[i], cls |-> class, nullable |-> first]]
    BY <1>2
  <2>2. class \in ClassType /\ class \in classes
    BY <1>2
  <2>3. first \in BOOLEAN
    OBVIOUS
  <2> HIDE DEF first, f
  <2>4. attrs \in Seq(AttributeType)
    <3> HIDE DEF class
    <3> QED
      BY <2>2 DEF ClassType
  <2>5. attrs = class.attrs
    OBVIOUS
  <2> HIDE DEF attrs, class
  <2>6. Len(attrs) \in Nat /\ DOMAIN attrs = 1..Len(attrs)
    BY <2>4
  <2>7. ASSUME NEW i \in 1..Len(attrs)
        PROVE  [attr |-> attrs[i], cls |-> class, nullable |-> first] \in Held
    <3> DEFINE e == attrs[i]
               a == [attr |-> e, cls |-> class, nullable |-> first]
    <3>1. e \in AttributeType /\ e \in ToSet(attrs)
      BY <2>4, <2>6 DEF ToSet
    <3> HIDE DEF e
    <3>2. a \in HeldAttribute /\ a.cls = class /\ a.attr = e
      BY <2>2, <2>3, <3>1 DEF HeldAttribute
    <3> HIDE DEF a
    <3>3. a \in Held
      BY <2>2, <2>5, <3>1, <3>2 DEF Held, HeldIn
    <3> QED
      BY <3>3 DEF a, e
  <2>8. f[k] \in [1..Len(attrs) -> Held]
    BY <2>1, <2>6, <2>7
  <2> QED
    BY <2>6, <2>8, FunctionIsSeq
<1>4. f = [k \in 1..n |-> f[k]]
  BY <1>2
<1> HIDE DEF f
<1>5. f \in [1..n -> Seq(Held)]
  BY <1>3, <1>4
<1>6. f \in Seq(Seq(Held))
  BY <1>2, <1>5, FunctionIsSeq
<1> QED
  BY <1>1, <1>6, FlattenIs DEF Held

(* What the stages after the hierarchy refuse: a name without letters, an  *)
(* attribute of a type that is gone.                                       *)

LEMMA AttributeErrorIsDue ==
  ASSUME NEW m, NEW a \in HeldIn(ToSet(m.classes)), NEW taken
  PROVE  IsDue(m, AttributeColumnError(a, taken, m))
<1>1. a.cls \in ToSet(m.classes) /\ a.attr \in ToSet(a.cls.attrs)
  BY DEF HeldIn
<1>2. a.cls \in NamedElements(m) /\ a.attr \in NamedElements(m)
  BY <1>1 DEF NamedElements
<1>3. CASE ~HasSnakeCase(a.attr.name) \/ (SnakeCase(a.attr.name) \in taken /\ ~HasSnakeCase(a.cls.name))
  BY <1>2, <1>3 DEF HasSnakeNames, AttributeColumnError, IsDue
<1>4. CASE ~(~HasSnakeCase(a.attr.name) \/ (SnakeCase(a.attr.name) \in taken /\ ~HasSnakeCase(a.cls.name)))
  BY <1>1, <1>4 DEF AttributeColumnError, IsDue, HasUnknownType
<1> QED
  BY <1>3, <1>4

LEMMA AttributeColumnIs ==
  ASSUME StringFacts, NEW m, IsModel(m), NEW a \in HeldAttribute, NEW taken, IsFiniteSet(taken),
         AttributeColumnError(a, taken, m) = "none"
  PROVE  LET column == AttributeColumn(a, taken, m)
         IN  /\ column.name \in Seq(Word) \ taken
             /\ IsEnum(column) => column.enum \in NamesOf(EnumTypes(m))
<1> DEFINE column == AttributeColumn(a, taken, m)
<1>1. a.attr \in AttributeType /\ a.cls \in ClassType
  BY DEF HeldAttribute
<1>2. SnakeCase(a.attr.name) \in Seq(Word) /\ a.cls.name \in NameType
  BY <1>1 DEF AttributeType, ClassType, SnakeCase, NameType
<1>3. column.name \in Seq(Word) \ taken
  BY <1>2, UniqueOwnedNameIsFree DEF AttributeColumn
<1>4. CASE a.attr.type.tag = "ENUM"
  BY <1>4, <1>3, EnumTypeNameIs DEF AttributeColumnError, AttributeColumn
<1>5. CASE a.attr.type.tag # "ENUM"
  BY <1>5, <1>3 DEF AttributeColumn, IsEnum
<1> QED
  BY <1>4, <1>5

LEMMA MapAttributeFollows ==
  ASSUME StringFacts, NEW c, NEW m, m = c.model, IsModel(m), NEW i \in Nat,
         NEW draft, DraftFollows(c, i - 1, draft), NEW a \in HeldIn(ToSet(m.classes))
  PROVE  DraftFollows(c, i, MapAttribute(m, draft, a))
<1> DEFINE taken == ColumnNames(draft.columns)
           error == AttributeColumnError(a, taken, m)
           column == AttributeColumn(a, taken, m)
           next == MapAttribute(m, draft, a)
<1>1. a \in HeldAttribute /\ IsDue(m, error) /\ IsDue(m, draft.error)
  BY AttributeErrorIsDue DEF HeldIn, DraftFollows
<1>2. CASE draft.error # "none" \/ error # "none"
  <2>1. next = [draft EXCEPT !.error = IF @ = "none" THEN error ELSE @]
    BY <1>2 DEF MapAttribute
  <2> HIDE DEF error, next
  <2>2. next.error # "none" /\ DOMAIN next = {"columns", "error"}
    BY <1>2, <2>1 DEF DraftFollows
  <2>3. next.error \in {error, draft.error}
    BY <2>1 DEF DraftFollows
  <2> QED
    BY <1>1, <2>2, <2>3 DEF DraftFollows, next
<1>3. CASE ~(draft.error # "none" \/ error # "none")
  <2>1. next = [draft EXCEPT !.columns = Append(@, column)]
    BY <1>3 DEF MapAttribute
  <2>2. ColumnsAre(draft.columns, EnumTypes(m)) /\ {Id} \cup c.fixed \subseteq taken
    BY <1>3 DEF DraftFollows
  <2>3. IsFiniteSet(taken)
    BY <2>2, NamesFinite DEF ColumnsAre
  <2> HIDE DEF taken
  <2>4. column.name \in Seq(Word) \ taken /\ (IsEnum(column) => column.enum \in NamesOf(EnumTypes(m)))
    BY <1>1, <1>3, <2>3, AttributeColumnIs
  <2>5. /\ DOMAIN next = {"columns", "error"} /\ next.columns = Append(draft.columns, column)
        /\ next.error = draft.error
    BY <2>1 DEF DraftFollows
  <2> HIDE DEF column, next
  <2>6. /\ ColumnsAre(next.columns, EnumTypes(m))
        /\ ColumnNames(next.columns) = taken \cup {column.name}
    BY <2>2, <2>4, <2>5, ColumnAdded DEF taken
  <2> QED
    BY <1>1, <2>2, <2>5, <2>6 DEF DraftFollows, next
<1> QED
  BY <1>2, <1>3

LEMMA DraftIs ==
  ASSUME StringFacts, NEW c, NEW m, m = c.model, IsModel(m), NEW base,
         NEW attributes \in Seq(HeldIn(ToSet(m.classes))), DraftFollows(c, 0, base)
  PROVE  DraftFollows(c, Len(attributes), Drafted(m, base, attributes))
<1> DEFINE n == Len(attributes)
           folded == Drafted(m, base, attributes)
<1>1. Drafted(c.model, base, attributes) = Fold(FoldOf("Drafted", c), base, attributes)
  BY DEF Drafted, Fold, FoldOf, Combine, Max,
         DraftNext, FoldLeft, MapThenFoldSet
<1>2. n \in Nat /\ DOMAIN attributes = 1..n
  OBVIOUS
<1>3. \A i \in 1..n : \A draft : DraftFollows(c, i-1, draft) =>
        DraftFollows(c, i, DraftNext(c, draft, attributes[i]))
  <2> SUFFICES ASSUME NEW i \in 1..n, NEW draft, DraftFollows(c, i-1, draft)
               PROVE  DraftFollows(c, i, MapAttribute(m, draft, attributes[i]))
    BY DEF DraftNext
  <2>1. i \in Nat /\ attributes[i] \in HeldIn(ToSet(m.classes))
    BY <1>2
  <2> QED
    BY <2>1, MapAttributeFollows
<1> HIDE DEF n, folded
<1>4. DraftFollows(c, n, Fold(FoldOf("Drafted", c), base, attributes))
  <2> DEFINE fold == FoldOf("Drafted", c)
  <2>1. \A a, e : Combine(fold, a, e) = DraftNext(c, a, e)
    BY DEF Combine, FoldOf
  <2>2. \A k, a : Holds(fold, k, a) <=> DraftFollows(c, k, a)
    BY DEF Holds, FoldOf
  <2> HIDE DEF fold
  <2>3. Holds(fold, 0, base) /\ \A i \in 1..n : \A a :
          Holds(fold, i-1, a) => Holds(fold, i, Combine(fold, a, attributes[i]))
    BY <1>2, <1>3, <2>1, <2>2
  <2>4. DraftFollows(c, n, Fold(fold, base, attributes))
    BY <1>2, <1>3, <2>2, <2>3, FoldInduction
  <2> QED
    BY <2>4 DEF fold
<1> QED
  BY <1>1, <1>4 DEF n, folded

(* Tables.                                                                 *)

LEMMA NoneNamed ==
  ASSUME NEW prefix, NEW table, NEW columns
  PROVE  NamedBy(prefix, table, columns, <<>>)
BY DEF NamedBy, IsInjective

(* A constraint over a column that no constraint is over yet has a name of *)
(* its own.                                                                *)
LEMMA NameOfNewKey ==
  ASSUME NEW prefix, NEW table \in Seq(Word), NEW columns, NEW all, columns \subseteq all,
         all \subseteq Seq(Word), NEW column \in all \ columns,
         NEW names, NamedBy(prefix, table, columns, names)
  PROVE  NamedBy(prefix, table, all, Append(names, Part(prefix, table, column)))
<1> DEFINE P == Parts(prefix, table, columns)
           Q == Parts(prefix, table, all)
           e == Part(prefix, table, column)
           longer == Append(names, e)
           n == Len(names)
<1>1. names \in Seq(P) /\ IsInjective(names)
  BY DEF NamedBy
<1>2. P \subseteq Q /\ e \in Q
  BY DEF Parts
<1>3. e \notin P
  <2> SUFFICES ASSUME NEW c \in columns, e = Part(prefix, table, c) PROVE FALSE
    BY DEF Parts
  <2>1. column = c
    BY PartsDiffer
  <2> QED
    BY <2>1
<1> HIDE DEF P, Q, e
<1>4. n \in Nat /\ DOMAIN names = 1..n /\ names \in Seq(Q) /\ \A i \in 1..n : names[i] # e
  BY <1>1, <1>2, <1>3
<1>5. longer \in Seq(Q)
  BY <1>2, <1>4
<1>6. IsLonger(longer, names, e)
  BY <1>1, LongerIs, Zenon
<1> HIDE DEF longer
<1>7. /\ DOMAIN longer = 1..(n + 1) /\ longer[n + 1] = e
      /\ \A i \in 1..n : longer[i] = names[i]
  BY <1>6 DEF IsLonger
<1>8. \A i, j \in 1..n : names[i] = names[j] => i = j
  BY <1>1, <1>4 DEF IsInjective
<1>9. \A i, j \in 1..(n + 1) : longer[i] = longer[j] => i = j
  <2> SUFFICES ASSUME NEW i \in 1..(n + 1), NEW j \in 1..(n + 1), longer[i] = longer[j]
               PROVE  i = j
    OBVIOUS
  <2>1. \A k \in 1..(n + 1) : k \in 1..n \/ k = n + 1
    BY <1>4
  <2> QED
    BY <1>4, <1>7, <1>8, <2>1
<1> QED
  BY <1>5, <1>7, <1>9 DEF NamedBy, IsInjective, Q, longer, e

LEMMA NamedByMore ==
  ASSUME NEW prefix, NEW table, NEW columns, NEW all, columns \subseteq all,
         NEW names, NamedBy(prefix, table, columns, names)
  PROVE  NamedBy(prefix, table, all, names)
BY SeqMonotone DEF Parts, NamedBy

LEMMA KeyNamesOfLonger ==
  ASSUME NEW S, NEW fks \in Seq(S), NEW f
  PROVE  KeyNames(Append(fks, f)) = Append(KeyNames(fks), f.name)
<1> DEFINE n == Len(fks)
           longer == Append(fks, f)
           names == KeyNames(fks)
           N == {names[i] : i \in 1..n} \cup {f.name}
           more == Append(names, f.name)
<1>1. n \in Nat /\ DOMAIN fks = 1..n
  OBVIOUS
<1>2. IsLonger(longer, fks, f)
  BY LongerIs, Zenon
<1>3. names = [i \in 1..n |-> fks[i].name]
  BY <1>1 DEF KeyNames
<1>4. names \in [1..n -> N]
  BY <1>1, <1>3
<1> HIDE DEF longer, n, names, N
<1>5. names \in Seq(N) /\ Len(names) = n
  BY <1>1, <1>4, FunctionIsSeq
<1>6. IsLonger(more, names, f.name)
  BY <1>5, LongerIs, Zenon
<1> HIDE DEF more
<1>7. DOMAIN longer = 1..(n + 1) /\ DOMAIN more = 1..(n + 1)
  BY <1>2, <1>5, <1>6 DEF IsLonger, n
<1>8. \A i \in 1..(n + 1) : longer[i].name = more[i]
  <2> TAKE i \in 1..(n + 1)
  <2>1. CASE i = n + 1
    BY <1>2, <1>5, <1>6, <2>1 DEF IsLonger, n
  <2>2. CASE i # n + 1
    <3>1. i \in 1..n
      BY <1>1, <2>2
    <3>2. longer[i] = fks[i]
      BY <1>2, <3>1 DEF IsLonger, n
    <3>3. more[i] = names[i]
      BY <1>5, <1>6, <3>1 DEF IsLonger
    <3>4. names[i] = fks[i].name
      BY <1>3, <3>1
    <3> QED
      BY <3>2, <3>3, <3>4
  <2> QED
    BY <2>1, <2>2
<1>9. more = [i \in 1..(n + 1) |-> more[i]]
  <2>1. more \in Seq(ToSet(more))
    BY <1>6 DEF IsLonger
  <2> QED
    BY <1>7, <2>1
<1>10. KeyNames(longer) = [i \in 1..(n + 1) |-> longer[i].name]
  BY <1>7 DEF KeyNames
<1>11. KeyNames(longer) = more
  BY <1>8, <1>9, <1>10
<1> QED
  BY <1>11 DEF longer, more, names

(* Stage 3: after n roots, each of them has a table.                       *)

(* A table with a name of its own may be added.                            *)
LEMMA TableAdded ==
  ASSUME NEW types, NEW tables, TablesAre(tables, types),
         NEW t, TableIs(t, types), t.name \notin NamesOf(tables),
         \A f \in ToSet(t.fks) : f.table \in NamesOf(tables)
  PROVE  /\ TablesAre(Append(tables, t), types)
         /\ ToSet(Append(tables, t)) = ToSet(tables) \cup {t}
<1> DEFINE longer == Append(tables, t)
<1>1. tables \in Seq(ToSet(tables)) /\ DistinctNames(tables)
  BY DEF TablesAre
<1>2. /\ longer \in Seq(ToSet(longer)) /\ ToSet(longer) = ToSet(tables) \cup {t}
      /\ DistinctNames(longer) /\ NamesOf(longer) = NamesOf(tables) \cup {t.name}
  BY <1>1, NameAdded
<1> HIDE DEF longer
<1> QED
  BY <1>2 DEF TablesAre, longer

LEMMA TableNamesFinite ==
  ASSUME NEW types, NEW tables, TablesAre(tables, types)
  PROVE  IsFiniteSet(NamesOf(tables))
BY NamesFinite DEF TablesAre

LEMMA DrawnIs ==
  ASSUME StringFacts, NEW m, IsModel(m), NEW root \in ToSet(m.classes)
  PROVE  /\ IsDue(m, Drawn(m, root).error)
         /\ Drawn(m, root).error = "none" =>
              /\ ColumnsAre(Drawn(m, root).columns, EnumTypes(m))
              /\ Len(Tree(m, root)) # 1 => <<"class", "type">> \in ColumnNames(Drawn(m, root).columns)
<1> DEFINE tree == Tree(m, root)
           attributes == AttributesOf(tree)
           one == <<PlainColumn(Id, "UUID", FALSE)>>
           two == <<PlainColumn(Id, "UUID", FALSE), PlainColumn(<<"class", "type">>, "VARCHAR", FALSE)>>
           fixed == IF Len(tree) = 1 THEN one ELSE two
           base == [columns |-> fixed,
                    error |-> IF HasSnakeCase(root.name) THEN "none" ELSE "InvalidElementName"]
           c == [model |-> m, fixed |-> IF Len(tree) = 1 THEN {} ELSE {<<"class", "type">>}]
<1>1. Drawn(m, root) = Drafted(m, base, attributes)
  BY DEF Drawn
<1>2. tree \in Seq(ToSet(m.classes))
  BY TreeIs
<1>3. attributes \in Seq(HeldIn(ToSet(m.classes)))
  BY <1>2, ToSetOf, AttributesOfIs DEF IsModel
<1>4. /\ ColumnsAre(one, EnumTypes(m)) /\ ColumnNames(one) = {Id}
      /\ ColumnsAre(two, EnumTypes(m)) /\ {Id, <<"class", "type">>} \subseteq ColumnNames(two)
  BY FixedColumns
<1>c. c.model = m /\ c.fixed = IF Len(tree) = 1 THEN {} ELSE {<<"class", "type">>}
  OBVIOUS
<1> HIDE DEF tree, attributes, one, two, c
<1>5. DraftFollows(c, 0, base)
  BY <1>4, <1>c DEF NamedElements, IsDue, HasSnakeNames, DraftFollows
<1> HIDE DEF base
<1>6. DraftFollows(c, Len(attributes), Drawn(m, root))
  BY <1>1, <1>3, <1>5, <1>c, DraftIs
<1> QED
  BY <1>6, <1>c DEF DraftFollows, tree

LEMMA RootFollows ==
  ASSUME StringFacts, NEW m, IsModel(m), NEW i \in Nat \ {0}, NEW s, RootsFollow(m, i - 1, s),
         Roots(m)[i] \in ToSet(m.classes)
  PROVE  RootsFollow(m, i, MapTableForRoot(m, s, Roots(m)[i]))
<1> DEFINE root == Roots(m)[i]
           tree == Tree(m, root)
           drawn == Drawn(m, root)
           classes == [k \in DOMAIN tree |-> tree[k].id]
           name == UniqueName(NamesOf(s.tables), SnakeCase(root.name))
           table == [name |-> name,
                     columns |-> drawn.columns, fks |-> <<>>, uniques |-> <<>>, indexes |-> <<>>,
                     classes |-> classes,
                     discriminator |-> IF Len(tree) = 1 THEN <<>>
                                       ELSE [k \in DOMAIN tree |-> tree[k].name],
                     profile |-> ParseTableProfile(ProfileAt(m, root.id))]
           next == MapTableForRoot(m, s, root)
<1>1. next = IF s.error # "none" THEN s
             ELSE [s EXCEPT !.tables = Append(@, table), !.error = drawn.error]
  BY Zenon DEF MapTableForRoot, Drawn, Drafted
<1>n. s.error = "none" => next = [s EXCEPT !.tables = Append(s.tables, table), !.error = drawn.error]
  BY <1>1, Zenon
<1>2. CASE s.error # "none"
  BY <1>1, <1>2 DEF RootsFollow
<1>3. CASE s.error = "none"
  <2>1. TablesAre(s.tables, EnumTypes(m)) /\ Covers(m, i - 1, s.tables) /\ AreKeyless(s.tables)
    BY <1>3 DEF RootsFollow
  <2>2. next = [s EXCEPT !.tables = Append(s.tables, table), !.error = drawn.error]
    BY <1>n, <1>3
  <2>3. /\ DOMAIN next = {"error", "tables", "enumTypes"}
        /\ next.tables = Append(s.tables, table) /\ next.error = drawn.error
    <3> DEFINE tables == Append(s.tables, table)
               error == drawn.error
    <3>1. next = [s EXCEPT !.tables = tables, !.error = error]
      BY <2>2
    <3> HIDE DEF tables, error, next
    <3>2. /\ DOMAIN next = {"error", "tables", "enumTypes"}
          /\ next.tables = tables /\ next.error = error
      BY <3>1 DEF RootsFollow
    <3> QED
      BY <3>2 DEF tables, error
  <2>4. CASE drawn.error # "none"
    BY <2>3, <2>4, DrawnIs DEF RootsFollow
  <2>5. CASE drawn.error = "none"
    <3>1. /\ ColumnsAre(drawn.columns, EnumTypes(m)) /\ IsDue(m, drawn.error)
          /\ Len(tree) # 1 => <<"class", "type">> \in ColumnNames(drawn.columns)
      BY <2>5, DrawnIs
    <3>2. name \in Seq(Word) \ NamesOf(s.tables)
      <4>1. SnakeCase(root.name) \in Seq(Word)
        <5>1. root \in ClassType
          BY ToSetOf DEF IsModel
        <5> QED
          BY <5>1 DEF SnakeCase, ClassType, NameType
      <4> QED
        BY <2>1, <4>1, TableNamesFinite, UniqueNameIsFree
    <3>3. tree \in Seq(ToSet(m.classes)) /\ root \in ToSet(tree)
      BY TreeIs
    <3>4. Contains(classes, root.id) /\ classes \in Seq(ToSet(classes))
      <4> HIDE DEF tree
      <4>1. PICK k \in DOMAIN tree : tree[k] = root
        BY <3>3 DEF ToSet
      <4>2. Len(tree) \in Nat /\ DOMAIN tree = 1..Len(tree)
        BY <3>3
      <4>3. classes \in [1..Len(tree) -> {tree[j].id : j \in 1..Len(tree)}]
        BY <4>2
      <4>4. classes[k] = root.id
        BY <4>1
      <4> HIDE DEF classes
      <4>5. /\ Len(classes) = Len(tree)
            /\ classes \in Seq({tree[j].id : j \in 1..Len(tree)})
        BY <4>2, <4>3, FunctionIsSeq
      <4>6. classes \in Seq(ToSet(classes))
        BY <4>5, ToSetOf
      <4> QED
        BY <4>1, <4>2, <4>4, <4>5, <4>6 DEF Contains
    <3>5. TableIs(table, EnumTypes(m)) /\ table.fks = <<>>
      <4> HIDE DEF classes, name, drawn
      <4>1. /\ DOMAIN table = TableFields /\ table.name = name /\ table.columns = drawn.columns
            /\ table.fks = <<>> /\ table.uniques = <<>> /\ table.indexes = <<>>
            /\ table.classes = classes /\ (table.discriminator # <<>> => Len(tree) # 1)
        BY DEF TableFields
      <4> HIDE DEF table
      <4>2. KeyNames(<<>>) = <<>> /\ ToSet(<<>>) = {} /\ <<>> \in Seq({})
        BY DEF KeyNames, ToSet
      <4> QED
        BY <3>1, <3>2, <3>4, <4>1, <4>2, NoneNamed DEF TableIs
    <3>6. table.name = name /\ table.classes = classes
      OBVIOUS
    <3> HIDE DEF table, name, classes, next
    <3>7. /\ TablesAre(next.tables, EnumTypes(m))
          /\ ToSet(next.tables) = ToSet(s.tables) \cup {table}
      <4>1. ToSet(<<>>) = {}
        BY DEF ToSet
      <4> QED
        BY <2>1, <2>3, <3>2, <3>5, <3>6, <4>1, TableAdded
    <3>8. Covers(m, i, next.tables)
      <4> SUFFICES ASSUME NEW j \in 1..i
                   PROVE  \E t \in ToSet(next.tables) : Contains(t.classes, Roots(m)[j].id)
        BY DEF Covers
      <4>1. j \in 1..(i - 1) \/ j = i
        OBVIOUS
      <4> QED
        BY <2>1, <3>4, <3>6, <3>7, <4>1 DEF Covers
    <3>9. AreKeyless(next.tables)
      BY <2>1, <3>5, <3>7 DEF AreKeyless
    <3> QED
      BY <2>3, <3>1, <3>7, <3>8, <3>9 DEF RootsFollow, next
  <2> QED
    BY <2>4, <2>5
<1> QED
  BY <1>2, <1>3

LEMMA RootsAre ==
  ASSUME NEW m, IsModel(m)
  PROVE  /\ Roots(m) \in Seq(ClassType)
         /\ ToSet(Roots(m)) = {c \in ToSet(m.classes) : ~HasParent(m, c.id)}
<1> DEFINE kept == {c \in ToSet(m.classes) : ~HasParent(m, c.id)}
           classes == m.classes
<1>1. Roots(m) = Only(classes, kept)
  BY DEF Roots, Filter
<1>2. classes \in Seq(ClassType)
  BY DEF IsModel
<1> HIDE DEF classes, kept
<1>3. Roots(m) \in Seq(ClassType)
  BY <1>1, <1>2, FilterIs
<1>4. ToSet(Roots(m)) = ToSet(classes) \cap kept
  BY <1>1, <1>2, OnlyPicks
<1> QED
  BY <1>3, <1>4 DEF kept, classes

LEMMA TablesOfRoots ==
  ASSUME StringFacts, NEW m, IsModel(m), NEW started, RootsFollow(m, 0, started)
  PROVE  RootsFollow(m, Len(Roots(m)),
           FoldLeft(LAMBDA s, root : MapTableForRoot(m, s, root), started, Roots(m)))
<1> DEFINE roots == Roots(m)
           n == Len(roots)
           folded == FoldLeft(LAMBDA s, root : MapTableForRoot(m, s, root), started, roots)
<1>1. folded = Fold(FoldOf("Roots", m), started, roots)
  BY DEF Fold, FoldOf, Combine, Max,
         FoldLeft, MapThenFoldSet
<1>2. roots \in Seq(ToSet(m.classes))
  <2>1. roots \in Seq(ClassType) /\ ToSet(roots) \subseteq ToSet(m.classes)
    BY RootsAre
  <2> HIDE DEF roots
  <2> QED
    BY <2>1, ToSetOf
<1>3. \A i \in 1..n : roots[i] = Roots(m)[i]
  OBVIOUS
<1> HIDE DEF roots
<1>4. n \in Nat /\ DOMAIN roots = 1..n /\ \A i \in 1..n : roots[i] \in ToSet(m.classes)
  BY <1>2
<1> HIDE DEF n, folded
<1>5. \A i \in 1..n : \A s : RootsFollow(m, i-1, s) =>
        RootsFollow(m, i, MapTableForRoot(m, s, roots[i]))
  <2> SUFFICES ASSUME NEW i \in 1..n, NEW s, RootsFollow(m, i-1, s)
               PROVE  RootsFollow(m, i, MapTableForRoot(m, s, roots[i]))
    OBVIOUS
  <2>1. i \in Nat \ {0} /\ roots[i] = Roots(m)[i] /\ roots[i] \in ToSet(m.classes)
    BY <1>3, <1>4
  <2> QED
    BY <2>1, RootFollows
<1>6. RootsFollow(m, n, Fold(FoldOf("Roots", m), started, roots))
  <2> DEFINE fold == FoldOf("Roots", m)
  <2>1. \A a, e : Combine(fold, a, e) = MapTableForRoot(m, a, e)
    BY DEF Combine, FoldOf
  <2>2. \A k, a : Holds(fold, k, a) <=> RootsFollow(m, k, a)
    BY DEF Holds, FoldOf
  <2> HIDE DEF fold
  <2>3. Holds(fold, 0, started) /\ \A i \in 1..n : \A a :
          Holds(fold, i-1, a) => Holds(fold, i, Combine(fold, a, roots[i]))
    BY <1>4, <1>5, <2>1, <2>2
  <2>4. RootsFollow(m, n, Fold(fold, started, roots))
    BY <1>4, <1>5, <2>2, <2>3, FoldInduction
  <2> QED
    BY <2>4 DEF fold
<1>7. RootsFollow(m, n, folded)
  BY <1>1, <1>6
<1> QED
  BY <1>7, Zenon DEF n, folded, roots

(* The root of a class, where the hierarchy is in order.                   *)
LEMMA InHierarchy ==
  ASSUME NEW m, HierarchyError(m) = "none"
  PROVE  /\ \A r \in ToSet(m.rels) : {r.source.cls, r.target.cls} \subseteq IdsOf(m.classes)
         /\ \A id \in IdsOf(m.classes) : ~HasParent(m, RootOf(m, id))
BY DEF HierarchyError, HasGeneralizationCycle

LEMMA RootOfIs ==
  ASSUME NEW m, IsModel(m), HierarchyError(m) = "none", NEW id \in IdsOf(m.classes)
  PROVE  \E i \in 1..Len(Roots(m)) : Roots(m)[i].id = RootOf(m, id)
<1> DEFINE n == Len(m.classes)
           steps == [step \in 1..n |-> step]
<1>1. RootOf(m, id) = Fold(FoldOf("Ancestor", m), id, steps)
  BY DEF RootOf, Ancestor, AncestorNext, Fold, FoldOf, Combine, Max, FoldLeft, MapThenFoldSet
<1>2. n \in Nat
  BY DEF IsModel
<1> HIDE DEF n
<1>3. steps \in [1..n -> Nat]
  BY <1>2
<1>4. Len(steps) = n /\ DOMAIN steps = 1..n
  <2> HIDE DEF steps
  <2> QED
    BY <1>2, <1>3, FunctionIsSeq
<1> HIDE DEF steps
<1>5. AncestorFollows(m, 0, id)
  BY DEF AncestorFollows
<1>6. \A i \in 1..n : \A at : AncestorFollows(m, i-1, at) =>
        AncestorFollows(m, i, AncestorNext(m, at, steps[i]))
  <2> SUFFICES ASSUME NEW at \in IdsOf(m.classes)
               PROVE  (IF HasParent(m, at) THEN ParentOf(m, at) ELSE at) \in IdsOf(m.classes)
    BY DEF AncestorNext, AncestorFollows
  <2>1. HasParent(m, at) => ParentOf(m, at) \in ParentsOf(m, at)
    BY DEF HasParent, ParentOf
  <2>2. ParentsOf(m, at) \subseteq IdsOf(m.classes)
    BY InHierarchy DEF ParentsOf
  <2> QED
    BY <2>1, <2>2
<1>7. AncestorFollows(m, n, Fold(FoldOf("Ancestor", m), id, steps))
  <2> DEFINE fold == FoldOf("Ancestor", m)
  <2>1. \A a, e : Combine(fold, a, e) = AncestorNext(m, a, e)
    BY DEF Combine, FoldOf
  <2>2. \A k, a : Holds(fold, k, a) <=> AncestorFollows(m, k, a)
    BY DEF Holds, FoldOf
  <2> HIDE DEF fold
  <2>3. Holds(fold, 0, id) /\ \A i \in 1..n : \A a :
          Holds(fold, i-1, a) => Holds(fold, i, Combine(fold, a, steps[i]))
    BY <1>2, <1>4, <1>5, <1>6, <2>1, <2>2
  <2>4. AncestorFollows(m, n, Fold(fold, id, steps))
    BY <1>2, <1>4, <1>5, <1>6, <2>2, <2>3, FoldInduction
  <2> QED
    BY <2>4 DEF fold
<1>8. RootOf(m, id) \in IdsOf(m.classes)
  BY <1>1, <1>7 DEF AncestorFollows
<1>9. PICK c \in ToSet(m.classes) : c.id = RootOf(m, id)
  BY <1>8 DEF IdsOf, ToSet
<1>10. c \in ToSet(Roots(m))
  BY <1>9, InHierarchy, RootsAre
<1>11. DOMAIN Roots(m) = 1..Len(Roots(m))
  BY RootsAre
<1> QED
  BY <1>9, <1>10, <1>11 DEF ToSet

(* So the table of a class is found, and it is not a join table.           *)
LEMMA TableOfClassIs ==
  ASSUME NEW m, IsModel(m), HierarchyError(m) = "none", NEW id \in IdsOf(m.classes),
         NEW s, s.tables \in Seq(ToSet(s.tables)), Covers(m, Len(Roots(m)), s.tables)
  PROVE  /\ TableOfClass(m, s, id) \in DOMAIN s.tables
         /\ s.tables[TableOfClass(m, s, id)].classes # <<>>
<1> DEFINE tables == s.tables
           root == RootOf(m, id)
           I == {i \in 1..Len(tables) : Contains(tables[i].classes, root)}
           at == IF I # {} THEN Min(I) ELSE 0
<1>1. TableOfClass(m, s, id) = at
  BY DEF TableOfClass, SelectInSeq
<1>2. tables \in Seq(ToSet(tables))
  OBVIOUS
<1>3. \E t \in ToSet(tables) : Contains(t.classes, root)
  BY RootOfIs DEF Covers
<1> HIDE DEF tables, root
<1>4. DOMAIN tables = 1..Len(tables)
  BY <1>2
<1>5. I # {}
  BY <1>3, <1>4 DEF ToSet
<1>6. I = {i \in 1..Len(tables) : i \in I}
  OBVIOUS
<1>7. at \in I
  <2> HIDE DEF I
  <2> QED
    BY <1>2, <1>5, <1>6, SelectedIs
<1> HIDE DEF at
<1>8. at \in DOMAIN tables /\ Contains(tables[at].classes, root)
  BY <1>4, <1>7
<1>9. ~Contains(<<>>, root)
  BY DEF Contains
<1> QED
  BY <1>1, <1>8, <1>9 DEF tables

(* Stage 4: keys.                                                          *)
LEMMA FkColumnIs ==
  ASSUME StringFacts, NEW end \in EndType, NEW table \in Seq(Word), NEW taken, IsFiniteSet(taken)
  PROVE  FkColumnName(end, table, taken) \in Seq(Word) \ taken
<1> DEFINE base == (IF end.role = NoName THEN table ELSE SnakeCase(end.role)) \o Id
<1>1. SnakeCase(end.role) \in Seq(Word)
  BY DEF SnakeCase, EndType, NameType
<1>2. Id \in Seq(Word)
  BY FixedNames
<1>3. base \in Seq(Word)
  BY <1>1, <1>2
<1> QED
  BY <1>3, UniqueNameIsFree DEF FkColumnName

(* A table that gets a key over a new column.                              *)
LEMMA KeyAdded ==
  ASSUME NEW types, NEW t, TableIs(t, types), t.classes # <<>>,
         NEW column \in Seq(Word) \ ColumnNames(t.columns), NEW rel, NEW referenced, NEW to
  PROVE  LET next == AddKey(t, rel, referenced, column, to)
         IN  /\ TableIs(next, types) /\ next.name = t.name /\ next.classes = t.classes
             /\ \A f \in ToSet(next.fks) : f \in ToSet(t.fks) \/ f.table = to
<1> DEFINE composed == rel.kind = "composition"
           nullable == IF composed THEN rel.source.cls = rel.target.cls
                       ELSE referenced.mult.lower <= 0
           oneToOne == ~IsMany(rel.source.mult) /\ ~IsMany(rel.target.mult)
           action == IF composed THEN "CASCADE" ELSE "NO_ACTION"
           plain == PlainColumn(column, "UUID", nullable)
           key == ForeignKey(t.name, column, to, action, rel)
           columns == Append(t.columns, plain)
           fks == Append(t.fks, key)
           uniques == IF oneToOne THEN Append(t.uniques, Part("uq", t.name, column)) ELSE t.uniques
           indexes == IF oneToOne THEN t.indexes ELSE Append(t.indexes, Part("ix", t.name, column))
           next == AddKey(t, rel, referenced, column, to)
           names == ColumnNames(t.columns)
           all == names \cup {column}
<1>1. next = [t EXCEPT !.columns = columns, !.fks = fks, !.uniques = uniques, !.indexes = indexes]
  BY Zenon DEF AddKey
<1>2. key.name = Part("fk", t.name, column) /\ key.column = column /\ key.table = to
  BY DEF ForeignKey
<1>3. plain.name = column /\ ~IsEnum(plain) /\ plain.owner = NoOwner
  BY PlainColumnIs
<1>4. /\ DOMAIN t = TableFields /\ t.name \in Seq(Word) /\ ColumnsAre(t.columns, types)
      /\ t.classes \in Seq(ToSet(t.classes))
      /\ t.fks \in Seq(ToSet(t.fks)) /\ \A f \in ToSet(t.fks) : f.column \in names
      /\ NamedBy("fk", t.name, names, KeyNames(t.fks))
      /\ NamedBy("uq", t.name, names, t.uniques)
      /\ NamedBy("ix", t.name, names, t.indexes)
      /\ t.discriminator # <<>> =>
           /\ <<"class", "type">> \in names
           /\ \A f \in ToSet(t.fks) : f.column # <<"class", "type">>
  BY DEF TableIs, KeyColumns
<1>5. names \subseteq Seq(Word)
  BY <1>4 DEF ColumnsAre
<1>6. column \in all \ names /\ names \subseteq all /\ all \subseteq Seq(Word)
  BY <1>5
<1> HIDE DEF key, plain
<1>7. ColumnsAre(columns, types) /\ ColumnNames(columns) = all
  BY <1>3, <1>4, ColumnAdded
<1>8. fks \in Seq(ToSet(fks)) /\ ToSet(fks) = ToSet(t.fks) \cup {key}
  <2>1. IsLonger(fks, t.fks, key)
    BY <1>4, LongerIs, Zenon
  <2> HIDE DEF fks
  <2> QED
    BY <2>1 DEF IsLonger
<1>9. KeyNames(fks) = Append(KeyNames(t.fks), Part("fk", t.name, column))
  BY <1>2, <1>4, KeyNamesOfLonger
<1> HIDE DEF fks, columns, names, all
<1>10. NamedBy("fk", t.name, all, KeyNames(fks))
  BY <1>4, <1>6, <1>9, NameOfNewKey
<1>11. NamedBy("uq", t.name, all, uniques)
  BY <1>4, <1>6, NameOfNewKey, NamedByMore
<1>12. NamedBy("ix", t.name, all, indexes)
  BY <1>4, <1>6, NameOfNewKey, NamedByMore
<1> HIDE DEF uniques, indexes, next
<1>13. /\ DOMAIN next = TableFields /\ next.name = t.name /\ next.classes = t.classes
       /\ next.columns = columns /\ next.fks = fks /\ next.discriminator = t.discriminator
       /\ next.uniques = uniques /\ next.indexes = indexes
  BY <1>1, <1>4 DEF TableFields
<1>14. KeyColumns(next) = all
  BY <1>7, <1>13 DEF KeyColumns
<1>15. \A f \in ToSet(fks) : f.column \in ColumnNames(columns)
  BY <1>2, <1>4, <1>6, <1>7, <1>8
<1>d. next.discriminator # <<>> =>
        /\ <<"class", "type">> \in ColumnNames(columns)
        /\ \A f \in ToSet(fks) : f.column # <<"class", "type">>
  BY <1>2, <1>4, <1>6, <1>7, <1>8, <1>13
<1>16. TableIs(next, types)
  BY <1>4, <1>7, <1>8, <1>10, <1>11, <1>12, <1>13, <1>14, <1>15, <1>d DEF TableIs
<1>17. \A f \in ToSet(next.fks) : f \in ToSet(t.fks) \/ f.table = to
  BY <1>2, <1>8, <1>13
<1> QED
  BY <1>13, <1>16, <1>17 DEF next

LEMMA ForeignKeyAdded ==
  ASSUME StringFacts, NEW types, NEW t, TableIs(t, types), t.classes # <<>>,
         NEW rel \in RelationshipType, NEW to \in Seq(Word)
  PROVE  LET next == WithForeignKey(t, rel, to)
         IN  /\ TableIs(next, types) /\ next.name = t.name /\ next.classes = t.classes
             /\ \A f \in ToSet(next.fks) : f \in ToSet(t.fks) \/ f.table = to
<1> DEFINE referenced == IF TargetHolds(rel) THEN rel.source ELSE rel.target
           taken == ColumnNames(t.columns)
           column == FkColumnName(referenced, to, taken)
<1>1. WithForeignKey(t, rel, to) = AddKey(t, rel, referenced, column, to)
  BY Zenon DEF WithForeignKey
<1>2. referenced \in EndType
  BY DEF RelationshipType
<1>3. IsFiniteSet(taken)
  BY NamesFinite DEF TableIs, ColumnsAre
<1> HIDE DEF referenced, taken
<1>4. column \in Seq(Word) \ taken
  BY <1>2, <1>3, FkColumnIs
<1> HIDE DEF column
<1> QED
  BY <1>1, <1>4, KeyAdded DEF taken

(* One table in place of another of its name.                              *)
LEMMA TableReplaced ==
  ASSUME NEW types, NEW tables, TablesAre(tables, types), NEW at \in DOMAIN tables,
         NEW t, TableIs(t, types), t.name = tables[at].name, t.classes = tables[at].classes,
         \A f \in ToSet(t.fks) : f.table \in NamesOf(tables)
  PROVE  LET next == [tables EXCEPT ![at] = t]
         IN  /\ TablesAre(next, types)
             /\ \A m, n : Covers(m, n, tables) => Covers(m, n, next)
<1> DEFINE next == [tables EXCEPT ![at] = t]
           all == ToSet(tables)
<1>1. tables \in Seq(all) /\ DistinctNames(tables)
  BY DEF TablesAre
<1>2. Len(tables) \in Nat /\ DOMAIN tables = 1..Len(tables)
  BY <1>1
<1>3. /\ DOMAIN next = DOMAIN tables /\ next[at] = t
      /\ \A i \in DOMAIN tables : i # at => next[i] = tables[i]
  BY <1>1
<1>4. next \in [1..Len(tables) -> all \cup {t}]
  <2>1. \A i \in 1..Len(tables) : tables[i] \in all
    BY <1>1
  <2>2. next = [i \in 1..Len(tables) |-> next[i]]
    BY <1>1, <1>2
  <2> HIDE DEF next, all
  <2> QED
    BY <1>2, <1>3, <2>1, <2>2
<1> HIDE DEF next
<1>5. next \in Seq(all \cup {t})
  BY <1>2, <1>4, FunctionIsSeq
<1>6. next \in Seq(ToSet(next))
  BY <1>5, ToSetOf
<1>7. \A i \in DOMAIN tables : next[i].name = tables[i].name /\ next[i].classes = tables[i].classes
  BY <1>3
<1>8. NamesOf(next) = NamesOf(tables)
  BY <1>3, <1>7 DEF NamesOf
<1>9. DistinctNames(next)
  BY <1>1, <1>3, <1>7 DEF DistinctNames, IsInjective
<1>10. \A u \in ToSet(next) : u = t \/ u \in ToSet(tables)
  BY <1>3 DEF ToSet
<1>11. TablesAre(next, types)
  BY <1>6, <1>8, <1>9, <1>10 DEF TablesAre
<1>12. ASSUME NEW m, NEW n, Covers(m, n, tables) PROVE Covers(m, n, next)
  <2> SUFFICES ASSUME NEW i \in 1..n
               PROVE  \E u \in ToSet(next) : Contains(u.classes, Roots(m)[i].id)
    BY DEF Covers
  <2>1. PICK k \in DOMAIN tables : Contains(tables[k].classes, Roots(m)[i].id)
    BY <1>12 DEF Covers, ToSet
  <2>2. next[k] \in ToSet(next) /\ next[k].classes = tables[k].classes
    BY <1>3, <1>7 DEF ToSet
  <2> QED
    BY <2>1, <2>2
<1> QED
  BY <1>11, <1>12 DEF next

(* Stage 4: join tables.                                                   *)
LEMMA TwoElements ==
  ASSUME NEW S, NEW a \in S, NEW b \in S
  PROVE  /\ <<a, b>> \in Seq(S) /\ DOMAIN <<a, b>> = {1, 2} /\ ToSet(<<a, b>>) = {a, b}
         /\ <<a, b>>[1] = a /\ <<a, b>>[2] = b
         /\ a # b => IsInjective(<<a, b>>)
<1>1. /\ <<a, b>> \in Seq(S) /\ DOMAIN <<a, b>> = {1, 2}
      /\ <<a, b>>[1] = a /\ <<a, b>>[2] = b
  OBVIOUS
<1> DEFINE pair == <<a, b>>
<1>2. pair \in Seq(S) /\ DOMAIN pair = {1, 2} /\ pair[1] = a /\ pair[2] = b
  BY <1>1
<1> HIDE DEF pair
<1>3. ToSet(pair) = {a, b}
  BY <1>2 DEF ToSet
<1>4. a # b => IsInjective(pair)
  BY <1>2 DEF IsInjective
<1> QED
  BY <1>1, <1>3, <1>4 DEF pair

LEMMA OneInjective == \A e : IsInjective(<<e>>)
BY DEF IsInjective

LEMMA JoinColumnsAre ==
  ASSUME StringFacts, NEW types, NEW source \in Seq(Word) \ {Id},
         NEW target \in Seq(Word) \ {Id, source}
  PROVE  LET columns == <<PlainColumn(Id, "UUID", FALSE), PlainColumn(source, "UUID", FALSE),
                          PlainColumn(target, "UUID", FALSE)>>
         IN  ColumnsAre(columns, types) /\ ColumnNames(columns) = {Id, source, target}
<1> DEFINE a == PlainColumn(Id, "UUID", FALSE)
           b == PlainColumn(source, "UUID", FALSE)
           c == PlainColumn(target, "UUID", FALSE)
<1>1. /\ b.name = source /\ ~IsEnum(b) /\ b.owner = NoOwner
      /\ c.name = target /\ ~IsEnum(c) /\ c.owner = NoOwner
  BY PlainColumnIs
<1>2. ColumnsAre(<<a>>, types) /\ ColumnNames(<<a>>) = {Id}
  BY FixedColumns
<1> HIDE DEF a, b, c
<1>s. <<a, b>> = Append(<<a>>, b) /\ <<a, b, c>> = Append(<<a, b>>, c)
  OBVIOUS
<1> DEFINE one == <<a>>
           two == Append(one, b)
           three == Append(two, c)
<1>3. three = <<a, b, c>>
  BY <1>s, Zenon
<1> HIDE DEF one, two, three
<1>4. ColumnsAre(two, types) /\ ColumnNames(two) = {Id} \cup {source}
  BY <1>2, <1>1, ColumnAdded DEF one, two
<1>5. ColumnsAre(three, types) /\ ColumnNames(three) = ({Id} \cup {source}) \cup {target}
  BY <1>1, <1>4, ColumnAdded DEF three
<1> QED
  BY <1>3, <1>5 DEF a, b, c

LEMMA JoinTableIs ==
  ASSUME StringFacts, NEW types, NEW rel, NEW name \in Seq(Word),
         NEW source \in Seq(Word) \ {Id}, NEW target \in Seq(Word) \ {Id, source},
         NEW from, NEW to
  PROVE  LET t == JoinTable(rel, name, source, target, from, to)
         IN  /\ TableIs(t, types) /\ t.name = name
             /\ \A f \in ToSet(t.fks) : f.table \in {from, to}
<1> DEFINE t == JoinTable(rel, name, source, target, from, to)
           columns == <<PlainColumn(Id, "UUID", FALSE), PlainColumn(source, "UUID", FALSE),
                        PlainColumn(target, "UUID", FALSE)>>
           key1 == ForeignKey(name, source, from, "CASCADE", rel)
           key2 == ForeignKey(name, target, to, "CASCADE", rel)
           fks == <<key1, key2>>
           unique == Part("uq", name, source \o target)
           uniques == <<unique>>
           index1 == Part("ix", name, source)
           index2 == Part("ix", name, target)
           indexes == <<index1, index2>>
           any == Seq(Word)
<1>1. /\ key1.name = Part("fk", name, source) /\ key1.column = source /\ key1.table = from
      /\ key2.name = Part("fk", name, target) /\ key2.column = target /\ key2.table = to
  BY DEF ForeignKey
<1>2. ColumnsAre(columns, types) /\ ColumnNames(columns) = {Id, source, target}
  BY JoinColumnsAre
<1>3. source \in any /\ target \in any /\ source # target /\ source \o target \in any
  OBVIOUS
<1>4. key1.name # key2.name /\ index1 # index2
  BY <1>1, <1>3, PartsDiffer
<1>5. /\ key1.name \in Parts("fk", name, any) /\ key2.name \in Parts("fk", name, any)
      /\ unique \in Parts("uq", name, any)
      /\ index1 \in Parts("ix", name, any) /\ index2 \in Parts("ix", name, any)
  BY <1>1, <1>3 DEF Parts
<1>6. /\ DOMAIN t = TableFields /\ t.name = name /\ t.columns = columns /\ t.fks = fks
      /\ t.uniques = uniques /\ t.indexes = indexes /\ t.classes = <<>>
      /\ t.discriminator = <<>>
  <2> HIDE DEF columns, fks, uniques, indexes
  <2>1. t = [name |-> name, columns |-> columns, fks |-> fks, uniques |-> uniques,
             indexes |-> indexes, classes |-> <<>>, discriminator |-> <<>>,
             profile |-> ParseTableProfile(NoProfile)]
    BY Zenon DEF JoinTable, columns, fks, uniques, indexes
  <2> HIDE DEF t
  <2> QED
    BY <2>1 DEF TableFields
<1> HIDE DEF t, columns, key1, key2, unique, index1, index2, any
<1>7. /\ fks \in Seq({key1, key2}) /\ DOMAIN fks = {1, 2} /\ fks[1] = key1 /\ fks[2] = key2
      /\ ToSet(fks) = {key1, key2}
  <2>1. key1 \in {key1, key2} /\ key2 \in {key1, key2}
    OBVIOUS
  <2> QED
    BY <2>1, TwoElements
<1>8. KeyNames(fks) = <<key1.name, key2.name>>
  <2>1. KeyNames(fks) = [i \in {1, 2} |-> fks[i].name]
    BY <1>7 DEF KeyNames
  <2>2. <<key1.name, key2.name>> = [i \in {1, 2} |-> IF i = 1 THEN key1.name ELSE key2.name]
    OBVIOUS
  <2>3. \A i \in {1, 2} : fks[i].name = IF i = 1 THEN key1.name ELSE key2.name
    BY <1>7
  <2> HIDE DEF fks
  <2> QED
    BY <2>1, <2>2, <2>3
<1>9. NamedBy("fk", name, any, KeyNames(fks))
  <2> DEFINE name1 == key1.name
             name2 == key2.name
  <2>1. /\ name1 \in Parts("fk", name, any) /\ name2 \in Parts("fk", name, any)
        /\ name1 # name2 /\ KeyNames(fks) = <<name1, name2>>
    BY <1>4, <1>5, <1>8
  <2> HIDE DEF name1, name2, fks
  <2>2. <<name1, name2>> \in Seq(Parts("fk", name, any)) /\ IsInjective(<<name1, name2>>)
    BY <2>1, TwoElements
  <2> QED
    BY <2>1, <2>2 DEF NamedBy
<1>10. NamedBy("uq", name, any, uniques)
  BY <1>5, OneElement, OneInjective DEF NamedBy
<1>11. NamedBy("ix", name, any, indexes)
  BY <1>4, <1>5, TwoElements DEF NamedBy
<1> HIDE DEF fks, uniques, indexes
<1>12. KeyColumns(t) = any
  BY <1>6 DEF KeyColumns, any
<1>13. fks \in Seq(ToSet(fks)) /\ \A f \in ToSet(fks) : f.column \in ColumnNames(columns)
  BY <1>1, <1>2, <1>7
<1>c. ToSet(<<>>) = {} /\ <<>> \in Seq({})
  BY DEF ToSet
<1>14. TableIs(t, types)
  BY <1>2, <1>6, <1>c, <1>9, <1>10, <1>11, <1>12, <1>13 DEF TableIs
<1>15. \A f \in ToSet(t.fks) : f.table \in {from, to}
  BY <1>1, <1>6, <1>7
<1> QED
  BY <1>6, <1>14, <1>15 DEF t

LEMMA BuiltJoinTableIs ==
  ASSUME StringFacts, NEW types, NEW rel \in RelationshipType,
         NEW from \in Seq(Word), NEW to \in Seq(Word), NEW taken, IsFiniteSet(taken)
  PROVE  LET t == BuildJoinTable(rel, from, to, taken)
         IN  /\ TableIs(t, types) /\ t.name \notin taken
             /\ \A f \in ToSet(t.fks) : f.table \in {from, to}
<1> DEFINE name == UniqueName(taken, from \o to)
           source == FkColumnName(rel.source, from, {Id})
           target == FkColumnName(rel.target, to, TakenInJoin(source))
<1>1. BuildJoinTable(rel, from, to, taken) = JoinTable(rel, name, source, target, from, to)
  BY Zenon DEF BuildJoinTable
<1>2. rel.source \in EndType /\ rel.target \in EndType
  BY DEF RelationshipType
<1>3. name \in Seq(Word) \ taken
  <2>1. from \o to \in Seq(Word)
    OBVIOUS
  <2> QED
    BY <2>1, UniqueNameIsFree
<1>4. \A a, b : IsFiniteSet({a}) /\ IsFiniteSet({a, b})
  <2> TAKE a, b
  <2>1. IsFiniteSet({a})
    BY FS_Singleton
  <2>2. IsFiniteSet({a} \cup {b}) /\ {a} \cup {b} = {a, b}
    BY <2>1, FS_AddElement
  <2> QED
    BY <2>1, <2>2
<1>5. source \in Seq(Word) \ {Id}
  BY <1>2, <1>4, FkColumnIs
<1> HIDE DEF source
<1>6. target \in Seq(Word) \ {Id, source}
  BY <1>4, <1>2, FkColumnIs DEF TakenInJoin
<1> HIDE DEF target, name
<1> DEFINE t == JoinTable(rel, name, source, target, from, to)
<1>7. TableIs(t, types) /\ t.name = name /\ \A f \in ToSet(t.fks) : f.table \in {from, to}
  BY <1>3, <1>5, <1>6, JoinTableIs, Zenon
<1> HIDE DEF t
<1> QED
  BY <1>1, <1>3, <1>7, Zenon DEF t

(* Stage 4: after each relationship the tables are in order.               *)
LEMMA LinkFollows ==
  ASSUME StringFacts, NEW m, IsModel(m), HierarchyError(m) = "none",
         NEW i, NEW j, NEW s, LinksFollow(m, i, s), NEW rel \in RelationshipType,
         rel \in ToSet(m.rels)
  PROVE  LinksFollow(m, j, MapRelationship(m, s, rel))
<1> DEFINE types == EnumTypes(m)
           tables == s.tables
           source == TableOfClass(m, s, rel.source.cls)
           target == TableOfClass(m, s, rel.target.cls)
           next == MapRelationship(m, s, rel)
           bothMany == IsMany(rel.source.mult) /\ IsMany(rel.target.mult)
           join == BuildJoinTable(rel, tables[source].name, tables[target].name, NamesOf(tables))
           atTarget == WithForeignKey(tables[target], rel, tables[source].name)
           atSource == WithForeignKey(tables[source], rel, tables[target].name)
<1>1. next = IF s.error # "none" \/ rel.kind = "generalization" THEN s
             ELSE IF \E end \in ReferencedEnds(rel) : ~HasSnakeCase(end.role)
               THEN [s EXCEPT !.error = "InvalidElementName"]
             ELSE IF bothMany THEN [s EXCEPT !.tables = Append(tables, join)]
             ELSE IF TargetHolds(rel) THEN [s EXCEPT !.tables[target] = atTarget]
             ELSE [s EXCEPT !.tables[source] = atSource]
  BY Zenon DEF MapRelationship, LinkTables
<1>2. DOMAIN s = {"error", "tables", "enumTypes"}
  BY DEF LinksFollow
<1> HIDE DEF types, source, target, next, bothMany, join, atTarget, atSource
<1>3. CASE s.error # "none" \/ rel.kind = "generalization"
  BY <1>1, <1>3 DEF LinksFollow, next
<1>4. CASE /\ ~(s.error # "none" \/ rel.kind = "generalization")
           /\ \E end \in ReferencedEnds(rel) : ~HasSnakeCase(end.role)
  BY <1>1, <1>4, <1>2 DEF ReferencedEnds, HasSnakeNames, LinksFollow, IsDue, next
<1>5. CASE /\ ~(s.error # "none" \/ rel.kind = "generalization")
           /\ ~\E end \in ReferencedEnds(rel) : ~HasSnakeCase(end.role)
  <2>1. TablesAre(tables, types) /\ Covers(m, Len(Roots(m)), tables)
    BY <1>5 DEF LinksFollow, types
  <2>2. tables \in Seq(ToSet(tables))
    BY <2>1 DEF TablesAre
  <2>3. rel.source.cls \in IdsOf(m.classes) /\ rel.target.cls \in IdsOf(m.classes)
    BY InHierarchy
  <2>4. /\ source \in DOMAIN tables /\ tables[source].classes # <<>>
        /\ target \in DOMAIN tables /\ tables[target].classes # <<>>
    BY <2>1, <2>2, <2>3, TableOfClassIs DEF source, target
  <2> HIDE DEF tables
  <2>5. ASSUME NEW k \in DOMAIN tables
        PROVE  /\ TableIs(tables[k], types) /\ tables[k].name \in Seq(Word)
               /\ tables[k].name \in NamesOf(tables)
               /\ \A f \in ToSet(tables[k].fks) : f.table \in NamesOf(tables)
    BY <2>1 DEF ToSet, TablesAre, TableIs, NamesOf
  <2> SUFFICES TablesAre(next.tables, types) /\ Covers(m, Len(Roots(m)), next.tables)
               /\ DOMAIN next = {"error", "tables", "enumTypes"}
    BY <1>1, <1>2, <1>5 DEF LinksFollow, next, types
  <2>6. CASE bothMany
    <3>1. next = [s EXCEPT !.tables = Append(tables, join)]
      BY <1>1, <1>5, <2>6
    <3>2. next.tables = Append(tables, join) /\ DOMAIN next = {"error", "tables", "enumTypes"}
      <4> DEFINE longer == Append(tables, join)
      <4>1. next = [s EXCEPT !.tables = longer]
        BY <3>1
      <4> HIDE DEF longer
      <4>2. next.tables = longer /\ DOMAIN next = {"error", "tables", "enumTypes"}
        BY <1>2, <4>1
      <4> QED
        BY <4>2 DEF longer
    <3>3. /\ TableIs(join, types) /\ join.name \notin NamesOf(tables)
          /\ \A f \in ToSet(join.fks) : f.table \in {tables[source].name, tables[target].name}
      <4> DEFINE from == tables[source].name
                 to == tables[target].name
                 taken == NamesOf(tables)
      <4>1. from \in Seq(Word) /\ to \in Seq(Word)
        BY <2>4, <2>5
      <4>2. IsFiniteSet(taken)
        BY <2>1, TableNamesFinite
      <4>3. join = BuildJoinTable(rel, from, to, taken)
        BY DEF join
      <4> HIDE DEF from, to, taken
      <4>4. /\ TableIs(join, types) /\ join.name \notin taken
            /\ \A f \in ToSet(join.fks) : f.table \in {from, to}
        BY <4>1, <4>2, <4>3, BuiltJoinTableIs, Zenon
      <4> QED
        BY <4>4, Zenon DEF from, to, taken
    <3>4. TablesAre(next.tables, types) /\ ToSet(next.tables) = ToSet(tables) \cup {join}
      BY <2>1, <2>4, <2>5, <3>2, <3>3, TableAdded
    <3>5. Covers(m, Len(Roots(m)), next.tables)
      BY <2>1, <3>4 DEF Covers
    <3> QED
      BY <3>2, <3>4, <3>5
  <2>7. ASSUME NEW holder \in DOMAIN tables, tables[holder].classes # <<>>,
               NEW other \in DOMAIN tables,
               next = [s EXCEPT !.tables[holder] =
                         WithForeignKey(tables[holder], rel, tables[other].name)]
        PROVE  /\ TablesAre(next.tables, types) /\ Covers(m, Len(Roots(m)), next.tables)
               /\ DOMAIN next = {"error", "tables", "enumTypes"}
    <3> DEFINE t == WithForeignKey(tables[holder], rel, tables[other].name)
    <3>1. /\ TableIs(t, types) /\ t.name = tables[holder].name
          /\ t.classes = tables[holder].classes
          /\ \A f \in ToSet(t.fks) : f \in ToSet(tables[holder].fks) \/ f.table = tables[other].name
      BY <2>5, <2>7, ForeignKeyAdded
    <3>2. next = [s EXCEPT !.tables[holder] = t]
      BY <2>7
    <3> HIDE DEF t
    <3>3. next.tables = [tables EXCEPT ![holder] = t]
          /\ DOMAIN next = {"error", "tables", "enumTypes"}
      BY <1>2, <3>2 DEF tables
    <3>4. \A f \in ToSet(t.fks) : f.table \in NamesOf(tables)
      BY <2>5, <3>1
    <3>5. /\ TablesAre([tables EXCEPT ![holder] = t], types)
          /\ Covers(m, Len(Roots(m)), tables) =>
               Covers(m, Len(Roots(m)), [tables EXCEPT ![holder] = t])
      BY <2>1, <3>1, <3>4, TableReplaced
    <3> QED
      BY <2>1, <3>3, <3>5
  <2>8. CASE ~bothMany /\ TargetHolds(rel)
    BY <1>1, <1>5, <2>8, <2>4, <2>7 DEF atTarget, tables
  <2>9. CASE ~bothMany /\ ~TargetHolds(rel)
    BY <1>1, <1>5, <2>9, <2>4, <2>7 DEF atSource, tables
  <2> QED
    BY <2>6, <2>8, <2>9
<1> QED
  BY <1>3, <1>4, <1>5

(* The names of the constraints.                                           *)
LEMMA InjectiveJoined ==
  ASSUME NEW S, NEW s \in Seq(S), NEW t \in Seq(S), IsInjective(s), IsInjective(t),
         ToSet(s) \cap ToSet(t) = {}
  PROVE  s \o t \in Seq(S) /\ IsInjective(s \o t) /\ ToSet(s \o t) = ToSet(s) \cup ToSet(t)
<1> DEFINE whole == s \o t
           m == Len(s)
           n == Len(t)
<1>1. whole \in Seq(S) /\ IsJoin(whole, s, t)
  BY JoinIs, Zenon
<1>2. ToSet(whole) = ToSet(s) \cup ToSet(t)
  BY ConcatOf
<1> HIDE DEF whole
<1>3. m \in Nat /\ n \in Nat /\ DOMAIN s = 1..m /\ DOMAIN t = 1..n
  OBVIOUS
<1> HIDE DEF m, n
<1>4. DOMAIN whole = 1..(m + n)
  BY <1>1 DEF IsJoin, m, n
<1>5. /\ \A i \in 1..m : whole[i] = s[i] /\ s[i] \in ToSet(s)
      /\ \A i \in 1..n : whole[m + i] = t[i] /\ t[i] \in ToSet(t)
  BY <1>1, <1>3 DEF IsJoin, m, n, ToSet
<1>6. /\ \A i, j \in 1..m : s[i] = s[j] => i = j
      /\ \A i, j \in 1..n : t[i] = t[j] => i = j
      /\ \A i \in 1..m : \A j \in 1..n : s[i] # t[j]
  BY <1>3, <1>5 DEF IsInjective
<1>7. \A i, j \in 1..(m + n) : whole[i] = whole[j] => i = j
  <2> SUFFICES ASSUME NEW i \in 1..(m + n), NEW j \in 1..(m + n), whole[i] = whole[j]
               PROVE  i = j
    OBVIOUS
  <2>1. \A k \in 1..(m + n) : k \in 1..m \/ \E l \in 1..n : k = m + l
    <3> TAKE k \in 1..(m + n)
    <3>1. CASE k <= m
      BY <1>3, <3>1
    <3>2. CASE k > m
      BY <1>3, <3>2
    <3> QED
      BY <1>3, <3>1, <3>2
  <2>2. CASE i \in 1..m /\ j \in 1..m
    BY <1>5, <1>6, <2>2
  <2>3. ASSUME NEW k \in 1..m, NEW l \in 1..n, whole[k] = whole[m + l] PROVE FALSE
    BY <1>5, <1>6, <2>3
  <2>4. CASE \E k, l \in 1..n : i = m + k /\ j = m + l
    BY <1>5, <1>6, <2>4
  <2> QED
    BY <2>1, <2>2, <2>3, <2>4
<1> QED
  BY <1>1, <1>2, <1>4, <1>7 DEF IsInjective, whole

LEMMA PartsDisjoint ==
  ASSUME NEW prefix1, NEW table1 \in Seq(Word), NEW prefix2, NEW table2 \in Seq(Word),
         prefix1 # prefix2 \/ table1 # table2
  PROVE  Parts(prefix1, table1, Seq(Word)) \cap Parts(prefix2, table2, Seq(Word)) = {}
<1> SUFFICES ASSUME NEW c1 \in Seq(Word), NEW c2 \in Seq(Word),
                    Part(prefix1, table1, c1) = Part(prefix2, table2, c2)
             PROVE  FALSE
  BY DEF Parts
<1> QED
  BY PartsDiffer

LEMMA ConstraintsOfTable ==
  ASSUME NEW types, NEW t, TableIs(t, types)
  PROVE  IsInjective(ConstraintNames(t)) /\ ToSet(ConstraintNames(t)) \subseteq ConstraintParts(t)
<1> DEFINE fk == Parts("fk", t.name, Seq(Word))
           uq == Parts("uq", t.name, Seq(Word))
           ix == Parts("ix", t.name, Seq(Word))
           keys == KeyNames(t.fks)
           uniques == t.uniques
           indexes == t.indexes
           all == fk \cup uq \cup ix
           first == keys \o uniques
<1>1. ConstraintNames(t) = first \o indexes
  BY DEF ConstraintNames, KeyNames
<1>2. KeyColumns(t) \subseteq Seq(Word) /\ t.name \in Seq(Word)
  BY DEF TableIs, KeyColumns, ColumnsAre
<1>3. /\ keys \in Seq(fk) /\ uniques \in Seq(uq) /\ indexes \in Seq(ix)
      /\ IsInjective(keys) /\ IsInjective(uniques) /\ IsInjective(indexes)
  BY <1>2, NamedByMore DEF TableIs, NamedBy
<1>4. fk \cap uq = {} /\ fk \cap ix = {} /\ uq \cap ix = {}
  BY <1>2, PartsDisjoint
<1> HIDE DEF fk, uq, ix, keys, uniques, indexes
<1>5. /\ keys \in Seq(all) /\ uniques \in Seq(all) /\ indexes \in Seq(all)
      /\ ToSet(keys) \subseteq fk /\ ToSet(uniques) \subseteq uq /\ ToSet(indexes) \subseteq ix
  <2>1. fk \subseteq all /\ uq \subseteq all /\ ix \subseteq all
    OBVIOUS
  <2> HIDE DEF all
  <2> QED
    BY <1>3, <2>1, SeqMonotone, ToSetOf
<1> HIDE DEF all
<1>6. first \in Seq(all) /\ IsInjective(first) /\ ToSet(first) = ToSet(keys) \cup ToSet(uniques)
  BY <1>4, <1>5, <1>3, InjectiveJoined
<1> HIDE DEF first
<1>7. /\ IsInjective(first \o indexes)
      /\ ToSet(first \o indexes) = ToSet(first) \cup ToSet(indexes)
  BY <1>4, <1>5, <1>6, <1>3, InjectiveJoined
<1> QED
  BY <1>1, <1>5, <1>6, <1>7 DEF ConstraintParts, fk, uq, ix

LEMMA ConstraintsOfTwo ==
  ASSUME NEW t, t.name \in Seq(Word), NEW u, u.name \in Seq(Word), t.name # u.name
  PROVE  ConstraintParts(t) \cap ConstraintParts(u) = {}
BY PartsDisjoint DEF ConstraintParts

LEMMA TablesAreWellFormed ==
  ASSUME NEW types, DistinctNames(types), NEW tables, TablesAre(tables, types)
  PROVE  IsWellFormed(tables, types)
<1>1. /\ DistinctNames(tables)
      /\ \A t \in ToSet(tables) :
           TableIs(t, types) /\ \A f \in ToSet(t.fks) : f.table \in NamesOf(tables)
  BY DEF TablesAre
<1>2. \A t \in ToSet(tables) :
        /\ DistinctNames(t.columns)
        /\ \A f \in ToSet(t.fks) :
             f.column \in ColumnNames(t.columns) /\ f.table \in NamesOf(tables)
        /\ \A c \in ToSet(t.columns) : IsEnum(c) => c.enum \in NamesOf(types)
  BY <1>1 DEF TableIs, ColumnsAre
<1>3. \A t \in ToSet(tables) : IsInjective(ConstraintNames(t))
  BY <1>1, ConstraintsOfTable
<1>4. ASSUME NEW i \in DOMAIN tables, NEW j \in DOMAIN tables, i # j
      PROVE  ToSet(ConstraintNames(tables[i])) \cap ToSet(ConstraintNames(tables[j])) = {}
  <2>1. TableIs(tables[i], types) /\ TableIs(tables[j], types)
    BY <1>1 DEF ToSet
  <2>2. tables[i].name # tables[j].name
    BY <1>1, <1>4 DEF DistinctNames, IsInjective
  <2>3. tables[i].name \in Seq(Word) /\ tables[j].name \in Seq(Word)
    BY <2>1 DEF TableIs
  <2>4. ConstraintParts(tables[i]) \cap ConstraintParts(tables[j]) = {}
    BY <2>2, <2>3, ConstraintsOfTwo
  <2>5. /\ ToSet(ConstraintNames(tables[i])) \subseteq ConstraintParts(tables[i])
        /\ ToSet(ConstraintNames(tables[j])) \subseteq ConstraintParts(tables[j])
    BY <2>1, ConstraintsOfTable
  <2> QED
    BY <2>4, <2>5
<1>5. DistinctConstraints(tables)
  BY <1>3, <1>4 DEF DistinctConstraints
<1> QED
  BY <1>1, <1>2, <1>5 DEF IsWellFormed

(* The pipeline.                                                           *)

LEMMA LinksOfRelationships ==
  ASSUME StringFacts, NEW m, IsModel(m), HierarchyError(m) = "none",
         NEW drawn, LinksFollow(m, 0, drawn)
  PROVE  LinksFollow(m, Len(m.rels), Linked(m, drawn))
<1> DEFINE rels == m.rels
           n == Len(rels)
<1>1. Linked(m, drawn) = Fold(FoldOf("Linked", m), drawn, rels)
  BY DEF Linked, Fold, FoldOf, Combine, Max,
         FoldLeft, MapThenFoldSet
<1>2. rels \in Seq(RelationshipType)
  BY DEF IsModel
<1>3. ToSet(rels) = ToSet(m.rels)
  OBVIOUS
<1> HIDE DEF rels
<1>4. n \in Nat /\ DOMAIN rels = 1..n /\ \A i \in 1..n : rels[i] \in RelationshipType
  BY <1>2
<1> HIDE DEF n
<1>5. \A i \in 1..n : \A s : LinksFollow(m, i-1, s) =>
        LinksFollow(m, i, MapRelationship(m, s, rels[i]))
  <2> SUFFICES ASSUME NEW i \in 1..n, NEW s, LinksFollow(m, i-1, s)
               PROVE  LinksFollow(m, i, MapRelationship(m, s, rels[i]))
    OBVIOUS
  <2>1. rels[i] \in ToSet(m.rels)
    BY <1>3, <1>4 DEF ToSet
  <2> QED
    BY <1>4, <2>1, LinkFollows
<1>6. LinksFollow(m, n, Fold(FoldOf("Linked", m), drawn, rels))
  <2> DEFINE fold == FoldOf("Linked", m)
  <2>1. \A a, e : Combine(fold, a, e) = MapRelationship(m, a, e)
    BY DEF Combine, FoldOf
  <2>2. \A k, a : Holds(fold, k, a) <=> LinksFollow(m, k, a)
    BY DEF Holds, FoldOf
  <2> HIDE DEF fold
  <2>3. Holds(fold, 0, drawn) /\ \A i \in 1..n : \A a :
          Holds(fold, i-1, a) => Holds(fold, i, Combine(fold, a, rels[i]))
    BY <1>4, <1>5, <2>1, <2>2
  <2>4. LinksFollow(m, n, Fold(fold, drawn, rels))
    BY <1>4, <1>5, <2>2, <2>3, FoldInduction
  <2> QED
    BY <2>4 DEF fold
<1> QED
  BY <1>1, <1>6 DEF n, rels

LEMMA NothingIsWellFormed ==
  \A types : TablesAre(<<>>, types)
BY DEF ToSet, TablesAre, DistinctNames, IsInjective

(* The tables before any relationship.                                     *)
LEMMA DrawnFollows ==
  ASSUME StringFacts, NEW m, IsModel(m)
  PROVE  RootsFollow(m, Len(Roots(m)), TablesDrawn(m, Started(m)))
<1> DEFINE started == Started(m)
<1>1. RootsFollow(m, 0, started)
  <2>1. started.tables = <<>> /\ DOMAIN started = {"error", "tables", "enumTypes"}
    BY DEF Started, NoSchema
  <2>2. IsDue(m, started.error)
    BY DEF NamedElements, Started, NoSchema, IsDue, HasSnakeNames
  <2>3. AreKeyless(<<>>)
    BY DEF AreKeyless, ToSet
  <2> HIDE DEF started
  <2> QED
    BY <2>1, <2>2, <2>3, NothingIsWellFormed DEF RootsFollow, Covers
<1> HIDE DEF started
<1>2. RootsFollow(m, Len(Roots(m)), TablesDrawn(m, started))
  BY <1>1, TablesOfRoots DEF TablesDrawn
<1> QED
  BY <1>2 DEF started

LEMMA LinkedIs ==
  ASSUME StringFacts, NEW m, IsModel(m), HierarchyError(m) = "none"
  PROVE  LinksFollow(m, Len(m.rels), Linked(m, TablesDrawn(m, Started(m))))
<1> DEFINE drawn == TablesDrawn(m, Started(m))
<1>1. RootsFollow(m, Len(Roots(m)), drawn)
  BY DrawnFollows
<1> HIDE DEF drawn
<1>2. LinksFollow(m, 0, drawn)
  BY <1>1 DEF RootsFollow, LinksFollow
<1>3. LinksFollow(m, Len(m.rels), Linked(m, drawn))
  BY <1>2, LinksOfRelationships
<1> QED
  BY <1>3 DEF drawn

(* The schema is the hierarchy's error, that of the stages or what the     *)
(* stages made.                                                            *)
LEMMA MappedIs ==
  ASSUME StringFacts, NEW m, IsModel(m)
  PROVE  LET schema == MapToRelational(m)
         IN  IF HierarchyError(m) # "none" THEN schema = NoSchema(HierarchyError(m))
             ELSE /\ IsDue(m, schema.error)
                  /\ IF schema.error # "none" THEN schema = NoSchema(schema.error)
                     ELSE TablesAre(schema.tables, EnumTypes(m)) /\ schema.enumTypes = EnumTypes(m)
<1> DEFINE types == EnumTypes(m)
           blocked == HierarchyError(m)
           linked == Linked(m, TablesDrawn(m, Started(m)))
           schema == MapToRelational(m)
<1>1. schema = FirstError(blocked, linked, types)
  BY Zenon DEF MapToRelational, Linked, TablesDrawn, Started
<1>2. blocked = "none" => LinksFollow(m, Len(m.rels), linked)
  BY LinkedIs
<1> HIDE DEF types, blocked, linked, schema
<1>3. CASE blocked # "none"
  BY <1>1, <1>3 DEF FirstError, schema, blocked
<1>4. CASE blocked = "none" /\ linked.error # "none"
  BY <1>1, <1>4, <1>2 DEF FirstError, NoSchema, LinksFollow, schema, blocked
<1>5. CASE blocked = "none" /\ linked.error = "none"
  <2>1. schema = [linked EXCEPT !.enumTypes = types]
    BY <1>1, <1>5 DEF FirstError
  <2>2. TablesAre(linked.tables, types) /\ DOMAIN linked = {"error", "tables", "enumTypes"}
    BY <1>2, <1>5 DEF LinksFollow, types
  <2>3. schema.error = "none" /\ schema.tables = linked.tables /\ schema.enumTypes = types
    BY <1>5, <2>1, <2>2
  <2>4. IsDue(m, schema.error)
    BY <2>3 DEF IsDue
  <2> QED
    BY <1>5, <2>2, <2>3, <2>4 DEF schema, blocked, types
<1> QED
  BY <1>3, <1>4, <1>5

(* map_to_relational makes a schema PostgreSQL accepts of every model,     *)
(* whatever its names, roles and multiplicities, reachable or not.         *)
THEOREM MappedSchemaIsWellFormed ==
  ASSUME StringFacts, NEW m, IsModel(m)
  PROVE  IsWellFormed(MapToRelational(m).tables, MapToRelational(m).enumTypes)
<1> DEFINE schema == MapToRelational(m)
<1>1. IsWellFormed(<<>>, <<>>)
  BY NothingIsWellFormed, TablesAreWellFormed DEF DistinctNames, IsInjective
<1>2. DistinctNames(EnumTypes(m))
  BY EnumTypesAre DEF TypesFollow
<1>3. \/ \E error : schema = NoSchema(error)
      \/ TablesAre(schema.tables, EnumTypes(m)) /\ schema.enumTypes = EnumTypes(m)
  BY MappedIs, Zenon
<1> HIDE DEF schema
<1>4. CASE \E error : schema = NoSchema(error)
  BY <1>4, <1>1 DEF NoSchema, schema
<1>5. CASE TablesAre(schema.tables, EnumTypes(m)) /\ schema.enumTypes = EnumTypes(m)
  BY <1>2, <1>5, TablesAreWellFormed DEF schema
<1> QED
  BY <1>3, <1>4, <1>5

(* The hierarchy as a graph: from each class to its parents.               *)

LEMMA GeneralizationsAre ==
  ASSUME NEW m, IsModel(m)
  PROVE  /\ Generalizations(m) \in Seq(RelationshipType)
         /\ ToSet(Generalizations(m)) = {r \in ToSet(m.rels) : r.kind = "generalization"}
         /\ Sources(m) \subseteq STRING
<1> DEFINE kept == {r \in ToSet(m.rels) : r.kind = "generalization"}
           rels == m.rels
           S == ToSet(Generalizations(m))
<1>1. Generalizations(m) = Only(rels, kept)
  BY DEF Generalizations, Filter
<1>2. rels \in Seq(RelationshipType)
  BY DEF IsModel
<1> HIDE DEF rels, kept
<1>3. Generalizations(m) \in Seq(RelationshipType)
  BY <1>1, <1>2, FilterIs
<1>4. ToSet(Generalizations(m)) = ToSet(rels) \cap kept
  BY <1>1, <1>2, OnlyPicks
<1>5. S \subseteq RelationshipType
  BY <1>3, ToSetOf
<1>6. \A r \in RelationshipType : r.source.cls \in STRING
  BY DEF RelationshipType, EndType
<1>7. Sources(m) \subseteq STRING
  <2> HIDE DEF S
  <2>1. Sources(m) = {r.source.cls : r \in S}
    BY DEF Sources, S
  <2> QED
    BY <1>5, <1>6, <2>1
<1> QED
  BY <1>3, <1>4, <1>7 DEF kept, rels

LEMMA ParentsAre ==
  ASSUME NEW m, IsModel(m), NEW id
  PROVE  /\ ParentsInOrder(m, id) \in Seq(STRING)
         /\ ToSet(ParentsInOrder(m, id)) = ParentsOf(m, id)
         /\ ParentsOf(m, id) \subseteq Targets(m)
         /\ ParentsOf(m, id) # {} => id \in Sources(m)
<1> DEFINE edges == Generalizations(m)
           kept == {r \in ToSet(edges) : r.source.cls = id}
           own == Only(edges, kept)
           n == Len(own)
           parents == [i \in 1..n |-> own[i].target.cls]
<1>1. /\ edges \in Seq(RelationshipType)
      /\ ToSet(edges) = {r \in ToSet(m.rels) : r.kind = "generalization"}
  BY GeneralizationsAre
<1>2. ParentsInOrder(m, id) = [i \in DOMAIN own |-> own[i].target.cls]
  BY DEF ParentsInOrder, Filter
<1>3. ParentsOf(m, id) = {r.target.cls : r \in kept}
  BY <1>1 DEF ParentsOf
<1>4. ParentsOf(m, id) \subseteq Targets(m) /\ (ParentsOf(m, id) # {} => id \in Sources(m))
  BY <1>3 DEF Targets, Sources
<1> HIDE DEF edges
<1>5. own \in Seq(RelationshipType) /\ ToSet(own) = kept
  <2> HIDE DEF kept
  <2>1. ToSet(own) = ToSet(edges) \cap kept
    BY <1>1, OnlyPicks
  <2>2. own \in Seq(RelationshipType)
    BY <1>1, FilterIs
  <2> QED
    BY <2>1, <2>2 DEF kept
<1> HIDE DEF own, kept
<1>6. n \in Nat /\ DOMAIN own = 1..n /\ \A i \in 1..n : own[i] \in RelationshipType
  BY <1>5
<1>7. parents = ParentsInOrder(m, id)
  BY <1>2, <1>6
<1>8. \A i \in 1..n : own[i].target.cls \in STRING
  BY <1>6 DEF RelationshipType, EndType
<1>9. parents \in Seq(STRING) /\ DOMAIN parents = 1..n
  <2> HIDE DEF n
  <2> QED
    BY <1>6, <1>8, FunctionIsSeq
<1>10. ToSet(parents) = {own[i].target.cls : i \in 1..n}
  BY <1>9 DEF ToSet
<1>11. kept = {own[i] : i \in 1..n}
  BY <1>5, <1>6 DEF ToSet
<1>12. ToSet(parents) = {r.target.cls : r \in kept}
  <2> HIDE DEF parents
  <2> QED
    BY <1>10, <1>11
<1> QED
  BY <1>3, <1>4, <1>7, <1>9, <1>12

LEMMA EndsFinite ==
  ASSUME NEW m, IsModel(m)
  PROVE  /\ IsFiniteSet(Sources(m)) /\ IsFiniteSet(Targets(m))
         /\ Len(m.rels) \in Nat /\ Cardinality(Targets(m)) <= Len(m.rels)
<1> DEFINE n == Len(m.rels)
           I == {i \in 1..n : m.rels[i].kind = "generalization"}
           f == [i \in I |-> m.rels[i].source.cls]
           g == [i \in I |-> m.rels[i].target.cls]
<1>1. n \in Nat /\ DOMAIN m.rels = 1..n
  BY DEF IsModel
<1>2. IsFiniteSet(I) /\ Cardinality(I) <= n
  <2>1. IsFiniteSet(1..n) /\ Cardinality(1..n) = n
    <3> HIDE DEF n
    <3> QED
      BY <1>1, FS_Interval
  <2>2. I \in SUBSET (1..n)
    OBVIOUS
  <2> HIDE DEF I, n
  <2>3. IsFiniteSet(I) /\ Cardinality(I) <= Cardinality(1..n)
    BY <2>1, <2>2, FS_Subset
  <2> QED
    BY <2>1, <2>3
<1>3. ToSet(Generalizations(m)) = {m.rels[i] : i \in I}
  <2>1. ToSet(Generalizations(m)) = {r \in ToSet(m.rels) : r.kind = "generalization"}
    BY GeneralizationsAre
  <2> QED
    BY <1>1, <2>1 DEF ToSet
<1>4. f \in Surjection(I, Sources(m)) /\ g \in Surjection(I, Targets(m))
  <2>1. Sources(m) = {m.rels[i].source.cls : i \in I} /\ Targets(m) = {m.rels[i].target.cls : i \in I}
    BY <1>3 DEF Sources, Targets
  <2> HIDE DEF I
  <2> QED
    BY <2>1 DEF Surjection
<1>5. IsFiniteSet(Sources(m))
  <2> HIDE DEF f, I
  <2> QED
    BY <1>2, <1>4, FS_Surjection
<1>6. IsFiniteSet(Targets(m)) /\ Cardinality(Targets(m)) <= Cardinality(I)
  <2> HIDE DEF g, I
  <2> QED
    BY <1>2, <1>4, FS_Surjection
<1>7. Cardinality(I) \in Nat /\ Cardinality(Targets(m)) \in Nat
  <2> HIDE DEF I
  <2> QED
    BY <1>2, <1>6, FS_CardinalityType
<1> HIDE DEF I
<1> QED
  BY <1>1, <1>2, <1>5, <1>6, <1>7

(* Above: the classes that are reached step by step.                       *)

LEMMA AboveExists ==
  ASSUME NEW m, NEW id, NEW n \in Nat
  PROVE  \E above : IsAbove(m, id, n, above)
<1> DEFINE S == {k \in Nat : \E above : IsAbove(m, id, k, above)}
           next(ids) == ids \cup ParentsOfAll(m, ids)
<1>1. 0 \in S
  <2> DEFINE f == [k \in 0..0 |-> next({id})]
  <2>1. IsAbove(m, id, 0, f)
    BY DEF IsAbove
  <2> HIDE DEF f
  <2> QED
    BY <2>1
<1>2. ASSUME NEW k \in Nat, k \in S PROVE k + 1 \in S
  <2>1. PICK f : IsAbove(m, id, k, f)
    BY <1>2
  <2> DEFINE g == [j \in 0..(k+1) |-> IF j <= k THEN f[j] ELSE next(f[k])]
  <2>2. ASSUME NEW j \in 0..(k+1)
        PROVE  g[j] = next(IF j = 0 THEN {id} ELSE g[j-1])
    <3>1. CASE j <= k
      <4>1. j \in 0..k /\ g[j] = f[j] /\ (j # 0 => g[j-1] = f[j-1])
        BY <3>1
      <4>2. f[j] = next(IF j = 0 THEN {id} ELSE f[j-1])
        BY <2>1, <4>1 DEF IsAbove
      <4> HIDE DEF next
      <4> QED
        BY <4>1, <4>2
    <3>2. CASE j = k + 1
      <4> HIDE DEF next
      <4> QED
        BY <3>2
    <3> HIDE DEF next, g
    <3> QED
      BY <3>1, <3>2
  <2>3. IsAbove(m, id, k + 1, g)
    <3> HIDE DEF next
    <3>1. g = [j \in 0..(k+1) |-> next(IF j = 0 THEN {id} ELSE g[j-1])]
      BY <2>2
    <3> HIDE DEF g
    <3> QED
      BY <3>1 DEF IsAbove, next
  <2> HIDE DEF g
  <2> QED
    BY <2>3
<1> QED
  <2> HIDE DEF S
  <2>1. n \in S
    BY <1>1, <1>2, SetInduction
  <2> QED
    BY <2>1 DEF S

LEMMA AboveIs ==
  ASSUME NEW m, IsModel(m), NEW id
  PROVE  /\ id \in Above(m, id) /\ IsClosed(m, Above(m, id))
         /\ \A ids : id \in ids /\ IsClosed(m, ids) => Above(m, id) \subseteq ids
<1> DEFINE L == Len(m.rels)
           above == CHOOSE f : IsAbove(m, id, L, f)
           T == Targets(m) \cup {id}
<1>1. L \in Nat /\ IsFiniteSet(Targets(m)) /\ Cardinality(Targets(m)) <= L
  BY EndsFinite
<1>2. Above(m, id) = above[L]
  BY DEF Above, IsAbove, ParentsOfAll
<1>3. IsAbove(m, id, L, above)
  <2> HIDE DEF L
  <2> QED
    BY <1>1, AboveExists
<1> HIDE DEF above, L
<1>4. above[0] = {id} \cup ParentsOfAll(m, {id})
  BY <1>1, <1>3 DEF IsAbove
<1>5. \A k \in 0..L : k # 0 => above[k] = above[k-1] \cup ParentsOfAll(m, above[k-1])
  BY <1>1, <1>3 DEF IsAbove
<1>6. \A ids : ParentsOfAll(m, ids) \subseteq Targets(m)
  BY ParentsAre DEF ParentsOfAll
<1>7. IsFiniteSet(T) /\ Cardinality(T) \in Nat /\ Cardinality(T) <= L + 1
  <2>1. Cardinality(Targets(m)) \in Nat
    BY <1>1, FS_CardinalityType
  <2>2. IsFiniteSet(T) /\ Cardinality(T) <= Cardinality(Targets(m)) + 1
    BY <1>1, <2>1, FS_AddElement
  <2>3. Cardinality(T) \in Nat
    <3> HIDE DEF T
    <3> QED
      BY <2>2, FS_CardinalityType
  <2> HIDE DEF T
  <2> QED
    BY <1>1, <2>1, <2>2, <2>3
<1> DEFINE Grown(k) == /\ id \in above[k] /\ above[k] \subseteq T
                       /\ IsClosed(m, above[k]) \/ Cardinality(above[k]) >= k + 1
                       /\ \A ids : id \in ids /\ IsClosed(m, ids) => above[k] \subseteq ids
           G == {k \in Nat : k <= L => Grown(k)}
<1>8. 0 \in G
  <2>1. id \in above[0] /\ above[0] \subseteq T
    BY <1>4, <1>6
  <2>2. Cardinality(above[0]) >= 1
    BY <1>7, <2>1, FS_Subset, FS_CardinalityType, FS_EmptySet
  <2>3. \A ids : id \in ids /\ IsClosed(m, ids) => above[0] \subseteq ids
    BY <1>4 DEF IsClosed, ParentsOfAll
  <2>4. Grown(0)
    BY <2>1, <2>2, <2>3
  <2> QED
    BY <2>4
<1>9. ASSUME NEW k \in Nat, k \in G PROVE k + 1 \in G
  <2> SUFFICES ASSUME k + 1 <= L PROVE Grown(k + 1)
    OBVIOUS
  <2>1. Grown(k)
    BY <1>1, <1>9
  <2>2. above[k + 1] = above[k] \cup ParentsOfAll(m, above[k])
    BY <1>1, <1>5
  <2>3. id \in above[k + 1] /\ above[k + 1] \subseteq T
    BY <1>6, <2>1, <2>2
  <2>4. \A ids : id \in ids /\ IsClosed(m, ids) => above[k + 1] \subseteq ids
    <3> SUFFICES ASSUME NEW ids, id \in ids, IsClosed(m, ids) PROVE above[k + 1] \subseteq ids
      OBVIOUS
    <3>1. above[k] \subseteq ids
      BY <2>1
    <3>2. ParentsOfAll(m, above[k]) \subseteq ParentsOfAll(m, ids)
      BY <3>1 DEF ParentsOfAll
    <3> QED
      BY <2>2, <3>1, <3>2 DEF IsClosed
  <2>5. IsClosed(m, above[k + 1]) \/ Cardinality(above[k + 1]) >= (k + 1) + 1
    <3>1. CASE IsClosed(m, above[k])
      BY <2>2, <3>1 DEF IsClosed
    <3>2. CASE ~IsClosed(m, above[k])
      <4>1. above[k] \in SUBSET above[k + 1] /\ above[k] # above[k + 1]
        BY <2>2, <3>2 DEF IsClosed
      <4>2. IsFiniteSet(above[k + 1])
        BY <1>7, <2>3, FS_Subset
      <4>3. /\ IsFiniteSet(above[k]) /\ Cardinality(above[k]) <= Cardinality(above[k + 1])
            /\ Cardinality(above[k]) # Cardinality(above[k + 1])
        BY <4>1, <4>2, FS_Subset
      <4>4. Cardinality(above[k]) \in Nat /\ Cardinality(above[k + 1]) \in Nat
        BY <4>2, <4>3, FS_CardinalityType
      <4>5. Cardinality(above[k]) >= k + 1
        BY <2>1, <3>2
      <4> QED
        BY <4>3, <4>4, <4>5
    <3> QED
      BY <3>1, <3>2
  <2> QED
    BY <2>3, <2>4, <2>5
<1>10. Grown(L)
  <2> HIDE DEF Grown
  <2>1. L \in G
    <3> HIDE DEF G
    <3>1. Nat \subseteq G
      BY <1>8, <1>9, SetInduction
    <3> QED
      BY <1>1, <3>1
  <2> QED
    BY <1>1, <2>1
<1>11. IsClosed(m, above[L])
  <2>1. CASE Cardinality(above[L]) >= L + 1
    <3>1. above[L] \in SUBSET T
      BY <1>10
    <3>2. /\ IsFiniteSet(above[L]) /\ Cardinality(above[L]) <= Cardinality(T)
          /\ Cardinality(T) = Cardinality(above[L]) => T = above[L]
      <4> HIDE DEF T
      <4> QED
        BY <1>7, <3>1, FS_Subset
    <3>3. Cardinality(above[L]) \in Nat
      BY <3>2, FS_CardinalityType
    <3>4. T = above[L]
      <4> HIDE DEF T
      <4> QED
        BY <1>1, <1>7, <2>1, <3>2, <3>3
    <3> QED
      BY <1>6, <3>4 DEF IsClosed
  <2> QED
    BY <1>10, <2>1
<1> QED
  BY <1>2, <1>10, <1>11

(* Reachability is transitive, and one step of it is to a parent.          *)
LEMMA AboveAbove ==
  ASSUME NEW m, IsModel(m), NEW x, NEW y \in Above(m, x)
  PROVE  /\ Above(m, y) \subseteq Above(m, x)
         /\ \A p \in ParentsOf(m, y) : p \in Above(m, x)
BY AboveIs DEF IsClosed, ParentsOfAll

LEMMA AboveByParent ==
  ASSUME NEW m, IsModel(m), NEW x, NEW y \in Above(m, x), y # x
  PROVE  \E p \in ParentsOf(m, x) : y \in Above(m, p)
<1> DEFINE ids == {x} \cup UNION {Above(m, p) : p \in ParentsOf(m, x)}
<1>1. ASSUME NEW z \in ids, NEW q \in ParentsOf(m, z) PROVE q \in ids
  BY <1>1, AboveIs, AboveAbove
<1>2. IsClosed(m, ids)
  <2> HIDE DEF ids
  <2> QED
    BY <1>1 DEF IsClosed, ParentsOfAll
<1>3. Above(m, x) \subseteq ids
  <2>1. x \in ids
    OBVIOUS
  <2> HIDE DEF ids
  <2> QED
    BY <1>2, <2>1, AboveIs
<1> QED
  BY <1>3

(* One step of the depth-first search, its stack element by element.       *)

LEMMA SearchIs ==
  ASSUME NEW d \in Searches
  PROVE  /\ d.starts \in Seq(STRING) /\ d.stack \in Seq(FrameType)
         /\ d.black \subseteq STRING /\ d.cycles \subseteq SUBSET STRING
BY DEF Searches, FrameType

LEMMA FrameIs ==
  ASSUME NEW m, IsModel(m), NEW id \in STRING
  PROVE  Frame(m, id) \in FrameType
BY ParentsAre DEF Frame, FrameType

LEMMA HeadTail ==
  ASSUME NEW S, NEW seq \in Seq(S), seq # <<>>
  PROVE  /\ Head(seq) \in S /\ Tail(seq) \in Seq(S) /\ Len(Tail(seq)) = Len(seq) - 1
         /\ Len(seq) \in Nat /\ Len(seq) > 0
         /\ ToSet(seq) = {Head(seq)} \cup ToSet(Tail(seq))
<1>1. /\ Head(seq) \in S /\ Tail(seq) \in Seq(S) /\ Len(Tail(seq)) = Len(seq) - 1
      /\ Len(seq) \in Nat /\ Len(seq) > 0
  OBVIOUS
<1>2. /\ Head(seq) = seq[1] /\ \A i \in 1..(Len(seq) - 1) : Tail(seq)[i] = seq[i + 1]
      /\ DOMAIN Tail(seq) = 1..(Len(seq) - 1) /\ DOMAIN seq = 1..Len(seq)
  OBVIOUS
<1>3. ASSUME NEW i \in DOMAIN seq PROVE seq[i] \in {Head(seq)} \cup ToSet(Tail(seq))
  <2>1. CASE i = 1
    BY <1>2, <2>1
  <2>2. CASE i # 1
    <3>1. i - 1 \in 1..(Len(seq) - 1) /\ (i - 1) + 1 = i
      BY <1>1, <1>2, <2>2
    <3>2. Tail(seq)[i - 1] = seq[i] /\ i - 1 \in DOMAIN Tail(seq)
      BY <1>2, <3>1
    <3> QED
      BY <3>2 DEF ToSet
  <2> QED
    BY <2>1, <2>2
<1>4. Head(seq) \in ToSet(seq)
  BY <1>1, <1>2 DEF ToSet
<1>5. ToSet(Tail(seq)) \subseteq ToSet(seq)
  <2> SUFFICES ASSUME NEW i \in 1..(Len(seq) - 1) PROVE Tail(seq)[i] \in ToSet(seq)
    BY <1>2 DEF ToSet
  <2>1. i + 1 \in DOMAIN seq /\ Tail(seq)[i] = seq[i + 1]
    BY <1>1, <1>2
  <2> QED
    BY <2>1 DEF ToSet
<1>6. ToSet(seq) \subseteq {Head(seq)} \cup ToSet(Tail(seq))
  BY <1>3 DEF ToSet
<1> QED
  BY <1>1, <1>4, <1>5, <1>6

LEMMA FrontIs ==
  ASSUME NEW S, NEW stack \in Seq(S), stack # <<>>
  PROVE  /\ Last(stack) = stack[Len(stack)] /\ Last(stack) \in S
         /\ Len(stack) \in Nat /\ Len(stack) > 0
         /\ Front(stack) \in Seq(S) /\ Len(Front(stack)) = Len(stack) - 1
         /\ \A i \in 1..(Len(stack) - 1) : Front(stack)[i] = stack[i]
<1> DEFINE n == Len(stack) - 1
<1>1. Len(stack) \in Nat /\ Len(stack) > 0 /\ stack[Len(stack)] \in S
  OBVIOUS
<1>2. n \in Nat /\ n < Len(stack)
  BY <1>1
<1>3. Front(stack) = SubSeq(stack, 1, n) /\ Last(stack) = stack[Len(stack)]
  BY DEF Front, Last
<1> HIDE DEF n
<1>4. /\ SubSeq(stack, 1, n) \in Seq(S) /\ Len(SubSeq(stack, 1, n)) = n
      /\ \A i \in 1..n : SubSeq(stack, 1, n)[i] = stack[i]
  BY <1>2
<1> QED
  BY <1>1, <1>3, <1>4 DEF n

LEMMA AdvancedIs ==
  ASSUME NEW stack \in Seq(FrameType), stack # <<>>, Last(stack).left # <<>>
  PROVE  HasAdvanced(stack, Append(Front(stack), [Last(stack) EXCEPT !.left = Tail(@)]))
<1> DEFINE n == Len(stack)
           front == Front(stack)
           top == Last(stack)
           e == [top EXCEPT !.left = Tail(@)]
           next == Append(front, e)
<1>1. /\ top = stack[n] /\ top \in FrameType /\ n \in Nat /\ n > 0
      /\ front \in Seq(FrameType) /\ Len(front) = n - 1
      /\ \A i \in 1..(n - 1) : front[i] = stack[i]
  BY FrontIs
<1> HIDE DEF n, front, top
<1>2. top.left \in Seq(STRING) /\ top.left # <<>>
  BY <1>1 DEF FrameType, top
<1>3. Tail(top.left) \in Seq(STRING)
  BY <1>2, HeadTail
<1>4. e \in FrameType /\ e.cls = top.cls /\ e.left = Tail(top.left)
  BY <1>1, <1>3 DEF FrameType
<1> HIDE DEF e
<1>5. /\ next \in Seq(FrameType) /\ Len(next) = n /\ next[n] = e
      /\ \A i \in 1..(n - 1) : next[i] = stack[i]
  BY <1>1, <1>4
<1> HIDE DEF next
<1>6. HasAdvanced(stack, next)
  BY <1>1, <1>4, <1>5 DEF HasAdvanced, n
<1> QED
  BY <1>6 DEF next, front, e, top

LEMMA ExploreIs ==
  ASSUME NEW m, IsModel(m), NEW d \in Searches, ~IsOver(d)
  PROVE  /\ Explore(m, d) \in Searches
         /\ d.stack = <<>> => SkipsStart(d, Explore(m, d)) \/ BeginsAt(m, d, Explore(m, d))
         /\ d.stack # <<>> => \/ FinishesTop(d, Explore(m, d))
                              \/ \E child : FollowsEdge(m, d, Explore(m, d), child)
<1> DEFINE e == Explore(m, d)
           starts == d.starts
           stack == d.stack
           black == d.black
           cycles == d.cycles
<1>1. /\ starts \in Seq(STRING) /\ stack \in Seq(FrameType)
      /\ black \subseteq STRING /\ cycles \subseteq SUBSET STRING
      /\ d = [starts |-> starts, stack |-> stack, black |-> black, cycles |-> cycles]
  BY SearchIs DEF Searches
<1>2. \A s \in Seq(STRING), t \in Seq(FrameType), b \in SUBSET STRING, c \in SUBSET SUBSET STRING :
        [starts |-> s, stack |-> t, black |-> b, cycles |-> c] \in Searches
  BY DEF Searches, FrameType
<1>3. CASE stack = <<>>
  <2> DEFINE x == Head(starts)
             rest == Tail(starts)
             begun == <<Frame(m, x)>>
  <2>1. starts # <<>>
    BY <1>3 DEF IsOver
  <2>2. x \in STRING /\ rest \in Seq(STRING)
    BY <1>1, <2>1, HeadTail
  <2>3. e = IF x \in black THEN [d EXCEPT !.starts = rest]
            ELSE [[d EXCEPT !.starts = rest] EXCEPT !.stack = begun]
    BY <1>3, Zenon DEF Explore, StartNext
  <2>4. begun \in Seq(FrameType)
    <3>1. Frame(m, x) \in FrameType
      BY <2>2, FrameIs
    <3> QED
      BY <3>1
  <2> HIDE DEF e, x, rest, begun, starts, stack, black, cycles
  <2>5. CASE x \in black
    <3>1. e = [starts |-> rest, stack |-> stack, black |-> black, cycles |-> cycles]
      BY <1>1, <2>3, <2>5
    <3>2. e \in Searches
      BY <1>1, <1>2, <2>2, <3>1
    <3>3. e.starts = rest /\ e.stack = stack /\ e.black = black /\ e.cycles = cycles
      BY <3>1
    <3>4. SkipsStart(d, e)
      BY <1>3, <2>1, <2>5, <3>3 DEF SkipsStart, SameSearch, starts, rest, x, black, cycles
    <3> QED
      BY <1>3, <3>2, <3>4 DEF e, stack
  <2>6. CASE x \notin black
    <3>1. e = [starts |-> rest, stack |-> begun, black |-> black, cycles |-> cycles]
      BY <1>1, <2>3, <2>6
    <3>2. e \in Searches
      BY <1>1, <1>2, <2>2, <2>4, <3>1
    <3>3. e.starts = rest /\ e.stack = begun /\ e.black = black /\ e.cycles = cycles
      BY <3>1
    <3>4. BeginsAt(m, d, e)
      BY <1>3, <2>1, <2>6, <3>3 DEF BeginsAt, SameSearch, starts, rest, x, begun, black, cycles
    <3> QED
      BY <1>3, <3>2, <3>4 DEF e, stack
  <2> QED
    BY <2>5, <2>6
<1>4. CASE stack # <<>> /\ Last(stack).left = <<>>
  <2> DEFINE top == Last(stack)
             front == Front(stack)
             darker == black \cup {top.cls}
  <2>1. e = [d EXCEPT !.black = darker, !.stack = front]
    BY <1>4, Zenon DEF Explore, FinishTop
  <2>2. /\ top = stack[Len(stack)] /\ top \in FrameType
        /\ front \in Seq(FrameType) /\ Len(front) = Len(stack) - 1
        /\ \A i \in 1..(Len(stack) - 1) : front[i] = stack[i]
    <3> HIDE DEF stack
    <3> QED
      BY <1>1, <1>4, FrontIs
  <2>3. darker \in SUBSET STRING
    BY <1>1, <2>2 DEF FrameType
  <2> HIDE DEF e, top, front, darker, starts, stack, black, cycles
  <2>4. e = [starts |-> starts, stack |-> front, black |-> darker, cycles |-> cycles]
    BY <1>1, <2>1
  <2>5. e \in Searches
    BY <1>1, <1>2, <2>2, <2>3, <2>4
  <2>6. e.starts = starts /\ e.stack = front /\ e.black = darker /\ e.cycles = cycles
    BY <2>4
  <2>7. FinishesTop(d, e)
    BY <1>4, <2>2, <2>6 DEF FinishesTop, starts, top, stack, darker, black, cycles
  <2> QED
    BY <1>4, <2>5, <2>7 DEF e, stack
<1>5. CASE stack # <<>> /\ Last(stack).left # <<>>
  <2> DEFINE top == Last(stack)
             child == Head(top.left)
             next == Append(Front(stack), [top EXCEPT !.left = Tail(@)])
             longer == Append(next, Frame(m, child))
             members == CycleMembers(stack, child)
             more == cycles \cup {members}
  <2>1. e = IF child \in Grey(stack)
              THEN [[d EXCEPT !.stack = next] EXCEPT !.cycles = more]
            ELSE IF child \in black THEN [d EXCEPT !.stack = next]
            ELSE [[d EXCEPT !.stack = next] EXCEPT !.stack = longer]
    BY <1>5, Zenon DEF Explore, FollowEdge
  <2>2. HasAdvanced(stack, next) /\ top = stack[Len(stack)] /\ top \in FrameType
    <3> HIDE DEF stack
    <3> QED
      BY <1>1, <1>5, AdvancedIs, FrontIs
  <2>3. next \in Seq(FrameType)
    <3> HIDE DEF next
    <3> QED
      BY <2>2 DEF HasAdvanced
  <2>4. child \in STRING
    BY <1>5, <2>2 DEF FrameType
  <2>5. longer \in Seq(FrameType)
    <3>1. Frame(m, child) \in FrameType
      BY <2>4, FrameIs
    <3> HIDE DEF next
    <3> QED
      BY <2>3, <3>1
  <2>6. members \subseteq STRING \/ child \notin Grey(stack)
    <3> SUFFICES ASSUME child \in Grey(stack) PROVE members \subseteq STRING
      OBVIOUS
    <3> DEFINE I == {i \in 1..Len(stack) : stack[i].cls = child}
    <3>1. Len(stack) \in Nat /\ DOMAIN stack = 1..Len(stack)
      BY <1>1
    <3>2. I # {} /\ I \in SUBSET (1..Len(stack))
      BY <3>1 DEF Grey
    <3>3. Min(I) \in I
      <4> HIDE DEF I, stack
      <4> QED
        BY <3>1, <3>2, MinOf
    <3>4. members = {stack[i].cls : i \in Min(I)..Len(stack)}
      BY <3>2 DEF CycleMembers, SelectInSeq
    <3>5. \A i \in 1..Len(stack) : stack[i].cls \in STRING
      <4> HIDE DEF stack
      <4>1. \A i \in 1..Len(stack) : stack[i] \in FrameType
        BY <1>1
      <4> QED
        BY <4>1 DEF FrameType
    <3>6. Min(I)..Len(stack) \subseteq 1..Len(stack)
      <4>1. Min(I) \in 1..Len(stack)
        BY <3>3
      <4> HIDE DEF I, stack
      <4> QED
        BY <3>1, <4>1
    <3> HIDE DEF I, stack, members
    <3> QED
      BY <3>4, <3>5, <3>6
  <2> HIDE DEF e, top, child, next, longer, members, more, starts, stack, black, cycles
  <2>7. CASE child \in Grey(stack)
    <3>1. e = [starts |-> starts, stack |-> next, black |-> black, cycles |-> more]
      BY <1>1, <2>1, <2>7
    <3>2. more \in SUBSET SUBSET STRING
      BY <1>1, <2>6, <2>7 DEF more
    <3>3. e \in Searches
      BY <1>1, <1>2, <2>3, <3>1, <3>2
    <3>4. e.starts = starts /\ e.stack = next /\ e.black = black /\ e.cycles = more
      BY <3>1
    <3>5. FollowsEdge(m, d, e, child)
      BY <1>5, <2>2, <2>7, <3>4, Zenon
      DEF FollowsEdge, starts, top, stack, child, black, cycles, more, members
    <3> QED
      BY <1>5, <3>3, <3>5 DEF e, stack
  <2>8. CASE child \notin Grey(stack) /\ child \in black
    <3>1. e = [starts |-> starts, stack |-> next, black |-> black, cycles |-> cycles]
      BY <1>1, <2>1, <2>8
    <3>2. e \in Searches
      BY <1>1, <1>2, <2>3, <3>1
    <3>3. e.starts = starts /\ e.stack = next /\ e.black = black /\ e.cycles = cycles
      BY <3>1
    <3>4. FollowsEdge(m, d, e, child)
      BY <1>5, <2>2, <2>8, <3>3, Zenon
      DEF FollowsEdge, starts, top, stack, child, black, cycles
    <3> QED
      BY <1>5, <3>2, <3>4 DEF e, stack
  <2>9. CASE child \notin Grey(stack) /\ child \notin black
    <3>1. e = [starts |-> starts, stack |-> longer, black |-> black, cycles |-> cycles]
      BY <1>1, <2>1, <2>9
    <3>2. e \in Searches
      BY <1>1, <1>2, <2>5, <3>1
    <3>3. e.starts = starts /\ e.stack = longer /\ e.black = black /\ e.cycles = cycles
      BY <3>1
    <3>4. FollowsEdge(m, d, e, child)
      BY <1>5, <2>2, <2>9, <3>3, Zenon
      DEF FollowsEdge, starts, top, stack, child, black, cycles, longer
    <3> QED
      BY <1>5, <3>2, <3>4 DEF e, stack
  <2> QED
    BY <2>7, <2>8, <2>9
<1> QED
  BY <1>3, <1>4, <1>5

(* What holds throughout the search.  IsCycle is what CycleRuleExact says  *)
(* of a reported cycle; Loopless is what it denies where none is reported. *)

LEMMA FinishedMore ==
  ASSUME NEW m, NEW black, IsFinished(m, black), NEW x, x \notin black,
         ParentsOf(m, x) \subseteq black
  PROVE  IsFinished(m, black \cup {x})
<1> SUFFICES ASSUME NEW part \in SUBSET (black \cup {x}), part # {}
             PROVE  \E y \in part : ParentsOf(m, y) \cap part = {}
  BY DEF IsFinished, Loopless
<1> DEFINE rest == part \ {x}
<1>1. CASE rest = {}
  BY <1>1
<1>2. CASE rest # {}
  <2>1. PICK y \in rest : ParentsOf(m, y) \cap rest = {}
    BY <1>2 DEF IsFinished, Loopless
  <2>2. x \notin ParentsOf(m, y)
    BY <2>1 DEF IsFinished
  <2> QED
    BY <2>1, <2>2
<1> QED
  BY <1>1, <1>2

(* What lies further up the stack is above what lies below.                *)
LEMMA PathIsAbove ==
  ASSUME NEW m, IsModel(m), NEW stack \in Seq(FrameType), NEW black, Chained(m, stack, black),
         NEW i \in 1..Len(stack), NEW j \in i..Len(stack)
  PROVE  stack[j].cls \in Above(m, stack[i].cls)
<1> DEFINE G == {k \in Nat : i + k <= Len(stack) => stack[i + k].cls \in Above(m, stack[i].cls)}
<1>1. 0 \in G
  BY AboveIs
<1>2. ASSUME NEW k \in Nat, k \in G PROVE k + 1 \in G
  <2> SUFFICES ASSUME i + (k + 1) <= Len(stack)
               PROVE  stack[i + (k + 1)].cls \in Above(m, stack[i].cls)
    OBVIOUS
  <2>1. i + k \in 1..(Len(stack) - 1) /\ (i + k) + 1 = i + (k + 1) /\ i + k <= Len(stack)
    OBVIOUS
  <2>2. stack[i + k].cls \in Above(m, stack[i].cls)
    BY <1>2, <2>1
  <2>3. stack[(i + k) + 1].cls \in ParentsOf(m, stack[i + k].cls)
    BY <2>1 DEF Chained
  <2> QED
    BY <2>1, <2>2, <2>3, AboveAbove
<1>3. j - i \in Nat /\ i + (j - i) = j /\ j <= Len(stack)
  OBVIOUS
<1>4. j - i \in G
  <2> HIDE DEF G
  <2>1. Nat \subseteq G
    BY <1>1, <1>2, SetInduction
  <2> QED
    BY <1>3, <2>1
<1> QED
  BY <1>3, <1>4

LEMMA MembersAre ==
  ASSUME NEW stack \in Seq(FrameType), NEW child \in Grey(stack)
  PROVE  \E k \in 1..Len(stack) :
           stack[k].cls = child /\ CycleMembers(stack, child) = {stack[i].cls : i \in k..Len(stack)}
<1> DEFINE I == {i \in 1..Len(stack) : stack[i].cls = child}
<1>1. Len(stack) \in Nat /\ DOMAIN stack = 1..Len(stack)
  OBVIOUS
<1>2. I # {} /\ I \in SUBSET (1..Len(stack))
  BY <1>1 DEF Grey
<1>3. Min(I) \in I
  <2> HIDE DEF I
  <2> QED
    BY <1>1, <1>2, MinOf
<1>4. CycleMembers(stack, child) = {stack[i].cls : i \in Min(I)..Len(stack)}
  BY <1>2 DEF CycleMembers, SelectInSeq
<1> DEFINE k == Min(I)
<1>5. k \in 1..Len(stack) /\ stack[k].cls = child
  BY <1>3
<1> HIDE DEF I
<1> QED
  BY <1>4, <1>5

(* A grey parent of the top class closes a cycle.                          *)
LEMMA MembersAreCycle ==
  ASSUME NEW m, IsModel(m), NEW stack \in Seq(FrameType), NEW black, Chained(m, stack, black),
         NEW child \in Grey(stack), child \in ParentsOf(m, stack[Len(stack)].cls)
  PROVE  IsCycle(m, CycleMembers(stack, child))
<1> DEFINE n == Len(stack)
           members == CycleMembers(stack, child)
<1>1. PICK k \in 1..n : stack[k].cls = child /\ members = {stack[i].cls : i \in k..n}
  BY MembersAre
<1>2. n \in Nat /\ k <= n
  OBVIOUS
<1> HIDE DEF members
<1>3. ASSUME NEW i \in k..n PROVE stack[i].cls \in Above(m, child)
  BY <1>1, <1>3, PathIsAbove
<1>4. ASSUME NEW i \in k..n PROVE child \in Above(m, stack[i].cls)
  BY <1>1, <1>2, PathIsAbove, AboveAbove
<1>5. \A x, y \in members : y \in Above(m, x)
  <2> SUFFICES ASSUME NEW i \in k..n, NEW j \in k..n
               PROVE  stack[j].cls \in Above(m, stack[i].cls)
    BY <1>1
  <2> QED
    BY <1>3, <1>4, AboveAbove
<1>6. ASSUME NEW x \in members PROVE OnCycle(m, x)
  BY <1>1, <1>2, <1>5 DEF Chained, OnCycle
<1>7. child \in members
  BY <1>1, <1>2
<1> QED
  BY <1>5, <1>6, <1>7 DEF IsCycle, members

LEMMA SkipKeeps ==
  ASSUME NEW m, NEW d, SearchInv(m, d), d.stack = <<>>, NEW e \in Searches, SkipsStart(d, e)
  PROVE  SearchInv(m, e)
BY SearchIs, HeadTail DEF SearchInv, SkipsStart, Covered, SameSearch

LEMMA BeginKeeps ==
  ASSUME NEW m, IsModel(m), NEW d, SearchInv(m, d), d.stack = <<>>,
         NEW e \in Searches, BeginsAt(m, d, e)
  PROVE  SearchInv(m, e)
<1> DEFINE x == Head(d.starts)
           frame == Frame(m, x)
<1>1. d.starts \in Seq(STRING) /\ d.starts # <<>>
  BY SearchIs DEF SearchInv, BeginsAt
<1>2. ToSet(d.starts) = {x} \cup ToSet(e.starts)
  BY <1>1, HeadTail DEF BeginsAt
<1>3. x \in Sources(m) /\ x \notin d.black
  BY <1>2 DEF Covered, SearchInv, BeginsAt
<1>4. frame.cls = x /\ ToSet(frame.left) = ParentsOf(m, x)
  BY ParentsAre DEF Frame
<1>5. e.stack = <<frame>> /\ e.black = d.black /\ e.cycles = d.cycles
  BY DEF BeginsAt, SameSearch
<1> HIDE DEF x, frame
<1>6. Len(e.stack) = 1 /\ DOMAIN e.stack = 1..1 /\ e.stack[1] = frame
  BY <1>5
<1>7. Grey(e.stack) = {x} /\ Grey(<<>>) = {}
  BY <1>4, <1>6 DEF Grey
<1>8. Covered(m, e)
  BY <1>2, <1>5, <1>7 DEF Covered, SearchInv
<1>9. Chained(m, e.stack, e.black)
  BY <1>3, <1>4, <1>5, <1>6 DEF Chained, Nodes
<1>10. HasLooked(m, e.stack, e.black)
  BY <1>4, <1>6 DEF HasLooked
<1> QED
  BY <1>5, <1>8, <1>9, <1>10 DEF SearchInv

LEMMA FinishKeeps ==
  ASSUME NEW m, NEW d, SearchInv(m, d), d.stack # <<>>, NEW e \in Searches, FinishesTop(d, e)
  PROVE  SearchInv(m, e) /\ e.black \cup Grey(e.stack) = d.black \cup Grey(d.stack)
<1> DEFINE n == Len(d.stack)
           top == d.stack[n].cls
           stack == d.stack
           less == e.stack
<1>1. stack \in Seq(FrameType) /\ stack # <<>>
  BY SearchIs DEF SearchInv
<1>2. n \in Nat /\ n > 0 /\ DOMAIN stack = 1..n
  BY <1>1
<1>3. /\ less \in Seq(FrameType) /\ Len(less) = n - 1 /\ \A i \in 1..(n - 1) : less[i] = stack[i]
      /\ e.black = d.black \cup {top} /\ e.starts = d.starts /\ e.cycles = d.cycles
      /\ stack[n].left = <<>>
  BY DEF FinishesTop
<1>4. DOMAIN less = 1..(n - 1)
  BY <1>3
<1>5. Chained(m, stack, d.black)
  BY DEF SearchInv
<1> HIDE DEF n, top, stack, less
<1>6. Grey(stack) = Grey(less) \cup {top}
  BY <1>2, <1>3, <1>4 DEF Grey, top, stack
<1>7. e.black \cup Grey(less) = d.black \cup Grey(stack)
  BY <1>3, <1>6
<1>8. Covered(m, e)
  BY <1>3, <1>7 DEF Covered, SearchInv, stack, less
<1>9. top \in Nodes(m) \ d.black /\ \A i \in 1..(n - 1) : stack[i].cls # top
  BY <1>2, <1>5 DEF n, stack, Chained, top
<1>10. Chained(m, less, e.black)
  <2>1. n = Len(stack) /\ \A i \in 1..(n - 1) : i \in 1..n
    BY <1>2 DEF n, stack
  <2>2. \A i \in 1..((n - 1) - 1) : i \in 1..(n - 1) /\ i + 1 \in 1..(n - 1)
    BY <1>2
  <2>3. \A i \in 1..(n - 1) : /\ less[i].cls \in Nodes(m) \ e.black
                             /\ ToSet(less[i].left) \subseteq ParentsOf(m, less[i].cls)
    BY <1>3, <1>5, <1>9, <2>1 DEF Chained
  <2>4. \A i, j \in 1..(n - 1) : less[i].cls = less[j].cls => i = j
    BY <1>3, <1>5, <2>1 DEF Chained
  <2>5. \A i \in 1..((n - 1) - 1) : less[i + 1].cls \in ParentsOf(m, less[i].cls)
    BY <1>3, <1>5, <2>1, <2>2 DEF Chained
  <2> QED
    BY <1>3, <2>3, <2>4, <2>5 DEF Chained
<1>11. ASSUME d.cycles = {} PROVE HasLooked(m, less, e.black) /\ IsFinished(m, e.black)
  <2>1. HasLooked(m, stack, d.black) /\ IsFinished(m, d.black)
    BY <1>11 DEF SearchInv, stack
  <2>2. n = Len(stack) /\ n \in 1..n /\ ~(n < n)
    BY <1>2 DEF n, stack
  <2>3. ParentsOf(m, top) \subseteq d.black
    BY <1>3, <2>1, <2>2 DEF ToSet, HasLooked, top, stack
  <2>4. IsFinished(m, e.black)
    BY <1>3, <1>9, <2>1, <2>3, FinishedMore
  <2>5. HasLooked(m, less, e.black)
    <3> SUFFICES ASSUME NEW i \in 1..(n - 1), NEW p \in ParentsOf(m, less[i].cls),
                        p \notin ToSet(less[i].left), p \notin e.black
                 PROVE  i < n - 1 /\ p = less[i + 1].cls
      BY <1>3 DEF HasLooked
    <3>1. i \in 1..n /\ less[i] = stack[i]
      BY <1>2, <1>3
    <3>2. p = stack[i + 1].cls
      BY <1>3, <2>1, <2>2, <3>1 DEF HasLooked
    <3>3. i + 1 # n
      BY <1>3, <3>2 DEF top, stack
    <3>4. i < n - 1 /\ i + 1 \in 1..(n - 1)
      BY <1>2, <3>3
    <3> QED
      BY <1>3, <3>2, <3>4
  <2> QED
    BY <2>4, <2>5
<1>12. SearchInv(m, e)
  BY <1>3, <1>8, <1>10, <1>11 DEF SearchInv, less
<1> QED
  BY <1>7, <1>12 DEF stack, less

(* Only the edges that the top frame has still to look at change.          *)
LEMMA AdvanceKeeps ==
  ASSUME NEW m, NEW stack \in Seq(FrameType), stack # <<>>, NEW black, Chained(m, stack, black),
         NEW next, HasAdvanced(stack, next), stack[Len(stack)].left # <<>>,
         NEW child, child = Head(stack[Len(stack)].left)
  PROVE  /\ Chained(m, next, black) /\ Grey(next) = Grey(stack)
         /\ child \in ParentsOf(m, next[Len(next)].cls)
         /\ HasLooked(m, stack, black) => HasLookedBut(m, next, black, child)
<1> DEFINE n == Len(stack)
           old == stack[n].left
<1>1. n \in Nat /\ n > 0 /\ DOMAIN stack = 1..n /\ n \in 1..n /\ \A i \in 1..n : stack[i] \in FrameType
  OBVIOUS
<1>2. /\ next \in Seq(FrameType) /\ Len(next) = n /\ \A i \in 1..(n - 1) : next[i] = stack[i]
      /\ next[n].cls = stack[n].cls /\ next[n].left = Tail(old)
  BY DEF HasAdvanced
<1>3. DOMAIN next = 1..n
  BY <1>2
<1>4. ToSet(old) = {child} \cup ToSet(Tail(old))
  <2>1. old \in Seq(STRING) /\ old # <<>>
    BY <1>1 DEF FrameType
  <2> HIDE DEF old
  <2> QED
    BY <2>1, HeadTail DEF old
<1> HIDE DEF old, n
<1>5. \A i \in 1..n : i = n \/ i \in 1..(n - 1)
  BY <1>1
<1>6. \A i \in 1..n : next[i].cls = stack[i].cls
  BY <1>2, <1>5
<1>8. \A i \in 1..(n - 1) : i \in 1..n /\ i + 1 \in 1..n
  BY <1>1
<1>9. Chained(m, next, black)
  BY <1>2, <1>6, <1>8, <1>4, <1>5 DEF Chained, n, old
<1>10. Grey(next) = Grey(stack)
  BY <1>1, <1>3, <1>6 DEF Grey
<1>11. child \in ParentsOf(m, next[n].cls)
  BY <1>1, <1>2, <1>4 DEF Chained, n, old
<1>12. ASSUME HasLooked(m, stack, black), NEW i \in 1..n, NEW p \in ParentsOf(m, next[i].cls),
              p \notin black, ~(i = n /\ p = child)
       PROVE  p \in ToSet(next[i].left) \/ (i < n /\ p = next[i + 1].cls)
  <2>1. p \in ToSet(stack[i].left) \/ (i < n /\ p = stack[i + 1].cls)
    BY <1>6, <1>12 DEF HasLooked, n
  <2>2. CASE i = n
    BY <1>1, <2>1, <2>2, <1>2, <1>4, <1>12 DEF old
  <2>3. CASE i # n
    BY <1>1, <2>3, <1>2, <1>6, <2>1
  <2> QED
    BY <2>2, <2>3
<1> QED
  BY <1>2, <1>9, <1>10, <1>11, <1>12 DEF n, HasLookedBut

LEMMA FollowKeeps ==
  ASSUME NEW m, IsModel(m), NEW d, SearchInv(m, d), d.stack # <<>>,
         NEW e \in Searches, NEW child, FollowsEdge(m, d, e, child)
  PROVE  SearchInv(m, e)
<1> DEFINE stack == d.stack
           black == d.black
           n == Len(stack)
<1>1. stack \in Seq(FrameType) /\ stack # <<>>
  BY SearchIs DEF SearchInv
<1>2. Chained(m, stack, black)
  BY DEF SearchInv
<1>3. /\ stack[n].left # <<>> /\ child = Head(stack[n].left)
      /\ e.starts = d.starts /\ e.black = black
  BY DEF FollowsEdge
<1>4. PICK next :
        /\ HasAdvanced(stack, next)
        /\ \/ /\ child \in Grey(stack) /\ e.stack = next
              /\ e.cycles = d.cycles \cup {CycleMembers(stack, child)}
           \/ /\ child \notin Grey(stack) /\ child \in black
              /\ e.stack = next /\ e.cycles = d.cycles
           \/ /\ child \notin Grey(stack) /\ child \notin black
              /\ e.stack = Append(next, Frame(m, child)) /\ e.cycles = d.cycles
  BY DEF FollowsEdge
<1> HIDE DEF stack, black, n
<1>5. n = Len(stack)
  BY DEF n
<1>6. /\ Chained(m, next, black) /\ Grey(next) = Grey(stack)
      /\ child \in ParentsOf(m, next[Len(next)].cls)
      /\ HasLooked(m, stack, black) => HasLookedBut(m, next, black, child)
  <2>1. stack[Len(stack)].left # <<>> /\ child = Head(stack[Len(stack)].left)
    BY <1>3, <1>5
  <2> QED
    BY <1>1, <1>2, <2>1, <1>4, AdvanceKeeps
<1>7. next \in Seq(FrameType) /\ Len(next) = n /\ next[n].cls = stack[n].cls
  BY <1>4, <1>5 DEF HasAdvanced
<1>8. /\ Covered(m, d) /\ \A cycle \in d.cycles : IsCycle(m, cycle)
      /\ d.cycles = {} => HasLooked(m, stack, black) /\ IsFinished(m, black)
  BY DEF SearchInv, stack, black
<1>9. CASE e.stack = next
  <2>1. Covered(m, e)
    BY <1>3, <1>6, <1>8, <1>9 DEF Covered, stack, black
  <2>2. Chained(m, e.stack, e.black)
    BY <1>3, <1>6, <1>9
  <2>3. CASE child \in Grey(stack)
    <3>2. IsCycle(m, CycleMembers(stack, child))
      BY <1>1, <1>2, <1>5, <1>6, <1>7, <2>3, MembersAreCycle
    <3> QED
      BY <1>8, <2>1, <2>2, <3>2, <1>7, <1>4, <2>3 DEF SearchInv
  <2>4. CASE child \notin Grey(stack)
    <3>1. e.cycles = d.cycles /\ child \in black
      BY <1>7, <1>4, <1>9, <2>4
    <3>2. e.cycles = {} => HasLooked(m, e.stack, e.black)
      BY <1>3, <1>6, <1>8, <1>9, <3>1 DEF HasLooked, HasLookedBut
    <3> QED
      BY <1>3, <1>8, <2>1, <2>2, <3>1, <3>2 DEF SearchInv
  <2> QED
    BY <2>3, <2>4
<1>10. CASE /\ child \notin Grey(stack) /\ child \notin black
            /\ e.stack = Append(next, Frame(m, child)) /\ e.cycles = d.cycles
  <2> DEFINE frame == Frame(m, child)
             longer == Append(next, frame)
  <2>1. child \in Targets(m) /\ child \in STRING
    <3> QED
      BY <1>6, <1>7, ParentsAre, ToSetOf
  <2>2. frame \in FrameType /\ frame.cls = child /\ ToSet(frame.left) = ParentsOf(m, child)
    BY <2>1, FrameIs, ParentsAre DEF Frame
  <2> HIDE DEF frame
  <2>3. /\ n \in Nat /\ DOMAIN next = 1..n
        /\ longer \in Seq(FrameType) /\ Len(longer) = n + 1 /\ DOMAIN longer = 1..(n + 1)
        /\ longer[n + 1] = frame /\ \A i \in 1..n : longer[i] = next[i]
    BY <1>7, <2>2
  <2> HIDE DEF longer
  <2>4. e.stack = longer
    BY <1>10 DEF longer, frame
  <2>5. \A i \in 1..(n + 1) : i = n + 1 \/ i \in 1..n
    BY <2>3
  <2>6. Grey(longer) = Grey(next) \cup {child}
    BY <2>3, <2>2, <2>5 DEF Grey
  <2>7. Covered(m, e)
    BY <1>3, <1>6, <1>8, <2>4, <2>6 DEF Covered, stack, black
  <2>8. \A i \in 1..n : next[i].cls # child
    BY <1>6, <1>10, <2>3 DEF Grey
  <2>9. Chained(m, longer, black)
    <3>1. \A i \in 1..(n + 1) : /\ longer[i].cls \in Nodes(m) \ black
                                /\ ToSet(longer[i].left) \subseteq ParentsOf(m, longer[i].cls)
      <4>2. /\ longer[n + 1].cls \in Nodes(m) \ black
            /\ ToSet(longer[n + 1].left) \subseteq ParentsOf(m, longer[n + 1].cls)
        BY <1>10, <2>1, <2>2, <2>3 DEF Nodes
      <4> QED
        BY <2>5, <4>2, <1>6, <1>7, <2>3 DEF Chained
    <3>2. \A i, j \in 1..(n + 1) : longer[i].cls = longer[j].cls => i = j
      BY <1>6, <1>7, <2>2, <2>3, <2>5, <2>8 DEF Chained
    <3>3. ASSUME NEW i \in 1..n PROVE longer[i + 1].cls \in ParentsOf(m, longer[i].cls)
      <4>1. CASE i = n
        BY <1>6, <1>7, <2>2, <2>3, <4>1
      <4>2. CASE i # n
        BY <2>3, <4>2, <1>6, <1>7 DEF Chained
      <4> QED
        BY <4>1, <4>2
    <3>4. (n + 1) - 1 = n
      BY <2>3
    <3> QED
      BY <2>3, <3>1, <3>2, <3>3, <3>4 DEF Chained
  <2>10. ASSUME HasLooked(m, stack, black) PROVE HasLooked(m, longer, black)
    <3> SUFFICES ASSUME NEW i \in 1..(n + 1), NEW p \in ParentsOf(m, longer[i].cls),
                        p \notin ToSet(longer[i].left), p \notin black
                 PROVE  i < n + 1 /\ p = longer[i + 1].cls
      BY <2>3 DEF HasLooked
    <3>1. i \in 1..n
      BY <2>2, <2>3, <2>5
    <3>2. longer[i] = next[i] /\ i < n + 1
      BY <2>3, <3>1
    <3>3. (i < n /\ p = next[i + 1].cls) \/ (i = n /\ p = child)
      BY <1>6, <1>7, <2>10, <3>1, <3>2 DEF HasLookedBut
    <3>4. CASE i < n /\ p = next[i + 1].cls
      BY <2>3, <3>1, <3>4, <3>2
    <3> QED
      BY <2>2, <2>3, <3>2, <3>3, <3>4
  <2> QED
    BY <1>3, <1>8, <1>10, <2>4, <2>7, <2>9, <2>10 DEF SearchInv
<1> QED
  BY <1>4, <1>9, <1>10

(* The search starts with every class that has a parent.                   *)
LEMMA StartHolds ==
  ASSUME NEW m, IsModel(m)
  PROVE  SearchInv(m, StartOf(m))
<1> DEFINE edges == Generalizations(m)
           n == Len(edges)
           starts == [i \in 1..n |-> edges[i].source.cls]
           d == StartOf(m)
<1>1. edges \in Seq(RelationshipType) /\ Sources(m) \subseteq STRING
  BY GeneralizationsAre
<1> HIDE DEF edges
<1>2. n \in Nat /\ DOMAIN edges = 1..n /\ \A i \in 1..n : edges[i] \in RelationshipType
  BY <1>1
<1>3. \A i \in 1..n : edges[i].source.cls \in STRING
  BY <1>2 DEF RelationshipType, EndType
<1>4. starts \in Seq(STRING) /\ DOMAIN starts = 1..n
  <2> HIDE DEF n
  <2> QED
    BY <1>2, <1>3, FunctionIsSeq
<1>5. ToSet(starts) = Sources(m)
  BY <1>2, <1>4 DEF ToSet, Sources, edges
<1>6. d = [starts |-> starts, stack |-> <<>>, black |-> {}, cycles |-> {}]
  BY <1>2 DEF StartOf, edges
<1> HIDE DEF starts, d
<1>7. /\ d.starts = starts /\ d.stack = <<>> /\ d.black = {} /\ d.cycles = {}
      /\ d \in Searches
  BY <1>4, <1>6 DEF Searches
<1>8. Covered(m, d)
  BY <1>5, <1>7 DEF Covered
<1>10. SearchInv(m, d)
  BY <1>7, <1>8 DEF SearchInv, Chained, HasLooked, IsFinished, Loopless
<1> QED
  BY <1>10 DEF d

(* Every step keeps the invariant; a search that is over says it all.      *)
LEMMA ExploreKeeps ==
  ASSUME NEW m, IsModel(m), NEW d, SearchInv(m, d), ~IsOver(d)
  PROVE  SearchInv(m, Explore(m, d))
<1>1. d \in Searches
  BY DEF SearchInv
<1>2. Explore(m, d) \in Searches
  BY <1>1, ExploreIs
<1>3. CASE d.stack = <<>>
  BY <1>1, <1>2, <1>3, ExploreIs, SkipKeeps, BeginKeeps
<1>4. CASE d.stack # <<>>
  BY <1>1, <1>2, <1>4, ExploreIs, FinishKeeps, FollowKeeps
<1> QED
  BY <1>3, <1>4

LEMMA OverIs ==
  ASSUME NEW m, NEW d, SearchInv(m, d), IsOver(d)
  PROVE  CyclesAre(m, d.cycles)
BY DEF Grey, ToSet, IsOver, SearchInv, Covered, CyclesAre

(* The search comes to an end: each step leaves fewer classes unseen, or   *)
(* as many and a shorter stack or list of starts, or fewer edges to follow *)
(* from the class on top.                                                  *)

LEMMA MeasuresAre ==
  ASSUME NEW m, IsModel(m), NEW d \in Searches
  PROVE  /\ IsFiniteSet(Unseen(m, d)) /\ Cardinality(Unseen(m, d)) \in Nat
         /\ Waiting(d) \in Nat /\ LeftOnTop(d) \in Nat
<1>2. IsFiniteSet(Unseen(m, d))
  BY FS_Subset, EndsFinite, FS_Union DEF Unseen, Nodes
<1>3. d.starts \in Seq(STRING) /\ d.stack \in Seq(FrameType)
  BY SearchIs
<1>4. Waiting(d) \in Nat
  <2> DEFINE a == Len(d.starts)
             b == Len(d.stack)
  <2>1. a \in Nat /\ b \in Nat
    BY <1>3
  <2>2. Waiting(d) = a + b
    BY Zenon DEF Waiting
  <2> HIDE DEF a, b
  <2> QED
    BY <2>1, <2>2
<1>5. LeftOnTop(d) \in Nat
  <2> DEFINE stack == d.stack
             n == Len(stack)
  <2>1. CASE stack # <<>>
    <3> HIDE DEF stack
    <3>1. stack[n] \in FrameType
      BY <1>3, <2>1 DEF stack
    <3> QED
      BY <2>1, <3>1 DEF LeftOnTop, stack, FrameType
  <2> QED
    BY <2>1 DEF LeftOnTop
<1> QED
  BY <1>2, <1>4, <1>5, FS_CardinalityType

(* A class that is seen for the first time leaves fewer unseen.            *)
LEMMA SeeingShrinks ==
  ASSUME NEW m, IsModel(m), NEW d \in Searches, NEW e \in Searches,
         Unseen(m, e) \subseteq Unseen(m, d), Unseen(m, e) # Unseen(m, d)
  PROVE  Shrinks(m, d, e)
BY MeasuresAre, FS_Subset DEF Shrinks

LEMMA FollowShrinks ==
  ASSUME NEW m, IsModel(m), NEW d, SearchInv(m, d), d.stack # <<>>,
         NEW e \in Searches, NEW child, FollowsEdge(m, d, e, child)
  PROVE  Shrinks(m, d, e)
<1> DEFINE stack == d.stack
           black == d.black
           n == Len(stack)
           old == stack[n].left
<1>1. stack \in Seq(FrameType) /\ stack # <<>> /\ d \in Searches
  BY SearchIs DEF SearchInv
<1>2. Chained(m, stack, black)
  BY DEF SearchInv
<1>3. old # <<>> /\ child = Head(old) /\ e.starts = d.starts /\ e.black = black
  BY DEF FollowsEdge
<1>4. PICK next :
        /\ HasAdvanced(stack, next)
        /\ \/ /\ child \in Grey(stack) /\ e.stack = next
              /\ e.cycles = d.cycles \cup {CycleMembers(stack, child)}
           \/ /\ child \notin Grey(stack) /\ child \in black
              /\ e.stack = next /\ e.cycles = d.cycles
           \/ /\ child \notin Grey(stack) /\ child \notin black
              /\ e.stack = Append(next, Frame(m, child)) /\ e.cycles = d.cycles
  BY DEF FollowsEdge
<1> HIDE DEF stack, black
<1>5. Grey(next) = Grey(stack) /\ child \in ParentsOf(m, next[Len(next)].cls)
  <2>1. stack[Len(stack)].left # <<>> /\ child = Head(stack[Len(stack)].left)
    BY <1>3
  <2>2. HasAdvanced(stack, next)
    BY <1>4
  <2> HIDE DEF n, old
  <2>3. /\ Chained(m, next, black) /\ Grey(next) = Grey(stack)
        /\ child \in ParentsOf(m, next[Len(next)].cls)
        /\ HasLooked(m, stack, black) => HasLookedBut(m, next, black, child)
    BY <1>1, <1>2, <2>1, <2>2, AdvanceKeeps
  <2> QED
    BY <2>3
<1>6. next \in Seq(FrameType) /\ Len(next) = n /\ next[n].left = Tail(old)
  BY <1>4 DEF HasAdvanced
<1>7. n \in Nat /\ n > 0 /\ old \in Seq(STRING) /\ DOMAIN next = 1..n
  <2>1. n \in Nat /\ n > 0 /\ stack[n] \in FrameType /\ DOMAIN next = 1..n
    BY <1>1, <1>6
  <2> QED
    BY <2>1 DEF FrameType
<1>8. Len(Tail(old)) < Len(old)
  <2> HIDE DEF old
  <2> QED
    BY <1>3, <1>7, HeadTail
<1> HIDE DEF old, n
<1>9. CASE e.stack = next
  <2>1. Unseen(m, e) = Unseen(m, d)
    BY <1>3, <1>5, <1>9 DEF Unseen, stack, black
  <2>2. Waiting(e) = Waiting(d)
    BY <1>3, <1>6, <1>9 DEF Waiting, n, stack
  <2>3. LeftOnTop(e) = Len(Tail(old)) /\ LeftOnTop(d) = Len(old)
    <3>1. next # <<>>
      BY <1>6, <1>7
    <3> QED
      BY <1>1, <1>6, <1>9, <3>1 DEF LeftOnTop, old, n, stack
  <2> QED
    BY <1>8, <2>1, <2>2, <2>3 DEF Shrinks
<1>10. CASE /\ child \notin Grey(stack) /\ child \notin black
            /\ e.stack = Append(next, Frame(m, child)) /\ e.cycles = d.cycles
  <2> DEFINE frame == Frame(m, child)
             longer == Append(next, frame)
  <2>1. /\ DOMAIN longer = 1..(n + 1) /\ longer[n + 1] = frame /\ n + 1 \in 1..(n + 1)
        /\ \A i \in 1..n : longer[i] = next[i] /\ i \in 1..(n + 1)
    <3> HIDE DEF frame
    <3> QED
      BY <1>6, <1>7
  <2>2. \A i \in 1..(n + 1) : i = n + 1 \/ i \in 1..n
    BY <1>7
  <2>3. frame.cls = child
    BY DEF Frame
  <2> HIDE DEF longer, frame
  <2>4. Grey(longer) = Grey(stack) \cup {child}
    BY <1>5, <1>7, <2>1, <2>2, <2>3 DEF Grey
  <2>5. child \in Nodes(m)
    BY <1>5, ParentsAre DEF Nodes
  <2>6. Unseen(m, e) = Unseen(m, d) \ {child} /\ child \in Unseen(m, d)
    BY <1>3, <1>10, <2>4, <2>5 DEF Unseen, longer, frame, stack, black
  <2> QED
    BY <1>1, <2>6, SeeingShrinks
<1> QED
  BY <1>4, <1>9, <1>10

LEMMA ExploreShrinks ==
  ASSUME NEW m, IsModel(m), NEW d, SearchInv(m, d), ~IsOver(d)
  PROVE  Shrinks(m, d, Explore(m, d))
<1> SUFFICES ASSUME NEW e, e = Explore(m, d) PROVE Shrinks(m, d, e)
  OBVIOUS
<1>1. d \in Searches /\ e \in Searches
  BY ExploreIs DEF SearchInv
<1>2. d.starts \in Seq(STRING) /\ d.stack \in Seq(FrameType)
  BY <1>1, SearchIs
<1>3. CASE d.stack = <<>> /\ SkipsStart(d, e)
  <2>1. Unseen(m, e) = Unseen(m, d)
    BY <1>3 DEF SkipsStart, SameSearch, Unseen
  <2>2. e.stack = d.stack /\ e.starts = Tail(d.starts) /\ d.starts # <<>>
    BY <1>3 DEF SkipsStart
  <2>3. Len(e.starts) = Len(d.starts) - 1 /\ Len(d.starts) \in Nat /\ Len(d.stack) \in Nat
    BY <1>2, <2>2, HeadTail
  <2>4. Waiting(e) < Waiting(d)
    <3> DEFINE a == Len(d.starts)
               b == Len(d.stack)
    <3>1. a \in Nat /\ b \in Nat /\ Waiting(d) = a + b /\ Waiting(e) = (a - 1) + b
      BY <2>2, <2>3, Zenon DEF Waiting
    <3> HIDE DEF a, b
    <3> QED
      BY <3>1
  <2> QED
    BY <2>1, <2>4 DEF Shrinks
<1>4. CASE d.stack = <<>> /\ BeginsAt(m, d, e)
  <2> DEFINE x == Head(d.starts)
             frame == Frame(m, x)
  <2>1. d.starts # <<>> /\ x \notin d.black /\ e.stack = <<frame>> /\ e.black = d.black
    BY <1>4 DEF BeginsAt, SameSearch
  <2>2. x \in Sources(m)
    BY <1>2, <2>1, HeadTail DEF SearchInv, Covered
  <2>3. frame.cls = x
    BY DEF Frame
  <2> HIDE DEF x, frame
  <2>5. Unseen(m, e) = Unseen(m, d) \ {x} /\ x \in Unseen(m, d)
    BY <2>1, <2>2, <1>4, <2>3 DEF Unseen, Nodes, Grey
  <2> QED
    BY <1>1, <2>5, SeeingShrinks
<1>5. CASE d.stack # <<>> /\ FinishesTop(d, e)
  <2>1. Unseen(m, e) = Unseen(m, d)
    BY <1>1, <1>5, FinishKeeps DEF Unseen
  <2>2. Len(e.stack) = Len(d.stack) - 1 /\ e.starts = d.starts
    BY <1>5 DEF FinishesTop
  <2>3. Len(d.starts) \in Nat /\ Len(d.stack) \in Nat
    BY <1>2
  <2>4. Waiting(e) < Waiting(d)
    <3> DEFINE a == Len(d.starts)
               b == Len(d.stack)
    <3>1. a \in Nat /\ b \in Nat /\ Waiting(d) = a + b /\ Waiting(e) = a + (b - 1)
      BY <2>2, <2>3, Zenon DEF Waiting
    <3> HIDE DEF a, b
    <3> QED
      BY <3>1
  <2> QED
    BY <2>1, <2>4 DEF Shrinks
<1>6. CASE d.stack # <<>> /\ \E child : FollowsEdge(m, d, e, child)
  BY <1>1, <1>6, FollowShrinks
<1> QED
  BY <1>1, <1>3, <1>4, <1>5, <1>6, ExploreIs

(* The recursive function of ReportedCycles exists: its value at d is what *)
(* a search that starts at d ends with, where it ends.                     *)

LEMMA EndsIs ==
  ASSUME NEW m, IsModel(m), NEW d \in Searches, NEW c
  PROVE  Settles(m, d, c) <=> IF IsOver(d) THEN d.cycles = c ELSE Settles(m, Explore(m, d), c)
<1> DEFINE Says(x) == IF IsOver(x) THEN x.cycles = c ELSE Settles(m, Explore(m, x), c)
           R == {x \in Searches : Says(x)}
<1>1. ASSUME NEW x \in Searches, Says(x) PROVE Settles(m, x, c)
  BY <1>1, Zenon DEF Settles, EndsIn
<1>2. ASSUME NEW x \in Searches, ~IsOver(x) PROVE Explore(m, x) \in Searches
  BY <1>2, ExploreIs
<1>3. EndsIn(m, c, R)
  <2> SUFFICES ASSUME NEW x \in Searches
               PROVE  IF IsOver(x) THEN x.cycles = c => x \in R
                      ELSE Explore(m, x) \in R => x \in R
    BY Zenon DEF EndsIn
  <2>1. CASE IsOver(x)
    BY <2>1, Zenon
  <2>2. CASE ~IsOver(x)
    BY <1>1, <2>2, Zenon
  <2> QED
    BY <2>1, <2>2
<1>4. ASSUME Settles(m, d, c) PROVE Says(d)
  <2>1. R \in SUBSET Searches
    OBVIOUS
  <2>2. d \in R
    <3> HIDE DEF R
    <3> QED
      BY <1>3, <1>4, <2>1, Zenon DEF Settles
  <2> QED
    BY <2>2, Zenon
<1> QED
  BY <1>1, <1>4, Zenon

LEMMA SearchExists ==
  ASSUME NEW m, IsModel(m)
  PROVE  \E search : IsSearch(m, search)
<1> DEFINE ways(d) == {c \in SUBSET SUBSET STRING : Settles(m, d, c)}
           outcome(d) == CHOOSE c \in ways(d) : TRUE
           f == [d \in Searches |-> outcome(d)]
<1>1. ASSUME NEW d \in Searches
      PROVE  f[d] = IF IsOver(d) THEN d.cycles ELSE f[Explore(m, d)]
  <2>1. f[d] = CHOOSE c \in ways(d) : TRUE
    <3> HIDE DEF ways
    <3> QED
      BY Zenon
  <2>2. CASE IsOver(d)
    <3>2. d.cycles \in ways(d) /\ \A c \in ways(d) : c = d.cycles
      BY <2>2, EndsIs, SearchIs
    <3> HIDE DEF ways, f
    <3> QED
      BY <2>1, <2>2, <3>2
  <2>3. CASE ~IsOver(d)
    <3> DEFINE e == Explore(m, d)
    <3>1. e \in Searches
      BY <2>3, ExploreIs
    <3>2. ways(d) = ways(e)
      BY <2>3, EndsIs
    <3>3. f[e] = CHOOSE c \in ways(e) : TRUE
      <4> HIDE DEF e
      <4> QED
        BY <3>1, Zenon
    <3> HIDE DEF ways, f, e
    <3>4. f[d] = f[e]
      BY <2>1, <3>2, <3>3
    <3> QED
      BY <2>3, <3>4 DEF e
  <2> QED
    BY <2>2, <2>3
<1>2. f = [d \in Searches |-> IF IsOver(d) THEN d.cycles ELSE f[Explore(m, d)]]
  <2>1. f = [d \in Searches |-> f[d]]
    <3> HIDE DEF outcome
    <3> QED
      OBVIOUS
  <2> HIDE DEF f
  <2> QED
    BY <1>1, <2>1, Zenon
<1> HIDE DEF f
<1> QED
  BY <1>2, Zenon DEF IsSearch

LEMMA SearchSays ==
  ASSUME NEW m, IsModel(m), NEW search, IsSearch(m, search), NEW d \in Searches
  PROVE  search[d] = IF IsOver(d) THEN d.cycles ELSE search[Explore(m, d)]
BY Zenon DEF IsSearch

(* So what it reports from any point of a search are cycles, and none only *)
(* if there is none.                                                       *)
LEMMA SearchReports ==
  ASSUME NEW m, IsModel(m), NEW search, IsSearch(m, search), NEW d, SearchInv(m, d)
  PROVE  CyclesAre(m, search[d])
<1> DEFINE seen(x) == Cardinality(Unseen(m, x))
           U == {u \in Nat : \A x : SearchInv(m, x) /\ seen(x) < u => CyclesAre(m, search[x])}
<1>1. ASSUME NEW x, SearchInv(m, x) PROVE seen(x) \in Nat /\ Waiting(x) \in Nat /\ LeftOnTop(x) \in Nat
  BY <1>1, MeasuresAre DEF SearchInv
<1> HIDE DEF seen
<1>2. 0 \in U
  BY <1>1
<1>3. ASSUME NEW u \in Nat, u \in U PROVE u + 1 \in U
  <2> DEFINE W == {w \in Nat : \A x : SearchInv(m, x) /\ seen(x) = u /\ Waiting(x) < w
                                         => CyclesAre(m, search[x])}
  <2>1. 0 \in W
    BY <1>1
  <2>2. ASSUME NEW w \in Nat, w \in W PROVE w + 1 \in W
    <3> DEFINE Now(x) == SearchInv(m, x) /\ seen(x) = u /\ Waiting(x) = w
               L == {l \in Nat : \A x : Now(x) /\ LeftOnTop(x) < l => CyclesAre(m, search[x])}
    <3>1. 0 \in L
      <4>1. \A x : Now(x) => ~(LeftOnTop(x) < 0)
        BY <1>1
      <4> HIDE DEF Now
      <4> QED
        BY <4>1
    <3>2. ASSUME NEW l \in Nat, l \in L PROVE l + 1 \in L
      <4> SUFFICES ASSUME NEW x, Now(x), LeftOnTop(x) < l + 1 PROVE CyclesAre(m, search[x])
        <5> HIDE DEF Now
        <5> QED
          OBVIOUS
      <4>1. x \in Searches
        BY DEF SearchInv
      <4>2. CASE IsOver(x)
        BY <4>1, <4>2, SearchSays, OverIs
      <4>3. CASE ~IsOver(x)
        <5> DEFINE e == Explore(m, x)
        <5>1. SearchInv(m, e) /\ Shrinks(m, x, e) /\ search[x] = search[e]
          BY <4>1, <4>3, ExploreKeeps, ExploreShrinks, SearchSays
        <5> HIDE DEF e
        <5> QED
          BY <5>1, <1>3, <2>2, <3>2, <1>1 DEF Shrinks, seen
      <4> QED
        BY <4>2, <4>3
    <3>3. Nat \subseteq L
      <4> HIDE DEF L
      <4> QED
        BY <3>1, <3>2, SetInduction
    <3> SUFFICES ASSUME NEW x, SearchInv(m, x), seen(x) = u, Waiting(x) < w + 1
                 PROVE  CyclesAre(m, search[x])
      OBVIOUS
    <3>4. Waiting(x) \in Nat /\ LeftOnTop(x) \in Nat
      BY <1>1
    <3>5. CASE Waiting(x) < w
      BY <2>2, <3>5
    <3>6. CASE Waiting(x) = w
      <4>1. LeftOnTop(x) + 1 \in L /\ LeftOnTop(x) < LeftOnTop(x) + 1
        <5> HIDE DEF L
        <5> QED
          BY <3>3, <3>4
      <4> QED
        BY <3>6, <4>1
    <3> QED
      BY <3>4, <3>5, <3>6
  <2>3. Nat \subseteq W
    <3> HIDE DEF W
    <3> QED
      BY <2>1, <2>2, SetInduction
  <2> SUFFICES ASSUME NEW x, SearchInv(m, x), seen(x) < u + 1 PROVE CyclesAre(m, search[x])
    OBVIOUS
  <2>4. seen(x) \in Nat /\ Waiting(x) \in Nat
    BY <1>1
  <2>5. CASE seen(x) < u
    BY <1>3, <2>5
  <2>6. CASE seen(x) = u
    <3>1. Waiting(x) + 1 \in W /\ Waiting(x) < Waiting(x) + 1
      <4> HIDE DEF W
      <4> QED
        BY <2>3, <2>4
    <3> QED
      BY <2>6, <3>1
  <2> QED
    BY <2>4, <2>5, <2>6
<1>4. Nat \subseteq U
  <2> HIDE DEF U
  <2> QED
    BY <1>2, <1>3, SetInduction
<1>5. seen(d) + 1 \in U /\ seen(d) < seen(d) + 1
  <2> HIDE DEF U
  <2> QED
    BY <1>1, <1>4
<1> QED
  BY <1>5

LEMMA ReportedCyclesAre ==
  ASSUME NEW m, IsModel(m)
  PROVE  CyclesAre(m, ReportedCycles(m))
<1> DEFINE search == CHOOSE s : IsSearch(m, s)
<1>1. IsSearch(m, search)
  BY SearchExists
<1>2. ReportedCycles(m) = search[StartOf(m)]
  BY Zenon DEF ReportedCycles, IsSearch
<1> HIDE DEF search
<1> QED
  BY <1>1, <1>2, StartHolds, SearchReports

(* Where all that is finished has no loop, no class is its own ancestor.   *)
LEMMA FinishedHasNoCycle ==
  ASSUME NEW m, IsModel(m), NEW black, IsFinished(m, black), NEW id \in black
  PROVE  ~OnCycle(m, id)
<1> SUFFICES ASSUME NEW p \in ParentsOf(m, id), id \in Above(m, p) PROVE FALSE
  BY DEF OnCycle
<1> DEFINE S == {x \in black : x \in Above(m, id) /\ id \in Above(m, x)}
<1>1. id \in S
  BY AboveIs
<1>2. ASSUME NEW x \in S PROVE \E q \in ParentsOf(m, x) : q \in S
  BY AboveByParent, AboveAbove DEF IsFinished
<1>3. S \in SUBSET black /\ S # {}
  BY <1>1
<1> HIDE DEF S
<1>4. \E x \in S : ParentsOf(m, x) \cap S = {}
  BY <1>3, Zenon DEF IsFinished, Loopless
<1> QED
  BY <1>2, <1>4

(* The cycles an observer finds in the hierarchy are those the rule        *)
(* reports, for every model, reachable or not.                             *)
THEOREM ReportedCyclesAreExact ==
  ASSUME NEW m, IsModel(m)
  PROVE  /\ ReportedCycles(m) = {} <=> ~\E id \in Sources(m) : OnCycle(m, id)
         /\ \A cycle \in ReportedCycles(m) : IsCycle(m, cycle)
BY ReportedCyclesAre, FinishedHasNoCycle, ParentsAre DEF CyclesAre, IsCycle, OnCycle

(* The mapper and the rules, which look for a cycle each in its own way:   *)
(* the mapper walks up from a class for as many steps as there are         *)
(* classes.  Where the hierarchy has no loop, a walk of n steps that has   *)
(* not ended has passed n + 1 classes.                                     *)
LEMMA WalkStep ==
  ASSUME NEW m, IsModel(m), Connected(m), Loopless(m, Sources(m)),
         NEW n \in Nat, NEW at, NEW step, WalkFollows(m, n, at)
  PROVE  WalkFollows(m, n + 1, AncestorNext(m, at, step))
<1> DEFINE p == ParentOf(m, at)
<1>1. CASE ~HasParent(m, at)
  BY <1>1 DEF AncestorNext, WalkFollows
<1>2. CASE HasParent(m, at)
  <2>1. PICK V : IsPassed(m, n, at, V)
    BY <1>2 DEF WalkFollows
  <2>2. p \in ParentsOf(m, at)
    BY <1>2 DEF HasParent, ParentOf
  <2>3. ParentsOf(m, at) \subseteq IdsOf(m.classes)
    BY DEF ParentsOf, Connected, Dangling
  <2>4. AncestorNext(m, at, step) = p
    BY <1>2 DEF AncestorNext
  <2> HIDE DEF p
  <2>5. p \notin V
    <3> SUFFICES ASSUME p \in V PROVE FALSE
      OBVIOUS
    <3>1. \A x \in V : ParentsOf(m, x) \cap V # {}
      BY <2>1, <2>2 DEF IsPassed
    <3> QED
      BY <3>1, ParentsAre DEF Loopless
  <2>6. IsPassed(m, n + 1, p, V \cup {p})
    <3>1. IsFiniteSet(V \cup {p}) /\ Cardinality(V \cup {p}) = Cardinality(V) + 1
      BY <2>1, <2>5, FS_AddElement DEF IsPassed
    <3> QED
      BY <2>1, <2>2, <2>3, <3>1, FS_CardinalityType DEF IsPassed
  <2> QED
    BY <2>4, <2>6 DEF WalkFollows
<1> QED
  BY <1>1, <1>2

LEMMA ClassIdsFinite ==
  ASSUME NEW m, IsModel(m)
  PROVE  /\ Len(m.classes) \in Nat
         /\ IsFiniteSet(IdsOf(m.classes)) /\ Cardinality(IdsOf(m.classes)) <= Len(m.classes)
<1> DEFINE n == Len(m.classes)
           f == [i \in 1..n |-> m.classes[i].id]
<1>1. n \in Nat /\ DOMAIN m.classes = 1..n
  BY DEF IsModel
<1>2. f \in Surjection(1..n, IdsOf(m.classes))
  BY <1>1 DEF Surjection, IdsOf
<1> HIDE DEF n, f
<1>3. IsFiniteSet(1..n) /\ Cardinality(1..n) = n
  BY <1>1, FS_Interval
<1> QED
  BY <1>1, <1>3, <1>2, FS_Surjection DEF n

LEMMA WalkEnds ==
  ASSUME NEW m, IsModel(m), Connected(m), Loopless(m, Sources(m))
  PROVE  ~HasGeneralizationCycle(m)
<1> SUFFICES ASSUME NEW id \in IdsOf(m.classes) PROVE ~HasParent(m, RootOf(m, id))
  BY DEF HasGeneralizationCycle
<1> DEFINE n == Len(m.classes)
           steps == [step \in 1..n |-> step]
<1>1. RootOf(m, id) = Fold(FoldOf("Walk", m), id, steps)
  BY DEF RootOf, Ancestor, AncestorNext, Fold, FoldOf, Combine, Max, FoldLeft, MapThenFoldSet
<1>2. n \in Nat /\ IsFiniteSet(IdsOf(m.classes)) /\ Cardinality(IdsOf(m.classes)) <= n
  BY ClassIdsFinite
<1> HIDE DEF n
<1>3. steps \in [1..n -> Nat]
  BY <1>2
<1>4. Len(steps) = n /\ DOMAIN steps = 1..n
  <2> HIDE DEF steps
  <2> QED
    BY <1>2, <1>3, FunctionIsSeq
<1> HIDE DEF steps
<1>5. WalkFollows(m, 0, id)
  <2>1. IsFiniteSet({id}) /\ Cardinality({id}) = 1
    BY FS_Singleton
  <2> QED
    BY <2>1 DEF WalkFollows, IsPassed
<1>6. \A i \in 1..n : \A at : WalkFollows(m, i-1, at) =>
        WalkFollows(m, i, AncestorNext(m, at, steps[i]))
  <2> SUFFICES ASSUME NEW i \in 1..n, NEW at, WalkFollows(m, i-1, at)
               PROVE  WalkFollows(m, i, AncestorNext(m, at, steps[i]))
    OBVIOUS
  <2> QED
    BY <1>2, WalkStep
<1>7. WalkFollows(m, n, Fold(FoldOf("Walk", m), id, steps))
  <2> DEFINE fold == FoldOf("Walk", m)
  <2>1. \A a, e : Combine(fold, a, e) = AncestorNext(m, a, e)
    BY DEF Combine, FoldOf
  <2>2. \A k, a : Holds(fold, k, a) <=> WalkFollows(m, k, a)
    BY DEF Holds, FoldOf
  <2> HIDE DEF fold
  <2>3. Holds(fold, 0, id) /\ \A i \in 1..n : \A a :
          Holds(fold, i-1, a) => Holds(fold, i, Combine(fold, a, steps[i]))
    BY <1>2, <1>4, <1>5, <1>6, <2>1, <2>2
  <2>4. WalkFollows(m, n, Fold(fold, id, steps))
    BY <1>2, <1>4, <1>5, <1>6, <2>2, <2>3, FoldInduction
  <2> QED
    BY <2>4 DEF fold
<1>8. ASSUME NEW V, IsPassed(m, n, RootOf(m, id), V) PROVE FALSE
  BY <1>2, <1>8, FS_Subset, FS_CardinalityType DEF IsPassed
<1> QED
  BY <1>1, <1>7, <1>8 DEF WalkFollows

LEMMA CycleIsReported ==
  ASSUME NEW m, IsModel(m), Connected(m), HasGeneralizationCycle(m)
  PROVE  ReportedCycles(m) # {}
<1> SUFFICES ASSUME ReportedCycles(m) = {} PROVE FALSE
  OBVIOUS
<1> QED
  BY WalkEnds, ReportedCyclesAre DEF CyclesAre, IsFinished, Loopless

(* Each error of the mapper is one of the rules'.                          *)

LEMMA ErrorIsReported ==
  ASSUME NEW m, NEW code, NEW ids, Error(code, ids) \subseteq Validate(m), NEW id \in ids
  PROVE  code \in CodesOf(m)
<1> DEFINE d == <<"error", code, id>>
<1>1. d \in Validate(m)
  BY DEF Error
<1>2. d[1] = "error" /\ d[2] = code
  OBVIOUS
<1> HIDE DEF d
<1> QED
  BY <1>1, <1>2 DEF CodesOf

LEMMA RuleSets ==
  ASSUME NEW m
  PROVE  /\ EmptyElementName(m) \subseteq Validate(m)
         /\ UnknownAttributeType(m) \subseteq Validate(m)
         /\ InvalidRelationshipEndpoint(m) \subseteq Validate(m)
         /\ GeneralizationCycle(m) \subseteq Validate(m)
         /\ MultiParentGeneralization(m) \subseteq Validate(m)
BY Zenon DEF Validate

LEMMA EndpointsReported ==
  ASSUME NEW m
  PROVE  "INVALID_RELATIONSHIP_ENDPOINT" \in CodesOf(m) <=> ~Connected(m)
<1> DEFINE code == "INVALID_RELATIONSHIP_ENDPOINT"
           ids == {r.id : r \in {s \in ToSet(m.rels) : Dangling(s, m)}}
<1>1. ASSUME ~Connected(m) PROVE code \in CodesOf(m)
  <2>1. PICK r \in ToSet(m.rels) : Dangling(r, m)
    BY <1>1 DEF Connected
  <2>2. r.id \in ids
    BY <2>1
  <2>3. Error(code, ids) \subseteq Validate(m)
    BY RuleSets DEF InvalidRelationshipEndpoint
  <2> HIDE DEF ids
  <2> QED
    BY <2>2, <2>3, ErrorIsReported
<1>2. ASSUME code \in CodesOf(m) PROVE ~Connected(m)
  <2>1. PICK d \in Validate(m) : d[2] = code
    BY <1>2 DEF CodesOf
  <2>2. \A other, some : \A e \in Error(other, some) \cup Warning(other, some) : e[2] = other
    BY DEF Error, Warning
  <2>4. /\ d \notin EmptyElementName(m) /\ d \notin DuplicateClassName(m)
        /\ d \notin DuplicateAttributeName(m) /\ d \notin DuplicateOperationName(m)
    BY <2>1, <2>2 DEF EmptyElementName, DuplicateClassName, DuplicateAttributeName,
                      DuplicateOperationName
  <2>5. /\ d \notin DuplicateEnumerationLiteral(m) /\ d \notin UnknownAttributeType(m)
        /\ d \notin InvalidMultiplicity(m) /\ d \notin GeneralizationCycle(m)
    BY <2>1, <2>2
       DEF DuplicateEnumerationLiteral, UnknownAttributeType, InvalidMultiplicity,
       GeneralizationCycle
  <2>6. /\ d \notin MultiParentGeneralization(m) /\ d \notin SelfAssociation(m)
        /\ d \notin ClassWithoutAttributes(m)
    BY <2>1, <2>2 DEF MultiParentGeneralization, SelfAssociation, ClassWithoutAttributes
  <2>7. d \in InvalidRelationshipEndpoint(m)
    BY <2>4, <2>5, <2>6, Zenon DEF Validate
  <2>8. ids # {}
    BY <2>7 DEF InvalidRelationshipEndpoint, Error
  <2> QED
    BY <2>8 DEF Connected
<1> QED
  BY <1>1, <1>2

(* What the mapper refuses of the hierarchy.                               *)
LEMMA HierarchyErrorIs ==
  ASSUME NEW m, IsModel(m), HasLiveProfiles(m)
  PROVE  /\ HierarchyError(m) \in {"none", "DanglingEndpoint", "MultipleParents", "GeneralizationCycle"}
         /\ HierarchyError(m) = "DanglingEndpoint" <=> ~Connected(m)
         /\ HierarchyError(m) = "MultipleParents" => "MULTI_PARENT_GENERALIZATION" \in CodesOf(m)
         /\ HierarchyError(m) = "GeneralizationCycle" => "GENERALIZATION_CYCLE" \in CodesOf(m)
<1>1. (\E r \in ToSet(m.rels) :
         ~({r.source.cls, r.target.cls} \subseteq IdsOf(m.classes))) <=> ~Connected(m)
  BY DEF Connected, Dangling
<1>2. ~\E id \in DOMAIN m.meta : ProfileIsMalformed(m, id)
  BY DEF HasLiveProfiles
<1>4. HierarchyError(m) = "GeneralizationCycle" => HasGeneralizationCycle(m) /\ Connected(m)
  BY <1>1 DEF HierarchyError
<1>5. ASSUME HierarchyError(m) = "MultipleParents"
      PROVE  "MULTI_PARENT_GENERALIZATION" \in CodesOf(m)
  <2> DEFINE ids == {id \in IdsOf(m.classes) : Cardinality(DistinctParents(m, id)) > 1}
  <2>1. PICK c \in IdsOf(m.classes) : Cardinality(ParentsOf(m, c)) > 1
    BY <1>5 DEF HierarchyError
  <2>2. c \in ids
    BY <2>1, ParentsAre DEF DistinctParents
  <2>3. Error("MULTI_PARENT_GENERALIZATION", ids) \subseteq Validate(m)
    BY RuleSets DEF MultiParentGeneralization
  <2> HIDE DEF ids
  <2> QED
    BY <2>2, <2>3, ErrorIsReported
<1>6. ASSUME HierarchyError(m) = "GeneralizationCycle"
      PROVE  "GENERALIZATION_CYCLE" \in CodesOf(m)
  <2>1. PICK cycle : cycle \in ReportedCycles(m)
    BY <1>4, <1>6, CycleIsReported
  <2> DEFINE d == <<"error", "GENERALIZATION_CYCLE", CHOOSE id \in cycle : TRUE>>
  <2>2. d \in Validate(m)
    BY <2>1, RuleSets DEF GeneralizationCycle
  <2>3. d[1] = "error" /\ d[2] = "GENERALIZATION_CYCLE"
    OBVIOUS
  <2> HIDE DEF d
  <2> QED
    BY <2>2, <2>3 DEF CodesOf
<1> QED
  BY <1>1, <1>2, <1>5, <1>6 DEF HierarchyError

(* What it refuses of names and types.                                     *)
LEMMA StageErrorIs ==
  ASSUME NEW m, NEW error, IsDue(m, error)
  PROVE  /\ error \in {"none", "InvalidElementName", "UnknownEnumeration"}
         /\ error = "UnknownEnumeration" => "UNKNOWN_ATTRIBUTE_TYPE" \in CodesOf(m)
         /\ error = "InvalidElementName" /\ "EMPTY_ELEMENT_NAME" \notin CodesOf(m) =>
              \/ \E e \in NamedElements(m) : e.name.form = "symbols"
              \/ \E r \in ToSet(m.rels) :
                   {r.source.role.form, r.target.role.form} \cap {"symbols", "spaces"} # {}
<1>1. ASSUME error = "UnknownEnumeration" PROVE "UNKNOWN_ATTRIBUTE_TYPE" \in CodesOf(m)
  <2> DEFINE ids == {a.id : a \in {b \in UNION {ToSet(c.attrs) : c \in ToSet(m.classes)} :
                                     HasUnknownType(b, m)}}
  <2>1. PICK c \in ToSet(m.classes) : \E a \in ToSet(c.attrs) : HasUnknownType(a, m)
    BY <1>1 DEF IsDue
  <2>2. PICK a \in ToSet(c.attrs) : HasUnknownType(a, m)
    BY <2>1
  <2>4. a.id \in ids
    BY <2>2
  <2>3. Error("UNKNOWN_ATTRIBUTE_TYPE", ids) \subseteq Validate(m)
    BY RuleSets DEF UnknownAttributeType
  <2> HIDE DEF ids
  <2> QED
    BY <2>3, <2>4, ErrorIsReported
<1>2. ASSUME error = "InvalidElementName", "EMPTY_ELEMENT_NAME" \notin CodesOf(m)
      PROVE  \/ \E e \in NamedElements(m) : e.name.form = "symbols"
             \/ \E r \in ToSet(m.rels) :
                  {r.source.role.form, r.target.role.form} \cap {"symbols", "spaces"} # {}
  <2> DEFINE ids == {e.id : e \in {n \in NamedElements(m) : IsBlank(n.name)}}
  <2>1. \A e \in NamedElements(m) : ~IsBlank(e.name)
    <3>1. Error("EMPTY_ELEMENT_NAME", ids) \subseteq Validate(m)
      BY RuleSets DEF EmptyElementName
    <3>2. \A id \in ids : FALSE
      <4> HIDE DEF ids
      <4> QED
        BY <1>2, <3>1, ErrorIsReported
    <3> QED
      BY <3>2
  <2> QED
    BY <2>1, <1>2 DEF HasSnakeNames, HasSnakeCase, IsBlank, IsDue
<1> QED
  BY <1>1, <1>2 DEF IsDue

(* A relationship's keys, and what a later relationship leaves of them.    *)

LEMMA SelectedStays ==
  ASSUME NEW n, NEW k, NEW I, NEW J, SelectsMore(n, k, I, J), I # {}
  PROVE  J # {} /\ Min(J) = Min(I)
<1> USE DEF SelectsMore
<1>1. Min(I) \in I /\ \A i \in I : Min(I) <= i
  BY MinOf
<1>2. J # {} /\ Min(I) \in J
  BY <1>1
<1> DEFINE a == Min(I)
           b == Min(J)
<1>4. /\ a \in I /\ a \in J /\ b \in J /\ b <= a
      /\ \A i \in I : a <= i
  BY <1>1, <1>2, MinOf
<1> HIDE DEF a, b
<1>5. a \in 1..n /\ b \in 1..k
  BY <1>4
<1>6. b \in 1..n
  BY <1>4, <1>5
<1>7. a <= b
  BY <1>4, <1>6
<1>8. a = b
  BY <1>4, <1>5, <1>7
<1> QED
  BY <1>2, <1>8 DEF a, b

LEMMA ByNameStays ==
  ASSUME NEW S, NEW elements \in Seq(S), NEW e, NEW name \in NamesOf(elements)
  PROVE  ByName(Append(elements, e), name) = ByName(elements, name)
<1> DEFINE n == Len(elements)
           longer == Append(elements, e)
           I == {i \in 1..n : elements[i].name = name}
           J == {i \in 1..Len(longer) : longer[i].name = name}
<1>1. /\ ByName(elements, name) = elements[IF I # {} THEN Min(I) ELSE 0]
      /\ ByName(longer, name) = longer[IF J # {} THEN Min(J) ELSE 0]
  BY DEF ByName, SelectInSeq
<1>2. IsLonger(longer, elements, e)
  BY LongerIs, Zenon
<1>3. n \in Nat /\ DOMAIN elements = 1..n
  OBVIOUS
<1>4. I # {}
  BY <1>3 DEF NamesOf
<1> HIDE DEF longer
<1>5. Len(longer) = n + 1 /\ \A i \in 1..n : longer[i] = elements[i]
  BY <1>2 DEF IsLonger
<1> HIDE DEF n
<1>6. \A i \in 1..n : i \in J <=> i \in I
  BY <1>3, <1>5
<1>7. I \in SUBSET (1..n) /\ J \in SUBSET (1..(n+1)) /\ n + 1 \in Nat /\ n <= n + 1
  BY <1>3, <1>5
<1> HIDE DEF I, J
<1>8. J # {} /\ Min(J) = Min(I) /\ Min(I) \in 1..n
  <2>1. Min(I) \in I
    BY <1>3, <1>4, <1>7, MinOf
  <2>2. J # {} /\ Min(J) = Min(I)
    <3>1. SelectsMore(n, n + 1, I, J)
      BY <1>3, <1>6, <1>7 DEF SelectsMore
    <3> QED
      BY <1>4, <3>1, SelectedStays
  <2> QED
    BY <1>7, <2>1, <2>2
<1> QED
  BY <1>1, <1>4, <1>5, <1>8 DEF longer

LEMMA ByNameOfNew ==
  ASSUME NEW S, NEW elements \in Seq(S), NEW e, e.name \notin NamesOf(elements)
  PROVE  ByName(Append(elements, e), e.name) = e
<1> DEFINE n == Len(elements)
           longer == Append(elements, e)
           J == {i \in 1..Len(longer) : longer[i].name = e.name}
<1>1. ByName(longer, e.name) = longer[IF J # {} THEN Min(J) ELSE 0]
  BY DEF ByName, SelectInSeq
<1>2. IsLonger(longer, elements, e)
  BY LongerIs, Zenon
<1>3. n \in Nat /\ DOMAIN elements = 1..n
  OBVIOUS
<1>4. \A i \in 1..n : elements[i].name # e.name
  BY <1>3 DEF NamesOf
<1> HIDE DEF longer
<1>5. Len(longer) = n + 1 /\ longer[n + 1] = e /\ \A i \in 1..n : longer[i] = elements[i]
  BY <1>2 DEF IsLonger
<1> HIDE DEF n
<1>7. J = {n + 1}
  BY <1>3, <1>4, <1>5
<1>8. Min(J) = n + 1
  BY <1>3, <1>7 DEF Min
<1> HIDE DEF J
<1> QED
  BY <1>1, <1>5, <1>7, <1>8 DEF longer

LEMMA SameKeepsKeys == \A t, id : KeepsKeys(t, t, id)
BY DEF KeepsKeys

LEMMA OtherKeysKept ==
  ASSUME NEW t, NEW u, NEW id, KeepsKeys(t, u, id), NEW r, r.id # id
  PROVE  KeysOf(u, r) = KeysOf(t, r)
BY DEF KeepsKeys, KeysOf

LEMMA RightStays ==
  ASSUME NEW t, NEW u, NEW id, KeepsKeys(t, u, id), NEW r, NEW source, NEW target,
         NEW key \in ToSet(t.fks), KeyIsRight(t, key, r, source, target)
  PROVE  KeyIsRight(u, key, r, source, target)
BY DEF KeepsKeys, AtMostOne, KeyIsRight

(* What realises a relationship realises it still after another one.       *)
LEMMA RealisedStays ==
  ASSUME NEW tables, DistinctNames(tables), NEW next, NEW id, Grows(tables, next, id),
         NEW r, r.id # id, NEW source, NEW target, IsRealised(tables, r, source, target)
  PROVE  IsRealised(next, r, source, target)
<1>1. PICK t \in ToSet(tables) :
        /\ \A other \in ToSet(tables) : KeysOf(other, r) # {} <=> other = t
        /\ IF Cardinality(KeysOf(t, r)) = 1
             THEN \A key \in KeysOf(t, r) : KeyIsRight(t, key, r, source, target)
             ELSE /\ IsMany(r.source.mult) /\ IsMany(r.target.mult)
                  /\ source # target => {key.table : key \in KeysOf(t, r)} = {source, target}
  BY DEF IsRealised
<1>2. PICK k \in DOMAIN tables : t = tables[k]
  BY DEF ToSet
<1> DEFINE u == next[k]
<1>3. k \in DOMAIN next /\ u \in ToSet(next) /\ KeepsKeys(t, u, id)
  BY <1>2 DEF Grows, ToSet
<1>4. KeysOf(u, r) = KeysOf(t, r) /\ KeysOf(t, r) # {}
  BY <1>1, <1>3, OtherKeysKept
<1>5. ASSUME NEW other \in ToSet(next) PROVE KeysOf(other, r) # {} <=> other = u
  <2>1. other = u => KeysOf(other, r) # {}
    BY <1>4
  <2>2. PICK j \in DOMAIN next : other = next[j]
    BY DEF ToSet
  <2>3. CASE j \in DOMAIN tables
    <3>3. tables[j] = t => j = k
      BY <1>2, <2>3 DEF DistinctNames, IsInjective
    <3> QED
      BY <2>1, <2>2, <3>3, <2>3, <1>1, OtherKeysKept DEF Grows, ToSet
  <2>4. CASE j \notin DOMAIN tables
    BY <2>2, <2>4, <2>1 DEF Grows, KeysOf
  <2> QED
    BY <2>3, <2>4
<1>6. ASSUME NEW key \in KeysOf(t, r), KeyIsRight(t, key, r, source, target)
      PROVE  KeyIsRight(u, key, r, source, target)
  BY <1>3, <1>6, RightStays DEF KeysOf
<1> HIDE DEF u
<1> QED
  BY <1>1, <1>3, <1>4, <1>5, <1>6 DEF IsRealised

(* A class keeps its table.                                                *)
LEMMA TableOfClassStays ==
  ASSUME NEW tables, tables \in Seq(ToSet(tables)), NEW next, next \in Seq(ToSet(next)),
         NEW id, Grows(tables, next, id), NEW m, NEW class,
         NEW s, s.tables = tables, NEW t, t.tables = next,
         TableOfClass(m, s, class) \in DOMAIN tables
  PROVE  TableOfClass(m, t, class) = TableOfClass(m, s, class)
<1> DEFINE root == RootOf(m, class)
           I == {i \in 1..Len(tables) : Contains(tables[i].classes, root)}
           J == {i \in 1..Len(next) : Contains(next[i].classes, root)}
           at == TableOfClass(m, s, class)
<1>1. /\ at = IF I # {} THEN Min(I) ELSE 0
      /\ TableOfClass(m, t, class) = IF J # {} THEN Min(J) ELSE 0
  BY DEF TableOfClass, SelectInSeq
<1>2. /\ Len(tables) \in Nat /\ DOMAIN tables = 1..Len(tables)
      /\ Len(next) \in Nat /\ DOMAIN next = 1..Len(next)
  OBVIOUS
<1> HIDE DEF root
<1>3. I # {}
  <2>1. at \in 1..Len(tables)
    BY <1>2
  <2> HIDE DEF I, at
  <2> QED
    BY <1>1, <1>2, <2>1
<1>4. Len(tables) <= Len(next)
  BY <1>2 DEF Grows
<1>5. \A i \in 1..Len(tables) : i \in J <=> i \in I
  BY <1>2, <1>4 DEF Grows, KeepsKeys
<1>6. I \in SUBSET (1..Len(tables)) /\ J \in SUBSET (1..Len(next))
  OBVIOUS
<1> HIDE DEF I, J, at
<1>7. J # {} /\ Min(J) = Min(I)
  BY <1>2, <1>4, <1>5, <1>6, <1>3, SelectedStays DEF SelectsMore
<1> QED
  BY <1>1, <1>3, <1>7 DEF at

LEMMA ContainsOfLonger ==
  ASSUME NEW S, NEW seq \in Seq(S), NEW e, NEW x
  PROVE  Contains(Append(seq, e), x) <=> Contains(seq, x) \/ x = e
<1> DEFINE longer == Append(seq, e)
           n == Len(seq)
<1>1. IsLonger(longer, seq, e)
  BY LongerIs, Zenon
<1>2. n \in Nat
  OBVIOUS
<1> HIDE DEF longer
<1>3. Len(longer) = n + 1 /\ longer[n + 1] = e /\ \A i \in 1..n : longer[i] = seq[i]
  BY <1>1 DEF IsLonger
<1>4. Contains(longer, x) <=> \E i \in 1..(n + 1) : longer[i] = x
  BY <1>3 DEF Contains
<1>5. Contains(seq, x) <=> \E i \in 1..n : seq[i] = x
  BY DEF Contains
<1> HIDE DEF n
<1> QED
  BY <1>3, <1>4, <1>5, <1>2 DEF longer

LEMMA UniqueIsNamed ==
  ASSUME NEW table \in Seq(Word), NEW columns, columns \subseteq Seq(Word),
         NEW uniques, NamedBy("uq", table, columns, uniques), NEW column \in Seq(Word),
         Contains(uniques, Part("uq", table, column))
  PROVE  column \in columns
<1>3. PICK c \in columns : Part("uq", table, column) = Part("uq", table, c)
  BY DEF Parts, Contains, NamedBy
<1>4. c \in Seq(Word)
  OBVIOUS
<1>5. column = c
  BY <1>3, <1>4, PartsDiffer
<1> QED
  BY <1>5

LEMMA KeyAddedIs ==
  ASSUME NEW types, NEW t, TableIs(t, types), t.classes # <<>>,
         NEW column \in Seq(Word) \ ColumnNames(t.columns), NEW rel, NEW referenced, NEW to
  PROVE  LET u == AddKey(t, rel, referenced, column, to)
         IN  KeepsKeys(t, u, rel.id) /\ \E key : NewKey(t, u, key, rel, referenced, to)
<1> DEFINE composed == rel.kind = "composition"
           nullable == IF composed THEN rel.source.cls = rel.target.cls
                       ELSE referenced.mult.lower <= 0
           oneToOne == ~IsMany(rel.source.mult) /\ ~IsMany(rel.target.mult)
           action == IF composed THEN "CASCADE" ELSE "NO_ACTION"
           plain == PlainColumn(column, "UUID", nullable)
           key == ForeignKey(t.name, column, to, action, rel)
           unique == Part("uq", t.name, column)
           columns == Append(t.columns, plain)
           fks == Append(t.fks, key)
           uniques == IF oneToOne THEN Append(t.uniques, unique) ELSE t.uniques
           indexes == IF oneToOne THEN t.indexes ELSE Append(t.indexes, Part("ix", t.name, column))
           u == AddKey(t, rel, referenced, column, to)
           names == ColumnNames(t.columns)
<1>1. u = [t EXCEPT !.columns = columns, !.fks = fks, !.uniques = uniques, !.indexes = indexes]
  BY Zenon DEF AddKey
<1>2. key.column = column /\ key.table = to /\ key.rel = rel.id /\ key.onDelete = action
  BY DEF ForeignKey
<1>3. plain.name = column /\ plain.nullable = nullable
  BY DEF PlainColumn
<1>4. /\ DOMAIN t = TableFields /\ t.name \in Seq(Word) /\ ColumnsAre(t.columns, types)
      /\ t.fks \in Seq(ToSet(t.fks)) /\ \A f \in ToSet(t.fks) : f.column \in names
      /\ NamedBy("uq", t.name, names, t.uniques)
  BY DEF TableIs, KeyColumns
<1>5. names \subseteq Seq(Word) /\ t.columns \in Seq(ToSet(t.columns)) /\ names = NamesOf(t.columns)
  BY <1>4 DEF ColumnsAre, ColumnNames, NamesOf
<1>6. t.uniques \in Seq(Parts("uq", t.name, names))
  BY <1>4 DEF NamedBy
<1> DEFINE nullableIs == composed
<1> HIDE DEF key, plain, names, nullable, action
<1>7. ToSet(fks) = ToSet(t.fks) \cup {key}
  <2>1. IsLonger(fks, t.fks, key)
    BY <1>4, LongerIs, Zenon
  <2> HIDE DEF fks
  <2> QED
    BY <2>1 DEF IsLonger
<1>8. \A name \in names : ByName(columns, name) = ByName(t.columns, name)
  BY <1>5, ByNameStays
<1>9. ByName(columns, column) = plain
  BY <1>3, <1>5, ByNameOfNew DEF names
<1>10. \A name \in names : Contains(uniques, Part("uq", t.name, name))
                            <=> Contains(t.uniques, Part("uq", t.name, name))
  <2> TAKE name \in names
  <2> QED
    BY <1>4, <1>5, <1>6, PartsDiffer, ContainsOfLonger DEF names
<1>11. Contains(uniques, unique) <=> oneToOne
  <2>1. Contains(Append(t.uniques, unique), unique)
    BY <1>6, ContainsOfLonger
  <2>2. ~Contains(t.uniques, unique)
    BY <1>4, <1>5, UniqueIsNamed DEF names
  <2> HIDE DEF unique, oneToOne
  <2> QED
    BY <2>1, <2>2
<1> HIDE DEF fks, columns, uniques, indexes, u
<1>12. /\ u.name = t.name /\ u.classes = t.classes
       /\ u.columns = columns /\ u.fks = fks /\ u.uniques = uniques
  BY <1>1, <1>4 DEF TableFields
<1>13. KeepsKeys(t, u, rel.id)
  BY <1>4, <1>8, <1>10, <1>12, <1>2, <1>7 DEF IsUnique, KeepsKeys
<1>14. NewKey(t, u, key, rel, referenced, to)
  <2>1. IsUnique(u, key) <=> ~IsMany(rel.source.mult) /\ ~IsMany(rel.target.mult)
    BY <1>2, <1>11, <1>12 DEF IsUnique
  <2>2. ByName(u.columns, key.column).nullable = nullable
    BY <1>2, <1>3, <1>9, <1>12
  <2> QED
    BY <1>2, <1>7, <1>12, <2>1, <2>2 DEF NewKey, nullable, action
<1> QED
  BY <1>13, <1>14 DEF u

LEMMA ForeignKeyAddedIs ==
  ASSUME StringFacts, NEW types, NEW t, TableIs(t, types), t.classes # <<>>,
         NEW rel \in RelationshipType, NEW to \in Seq(Word)
  PROVE  LET u == WithForeignKey(t, rel, to)
             referenced == IF TargetHolds(rel) THEN rel.source ELSE rel.target
         IN  KeepsKeys(t, u, rel.id) /\ \E key : NewKey(t, u, key, rel, referenced, to)
<1> DEFINE referenced == IF TargetHolds(rel) THEN rel.source ELSE rel.target
           taken == ColumnNames(t.columns)
           column == FkColumnName(referenced, to, taken)
<1>1. WithForeignKey(t, rel, to) = AddKey(t, rel, referenced, column, to)
  BY Zenon DEF WithForeignKey
<1>2. referenced \in EndType
  BY DEF RelationshipType
<1>3. IsFiniteSet(taken)
  BY NamesFinite DEF TableIs, ColumnsAre
<1> HIDE DEF referenced, taken
<1>4. column \in Seq(Word) \ taken
  BY <1>2, <1>3, FkColumnIs
<1> HIDE DEF column
<1> QED
  BY <1>1, <1>4, KeyAddedIs DEF taken, referenced

(* Such a key, alone, realises the relationship.                           *)
LEMMA NewKeyIsRight ==
  ASSUME NEW rel \in RelationshipType, ~(IsMany(rel.source.mult) /\ IsMany(rel.target.mult)),
         NEW t, NEW u, NEW key, NEW source, NEW target,
         NewKey(t, u, key, rel, IF TargetHolds(rel) THEN rel.source ELSE rel.target,
                IF TargetHolds(rel) THEN source ELSE target),
         u.name = IF TargetHolds(rel) THEN target ELSE source
  PROVE  KeyIsRight(u, key, rel, source, target)
<1>1. rel.source.mult.lower \in Int /\ rel.target.mult.lower \in Int
  BY DEF RelationshipType, EndType, MultiplicityType
<1> DEFINE isPart == rel.kind = "composition"
           referenced == {end \in {<<rel.source, source>>, <<rel.target, target>>} : end[2] = key.table}
<1>2. CASE TargetHolds(rel)
  <2>1. /\ key.table = source /\ u.name = target /\ ~IsMany(rel.source.mult)
        /\ IsUnique(u, key) <=> ~IsMany(rel.target.mult)
    BY <1>2 DEF NewKey, TargetHolds
  <2>3. ByName(u.columns, key.column).nullable =
          (IF isPart THEN rel.source.cls = rel.target.cls ELSE rel.source.mult.lower <= 0)
    BY <1>2 DEF NewKey
  <2>4. ~ByName(u.columns, key.column).nullable =>
           isPart \/ \E end \in referenced : end[1].mult.lower > 0
    <3> DEFINE optional == rel.source.mult.lower <= 0
    <3>o. ~ByName(u.columns, key.column).nullable /\ ~isPart => ~optional
      BY <2>3, Zenon
    <3>1. ~ByName(u.columns, key.column).nullable /\ ~isPart => rel.source.mult.lower > 0
      BY <1>1, <3>o
    <3>2. <<rel.source, source>>[1] = rel.source
      OBVIOUS
    <3> QED
      BY <3>1, <3>2, <2>1
  <2> QED
    BY <2>4, <2>1 DEF KeyIsRight, NewKey, AtMostOne
<1>3. CASE ~TargetHolds(rel)
  <2>1. /\ key.table = target /\ u.name = source
        /\ IsMany(rel.source.mult) /\ ~IsMany(rel.target.mult) /\ ~IsUnique(u, key)
    BY <1>3 DEF NewKey, TargetHolds
  <2>3. ByName(u.columns, key.column).nullable =
          (IF isPart THEN rel.source.cls = rel.target.cls ELSE rel.target.mult.lower <= 0)
    BY <1>3 DEF NewKey
  <2>4. ~ByName(u.columns, key.column).nullable =>
           isPart \/ \E end \in referenced : end[1].mult.lower > 0
    <3> DEFINE optional == rel.target.mult.lower <= 0
    <3>o. ~ByName(u.columns, key.column).nullable /\ ~isPart => ~optional
      BY <2>3, Zenon
    <3>1. ~ByName(u.columns, key.column).nullable /\ ~isPart => rel.target.mult.lower > 0
      BY <1>1, <3>o
    <3>2. <<rel.target, target>>[1] = rel.target
      OBVIOUS
    <3> QED
      BY <3>1, <3>2, <2>1
  <2> QED
    BY <2>1, <2>4 DEF KeyIsRight, AtMostOne
<1> QED
  BY <1>2, <1>3

LEMMA JoinKeysAre ==
  ASSUME StringFacts, NEW rel \in RelationshipType,
         NEW from \in Seq(Word), NEW to \in Seq(Word), NEW taken, IsFiniteSet(taken)
  PROVE  JoinsEnds(BuildJoinTable(rel, from, to, taken), rel, from, to)
<1> DEFINE name == UniqueName(taken, from \o to)
           source == FkColumnName(rel.source, from, {Id})
           target == FkColumnName(rel.target, to, TakenInJoin(source))
           key1 == ForeignKey(name, source, from, "CASCADE", rel)
           key2 == ForeignKey(name, target, to, "CASCADE", rel)
           fks == <<key1, key2>>
           t == BuildJoinTable(rel, from, to, taken)
<1>1. t = JoinTable(rel, name, source, target, from, to)
  BY Zenon DEF BuildJoinTable
<1>2. rel.source \in EndType /\ rel.target \in EndType
  BY DEF RelationshipType
<1>3. IsFiniteSet({Id}) /\ IsFiniteSet(TakenInJoin(source))
  <2> HIDE DEF source
  <2>1. IsFiniteSet({Id}) /\ IsFiniteSet({source})
    BY FS_Singleton
  <2>2. IsFiniteSet({source} \cup {Id}) /\ {source} \cup {Id} = TakenInJoin(source)
    BY <2>1, FS_AddElement DEF TakenInJoin
  <2> QED
    BY <2>1, <2>2
<1>4. source # target
  <2>1. target \in Seq(Word) \ TakenInJoin(source)
    BY <1>2, <1>3, FkColumnIs
  <2> HIDE DEF target, source
  <2> QED
    BY <2>1 DEF TakenInJoin
<1>5. /\ key1.column = source /\ key1.table = from /\ key1.rel = rel.id
      /\ key2.column = target /\ key2.table = to /\ key2.rel = rel.id
  BY DEF ForeignKey
<1> HIDE DEF source, target, name, key1, key2, t
<1>6. t.fks = fks /\ t.classes = <<>>
  BY <1>1 DEF JoinTable, key1, key2
<1>7. ToSet(t.fks) = {key1, key2}
  <2>1. key1 \in {key1, key2} /\ key2 \in {key1, key2}
    OBVIOUS
  <2>2. ToSet(fks) = {key1, key2}
    BY <2>1, TwoElements
  <2> QED
    BY <1>6, <2>2
<1>9. key1 # key2
  BY <1>4, <1>5
<1>10. Cardinality({key1, key2}) # 1
  <2>2. {key1} \cup {key2} = {key1, key2}
    OBVIOUS
  <2>3. ~\E x : {key1, key2} = {x}
    BY <1>9
  <2> QED
    BY <2>2, <2>3, FS_Singleton, FS_AddElement
<1> QED
  BY <1>5, <1>6, <1>7, <1>10 DEF t, JoinsEnds, KeysOf

(* One table holds the keys of the relationship, and they are right.       *)
LEMMA RealisedByOne ==
  ASSUME NEW next, NEW rel, NEW source, NEW target, NEW k \in DOMAIN next,
         \A j \in DOMAIN next \ {k} : KeysOf(next[j], rel) = {}, KeysOf(next[k], rel) # {},
         IF Cardinality(KeysOf(next[k], rel)) = 1
           THEN \A key \in KeysOf(next[k], rel) : KeyIsRight(next[k], key, rel, source, target)
           ELSE /\ IsMany(rel.source.mult) /\ IsMany(rel.target.mult)
                /\ source # target => {key.table : key \in KeysOf(next[k], rel)} = {source, target}
  PROVE  IsRealised(next, rel, source, target)
<1> DEFINE t == next[k]
<1>1. t \in ToSet(next)
  BY DEF ToSet
<1>2. ASSUME NEW other \in ToSet(next) PROVE KeysOf(other, rel) # {} <=> other = t
  BY DEF ToSet
<1> QED
  BY <1>1, <1>2 DEF IsRealised

(* The names of tables that grow.                                          *)
LEMMA NameInStays ==
  ASSUME NEW m, IsModel(m), HierarchyError(m) = "none",
         NEW i, NEW j, NEW s, LinksFollow(m, i, s), NEW next, LinksFollow(m, j, next),
         s.error = "none", next.error = "none", NEW id, Grows(s.tables, next.tables, id),
         NEW class \in IdsOf(m.classes)
  PROVE  /\ NameIn(m, next, class) = NameIn(m, s, class)
         /\ TableOfClass(m, s, class) \in DOMAIN s.tables
         /\ s.tables[TableOfClass(m, s, class)].classes # <<>>
<1> DEFINE at == TableOfClass(m, s, class)
           tables == s.tables
           more == next.tables
<1>1. tables \in Seq(ToSet(tables)) /\ Covers(m, Len(Roots(m)), tables)
      /\ more \in Seq(ToSet(more))
  BY DEF LinksFollow, TablesAre
<1>2. at \in DOMAIN tables /\ tables[at].classes # <<>>
  BY <1>1, TableOfClassIs
<1>4. more[at].name = tables[at].name
  BY <1>2 DEF Grows, KeepsKeys
<1> QED
  BY <1>2, <1>4, <1>1, TableOfClassStays DEF NameIn

LEMMA JoinRealises ==
  ASSUME StringFacts, NEW types, NEW tables, TablesAre(tables, types),
         NEW rel \in RelationshipType, IsMany(rel.source.mult), IsMany(rel.target.mult),
         NEW from \in Seq(Word), NEW to \in Seq(Word),
         \A t \in ToSet(tables) : KeysOf(t, rel) = {},
         NEW next, next = Append(tables, BuildJoinTable(rel, from, to, NamesOf(tables)))
  PROVE  Grows(tables, next, rel.id) /\ IsRealised(next, rel, from, to)
<1> DEFINE taken == NamesOf(tables)
           join == BuildJoinTable(rel, from, to, taken)
           n == Len(tables)
<1>1. IsFiniteSet(taken)
  BY TableNamesFinite
<1>2. /\ join.classes = <<>> /\ \A f \in ToSet(join.fks) : f.rel = rel.id
      /\ Cardinality(KeysOf(join, rel)) # 1 /\ KeysOf(join, rel) # {}
      /\ {key.table : key \in KeysOf(join, rel)} = {from, to}
  <2>1. JoinsEnds(join, rel, from, to)
    <3> HIDE DEF taken
    <3> QED
      BY <1>1, JoinKeysAre
  <2> HIDE DEF join
  <2> QED
    BY <2>1 DEF JoinsEnds
<1>3. tables \in Seq(ToSet(tables)) /\ next = Append(tables, join)
  BY DEF TablesAre
<1> HIDE DEF join
<1>4. IsLonger(next, tables, join)
  BY <1>3, LongerIs, Zenon
<1>5. n \in Nat /\ DOMAIN tables = 1..n
  BY <1>3
<1> HIDE DEF n
<1>6. /\ DOMAIN next = 1..(n + 1) /\ next[n + 1] = join
      /\ \A i \in 1..n : next[i] = tables[i]
  BY <1>4 DEF IsLonger, n
<1>7. \A i \in 1..(n + 1) : i \in 1..n \/ i = n + 1
  BY <1>5
<1>8. Grows(tables, next, rel.id)
  BY <1>5, <1>6, <1>2, <1>7, SameKeepsKeys DEF Grows
<1>9. n + 1 \in DOMAIN next
  BY <1>5, <1>6
<1>10. \A k \in DOMAIN next \ {n + 1} : KeysOf(next[k], rel) = {}
  <2> TAKE k \in DOMAIN next \ {n + 1}
  <2>1. k \in 1..n
    BY <1>6, <1>7
  <2> QED
    BY <1>5, <1>6, <2>1 DEF ToSet
<1>11. IsRealised(next, rel, from, to)
  <2> DEFINE k == n + 1
  <2>1. k \in DOMAIN next /\ next[k] = join /\ \A l \in DOMAIN next \ {k} : KeysOf(next[l], rel) = {}
    BY <1>6, <1>9, <1>10
  <2> HIDE DEF k
  <2> QED
    BY <1>2, <2>1, RealisedByOne
<1> QED
  BY <1>8, <1>11

LEMMA KeyRealises ==
  ASSUME StringFacts, NEW types, NEW tables, TablesAre(tables, types),
         NEW rel \in RelationshipType, ~(IsMany(rel.source.mult) /\ IsMany(rel.target.mult)),
         NEW source \in DOMAIN tables, tables[source].classes # <<>>,
         NEW target \in DOMAIN tables, tables[target].classes # <<>>,
         \A t \in ToSet(tables) : KeysOf(t, rel) = {},
         NEW at, at = (IF TargetHolds(rel) THEN target ELSE source),
         NEW other, other = (IF TargetHolds(rel) THEN source ELSE target),
         NEW next,
         next = [tables EXCEPT ![at] = WithForeignKey(tables[at], rel, tables[other].name)]
  PROVE  /\ Grows(tables, next, rel.id)
         /\ IsRealised(next, rel, tables[source].name, tables[target].name)
<1> DEFINE t == tables[at]
           to == tables[other].name
           u == WithForeignKey(t, rel, to)
           referenced == IF TargetHolds(rel) THEN rel.source ELSE rel.target
           from1 == tables[source].name
           to1 == tables[target].name
<1>1. at \in DOMAIN tables /\ other \in DOMAIN tables /\ t.classes # <<>>
      /\ to = (IF TargetHolds(rel) THEN from1 ELSE to1)
      /\ t.name = (IF TargetHolds(rel) THEN to1 ELSE from1)
  OBVIOUS
<1>2. TableIs(t, types) /\ to \in Seq(Word)
  BY <1>1 DEF ToSet, TablesAre, TableIs
<1>3. KeepsKeys(t, u, rel.id) /\ \E key : NewKey(t, u, key, rel, referenced, to)
  <2> HIDE DEF t, to
  <2> QED
    BY <1>1, <1>2, ForeignKeyAddedIs
<1>4. /\ DOMAIN next = DOMAIN tables /\ next[at] = u
      /\ \A k \in DOMAIN tables : k # at => next[k] = tables[k]
  <2>1. tables \in Seq(ToSet(tables))
    BY DEF TablesAre
  <2> HIDE DEF u
  <2> QED
    BY <1>1, <2>1 DEF u
<1> HIDE DEF u
<1>5. PICK key : NewKey(t, u, key, rel, referenced, to)
  BY <1>3
<1>6. KeysOf(t, rel) = {}
  BY <1>1 DEF ToSet
<1>7. KeysOf(u, rel) = {key}
  BY <1>5, <1>6 DEF NewKey, KeysOf
<1>8. u.name = t.name
  BY <1>3 DEF KeepsKeys
<1>9. KeyIsRight(u, key, rel, from1, to1)
  <2>1. NewKey(t, u, key, rel, IF TargetHolds(rel) THEN rel.source ELSE rel.target,
               IF TargetHolds(rel) THEN from1 ELSE to1)
    BY <1>1, <1>5
  <2>2. u.name = IF TargetHolds(rel) THEN to1 ELSE from1
    BY <1>1, <1>8
  <2> HIDE DEF t, from1, to1
  <2> QED
    BY <2>1, <2>2, NewKeyIsRight
<1>10. Grows(tables, next, rel.id)
  BY <1>3, <1>4, SameKeepsKeys DEF Grows
<1>11. IsRealised(next, rel, from1, to1)
  <2>1. at \in DOMAIN next /\ \A k \in DOMAIN next \ {at} : KeysOf(next[k], rel) = {}
    BY <1>1, <1>4 DEF ToSet
  <2>2. KeysOf(next[at], rel) = {key} /\ Cardinality({key}) = 1
    BY <1>4, <1>7, FS_Singleton
  <2>3. \A k \in KeysOf(next[at], rel) : KeyIsRight(next[at], k, rel, from1, to1)
    BY <1>4, <1>9, <2>2
  <2> HIDE DEF from1, to1
  <2> QED
    BY <2>1, <2>2, <2>3, RealisedByOne
<1> QED
  BY <1>10, <1>11

(* MapRelationship, of a relationship that has no key yet.                 *)
LEMMA LinkRealises ==
  ASSUME StringFacts, NEW m, IsModel(m), HierarchyError(m) = "none",
         NEW i, NEW s, LinksFollow(m, i, s), NEW rel \in RelationshipType, rel \in ToSet(m.rels),
         rel.kind # "generalization", s.error = "none", MapRelationship(m, s, rel).error = "none",
         \A t \in ToSet(s.tables) : KeysOf(t, rel) = {}
  PROVE  Realises(m, s, MapRelationship(m, s, rel), rel)
<1> DEFINE types == EnumTypes(m)
           tables == s.tables
           source == TableOfClass(m, s, rel.source.cls)
           target == TableOfClass(m, s, rel.target.cls)
           next == MapRelationship(m, s, rel)
           bothMany == IsMany(rel.source.mult) /\ IsMany(rel.target.mult)
           join == BuildJoinTable(rel, tables[source].name, tables[target].name, NamesOf(tables))
           atTarget == WithForeignKey(tables[target], rel, tables[source].name)
           atSource == WithForeignKey(tables[source], rel, tables[target].name)
           longer == Append(tables, join)
           heldByTarget == [tables EXCEPT ![target] = atTarget]
           heldBySource == [tables EXCEPT ![source] = atSource]
<1>1. next = IF s.error # "none" \/ rel.kind = "generalization" THEN s
             ELSE IF \E end \in ReferencedEnds(rel) : ~HasSnakeCase(end.role)
               THEN [s EXCEPT !.error = "InvalidElementName"]
             ELSE IF bothMany THEN [s EXCEPT !.tables = longer]
             ELSE IF TargetHolds(rel) THEN [s EXCEPT !.tables[target] = atTarget]
             ELSE [s EXCEPT !.tables[source] = atSource]
  BY Zenon DEF MapRelationship, LinkTables
<1>2. DOMAIN s = {"error", "tables", "enumTypes"}
  BY DEF LinksFollow
<1>3. next.error = "none"
  OBVIOUS
<1>4. TablesAre(tables, types) /\ Covers(m, Len(Roots(m)), tables)
  BY DEF LinksFollow
<1>6. rel.source.cls \in IdsOf(m.classes) /\ rel.target.cls \in IdsOf(m.classes)
  BY InHierarchy
<1>7. /\ source \in DOMAIN tables /\ tables[source].classes # <<>>
      /\ target \in DOMAIN tables /\ tables[target].classes # <<>>
  BY <1>4, <1>6, TableOfClassIs DEF TablesAre
<1>8. LinksFollow(m, i, next)
  BY LinkFollows
<1> HIDE DEF types, source, target, next, bothMany, join, atTarget, atSource, longer
<1>9. ~\E end \in ReferencedEnds(rel) : ~HasSnakeCase(end.role)
  <2> SUFFICES ASSUME \E end \in ReferencedEnds(rel) : ~HasSnakeCase(end.role) PROVE FALSE
    OBVIOUS
  <2> QED
    BY <1>2, <1>3, <1>1
<1>10. next.tables = IF bothMany THEN longer
                     ELSE IF TargetHolds(rel) THEN heldByTarget ELSE heldBySource
  BY <1>1, <1>9, <1>2
<1> DEFINE more == next.tables
           from == tables[source].name
           to == tables[target].name
<1>11. Grows(tables, more, rel.id) /\ IsRealised(more, rel, from, to)
  <2>1. from \in Seq(Word) /\ to \in Seq(Word)
    BY <1>7, <1>4 DEF ToSet, TablesAre, TableIs
  <2>2. CASE bothMany
    <3>1. more = Append(tables, BuildJoinTable(rel, from, to, NamesOf(tables)))
      BY <1>10, <2>2 DEF longer, join
    <3>2. IsMany(rel.source.mult) /\ IsMany(rel.target.mult)
      BY <2>2 DEF bothMany
    <3>3. \A t \in ToSet(tables) : KeysOf(t, rel) = {}
      OBVIOUS
    <3> HIDE DEF more, tables, from, to
    <3> QED
      BY <1>4, <2>1, <3>1, <3>2, <3>3, JoinRealises
  <2>3. CASE ~bothMany
    <3> DEFINE at == IF TargetHolds(rel) THEN target ELSE source
               other == IF TargetHolds(rel) THEN source ELSE target
    <3>1. more = [tables EXCEPT ![at] = WithForeignKey(tables[at], rel, tables[other].name)]
      BY <1>10, <2>3 DEF atTarget, atSource
    <3>2. ~(IsMany(rel.source.mult) /\ IsMany(rel.target.mult))
      BY <2>3 DEF bothMany
    <3>3. \A t \in ToSet(tables) : KeysOf(t, rel) = {}
      OBVIOUS
    <3> HIDE DEF more, tables
    <3> QED
      BY <1>4, <1>7, <3>1, <3>2, <3>3, KeyRealises
  <2> QED
    BY <2>2, <2>3
<1>12. /\ NameIn(m, next, rel.source.cls) = NameIn(m, s, rel.source.cls)
       /\ NameIn(m, next, rel.target.cls) = NameIn(m, s, rel.target.cls)
  <2>1. Grows(s.tables, next.tables, rel.id)
    BY <1>11
  <2>2. ASSUME NEW class \in IdsOf(m.classes)
        PROVE  NameIn(m, next, class) = NameIn(m, s, class)
    <3>1. /\ NameIn(m, next, class) = NameIn(m, s, class)
          /\ TableOfClass(m, s, class) \in DOMAIN s.tables
          /\ s.tables[TableOfClass(m, s, class)].classes # <<>>
      <4> HIDE DEF tables, more
      <4> QED
        BY <1>3, <1>8, <2>1, NameInStays, Zenon
    <3> QED
      BY <3>1
  <2> QED
    BY <1>6, <2>2
<1> QED
  BY <1>11, <1>12 DEF Realises, NameIn, next, source, target

(* The relationships so far are realised, and those to come have no key.   *)
(* A relationship keeps what the others have, done or to come.             *)
LEMMA OthersKept ==
  ASSUME NEW m, IsModel(m), HierarchyError(m) = "none",
         NEW i, NEW j, NEW s, LinksFollow(m, i, s), NEW next, LinksFollow(m, j, next),
         s.error = "none", next.error = "none", NEW id, Grows(s.tables, next.tables, id),
         NEW rel \in ToSet(m.rels), rel.id # id
  PROVE  /\ IsDone(m, s, rel) => IsDone(m, next, rel)
         /\ HasNoKeys(s, rel) => HasNoKeys(next, rel)
<1>1. ASSUME IsDone(m, s, rel), rel.kind # "generalization"
      PROVE  IsDone(m, next, rel)
  <2> DEFINE from == NameIn(m, s, rel.source.cls)
             to == NameIn(m, s, rel.target.cls)
  <2>1. \A class \in IdsOf(m.classes) : NameIn(m, next, class) = NameIn(m, s, class)
    <3> TAKE class \in IdsOf(m.classes)
    <3>1. /\ NameIn(m, next, class) = NameIn(m, s, class)
          /\ TableOfClass(m, s, class) \in DOMAIN s.tables
          /\ s.tables[TableOfClass(m, s, class)].classes # <<>>
      BY NameInStays, Zenon
    <3> QED
      BY <3>1
  <2>3. NameIn(m, next, rel.source.cls) = from /\ NameIn(m, next, rel.target.cls) = to
    BY <2>1, InHierarchy DEF IsModel, ToSet
  <2>4. IsRealised(s.tables, rel, from, to)
    BY <1>1 DEF IsDone
  <2>5. DistinctNames(s.tables)
    BY DEF LinksFollow, TablesAre
  <2> HIDE DEF from, to
  <2> QED
    BY <2>3, <2>4, <2>5, RealisedStays DEF IsDone
<1>2. ASSUME HasNoKeys(s, rel) PROVE HasNoKeys(next, rel)
  <2> SUFFICES ASSUME NEW t \in ToSet(next.tables) PROVE KeysOf(t, rel) = {}
    BY DEF HasNoKeys
  <2>1. PICK k \in DOMAIN next.tables : t = next.tables[k]
    BY DEF ToSet
  <2>2. CASE k \in DOMAIN s.tables
    BY <1>2, <2>2, <2>1, OtherKeysKept DEF HasNoKeys, ToSet, Grows
  <2>3. CASE k \notin DOMAIN s.tables
    BY <2>1, <2>3 DEF Grows, KeysOf
  <2> QED
    BY <2>2, <2>3
<1> QED
  BY <1>1, <1>2 DEF IsDone

LEMMA OneMoreRealised ==
  ASSUME StringFacts, NEW m, IsModel(m), DistinctRelIds(m), HierarchyError(m) = "none",
         NEW i \in 1..Len(m.rels), NEW s, RealisedSoFar(m, i - 1, s)
  PROVE  RealisedSoFar(m, i, MapRelationship(m, s, m.rels[i]))
<1> DEFINE rel == m.rels[i]
           next == MapRelationship(m, s, rel)
<1>1. /\ DOMAIN m.rels = 1..Len(m.rels) /\ i \in DOMAIN m.rels /\ Len(m.rels) \in Nat
      /\ rel \in RelationshipType /\ rel \in ToSet(m.rels)
  BY DEF IsModel, ToSet
<1>2. LinksFollow(m, i - 1, s)
  BY DEF RealisedSoFar
<1> HIDE DEF rel
<1>3. LinksFollow(m, i, next)
  BY <1>1, <1>2, LinkFollows
<1>4. s.error # "none" \/ rel.kind = "generalization" => next = s
  <2> DEFINE tables == s.tables
             source == TableOfClass(m, s, rel.source.cls)
             target == TableOfClass(m, s, rel.target.cls)
             bothMany == IsMany(rel.source.mult) /\ IsMany(rel.target.mult)
             join == BuildJoinTable(rel, tables[source].name, tables[target].name, NamesOf(tables))
             atTarget == WithForeignKey(tables[target], rel, tables[source].name)
             atSource == WithForeignKey(tables[source], rel, tables[target].name)
             linked == IF \E end \in ReferencedEnds(rel) : ~HasSnakeCase(end.role)
                         THEN [s EXCEPT !.error = "InvalidElementName"]
                       ELSE IF bothMany THEN [s EXCEPT !.tables = Append(tables, join)]
                       ELSE IF TargetHolds(rel) THEN [s EXCEPT !.tables[target] = atTarget]
                       ELSE [s EXCEPT !.tables[source] = atSource]
  <2>1. next = IF s.error # "none" \/ rel.kind = "generalization" THEN s ELSE linked
    BY Zenon DEF MapRelationship, LinkTables
  <2> HIDE DEF linked
  <2> HIDE DEF next
  <2> QED
    BY <2>1, Zenon
<1> HIDE DEF next
<1>5. i \in Int /\ \A j \in DOMAIN m.rels : j \in Int
  BY <1>1
<1>6. ASSUME next.error = "none" PROVE AreDone(m, i, next)
  <2>1. s.error = "none"
    BY <1>4, <1>6
  <2>2. AreDone(m, i - 1, s)
    BY <2>1 DEF RealisedSoFar
  <2>3. CASE rel.kind = "generalization"
    <3>1. next = s
      BY <1>4, <2>3
    <3> SUFFICES ASSUME NEW j \in DOMAIN m.rels
                 PROVE  (j <= i => IsDone(m, s, m.rels[j])) /\ (j > i => HasNoKeys(s, m.rels[j]))
      BY <3>1 DEF AreDone
    <3> QED
      BY <2>2, <2>3, <1>5 DEF AreDone, rel, IsDone
  <2>4. CASE rel.kind # "generalization"
    <3>1. HasNoKeys(s, rel)
      BY <1>5, <1>1, <2>2 DEF AreDone, rel
    <3>2. Realises(m, s, next, rel)
      BY <3>1, <1>6, <1>1, <1>2, <2>1, <2>4, LinkRealises DEF HasNoKeys, next
    <3>3. Grows(s.tables, next.tables, rel.id) /\ IsDone(m, next, rel)
      BY <3>2 DEF Realises, IsDone
    <3> SUFFICES ASSUME NEW j \in DOMAIN m.rels
                 PROVE  (j <= i => IsDone(m, next, m.rels[j])) /\ (j > i => HasNoKeys(next, m.rels[j]))
      BY DEF AreDone
    <3>4. CASE j = i
      BY <1>5, <3>4, <3>3 DEF rel
    <3>5. CASE j # i
      <4> DEFINE other == m.rels[j]
      <4>1. other \in ToSet(m.rels) /\ other.id # rel.id
        BY <1>1, <3>5 DEF ToSet, DistinctRelIds, rel
      <4>2. (j <= i - 1 => IsDone(m, s, other)) /\ (j > i - 1 => HasNoKeys(s, other))
        BY <2>2 DEF AreDone
      <4> HIDE DEF other
      <4>3. /\ IsDone(m, s, other) => IsDone(m, next, other)
            /\ HasNoKeys(s, other) => HasNoKeys(next, other)
        BY <1>2, <1>3, <1>6, <2>1, <3>3, <4>1, OthersKept
      <4> QED
        BY <4>2, <4>3, <1>5, <3>5 DEF other
    <3> QED
      BY <3>4, <3>5
  <2> QED
    BY <2>3, <2>4
<1> QED
  BY <1>3, <1>6 DEF RealisedSoFar, next, rel

LEMMA AllRealised ==
  ASSUME StringFacts, NEW m, IsModel(m), DistinctRelIds(m), HierarchyError(m) = "none"
  PROVE  RealisedSoFar(m, Len(m.rels), Linked(m, TablesDrawn(m, Started(m))))
<1> DEFINE rels == m.rels
           n == Len(rels)
           drawn == TablesDrawn(m, Started(m))
<1>1. Linked(m, drawn) = Fold(FoldOf("Realised", m), drawn, rels)
  BY DEF Linked, Fold, FoldOf, Combine, Max,
         FoldLeft, MapThenFoldSet
<1>2. RealisedSoFar(m, 0, drawn)
  <2>1. RootsFollow(m, Len(Roots(m)), drawn)
    BY DrawnFollows
  <2> HIDE DEF drawn
  <2>3. drawn.error = "none" => AreDone(m, 0, drawn)
    <3> SUFFICES ASSUME drawn.error = "none" PROVE AreDone(m, 0, drawn)
      OBVIOUS
    <3> QED
      BY <2>1 DEF AreDone, IsModel, AreKeyless, HasNoKeys, KeysOf, RootsFollow, ToSet
  <2> QED
    BY <2>3, <2>1 DEF RealisedSoFar, RootsFollow, LinksFollow
<1> HIDE DEF drawn
<1>3. rels \in Seq(RelationshipType)
  BY DEF IsModel
<1>4. \A i \in 1..n : \A s : RealisedSoFar(m, i-1, s) =>
        RealisedSoFar(m, i, MapRelationship(m, s, rels[i]))
  <2> SUFFICES ASSUME NEW i \in 1..n, NEW s, RealisedSoFar(m, i-1, s)
               PROVE  RealisedSoFar(m, i, MapRelationship(m, s, rels[i]))
    OBVIOUS
  <2> QED
    BY OneMoreRealised
<1> HIDE DEF rels
<1>5. n \in Nat /\ DOMAIN rels = 1..n
  BY <1>3
<1> HIDE DEF n
<1>6. RealisedSoFar(m, n, Fold(FoldOf("Realised", m), drawn, rels))
  <2> DEFINE fold == FoldOf("Realised", m)
  <2>1. \A a, e : Combine(fold, a, e) = MapRelationship(m, a, e)
    BY DEF Combine, FoldOf
  <2>2. \A k, a : Holds(fold, k, a) <=> RealisedSoFar(m, k, a)
    BY DEF Holds, FoldOf
  <2> HIDE DEF fold
  <2>3. Holds(fold, 0, drawn) /\ \A i \in 1..n : \A a :
          Holds(fold, i-1, a) => Holds(fold, i, Combine(fold, a, rels[i]))
    BY <1>2, <1>4, <1>5, <2>1, <2>2
  <2>4. RealisedSoFar(m, n, Fold(fold, drawn, rels))
    BY <1>2, <1>4, <1>5, <2>2, <2>3, FoldInduction
  <2> QED
    BY <2>4 DEF fold
<1> QED
  BY <1>1, <1>6 DEF n, rels, drawn

(* map_to_relational realises every relationship of a model whose          *)
(* relationships have ids of their own, reachable or not.                  *)
LEMMA MappedRealises ==
  ASSUME StringFacts, NEW m, IsModel(m), DistinctRelIds(m), MapToRelational(m).error = "none",
         NEW rel \in ToSet(m.rels)
  PROVE  IsDone(m, MapToRelational(m), rel)
<1> DEFINE types == EnumTypes(m)
           blocked == HierarchyError(m)
           linked == Linked(m, TablesDrawn(m, Started(m)))
           schema == MapToRelational(m)
<1>1. schema = FirstError(blocked, linked, types)
  BY Zenon DEF MapToRelational, Linked, TablesDrawn, Started
<1>2. blocked = "none" => RealisedSoFar(m, Len(m.rels), linked)
  BY AllRealised
<1>3. schema.error = "none"
  OBVIOUS
<1> HIDE DEF types, blocked, linked, schema
<1>4. blocked = "none"
  <2> SUFFICES ASSUME blocked # "none" PROVE FALSE
    OBVIOUS
  <2> QED
    BY <1>3, <1>1 DEF NoSchema, FirstError
<1>5. linked.error = "none"
  <2> SUFFICES ASSUME linked.error # "none" PROVE FALSE
    OBVIOUS
  <2> QED
    BY <1>3, <1>1, <1>4 DEF NoSchema, FirstError
<1>6. schema.tables = linked.tables
  BY <1>1, <1>4, <1>5, <1>2 DEF FirstError, RealisedSoFar, LinksFollow
<1>8. IsDone(m, linked, rel)
  BY <1>2, <1>4, <1>5 DEF ToSet, IsModel, RealisedSoFar, AreDone
<1> QED
  BY <1>6, <1>8 DEF schema, IsDone, NameIn, TableOfClass

(* The files generated of a schema.                                        *)
LEMMA FoundByName ==
  ASSUME NEW elements, elements \in Seq(ToSet(elements)), NEW name \in NamesOf(elements)
  PROVE  ByName(elements, name) \in ToSet(elements) /\ ByName(elements, name).name = name
<1> DEFINE I == {i \in 1..Len(elements) : elements[i].name = name}
           at == IF I # {} THEN Min(I) ELSE 0
<1>1. ByName(elements, name) = elements[at]
  BY DEF ByName, SelectInSeq
<1>2. I # {} /\ DOMAIN elements = 1..Len(elements)
  BY DEF NamesOf
<1>3. at \in I
  <2>1. I = {i \in 1..Len(elements) : i \in I}
    OBVIOUS
  <2> HIDE DEF I
  <2> QED
    BY <1>2, <2>1, SelectedIs
<1> HIDE DEF at
<1> QED
  BY <1>1, <1>2, <1>3 DEF ToSet

(* The key a column belongs to.                                            *)
LEMMA KeyOfColumn ==
  ASSUME NEW t, t.fks \in Seq(ToSet(t.fks)), NEW c
  PROVE  /\ FkOf(t, c) # 0 => t.fks[FkOf(t, c)] \in ToSet(t.fks) /\ t.fks[FkOf(t, c)].column = c.name
         /\ \A f \in ToSet(t.fks) : f.column = c.name => FkOf(t, c) # 0
<1> DEFINE fks == t.fks
           I == {i \in 1..Len(fks) : fks[i].column = c.name}
           at == IF I # {} THEN Min(I) ELSE 0
<1>1. FkOf(t, c) = at
  BY DEF FkOf, SelectInSeq
<1>2. DOMAIN fks = 1..Len(fks)
  OBVIOUS
<1>3. (at = 0 \/ at \in I) /\ (at = 0 <=> I = {})
  <2>1. I = {i \in 1..Len(fks) : i \in I} /\ fks \in Seq(ToSet(fks))
    OBVIOUS
  <2> HIDE DEF I, fks
  <2> QED
    BY <2>1, SelectedIs
<1> HIDE DEF at
<1> QED
  BY <1>1, <1>2, <1>3 DEF ToSet

LEMMA SixFiles ==
  ASSUME NEW a, NEW b, NEW c, NEW d, NEW e, NEW f
  PROVE  /\ <<a, b, c, d, e, f>> \in Seq({a, b, c, d, e, f})
         /\ ToSet(<<a, b, c, d, e, f>>) = {a, b, c, d, e, f}
<1> DEFINE six == <<a, b, c, d, e, f>>
           S == {a, b, c, d, e, f}
<1>1. six \in Seq(S)
  OBVIOUS
<1>2. /\ DOMAIN six = 1..6 /\ six[1] = a /\ six[2] = b /\ six[3] = c
      /\ six[4] = d /\ six[5] = e /\ six[6] = f
  OBVIOUS
<1> HIDE DEF six
<1>5. ToSet(six) = S
  BY <1>2 DEF ToSet
<1> QED
  BY <1>1, <1>5 DEF six

LEMMA SourcesOfTable ==
  ASSUME NEW t, t.classes \in Seq(ToSet(t.classes))
  PROVE  TableSources(t) \in Seq(FilesOf(t)) /\ ToSet(TableSources(t)) = FilesOf(t)
<1>1. CASE HasInheritance(t)
  <2> DEFINE entities == [k \in DOMAIN t.classes |-> InheritanceSource(t, k)]
             rest == <<RepositorySource(t)>>
             S == {InheritanceSource(t, k) : k \in DOMAIN t.classes}
  <2>1. TableSources(t) = entities \o rest
    BY <1>1, Zenon DEF TableSources
  <2>2. FilesOf(t) = S \cup {RepositorySource(t)}
    BY <1>1 DEF FilesOf
  <2>3. DOMAIN t.classes = 1..Len(t.classes) /\ Len(t.classes) \in Nat
    OBVIOUS
  <2>4. entities \in [1..Len(t.classes) -> S]
    BY <2>3
  <2>5. ToSet(entities) = S
    BY DEF ToSet
  <2> HIDE DEF entities
  <2>6. entities \in Seq(S)
    BY <2>3, <2>4, FunctionIsSeq
  <2>7. rest \in Seq({RepositorySource(t)}) /\ ToSet(rest) = {RepositorySource(t)}
    BY OneElement DEF ToSet
  <2> HIDE DEF S, rest
  <2>8. entities \in Seq(FilesOf(t)) /\ rest \in Seq(FilesOf(t))
    BY <2>2, <2>6, <2>7, SeqMonotone
  <2> QED
    BY <2>1, <2>2, <2>5, <2>7, <2>8, ConcatOf
<1>2. CASE ~HasInheritance(t)
  <2> DEFINE e1 == EntitySource(t)
             e2 == RepositorySource(t)
             e3 == DtoSource(t, RequestDto(t.name), TRUE)
             e4 == DtoSource(t, ResponseDto(t.name), FALSE)
             e5 == ServiceSource(t)
             e6 == ControllerSource(t)
             six == <<e1, e2, e3, e4, e5, e6>>
             rest == IF SearchFilters(t) = <<>> THEN <<>> ELSE <<SpecificationSource(t)>>
             S == {e1, e2, e3, e4, e5, e6}
             R == {s \in {SpecificationSource(t)} : SearchFilters(t) # <<>>}
  <2>1. TableSources(t) = six \o rest
    BY <1>2, Zenon DEF TableSources
  <2>2. FilesOf(t) = S \cup R
    BY <1>2 DEF FilesOf
  <2>3. six \in Seq(S) /\ ToSet(six) = S
    <3> HIDE DEF e1, e2, e3, e4, e5, e6
    <3> QED
      BY SixFiles
  <2>4. rest \in Seq(R) /\ ToSet(rest) = R
    <3>1. ToSet(<<>>) = {} /\ ToSet(<<SpecificationSource(t)>>) = {SpecificationSource(t)}
      BY DEF ToSet
    <3>2. <<SpecificationSource(t)>> \in Seq({SpecificationSource(t)}) /\ <<>> \in Seq(R)
      OBVIOUS
    <3>3. CASE SearchFilters(t) = <<>>
      BY <3>1, <3>2, <3>3
    <3>4. CASE SearchFilters(t) # <<>>
      BY <3>4, <3>1, <3>2
    <3> QED
      BY <3>3, <3>4
  <2> HIDE DEF six, rest, S, R
  <2>5. six \in Seq(FilesOf(t)) /\ rest \in Seq(FilesOf(t))
    BY <2>2, <2>3, <2>4, SeqMonotone
  <2> QED
    BY <2>1, <2>2, <2>3, <2>4, <2>5, ConcatOf
<1> QED
  BY <1>1, <1>2

LEMMA NothingRefused ==
  ASSUME NEW S, NEW refusals \in Seq(S), FirstRefusal(refusals) = "none"
  PROVE  ToSet(refusals) \subseteq {"none"}
<1> SUFFICES ASSUME ~(ToSet(refusals) \subseteq {"none"}) PROVE FALSE
  OBVIOUS
<1> DEFINE I == {i \in 1..Len(refusals) : refusals[i] # "none"}
           at == IF I # {} THEN Min(I) ELSE 0
<1>1. FirstRefusal(refusals) = refusals[at]
  BY DEF FirstRefusal, SelectInSeq
<1>2. I # {} /\ I = {i \in 1..Len(refusals) : i \in I}
  BY DEF ToSet
<1>3. at \in I
  <2> HIDE DEF I
  <2> QED
    BY <1>2, SelectedIs
<1> HIDE DEF at
<1> QED
  BY <1>1, <1>3

LEMMA ProjectGenerates ==
  ASSUME NEW tables, NEW types, TablesAre(tables, types), types \in Seq(ToSet(types)),
         GenerateProject(tables, types).error = "none"
  PROVE  Generates(tables, types, ToSet(GenerateProject(tables, types).files))
<1> DEFINE ofTables == [i \in DOMAIN tables |-> TableRefusal(tables[i])]
           ofTypes == [i \in DOMAIN types |-> EnumRefusal(types[i])]
           refusals == ofTables \o ofTypes
           sources == [i \in DOMAIN tables |-> TableSources(tables[i])]
           enums == [i \in DOMAIN types |-> EnumSource(types[i])]
           fixed == FixedSources
           flat == FlattenSeq(sources)
           files == flat \o enums \o fixed
<1>1. GenerateProject(tables, types) = Project(FirstRefusal(refusals), files)
  BY Zenon DEF GenerateProject
<1>3. /\ DOMAIN tables = 1..Len(tables) /\ Len(tables) \in Nat
      /\ DOMAIN types = 1..Len(types) /\ Len(types) \in Nat
  BY DEF TablesAre
<1>4. \A t \in ToSet(tables) : /\ TableSources(t) \in Seq(FilesOf(t))
                               /\ ToSet(TableSources(t)) = FilesOf(t)
  BY SourcesOfTable DEF TablesAre, TableIs
<1> DEFINE F == UNION {FilesOf(t) : t \in ToSet(tables)}
           E == {EnumSource(e) : e \in ToSet(types)}
           X == ToSet(fixed)
           R == {TableRefusal(t) : t \in ToSet(tables)} \cup {EnumRefusal(e) : e \in ToSet(types)}
<1>5. ofTables \in Seq(R) /\ ofTypes \in Seq(R) /\ enums \in Seq(E)
  <2>1. ofTables \in [1..Len(tables) -> R]
    BY <1>3 DEF ToSet
  <2>2. ofTypes \in [1..Len(types) -> R]
    BY <1>3 DEF ToSet
  <2>3. enums \in [1..Len(types) -> E]
    BY <1>3 DEF ToSet
  <2> HIDE DEF ofTables, ofTypes, enums, R, E
  <2> QED
    BY <1>3, <2>1, <2>2, <2>3, FunctionIsSeq
<1>6. /\ ToSet(enums) = E
      /\ ToSet(ofTables) \cup ToSet(ofTypes) = R
  BY DEF ToSet
<1>7. sources \in Seq(Seq(F)) /\ UNION {ToSet(sources[i]) : i \in DOMAIN sources} = F
  <2>1. \A i \in 1..Len(tables) : tables[i] \in ToSet(tables) /\ sources[i] = TableSources(tables[i])
    BY <1>3 DEF ToSet
  <2>2. \A i \in 1..Len(tables) : sources[i] \in Seq(F)
    <3> TAKE i \in 1..Len(tables)
    <3>1. FilesOf(tables[i]) \subseteq F
      BY <2>1
    <3> HIDE DEF F, sources
    <3> QED
      BY <1>4, <2>1, <3>1, SeqMonotone
  <2>3. sources \in [1..Len(tables) -> Seq(F)]
    <3>1. sources = [i \in 1..Len(tables) |-> sources[i]]
      BY <1>3
    <3> HIDE DEF sources, F
    <3> QED
      BY <2>2, <3>1
  <2>4. DOMAIN sources = 1..Len(tables)
    BY <1>3
  <2>5. \A t \in ToSet(tables) : \E i \in 1..Len(tables) : t = tables[i]
    BY <1>3 DEF ToSet
  <2> HIDE DEF sources
  <2>6. UNION {ToSet(sources[i]) : i \in DOMAIN sources} = F
    BY <1>4, <2>1, <2>4, <2>5
  <2> HIDE DEF F
  <2> QED
    BY <1>3, <2>3, <2>6, FunctionIsSeq
<1>8. fixed \in Seq(X)
  <2>1. fixed = [i \in 1..6 |-> fixed[i]]
    BY DEF FixedSources
  <2> HIDE DEF fixed
  <2>2. fixed \in [1..6 -> X]
    BY <2>1 DEF ToSet
  <2> HIDE DEF X
  <2> QED
    BY <2>2, FunctionIsSeq
<1> HIDE DEF ofTables, ofTypes, sources, enums, fixed, F, E, X, R
<1>9. flat \in Seq(F) /\ ToSet(flat) = F
  BY <1>7, FlattenIs
<1> HIDE DEF flat
<1>10. refusals \in Seq(R) /\ ToSet(refusals) = R
  <2>1. /\ ofTables \o ofTypes \in Seq(R)
        /\ ToSet(ofTables \o ofTypes) = ToSet(ofTables) \cup ToSet(ofTypes)
    BY <1>5, ConcatOf
  <2> QED
    BY <2>1, <1>6
<1>11. ToSet(files) = F \cup E \cup X
  <2> DEFINE A == F \cup E \cup X
             first == flat \o enums
  <2>1. flat \in Seq(A) /\ enums \in Seq(A) /\ fixed \in Seq(A)
    <3>1. F \subseteq A /\ E \subseteq A /\ X \subseteq A
      OBVIOUS
    <3> HIDE DEF A
    <3> QED
      BY <1>5, <1>8, <1>9, <3>1, SeqMonotone
  <2> HIDE DEF A
  <2>2. first \in Seq(A) /\ ToSet(first) = F \cup E
    BY <1>6, <1>9, <2>1, ConcatOf
  <2> HIDE DEF first
  <2>3. ToSet(first \o fixed) = ToSet(first) \cup ToSet(fixed)
    BY <2>1, <2>2, ConcatOf
  <2> QED
    BY <2>2, <2>3 DEF first, X
<1> HIDE DEF refusals, files
<1>12. FirstRefusal(refusals) = "none" /\ GenerateProject(tables, types).files = files
  <2> DEFINE refusal == FirstRefusal(refusals)
             apart == IsInjective([i \in DOMAIN files |-> files[i].type])
  <2>1. Project(refusal, files) =
          CASE refusal # "none" -> NoProject(refusal)
            [] refusal = "none" /\ ~apart -> NoProject("PathCollision")
            [] OTHER -> [error |-> "none", files |-> files]
    BY DEF Project
  <2> HIDE DEF refusal, apart
  <2>2. CASE refusal # "none"
    BY <1>1, <2>1, <2>2 DEF NoProject, refusal
  <2>3. CASE refusal = "none" /\ ~apart
    BY <1>1, <2>1, <2>3 DEF NoProject, refusal
  <2>4. CASE refusal = "none" /\ apart
    BY <1>1, <2>1, <2>4 DEF refusal
  <2> QED
    BY <2>2, <2>3, <2>4
<1>13. R \subseteq {"none"}
  BY <1>10, <1>12, NothingRefused
<1> QED
  BY <1>11, <1>12, <1>13 DEF Generates, F, E, X, R, fixed

(* What is known of a table that is not refused.                           *)
LEMMA TableAccepted ==
  ASSUME NEW tables, NEW types, NEW files, Generates(tables, types, files), NEW t \in ToSet(tables)
  PROVE  /\ TableIs(t, types) /\ FilesOf(t) \subseteq files
         /\ \A f \in ToSet(t.fks) : f.column \in ColumnNames(t.columns) /\ f.table \in NamesOf(tables)
         /\ ~OutOfScope(t) /\ t.name # <<>> /\ <<>> \notin ColumnNames(t.columns)
         /\ HasInheritance(t) =>
              \A k \in 2..Len(t.discriminator) : LegalJavaName(t.discriminator[k])
         /\ ~HasInheritance(t) => DefaultSortResolves(t)
<1>1. TableIs(t, types) /\ \A f \in ToSet(t.fks) : f.table \in NamesOf(tables)
  BY DEF Generates, TablesAre
<1>2. TableRefusal(t) = "none" /\ FilesOf(t) \subseteq files
  BY DEF Generates
<1> HIDE DEF Generates
<1> QED
  BY <1>1, <1>2 DEF TableIs, TableRefusal

LEMMA MemberOfColumn ==
  ASSUME NEW t, NEW c
  PROVE  EntityField(t, c).member = IF IsFk(t, c) THEN RelationshipBaseName(c.name) ELSE c.name
BY DEF RelationshipField, EnumField, ScalarField, Field, EntityField

(* The fields of an entity, over all columns or those of a class.          *)
EntityFields(t, columns) == [i \in DOMAIN columns |-> EntityField(t, columns[i])]
LEMMA EntityMembers ==
  ASSUME NEW t, NEW columns
  PROVE  ToSet(Members(EntityFields(t, columns))) = {EntityField(t, c).member : c \in ToSet(columns)}
<1> DEFINE fields == EntityFields(t, columns)
<1>1. DOMAIN fields = DOMAIN columns /\ \A i \in DOMAIN columns : fields[i] = EntityField(t, columns[i])
  BY DEF EntityFields
<1> HIDE DEF fields
<1> QED
  BY <1>1 DEF ToSet, fields, Members

LEMMA EntityIs ==
  ASSUME NEW t
  PROVE  /\ EntitySource(t).type = Entity(t.name)
         /\ EntitySource(t).members = Members(EntityFields(t, t.columns))
BY DEF EntitySource, Source, EntityFields

LEMMA InheritanceIs ==
  ASSUME NEW t, NEW k
  PROVE  LET columns == Filter(t.columns, LAMBDA c : OwnedBy(t, k, c))
         IN  /\ InheritanceSource(t, k).type = SubclassEntity(t, k)
             /\ InheritanceSource(t, k).members = Members(EntityFields(t, columns))
BY DEF InheritanceSource, Source, EntityFields

LEMMA ResponseIs ==
  ASSUME NEW t, NEW type
  PROVE  /\ DtoSource(t, type, FALSE).type = type
         /\ ToSet(DtoSource(t, type, FALSE).members) = ColumnNames(t.columns)
<1> DEFINE columns == t.columns
           fields == [i \in DOMAIN columns |-> DtoField(columns[i], FALSE)]
           dto == DtoSource(t, type, FALSE)
<1>1. dto.type = type /\ dto.members = Members(fields)
  BY DEF DtoSource, Source
<1>2. DOMAIN fields = DOMAIN columns /\ \A i \in DOMAIN columns : fields[i].member = columns[i].name
  BY DEF DtoField, Field
<1> HIDE DEF fields
<1>3. /\ DOMAIN Members(fields) = DOMAIN columns
      /\ \A i \in DOMAIN columns : Members(fields)[i] = columns[i].name
  BY <1>2 DEF Members
<1> HIDE DEF dto
<1> QED
  BY <1>1, <1>3 DEF ToSet, ColumnNames, dto

(* A class of a tree has an entity with a field for each column of its     *)
(* own, the root also for the key and the references.                      *)
LEMMA OwnedField ==
  ASSUME NEW tables, NEW types, NEW files, Generates(tables, types, files), NEW t \in ToSet(tables),
         HasInheritance(t), NEW k \in DOMAIN t.classes, NEW c \in ToSet(t.columns), OwnedBy(t, k, c)
  PROVE  \E f \in files : f.type = SubclassEntity(t, k) /\ EntityField(t, c).member \in ToSet(f.members)
<1> DEFINE f == InheritanceSource(t, k)
           kept == {d \in ToSet(t.columns) : OwnedBy(t, k, d)}
           columns == Only(t.columns, kept)
<1>1. f.type = SubclassEntity(t, k) /\ f.members = Members(EntityFields(t, columns))
  BY InheritanceIs DEF Filter
<1>2. f \in files /\ t.columns \in Seq(ToSet(t.columns))
  <2>2. f \in FilesOf(t)
    BY DEF FilesOf
  <2> QED
    BY <2>2, TableAccepted DEF TableIs, ColumnsAre
<1>4. c \in ToSet(columns)
  BY <1>2, OnlyPicks
<1> HIDE DEF f, columns
<1> QED
  BY <1>1, <1>2, <1>4, EntityMembers

(* So has every other table, for all its columns.                          *)
LEMMA TableField ==
  ASSUME NEW tables, NEW types, NEW files, Generates(tables, types, files), NEW t \in ToSet(tables),
         ~HasInheritance(t), NEW c \in ToSet(t.columns)
  PROVE  \E f \in files : f.type = Entity(t.name) /\ EntityField(t, c).member \in ToSet(f.members)
<1>2. EntityField(t, c).member \in ToSet(Members(EntityFields(t, t.columns)))
  BY EntityMembers
<1> QED
  BY <1>2, EntityIs, TableAccepted DEF FilesOf

(* In a tree, a column is owned by a class or else is the key, the         *)
(* discriminator or a reference.                                           *)
LEMMA TreeIsWellFormed ==
  ASSUME NEW t, ~OutOfScope(t), HasInheritance(t)
  PROVE  /\ t.classes # <<>> /\ DOMAIN t.discriminator = DOMAIN t.classes
         /\ \A c \in ToSet(t.columns) :
              /\ c.owner # NoOwner => \E id \in ToSet(t.classes) : c.owner = <<id>>
              /\ IsFk(t, c) => c.owner \in {NoOwner, <<t.classes[1]>>}
              /\ c.owner = NoOwner => IsPk(c) \/ IsDiscriminator(t, c) \/ IsFk(t, c)
BY DEF OutOfScope, MalformedInheritance

(* The root holds the key, its own columns and the references.             *)
LEMMA RootField ==
  ASSUME NEW tables, NEW types, NEW files, Generates(tables, types, files), NEW t \in ToSet(tables),
         HasInheritance(t), NEW c \in ToSet(t.columns), ~IsDiscriminator(t, c),
         c.owner = NoOwner \/ c.owner = <<t.classes[1]>> \/ IsFk(t, c)
  PROVE  \E f \in files : f.type = Entity(t.name) /\ EntityField(t, c).member \in ToSet(f.members)
<1> QED
  BY OwnedField, TreeIsWellFormed, TableAccepted DEF SubclassEntity, TableIs, OwnedBy

(* An attribute of the manifest is a field of the entity it names.         *)
LEMMA AttributeDescribed ==
  ASSUME NEW tables, NEW types, NEW files, Generates(tables, types, files), NEW t \in ToSet(tables),
         NEW c \in ToSet(t.columns), ~IsDiscriminator(t, c)
  PROVE  LET owner == Entity(IF Subtype(t, c) = <<>> THEN t.name ELSE Subtype(t, c)[1])
         IN  \E f \in files : f.type = owner /\ EntityField(t, c).member \in ToSet(f.members)
<1> DEFINE classes == t.classes
           I == {i \in 1..Len(classes) : c.owner = <<classes[i]>>}
           k == IF I # {} THEN Min(I) ELSE 0
           ofRoot == c.owner = NoOwner \/ classes = <<>> \/ c.owner = <<classes[1]>>
<1>1. Subtype(t, c) = IF ofRoot THEN <<>>
                      ELSE IF k \notin DOMAIN t.discriminator THEN <<>>
                      ELSE <<t.discriminator[k].words>>
  BY DEF Subtype, SelectInSeq
<1>2. TableIs(t, types) /\ ~OutOfScope(t)
  BY TableAccepted
<1>3. CASE ~HasInheritance(t)
  <2>1. DOMAIN t.discriminator = {}
    BY <1>3 DEF HasInheritance
  <2> HIDE DEF k, ofRoot
  <2> QED
    BY <1>3, <1>1, <2>1, TableField
<1>4. CASE HasInheritance(t)
  <2>1. /\ classes # <<>> /\ DOMAIN t.discriminator = DOMAIN classes
        /\ c.owner # NoOwner => \E id \in ToSet(classes) : c.owner = <<id>>
    BY <1>2, <1>4, TreeIsWellFormed
  <2>2. CASE ofRoot
    <3>1. Subtype(t, c) = <<>>
      BY <1>1, <2>2, Zenon
    <3> QED
      BY <1>4, <2>1, <2>2, <3>1, RootField
  <2>3. CASE ~ofRoot
    <3>1. classes \in Seq(ToSet(classes))
      BY <1>2 DEF TableIs
    <3>2. DOMAIN classes = 1..Len(classes) /\ I # {} /\ I = {i \in 1..Len(classes) : i \in I}
      BY <2>1, <2>3, <3>1 DEF ToSet
    <3>3. k \in I
      <4> HIDE DEF I, classes
      <4> QED
        BY <3>1, <3>2, SelectedIs
    <3>4. k \in DOMAIN classes /\ c.owner = <<classes[k]>>
      BY <3>2, <3>3
    <3> HIDE DEF k
    <3>5. k # 1
      BY <2>3, <3>4
    <3>8. /\ Subtype(t, c) # <<>> /\ Subtype(t, c)[1] = t.discriminator[k].words
      BY <1>1, <2>1, <2>3, <3>4
    <3> QED
      BY <1>4, <3>4, <3>8, <3>5, OwnedField DEF OwnedBy, SubclassEntity
  <2> QED
    BY <2>2, <2>3
<1> QED
  BY <1>3, <1>4

(* The manifest.                                                           *)
LEMMA EnumDeclared ==
  ASSUME NEW tables, NEW types, NEW files, Generates(tables, types, files), NEW t \in ToSet(tables),
         NEW c \in ToSet(t.columns), IsEnum(c)
  PROVE  \E f \in files : f.type = EnumClass(c.enum)
<1>2. PICK i \in DOMAIN types : types[i].name = c.enum
  BY TableAccepted DEF NamesOf, TableIs, ColumnsAre
<1>4. EnumSource(types[i]).type = EnumClass(c.enum)
  BY <1>2 DEF EnumSource, Source
<1> QED
  BY <1>4 DEF Generates, ToSet

LEMMA ResourceDescribed ==
  ASSUME NEW tables, NEW types, NEW files, Generates(tables, types, files), NEW t \in ToSet(tables),
         ~HasInheritance(t)
  PROVE  /\ \E f \in files : f.type = Controller(t.name)
         /\ \E dto \in files : /\ dto.type = ResponseDto(t.name)
                               /\ {a.name : a \in ManifestAttributes(t)} = ToSet(dto.members)
<1>1. ControllerSource(t) \in files /\ DtoSource(t, ResponseDto(t.name), FALSE) \in files
  BY TableAccepted DEF FilesOf
<1>3. {a.name : a \in ManifestAttributes(t)} = ColumnNames(t.columns)
  <2>1. \A c \in ToSet(t.columns) : ManifestAttribute(t, c).name = c.name /\ ~IsDiscriminator(t, c)
    BY DEF ManifestAttribute, IsDiscriminator
  <2> QED
    BY <2>1 DEF ColumnNames, ToSet, ManifestAttributes
<1> QED
  BY <1>1, <1>3, ResponseIs DEF ControllerSource, Source

LEMMA RelationshipDescribed ==
  ASSUME StringFacts, NEW tables, NEW types, NEW files, Generates(tables, types, files),
         NEW t \in ToSet(tables), NEW key \in ToSet(t.fks)
  PROVE  /\ \E f \in files :
              f.type = Entity(t.name) /\ ManifestRelationship(t, key).field \in ToSet(f.members)
         /\ \E target \in ToSet(tables) : target.name = ManifestRelationship(t, key).target
<1> DEFINE c == ByName(t.columns, key.column)
           r == ManifestRelationship(t, key)
<1>1. /\ TableIs(t, types) /\ ~OutOfScope(t)
      /\ key.column \in ColumnNames(t.columns) /\ key.table \in NamesOf(tables)
  BY TableAccepted
<1>2. c \in ToSet(t.columns) /\ c.name = key.column
  BY <1>1, FoundByName DEF TableIs, ColumnsAre, ColumnNames, NamesOf
<1>3. r.field = RelationshipBaseName(c.name) /\ r.target = key.table
  BY DEF ManifestRelationship
<1> HIDE DEF c, r
<1>4. FkOf(t, c) # 0
  BY <1>1, <1>2, KeyOfColumn DEF TableIs
<1>5. IsPk(c) \/ IsFk(t, c)
  BY <1>4 DEF IsFk
<1>6. EntityField(t, c).member = r.field
  <2>1. CASE IsPk(c)
    BY <1>3, <2>1, MemberOfColumn DEF RelationshipBaseName, Id, IsPk, IsFk
  <2>2. CASE IsFk(t, c)
    BY <1>3, <2>2, MemberOfColumn
  <2> QED
    BY <1>5, <2>1, <2>2
<1>7. \E f \in files : f.type = Entity(t.name) /\ EntityField(t, c).member \in ToSet(f.members)
  <2>1. CASE ~HasInheritance(t)
    BY <1>2, <2>1, TableField
  <2>2. CASE HasInheritance(t)
    <3>2. c.owner = NoOwner \/ IsFk(t, c)
      BY <1>1, <1>2, <1>5 DEF IsPk, TableIs, ColumnsAre
    <3> QED
      BY <1>2, <2>2, <3>2, <1>1, RootField DEF IsDiscriminator, HasInheritance, TableIs
  <2> QED
    BY <2>1, <2>2
<1> QED
  BY <1>3, <1>6, <1>7, <1>1 DEF r, NamesOf, ToSet

LEMMA TableDescribed ==
  ASSUME StringFacts, NEW tables, NEW types, NEW files, Generates(tables, types, files),
         NEW t \in ToSet(tables)
  PROVE  Described(ManifestEntity(t), {ManifestEntity(u) : u \in ToSet(tables)}, files)
<1> DEFINE entities == {ManifestEntity(u) : u \in ToSet(tables)}
<1>1. \A u : ManifestEntity(u).name = u.name
  BY DEF ManifestEntity
<1>2. /\ ManifestEntity(t).attributes = ManifestAttributes(t)
      /\ ManifestEntity(t).relationships = {ManifestRelationship(t, f) : f \in ToSet(t.fks)}
      /\ ManifestEntity(t).hasResource => ~HasInheritance(t)
  <2> DEFINE has == HasResource(t)
             attributes == ManifestAttributes(t)
             relationships == {ManifestRelationship(t, f) : f \in ToSet(t.fks)}
             operations == IF has THEN ToSet(EffectiveOperations(t.profile)) ELSE {}
             subtypes == IF HasInheritance(t)
                           THEN {t.discriminator[k].words : k \in 2..Len(t.discriminator)} ELSE {}
  <2>1. ManifestEntity(t) = [name |-> t.name, hasResource |-> has, operations |-> operations,
                             subtypes |-> subtypes, attributes |-> attributes,
                             relationships |-> relationships]
    BY Zenon DEF ManifestEntity
  <2>2. has => ~HasInheritance(t)
    BY DEF HasResource
  <2> HIDE DEF has, attributes, relationships, operations, subtypes
  <2>3. /\ ManifestEntity(t).attributes = attributes /\ ManifestEntity(t).hasResource = has
        /\ ManifestEntity(t).relationships = relationships
    BY <2>1
  <2> QED
    BY <2>2, <2>3, Zenon DEF attributes, relationships
<1>3. ASSUME NEW a \in ManifestAttributes(t)
      PROVE  /\ a.enum # <<>> => {f \in files : f.type = EnumClass(a.enum)} # {}
             /\ \E f \in {g \in files :
                            g.type = Entity(IF a.subtype = <<>> THEN t.name ELSE a.subtype[1])} :
                  {a.name, RelationshipBaseName(a.name)} \cap ToSet(f.members) # {}
  <2>1. PICK c \in ToSet(t.columns) : ~IsDiscriminator(t, c) /\ a = ManifestAttribute(t, c)
    BY DEF ManifestAttributes
  <2>3. c.enum # <<>> => \E f \in files : f.type = EnumClass(c.enum)
    BY EnumDeclared DEF IsEnum
  <2> QED
    BY <2>3, <2>1, MemberOfColumn, AttributeDescribed DEF ManifestAttribute
<1>4. ASSUME NEW r \in ManifestEntity(t).relationships
      PROVE  /\ \E f \in {g \in files : g.type = Entity(t.name)} : r.field \in ToSet(f.members)
             /\ \E target \in entities : target.name = r.target
  BY <1>1, <1>2, RelationshipDescribed
<1>5. ManifestEntity(t).hasResource =>
        /\ {f \in files : f.type = Controller(t.name)} # {}
        /\ \E dto \in {f \in files : f.type = ResponseDto(t.name)} :
             {a.name : a \in ManifestAttributes(t)} = ToSet(dto.members)
  BY <1>2, ResourceDescribed
<1> DEFINE e == ManifestEntity(t)
<1>6. e.name = t.name /\ e.attributes = ManifestAttributes(t)
  BY <1>1, <1>2
<1> HIDE DEF e, entities
<1> QED
  BY <1>3, <1>4, <1>5, <1>6 DEF e, entities, Described

(* Where there is a project, the manifest refuses only a default sort the  *)
(* generator does not look at.                                             *)
LEMMA TableDescribable ==
  ASSUME NEW tables, NEW types, NEW files, Generates(tables, types, files), NEW t \in ToSet(tables)
  PROVE  DescribesTable(t) <=> (HasInheritance(t) => SortResolves(t))
<1>1. /\ t.name # <<>> /\ <<>> \notin ColumnNames(t.columns)
      /\ HasInheritance(t) =>
           \A k \in 2..Len(t.discriminator) : LegalJavaName(t.discriminator[k])
      /\ ~HasInheritance(t) => DefaultSortResolves(t)
      /\ TableIs(t, types)
  BY TableAccepted
<1>2. ASSUME ~HasInheritance(t), HasDefaultSort(t) PROVE SortResolves(t)
  <2> DEFINE columns == t.columns
             I == {i \in 1..Len(columns) : columns[i].source = t.profile.defaultSort.attribute}
             at == IF I # {} THEN Min(I) ELSE 0
  <2>2. at # 0
    BY <1>1, <1>2, Zenon DEF DefaultSortResolves, DefaultSortColumn, SelectInSeq
  <2>3. columns \in Seq(ToSet(columns)) /\ I = {i \in 1..Len(columns) : i \in I}
    BY <1>1 DEF TableIs, ColumnsAre
  <2>4. at \in I
    <3> HIDE DEF I, columns
    <3> QED
      BY <2>2, <2>3, SelectedIs
  <2>5. \E i \in 1..Len(columns) : columns[i].source = t.profile.defaultSort.attribute
    BY <2>4
  <2>6. \A i \in 1..Len(columns) : columns[i] \in ToSet(columns)
    BY <2>3 DEF ToSet
  <2> HIDE DEF at, I
  <2> QED
    BY <1>2, <2>5, <2>6 DEF SortResolves, IsDiscriminator
<1> QED
  BY <1>1, <1>2 DEF DescribesTable, SortResolves

LEMMA EnumDescribable ==
  ASSUME NEW e, EnumRefusal(e) = "none"
  PROVE  DescribesEnum(e)
BY DEF EnumRefusal, DescribesEnum

(* build_manifest and the generator agree on every schema a project is     *)
(* generated of, reachable or not.                                         *)
THEOREM ManifestAgrees ==
  ASSUME StringFacts, NEW tables, NEW types, TablesAre(tables, types), types \in Seq(ToSet(types)),
         GenerateProject(tables, types).error = "none"
  PROVE  Agree(BuildManifest(tables, types), ToSet(GenerateProject(tables, types).files),
               ToSet(tables))
<1> DEFINE files == ToSet(GenerateProject(tables, types).files)
           manifest == BuildManifest(tables, types)
           entities == {ManifestEntity(t) : t \in ToSet(tables)}
           enums == {ManifestEnum(e) : e \in ToSet(types)}
           describes == /\ \A t \in ToSet(tables) : DescribesTable(t)
                        /\ \A e \in ToSet(types) : DescribesEnum(e)
<1>1. Generates(tables, types, files)
  BY ProjectGenerates
<1>2. manifest = IF describes THEN [error |-> "none", entities |-> entities, enums |-> enums]
                 ELSE [error |-> "ManifestError", entities |-> {}, enums |-> {}]
  BY Zenon DEF BuildManifest
<1> HIDE DEF files
<1>3. describes <=> \A t \in ToSet(tables) : HasInheritance(t) => SortResolves(t)
  BY <1>1, EnumDescribable, TableDescribable DEF Generates
<1>4. \A e \in entities : Described(e, entities, files)
  BY <1>1, TableDescribed
<1> HIDE DEF describes, entities, enums, manifest
<1>5. CASE describes
  BY <1>2, <1>5, <1>3, <1>4 DEF Agree, manifest, files
<1>6. CASE ~describes
  BY <1>2, <1>6, <1>3 DEF Agree, manifest, files
<1> QED
  BY <1>5, <1>6

(* A project is generated of a schema whose tables are in order.           *)
LEMMA ArchivedOf ==
  ASSUME StringFacts, NEW m, IsModel(m), NEW schema, schema = MapToRelational(m),
         NEW project, project = Archive(m, schema), project.error = "none"
  PROVE  /\ project = GenerateProject(schema.tables, schema.enumTypes)
         /\ TablesAre(schema.tables, schema.enumTypes)
         /\ schema.enumTypes \in Seq(ToSet(schema.enumTypes))
<1>1. m.classes # <<>> /\ schema.error = "none"
  <2> DEFINE error == schema.error
             generated == GenerateProject(schema.tables, schema.enumTypes)
  <2>1. Archive(m, schema) = CASE m.classes = <<>> -> NoProject("NothingToGenerate")
                               [] m.classes # <<>> /\ error # "none" -> NoProject(error)
                               [] OTHER -> generated
    BY DEF Archive
  <2> HIDE DEF error, generated
  <2>2. CASE m.classes = <<>>
    BY <2>1, <2>2 DEF NoProject
  <2>3. CASE m.classes # <<>> /\ error # "none"
    BY <2>1, <2>3 DEF NoProject
  <2> QED
    BY <2>2, <2>3 DEF error
<1> QED
  BY <1>1, MappedIs, EnumTypesAre DEF Archive, NoSchema, TypesFollow

(* How the files of a project fit together: the types a file names, the    *)
(* members it calls and the types it imports.                              *)

JavaPackages == {"java.util", "java.lang", "java.math", "java.time"}
LEMMA JavaTypes ==
  ASSUME NEW columnType
  PROVE  /\ JavaTypeFor(columnType).pkg \in JavaPackages
         /\ IsSupportedType(columnType) =>
              JavaTypeFor(columnType).pkg = "java.lang" \/ JavaTypeFor(columnType) = BigDecimal
BY DEF JavaTypeFor, JavaType, JavaPackages, IsSupportedType, BigDecimal

LEMMA FrameworkTypes ==
  ASSUME NEW pkg, NEW names, NEW type \in Framework(pkg, names)
  PROVE  type.pkg = pkg
BY DEF Framework, JavaType

(* What a file that imports all it uses leaves to show.                    *)
LEMMA ImportsItsUses ==
  ASSUME NEW f, f.imports = {t \in f.uses : NeedsImport(t)}
  PROVE  Unimported(f) = {}
BY DEF Unimported

(* Every table has an entity with the key, and a repository.               *)
LEMMA ReferenceDeclared ==
  ASSUME StringFacts, NEW tables, NEW types, NEW files, Generates(tables, types, files),
         NEW name \in NamesOf(tables)
  PROVE  /\ Answers(files, Entity(name), Id)
         /\ \E g \in files : g.type = Entity(name)
         /\ \E g \in files : g.type = Repository(name)
<1>1. PICK t \in ToSet(tables) : t.name = name
  BY DEF NamesOf, ToSet
<1>2. TableIs(t, types) /\ ~OutOfScope(t) /\ FilesOf(t) \subseteq files
  BY TableAccepted
<1>3. PICK c \in ToSet(t.columns) : IsPk(c)
  BY <1>2 DEF OutOfScope
<1>5. \E f \in files : f.type = Entity(t.name) /\ EntityField(t, c).member \in ToSet(f.members)
  BY <1>2, <1>3, TableField, FixedNames, RootField DEF IsDiscriminator, IsPk, TableIs, ColumnsAre
<1>6. RepositorySource(t) \in files /\ RepositorySource(t).type = Repository(t.name)
  BY <1>2 DEF FilesOf, RepositorySource, Source
<1> QED
  BY <1>1, <1>5, <1>6, <1>3, MemberOfColumn DEF Answers, IsFk, IsPk

(* The field of a column: its type is a Java type or one of the project's, *)
(* and only the key is annotated as one.                                   *)
KeyAnnotations == Persistence({"Id", "GeneratedValue", "GenerationType"})
LEMMA FieldOfColumn ==
  ASSUME StringFacts, NEW tables, NEW types, NEW files, Generates(tables, types, files),
         NEW t \in ToSet(tables), NEW c \in ToSet(t.columns)
  PROVE  LET field == EntityField(t, c)
         IN  /\ field.type.pkg = "domain" \/ field.type.pkg \in JavaPackages
             /\ IsDeclared(field.type, files)
             /\ \A a \in field.annotations :
                  /\ a.pkg \in {"jakarta.persistence", "jakarta.validation.constraints"}
                  /\ a \in KeyAnnotations => IsPk(c)
<1> DEFINE field == EntityField(t, c)
<1>2. NotNull(c) \cup Size(c) \subseteq Constraints({"NotNull", "Size"})
  BY DEF NotNull, Size, Constraints, Framework
<1>3. \A names : \A a \in Persistence(names) :
        a.pkg = "jakarta.persistence" /\ \E n \in names : a.name = <<n>>
  BY DEF Persistence, Framework, JavaType
<1>4. \A names : \A a \in Constraints(names) : a.pkg = "jakarta.validation.constraints"
  BY FrameworkTypes DEF Constraints
<1>5. \A n \in {"ManyToOne", "OneToOne", "JoinColumn", "Enumerated", "EnumType", "Column"} :
        \A k \in {"Id", "GeneratedValue", "GenerationType"} : <<n>> # <<k>>
  OBVIOUS
<1>6. CASE IsFk(t, c)
  <2> DEFINE fk == t.fks[FkOf(t, c)]
             kind == IF IsOneToOne(t, fk) THEN "OneToOne" ELSE "ManyToOne"
  <2>1. /\ field.type = Entity(fk.table)
        /\ field.annotations = Persistence({kind, "JoinColumn"}) \cup NotNull(c)
    BY <1>6 DEF EntityField, RelationshipField, Field
  <2>2. fk.table \in NamesOf(tables)
    BY <1>6, KeyOfColumn, TableAccepted DEF IsFk, TableIs
  <2>3. IsDeclared(field.type, files) /\ field.type.pkg = "domain"
    BY <2>1, <2>2, ReferenceDeclared DEF IsDeclared, Entity, JavaType
  <2>4. kind \in {"OneToOne", "ManyToOne"}
    OBVIOUS
  <2> HIDE DEF field, kind, fk
  <2> QED
    BY <1>2, <1>3, <1>4, <1>5, <2>1, <2>3, <2>4 DEF KeyAnnotations, field
<1>7. CASE ~IsFk(t, c) /\ IsEnum(c)
  <2>1. /\ field.type = EnumClass(c.enum)
        /\ field.annotations = Persistence({"Enumerated", "EnumType", "Column"}) \cup NotNull(c)
    BY <1>7 DEF EntityField, EnumField, Field
  <2>2. IsDeclared(field.type, files) /\ field.type.pkg = "domain"
    BY <1>7, <2>1, EnumDeclared DEF IsDeclared, EnumClass, JavaType
  <2> HIDE DEF field
  <2> QED
    BY <1>2, <1>3, <1>4, <1>5, <2>1, <2>2 DEF KeyAnnotations, field
<1>8. CASE ~IsFk(t, c) /\ ~IsEnum(c)
  <2>1. /\ field.type = JavaTypeFor(c.type)
        /\ field.annotations =
             IF IsPk(c) THEN Persistence({"Id", "GeneratedValue", "GenerationType", "Column"})
             ELSE Persistence({"Column"}) \cup NotNull(c) \cup Size(c)
    BY <1>8 DEF EntityField, ScalarField, Field
  <2>2. field.type.pkg \in JavaPackages
    BY <2>1, JavaTypes
  <2>3. IsDeclared(field.type, files)
    BY <2>2 DEF IsDeclared, JavaPackages, OwnPackages
  <2> HIDE DEF field
  <2> QED
    BY <1>2, <1>3, <1>4, <1>5, <2>1, <2>2, <2>3 DEF KeyAnnotations, field
<1> QED
  BY <1>6, <1>7, <1>8

LEMMA TypesOfFields ==
  ASSUME NEW t, NEW columns, NEW type
  PROVE  LET fields == EntityFields(t, columns)
         IN  /\ type \in TypesIn(fields) <=>
                  \E c \in ToSet(columns) :
                    type = EntityField(t, c).type \/ type \in EntityField(t, c).annotations
             /\ type \in ScalarTypes(fields) <=>
                  type.pkg # "domain" /\ \E c \in ToSet(columns) : type = EntityField(t, c).type
             /\ type \in AnnotationsIn(fields) <=>
                  \E c \in ToSet(columns) : type \in EntityField(t, c).annotations
<1> DEFINE fields == EntityFields(t, columns)
<1>1. DOMAIN fields = DOMAIN columns /\ \A i \in DOMAIN columns : fields[i] = EntityField(t, columns[i])
  BY DEF EntityFields
<1> HIDE DEF fields
<1> QED
  BY <1>1 DEF ToSet, fields, TypesIn, ScalarTypes, AnnotationsIn

Outside == JavaPackages \cup
  {"jakarta.persistence", "jakarta.persistence.criteria", "jakarta.validation",
   "jakarta.validation.constraints", "org.springframework.data.domain",
   "org.springframework.data.jpa.domain", "org.springframework.data.jpa.repository",
   "org.springframework.http", "org.springframework.stereotype",
   "org.springframework.transaction.annotation", "org.springframework.web.bind.annotation"}
LEMMA OutsideDeclared ==
  ASSUME NEW files, NEW pkg \in Outside, NEW names, NEW type \in Framework(pkg, names)
  PROVE  IsDeclared(type, files)
BY FrameworkTypes DEF IsDeclared, Outside, OwnPackages, JavaPackages

LEMMA EntityResolves ==
  ASSUME StringFacts, NEW tables, NEW types, NEW files, Generates(tables, types, files),
         NEW t \in ToSet(tables)
  PROVE  Resolves(EntitySource(t), files)
<1> DEFINE f == EntitySource(t)
           fields == EntityFields(t, t.columns)
           fixed == Persistence({"Column", "Entity", "GeneratedValue", "GenerationType", "Id", "Table"})
           imports == fixed \cup ScalarTypes(fields) \cup AnnotationsIn(fields)
           used == Persistence({"Entity", "Table"})
<1>1. /\ f.type.pkg = "domain" /\ f.uses = TypesIn(fields) \cup used
      /\ f.imports = {x \in imports : NeedsImport(x)} /\ f.calls = {}
  BY DEF EntitySource, Source, EntityFields, Entity, JavaType
<1>2. used \subseteq fixed
  BY DEF Persistence, Framework
<1>3. \A x \in fixed \cup used : IsDeclared(x, files)
  BY OutsideDeclared DEF Persistence, Outside
<1>4. \A c \in ToSet(t.columns) :
        /\ EntityField(t, c).type.pkg = "domain" \/ EntityField(t, c).type.pkg \in JavaPackages
        /\ IsDeclared(EntityField(t, c).type, files)
        /\ \A a \in EntityField(t, c).annotations : IsDeclared(a, files)
  BY FieldOfColumn DEF IsDeclared, OwnPackages
<1>5. ASSUME NEW x \in TypesIn(fields)
      PROVE  IsDeclared(x, files) /\ (x \in imports \/ x.pkg = "domain")
  BY <1>4, TypesOfFields
<1>6. ASSUME NEW x \in imports
      PROVE  IsDeclared(x, files)
  BY <1>3, <1>4, TypesOfFields
<1> HIDE DEF f, fields, fixed, imports, used
<1>7. Unimported(f) \subseteq {}
  BY <1>1, <1>2, <1>5 DEF imports, Unimported
<1> QED
  BY <1>1, <1>3, <1>5, <1>6, <1>7 DEF Resolves, f

LEMMA TreeResolves ==
  ASSUME StringFacts, NEW tables, NEW types, NEW files, Generates(tables, types, files),
         NEW t \in ToSet(tables), NEW k \in DOMAIN t.classes
  PROVE  Resolves(InheritanceSource(t, k), files)
<1> DEFINE f == InheritanceSource(t, k)
           kept == {c \in ToSet(t.columns) : OwnedBy(t, k, c)}
           columns == Only(t.columns, kept)
           fields == EntityFields(t, columns)
           root == IF k = 1 THEN Persistence({"Table", "Inheritance", "InheritanceType",
                                              "DiscriminatorColumn"}) ELSE {}
           ids == IF k = 1 THEN KeyAnnotations ELSE {}
           column == IF fields = <<>> THEN {} ELSE Persistence({"Column"})
           common == Persistence({"Entity", "DiscriminatorValue"}) \cup root
           singles == Persistence({"Id", "GeneratedValue", "GenerationType", "Column"})
           imports == common \cup ids \cup column \cup ScalarTypes(fields)
                        \cup (AnnotationsIn(fields) \ singles)
<1>1. /\ f.type.pkg = "domain"
      /\ f.uses = common \cup TypesIn(fields) \cup {Entity(t.name)}
      /\ f.imports = {x \in imports : NeedsImport(x)} /\ f.calls = {}
  <2> QED
    BY DEF InheritanceSource, Source, EntityFields, Filter, KeyAnnotations, SubclassEntity,
       Entity, JavaType
<1>2. ToSet(columns) = ToSet(t.columns) \cap kept
  BY TableAccepted, OnlyPicks DEF TableIs, ColumnsAre
<1>3. \A x \in common \cup ids \cup column : IsDeclared(x, files)
  BY OutsideDeclared DEF Persistence, Outside, KeyAnnotations
<1>4. \A c \in ToSet(columns) :
        /\ EntityField(t, c).type.pkg = "domain" \/ EntityField(t, c).type.pkg \in JavaPackages
        /\ IsDeclared(EntityField(t, c).type, files)
        /\ \A a \in EntityField(t, c).annotations :
             IsDeclared(a, files) /\ (a \in KeyAnnotations => k = 1)
  <2>1. ASSUME NEW a, a.pkg \in {"jakarta.persistence", "jakarta.validation.constraints"}
        PROVE  IsDeclared(a, files)
    BY <2>1 DEF IsDeclared, OwnPackages
  <2>2. \A c \in ToSet(columns) : IsPk(c) => k = 1
    <3>2. NoOwner # <<t.classes[k]>>
      BY DEF NoOwner
    <3> QED
      BY <1>2, <3>2, TableAccepted DEF OwnedBy, TableIs, ColumnsAre, IsPk
  <2>3. ToSet(columns) \subseteq ToSet(t.columns)
    BY <1>2
  <2> HIDE DEF columns
  <2> QED
    BY <2>1, <2>2, <2>3, FieldOfColumn
<1>5. singles = KeyAnnotations \cup Persistence({"Column"})
  BY DEF KeyAnnotations, Persistence, Framework
<1>6. ToSet(columns) # {} => fields # <<>>
  BY DEF ToSet, EntityFields
<1>7. IsDeclared(Entity(t.name), files) /\ Entity(t.name).pkg = "domain"
  BY ReferenceDeclared DEF NamesOf, ToSet, IsDeclared, Entity, JavaType
<1> HIDE DEF common, singles, columns, root
<1>8. ASSUME NEW x \in TypesIn(fields)
      PROVE  IsDeclared(x, files) /\ (x \in imports \/ x.pkg = "domain")
  BY <1>8, <1>4, <1>5, <1>6, TypesOfFields
<1>9. ASSUME NEW x \in imports
      PROVE  IsDeclared(x, files)
  BY <1>3, <1>4, TypesOfFields
<1> HIDE DEF f, fields, ids, column
<1>10. Unimported(f) \subseteq {}
  <2>1. common \subseteq imports
    OBVIOUS
  <2> HIDE DEF imports
  <2>2. \A x \in f.uses : x \in imports \/ ~NeedsImport(x) \/ x.pkg = f.type.pkg
    BY <1>1, <1>7, <1>8, <2>1
  <2>3. f.imports = {x \in imports : NeedsImport(x)}
    BY <1>1
  <2> QED
    BY <2>2, <2>3 DEF Unimported
<1> QED
  BY <1>1, <1>3, <1>7, <1>8, <1>9, <1>10 DEF Resolves, f

(* A file whose imports are what it uses, all of it declared.              *)
LEMMA PlainResolves ==
  ASSUME NEW f, NEW files, f.imports = {x \in f.uses : NeedsImport(x)},
         \A x \in f.uses : IsDeclared(x, files),
         \A call \in f.calls : Answers(files, call[1], call[2])
  PROVE  Resolves(f, files)
BY ImportsItsUses DEF Resolves

LEMMA OwnDeclared ==
  ASSUME StringFacts, NEW tables, NEW types, NEW files, Generates(tables, types, files),
         NEW t \in ToSet(tables)
  PROVE  /\ IsDeclared(Entity(t.name), files) /\ IsDeclared(Repository(t.name), files)
         /\ \A x \in FilterTypes(t) : IsDeclared(x, files)
BY JavaTypes, ReferenceDeclared DEF NamesOf, ToSet, FilterTypes, IsDeclared, JavaPackages, OwnPackages

LEMMA RepositoryResolves ==
  ASSUME StringFacts, NEW tables, NEW types, NEW files, Generates(tables, types, files),
         NEW t \in ToSet(tables)
  PROVE  Resolves(RepositorySource(t), files)
<1> DEFINE f == RepositorySource(t)
           executor == IF HasSpecificationExecutor(t)
                         THEN Framework("org.springframework.data.jpa.repository",
                                        {"JpaSpecificationExecutor"}) ELSE {}
           used == Framework("org.springframework.data.jpa.repository", {"JpaRepository"})
                     \cup Util({"UUID"}) \cup {Entity(t.name)} \cup executor
<1>1. f.uses = used /\ f.imports = {x \in used : NeedsImport(x)} /\ f.calls = {}
  BY DEF RepositorySource, Source
<1>2. \A x \in used : IsDeclared(x, files)
  BY OutsideDeclared, OwnDeclared DEF Util, Outside, JavaPackages
<1> HIDE DEF f, used
<1> QED
  BY <1>1, <1>2, PlainResolves DEF f

(* The columns of a DTO, and the fields it has for them.                   *)
DtoColumns(t, forRequest) ==
  IF forRequest THEN Filter(t.columns, LAMBDA c : ~IsPk(c)) ELSE t.columns
LEMMA DtoColumnsAre ==
  ASSUME NEW t, t.columns \in Seq(ToSet(t.columns)), NEW forRequest \in BOOLEAN
  PROVE  ToSet(DtoColumns(t, forRequest)) = {c \in ToSet(t.columns) : forRequest => ~IsPk(c)}
<1> DEFINE kept == {c \in ToSet(t.columns) : ~IsPk(c)}
<1>1. CASE forRequest
  BY <1>1, OnlyPicks DEF DtoColumns, Filter
<1>2. CASE ~forRequest
  BY <1>2 DEF DtoColumns
<1> QED
  BY <1>1, <1>2

LEMMA DtoIs ==
  ASSUME NEW t, NEW type, NEW forRequest
  PROVE  LET dto == DtoSource(t, type, forRequest)
             columns == ToSet(DtoColumns(t, forRequest))
         IN  /\ dto.type = type /\ dto.calls = {} /\ dto.imports = {x \in dto.uses : NeedsImport(x)}
             /\ ToSet(dto.members) = {c.name : c \in columns}
             /\ \A x \in dto.uses : \E c \in columns :
                  \/ x = IF IsEnum(c) THEN EnumClass(c.enum) ELSE JavaTypeFor(c.type)
                  \/ x \in NotNull(c) \cup Size(c)
<1> DEFINE dto == DtoSource(t, type, forRequest)
           columns == DtoColumns(t, forRequest)
           fields == [i \in DOMAIN columns |-> DtoField(columns[i], forRequest)]
<1>1. /\ dto.type = type /\ dto.calls = {} /\ dto.members = Members(fields)
      /\ dto.uses = TypesIn(fields) /\ dto.imports = {x \in TypesIn(fields) : NeedsImport(x)}
  BY DEF DtoSource, Source, DtoColumns
<1>2. /\ DOMAIN fields = DOMAIN columns
      /\ \A i \in DOMAIN columns :
           /\ fields[i].member = columns[i].name
           /\ fields[i].type = IF IsEnum(columns[i]) THEN EnumClass(columns[i].enum)
                               ELSE JavaTypeFor(columns[i].type)
           /\ fields[i].annotations \subseteq NotNull(columns[i]) \cup Size(columns[i])
  BY DEF DtoField, Field
<1> HIDE DEF dto, fields, columns
<1>4. ASSUME NEW x \in dto.uses
      PROVE  \E c \in ToSet(columns) :
               \/ x = IF IsEnum(c) THEN EnumClass(c.enum) ELSE JavaTypeFor(c.type)
               \/ x \in NotNull(c) \cup Size(c)
  BY <1>1, <1>2, <1>4 DEF TypesIn, ToSet
<1> QED
  BY <1>1, <1>4, <1>2 DEF dto, columns, Members, ToSet

LEMMA DtoResolves ==
  ASSUME NEW tables, NEW types, NEW files, Generates(tables, types, files),
         NEW t \in ToSet(tables), NEW type, NEW forRequest \in BOOLEAN
  PROVE  /\ Resolves(DtoSource(t, type, forRequest), files)
         /\ \A c \in ToSet(t.columns) : (forRequest => ~IsPk(c)) =>
              c.name \in ToSet(DtoSource(t, type, forRequest).members)
<1> DEFINE dto == DtoSource(t, type, forRequest)
           columns == ToSet(DtoColumns(t, forRequest))
<1>2. columns = {c \in ToSet(t.columns) : forRequest => ~IsPk(c)}
  BY DtoColumnsAre, TableAccepted DEF TableIs, ColumnsAre
<1>3. ASSUME NEW x \in dto.uses
      PROVE  IsDeclared(x, files)
  <2>1. PICK c \in columns : \/ x = IF IsEnum(c) THEN EnumClass(c.enum) ELSE JavaTypeFor(c.type)
                             \/ x \in NotNull(c) \cup Size(c)
    BY <1>3, DtoIs
  <2>3. CASE IsEnum(c) /\ x = EnumClass(c.enum)
    BY <2>3, <1>2, EnumDeclared DEF IsDeclared
  <2>4. CASE x = JavaTypeFor(c.type)
    BY <2>4, JavaTypes DEF IsDeclared, JavaPackages, OwnPackages
  <2>5. CASE x \in NotNull(c) \cup Size(c)
    BY <2>5, OutsideDeclared DEF NotNull, Size, Constraints, Outside
  <2> QED
    BY <2>1, <2>3, <2>4, <2>5
<1>4. /\ dto.calls = {} /\ dto.imports = {x \in dto.uses : NeedsImport(x)}
      /\ ToSet(dto.members) = {c.name : c \in columns}
  BY DtoIs
<1> HIDE DEF dto, columns
<1> QED
  BY <1>2, <1>3, <1>4, PlainResolves DEF dto

(* The searchable columns have members of their own name.                  *)
LEMMA SearchFiltersAre ==
  ASSUME NEW t, t.columns \in Seq(ToSet(t.columns))
  PROVE  ToSet(SearchFilters(t)) = {c \in ToSet(t.columns) : IsSearchable(t, c)}
<1> DEFINE kept == {c \in ToSet(t.columns) : IsSearchable(t, c)}
<1> QED
  BY OnlyPicks DEF SearchFilters, Filter

LEMMA SpecificationResolves ==
  ASSUME StringFacts, NEW tables, NEW types, NEW files, Generates(tables, types, files),
         NEW t \in ToSet(tables), ~HasInheritance(t)
  PROVE  Resolves(SpecificationSource(t), files)
<1> DEFINE f == SpecificationSource(t)
           used == Util({"ArrayList", "List"})
                     \cup Framework("jakarta.persistence.criteria", {"Predicate"})
                     \cup Framework("org.springframework.data.jpa.domain", {"Specification"})
                     \cup {Entity(t.name)} \cup FilterTypes(t)
<1>1. /\ f.uses = used /\ f.imports = {x \in used : NeedsImport(x)}
      /\ f.calls = {<<Entity(t.name), c.name>> : c \in ToSet(SearchFilters(t))}
  BY DEF SpecificationSource, Source
<1>2. \A x \in used : IsDeclared(x, files)
  BY OutsideDeclared, OwnDeclared DEF Util, Outside, JavaPackages
<1>3. ASSUME NEW c \in ToSet(SearchFilters(t))
      PROVE  Answers(files, Entity(t.name), c.name)
  <2>1. c \in ToSet(t.columns) /\ IsPlainColumn(t, c)
    BY <1>3, TableAccepted, SearchFiltersAre DEF TableIs, ColumnsAre, IsSearchable
  <2> QED
    BY <2>1, TableField, MemberOfColumn DEF Answers, IsPlainColumn
<1> HIDE DEF f, used
<1> QED
  BY <1>1, <1>2, <1>3, PlainResolves DEF f

LEMMA DtoTypeIs ==
  ASSUME NEW t, NEW type, NEW forRequest
  PROVE  DtoSource(t, type, forRequest).type = type
BY DtoIs

LEMMA FixedFiles ==
  /\ FixedSources[1] \in ToSet(FixedSources) /\ FixedSources[1].type = NotFound
  /\ \A f \in ToSet(FixedSources) :
       f.uses = {} /\ f.imports = {} /\ f.calls = {} /\ f.members = <<>>
<1> DEFINE six == <<NotFound, JavaType("errors", <<"global", "exception", "handler">>),
                    JavaType("resources", <<"application.yml">>),
                    JavaType("project", <<"build.gradle">>),
                    JavaType("project", <<"settings.gradle">>), JavaType("", <<"application">>)>>
<1>1. FixedSources = [i \in 1..6 |-> Source(six[i], <<>>, {}, {}, {})]
  BY DEF FixedSources
<1>2. six[1] = NotFound
  OBVIOUS
<1> HIDE DEF six
<1> QED
  BY <1>1, <1>2 DEF Source, ToSet

LEMMA ResourceDeclared ==
  ASSUME NEW tables, NEW types, NEW files, Generates(tables, types, files),
         NEW t \in ToSet(tables), ~HasInheritance(t)
  PROVE  /\ IsDeclared(Service(t.name), files) /\ IsDeclared(RequestDto(t.name), files)
         /\ IsDeclared(ResponseDto(t.name), files) /\ IsDeclared(NotFound, files)
         /\ SearchFilters(t) # <<>> => IsDeclared(Specs(t.name), files)
         /\ Answers(files, Service(t.name), <<"list">>)
<1>1. /\ ServiceSource(t) \in files /\ DtoSource(t, RequestDto(t.name), TRUE) \in files
      /\ DtoSource(t, ResponseDto(t.name), FALSE) \in files
      /\ SearchFilters(t) # <<>> => SpecificationSource(t) \in files
  BY TableAccepted DEF FilesOf
<1>2. ServiceSource(t).type = Service(t.name) /\ ServiceSource(t).members = <<<<"list">>>>
  BY DEF ServiceSource, Source
<1>3. <<"list">> \in ToSet(<<<<"list">>>>)
  BY DEF ToSet
<1>4. SpecificationSource(t).type = Specs(t.name)
  BY DEF SpecificationSource, Source
<1>6. FixedSources[1] \in files /\ FixedSources[1].type = NotFound
  BY FixedFiles DEF Generates
<1> QED
  BY <1>1, <1>2, <1>3, <1>4, <1>6, DtoTypeIs DEF IsDeclared, Answers

LEMMA ControllerResolves ==
  ASSUME StringFacts, NEW tables, NEW types, NEW files, Generates(tables, types, files),
         NEW t \in ToSet(tables), ~HasInheritance(t)
  PROVE  Resolves(ControllerSource(t), files)
<1> DEFINE f == ControllerSource(t)
           web == Web({"RestController", "RequestMapping", "PostMapping", "GetMapping", "PutMapping",
                       "DeleteMapping", "PathVariable", "RequestBody", "ResponseStatus"})
           own == {Service(t.name), RequestDto(t.name), ResponseDto(t.name)}
           param == IF SearchFilters(t) = <<>> THEN {} ELSE Web({"RequestParam"})
           used == web \cup Framework("org.springframework.http", {"HttpStatus"})
                     \cup Paging({"Page", "Pageable"}) \cup Framework("jakarta.validation", {"Valid"})
                     \cup Util({"UUID"}) \cup own \cup param \cup FilterTypes(t)
<1>1. /\ f.uses = used /\ f.imports = {x \in used : NeedsImport(x)}
      /\ f.calls = {<<Service(t.name), <<"list">>>>}
  BY DEF ControllerSource, Source
<1>2. \A x \in web \cup param : IsDeclared(x, files)
  BY OutsideDeclared DEF Web, Outside
<1>3. \A x \in own \cup FilterTypes(t) : IsDeclared(x, files)
  BY ResourceDeclared, OwnDeclared
<1>4. \A x \in used : IsDeclared(x, files)
  <2> HIDE DEF web, param, own
  <2> QED
    BY <1>2, <1>3, OutsideDeclared DEF Paging, Util, Outside, JavaPackages
<1> HIDE DEF f, used
<1> QED
  BY <1>1, <1>4, ResourceDeclared, PlainResolves DEF f

(* What a service calls, on its entity, its DTOs, the entities it refers   *)
(* to and its repository.                                                  *)
LEMMA ServiceAnswered ==
  ASSUME StringFacts, NEW tables, NEW types, NEW files, Generates(tables, types, files),
         NEW t \in ToSet(tables), ~HasInheritance(t), NEW call \in ServiceCalls(t)
  PROVE  Answers(files, call[1], call[2])
<1>1. /\ DtoSource(t, RequestDto(t.name), TRUE) \in files
      /\ DtoSource(t, ResponseDto(t.name), FALSE) \in files
      /\ DtoSource(t, RequestDto(t.name), TRUE).type = RequestDto(t.name)
      /\ DtoSource(t, ResponseDto(t.name), FALSE).type = ResponseDto(t.name)
  BY TableAccepted, DtoTypeIs DEF FilesOf
<1>7. ASSUME NEW c \in ToSet(t.columns)
      PROVE  /\ c.name \in ToSet(DtoSource(t, ResponseDto(t.name), FALSE).members)
             /\ ~IsPk(c) => c.name \in ToSet(DtoSource(t, RequestDto(t.name), TRUE).members)
  BY DtoResolves
<1>2. CASE \E c \in ToSet(t.columns) : call = <<Entity(t.name), EntityField(t, c).member>>
  BY <1>2, TableField DEF Answers
<1>3. CASE \E c \in ToSet(t.columns) : call = <<ResponseDto(t.name), c.name>>
  <2>1. PICK c \in ToSet(t.columns) : call = <<ResponseDto(t.name), c.name>>
    BY <1>3
  <2> QED
    BY <1>1, <1>7, <2>1 DEF Answers
<1>4. CASE \E c \in ToSet(t.columns) : ~IsPk(c) /\ call = <<RequestDto(t.name), c.name>>
  <2>1. PICK c \in ToSet(t.columns) : ~IsPk(c) /\ call = <<RequestDto(t.name), c.name>>
    BY <1>4
  <2> QED
    BY <1>1, <1>7, <2>1 DEF Answers
<1>5. CASE \E c \in ToSet(t.columns) :
             IsFk(t, c) /\ call = <<Entity(t.fks[FkOf(t, c)].table), Id>>
  BY <1>5, TableAccepted, KeyOfColumn, ReferenceDeclared DEF IsFk, TableIs
<1>6. CASE /\ SearchFilters(t) # <<>>
           /\ call = <<Repository(t.name), <<"find", "by", "specification">>>>
  <2>2. RepositorySource(t) \in files
    BY TableAccepted DEF FilesOf
  <2> QED
    BY <1>6, <2>2 DEF Answers, RepositorySource, Source, HasSpecificationExecutor, ToSet
<1> QED
  BY <1>2, <1>3, <1>4, <1>5, <1>6 DEF ServiceCalls

LEMMA ServiceResolves ==
  ASSUME StringFacts, NEW tables, NEW types, NEW files, Generates(tables, types, files),
         NEW t \in ToSet(tables), ~HasInheritance(t)
  PROVE  Resolves(ServiceSource(t), files)
<1> DEFINE f == ServiceSource(t)
           filtered == SearchFilters(t) # <<>>
           listed == (IF filtered THEN Framework("org.springframework.data.jpa.domain", {"Specification"})
                      ELSE {})
                     \cup (IF NeedsSortValidation(t) THEN Paging({"Sort"}) \cup Util({"Set"}) ELSE {})
                     \cup (IF HasDefaultSort(t) THEN Paging({"PageRequest"}) ELSE {})
           fixed == ServiceFixedTypes(t)
           common == fixed \cup Dependencies(t) \cup listed
           specs == IF filtered THEN {Specs(t.name)} ELSE {}
           used == common \cup FilterTypes(t) \cup specs
<1>1. /\ f.uses = used /\ f.imports = {x \in common : NeedsImport(x)}
      /\ f.calls = ServiceCalls(t) /\ f.type = Service(t.name)
  BY DEF ServiceSource, Source
<1>2. \A x \in listed : IsDeclared(x, files)
  BY OutsideDeclared DEF Paging, Util, Outside, JavaPackages
<1>3. \A x \in fixed : IsDeclared(x, files)
  BY OutsideDeclared, ResourceDeclared, OwnDeclared
  DEF ServiceFixedTypes, Paging, Util, Outside, JavaPackages
<1>4. \A x \in Dependencies(t) : IsDeclared(x, files)
  BY TableAccepted, ReferenceDeclared DEF Dependencies, IsDeclared
<1>5. \A x \in FilterTypes(t) : IsDeclared(x, files) /\ (x = BigDecimal \/ ~NeedsImport(x))
  <2>2. \A c \in ToSet(SearchFilters(t)) : IsSupportedType(c.type)
    BY SearchFiltersAre, TableAccepted DEF IsSearchable, IsPlainColumn, TableIs, ColumnsAre
  <2> QED
    BY <2>2, JavaTypes, OwnDeclared DEF FilterTypes, NeedsImport
<1>6. \A x \in specs : IsDeclared(x, files) /\ x.pkg = Service(t.name).pkg
  <2>1. Specs(t.name).pkg = Service(t.name).pkg
    BY DEF Specs, Service, JavaType
  <2> QED
    BY <2>1, ResourceDeclared
<1>7. f.type.name # <<>> /\ Last(f.type.name) = "service"
  <2>1. t.name \in Seq(Word)
    BY TableAccepted DEF TableIs
  <2>2. f.type.name = t.name \o <<"service">>
    BY <1>1 DEF Service, JavaType
  <2> HIDE DEF f
  <2> QED
    BY <2>1, <2>2 DEF Last
<1> HIDE DEF f, fixed, listed, specs
<1>8. \A x \in used : IsDeclared(x, files)
  BY <1>2, <1>3, <1>4, <1>5, <1>6
<1>9. \A x \in used : x \in common \/ ~NeedsImport(x) \/ x.pkg = f.type.pkg \/ x \in {BigDecimal}
  BY <1>1, <1>5, <1>6
<1>10. f.imports \subseteq used
  BY <1>1
<1>11. Unimported(f) \subseteq {BigDecimal}
  <2> HIDE DEF common, used
  <2> QED
    BY <1>1, <1>9 DEF Unimported
<1> HIDE DEF used
<1> QED
  BY <1>1, <1>7, <1>8, <1>10, <1>11, ServiceAnswered DEF Resolves, f

LEMMA FilesResolve ==
  ASSUME StringFacts, NEW tables, NEW types, NEW files, Generates(tables, types, files),
         NEW f \in files
  PROVE  Resolves(f, files)
<1>1. CASE \E e \in ToSet(types) : f = EnumSource(e)
  BY <1>1, PlainResolves DEF EnumSource, Source
<1>2. CASE f \in ToSet(FixedSources)
  BY <1>2, FixedFiles, PlainResolves
<1>3. CASE \E t \in ToSet(tables) : f \in FilesOf(t)
  BY <1>3, TreeResolves, RepositoryResolves, EntityResolves, DtoResolves, ServiceResolves,
     ControllerResolves, SpecificationResolves DEF FilesOf
<1> QED
  BY <1>1, <1>2, <1>3 DEF Generates

(* The members of a file have different names.                             *)
LEMMA ByFrontAndLast ==
  ASSUME NEW S, NEW s \in Seq(S), NEW u \in Seq(S), Len(s) > 1, Len(u) > 1,
         Front(s) = Front(u), Last(s) = Last(u)
  PROVE  s = u
<1>1. /\ Len(Front(s)) = Len(s) - 1 /\ \A i \in 1..(Len(s) - 1) : Front(s)[i] = s[i]
      /\ Len(Front(u)) = Len(u) - 1 /\ \A i \in 1..(Len(u) - 1) : Front(u)[i] = u[i]
      /\ Last(s) = s[Len(s)] /\ Last(u) = u[Len(u)]
  BY DEF Front, Last
<1>2. Len(s) = Len(u)
  BY <1>1
<1>3. \A i \in 1..Len(s) : s[i] = u[i]
  <2> TAKE i \in 1..Len(s)
  <2>1. CASE i = Len(s)
    BY <1>1, <1>2, <2>1
  <2>2. CASE i # Len(s)
    BY <1>1, <1>2, <2>2
  <2> QED
    BY <2>1, <2>2
<1> QED
  BY <1>2, <1>3

LEMMA OnlyDistinct ==
  ASSUME NEW S, NEW seq \in Seq(S), DistinctNames(seq), NEW kept
  PROVE  DistinctNames(Only(seq, kept)) /\ ToSet(Only(seq, kept)) \subseteq ToSet(seq)
<1> DEFINE part == Only(seq, kept)
<1>1. part \in Seq(S) /\ ToSet(part) = ToSet(seq) \cap kept
  BY OnlyPicks
<1>2. PICK at : Picks(part, seq, at)
  BY OnlyPicks
<1> HIDE DEF part
<1>3. ASSUME NEW i \in DOMAIN part, NEW j \in DOMAIN part, part[i].name = part[j].name
      PROVE  i = j
  <2>1. i \in 1..Len(part) /\ j \in 1..Len(part) /\ Len(part) \in Nat /\ Len(seq) \in Nat
    BY <1>1
  <2>2. /\ at[i] \in DOMAIN seq /\ at[j] \in DOMAIN seq
        /\ part[i] = seq[at[i]] /\ part[j] = seq[at[j]]
    BY <1>2, <2>1 DEF Picks
  <2>3. at[i] = at[j]
    BY <1>3, <2>2 DEF DistinctNames, IsInjective
  <2> QED
    BY <1>2, <2>1, <2>3, PicksApart
<1> QED
  BY <1>1, <1>3 DEF DistinctNames, IsInjective, part

(* Unless a column is named like the field of a key, no two columns have   *)
(* fields of one name.                                                     *)
LEMMA FieldsApart ==
  ASSUME NEW types, NEW t, TableIs(t, types), ~NamedLikeAKey(t),
         NEW c \in ToSet(t.columns), NEW d \in ToSet(t.columns),
         EntityField(t, c).member = EntityField(t, d).member
  PROVE  c.name = d.name
<1>1. ASSUME NEW x \in ToSet(t.columns), IsFk(t, x)
      PROVE  /\ RelationshipBaseName(x.name) \notin ColumnNames(t.columns)
             /\ Len(x.name) > 1 /\ Last(x.name) = "id"
             /\ RelationshipBaseName(x.name) = Front(x.name)
  <2>1. PICK k \in ToSet(t.fks) : k.column = x.name
    BY <1>1, KeyOfColumn DEF IsFk, TableIs
  <2> QED
    BY <2>1 DEF RelationshipBaseName, NamedLikeAKey, ColumnNames, ToSet
<1>2. /\ c.name \in ColumnNames(t.columns) /\ d.name \in ColumnNames(t.columns)
      /\ c.name \in Seq(Word) /\ d.name \in Seq(Word)
  BY DEF ColumnNames, ToSet, TableIs, ColumnsAre
<1>3. CASE IsFk(t, c) /\ IsFk(t, d)
  BY <1>1, <1>3, <1>2, MemberOfColumn, ByFrontAndLast
<1> QED
  BY <1>1, <1>2, <1>3, MemberOfColumn

LEMMA EntityMembersApart ==
  ASSUME NEW types, NEW t, TableIs(t, types), ~NamedLikeAKey(t),
         NEW columns, DistinctNames(columns), ToSet(columns) \subseteq ToSet(t.columns)
  PROVE  IsInjective(Members(EntityFields(t, columns)))
<1> DEFINE members == Members(EntityFields(t, columns))
<1>1. /\ DOMAIN members = DOMAIN columns
      /\ \A i \in DOMAIN columns : members[i] = EntityField(t, columns[i]).member
  BY DEF EntityFields, Members
<1> HIDE DEF members
<1>2. ASSUME NEW i \in DOMAIN columns, NEW j \in DOMAIN columns, members[i] = members[j]
      PROVE  i = j
  <2>1. columns[i] \in ToSet(t.columns) /\ columns[j] \in ToSet(t.columns)
    BY DEF ToSet
  <2> QED
    BY <1>1, <1>2, <2>1, FieldsApart DEF DistinctNames, IsInjective
<1> QED
  BY <1>1, <1>2 DEF IsInjective, members

LEMMA DtoMembersApart ==
  ASSUME NEW types, NEW t, TableIs(t, types), NEW type, NEW forRequest \in BOOLEAN
  PROVE  IsInjective(DtoSource(t, type, forRequest).members)
<1> DEFINE columns == DtoColumns(t, forRequest)
           fields == [i \in DOMAIN columns |-> DtoField(columns[i], forRequest)]
<1>1. DistinctNames(columns)
  <2>1. t.columns \in Seq(ToSet(t.columns)) /\ DistinctNames(t.columns)
    BY DEF TableIs, ColumnsAre
  <2>2. columns = IF forRequest THEN Only(t.columns, {c \in ToSet(t.columns) : ~IsPk(c)})
                  ELSE t.columns
    BY DEF DtoColumns, Filter
  <2> HIDE DEF columns
  <2> QED
    BY <2>1, <2>2, OnlyDistinct
<1>2. DtoSource(t, type, forRequest).members = Members(fields)
  BY DEF DtoSource, Source, DtoColumns
<1>3. DOMAIN fields = DOMAIN columns /\ \A i \in DOMAIN columns : fields[i].member = columns[i].name
  BY DEF DtoField, Field
<1> HIDE DEF fields, columns
<1> QED
  BY <1>1, <1>2, <1>3 DEF DistinctNames, IsInjective, Members

LEMMA MembersApart ==
  ASSUME NEW tables, NEW types, NEW files, Generates(tables, types, files),
         \A t \in ToSet(tables) : ~NamedLikeAKey(t), NEW f \in files
  PROVE  IsInjective(f.members)
<1>1. \A m : IsInjective(<<>>) /\ IsInjective(<<m>>)
  BY DEF IsInjective
<1>2. ASSUME NEW e \in ToSet(types)
      PROVE  IsInjective(EnumSource(e).members)
  BY DEF Generates, EnumRefusal, EnumSource, Source
<1>3. \A g \in ToSet(FixedSources) : IsInjective(g.members)
  BY <1>1, FixedFiles
<1>4. ASSUME NEW t \in ToSet(tables), NEW g \in FilesOf(t)
      PROVE  IsInjective(g.members)
  <2>1. TableIs(t, types) /\ ~NamedLikeAKey(t)
    BY TableAccepted
  <2>2. t.columns \in Seq(ToSet(t.columns)) /\ DistinctNames(t.columns)
    BY <2>1 DEF TableIs, ColumnsAre
  <2>3. IsInjective(EntitySource(t).members)
    BY <2>1, <2>2, EntityMembersApart, EntityIs
  <2>4. ASSUME NEW k
        PROVE  IsInjective(InheritanceSource(t, k).members)
    <3> DEFINE columns == Only(t.columns, {c \in ToSet(t.columns) : OwnedBy(t, k, c)})
    <3>1. InheritanceSource(t, k).members = Members(EntityFields(t, columns))
      BY InheritanceIs DEF Filter
    <3>2. DistinctNames(columns) /\ ToSet(columns) \subseteq ToSet(t.columns)
      BY <2>2, OnlyDistinct
    <3> HIDE DEF columns
    <3> QED
      BY <2>1, <3>1, <3>2, EntityMembersApart
  <2>6. /\ IsInjective(RepositorySource(t).members) /\ IsInjective(ServiceSource(t).members)
        /\ IsInjective(ControllerSource(t).members) /\ IsInjective(SpecificationSource(t).members)
    BY <1>1 DEF RepositorySource, ServiceSource, ControllerSource, SpecificationSource, Source
  <2> QED
    BY <1>4, <2>3, <2>4, <2>6, <2>1, DtoMembersApart DEF FilesOf
<1> QED
  BY <1>2, <1>3, <1>4 DEF Generates

(* The files of a project fit together, whatever schema it is of.          *)
THEOREM FilesFitTogether ==
  ASSUME StringFacts, NEW tables, NEW types, NEW files, Generates(tables, types, files)
  PROVE  FitTogether(files, ToSet(tables))
<1> DEFINE declared == {f.type : f \in files}
           members(type) == UNION {ToSet(f.members) : f \in {g \in files : g.type = type}}
<1>1. ASSUME NEW f \in files
      PROVE  /\ \A t \in f.uses \cup f.imports : t.pkg \in OwnPackages => t \in declared
             /\ \A call \in f.calls : call[2] \in members(call[1])
             /\ Unimported(f) \subseteq (IF f.type.name # <<>> /\ Last(f.type.name) = "service"
                                         THEN {BigDecimal} ELSE {})
  BY FilesResolve DEF Resolves, IsDeclared, Answers
<1> QED
  BY <1>1, MembersApart DEF FitTogether
=============================================================================
