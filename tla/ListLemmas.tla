----------------------------- MODULE ListLemmas -----------------------------
(***************************************************************************)
(* What the proofs need to know of loops and lists.                        *)
(*                                                                         *)
(* Induction over the natural numbers is stated with sets, and so is what  *)
(* it says of a function on 0..n that is defined from each number to the   *)
(* next: loops over a list are written that way in Battle, Selection and   *)
(* WebPage.  The rest is about how often members of a set occur in a list, *)
(* or in two.                                                              *)
(***************************************************************************)
EXTENDS Lists, Naturals, Sequences, WellFoundedInduction, NaturalsInduction, SequenceTheorems, TLAPS

-----------------------------------------------------------------------------
(* Numbers and loops *)

\* A set of natural numbers has a least element.
LEMMA Least ==
  ASSUME NEW T, T \subseteq Nat, T # {}
  PROVE  \E x \in T : \A y \in T : x <= y
<1> DEFINE R == OpToRel(<, Nat)
<1>1. IsWellFoundedOn(R, Nat)
  BY NatLessThanWellFounded
<1>2. PICK x \in T : \A y \in Nat : <<y, x>> \in R => y \notin T
  <2> HIDE DEF R
  <2> QED
    BY <1>1, WFMin
<1>3. ASSUME NEW y \in T PROVE x <= y
  <2>1. x \in Nat /\ y \in Nat
    OBVIOUS
  <2>2. y < x => <<y, x>> \in R
    BY <2>1, Zenon DEF OpToRel
  <2>3. ~(y < x)
    BY <1>2, <2>1, <2>2
  <2> QED
    BY <2>1, <2>3
<1> QED
  BY <1>3

\* Numbers that are bounded have a greatest one, or there are none.
LEMMA Greatest ==
  ASSUME NEW S, S \subseteq Nat, S # {}, NEW b \in Nat, \A x \in S : x <= b
  PROVE  \E m \in S : \A x \in S : m >= x
<1> DEFINE U == {u \in Nat : \A x \in S : x <= u}
<1>1. b \in U /\ U \subseteq Nat /\ U # {}
  OBVIOUS
<1>2. PICK m \in U : \A u \in U : m <= u
  <2> HIDE DEF U
  <2> QED
    BY <1>1, Least
<1>3. m \in S
  <2> SUFFICES ASSUME m \notin S PROVE FALSE
    OBVIOUS
  <2>1. \A x \in S : x <= m /\ x # m /\ x \in Nat /\ m \in Nat
    BY <1>2
  <2>2. m \in Nat /\ m # 0
    <3>1. PICK y \in S : TRUE
      OBVIOUS
    <3>2. y \in Nat /\ y <= m /\ y # m /\ m \in Nat
      BY <2>1
    <3> QED
      BY <3>2
  <2>3. m - 1 \in U
    BY <2>1, <2>2
  <2>4. ~(m <= m - 1)
    BY <2>2
  <2> QED
    BY <1>2, <2>3, <2>4
<1> QED
  BY <1>2, <1>3

\* What holds at the start of a loop, and after a turn if it held before, holds at
\* every turn.
LEMMA LoopInduction ==
  ASSUME NEW n \in Nat, NEW T, 0 \in T, \A i \in 1..n : i - 1 \in T => i \in T
  PROVE  0..n \subseteq T
<1> SUFFICES ASSUME (0..n) \ T # {} PROVE FALSE
  OBVIOUS
<1>1. PICK x \in (0..n) \ T : \A y \in (0..n) \ T : x <= y
  <2> DEFINE M == (0..n) \ T
  <2>1. M \subseteq Nat /\ M # {}
    OBVIOUS
  <2>2. \E x \in M : \A y \in M : x <= y
    <3> HIDE DEF M
    <3> QED
      BY <2>1, Least
  <2> QED
    BY <2>2
<1>2. x \in 1..n /\ x - 1 \in 0..n /\ ~(x <= x - 1)
  BY <1>1
<1>3. x - 1 \in T
  BY <1>1, <1>2
<1> QED
  BY <1>1, <1>2, <1>3

\* f has what n turns of a loop make of base, turn i making step[<<i, x>>] of x.
Computes(f, n, base, step) == f[0] = base /\ \A i \in 1..n : f[i] = step[<<i, f[i - 1]>>]

\* Every loop computes something.
LEMMA LoopComputes ==
  ASSUME NEW n \in Nat, NEW S, NEW base \in S, NEW step \in [(1..n) \X S -> S]
  PROVE  \E f \in [0..n -> S] : Computes(f, n, base, step)
<1> DEFINE Upto(k, f) == f[0] = base /\ \A i \in 1..k : f[i] = step[<<i, f[i - 1]>>]
           T == {k \in 0..n : \E f \in [0..k -> S] : Upto(k, f)}
<1>1. 0 \in T
  <2> DEFINE f == [i \in 0..0 |-> base]
  <2>1. f \in [0..0 -> S] /\ \A i \in 0..0 : i = 0
    OBVIOUS
  <2>2. Upto(0, f)
    BY <2>1
  <2>3. 0 \in 0..n
    OBVIOUS
  <2> HIDE DEF f, Upto
  <2> QED
    BY <2>1, <2>2, <2>3
<1>2. ASSUME NEW k \in 1..n, k - 1 \in T PROVE k \in T
  <2>1. PICK f \in [0..(k - 1) -> S] : Upto(k - 1, f)
    BY <1>2
  <2> DEFINE g == [i \in 0..k |-> IF i = k THEN step[<<k, f[k - 1]>>] ELSE f[i]]
  <2>2. k - 1 \in 0..(k - 1) /\ \A i \in 0..k : i = k \/ i \in 0..(k - 1)
    OBVIOUS
  <2>3. f[k - 1] \in S
    BY <2>1, <2>2
  <2>4. step[<<k, f[k - 1]>>] \in S
    BY <2>3
  <2>5. g \in [0..k -> S]
    BY <2>2, <2>4
  <2>6. ASSUME NEW i \in 1..k PROVE g[i] = step[<<i, g[i - 1]>>]
    <3>1. CASE i = k
      <4>1. k - 1 \in 0..k /\ k - 1 # k
        OBVIOUS
      <4>2. g[k - 1] = f[k - 1]
        BY <4>1
      <4>3. g[k] = step[<<k, f[k - 1]>>]
        OBVIOUS
      <4> HIDE DEF g
      <4> QED
        BY <3>1, <4>2, <4>3
    <3>2. CASE i # k
      <4>1. i \in 1..(k - 1) /\ i - 1 \in 0..k /\ i - 1 # k
        BY <3>2
      <4>2. g[i] = f[i] /\ g[i - 1] = f[i - 1]
        BY <3>2, <4>1
      <4> QED
        BY <2>1, <4>1, <4>2
    <3> QED
      BY <3>1, <3>2
  <2>7. Upto(k, g)
    <3>1. 0 \in 0..k /\ 0 # k
      OBVIOUS
    <3>2. g[0] = base
      BY <2>1, <3>1
    <3> QED
      BY <2>6, <3>2
  <2>8. k \in 0..n
    OBVIOUS
  <2> HIDE DEF g, Upto
  <2> QED
    BY <2>5, <2>7, <2>8
<1>3. n \in T
  <2> HIDE DEF T
  <2>1. n \in 0..n
    OBVIOUS
  <2> QED
    BY <1>1, <1>2, <2>1, LoopInduction
<1> QED
  BY <1>3 DEF Computes

\* g does so too as long as it stays in S.
Computing(g, n, S, base, step) ==
  g[0] = base /\ \A i \in 1..n : g[i - 1] \in S => g[i] = step[<<i, g[i - 1]>>]

\* ... and nothing else.
LEMMA LoopAgrees ==
  ASSUME NEW n \in Nat, NEW S, NEW base, NEW step, NEW f \in [0..n -> S],
         Computes(f, n, base, step),
         NEW g, Computing(g, n, S, base, step)
  PROVE  \A i \in 0..n : g[i] = f[i]
<1> DEFINE T == {i \in 0..n : g[i] = f[i]}
<1>1. 0 \in T
  BY DEF Computes, Computing
<1>2. ASSUME NEW i \in 1..n, i - 1 \in T PROVE i \in T
  <2>1. i \in 0..n /\ i - 1 \in 0..n
    OBVIOUS
  <2>2. g[i - 1] = f[i - 1] /\ f[i - 1] \in S
    BY <1>2, <2>1
  <2> QED
    BY <2>1, <2>2 DEF Computes, Computing
<1>3. 0..n \subseteq T
  <2> HIDE DEF T
  <2> QED
    BY <1>1, <1>2, LoopInduction
<1> QED
  BY <1>3

-----------------------------------------------------------------------------
(* How often members of a set occur in a list *)

\* Some entry of a set is in a list.
Occurs(seq, K) == \E i \in 1..Len(seq) : seq[i] \in K

\* At most one entry of a set is in a list.
Once(seq, K) == \A i, j \in 1..Len(seq) : seq[i] \in K /\ seq[j] \in K => i = j

\* One is added.
LEMMA OccursAppend ==
  ASSUME NEW S, NEW s \in Seq(S), NEW e \in S, NEW K
  PROVE  /\ Occurs(Append(s, e), K) <=> Occurs(s, K) \/ e \in K
         /\ Once(s, K) /\ ~(Occurs(s, K) /\ e \in K) => Once(Append(s, e), K)
<1> DEFINE t == Append(s, e)
<1>1. /\ Len(s) \in Nat /\ Len(t) = Len(s) + 1
      /\ \A i \in 1..Len(s) : t[i] = s[i]
      /\ t[Len(s) + 1] = e
  BY AppendProperties
<1> HIDE DEF t
<1>2. \A i \in 1..Len(t) : i = Len(s) + 1 \/ i \in 1..Len(s)
  BY <1>1
<1>3. 1..Len(s) \subseteq 1..Len(t) /\ Len(s) + 1 \in 1..Len(t)
  BY <1>1
<1>4. Occurs(t, K) <=> Occurs(s, K) \/ e \in K
  BY <1>1, <1>2, <1>3 DEF Occurs
<1>5. ASSUME Once(s, K), ~(Occurs(s, K) /\ e \in K) PROVE Once(t, K)
  BY <1>1, <1>2, <1>5 DEF Occurs, Once
<1> QED
  BY <1>4, <1>5 DEF t

\* The first one, and the others
LEMMA OccursTail ==
  ASSUME NEW S, NEW s \in Seq(S), s # <<>>, NEW K
  PROVE  /\ Occurs(s, K) <=> Occurs(Tail(s), K) \/ Head(s) \in K
         /\ Once(s, K) => Once(Tail(s), K) /\ ~(Occurs(Tail(s), K) /\ Head(s) \in K)
<1> DEFINE t == Tail(s)
<1>1. /\ Len(s) \in Nat \ {0} /\ Len(t) = Len(s) - 1
      /\ \A i \in 1..Len(t) : t[i] = s[i + 1]
      /\ Head(s) = s[1]
  BY HeadTailProperties, EmptySeq, LenProperties
<1> HIDE DEF t
<1>2. \A i \in 1..Len(s) : i = 1 \/ i - 1 \in 1..Len(t)
  BY <1>1
<1>3. \A i \in 1..Len(t) : i + 1 \in 1..Len(s) /\ i + 1 # 1
  BY <1>1
<1>4. \A i \in 1..Len(s) : i # 1 => t[i - 1] = s[i]
  BY <1>1, <1>2
<1>5. 1 \in 1..Len(s)
  BY <1>1
<1>6. Occurs(s, K) => Occurs(t, K) \/ Head(s) \in K
  BY <1>1, <1>2, <1>4 DEF Occurs
<1>7. Occurs(t, K) \/ Head(s) \in K => Occurs(s, K)
  BY <1>1, <1>3, <1>5 DEF Occurs
<1>8. ASSUME Once(s, K) PROVE Once(t, K) /\ ~(Occurs(t, K) /\ Head(s) \in K)
  <2>1. Once(t, K)
    <3> SUFFICES ASSUME NEW i \in 1..Len(t), NEW j \in 1..Len(t), t[i] \in K, t[j] \in K
                 PROVE  i = j
      BY DEF Once
    <3>1. s[i + 1] \in K /\ s[j + 1] \in K
      BY <1>1
    <3>2. i + 1 = j + 1
      BY <1>3, <1>8, <3>1 DEF Once
    <3> QED
      BY <3>2
  <2>2. ~(Occurs(t, K) /\ Head(s) \in K)
    BY <1>1, <1>3, <1>5, <1>8 DEF Occurs, Once
  <2> QED
    BY <2>1, <2>2
<1> QED
  BY <1>6, <1>7, <1>8 DEF t

\* Several are added.
LEMMA OccursConcat ==
  ASSUME NEW S, NEW seq \in Seq(S), NEW more \in Seq(S), NEW K
  PROVE  Occurs(seq \o more, K) <=> Occurs(seq, K) \/ Occurs(more, K)
<1> DEFINE t == seq \o more
<1>1. /\ Len(seq) \in Nat /\ Len(more) \in Nat /\ Len(t) = Len(seq) + Len(more)
      /\ \A i \in 1..(Len(seq) + Len(more)) :
           t[i] = IF i <= Len(seq) THEN seq[i] ELSE more[i - Len(seq)]
  BY ConcatProperties, LenProperties
<1> HIDE DEF t
<1>2. \A i \in 1..Len(t) : i \in 1..Len(seq) \/ (~(i <= Len(seq)) /\ i - Len(seq) \in 1..Len(more))
  BY <1>1
<1>3. \A i \in 1..Len(seq) : i \in 1..Len(t) /\ t[i] = seq[i]
  BY <1>1
<1>4. \A i \in 1..Len(more) : Len(seq) + i \in 1..Len(t) /\ t[Len(seq) + i] = more[i]
  BY <1>1
<1>5. \A i \in 1..Len(t) : ~(i <= Len(seq)) => t[i] = more[i - Len(seq)]
  BY <1>1
<1> QED
  BY <1>2, <1>3, <1>4, <1>5 DEF Occurs, t

-----------------------------------------------------------------------------
(* Two lists *)

\* An entry of a set is in one of the lists.
Listed(d, t, K) == Occurs(d, K) \/ Occurs(t, K)

\* No two are.
Single(d, t, K) == Once(d, K) /\ Once(t, K) /\ ~(Occurs(d, K) /\ Occurs(t, K))

\* An entry is added behind the others.
LEMMA AddOne ==
  ASSUME NEW S, NEW d \in Seq(S), NEW t, NEW e \in S, NEW K, Single(d, t, K),
         ~(Listed(d, t, K) /\ e \in K)
  PROVE  /\ Single(Append(d, e), t, K)
         /\ Listed(Append(d, e), t, K) <=> Listed(d, t, K) \/ e \in K
<1>1. /\ Occurs(Append(d, e), K) <=> Occurs(d, K) \/ e \in K
      /\ Once(d, K) /\ ~(Occurs(d, K) /\ e \in K) => Once(Append(d, e), K)
  BY OccursAppend
<1> QED
  BY <1>1 DEF Single, Listed

\* The first entry of the second list goes.
LEMMA LoseOne ==
  ASSUME NEW S, NEW d, NEW t \in Seq(S), t # <<>>, NEW K, Single(d, t, K)
  PROVE  /\ Single(d, Tail(t), K)
         /\ Listed(d, Tail(t), K) <=> Listed(d, t, K) /\ Head(t) \notin K
<1>1. /\ Occurs(t, K) <=> Occurs(Tail(t), K) \/ Head(t) \in K
      /\ Once(t, K) => Once(Tail(t), K) /\ ~(Occurs(Tail(t), K) /\ Head(t) \in K)
  BY OccursTail
<1> QED
  BY <1>1 DEF Single, Listed

\* It goes to the end of the first list, perhaps changed.
LEMMA MoveOne ==
  ASSUME NEW S, NEW d \in Seq(S), NEW t \in Seq(S), t # <<>>, NEW e \in S, NEW K,
         Single(d, t, K), e \in K <=> Head(t) \in K
  PROVE  /\ Single(Append(d, e), Tail(t), K)
         /\ Listed(Append(d, e), Tail(t), K) <=> Listed(d, t, K)
<1>1. /\ Single(d, Tail(t), K)
      /\ Listed(d, Tail(t), K) <=> Listed(d, t, K) /\ Head(t) \notin K
  BY LoseOne
<1>2. /\ Single(Append(d, e), Tail(t), K)
      /\ Listed(Append(d, e), Tail(t), K) <=> Listed(d, Tail(t), K) \/ e \in K
  BY <1>1, AddOne
<1>3. Head(t) \in K => Listed(d, t, K)
  <2>1. Occurs(t, K) <=> Occurs(Tail(t), K) \/ Head(t) \in K
    BY OccursTail
  <2> QED
    BY <2>1 DEF Listed
<1> QED
  BY <1>1, <1>2, <1>3

\* Nothing depends on which list comes first.
LEMMA EitherFirst ==
  ASSUME NEW d, NEW t, NEW K
  PROVE  (Single(d, t, K) <=> Single(t, d, K)) /\ (Listed(d, t, K) <=> Listed(t, d, K))
BY DEF Single, Listed

\* What is listed of a smaller set
LEMMA ListedLess ==
  ASSUME NEW d, NEW t, NEW K, NEW L, L \subseteq K
  PROVE  (Single(d, t, K) => Single(d, t, L)) /\ (Listed(d, t, L) => Listed(d, t, K))
BY DEF Single, Listed, Once, Occurs

\* The same with the lists the other way round
LEMMA AddOther ==
  ASSUME NEW S, NEW d, NEW t \in Seq(S), NEW e \in S, NEW K, Single(d, t, K),
         ~(Listed(d, t, K) /\ e \in K)
  PROVE  /\ Single(d, Append(t, e), K)
         /\ Listed(d, Append(t, e), K) <=> Listed(d, t, K) \/ e \in K
BY EitherFirst, AddOne

\* and of the first list
LEMMA LoseOther ==
  ASSUME NEW S, NEW d \in Seq(S), d # <<>>, NEW t, NEW K, Single(d, t, K)
  PROVE  /\ Single(Tail(d), t, K)
         /\ Listed(Tail(d), t, K) <=> Listed(d, t, K) /\ Head(d) \notin K
BY EitherFirst, LoseOne

-----------------------------------------------------------------------------
(* Short lists *)

\* A second entry
LEMMA AppendToOne ==
  ASSUME NEW a, NEW b
  PROVE  Append(<<a>>, b) = <<a, b>>
<1> DEFINE S == {a, b}
           q == Append(<<a>>, b)
           r == <<a, b>>
<1>1. <<a>> \in Seq(S) /\ Len(<<a>>) = 1 /\ <<a>>[1] = a
  OBVIOUS
<1>2. r \in Seq(S) /\ Len(r) = 2 /\ r[1] = a /\ r[2] = b
  OBVIOUS
<1>3. q \in Seq(S) /\ Len(q) = 2 /\ q[1] = a /\ q[2] = b
  BY <1>1, AppendProperties
<1> HIDE DEF q, r
<1>4. \A i \in 1..2 : i = 1 \/ i = 2
  OBVIOUS
<1>5. \A i \in 1..Len(q) : q[i] = r[i]
  BY <1>2, <1>3, <1>4
<1>6. q = r
  BY <1>2, <1>3, <1>5, SeqEqual
<1> QED
  BY <1>6 DEF q, r

\* The beginnings of a list of two
LEMMA PartsOfTwo ==
  ASSUME NEW a, NEW b
  PROVE  /\ SubSeq(<<a, b>>, 1, 0) = <<>>
         /\ SubSeq(<<a, b>>, 1, 1) = <<a>>
         /\ SubSeq(<<a, b>>, 1, 2) = <<a, b>>
<1> DEFINE S == {a, b}
           r == <<a, b>>
           o == <<a>>
           p == SubSeq(r, 1, 1)
           q == SubSeq(r, 1, 2)
<1>1. r \in Seq(S) /\ Len(r) = 2 /\ r[1] = a /\ r[2] = b /\ o \in Seq(S) /\ Len(o) = 1 /\ o[1] = a
  OBVIOUS
<1> HIDE DEF r, o
<1>2. \A i \in 1..2 : i = 1 \/ i = 2
  OBVIOUS
<1>3. \A i \in 1..2 : r[i] \in S
  BY <1>1, <1>2
<1>4. p \in Seq(S) /\ Len(p) = 1 /\ p[1] = a
  BY <1>1, <1>3, SubSeqProperties
<1>5. q \in Seq(S) /\ Len(q) = 2 /\ q[1] = a /\ q[2] = b
  BY <1>1, <1>3, SubSeqProperties
<1>6. SubSeq(r, 1, 0) = <<>>
  BY SubSeqEmpty
<1> HIDE DEF p, q
<1>7. \A i \in 1..1 : p[i] = o[i]
  BY <1>1, <1>4
<1>8. \A i \in 1..2 : q[i] = r[i]
  BY <1>1, <1>2, <1>5
<1>9. p = o /\ q = r
  BY <1>1, <1>4, <1>5, <1>7, <1>8, SeqEqual
<1> QED
  BY <1>6, <1>9 DEF p, q, r, o

-----------------------------------------------------------------------------
(* What is kept of a list *)

\* kept[i] is what is kept of the first i entries.
KeepsTo(kept, seq, entries) ==
  /\ kept[0] = <<>>
  /\ \A i \in 1..Len(seq) :
       kept[i] = IF seq[i] \in entries THEN Append(kept[i - 1], seq[i]) ELSE kept[i - 1]
  /\ Kept(seq, entries) = kept[Len(seq)]

\* The loop of Kept has a turn for every entry.
LEMMA KeptLoop ==
  ASSUME NEW S, NEW seq \in Seq(S), NEW entries
  PROVE  \E kept \in [0..Len(seq) -> Seq(S)] : KeepsTo(kept, seq, entries)
<1> DEFINE n == Len(seq)
           Turn(i, list) == IF seq[i] \in entries THEN Append(list, seq[i]) ELSE list
           step == [p \in (1..n) \X Seq(S) |-> Turn(p[1], p[2])]
           Computed(f) == f = [i \in 0..n |-> IF i = 0 THEN <<>> ELSE Turn(i, f[i - 1])]
           kept == CHOOSE f : Computed(f)
<1>1. n \in Nat /\ <<>> \in Seq(S)
  BY LenProperties, EmptySeq
<1>2. \A i \in 1..n : seq[i] \in S
  BY ElementOfSeq
<1>3. \A i \in 1..n, list \in Seq(S) : Turn(i, list) \in Seq(S)
  BY <1>2, AppendProperties
<1>4. step \in [(1..n) \X Seq(S) -> Seq(S)]
  <2> HIDE DEF n, Turn
  <2> QED
    BY <1>3
<1>5. PICK f \in [0..n -> Seq(S)] : Computes(f, n, <<>>, step)
  <2> DEFINE Lists == Seq(S)
  <2>1. <<>> \in Lists /\ step \in [(1..n) \X Lists -> Lists]
    BY <1>1, <1>4
  <2>2. \E f \in [0..n -> Lists] : Computes(f, n, <<>>, step)
    <3> HIDE DEF n, step, Lists
    <3> QED
      BY <1>1, <2>1, LoopComputes
  <2> QED
    BY <2>2
<1>6. ASSUME NEW i \in 1..n PROVE f[i] = Turn(i, f[i - 1])
  <2>1. f[i - 1] \in Seq(S)
    BY <1>1
  <2> HIDE DEF n, Turn
  <2> QED
    BY <1>5, <2>1 DEF Computes
<1>7. Computed(f)
  <2> HIDE DEF Turn
  <2>1. \A i \in 0..n : i = 0 \/ i \in 1..n
    BY <1>1
  <2>2. \A i \in 0..n : f[i] = IF i = 0 THEN <<>> ELSE Turn(i, f[i - 1])
    BY <1>5, <1>6, <2>1 DEF Computes
  <2> QED
    BY <2>2
<1>8. Computed(kept)
  <2> HIDE DEF Computed
  <2> QED
    BY <1>7
<1>9. /\ kept[0] = <<>>
      /\ \A i \in 1..n : kept[i] = Turn(i, kept[i - 1])
      /\ kept = [i \in 0..n |-> kept[i]]
  <2> HIDE DEF Turn, kept
  <2>1. 0 \in 0..n /\ \A i \in 1..n : i \in 0..n /\ i # 0
    BY <1>1
  <2> HIDE DEF n
  <2> QED
    BY <1>8, <2>1
<1>10. kept \in [0..n -> Seq(S)]
  <2> DEFINE T == {i \in 0..n : kept[i] \in Seq(S)}
  <2>a. /\ kept[0] = <<>>
        /\ \A i \in 1..n : kept[i] = Turn(i, kept[i - 1])
    BY <1>9
  <2>b. 0 \in 0..n /\ \A i \in 1..n : i \in 0..n /\ i - 1 \in 0..n
    BY <1>1
  <2> HIDE DEF kept, Turn, n
  <2>1. 0 \in T
    BY <1>1, <2>a, <2>b
  <2>2. \A i \in 1..n : i - 1 \in T => i \in T
    BY <1>3, <2>a, <2>b
  <2>3. 0..n \subseteq T
    <3> HIDE DEF T
    <3> QED
      BY <1>1, <2>1, <2>2, LoopInduction
  <2> HIDE DEF kept, n
  <2> QED
    BY <1>9, <2>3
<1>11. Kept(seq, entries) = kept[n]
  BY DEF Kept
<1> HIDE DEF kept
<1> QED
  BY <1>9, <1>10, <1>11 DEF KeepsTo

\* What Kept returns, and what it keeps apart.
LEMMA KeptProperties ==
  ASSUME NEW S, NEW seq \in Seq(S), NEW entries, NEW K
  PROVE  /\ Kept(seq, entries) \in Seq(S)
         /\ Occurs(Kept(seq, entries), K) <=> Occurs(seq, K \cap entries)
         /\ Once(seq, K) => Once(Kept(seq, entries), K)
<1> DEFINE n == Len(seq)
           Before(i, L) == \E j \in 1..i : seq[j] \in L
           OnceBefore(i) == \A j, k \in 1..i : seq[j] \in K /\ seq[k] \in K => j = k
<1>1. PICK kept \in [0..Len(seq) -> Seq(S)] : KeepsTo(kept, seq, entries)
  BY KeptLoop
<1> USE DEF KeepsTo
<1>2. n \in Nat /\ \A i \in 1..n : seq[i] \in S
  BY LenProperties, ElementOfSeq
<1> DEFINE T == {i \in 0..n : /\ Occurs(kept[i], K) <=> Before(i, K \cap entries)
                              /\ OnceBefore(i) => Once(kept[i], K)}
<1>3. 0 \in T
  BY <1>1, <1>2 DEF Occurs, Once
<1>4. ASSUME NEW i \in 1..n, i - 1 \in T PROVE i \in T
  <2>1. /\ i \in 0..n /\ i - 1 \in 0..n /\ i \in 1..i
        /\ 1..i = (1..(i - 1)) \cup {i} /\ i \notin 1..(i - 1)
    BY <1>2
  <2>2. kept[i - 1] \in Seq(S) /\ seq[i] \in S
    BY <1>1, <1>2, <2>1
  <2>3. \A L : Before(i, L) <=> Before(i - 1, L) \/ seq[i] \in L
    BY <2>1
  <2>4. OnceBefore(i) => OnceBefore(i - 1) /\ ~(Before(i - 1, K) /\ seq[i] \in K)
    BY <2>1
  <2>5. Before(i - 1, K \cap entries) => Before(i - 1, K)
    OBVIOUS
  <2>6. /\ Occurs(kept[i - 1], K) <=> Before(i - 1, K \cap entries)
        /\ OnceBefore(i - 1) => Once(kept[i - 1], K)
    BY <1>4
  <2>7. CASE seq[i] \in entries
    <3>1. kept[i] = Append(kept[i - 1], seq[i])
      BY <1>1, <2>7
    <3>2. /\ Occurs(kept[i], K) <=> Occurs(kept[i - 1], K) \/ seq[i] \in K
          /\ Once(kept[i - 1], K) /\ ~(Occurs(kept[i - 1], K) /\ seq[i] \in K)
               => Once(kept[i], K)
      BY <2>2, <3>1, OccursAppend
    <3>3. Occurs(kept[i], K) <=> Before(i, K \cap entries)
      <4>1. Before(i, K \cap entries) <=> Before(i - 1, K \cap entries) \/ seq[i] \in K
        BY <2>3, <2>7
      <4> HIDE DEF Before
      <4> QED
        BY <2>6, <3>2, <4>1
    <3>4. OnceBefore(i) => Once(kept[i], K)
      <4> HIDE DEF Before, OnceBefore
      <4> QED
        BY <2>4, <2>5, <2>6, <3>2
    <3> HIDE DEF Before, OnceBefore
    <3> QED
      BY <2>1, <3>3, <3>4
  <2>8. CASE seq[i] \notin entries
    <3>1. kept[i] = kept[i - 1]
      BY <1>1, <2>8
    <3>2. Before(i, K \cap entries) <=> Before(i - 1, K \cap entries)
      BY <2>3, <2>8
    <3> HIDE DEF Before, OnceBefore
    <3> QED
      BY <2>1, <2>4, <2>6, <3>1, <3>2
  <2> QED
    BY <2>7, <2>8
<1>5. n \in T
  <2> HIDE DEF T
  <2>1. n \in 0..n
    BY <1>2
  <2> QED
    BY <1>2, <1>3, <1>4, <2>1, LoopInduction
<1>6. kept[n] \in Seq(S)
  BY <1>1, <1>2
<1> QED
  BY <1>1, <1>5, <1>6 DEF Occurs, Once

\* No more is kept than there is.
LEMMA KeptShorter ==
  ASSUME NEW S, NEW seq \in Seq(S), NEW entries
  PROVE  Len(Kept(seq, entries)) <= Len(seq)
<1> DEFINE n == Len(seq)
<1>1. PICK kept \in [0..n -> Seq(S)] : KeepsTo(kept, seq, entries)
  BY KeptLoop
<1>2. n \in Nat /\ \A i \in 1..n : seq[i] \in S
  BY LenProperties, ElementOfSeq
<1> DEFINE T == {i \in 0..n : Len(kept[i]) <= i}
<1>3. 0 \in T
  BY <1>1, <1>2 DEF KeepsTo
<1>4. ASSUME NEW i \in 1..n, i - 1 \in T PROVE i \in T
  <2>1. i \in 0..n /\ i - 1 \in 0..n
    BY <1>2
  <2>2. kept[i - 1] \in Seq(S) /\ seq[i] \in S /\ Len(kept[i - 1]) \in Nat
    BY <1>1, <1>2, <2>1, LenProperties
  <2>3. Len(Append(kept[i - 1], seq[i])) = Len(kept[i - 1]) + 1
    BY <2>2, AppendProperties
  <2>4. kept[i] = Append(kept[i - 1], seq[i]) \/ kept[i] = kept[i - 1]
    BY <1>1, Zenon DEF KeepsTo
  <2>5. Len(kept[i]) \in Nat
    BY <1>1, <2>1, LenProperties
  <2>6. Len(kept[i]) <= i
    BY <1>4, <2>2, <2>3, <2>4, <2>5
  <2> QED
    BY <2>1, <2>6
<1>5. n \in T
  <2> HIDE DEF T
  <2>1. n \in 0..n
    BY <1>2
  <2> QED
    BY <1>2, <1>3, <1>4, <2>1, LoopInduction
<1>6. Len(kept[n]) <= n
  BY <1>5
<1>7. Kept(seq, entries) = kept[n]
  BY <1>1 DEF KeepsTo
<1> QED
  BY <1>6, <1>7

\* Nothing is kept of nothing.
LEMMA KeptNothing ==
  ASSUME NEW entries
  PROVE  Kept(<<>>, entries) = <<>>
<1>1. <<>> \in Seq({}) /\ Len(<<>>) = 0
  BY EmptySeq, LenProperties
<1>2. PICK kept \in [0..Len(<<>>) -> Seq({})] : KeepsTo(kept, <<>>, entries)
  BY <1>1, KeptLoop
<1> QED
  BY <1>1, <1>2 DEF KeepsTo
=============================================================================
