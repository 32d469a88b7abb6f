--------------------------- MODULE SequenceLemmas ---------------------------
(***************************************************************************)
(* What the proofs need to know of numbers and of sequences.  A sequence   *)
(* is taken without a set its members are in, as IsSeq: what the models    *)
(* keep in sequences are records of many shapes.                           *)
(***************************************************************************)
EXTENDS Integers, SequencesExt, SequenceTheorems, FiniteSetTheorems, WellFoundedInduction, TLAPS

(* The order of the natural numbers, as a relation.                        *)
Lt == {p \in Nat \X Nat : p[1] < p[2]}

(* The order of the natural numbers is well founded.                       *)
LEMMA LtWF == IsWellFoundedOn(Lt, Nat)
BY NatLessThanWellFounded DEF OpToRel, Lt

(* A set of natural numbers that is not empty has a least member.          *)
LEMMA LeastNat ==
  ASSUME NEW S, S \subseteq Nat, S # {}
  PROVE  \E x \in S : \A y \in S : x <= y
<1>1. PICK x \in S : \A y \in S : ~(<<y, x>> \in Lt)
  BY LtWF, WFMin
<1>2. \A y \in S : ~(y < x)
  BY <1>1 DEF Lt
<1>. QED
  BY <1>2

(* Min is that member: what the searches for the first of something        *)
(* return.                                                                 *)
LEMMA MinOfNat ==
  ASSUME NEW S, S \subseteq Nat, S # {}
  PROVE  Min(S) \in S /\ \A y \in S : Min(S) <= y
BY LeastNat DEF Min

(* Induction: a set with 0 that has n + 1 with each n has every natural    *)
(* number. A property is proved for all numbers by taking the set of those *)
(* that have it.                                                           *)
LEMMA SetInduction ==
  ASSUME NEW S, 0 \in S, \A n \in Nat : n \in S => n + 1 \in S
  PROVE  Nat \subseteq S
<1>. DEFINE T == Nat \ S
<1>1. SUFFICES ASSUME T # {} PROVE FALSE
  OBVIOUS
<1>2. PICK n \in T : \A m \in T : n <= m
  BY <1>1, LeastNat
<1>3. n # 0 /\ n \in Nat
  OBVIOUS
<1>4. n - 1 \in Nat /\ n - 1 \notin T
  BY <1>2, <1>3
<1>. QED
  BY <1>3, <1>4

-----------------------------------------------------------------------------
(* A sequence, of whatever its members are.                                *)
IsSeq(s) == s \in Seq(ToSet(s))

(* A sequence over any set is one, and its members are in the set.         *)
LEMMA SeqIsSeq ==
  ASSUME NEW S, NEW s \in Seq(S)
  PROVE  IsSeq(s) /\ ToSet(s) \subseteq S
<1>1. s \in [1 .. Len(s) -> S] /\ Len(s) \in Nat
  OBVIOUS
<1>2. s \in [1 .. Len(s) -> ToSet(s)]
  BY <1>1 DEF ToSet
<1>. QED
  BY <1>1, <1>2, SeqDef DEF IsSeq, ToSet

(* A sequence is a function from 1 to its length.                          *)
LEMMA IsSeqShape ==
  ASSUME NEW s, IsSeq(s)
  PROVE  /\ Len(s) \in Nat /\ DOMAIN s = 1 .. Len(s)
         /\ s = [i \in 1 .. Len(s) |-> s[i]]
         /\ s = <<>> <=> Len(s) = 0
         /\ ToSet(s) = {s[i] : i \in 1 .. Len(s)}
BY DEF IsSeq, ToSet

(* A function from 1 to a number is a sequence of that length.             *)
LEMMA FunctionIsSeq ==
  ASSUME NEW n \in Nat, NEW s, s = [i \in 1 .. n |-> s[i]]
  PROVE  IsSeq(s) /\ Len(s) = n
BY DEF IsSeq, ToSet

(* What Append adds, and what it leaves where it was.                      *)
LEMMA AppendIsSeq ==
  ASSUME NEW s, IsSeq(s), NEW x
  PROVE  /\ IsSeq(Append(s, x)) /\ Len(Append(s, x)) = Len(s) + 1
         /\ \A i \in 1 .. Len(s) : Append(s, x)[i] = s[i]
         /\ Append(s, x)[Len(s) + 1] = x
         /\ ToSet(Append(s, x)) = ToSet(s) \cup {x}
<1>. DEFINE S == ToSet(s) \cup {x}
           t == Append(s, x)
<1>1. s \in Seq(S)
  BY SeqMonotonic DEF IsSeq
<1>. HIDE DEF S
<1>2. x \in S
  BY DEF S
<1>3. t \in Seq(S) /\ Len(t) = Len(s) + 1 /\ Len(s) \in Nat
      /\ (\A i \in 1 .. Len(s) : t[i] = s[i]) /\ t[Len(s) + 1] = x
  BY <1>1, <1>2
<1>. HIDE DEF t
<1>4. IsSeq(t) /\ ToSet(t) = {t[i] : i \in 1 .. Len(t)} /\ ToSet(s) = {s[i] : i \in 1 .. Len(s)}
  BY <1>3, SeqIsSeq, IsSeqShape
<1>5. ToSet(t) = ToSet(s) \cup {x}
  BY <1>3, <1>4
<1>. QED
  BY <1>3, <1>4, <1>5 DEF t

(* What Tail leaves, and that Head is a member.                            *)
LEMMA TailIsSeq ==
  ASSUME NEW s, IsSeq(s), s # <<>>
  PROVE  /\ IsSeq(Tail(s)) /\ Len(Tail(s)) = Len(s) - 1
         /\ \A i \in 1 .. Len(s) - 1 : Tail(s)[i] = s[i + 1]
         /\ ToSet(Tail(s)) \subseteq ToSet(s)
         /\ Head(s) \in ToSet(s) /\ Head(s) = s[1]
<1>. DEFINE S == ToSet(s)
<1>1. s \in Seq(S) /\ Head(s) = s[1] /\ Head(s) \in S
  <2>1. s \in Seq(S)
    BY DEF IsSeq
  <2>. HIDE DEF S
  <2>. QED
    BY <2>1, HeadTailProperties
<1>. HIDE DEF S
<1>2. /\ Tail(s) \in Seq(S) /\ Len(Tail(s)) = Len(s) - 1
      /\ \A i \in 1 .. Len(s) - 1 : Tail(s)[i] = s[i + 1]
  BY <1>1, HeadTailProperties
<1>3. IsSeq(Tail(s)) /\ ToSet(Tail(s)) \subseteq S
  BY <1>2, SeqIsSeq
<1>. QED
  BY <1>1, <1>2, <1>3 DEF S

(* What Front leaves, and that Last is a member.                           *)
LEMMA FrontIsSeq ==
  ASSUME NEW s, IsSeq(s), s # <<>>
  PROVE  /\ IsSeq(Front(s)) /\ Len(Front(s)) = Len(s) - 1
         /\ \A i \in 1 .. Len(s) - 1 : Front(s)[i] = s[i]
         /\ ToSet(Front(s)) \subseteq ToSet(s)
         /\ Last(s) \in ToSet(s) /\ Last(s) = s[Len(s)]
<1>1. Len(s) \in Nat \ {0}
  BY IsSeqShape
<1>2. \A i \in 1 .. Len(s) - 1 : s[i] \in ToSet(s)
  BY <1>1, IsSeqShape DEF ToSet
<1>. DEFINE n == Len(s) - 1
           S == ToSet(s)
<1>3. /\ SubSeq(s, 1, n) \in Seq(S)
      /\ Len(SubSeq(s, 1, n)) = n
      /\ \A i \in 1 .. n : SubSeq(s, 1, n)[i] = s[i]
  <2>1. n \in Nat /\ \A i \in 1 .. n : s[i] \in S
    BY <1>1, <1>2
  <2>. HIDE DEF n, S
  <2>2. /\ SubSeq(s, 1, n) \in Seq(S)
        /\ Len(SubSeq(s, 1, n)) = IF 1 <= n THEN n - 1 + 1 ELSE 0
        /\ \A i \in 1 .. n - 1 + 1 : SubSeq(s, 1, n)[i] = s[1 + i - 1]
    BY <2>1, SubSeqProperties
  <2>. QED
    BY <2>1, <2>2
<1>4. Last(s) \in S /\ Last(s) = s[Len(s)]
  BY <1>1, IsSeqShape DEF Last
<1>. HIDE DEF S
<1>5. IsSeq(SubSeq(s, 1, n)) /\ ToSet(SubSeq(s, 1, n)) \subseteq S
  BY <1>3, SeqIsSeq
<1>6. Front(s) = SubSeq(s, 1, n)
  BY DEF Front
<1>. QED
  BY <1>3, <1>4, <1>5, <1>6 DEF S

(* Where the members of two sequences are when one follows the other.      *)
LEMMA ConcatIsSeq ==
  ASSUME NEW s, NEW t, IsSeq(s), IsSeq(t)
  PROVE  /\ IsSeq(s \o t) /\ Len(s \o t) = Len(s) + Len(t)
         /\ \A i \in 1 .. Len(s) : (s \o t)[i] = s[i]
         /\ \A i \in 1 .. Len(t) : (s \o t)[Len(s) + i] = t[i]
         /\ ToSet(s \o t) = ToSet(s) \cup ToSet(t)
<1>. DEFINE S == ToSet(s) \cup ToSet(t)
           u == s \o t
<1>1. s \in Seq(S) /\ t \in Seq(S)
  BY SeqMonotonic DEF IsSeq
<1>. HIDE DEF S
<1>2. /\ u \in Seq(S) /\ Len(u) = Len(s) + Len(t) /\ Len(s) \in Nat /\ Len(t) \in Nat
      /\ \A i \in 1 .. Len(s) + Len(t) : u[i] = IF i <= Len(s) THEN s[i] ELSE t[i - Len(s)]
  BY <1>1, ConcatProperties
<1>. HIDE DEF u
<1>3. /\ \A i \in 1 .. Len(s) : u[i] = s[i]
      /\ \A i \in 1 .. Len(t) : u[Len(s) + i] = t[i]
  BY <1>2
<1>4. IsSeq(u) /\ ToSet(u) = {u[i] : i \in 1 .. Len(u)}
  BY <1>2, SeqIsSeq, IsSeqShape
<1>5. ToSet(s) = {s[i] : i \in 1 .. Len(s)} /\ ToSet(t) = {t[i] : i \in 1 .. Len(t)}
  BY IsSeqShape
<1>6. \A i \in 1 .. Len(s) + Len(t) : i \in 1 .. Len(s) \/ i - Len(s) \in 1 .. Len(t)
  BY <1>2
<1>7. \A i \in 1 .. Len(u) : u[i] \in ToSet(s) \cup ToSet(t)
  BY <1>2, <1>5, <1>6
<1>8. /\ \A i \in 1 .. Len(s) : s[i] \in ToSet(u)
      /\ \A i \in 1 .. Len(t) : t[i] \in ToSet(u)
  <2>1. /\ \A i \in 1 .. Len(s) : i \in 1 .. Len(u)
        /\ \A i \in 1 .. Len(t) : Len(s) + i \in 1 .. Len(u)
    BY <1>2
  <2>. QED
    BY <1>3, <1>4, <2>1
<1>9. ToSet(u) \subseteq ToSet(s) \cup ToSet(t) /\ ToSet(s) \cup ToSet(t) \subseteq ToSet(u)
  BY <1>4, <1>5, <1>7, <1>8
<1>. QED
  BY <1>2, <1>3, <1>4, <1>9 DEF u

(* Where the members of a part of a sequence come from.                    *)
LEMMA SubSeqIsSeq ==
  ASSUME NEW s, IsSeq(s), NEW m \in 1 .. Len(s) + 1, NEW n \in 0 .. Len(s)
  PROVE  /\ IsSeq(SubSeq(s, m, n))
         /\ Len(SubSeq(s, m, n)) = IF m <= n THEN n - m + 1 ELSE 0
         /\ \A i \in 1 .. n - m + 1 : SubSeq(s, m, n)[i] = s[m + i - 1]
<1>1. Len(s) \in Nat
  BY IsSeqShape
<1>2. \A i \in m .. n : s[i] \in ToSet(s)
  BY <1>1, IsSeqShape DEF ToSet
<1>. DEFINE S == ToSet(s)
<1>. HIDE DEF S
<1>3. m \in Int /\ n \in Int /\ \A i \in m .. n : s[i] \in S
  BY <1>1, <1>2 DEF S
<1>4. /\ SubSeq(s, m, n) \in Seq(S)
      /\ Len(SubSeq(s, m, n)) = IF m <= n THEN n - m + 1 ELSE 0
      /\ \A i \in 1 .. n - m + 1 : SubSeq(s, m, n)[i] = s[m + i - 1]
  BY <1>3, SubSeqProperties
<1>. QED
  BY <1>4, SeqIsSeq

(* What is left when one member is removed: those behind it move up.       *)
LEMMA RemoveAtIsSeq ==
  ASSUME NEW s, IsSeq(s), NEW at \in 1 .. Len(s)
  PROVE  /\ IsSeq(RemoveAt(s, at)) /\ Len(RemoveAt(s, at)) = Len(s) - 1
         /\ \A i \in 1 .. Len(s) - 1 : RemoveAt(s, at)[i] = IF i < at THEN s[i] ELSE s[i + 1]
<1>. DEFINE a == SubSeq(s, 1, at - 1)
           b == SubSeq(s, at + 1, Len(s))
<1>1. Len(s) \in Nat
  BY IsSeqShape
<1>2. IsSeq(a) /\ Len(a) = at - 1 /\ \A i \in 1 .. at - 1 : a[i] = s[i]
  <2>1. 1 \in 1 .. Len(s) + 1 /\ at - 1 \in 0 .. Len(s)
    BY <1>1
  <2>2. /\ IsSeq(a) /\ Len(a) = IF 1 <= at - 1 THEN at - 1 - 1 + 1 ELSE 0
        /\ \A i \in 1 .. at - 1 - 1 + 1 : a[i] = s[1 + i - 1]
    BY <2>1, SubSeqIsSeq
  <2>. HIDE DEF a
  <2>. QED
    BY <1>1, <2>2
<1>3. IsSeq(b) /\ Len(b) = Len(s) - at /\ \A i \in 1 .. Len(s) - at : b[i] = s[at + i]
  <2>1. at + 1 \in 1 .. Len(s) + 1 /\ Len(s) \in 0 .. Len(s)
    BY <1>1
  <2>2. /\ IsSeq(b) /\ Len(b) = IF at + 1 <= Len(s) THEN Len(s) - (at + 1) + 1 ELSE 0
        /\ \A i \in 1 .. Len(s) - (at + 1) + 1 : b[i] = s[(at + 1) + i - 1]
    BY <2>1, SubSeqIsSeq
  <2>. HIDE DEF b
  <2>. QED
    BY <1>1, <2>2
<1>. HIDE DEF a, b
<1>. DEFINE c == a \o b
<1>4. /\ IsSeq(c) /\ Len(c) = Len(a) + Len(b)
      /\ \A i \in 1 .. Len(a) : c[i] = a[i]
      /\ \A i \in 1 .. Len(b) : c[Len(a) + i] = b[i]
  <2>1. IsSeq(a) /\ IsSeq(b)
    BY <1>2, <1>3
  <2>2. \A x, y : IsSeq(x) /\ IsSeq(y) =>
          /\ IsSeq(x \o y) /\ Len(x \o y) = Len(x) + Len(y)
          /\ \A i \in 1 .. Len(x) : (x \o y)[i] = x[i]
          /\ \A i \in 1 .. Len(y) : (x \o y)[Len(x) + i] = y[i]
    BY ConcatIsSeq
  <2>. QED
    BY <2>1, <2>2
<1>5. RemoveAt(s, at) = c
  BY DEF RemoveAt, a, b
<1>. HIDE DEF c
<1>6. ASSUME NEW i \in 1 .. Len(s) - 1 PROVE c[i] = IF i < at THEN s[i] ELSE s[i + 1]
  <2>1. CASE i < at
    BY <1>1, <1>2, <1>4, <2>1
  <2>2. CASE i >= at
    <3>1. i - (at - 1) \in 1 .. Len(b) /\ Len(a) + (i - (at - 1)) = i /\ at + (i - (at - 1)) = i + 1
      BY <1>1, <1>2, <1>3, <2>2
    <3>2. c[i] = b[i - (at - 1)]
      BY <1>4, <3>1
    <3>3. i - (at - 1) \in 1 .. Len(s) - at
      BY <1>1, <2>2
    <3>. QED
      BY <1>3, <2>2, <3>1, <3>2, <3>3
  <2>. QED
    BY <1>1, <2>1, <2>2
<1>. QED
  BY <1>1, <1>2, <1>3, <1>4, <1>5, <1>6

(* A set numbered from 1 to count has count members.                       *)
LEMMA Counted ==
  ASSUME NEW R, NEW count \in Nat, ExistsBijection(1 .. count, R)
  PROVE  Cardinality(R) = count
BY FS_CountingElements

(* A set of numbers from 1 to n that is not empty has a greatest member.   *)
LEMMA MaxOfRange ==
  ASSUME NEW n \in Nat, NEW S, S \subseteq 1 .. n, S # {}
  PROVE  Max(S) \in S /\ \A y \in S : y <= Max(S)
<1>. DEFINE T == {n - x : x \in S}
<1>1. T \subseteq Nat /\ T # {}
  <2>1. \A x \in S : n - x \in Nat
    OBVIOUS
  <2>2. \A y \in T : y \in Nat
    BY <2>1
  <2>. QED
    BY <2>2
<1>. HIDE DEF T
<1>2. PICK t \in T : \A y \in T : t <= y
  BY <1>1, LeastNat
<1>3. PICK x \in S : t = n - x
  BY <1>2 DEF T
<1>4. ASSUME NEW y \in S PROVE x >= y
  <2>1. n - y \in T
    BY DEF T
  <2>2. n - x <= n - y /\ x \in 1 .. n /\ y \in 1 .. n
    BY <1>2, <1>3, <2>1
  <2>. QED
    BY <2>2
<1>5. \E z \in S : \A y \in S : z >= y
  BY <1>4
<1>6. Max(S) \in S /\ \A y \in S : Max(S) >= y
  BY <1>5 DEF Max
<1>. QED
  BY <1>6

(* Max of all of them.                                                     *)
LEMMA MaxOfAll ==
  ASSUME NEW n \in Nat \ {0}
  PROVE  Max(1 .. n) = n /\ (1 .. n) \ {n} = 1 .. n - 1
<1>1. n \in 1 .. n /\ 1 .. n # {}
  OBVIOUS
<1>2. Max(1 .. n) \in 1 .. n /\ n <= Max(1 .. n)
  BY <1>1, MaxOfRange
<1>. QED
  BY <1>2

(* Of a fold over the places of a sequence: its table, of what is made of  *)
(* each set of places, the greatest taken last.                            *)
FoldsBy(t, S, base, op) ==
  \A s \in SUBSET S : t[s] = IF s = {} THEN base ELSE op[<<t[s \ {Max(s)}], Max(s)>>]

(* There is such a table: what the folds of the models choose exists.      *)
LEMMA FoldTable ==
  ASSUME NEW D, NEW base \in D, NEW N \in Nat, NEW op \in [D \X (1 .. N) -> D]
  PROVE  \E t \in [SUBSET (1 .. N) -> D] : FoldsBy(t, 1 .. N, base, op)
<1>. DEFINE Has(n) == \E t \in [SUBSET (1 .. n) -> D] : FoldsBy(t, 1 .. n, base, op)
            P == {n \in Nat : n <= N => Has(n)}
<1>0. \A n \in Nat : n \in P <=> (n <= N => Has(n))
  <2>. HIDE DEF Has
  <2>. QED
    OBVIOUS
<1>. HIDE DEF P
<1>1. 0 \in P
  <2>1. SUBSET (1 .. 0) = {{}}
    OBVIOUS
  <2>. DEFINE t == [s \in SUBSET (1 .. 0) |-> base]
  <2>2. t \in [SUBSET (1 .. 0) -> D] /\ FoldsBy(t, 1 .. 0, base, op)
    BY <2>1 DEF FoldsBy
  <2>. QED
    BY <1>0, <2>2
<1>2. ASSUME NEW n \in Nat, n \in P PROVE n + 1 \in P
  <2>1. SUFFICES ASSUME n + 1 <= N PROVE Has(n + 1)
    <3>. HIDE DEF Has
    <3>. QED
      BY <1>0
  <2>2. PICK t \in [SUBSET (1 .. n) -> D] : FoldsBy(t, 1 .. n, base, op)
    <3>1. Has(n)
      <4>. HIDE DEF Has
      <4>. QED
        BY <1>0, <1>2, <2>1
    <3>. QED
      BY <3>1
  <2>. DEFINE u == [s \in SUBSET (1 .. n + 1) |->
                      IF n + 1 \in s THEN op[<<t[s \ {n + 1}], n + 1>>] ELSE t[s]]
  <2>3. ASSUME NEW s \in SUBSET (1 .. n + 1), n + 1 \in s
        PROVE  /\ s \ {n + 1} \in SUBSET (1 .. n) /\ Max(s) = n + 1 /\ s # {}
               /\ u[s \ {n + 1}] = t[s \ {n + 1}]
    <3>1. s \ {n + 1} \in SUBSET (1 .. n) /\ s # {}
      BY <2>3
    <3>2. Max(s) \in s /\ \A y \in s : y <= Max(s)
      BY <3>1, MaxOfRange, n + 1 \in Nat
    <3>3. Max(s) \in 1 .. n + 1 /\ n + 1 <= Max(s)
      BY <2>3, <3>2
    <3>4. Max(s) = n + 1
      BY <3>3
    <3>5. s \ {n + 1} \in SUBSET (1 .. n + 1) /\ n + 1 \notin s \ {n + 1}
      OBVIOUS
    <3>. QED
      BY <3>1, <3>4, <3>5
  <2>4. ASSUME NEW s \in SUBSET (1 .. n + 1), n + 1 \notin s
        PROVE  s \in SUBSET (1 .. n) /\ u[s] = t[s]
               /\ (s # {} => s \ {Max(s)} \in SUBSET (1 .. n) /\ u[s \ {Max(s)}] = t[s \ {Max(s)}])
    <3>1. s \in SUBSET (1 .. n)
      BY <2>4
    <3>2. s \ {Max(s)} \in SUBSET (1 .. n) /\ n + 1 \notin s \ {Max(s)}
          /\ s \ {Max(s)} \in SUBSET (1 .. n + 1)
      BY <2>4, <3>1
    <3>. QED
      BY <2>4, <3>1, <3>2
  <2>5. n + 1 \in 1 .. N
    BY <2>1
  <2>6. u \in [SUBSET (1 .. n + 1) -> D]
    <3>1. ASSUME NEW s \in SUBSET (1 .. n + 1), n + 1 \in s PROVE op[<<t[s \ {n + 1}], n + 1>>] \in D
      BY <2>3, <2>5, <3>1
    <3>2. ASSUME NEW s \in SUBSET (1 .. n + 1), n + 1 \notin s PROVE t[s] \in D
      BY <2>4, <3>2
    <3>. QED
      BY <3>1, <3>2
  <2>7. ASSUME NEW s \in SUBSET (1 .. n + 1)
        PROVE  u[s] = IF s = {} THEN base ELSE op[<<u[s \ {Max(s)}], Max(s)>>]
    <3>1. CASE n + 1 \in s
      <4>1. u[s] = op[<<t[s \ {n + 1}], n + 1>>]
        BY <3>1
      <4>. HIDE DEF u
      <4>. QED
        BY <2>3, <3>1, <4>1
    <3>2. CASE n + 1 \notin s
      <4>. HIDE DEF u
      <4>1. u[s] = IF s = {} THEN base ELSE op[<<t[s \ {Max(s)}], Max(s)>>]
        BY <2>2, <2>4, <3>2 DEF FoldsBy
      <4>. QED
        BY <2>4, <3>2, <4>1
    <3>. QED
      BY <3>1, <3>2
  <2>. QED
    BY <2>6, <2>7 DEF FoldsBy
<1>3. N \in P
  BY <1>1, <1>2, SetInduction
<1>4. Has(N)
  <2>. HIDE DEF Has
  <2>. QED
    BY <1>0, <1>3
<1>. QED
  BY <1>4
=============================================================================
