------------------------ MODULE EditorServices_proofs ------------------------
(***************************************************************************)
(* The services beside the editor, for every text, grammar and window: the *)
(* Outliner's list is what a parse of the whole text gives, the levels     *)
(* shown of it are those of a tree, and a search finds the bracket that    *)
(* matches.                                                                *)
(*                                                                         *)
(* The Outliner's invariant is OutlineInv.  The list is right only below   *)
(* what the editor and the Outliner both hold valid (Known and unheard),   *)
(* while the editor is at rest; what makes that inductive is which items   *)
(* there may be at any time: those of lines the Outliner heeded (Taken),   *)
(* nothing of the lines it still has to take (Behind), in their order      *)
(* (Ordered), and, during a parse, the level the schemes entered so far    *)
(* give (Level, Carried).                                                  *)
(*                                                                         *)
(* A search's is PairInv: the ring is right (RingInv of the editor), what  *)
(* the search asked for is what comes (Asking), and what it has walked     *)
(* over has never been even, its balance being what that has left open     *)
(* (Walked).                                                               *)
(***************************************************************************)
EXTENDS EditorServices, BaseEditor_proofs, FiniteSetTheorems

-----------------------------------------------------------------------------
(* What an Outliner is.                                                    *)
Items == [lno : Lines, pos : Nat, level : Int, token : Seq(Contents)]
Outliners ==
  [outline : Seq(Items), lineIsEmpty : BOOLEAN, curLevel : Int, modifiedLine : Nat]

(* The item of a line stays one with another token.                        *)
LEMMA TokenType ==
  ASSUME NEW item \in Items, NEW tok \in Seq(Contents)
  PROVE  [item EXCEPT !.token = tok] \in Items
<1>. DEFINE S == Seq(Contents)
<1>. HIDE DEF S
<1>1. item \in [lno : Lines, pos : Nat, level : Int, token : S] /\ tok \in S
  BY DEF Items, S
<1>2. [item EXCEPT !.token = tok] \in [lno : Lines, pos : Nat, level : Int, token : S]
  BY <1>1
<1>. QED
  BY <1>2 DEF Items, S

(* A new item's token is one label long.                                   *)
LEMMA ItemType ==
  ASSUME NEW lno \in Lines, NEW pos \in Nat, NEW level \in Int, NEW tok \in Seq(Contents)
  PROVE  [lno |-> lno, pos |-> pos, level |-> level, token |-> tok] \in Items
BY DEF Items

(* The fields an Outliner is changed in, and those it keeps.               *)
LEMMA WithLevel ==
  ASSUME NEW o \in Outliners, NEW c \in Int
  PROVE  LET r == [o EXCEPT !.curLevel = c]
         IN /\ r \in Outliners /\ r.outline = o.outline /\ r.lineIsEmpty = o.lineIsEmpty
            /\ r.curLevel = c /\ r.modifiedLine = o.modifiedLine
BY DEF Outliners

(* An Outliner whose list is another one, the line begun.                  *)
LEMMA WithOutline ==
  ASSUME NEW o \in Outliners, NEW x \in Seq(Items)
  PROVE  LET r == [o EXCEPT !.outline = x, !.lineIsEmpty = FALSE]
         IN /\ r \in Outliners /\ r.outline = x /\ r.lineIsEmpty = FALSE
            /\ r.curLevel = o.curLevel /\ r.modifiedLine = o.modifiedLine
<1>. DEFINE S == Seq(Items)
<1>. HIDE DEF S
<1>. DEFINE R == [outline : S, lineIsEmpty : BOOLEAN, curLevel : Int, modifiedLine : Nat]
            r == [o EXCEPT !.outline = x, !.lineIsEmpty = FALSE]
<1>1. o \in R /\ x \in S
  BY DEF Outliners, S
<1>2. /\ r \in R /\ r.outline = x /\ r.lineIsEmpty = FALSE
      /\ r.curLevel = o.curLevel /\ r.modifiedLine = o.modifiedLine
  BY <1>1
<1>3. R = Outliners
  BY DEF Outliners, S
<1>. QED
  BY <1>2, <1>3

(* clearLine only says that the line has no item yet.                      *)
LEMMA Cleared ==
  ASSUME NEW o \in Outliners
  PROVE  LET r == Out!clearLine(o)
         IN /\ r \in Outliners /\ r.outline = o.outline /\ r.lineIsEmpty = TRUE
            /\ r.curLevel = o.curLevel /\ r.modifiedLine = o.modifiedLine
BY DEF Outliners, Out!clearLine

(* What it is made of.                                                     *)
LEMMA Fields ==
  ASSUME NEW o \in Outliners
  PROVE  /\ o.outline \in Seq(Items) /\ o.lineIsEmpty \in BOOLEAN
         /\ o.curLevel \in Int /\ o.modifiedLine \in Nat
BY DEF Outliners

-----------------------------------------------------------------------------
(* An Outliner in the middle of a line: it has an item of the line, or is  *)
(* yet to make one.                                                        *)
MidLine == {o \in Outliners : o.lineIsEmpty = TRUE \/ o.outline # <<>>}

(* addRegion: nothing, a new item, or a longer label of the last.          *)
RegionAdded(r, o, lno, label, pos, region) ==
  LET last == Len(o.outline)
      item == [lno |-> lno, pos |-> pos, level |-> o.curLevel, token |-> <<label>>]
      more == [o.outline[last] EXCEPT !.token = Append(o.outline[last].token, label)]
  IN /\ r \in MidLine
     /\ lno < o.modifiedLine \/ region # "outlined" => r = o
     /\ ~(lno < o.modifiedLine) /\ region = "outlined" =>
          /\ r.lineIsEmpty = FALSE /\ r.curLevel = o.curLevel
          /\ r.modifiedLine = o.modifiedLine
          /\ o.lineIsEmpty = TRUE => r.outline = Append(o.outline, item)
          /\ o.lineIsEmpty = FALSE /\ o.outline[last].lno = lno =>
               r.outline = [o.outline EXCEPT ![last] = more]

(* addRegion does so.                                                      *)
LEMMA AddRegionIs ==
  ASSUME NEW o \in MidLine, NEW lno \in Lines, NEW label \in Contents, NEW pos \in Nat, NEW region
  PROVE  RegionAdded(Out!addRegion(o, lno, label, pos, region), o, lno, label, pos, region)
<1>. DEFINE r == Out!addRegion(o, lno, label, pos, region)
            last == Len(o.outline)
            item == [lno |-> lno, pos |-> pos, level |-> o.curLevel, token |-> <<label>>]
            more == [o.outline[last] EXCEPT !.token = Append(o.outline[last].token, label)]
            longer == Out!Lengthened(o.outline, label)
            added == IF o.lineIsEmpty THEN Append(o.outline, item)
                     ELSE IF o.outline[last].lno = lno THEN longer ELSE o.outline
<1>1. /\ o \in Outliners /\ (o.lineIsEmpty = TRUE \/ o.outline # <<>>)
      /\ o.outline \in Seq(Items) /\ o.lineIsEmpty \in BOOLEAN /\ o.curLevel \in Int
  BY Fields DEF MidLine
<1>2. Append(o.outline, item) \in Seq(Items) /\ Append(o.outline, item) # <<>>
  <2>1. <<label>> \in Seq(Contents)
    OBVIOUS
  <2>2. item \in Items
    BY <1>1, <2>1, ItemType
  <2>. HIDE DEF item
  <2>. DEFINE a == Append(o.outline, item)
  <2>3. a \in Seq(Items) /\ Len(a) = Len(o.outline) + 1 /\ Len(o.outline) \in Nat
    BY <1>1, <2>2, AppendProperties
  <2>. HIDE DEF a
  <2>4. a # <<>>
    BY <2>3
  <2>. QED
    BY <2>3, <2>4 DEF a
<1>3. ASSUME o.outline # <<>>
      PROVE  longer = [o.outline EXCEPT ![last] = more] /\ longer \in Seq(Items) /\ longer # <<>>
  <2>1. last \in 1 .. Len(o.outline) /\ o.outline[last] \in Items
    BY <1>1, <1>3
  <2>2. Append(o.outline[last].token, label) \in Seq(Contents)
    <3>1. o.outline[last].token \in Seq(Contents)
      BY <2>1 DEF Items
    <3>. QED
      BY <3>1
  <2>3. more \in Items
    BY <2>1, <2>2, TokenType
  <2>4. longer = [o.outline EXCEPT ![last] = more]
    BY <2>1 DEF Out!Lengthened
  <2>. HIDE DEF more, longer
  <2>5. [o.outline EXCEPT ![last] = more] \in Seq(Items) /\ [o.outline EXCEPT ![last] = more] # <<>>
    BY <1>1, <1>3, <2>1, <2>3
  <2>. QED
    BY <2>4, <2>5
<1>4. r = IF lno < o.modifiedLine \/ ~(region = "outlined") THEN o
          ELSE [o EXCEPT !.outline = added, !.lineIsEmpty = FALSE]
  BY DEF Out!addRegion, Out!isOutlined
<1>5. added \in Seq(Items) /\ added # <<>>
  <2>. HIDE DEF longer, item
  <2>. QED
    BY <1>1, <1>2, <1>3
<1>. HIDE DEF added
<1>6. CASE lno < o.modifiedLine \/ region # "outlined"
  BY <1>4, <1>6 DEF RegionAdded
<1>7. CASE ~(lno < o.modifiedLine) /\ region = "outlined"
  <2>1. r = [o EXCEPT !.outline = added, !.lineIsEmpty = FALSE]
    BY <1>4, <1>7
  <2>2. /\ r \in Outliners /\ r.outline = added /\ r.lineIsEmpty = FALSE
        /\ r.curLevel = o.curLevel /\ r.modifiedLine = o.modifiedLine
    <3>. DEFINE q == [o EXCEPT !.outline = added, !.lineIsEmpty = FALSE]
    <3>1. /\ q \in Outliners /\ q.outline = added /\ q.lineIsEmpty = FALSE
          /\ q.curLevel = o.curLevel /\ q.modifiedLine = o.modifiedLine
      BY <1>1, <1>5, WithOutline
    <3>. HIDE DEF r
    <3>. QED
      BY <2>1, <3>1, Zenon
  <2>. HIDE DEF r
  <2>3. r \in MidLine
    BY <1>5, <2>2 DEF MidLine
  <2>4. o.lineIsEmpty = TRUE => added = Append(o.outline, item)
    BY Zenon DEF added
  <2>5. o.lineIsEmpty = FALSE /\ o.outline[last].lno = lno => added = [o.outline EXCEPT ![last] = more]
    <3>1. o.lineIsEmpty = FALSE /\ o.outline[last].lno = lno => added = longer
      BY Zenon DEF added
    <3>. HIDE DEF longer, more
    <3>2. o.lineIsEmpty = FALSE => o.outline # <<>>
      BY <1>1
    <3>. QED
      BY <1>3, <3>1, <3>2
  <2>. HIDE DEF item, more
  <2>6. /\ r \in MidLine /\ r.lineIsEmpty = FALSE /\ r.curLevel = o.curLevel
        /\ r.modifiedLine = o.modifiedLine
        /\ o.lineIsEmpty = TRUE => r.outline = Append(o.outline, item)
        /\ o.lineIsEmpty = FALSE /\ o.outline[last].lno = lno => r.outline = [o.outline EXCEPT ![last] = more]
    BY <2>2, <2>3, <2>4, <2>5, Zenon
  <2>. QED
    BY <1>7, <2>6, Zenon DEF item, more, r, RegionAdded
<1>. QED
  BY <1>6, <1>7

(* One call of a line, and all of them one after the other.                *)
HeardCall(o, lno, label, calls, i) ==
  CASE calls[i] = "enter" -> Out!enterScheme(o)
    [] calls[i] = "leave" -> Out!leaveScheme(o)
    [] OTHER              -> Out!addRegion(o, lno, label, i, calls[i])

(* f tells the Outliner after each of a line's calls, the line's parse     *)
(* being the last of them.                                                 *)
HearsAll(f, o, lno, label, calls) ==
  /\ f \in [0 .. Len(calls) -> MidLine]
  /\ f[0] = Out!clearLine(o)
  /\ \A i \in 1 .. Len(calls) : f[i] = HeardCall(f[i - 1], lno, label, calls, i)
  /\ Out!LineParsed(o, lno, label, calls) = f[Len(calls)]

(* In the middle of a line the level may change.                           *)
LEMMA LevelInLine ==
  ASSUME NEW o \in MidLine, NEW c \in Int
  PROVE  LET r == [o EXCEPT !.curLevel = c]
         IN /\ r \in MidLine /\ r.outline = o.outline /\ r.lineIsEmpty = o.lineIsEmpty
            /\ r.curLevel = c /\ r.modifiedLine = o.modifiedLine
<1>. DEFINE r == [o EXCEPT !.curLevel = c]
<1>1. o \in Outliners /\ (o.lineIsEmpty = TRUE \/ o.outline # <<>>)
  BY DEF MidLine
<1>2. /\ r \in Outliners /\ r.outline = o.outline /\ r.lineIsEmpty = o.lineIsEmpty
      /\ r.curLevel = c /\ r.modifiedLine = o.modifiedLine
  BY <1>1, WithLevel
<1>. HIDE DEF r
<1>3. r \in MidLine
  BY <1>1, <1>2 DEF MidLine
<1>. QED
  BY <1>2, <1>3 DEF r

(* A call leaves it in the middle of the line.                             *)
LEMMA HeardCallType ==
  ASSUME NEW o \in MidLine, NEW lno \in Lines, NEW label \in Contents, NEW calls, NEW i \in Nat
  PROVE  HeardCall(o, lno, label, calls, i) \in MidLine
<1>1. o.curLevel + 1 \in Int /\ o.curLevel - 1 \in Int
  BY Fields DEF MidLine
<1>2. Out!enterScheme(o) \in MidLine /\ Out!leaveScheme(o) \in MidLine
  BY <1>1, LevelInLine DEF Out!enterScheme, Out!leaveScheme
<1>3. Out!addRegion(o, lno, label, i, calls[i]) \in MidLine
  BY AddRegionIs DEF RegionAdded
<1>. QED
  BY <1>2, <1>3 DEF HeardCall

(* The places of a line's calls, over which LineParsed folds.              *)
Places(calls) == [i \in DOMAIN calls |-> i]

(* The fold, as the library defines it.                                    *)
LEMMA LineParsedFold ==
  ASSUME NEW o, NEW lno, NEW label, NEW calls
  PROVE  Out!LineParsed(o, lno, label, calls)
         = (CHOOSE t : t = [s \in SUBSET DOMAIN Places(calls) |->
              IF s = {} THEN Out!clearLine(o)
              ELSE HeardCall(t[s \ {Out!Max(s)}], lno, label, calls, Places(calls)[Out!Max(s)])])
           [DOMAIN Places(calls)]
BY DEF Out!LineParsed, Out!FoldLeft, Out!MapThenFoldSet, HeardCall, Places

(* There is such a table: a line's parse is its calls, one after the       *)
(* other.                                                                  *)
LEMMA LineParsedIs ==
  ASSUME NEW o \in Outliners, NEW lno \in Lines, NEW label \in Contents, NEW calls \in Seq(Out!Calls)
  PROVE  \E f : HearsAll(f, o, lno, label, calls)
<1>. DEFINE n == Len(calls)
            base == Out!clearLine(o)
            Call(x, i) == HeardCall(x, lno, label, calls, i)
            op == [p \in MidLine \X (1 .. n) |-> Call(p[1], p[2])]
            seq == Places(calls)
            It(t) == t = [s \in SUBSET DOMAIN seq |->
                       IF s = {} THEN base ELSE Call(t[s \ {Out!Max(s)}], seq[Out!Max(s)])]
<1>1. n \in Nat /\ DOMAIN calls = 1 .. n /\ base \in MidLine
  <2>1. base \in MidLine
    BY Cleared DEF MidLine
  <2>. QED
    BY <2>1
<1>2. Out!LineParsed(o, lno, label, calls) = (CHOOSE t : It(t))[DOMAIN seq]
  BY LineParsedFold
<1>3. DOMAIN seq = 1 .. n /\ \A i \in 1 .. n : seq[i] = i
  BY <1>1 DEF Places
<1>4. \A x \in MidLine, i \in 1 .. n : Call(x, i) \in MidLine
  BY <1>1, HeardCallType
<1>5. \A s : Out!Max(s) = Max(s)
  BY DEF Max, Out!Max
<1>. HIDE DEF Call, base, seq, n
<1>6. op \in [MidLine \X (1 .. n) -> MidLine] /\ \A x \in MidLine, i \in 1 .. n : op[<<x, i>>] = Call(x, i)
  BY <1>4
<1>. HIDE DEF op
<1>7. PICK t \in [SUBSET (1 .. n) -> MidLine] : FoldsBy(t, 1 .. n, base, op)
  BY <1>1, <1>6, FoldTable
<1>8. ASSUME NEW s \in SUBSET (1 .. n)
      PROVE  t[s] = IF s = {} THEN base ELSE Call(t[s \ {Out!Max(s)}], seq[Out!Max(s)])
  <2>1. CASE s = {}
    BY <1>7, <2>1 DEF FoldsBy
  <2>2. CASE s # {}
    <3>1. Max(s) \in 1 .. n
      BY <1>1, <2>2, MaxOfRange
    <3>2. t[s \ {Max(s)}] \in MidLine
      BY <1>7
    <3>3. t[s] = op[<<t[s \ {Max(s)}], Max(s)>>]
      BY <1>7, <2>2 DEF FoldsBy
    <3>4. t[s] = Call(t[s \ {Max(s)}], seq[Max(s)])
      BY <1>3, <1>6, <3>1, <3>2, <3>3
    <3>. QED
      BY <1>5, <2>2, <3>4
  <2>. QED
    BY <2>1, <2>2
<1>9. It(t)
  BY <1>3, <1>7, <1>8
<1>10. It(CHOOSE u : It(u))
  <2>. HIDE DEF It
  <2>. QED
    BY <1>9
<1>. DEFINE u == CHOOSE v : It(v)
<1>11. \A s \in SUBSET (1 .. n) : u[s] = IF s = {} THEN base ELSE Call(u[s \ {Max(s)}], seq[Max(s)])
  <2>1. u = [s \in SUBSET DOMAIN seq |->
               IF s = {} THEN base ELSE Call(u[s \ {Out!Max(s)}], seq[Out!Max(s)])]
    BY <1>10
  <2>. HIDE DEF u
  <2>. QED
    BY <1>3, <1>5, <2>1
<1>. HIDE DEF u
<1>. DEFINE f == [k \in 0 .. n |-> u[1 .. k]]
<1>12. f[0] = base
  <2>1. 1 .. 0 = {} /\ 1 .. 0 \in SUBSET (1 .. n) /\ 0 \in 0 .. n
    BY <1>1
  <2>. QED
    BY <1>11, <2>1
<1>13. ASSUME NEW i \in 1 .. n PROVE f[i] = Call(f[i - 1], i)
  <2>1. /\ Max(1 .. i) = i /\ (1 .. i) \ {i} = 1 .. i - 1 /\ 1 .. i # {}
        /\ 1 .. i \in SUBSET (1 .. n) /\ i \in 0 .. n /\ i - 1 \in 0 .. n
    <3>1. i \in Nat \ {0} /\ i \in 0 .. n /\ i - 1 \in 0 .. n
      BY <1>1
    <3>3. 1 \in 1 .. i
      BY <3>1
    <3>2. 1 .. i \in SUBSET (1 .. n)
      BY <1>1
    <3>. QED
      BY <3>1, <3>2, <3>3, MaxOfAll
  <2>2. u[1 .. i] = Call(u[1 .. i - 1], i)
    BY <1>3, <1>11, <2>1
  <2>. QED
    BY <2>1, <2>2
<1>14. f \in [0 .. n -> MidLine]
  <2>. DEFINE S == {k \in Nat : k <= n => f[k] \in MidLine}
  <2>. HIDE DEF f
  <2>1. 0 \in S
    BY <1>1, <1>12
  <2>2. \A k \in Nat : k \in S => k + 1 \in S
    <3>. SUFFICES ASSUME NEW k \in Nat, k \in S, k + 1 <= n PROVE f[k + 1] \in MidLine
      OBVIOUS
    <3>1. k + 1 \in 1 .. n /\ (k + 1) - 1 = k /\ f[k] \in MidLine
      BY <1>1
    <3>. QED
      BY <1>4, <1>13, <3>1
  <2>3. Nat \subseteq S
    BY <2>1, <2>2, SetInduction
  <2>4. \A k \in 0 .. n : f[k] \in MidLine
    BY <1>1, <2>3
  <2>5. f = [k \in 0 .. n |-> f[k]]
    BY DEF f
  <2>. QED
    BY <2>4, <2>5
<1>15. Out!LineParsed(o, lno, label, calls) = f[n]
  BY <1>1, <1>2, <1>3 DEF u
<1>. HIDE DEF f
<1>16. HearsAll(f, o, lno, label, calls)
  BY <1>12, <1>13, <1>14, <1>15 DEF HearsAll, Call, base, n
<1>. QED
  BY <1>16

(* Counting calls, one more at a time.                                     *)
LEMMA CountNext ==
  ASSUME NEW calls, NEW call
  PROVE  /\ Count(calls, call, 0) = 0
         /\ \A n \in Nat :
              /\ Count(calls, call, n) \in Nat
              /\ calls[n + 1] = call => Count(calls, call, n + 1) = Count(calls, call, n) + 1
              /\ calls[n + 1] # call => Count(calls, call, n + 1) = Count(calls, call, n)
<1>. DEFINE At(n) == {i \in 1 .. n : calls[i] = call}
<1>1. At(0) = {}
  OBVIOUS
<1>2. ASSUME NEW n \in Nat
      PROVE  /\ IsFiniteSet(At(n)) /\ n + 1 \notin At(n)
             /\ At(n + 1) = IF calls[n + 1] = call THEN At(n) \cup {n + 1} ELSE At(n)
  <2>1. IsFiniteSet(1 .. n)
    BY FS_Interval
  <2>2. IsFiniteSet(At(n))
    BY <2>1, FS_Subset
  <2>3. \A i : i \in 1 .. n + 1 <=> i \in 1 .. n \/ i = n + 1
    OBVIOUS
  <2>4. n + 1 \notin 1 .. n
    OBVIOUS
  <2>5. \A i : i \in At(n + 1) <=> i \in At(n) \/ (i = n + 1 /\ calls[n + 1] = call)
    BY <2>3
  <2>. QED
    BY <2>2, <2>4, <2>5
<1>3. \A n : Count(calls, call, n) = Cardinality(At(n))
  BY DEF Count
<1>. HIDE DEF At
<1>4. ASSUME NEW n \in Nat
      PROVE  /\ Cardinality(At(n)) \in Nat
             /\ calls[n + 1] = call => Cardinality(At(n + 1)) = Cardinality(At(n)) + 1
             /\ calls[n + 1] # call => Cardinality(At(n + 1)) = Cardinality(At(n))
  <2>1. Cardinality(At(n)) \in Nat
    BY <1>2, FS_CardinalityType
  <2>2. CASE calls[n + 1] = call
    <3>1. Cardinality(At(n) \cup {n + 1}) = Cardinality(At(n)) + 1
      BY <1>2, FS_AddElement
    <3>. QED
      BY <1>2, <2>1, <2>2, <3>1
  <2>3. CASE calls[n + 1] # call
    <3>1. At(n + 1) = At(n)
      BY <1>2, <2>3
    <3>2. Cardinality(At(n + 1)) = Cardinality(At(n))
      BY <3>1, Zenon
    <3>. QED
      BY <2>1, <2>3, <3>2
  <2>. QED
    BY <2>2, <2>3
<1>. QED
  BY <1>1, <1>3, <1>4, FS_EmptySet

(* A label so many times.                                                  *)
Times(x, n) == [i \in 1 .. n |-> x]

(* One more of it.                                                         *)
LEMMA TimesNext ==
  ASSUME NEW S, NEW x \in S, NEW n \in Nat
  PROVE  /\ Times(x, n) \in Seq(S) /\ Append(Times(x, n), x) = Times(x, n + 1)
         /\ <<x>> = Times(x, 1)
<1>. DEFINE t == Times(x, n)
            a == Append(t, x)
<1>1. t \in [1 .. n -> S]
  BY DEF Times
<1>2. t \in Seq(S) /\ Len(t) = n
  BY <1>1
<1>3. \A i \in 1 .. n : t[i] = x
  BY DEF Times
<1>. HIDE DEF t
<1>4. a \in Seq(S) /\ Len(a) = n + 1 /\ (\A i \in 1 .. n : a[i] = t[i]) /\ a[n + 1] = x
  BY <1>2, AppendProperties
<1>. HIDE DEF a
<1>5. \A i \in 1 .. n + 1 : a[i] = x
  BY <1>3, <1>4
<1>6. a = [i \in 1 .. n + 1 |-> x]
  BY <1>4, <1>5
<1>7. <<x>> = [i \in 1 .. 1 |-> x]
  OBVIOUS
<1>. QED
  BY <1>2, <1>6, <1>7 DEF Times, t, a

(* The outlined regions among a line's calls, the first of them, and       *)
(* whether one is among the first k.                                       *)
Outlined(calls) == {i \in DOMAIN calls : calls[i] = "outlined"}
First(calls)    == CHOOSE i \in Outlined(calls) : \A j \in Outlined(calls) : i <= j
HasTo(calls, k) == \E i \in 1 .. k : calls[i] = "outlined"

(* The item of a line after k of its calls, from level c on.               *)
LineItem(lno, label, c, calls, k) ==
  [lno |-> lno, pos |-> First(calls),
   level |-> c + Count(calls, "enter", First(calls)) - Count(calls, "leave", First(calls)),
   token |-> Times(label, Count(calls, "outlined", k))]

(* The first is where one comes to be there.                               *)
LEMMA FirstIs ==
  ASSUME NEW calls \in Seq(Out!Calls), NEW k \in Nat, k < Len(calls),
         ~HasTo(calls, k), calls[k + 1] = "outlined"
  PROVE  First(calls) = k + 1 /\ Count(calls, "outlined", k) = 0
<1>1. DOMAIN calls = 1 .. Len(calls) /\ Len(calls) \in Nat /\ k + 1 \in 1 .. Len(calls)
  OBVIOUS
<1>2. k + 1 \in Outlined(calls) /\ Outlined(calls) \subseteq 1 .. Len(calls)
  BY <1>1 DEF Outlined
<1>3. ASSUME NEW j \in Outlined(calls) PROVE k + 1 <= j
  <2>1. j \in 1 .. Len(calls) /\ calls[j] = "outlined"
    BY <1>1 DEF Outlined
  <2>2. j \notin 1 .. k
    BY <2>1 DEF HasTo
  <2>. QED
    BY <1>1, <2>1, <2>2
<1>4. First(calls) \in Outlined(calls) /\ \A j \in Outlined(calls) : First(calls) <= j
  BY <1>2, <1>3 DEF First
<1>5. First(calls) = k + 1
  <2>1. First(calls) \in 1 .. Len(calls) /\ First(calls) <= k + 1 /\ k + 1 <= First(calls)
    BY <1>2, <1>3, <1>4
  <2>. QED
    BY <1>1, <2>1
<1>6. {i \in 1 .. k : calls[i] = "outlined"} = {}
  BY DEF HasTo
<1>7. Count(calls, "outlined", k) = 0
  BY <1>6, FS_EmptySet DEF Count
<1>. QED
  BY <1>5, <1>7

(* Of a line with such a region, the first is a place of it.               *)
LEMMA FirstType ==
  ASSUME NEW calls \in Seq(Out!Calls), NEW k \in 0 .. Len(calls), HasTo(calls, k)
  PROVE  First(calls) \in 1 .. Len(calls)
<1>1. DOMAIN calls = 1 .. Len(calls) /\ Len(calls) \in Nat
  OBVIOUS
<1>2. Outlined(calls) \subseteq Nat /\ Outlined(calls) \subseteq 1 .. Len(calls)
  BY <1>1 DEF Outlined
<1>3. Outlined(calls) # {}
  BY <1>1 DEF Outlined, HasTo
<1>4. First(calls) \in Outlined(calls)
  BY <1>2, <1>3, LeastNat DEF First
<1>. QED
  BY <1>2, <1>4
(* The last member in the place of another.                                *)
LEMMA ReplaceLast ==
  ASSUME NEW S, NEW s \in Seq(S), NEW x \in S, NEW y \in S
  PROVE  [Append(s, x) EXCEPT ![Len(s) + 1] = y] = Append(s, y)
<1>. DEFINE a == Append(s, x)
            b == Append(s, y)
<1>1. /\ a \in Seq(S) /\ Len(a) = Len(s) + 1 /\ \A i \in 1 .. Len(s) : a[i] = s[i]
      /\ b \in Seq(S) /\ Len(b) = Len(s) + 1 /\ \A i \in 1 .. Len(s) : b[i] = s[i]
      /\ b[Len(s) + 1] = y /\ Len(s) \in Nat
  BY AppendProperties
<1>. HIDE DEF a, b
<1>2. DOMAIN a = 1 .. Len(s) + 1 /\ b = [i \in 1 .. Len(s) + 1 |-> b[i]]
  BY <1>1
<1>. DEFINE n == Len(s) + 1
            c == [a EXCEPT ![n] = y]
<1>3. c = [i \in 1 .. n |-> IF i = n THEN y ELSE a[i]]
  BY <1>2
<1>4. \A i \in 1 .. n : b[i] = IF i = n THEN y ELSE a[i]
  <2>1. \A i \in 1 .. n : i = n \/ i \in 1 .. Len(s)
    BY <1>1
  <2>. QED
    BY <1>1, <2>1
<1>5. b = [i \in 1 .. n |-> IF i = n THEN y ELSE a[i]]
  <2>. HIDE DEF n
  <2>1. b = [i \in 1 .. n |-> b[i]]
    BY <1>2 DEF n
  <2>. QED
    BY <1>4, <2>1
<1>. HIDE DEF c
<1>6. c = b
  BY <1>3, <1>5
<1>. QED
  BY <1>6 DEF a, b, c

(* The Outliner after k calls of a line: no other than at its start but    *)
(* for the level, or with the line's item as its last.                     *)
Heard(r, o, lno, label, calls, k) ==
  /\ r.modifiedLine = o.modifiedLine
  /\ r.curLevel = o.curLevel + Count(calls, "enter", k) - Count(calls, "leave", k)
  /\ lno < o.modifiedLine \/ ~HasTo(calls, k) => r.outline = o.outline /\ r.lineIsEmpty = TRUE
  /\ ~(lno < o.modifiedLine) /\ HasTo(calls, k) =>
       r.lineIsEmpty = FALSE
       /\ r.outline = Append(o.outline, LineItem(lno, label, o.curLevel, calls, k))

(* One call more is heard.                                                 *)
LEMMA HeardNext ==
  ASSUME NEW o \in Outliners, NEW lno \in Lines, NEW label \in Contents,
         NEW calls \in Seq(Out!Calls), NEW k \in Nat, k < Len(calls),
         NEW r \in MidLine, Heard(r, o, lno, label, calls, k)
  PROVE  Heard(HeardCall(r, lno, label, calls, k + 1), o, lno, label, calls, k + 1)
<1>. DEFINE call == calls[k + 1]
            s == HeardCall(r, lno, label, calls, k + 1)
<1>1. /\ k + 1 \in 1 .. Len(calls) /\ k + 1 \in Nat /\ Len(calls) \in Nat
      /\ lno \in Int /\ o.modifiedLine \in Nat /\ o.curLevel \in Int /\ r.curLevel \in Int
      /\ r.outline \in Seq(Items) /\ o.outline \in Seq(Items) /\ r.lineIsEmpty \in BOOLEAN
  BY Fields DEF MidLine, Lines
<1>2. /\ Count(calls, "enter", k) \in Nat /\ Count(calls, "leave", k) \in Nat
      /\ Count(calls, "outlined", k) \in Nat
      /\ Count(calls, "enter", k + 1) = Count(calls, "enter", k) + (IF call = "enter" THEN 1 ELSE 0)
      /\ Count(calls, "leave", k + 1) = Count(calls, "leave", k) + (IF call = "leave" THEN 1 ELSE 0)
      /\ Count(calls, "outlined", k + 1) = Count(calls, "outlined", k) + (IF call = "outlined" THEN 1 ELSE 0)
  <2>1. \A c : /\ Count(calls, c, k) \in Nat
               /\ call = c => Count(calls, c, k + 1) = Count(calls, c, k) + 1
               /\ call # c => Count(calls, c, k + 1) = Count(calls, c, k)
    BY CountNext
  <2>. HIDE DEF call
  <2>. QED
    BY <2>1
<1>3. /\ r.modifiedLine = o.modifiedLine
      /\ r.curLevel = o.curLevel + Count(calls, "enter", k) - Count(calls, "leave", k)
      /\ lno < o.modifiedLine \/ ~HasTo(calls, k) => r.outline = o.outline /\ r.lineIsEmpty = TRUE
      /\ ~(lno < o.modifiedLine) /\ HasTo(calls, k) =>
           r.lineIsEmpty = FALSE
           /\ r.outline = Append(o.outline, LineItem(lno, label, o.curLevel, calls, k))
  BY DEF Heard
<1>4. HasTo(calls, k + 1) <=> HasTo(calls, k) \/ call = "outlined"
  <2>1. \A i : i \in 1 .. k + 1 <=> i \in 1 .. k \/ i = k + 1
    OBVIOUS
  <2>. QED
    BY <2>1 DEF HasTo
<1>5. ASSUME call # "outlined", s.outline = r.outline, s.lineIsEmpty = r.lineIsEmpty,
             s.modifiedLine = r.modifiedLine,
             s.curLevel = o.curLevel + Count(calls, "enter", k + 1) - Count(calls, "leave", k + 1)
      PROVE  Heard(s, o, lno, label, calls, k + 1)
  <2>. HIDE DEF s, call
  <2>1. Count(calls, "outlined", k + 1) = Count(calls, "outlined", k)
    BY <1>2, <1>5
  <2>2. LineItem(lno, label, o.curLevel, calls, k + 1) = LineItem(lno, label, o.curLevel, calls, k)
    BY <2>1 DEF LineItem
  <2>3. HasTo(calls, k + 1) <=> HasTo(calls, k)
    BY <1>4, <1>5
  <2>. QED
    BY <1>3, <1>5, <2>2, <2>3 DEF Heard
<1>6. CASE call = "enter"
  <2>. DEFINE c == r.curLevel + 1
  <2>1. s = [r EXCEPT !.curLevel = c] /\ c \in Int
    BY <1>1, <1>6 DEF HeardCall, Out!enterScheme
  <2>2. /\ s.outline = r.outline /\ s.lineIsEmpty = r.lineIsEmpty
        /\ s.curLevel = c /\ s.modifiedLine = r.modifiedLine
    <3>. HIDE DEF c, s
    <3>. QED
      BY <2>1, LevelInLine
  <2>. HIDE DEF s
  <2>3. s.curLevel = o.curLevel + Count(calls, "enter", k + 1) - Count(calls, "leave", k + 1)
    <3>1. /\ Count(calls, "enter", k + 1) = Count(calls, "enter", k) + 1
          /\ Count(calls, "leave", k + 1) = Count(calls, "leave", k)
      BY <1>2, <1>6
    <3>2. \A a, e, l \in Int : a + e - l + 1 = a + (e + 1) - l /\ a + e - l - 1 = a + e - (l + 1)
      OBVIOUS
    <3>3. s.curLevel = r.curLevel + 1 /\ o.curLevel \in Int /\ Count(calls, "enter", k) \in Int
          /\ Count(calls, "leave", k) \in Int
      BY <1>1, <1>2, <2>2
    <3>. QED
      BY <1>3, <3>1, <3>2, <3>3
  <2>4. call # "outlined"
    BY <1>6
  <2>. QED
    BY <1>5, <2>2, <2>3, <2>4 DEF s
<1>7. CASE call = "leave"
  <2>. DEFINE c == r.curLevel - 1
  <2>1. s = [r EXCEPT !.curLevel = c] /\ c \in Int
    BY <1>1, <1>7 DEF HeardCall, Out!leaveScheme
  <2>2. /\ s.outline = r.outline /\ s.lineIsEmpty = r.lineIsEmpty
        /\ s.curLevel = c /\ s.modifiedLine = r.modifiedLine
    <3>. HIDE DEF c, s
    <3>. QED
      BY <2>1, LevelInLine
  <2>. HIDE DEF s
  <2>3. s.curLevel = o.curLevel + Count(calls, "enter", k + 1) - Count(calls, "leave", k + 1)
    <3>1. /\ Count(calls, "leave", k + 1) = Count(calls, "leave", k) + 1
          /\ Count(calls, "enter", k + 1) = Count(calls, "enter", k)
      BY <1>2, <1>7
    <3>2. \A a, e, l \in Int : a + e - l + 1 = a + (e + 1) - l /\ a + e - l - 1 = a + e - (l + 1)
      OBVIOUS
    <3>3. s.curLevel = r.curLevel - 1 /\ o.curLevel \in Int /\ Count(calls, "enter", k) \in Int
          /\ Count(calls, "leave", k) \in Int
      BY <1>1, <1>2, <2>2
    <3>4. r.curLevel = o.curLevel + Count(calls, "enter", k) - Count(calls, "leave", k)
      BY <1>3
    <3>5. s.curLevel = o.curLevel + Count(calls, "enter", k) - Count(calls, "leave", k) - 1
      BY <3>3, <3>4
    <3>. QED
      BY <3>1, <3>3, <3>5
  <2>4. call # "outlined"
    BY <1>7
  <2>. QED
    BY <1>5, <2>2, <2>3, <2>4 DEF s
<1>8. CASE call # "enter" /\ call # "leave"
  <2>. SUFFICES Heard(s, o, lno, label, calls, k + 1)
    OBVIOUS
  <2>1. s = Out!addRegion(r, lno, label, k + 1, call)
    BY <1>8 DEF HeardCall
  <2>2. /\ Count(calls, "enter", k + 1) = Count(calls, "enter", k)
        /\ Count(calls, "leave", k + 1) = Count(calls, "leave", k)
    BY <1>2, <1>8
  <2>. DEFINE item == [lno |-> lno, pos |-> k + 1, level |-> r.curLevel, token |-> <<label>>]
              last == Len(r.outline)
              more == [r.outline[last] EXCEPT !.token = Append(r.outline[last].token, label)]
  <2>6. RegionAdded(Out!addRegion(r, lno, label, k + 1, call), r, lno, label, k + 1, call)
    BY <1>1, AddRegionIs
  <2>3. /\ lno < r.modifiedLine \/ call # "outlined" => s = r
        /\ ~(lno < r.modifiedLine) /\ call = "outlined" =>
             /\ s.lineIsEmpty = FALSE /\ s.curLevel = r.curLevel
             /\ s.modifiedLine = r.modifiedLine
             /\ r.lineIsEmpty = TRUE => s.outline = Append(r.outline, item)
             /\ r.lineIsEmpty = FALSE /\ r.outline[last].lno = lno =>
                  s.outline = [r.outline EXCEPT ![last] = more]
    BY <2>1, <2>6, Zenon DEF RegionAdded
  <2>. HIDE DEF s, item, more, call
  <2>4. CASE lno < o.modifiedLine \/ call # "outlined"
    <3>1. s = r
      BY <1>3, <2>3, <2>4
    <3>4. s.curLevel = o.curLevel + Count(calls, "enter", k + 1) - Count(calls, "leave", k + 1)
      BY <1>3, <2>2, <3>1
    <3>2. CASE call # "outlined"
      <4>1. s.outline = r.outline /\ s.lineIsEmpty = r.lineIsEmpty /\ s.modifiedLine = r.modifiedLine
        BY <3>1
      <4>. QED
        BY <1>5, <3>2, <3>4, <4>1
    <3>3. CASE lno < o.modifiedLine
      <4>1. s.outline = o.outline /\ s.lineIsEmpty = TRUE /\ s.modifiedLine = o.modifiedLine
        BY <1>3, <3>1, <3>3
      <4>. QED
        BY <3>3, <3>4, <4>1, Zenon DEF Heard
    <3>. QED
      BY <2>4, <3>2, <3>3
  <2>5. CASE ~(lno < o.modifiedLine) /\ call = "outlined"
    <3>1. /\ s.lineIsEmpty = FALSE /\ s.curLevel = r.curLevel /\ s.modifiedLine = r.modifiedLine
          /\ HasTo(calls, k + 1)
      BY <1>3, <1>4, <2>3, <2>5
    <3>2. s.outline = Append(o.outline, LineItem(lno, label, o.curLevel, calls, k + 1))
      <4>1. CASE ~HasTo(calls, k)
        <5>1. s.outline = Append(o.outline, item)
          BY <1>3, <2>3, <2>5, <4>1
        <5>2. First(calls) = k + 1 /\ Count(calls, "outlined", k) = 0
          BY <2>5, <4>1, FirstIs DEF call
        <5>3. Count(calls, "outlined", k + 1) = 1
          BY <1>2, <2>5, <5>2
        <5>4. <<label>> = Times(label, Count(calls, "outlined", k + 1))
          BY <5>3, TimesNext, 0 \in Nat
        <5>5. r.curLevel = o.curLevel + Count(calls, "enter", First(calls)) - Count(calls, "leave", First(calls))
          BY <1>3, <2>2, <5>2
        <5>6. item = LineItem(lno, label, o.curLevel, calls, k + 1)
          BY <5>2, <5>4, <5>5, Zenon DEF LineItem, item
        <5>. QED
          BY <5>1, <5>6
      <4>2. CASE HasTo(calls, k)
        <5>. DEFINE old == LineItem(lno, label, o.curLevel, calls, k)
                    n == Count(calls, "outlined", k)
        <5>1. /\ r.lineIsEmpty = FALSE /\ r.outline = Append(o.outline, old)
          BY <1>3, <2>5, <4>2
        <5>2. old \in Items
          <6>1. First(calls) \in Nat
            <7>1. k \in 0 .. Len(calls)
              BY <1>1
            <7>. QED
              BY <4>2, <7>1, FirstType
          <6>2. /\ Count(calls, "enter", First(calls)) \in Nat
                /\ Count(calls, "leave", First(calls)) \in Nat
            BY <6>1, CountNext
          <6>3. Times(label, n) \in Seq(Contents)
            BY <1>2, TimesNext
          <6>. DEFINE c == o.curLevel + Count(calls, "enter", First(calls)) - Count(calls, "leave", First(calls))
          <6>4. c \in Int
            BY <1>1, <6>2
          <6>. HIDE DEF c, n
          <6>5. [lno |-> lno, pos |-> First(calls), level |-> c, token |-> Times(label, n)] \in Items
            BY <6>1, <6>3, <6>4, ItemType
          <6>. QED
            BY <6>5 DEF LineItem, c, n
        <5>3. old.lno = lno /\ old.token = Times(label, n)
          BY DEF LineItem
        <5>4. [old EXCEPT !.token = Times(label, n + 1)] = LineItem(lno, label, o.curLevel, calls, k + 1)
          <6>1. Count(calls, "outlined", k + 1) = n + 1
            BY <1>2, <2>5
          <6>. QED
            BY <6>1 DEF LineItem
        <5>5. Append(old.token, label) = Times(label, n + 1)
          BY <1>2, <5>3, TimesNext
        <5>. HIDE DEF old, n
        <5>6. /\ Append(o.outline, old) \in Seq(Items)
              /\ Len(Append(o.outline, old)) = Len(o.outline) + 1
              /\ \A i \in 1 .. Len(o.outline) : Append(o.outline, old)[i] = o.outline[i]
              /\ Append(o.outline, old)[Len(o.outline) + 1] = old
          BY <1>1, <5>2, AppendProperties
        <5>7. last = Len(o.outline) + 1 /\ r.outline[last] = old
          BY <5>1, <5>6
        <5>8. s.outline = [r.outline EXCEPT ![last] = more]
          BY <1>3, <2>3, <2>5, <5>1, <5>3, <5>7
        <5>9. more = [old EXCEPT !.token = Times(label, n + 1)]
          BY <5>5, <5>7 DEF more
        <5>. DEFINE new == [old EXCEPT !.token = Times(label, n + 1)]
        <5>10. new \in Items
          <6>1. Times(label, n + 1) \in Seq(Contents)
            <7>1. n + 1 \in Nat
              BY <1>2 DEF n
            <7>. QED
              BY <7>1, TimesNext
          <6>. QED
            BY <5>2, <6>1, TokenType
        <5>. HIDE DEF new
        <5>11. [Append(o.outline, old) EXCEPT ![Len(o.outline) + 1] = new] = Append(o.outline, new)
          <6>1. \A t \in Seq(Items), x, y \in Items :
                  [Append(t, x) EXCEPT ![Len(t) + 1] = y] = Append(t, y)
            BY ReplaceLast
          <6>. QED
            BY <1>1, <5>2, <5>10, <6>1, Zenon
        <5>. QED
          BY <5>1, <5>4, <5>7, <5>8, <5>9, <5>11 DEF new
      <4>. QED
        BY <4>1, <4>2
    <3>3. s.curLevel = o.curLevel + Count(calls, "enter", k + 1) - Count(calls, "leave", k + 1)
      BY <1>3, <2>2, <3>1
    <3>4. s.modifiedLine = o.modifiedLine
      BY <1>3, <3>1
    <3>. QED
      BY <2>5, <3>1, <3>2, <3>3, <3>4, Zenon DEF Heard
  <2>. QED
    BY <2>4, <2>5 DEF s
<1>. QED
  BY <1>6, <1>7, <1>8

(* The Outliner after a line of a parse.                                   *)
LEMMA LineHeard ==
  ASSUME NEW o \in Outliners, NEW lno \in Lines, NEW label \in Contents, NEW calls \in Seq(Out!Calls)
  PROVE  /\ Out!LineParsed(o, lno, label, calls) \in Outliners
         /\ Heard(Out!LineParsed(o, lno, label, calls), o, lno, label, calls, Len(calls))
<1>. DEFINE n == Len(calls)
<1>1. n \in Nat
  OBVIOUS
<1>2. PICK f : HearsAll(f, o, lno, label, calls)
  BY LineParsedIs
<1>3. /\ f \in [0 .. n -> MidLine] /\ f[0] = Out!clearLine(o)
      /\ \A i \in 1 .. n : f[i] = HeardCall(f[i - 1], lno, label, calls, i)
      /\ Out!LineParsed(o, lno, label, calls) = f[n]
  BY <1>2 DEF HearsAll
<1>. DEFINE S == {k \in Nat : k <= n => Heard(f[k], o, lno, label, calls, k)}
<1>4. 0 \in S
  <2>. DEFINE r == Out!clearLine(o)
              e == Count(calls, "enter", 0)
              g == Count(calls, "leave", 0)
  <2>1. /\ r.outline = o.outline /\ r.lineIsEmpty = TRUE
        /\ r.curLevel = o.curLevel /\ r.modifiedLine = o.modifiedLine /\ o.curLevel \in Int
    BY Cleared, Fields
  <2>2. e = 0 /\ g = 0
    BY CountNext
  <2>3. ~HasTo(calls, 0)
    BY DEF HasTo
  <2>. HIDE DEF r, e, g
  <2>4. r.curLevel = o.curLevel + e - g
    BY <2>1, <2>2
  <2>5. Heard(r, o, lno, label, calls, 0)
    BY <2>1, <2>3, <2>4, Zenon DEF Heard, e, g
  <2>. QED
    BY <1>3, <2>5 DEF r
<1>5. ASSUME NEW k \in Nat, k \in S PROVE k + 1 \in S
  <2>. SUFFICES ASSUME k + 1 <= n PROVE Heard(f[k + 1], o, lno, label, calls, k + 1)
    OBVIOUS
  <2>1. k < Len(calls) /\ k \in 0 .. n /\ k + 1 \in 1 .. n /\ (k + 1) - 1 = k /\ k <= n
    BY <1>1
  <2>2. f[k] \in MidLine /\ Heard(f[k], o, lno, label, calls, k)
        /\ f[k + 1] = HeardCall(f[k], lno, label, calls, k + 1)
    BY <1>3, <1>5, <2>1
  <2>. HIDE DEF S, n
  <2>. DEFINE r == f[k]
  <2>. HIDE DEF r
  <2>3. r \in MidLine /\ Heard(r, o, lno, label, calls, k)
    BY <2>2 DEF r
  <2>4. Heard(HeardCall(r, lno, label, calls, k + 1), o, lno, label, calls, k + 1)
    BY <2>1, <2>3, HeardNext
  <2>. QED
    BY <2>2, <2>4 DEF r
<1>6. n \in S
  <2>. HIDE DEF S
  <2>. QED
    BY <1>1, <1>4, <1>5, SetInduction
<1>7. f[n] \in Outliners
  BY <1>1, <1>3 DEF MidLine
<1>. QED
  BY <1>1, <1>3, <1>6, <1>7

(* endParsing.                                                             *)
LEMMA EndParsed ==
  ASSUME NEW o \in Outliners, NEW lno \in -1 .. MaxLines
  PROVE  LET r == Out!endParsing(o, lno)
         IN /\ r \in Outliners /\ r.outline = o.outline
            /\ r.modifiedLine = IF o.modifiedLine < lno THEN lno + 1 ELSE o.modifiedLine
<1>. DEFINE m == IF o.modifiedLine < lno THEN lno + 1 ELSE o.modifiedLine
            z == 0
            r == [o EXCEPT !.modifiedLine = m, !.curLevel = z]
<1>1. m \in Nat /\ z \in Int
  BY Fields
<1>2. Out!endParsing(o, lno) = r
  BY DEF Out!endParsing
<1>. HIDE DEF m, z
<1>3. r \in Outliners /\ r.outline = o.outline /\ r.modifiedLine = m
  <2>. DEFINE S == Seq(Items)
  <2>. HIDE DEF S
  <2>1. o \in [outline : S, lineIsEmpty : BOOLEAN, curLevel : Int, modifiedLine : Nat]
    BY DEF Outliners, S
  <2>2. r \in [outline : S, lineIsEmpty : BOOLEAN, curLevel : Int, modifiedLine : Nat]
    BY <1>1, <2>1
  <2>3. r.outline = o.outline
    BY <2>1
  <2>4. r.modifiedLine = m
    BY <2>1
  <2>. QED
    BY <2>2, <2>3, <2>4 DEF Outliners, S
<1>. QED
  BY <1>2, <1>3, Zenon DEF m

(* An outline that goes down the text.                                     *)
Ordered(outline) ==
  \A i, j \in DOMAIN outline : i <= j => outline[i].lno <= outline[j].lno

(* What an outline has of a line.                                          *)
On(outline, l) == {outline[i] : i \in {j \in DOMAIN outline : outline[j].lno = l}}

(* What an outline is, for the provers.                                    *)
LEMMA SequenceOfItems ==
  ASSUME NEW s \in Seq(Items)
  PROVE  Len(s) \in Nat /\ DOMAIN s = 1 .. Len(s) /\ \A i \in 1 .. Len(s) : s[i] \in Items /\ s[i].lno \in Lines
<1>1. \A x \in Items : x.lno \in Lines
  BY DEF Items
<1>. QED
  BY <1>1

(* modifyEvent keeps what is above the line, if the outline is ordered.    *)
LEMMA Forgotten ==
  ASSUME NEW o \in Outliners, Ordered(o.outline), NEW topLine \in Lines
  PROVE  LET r == Out!modifyEvent(o, topLine)
         IN /\ r \in Outliners /\ r.modifiedLine = topLine
            /\ Ordered(r.outline)
            /\ \A i \in DOMAIN r.outline : r.outline[i].lno < topLine
            /\ \A l \in Lines : On(r.outline, l) = IF l < topLine THEN On(o.outline, l) ELSE {}
<1>. DEFINE s == o.outline
            gone == {i \in DOMAIN s : s[i].lno >= topLine}
            first == CHOOSE i \in gone : \A j \in gone : i <= j
            keep == IF gone = {} THEN Len(s) ELSE first - 1
            t == SubSeq(s, 1, keep)
            r == [o EXCEPT !.outline = t, !.modifiedLine = topLine]
<1>0. topLine \in Nat /\ \A l \in Lines : l \in Nat
  BY DEF Lines
<1>1. s \in Seq(Items) /\ Len(s) \in Nat /\ DOMAIN s = 1 .. Len(s)
      /\ \A i \in 1 .. Len(s) : s[i] \in Items /\ s[i].lno \in Nat
  BY <1>0, Fields, SequenceOfItems
<1>2. Out!modifyEvent(o, topLine) = r
  BY DEF Out!modifyEvent
<1>3. /\ keep \in 0 .. Len(s)
      /\ \A i \in 1 .. Len(s) : i <= keep <=> s[i].lno < topLine
  <2>1. CASE gone = {}
    BY <1>0, <1>1, <2>1
  <2>2. CASE gone # {}
    <3>1. gone \subseteq Nat
      BY <1>1
    <3>2. first \in gone /\ \A j \in gone : first <= j
      BY <2>2, <3>1, LeastNat
    <3>3. first \in 1 .. Len(s) /\ s[first].lno >= topLine
      BY <1>1, <3>2
    <3>4. keep = first - 1
      BY <2>2
    <3>. HIDE DEF first, keep
    <3>5. ASSUME NEW i \in 1 .. Len(s), i <= keep PROVE s[i].lno < topLine
      <4>1. i < first
        BY <1>1, <3>3, <3>4, <3>5
      <4>2. i \notin gone
        BY <1>1, <3>2, <3>3, <4>1
      <4>. QED
        BY <1>0, <1>1, <4>2
    <3>6. ASSUME NEW i \in 1 .. Len(s), ~(i <= keep) PROVE ~(s[i].lno < topLine)
      <4>1. first <= i
        BY <1>1, <3>3, <3>4, <3>6
      <4>2. s[first].lno <= s[i].lno
        BY <1>1, <3>3, <4>1 DEF Ordered
      <4>. QED
        BY <1>0, <1>1, <3>3, <4>2
    <3>. QED
      BY <1>1, <3>3, <3>4, <3>5, <3>6
  <2>. QED
    BY <2>1, <2>2
<1>. HIDE DEF keep
<1>4. t \in Seq(Items) /\ Len(t) = keep /\ DOMAIN t = 1 .. keep /\ \A i \in 1 .. keep : t[i] = s[i]
  <2>1. keep \in Nat /\ keep <= Len(s)
    BY <1>1, <1>3
  <2>2. \A i \in 1 .. keep : i \in 1 .. Len(s)
    BY <1>1, <2>1
  <2>. QED
    BY <1>1, <2>1, <2>2
<1>. HIDE DEF t, s
<1>5. r \in Outliners /\ r.outline = t /\ r.modifiedLine = topLine
  <2>. DEFINE S == Seq(Items)
  <2>. HIDE DEF S
  <2>1. o \in [outline : S, lineIsEmpty : BOOLEAN, curLevel : Int, modifiedLine : Nat] /\ t \in S
    BY <1>4 DEF Outliners, S
  <2>2. r \in [outline : S, lineIsEmpty : BOOLEAN, curLevel : Int, modifiedLine : Nat]
        /\ r.outline = t /\ r.modifiedLine = topLine
    BY <1>0, <2>1
  <2>. QED
    BY <2>2 DEF Outliners, S
<1>6. \A i \in 1 .. keep : i \in 1 .. Len(s)
  BY <1>1, <1>3
<1>7. Ordered(t)
  BY <1>1, <1>4, <1>6 DEF Ordered, s
<1>8. \A i \in DOMAIN t : t[i].lno < topLine
  BY <1>3, <1>4, <1>6
<1>9. ASSUME NEW l \in Lines PROVE On(t, l) = IF l < topLine THEN On(s, l) ELSE {}
  <2>1. CASE l < topLine
    <3>1. \A i : i \in DOMAIN t /\ t[i].lno = l <=> i \in DOMAIN s /\ s[i].lno = l
      <4>1. ASSUME NEW i \in DOMAIN s, s[i].lno = l PROVE i \in 1 .. keep
        BY <1>1, <1>3, <2>1, <4>1
      <4>. QED
        BY <1>1, <1>4, <1>6, <4>1
    <3>2. \A i \in DOMAIN t : t[i] = s[i]
      BY <1>4
    <3>. QED
      BY <2>1, <3>1, <3>2 DEF On
  <2>2. CASE ~(l < topLine)
    <3>1. \A i \in DOMAIN t : t[i].lno # l
      BY <1>8, <2>2
    <3>. QED
      BY <2>2, <3>1 DEF On
  <2>. QED
    BY <2>1, <2>2
<1>. QED
  BY <1>2, <1>5, <1>7, <1>8, <1>9 DEF s

(* A line's new item at the end of an outline.                             *)
LEMMA OnAppend ==
  ASSUME NEW s \in Seq(Items), NEW x \in Items, NEW l
  PROVE  /\ Append(s, x) \in Seq(Items)
         /\ On(Append(s, x), l) = IF l = x.lno THEN On(s, l) \cup {x} ELSE On(s, l)
         /\ DOMAIN Append(s, x) = 1 .. Len(s) + 1
         /\ \A i \in 1 .. Len(s) : Append(s, x)[i] = s[i]
         /\ Append(s, x)[Len(s) + 1] = x
<1>. DEFINE a == Append(s, x)
<1>1. /\ a \in Seq(Items) /\ Len(a) = Len(s) + 1 /\ a[Len(s) + 1] = x
      /\ \A i \in 1 .. Len(s) : a[i] = s[i]
  BY AppendProperties
<1>2. Len(s) \in Nat /\ DOMAIN s = 1 .. Len(s)
  OBVIOUS
<1>. HIDE DEF a
<1>3. DOMAIN a = 1 .. Len(s) + 1
  BY <1>1
<1>4. \A i : i \in DOMAIN a <=> i \in DOMAIN s \/ i = Len(s) + 1
  BY <1>2, <1>3
<1>5. On(a, l) = IF l = x.lno THEN On(s, l) \cup {x} ELSE On(s, l)
  <2>1. \A i \in DOMAIN s : a[i] = s[i]
    BY <1>1, <1>2
  <2>2. \A y : y \in On(a, l) <=> y \in On(s, l) \/ (y = x /\ x.lno = l)
    BY <1>1, <1>4, <2>1 DEF On
  <2>. QED
    BY <2>2
<1>. QED
  BY <1>1, <1>3, <1>5 DEF a

-----------------------------------------------------------------------------
(* manageTree.                                                             *)

(* A stack of levels that rise.                                            *)
Rises(s) == \A i, j \in DOMAIN s : i < j => s[i] < s[j]

(* manageTree takes off it what is not lower than the level, which it puts *)
(* on: the stack rises still.                                              *)
LEMMA ManageTreeIs ==
  ASSUME NEW s \in Seq(Int), Rises(s), NEW level \in Int
  PROVE  LET r == Out!manageTree(s, level)
         IN /\ r \in Seq(Int) /\ Rises(r)
            /\ \A v : (\E i \in DOMAIN r : r[i] = v)
                      <=> v = level \/ \E i \in DOMAIN s : s[i] = v /\ v < level
<1>. DEFINE low == {i \in 1 .. Len(s) : s[i] <= level}
            m == IF low # {} THEN Max(low) ELSE 0
            kept == SubSeq(s, 1, m)
            r == IF kept = <<>> \/ level > kept[Len(kept)] THEN Append(kept, level) ELSE kept
<1>1. Len(s) \in Nat /\ DOMAIN s = 1 .. Len(s) /\ \A i \in 1 .. Len(s) : s[i] \in Int
  OBVIOUS
<1>2. Out!manageTree(s, level) = r
  BY DEF Out!manageTree, Out!SelectLastInSeq, Out!Max, Max
<1>3. m \in 0 .. Len(s) /\ \A i \in 1 .. Len(s) : i <= m <=> s[i] <= level
  <2>1. CASE low = {}
    BY <1>1, <2>1
  <2>2. CASE low # {}
    <3>1. m = Max(low)
      BY <2>2
    <3>. HIDE DEF m
    <3>2. m \in low /\ \A i \in low : i <= m
      <4>1. low \subseteq 1 .. Len(s)
        OBVIOUS
      <4>. HIDE DEF low
      <4>. QED
        BY <1>1, <2>2, <3>1, <4>1, MaxOfRange
    <3>3. m \in 1 .. Len(s) /\ s[m] <= level
      BY <3>2
    <3>4. ASSUME NEW i \in 1 .. Len(s), i <= m PROVE s[i] <= level
      <4>1. i = m \/ s[i] < s[m]
        BY <1>1, <3>3, <3>4 DEF Rises
      <4>2. s[i] \in Int /\ s[m] \in Int
        BY <1>1, <3>3
      <4>. QED
        BY <3>3, <4>1, <4>2
    <3>5. ASSUME NEW i \in 1 .. Len(s), s[i] <= level PROVE i <= m
      BY <3>2, <3>5
    <3>. QED
      BY <3>3, <3>4, <3>5
  <2>. QED
    BY <2>1, <2>2
<1>. HIDE DEF m, low
<1>4. kept \in Seq(Int) /\ Len(kept) = m /\ \A i \in 1 .. m : i \in 1 .. Len(s) /\ kept[i] = s[i]
  <2>1. m \in Nat /\ m <= Len(s)
    BY <1>1, <1>3
  <2>. QED
    BY <1>1, <2>1
<1>5. kept = <<>> <=> m = 0
  <2>. HIDE DEF kept
  <2>. QED
    BY <1>3, <1>4
<1>. HIDE DEF kept
<1>6. /\ DOMAIN kept = 1 .. m /\ m \in Nat
      /\ \A i, j \in 1 .. m : i < j => kept[i] < kept[j]
      /\ \A i \in 1 .. m : kept[i] \in Int /\ kept[i] <= level
  <2>1. DOMAIN kept = 1 .. m /\ m \in Nat
    BY <1>3, <1>4
  <2>2. \A i \in 1 .. m : kept[i] = s[i] /\ i \in 1 .. Len(s)
    BY <1>4
  <2>3. \A i \in 1 .. m : kept[i] \in Int /\ kept[i] <= level
    <3>. SUFFICES ASSUME NEW i \in 1 .. m PROVE kept[i] \in Int /\ kept[i] <= level
      OBVIOUS
    <3>1. i \in 1 .. Len(s) /\ i <= m /\ kept[i] = s[i]
      BY <2>1, <2>2
    <3>. QED
      BY <1>1, <1>3, <3>1
  <2>4. \A i, j \in 1 .. m : i < j => kept[i] < kept[j]
    BY <1>1, <2>2 DEF Rises
  <2>. QED
    BY <2>1, <2>3, <2>4
<1>7. \A v : (\E i \in 1 .. m : kept[i] = v) <=> \E i \in DOMAIN s : s[i] = v /\ v <= level
  <2>1. \A i \in DOMAIN s : s[i] <= level => i \in 1 .. m
    BY <1>1, <1>3
  <2>. QED
    BY <1>1, <1>4, <1>6, <2>1
<1>8. \A i \in DOMAIN s : s[i] <= level <=> s[i] < level \/ s[i] = level
  BY <1>1
<1>9. CASE m = 0 \/ level > kept[m]
  <2>. DEFINE a == Append(kept, level)
  <2>1. r = a
    BY <1>4, <1>5, <1>9
  <2>2. /\ a \in Seq(Int) /\ Len(a) = m + 1 /\ a[m + 1] = level
        /\ \A i \in 1 .. m : a[i] = kept[i]
    BY <1>4, AppendProperties
  <2>. HIDE DEF a, r
  <2>3. DOMAIN a = 1 .. m + 1 /\ \A i : i \in DOMAIN a <=> i \in 1 .. m \/ i = m + 1
    BY <1>6, <2>2
  <2>4. \A i \in 1 .. m : kept[i] < level
    <3>. SUFFICES ASSUME NEW i \in 1 .. m PROVE kept[i] < level
      OBVIOUS
    <3>1. m \in 1 .. m /\ kept[m] < level
      BY <1>6, <1>9
    <3>2. i = m \/ kept[i] < kept[m]
      BY <1>6, <3>1
    <3>3. kept[i] \in Int /\ kept[m] \in Int
      BY <1>6, <3>1
    <3>. QED
      BY <3>1, <3>2, <3>3
  <2>5. Rises(a)
    <3>. SUFFICES ASSUME NEW i \in DOMAIN a, NEW j \in DOMAIN a, i < j PROVE a[i] < a[j]
      BY DEF Rises
    <3>1. i \in 1 .. m
      BY <1>6, <2>3
    <3>2. CASE j = m + 1
      BY <2>2, <2>4, <3>1, <3>2
    <3>3. CASE j \in 1 .. m
      BY <1>6, <2>2, <3>1, <3>3
    <3>. QED
      BY <2>3, <3>2, <3>3
  <2>6. \A v : (\E i \in DOMAIN a : a[i] = v) <=> v = level \/ \E i \in 1 .. m : kept[i] = v
    BY <2>2, <2>3
  <2>7. \A v : v = level \/ (\E i \in DOMAIN s : s[i] = v /\ v <= level)
               <=> v = level \/ \E i \in DOMAIN s : s[i] = v /\ v < level
    BY <1>8
  <2>8. \A v : (\E i \in DOMAIN a : a[i] = v)
               <=> v = level \/ \E i \in DOMAIN s : s[i] = v /\ v < level
    BY <1>7, <2>6, <2>7
  <2>. QED
    BY <1>2, <2>1, <2>2, <2>5, <2>8
<1>10. CASE ~(m = 0 \/ level > kept[m])
  <2>1. r = kept /\ m \in 1 .. m
    BY <1>4, <1>5, <1>6, <1>10
  <2>. HIDE DEF r
  <2>2. kept[m] = level
    BY <1>6, <1>10, <2>1
  <2>3. Rises(kept)
    BY <1>6 DEF Rises
  <2>4. \A v : (\E i \in DOMAIN kept : kept[i] = v)
               <=> v = level \/ \E i \in DOMAIN s : s[i] = v /\ v < level
    BY <1>6, <1>7, <1>8, <2>1, <2>2
  <2>. QED
    BY <1>2, <1>4, <2>1, <2>3, <2>4
<1>. QED
  BY <1>9, <1>10

(* Of n levels, the places of those lower than all since.                  *)
Standing(levels, n) == {j \in 1 .. n : \A k \in j + 1 .. n : levels[j] < levels[k]}

(* The stack holds their levels.                                           *)
Stacks(s, levels, n) ==
  /\ s \in Seq(Int) /\ Rises(s)
  /\ \A v : (\E i \in DOMAIN s : s[i] = v) <=> \E j \in Standing(levels, n) : levels[j] = v

(* After one level more, it stands, and those that stood and are lower.    *)
LEMMA StandingNext ==
  ASSUME NEW n \in Nat, NEW levels, \A i \in 1 .. n + 1 : levels[i] \in Int
  PROVE  \A j : j \in Standing(levels, n + 1)
                <=> j = n + 1 \/ (j \in Standing(levels, n) /\ levels[j] < levels[n + 1])
<1>. SUFFICES ASSUME NEW j
              PROVE  j \in Standing(levels, n + 1)
                     <=> j = n + 1 \/ (j \in Standing(levels, n) /\ levels[j] < levels[n + 1])
  OBVIOUS
<1>1. CASE j \in 1 .. n
  <2>1. \A k : k \in j + 1 .. n + 1 <=> k \in j + 1 .. n \/ k = n + 1
    BY <1>1
  <2>2. j \in 1 .. n + 1 /\ j # n + 1
    BY <1>1
  <2>. QED
    BY <1>1, <2>1, <2>2 DEF Standing
<1>2. CASE j = n + 1
  <2>1. j \in 1 .. n + 1 /\ j + 1 .. n + 1 = {}
    BY <1>2
  <2>. QED
    BY <1>2, <2>1 DEF Standing
<1>3. CASE ~(j \in 1 .. n) /\ j # n + 1
  <2>1. ~(j \in 1 .. n + 1)
    BY <1>3
  <2>. QED
    BY <1>3, <2>1 DEF Standing
<1>. QED
  BY <1>1, <1>2, <1>3

(* manageTree keeps the stack to what stands.                              *)
LEMMA StacksNext ==
  ASSUME NEW n \in Nat, NEW levels, \A i \in 1 .. n + 1 : levels[i] \in Int,
         NEW s, Stacks(s, levels, n)
  PROVE  Stacks(Out!manageTree(s, levels[n + 1]), levels, n + 1)
<1>. DEFINE level == levels[n + 1]
            r == Out!manageTree(s, level)
<1>1. level \in Int /\ s \in Seq(Int) /\ Rises(s)
  BY DEF Stacks
<1>2. \A v : (\E i \in DOMAIN s : s[i] = v) <=> \E j \in Standing(levels, n) : levels[j] = v
  BY DEF Stacks
<1>3. \A j : j \in Standing(levels, n + 1)
             <=> j = n + 1 \/ (j \in Standing(levels, n) /\ levels[j] < level)
  BY StandingNext
<1>4. /\ r \in Seq(Int) /\ Rises(r)
      /\ \A v : (\E i \in DOMAIN r : r[i] = v)
                <=> v = level \/ \E i \in DOMAIN s : s[i] = v /\ v < level
  <2>. HIDE DEF level
  <2>. QED
    BY <1>1, ManageTreeIs
<1>. HIDE DEF r
<1>5. ASSUME NEW v
      PROVE (\E i \in DOMAIN r : r[i] = v) <=> \E j \in Standing(levels, n + 1) : levels[j] = v
  <2>1. (\E i \in DOMAIN s : s[i] = v /\ v < level)
        <=> \E j \in Standing(levels, n) : levels[j] = v /\ v < level
    BY <1>2
  <2>2. (\E j \in Standing(levels, n + 1) : levels[j] = v)
        <=> v = level \/ \E j \in Standing(levels, n) : levels[j] = v /\ v < level
    BY <1>3
  <2>. QED
    BY <1>4, <2>1, <2>2
<1>. QED
  BY <1>4, <1>5 DEF Stacks, r

(* As many levels are on it as there are such places.                      *)
LEMMA StacksCount ==
  ASSUME NEW n \in Nat, NEW levels, \A i \in 1 .. n : levels[i] \in Int,
         NEW s, Stacks(s, levels, n)
  PROVE  IsFiniteSet(Standing(levels, n)) /\ Cardinality(Standing(levels, n)) = Len(s)
<1>. DEFINE R == Standing(levels, n)
            f == [i \in 1 .. Len(s) |-> CHOOSE j \in R : levels[j] = s[i]]
<1>1. /\ s \in Seq(Int) /\ Len(s) \in Nat /\ DOMAIN s = 1 .. Len(s)
      /\ \A i, j \in 1 .. Len(s) : i < j => s[i] < s[j]
      /\ \A v : (\E i \in DOMAIN s : s[i] = v) <=> \E j \in R : levels[j] = v
  BY DEF Stacks, Rises
<1>2. \A i \in 1 .. Len(s) : f[i] \in R /\ levels[f[i]] = s[i]
  <2>. SUFFICES ASSUME NEW i \in 1 .. Len(s) PROVE f[i] \in R /\ levels[f[i]] = s[i]
    OBVIOUS
  <2>1. \E j \in R : levels[j] = s[i]
    BY <1>1
  <2>. QED
    BY <2>1
<1>3. \A j, k \in R : levels[j] = levels[k] => j = k
  <2>. SUFFICES ASSUME NEW j \in R, NEW k \in R, levels[j] = levels[k], j < k PROVE FALSE
    <3>1. \A j, k \in R : j \in Int /\ k \in Int
      BY DEF Standing
    <3>. QED
      BY <3>1
  <2>1. j \in 1 .. n /\ k \in j + 1 .. n
    BY DEF Standing
  <2>2. levels[j] < levels[k] /\ levels[j] \in Int
    BY <2>1 DEF Standing
  <2>. QED
    BY <2>2
<1>. HIDE DEF R
<1>4. \A i, j \in 1 .. Len(s) : f[i] = f[j] => i = j
  <2>. SUFFICES ASSUME NEW i \in 1 .. Len(s), NEW j \in 1 .. Len(s), s[i] = s[j] PROVE i = j
    BY <1>2
  <2>1. s[i] \in Int /\ s[j] \in Int
    BY <1>1
  <2>. QED
    BY <1>1, <2>1
<1>5. \A k \in R : \E i \in 1 .. Len(s) : f[i] = k
  <2>. SUFFICES ASSUME NEW k \in R PROVE \E i \in 1 .. Len(s) : f[i] = k
    OBVIOUS
  <2>1. PICK i \in 1 .. Len(s) : s[i] = levels[k]
    BY <1>1
  <2>. QED
    BY <1>2, <1>3, <2>1
<1>6. f \in [1 .. Len(s) -> R]
  BY <1>2
<1>. HIDE DEF f
<1>7. f \in Bijection(1 .. Len(s), R)
  BY <1>4, <1>5, <1>6 DEF Bijection, Injection, Surjection, IsInjective
<1>8. ExistsBijection(1 .. Len(s), R)
  BY <1>7 DEF ExistsBijection
<1>9. Cardinality(R) = Len(s)
  <2>. DEFINE count == Len(s)
  <2>1. count \in Nat
    BY <1>1
  <2>2. ExistsBijection(1 .. count, R)
    BY <1>8
  <2>. HIDE DEF count
  <2>3. Cardinality(R) = count
    BY <2>1, <2>2, Counted
  <2>. QED
    BY <2>3 DEF count
<1>10. IsFiniteSet(R)
  <2>1. IsFiniteSet(1 .. n) /\ R \subseteq 1 .. n
    BY FS_Interval DEF R, Standing
  <2>. QED
    BY <2>1, FS_Subset
<1>. QED
  BY <1>9, <1>10 DEF R

(* PackedLevel, a fold.                                                    *)
LEMMA PackedFold ==
  ASSUME NEW levels
  PROVE  Out!PackedLevel(levels) = Len(
           (CHOOSE t : t = [s \in SUBSET DOMAIN levels |->
              IF s = {} THEN <<>>
              ELSE Out!manageTree(t[s \ {Out!Max(s)}], levels[Out!Max(s)])])
           [DOMAIN levels]) - 1
BY DEF Out!PackedLevel, Out!FoldLeft, Out!MapThenFoldSet

(* manageTree over levels is such a table: after each of them the stack    *)
(* holds the levels of what stands.                                        *)
LEMMA PackedStacks ==
  ASSUME NEW n \in Nat, NEW levels \in [1 .. n -> Int]
  PROVE  \E s : Stacks(s, levels, n) /\ Out!PackedLevel(levels) = Len(s) - 1
<1>. DEFINE D == {s \in Seq(Int) : Rises(s)}
            Call(x, i) == Out!manageTree(x, levels[i])
            op == [p \in D \X (1 .. n) |-> Call(p[1], p[2])]
            base == <<>>
            It(t) == t = [s \in SUBSET DOMAIN levels |->
                       IF s = {} THEN base ELSE Call(t[s \ {Out!Max(s)}], Out!Max(s))]
<1>1. Out!PackedLevel(levels) = Len((CHOOSE t : It(t))[DOMAIN levels]) - 1
  BY PackedFold
<1>2. DOMAIN levels = 1 .. n /\ base \in D /\ \A i \in 1 .. n : levels[i] \in Int
  BY DEF Rises
<1>3. \A x \in D, i \in 1 .. n : Call(x, i) \in D
  <2>. SUFFICES ASSUME NEW x \in D, NEW i \in 1 .. n PROVE Call(x, i) \in D
    OBVIOUS
  <2>. DEFINE level == levels[i]
  <2>1. level \in Int /\ x \in Seq(Int) /\ Rises(x)
    BY <1>2
  <2>. HIDE DEF level
  <2>2. Out!manageTree(x, level) \in Seq(Int) /\ Rises(Out!manageTree(x, level))
    BY <2>1, ManageTreeIs
  <2>. QED
    BY <2>2 DEF level
<1>4. Stacks(base, levels, 0)
  <2>1. Standing(levels, 0) = {}
    BY DEF Standing
  <2>2. base \in Seq(Int) /\ DOMAIN base = {}
    OBVIOUS
  <2>. QED
    BY <2>1, <2>2 DEF Stacks, Rises
<1>5. \A s : Out!Max(s) = Max(s)
  BY DEF Max, Out!Max
<1>6. ASSUME NEW x, NEW i \in Nat, i + 1 \in 1 .. n, Stacks(x, levels, i)
      PROVE  Stacks(Call(x, i + 1), levels, i + 1)
  <2>1. \A j \in 1 .. i + 1 : levels[j] \in Int
    BY <1>2, <1>6
  <2>. QED
    BY <1>6, <2>1, StacksNext
<1>. HIDE DEF Call, base, D
<1>7. op \in [D \X (1 .. n) -> D] /\ \A x \in D, i \in 1 .. n : op[<<x, i>>] = Call(x, i)
  BY <1>3
<1>. HIDE DEF op
<1>8. PICK t \in [SUBSET (1 .. n) -> D] : FoldsBy(t, 1 .. n, base, op)
  BY <1>2, <1>7, FoldTable
<1>9. ASSUME NEW s \in SUBSET (1 .. n)
      PROVE  t[s] = IF s = {} THEN base ELSE Call(t[s \ {Out!Max(s)}], Out!Max(s))
  <2>1. CASE s = {}
    BY <1>8, <2>1 DEF FoldsBy
  <2>2. CASE s # {}
    <3>1. Max(s) \in 1 .. n
      BY <2>2, MaxOfRange
    <3>2. t[s \ {Max(s)}] \in D
      BY <1>8
    <3>3. t[s] = op[<<t[s \ {Max(s)}], Max(s)>>]
      BY <1>8, <2>2 DEF FoldsBy
    <3>4. t[s] = Call(t[s \ {Max(s)}], Max(s))
      BY <1>7, <3>1, <3>2, <3>3
    <3>. QED
      BY <1>5, <2>2, <3>4
  <2>. QED
    BY <2>1, <2>2
<1>10. It(t)
  BY <1>2, <1>8, <1>9
<1>11. It(CHOOSE u : It(u))
  <2>. HIDE DEF It
  <2>. QED
    BY <1>10
<1>. DEFINE u == CHOOSE v : It(v)
<1>12. \A s \in SUBSET (1 .. n) : u[s] = IF s = {} THEN base ELSE Call(u[s \ {Max(s)}], Max(s))
  <2>1. u = [s \in SUBSET DOMAIN levels |->
               IF s = {} THEN base ELSE Call(u[s \ {Out!Max(s)}], Out!Max(s))]
    BY <1>11
  <2>. HIDE DEF u
  <2>. QED
    BY <1>2, <1>5, <2>1
<1>13. Out!PackedLevel(levels) = Len(u[1 .. n]) - 1
  BY <1>1, <1>2
<1>. HIDE DEF u
<1>. DEFINE Is(i) == i <= n => Stacks(u[1 .. i], levels, i)
            P == {i \in Nat : Is(i)}
<1>14. 0 \in P
  <2>1. 1 .. 0 = {} /\ 1 .. 0 \in SUBSET (1 .. n)
    OBVIOUS
  <2>2. u[1 .. 0] = base
    BY <1>12, <2>1
  <2>. QED
    BY <1>4, <2>2
<1>15. \A i \in Nat : i \in P => i + 1 \in P
  <2>. SUFFICES ASSUME NEW i \in Nat, Is(i), i + 1 <= n
                PROVE  Stacks(u[1 .. i + 1], levels, i + 1)
    OBVIOUS
  <2>1. i + 1 \in 1 .. n /\ i + 1 \in Nat \ {0} /\ (i + 1) - 1 = i
    OBVIOUS
  <2>2. Max(1 .. i + 1) = i + 1 /\ (1 .. i + 1) \ {i + 1} = 1 .. i
    BY <2>1, MaxOfAll
  <2>3. 1 .. i + 1 \in SUBSET (1 .. n) /\ 1 .. i + 1 # {}
    <3>1. 1 \in 1 .. i + 1
      OBVIOUS
    <3>2. \A j \in 1 .. i + 1 : j \in 1 .. n
      BY <2>1
    <3>. QED
      BY <3>1, <3>2
  <2>4. u[1 .. i + 1] = Call(u[1 .. i], i + 1)
    BY <1>12, <2>2, <2>3
  <2>5. Stacks(u[1 .. i], levels, i)
    OBVIOUS
  <2>. QED
    BY <1>6, <2>1, <2>4, <2>5
<1>16. n \in P
  <2>. HIDE DEF P
  <2>. QED
    BY <1>14, <1>15, SetInduction
<1>. QED
  BY <1>13, <1>16

(* The packed level of the last of n: as many as the levels before it that *)
(* are lower than all since.                                               *)
Packed(n, levels) ==
  Out!PackedLevel(levels)
  = Cardinality({j \in 1 .. n - 1 : \A k \in j + 1 .. n : levels[j] < levels[k]})

(* So it is.                                                               *)
LEMMA PackedIs ==
  ASSUME NEW n \in Nat \ {0}, NEW levels \in [1 .. n -> Int]
  PROVE  Packed(n, levels)
<1>. DEFINE Ancestors == {j \in 1 .. n - 1 : \A k \in j + 1 .. n : levels[j] < levels[k]}
<1>1. PICK s : Stacks(s, levels, n) /\ Out!PackedLevel(levels) = Len(s) - 1
  BY PackedStacks
<1>2. n \in Nat /\ \A i \in 1 .. n : levels[i] \in Int
  OBVIOUS
<1>3. IsFiniteSet(Standing(levels, n)) /\ Cardinality(Standing(levels, n)) = Len(s)
  BY <1>1, <1>2, StacksCount
<1>4. Standing(levels, n) = Ancestors \cup {n} /\ n \notin Ancestors
  <2>1. n + 1 .. n = {} /\ \A j : j \in 1 .. n <=> j \in 1 .. n - 1 \/ j = n
    OBVIOUS
  <2>2. n \notin 1 .. n - 1
    OBVIOUS
  <2>. QED
    BY <2>1, <2>2 DEF Standing
<1>. HIDE DEF Ancestors
<1>5. IsFiniteSet(Ancestors)
  BY <1>3, <1>4, FS_Subset
<1>6. Cardinality(Standing(levels, n)) = Cardinality(Ancestors) + 1
  BY <1>4, <1>5, FS_AddElement
<1>7. Cardinality(Ancestors) \in Nat
  BY <1>5, FS_CardinalityType
<1>8. Out!PackedLevel(levels) = Cardinality(Ancestors)
  BY <1>1, <1>3, <1>6, <1>7
<1>. QED
  BY <1>8 DEF Ancestors, Packed

-----------------------------------------------------------------------------
(* The walk of a search over the regions of one line after the other.      *)

(* The brackets of a text, given by the regions of its lines, and how many *)
(* more of a set of them open than close.                                  *)
Texts == [Lines -> Seq(Out!Calls)]
At(t, p) == t[p[1]][p[2]]
BracketsOf(t) == {p \in Lines \X Nat : p[2] \in DOMAIN t[p[1]] /\ At(t, p) \in Pairs}
Opening(t, v) == {p \in v : At(t, p) = "pairStart"}
Closing(t, v) == {p \in v : At(t, p) = "pairEnd"}
Excess(t, v) == Cardinality(Opening(t, v)) - Cardinality(Closing(t, v))

(* Those from p to c.                                                      *)
Upto(t, p, down, c) == {r \in BracketsOf(t) : Toward(down, p, r) /\ Toward(down, r, c)}

PairMatches ==
  [sline : Lines, sat : Nat, topPosition : BOOLEAN, pairBalance : Int, eline : Int, eat : Int]

(* The bracket a search has found is the first with which the pairs from   *)
(* its own are even.                                                       *)
Even(t, v) == Cardinality(Opening(t, v)) = Cardinality(Closing(t, v))
FirstEven(t, p, down, q) ==
  /\ q \in Upto(t, p, down, q)
  /\ Even(t, Upto(t, p, down, q))
  /\ \A r \in Upto(t, p, down, q) : r # q => ~Even(t, Upto(t, p, down, r))

(* What a search has walked over when it has come to c.                    *)
Walked(t, pm, c) ==
  LET p == <<pm.sline, pm.sat>>
      down == pm.topPosition
      v == Upto(t, p, down, c)
  IN /\ pm \in PairMatches
     /\ p \in BracketsOf(t) /\ Toward(down, p, c)
     /\ down = (At(t, p) = "pairStart")
     /\ pm.pairBalance # 0 =>
          /\ pm.eline = NoMatch /\ pm.eat = 0
          /\ IsFiniteSet(v) /\ pm.pairBalance = Excess(t, v)
          /\ (pm.pairBalance > 0) = down
          /\ \A r \in v : ~Even(t, Upto(t, p, down, r))
     /\ pm.pairBalance = 0 =>
          /\ FirstEven(t, p, down, <<pm.eline, pm.eat>>)
          /\ Toward(down, <<pm.eline, pm.eat>>, c)

(* A set of brackets, one of which is added.                               *)
LEMMA ExcessType ==
  ASSUME NEW t, NEW v, IsFiniteSet(v)
  PROVE  /\ Excess(t, v) \in Int
         /\ Even(t, v) <=> Excess(t, v) = 0
         /\ IsFiniteSet(Opening(t, v)) /\ IsFiniteSet(Closing(t, v))
<1>1. IsFiniteSet(Opening(t, v)) /\ IsFiniteSet(Closing(t, v))
  BY FS_Subset DEF Opening, Closing
<1>2. Cardinality(Opening(t, v)) \in Nat /\ Cardinality(Closing(t, v)) \in Nat
  BY <1>1, FS_CardinalityType
<1>. QED
  BY <1>1, <1>2 DEF Excess, Even

(* One more bracket.                                                       *)
LEMMA ExcessNext ==
  ASSUME NEW t, NEW v, IsFiniteSet(v), NEW z, z \notin v, At(t, z) \in Pairs
  PROVE  /\ IsFiniteSet(v \cup {z})
         /\ Excess(t, v \cup {z}) = Excess(t, v) + Weight(At(t, z))
<1>. DEFINE o == Opening(t, v)
            c == Closing(t, v)
<1>1. IsFiniteSet(v \cup {z})
  BY FS_AddElement
<1>2. /\ IsFiniteSet(o) /\ IsFiniteSet(c)
      /\ Cardinality(o) \in Nat /\ Cardinality(c) \in Nat
  BY ExcessType, FS_CardinalityType
<1>3. z \notin o /\ z \notin c
  BY DEF Opening, Closing
<1>4. CASE At(t, z) = "pairStart"
  <2>1. Opening(t, v \cup {z}) = o \cup {z} /\ Closing(t, v \cup {z}) = c
    BY <1>4 DEF Opening, Closing
  <2>. HIDE DEF o, c
  <2>2. Cardinality(o \cup {z}) = Cardinality(o) + 1
    BY <1>2, <1>3, FS_AddElement
  <2>3. Weight(At(t, z)) = 1
    BY <1>4 DEF Weight
  <2>4. Excess(t, v) = Cardinality(o) - Cardinality(c)
    BY DEF Excess, o, c
  <2>5. Excess(t, v \cup {z}) = (Cardinality(o) + 1) - Cardinality(c)
    BY <2>1, <2>2 DEF Excess
  <2>. QED
    BY <1>1, <1>2, <2>3, <2>4, <2>5
<1>5. CASE At(t, z) = "pairEnd"
  <2>1. Opening(t, v \cup {z}) = o /\ Closing(t, v \cup {z}) = c \cup {z}
    BY <1>5 DEF Opening, Closing
  <2>. HIDE DEF o, c
  <2>2. Cardinality(c \cup {z}) = Cardinality(c) + 1
    BY <1>2, <1>3, FS_AddElement
  <2>3. Weight(At(t, z)) = -1
    BY <1>5 DEF Weight
  <2>. QED
    BY <1>1, <1>2, <2>1, <2>2, <2>3 DEF Excess, o, c
<1>. QED
  BY <1>4, <1>5 DEF Pairs

(* A step of the walk passes one place.                                    *)
LEMMA UptoNext ==
  ASSUME NEW t \in Texts, NEW p \in Lines \X Nat, NEW down \in BOOLEAN,
         NEW lno \in Lines, NEW i \in Int, NEW j \in Int, Toward(down, p, <<lno, i>>),
         j = IF down THEN i + 1 ELSE i - 1
  PROVE  /\ Toward(down, p, <<lno, j>>)
         /\ <<lno, j>> \notin Upto(t, p, down, <<lno, i>>)
         /\ Upto(t, p, down, <<lno, j>>)
            = Upto(t, p, down, <<lno, i>>)
              \cup (IF <<lno, j>> \in BracketsOf(t) THEN {<<lno, j>>} ELSE {})
<1>. DEFINE c == <<lno, i>>
            d == <<lno, j>>
<1>1. /\ c[1] = lno /\ c[2] = i /\ d[1] = lno /\ d[2] = j
      /\ lno \in Int
  BY DEF Lines
<1>2. \A r \in Lines \X Nat : r = <<r[1], r[2]>> /\ r[1] \in Int /\ r[2] \in Int
  BY DEF Lines
<1>. HIDE DEF c, d
<1>3. Toward(down, p, d)
  BY <1>1, <1>2 DEF Toward, LessEq, c
<1>4. ASSUME NEW r \in Lines \X Nat
      PROVE  /\ Toward(down, r, d) <=> Toward(down, r, c) \/ (r[1] = lno /\ r[2] = j)
             /\ Toward(down, r, c) => ~(r[1] = lno /\ r[2] = j)
             /\ r = d <=> (r[1] = lno /\ r[2] = j)
  <2>1. r[1] \in Int /\ r[2] \in Int /\ r = <<r[1], r[2]>>
    BY <1>2
  <2>2. r = d <=> (r[1] = lno /\ r[2] = j)
    BY <2>1 DEF d
  <2>. QED
    BY <1>1, <2>1, <2>2 DEF Toward, LessEq
<1>5. \A r \in BracketsOf(t) : r \in Lines \X Nat
  BY DEF BracketsOf
<1>6. d \notin Upto(t, p, down, c)
  BY <1>1, <1>4, <1>5 DEF Upto
<1>7. Upto(t, p, down, d) = Upto(t, p, down, c) \cup (IF d \in BracketsOf(t) THEN {d} ELSE {})
  <2>1. \A r : r \in Upto(t, p, down, d) <=>
                 r \in Upto(t, p, down, c) \/ (r \in BracketsOf(t) /\ r = d)
    BY <1>3, <1>4, <1>5 DEF Upto
  <2>. QED
    BY <2>1
<1>. QED
  BY <1>3, <1>6, <1>7 DEF c, d

(* A search's record, the balance of which is another.                     *)
LEMMA PassIs ==
  ASSUME NEW pm \in PairMatches, NEW lno \in Int, NEW regions, NEW i \in Int
  PROVE  LET r == Pass(pm, lno, regions, i)
             b == pm.pairBalance + Weight(regions[i])
         IN /\ r \in PairMatches
            /\ r.sline = pm.sline /\ r.sat = pm.sat /\ r.topPosition = pm.topPosition
            /\ pm.pairBalance = 0 => r = pm
            /\ pm.pairBalance # 0 /\ b = 0 => r.pairBalance = 0 /\ r.eline = lno /\ r.eat = i
            /\ pm.pairBalance # 0 /\ b # 0 =>
                 r.pairBalance = b /\ r.eline = pm.eline /\ r.eat = pm.eat
<1>. DEFINE r == Pass(pm, lno, regions, i)
            b == pm.pairBalance + Weight(regions[i])
            z == 0
<1>1. b \in Int /\ z \in Int /\ z = 0
  BY DEF Weight, PairMatches
<1>2. r =
        IF pm.pairBalance = 0 THEN pm
        ELSE IF b = 0 THEN [pm EXCEPT !.pairBalance = z, !.eline = lno, !.eat = i]
        ELSE [pm EXCEPT !.pairBalance = b]
  BY DEF Pass
<1>. HIDE DEF b, z, r
<1>3. /\ r \in PairMatches
      /\ r.sline = pm.sline /\ r.sat = pm.sat /\ r.topPosition = pm.topPosition
      /\ pm.pairBalance = 0 => r = pm
      /\ pm.pairBalance # 0 /\ b = 0 => r.pairBalance = 0 /\ r.eline = lno /\ r.eat = i
      /\ pm.pairBalance # 0 /\ b # 0 =>
           r.pairBalance = b /\ r.eline = pm.eline /\ r.eat = pm.eat
  <2>1. CASE pm.pairBalance = 0
    BY <1>2, <2>1
  <2>2. CASE pm.pairBalance # 0 /\ b = 0
    <3>1. r = [pm EXCEPT !.pairBalance = z, !.eline = lno, !.eat = i]
      BY <1>2, <2>2
    <3>. QED
      BY <1>1, <2>2, <3>1 DEF PairMatches
  <2>3. CASE pm.pairBalance # 0 /\ b # 0
    <3>1. r = [pm EXCEPT !.pairBalance = b]
      BY <1>2, <2>3
    <3>. QED
      BY <1>1, <2>3, <3>1 DEF PairMatches
  <2>. QED
    BY <2>1, <2>2, <2>3
<1>. QED
  BY <1>3 DEF r, b

(* It passes a region.                                                     *)
LEMMA PassStep ==
  ASSUME NEW t \in Texts, NEW pm, NEW lno \in Lines, NEW i \in Int, NEW j \in Int,
         j \in DOMAIN t[lno], Walked(t, pm, <<lno, i>>),
         j = IF pm.topPosition THEN i + 1 ELSE i - 1
  PROVE  Walked(t, Pass(pm, lno, t[lno], j), <<lno, j>>)
<1>. DEFINE p == <<pm.sline, pm.sat>>
            down == pm.topPosition
            c == <<lno, i>>
            d == <<lno, j>>
            v == Upto(t, p, down, c)
            w == Upto(t, p, down, d)
            m == Pass(pm, lno, t[lno], j)
            b == pm.pairBalance + Weight(t[lno][j])
<1>1. /\ pm \in PairMatches /\ p \in BracketsOf(t) /\ Toward(down, p, c)
      /\ down = (At(t, p) = "pairStart") /\ down \in BOOLEAN /\ pm.pairBalance \in Int
      /\ p \in Lines \X Nat
  BY DEF Walked, PairMatches, BracketsOf
<1>2. /\ pm.pairBalance # 0 =>
          /\ pm.eline = NoMatch /\ pm.eat = 0
          /\ IsFiniteSet(v) /\ pm.pairBalance = Excess(t, v)
          /\ (pm.pairBalance > 0) = down
          /\ \A r \in v : ~Even(t, Upto(t, p, down, r))
      /\ pm.pairBalance = 0 =>
          /\ FirstEven(t, p, down, <<pm.eline, pm.eat>>)
          /\ Toward(down, <<pm.eline, pm.eat>>, c)
  BY DEF Walked
<1>3. /\ m \in PairMatches
      /\ m.sline = pm.sline /\ m.sat = pm.sat /\ m.topPosition = pm.topPosition
      /\ pm.pairBalance = 0 => m = pm
      /\ pm.pairBalance # 0 /\ b = 0 => m.pairBalance = 0 /\ m.eline = lno /\ m.eat = j
      /\ pm.pairBalance # 0 /\ b # 0 =>
           m.pairBalance = b /\ m.eline = pm.eline /\ m.eat = pm.eat
  BY <1>1, PassIs DEF Lines
<1>4. /\ Toward(down, p, d) /\ d \notin v
      /\ w = v \cup (IF d \in BracketsOf(t) THEN {d} ELSE {})
  <2>1. p \in Lines \X Nat /\ down \in BOOLEAN /\ j = (IF down THEN i + 1 ELSE i - 1)
        /\ Toward(down, p, <<lno, i>>)
    BY <1>1
  <2>. HIDE DEF p, down
  <2>. QED
    BY <2>1, UptoNext
<1>5. At(t, d) = t[lno][j] /\ (d \in BracketsOf(t) <=> t[lno][j] \in Pairs)
  <2>1. j \in Nat
    BY DEF Texts
  <2>. QED
    BY <2>1 DEF At, BracketsOf
<1>6. Weight(t[lno][j]) \in {-1, 0, 1} /\ (Weight(t[lno][j]) = 0 <=> t[lno][j] \notin Pairs)
  BY DEF Weight, Pairs
<1>7. d[1] = lno /\ d[2] = j /\ c[1] = lno /\ c[2] = i /\ lno \in Int
  BY DEF Lines
<1>8. /\ m \in PairMatches /\ p = <<m.sline, m.sat>> /\ down = m.topPosition
      /\ p \in BracketsOf(t) /\ Toward(down, p, d) /\ down = (At(t, p) = "pairStart")
  BY <1>1, <1>3, <1>4
<1>. HIDE DEF p, down, c, d, v, w, m, b
<1>9. CASE pm.pairBalance = 0
  <2>1. m = pm /\ FirstEven(t, p, down, <<pm.eline, pm.eat>>)
    BY <1>2, <1>3, <1>9
  <2>2. Toward(down, <<pm.eline, pm.eat>>, d)
    <3>1. pm.eline \in Int /\ pm.eat \in Int
      BY <1>1 DEF PairMatches
    <3>. DEFINE q == <<pm.eline, pm.eat>>
    <3>2. q[1] \in Int /\ q[2] \in Int /\ Toward(down, q, c)
      BY <1>2, <1>9, <3>1
    <3>3. j = IF down THEN i + 1 ELSE i - 1
      BY DEF down
    <3>. HIDE DEF q
    <3>. QED
      BY <1>7, <3>2, <3>3 DEF Toward, LessEq, q
  <2>. QED
    BY <1>8, <1>9, <2>1, <2>2 DEF Walked, m, d
<1>10. CASE pm.pairBalance # 0 /\ t[lno][j] \notin Pairs
  <2>1. w = v /\ b # 0 /\ b = pm.pairBalance
    BY <1>1, <1>4, <1>5, <1>6, <1>10 DEF b
  <2>2. m.pairBalance = pm.pairBalance /\ m.eline = pm.eline /\ m.eat = pm.eat
    BY <1>3, <1>10, <2>1
  <2>3. /\ m.eline = NoMatch /\ m.eat = 0
        /\ IsFiniteSet(w) /\ m.pairBalance = Excess(t, w)
        /\ (m.pairBalance > 0) = down
        /\ \A r \in w : ~Even(t, Upto(t, p, down, r))
    BY <1>2, <1>10, <2>1, <2>2
  <2>. QED
    BY <1>8, <1>10, <2>2, <2>3 DEF Walked, m, d, w
<1>11. CASE pm.pairBalance # 0 /\ t[lno][j] \in Pairs
  <2>1. w = v \cup {d} /\ IsFiniteSet(v) /\ d \notin v /\ At(t, d) \in Pairs
    BY <1>2, <1>4, <1>5, <1>11
  <2>2. IsFiniteSet(w) /\ Excess(t, w) = Excess(t, v) + Weight(At(t, d))
    BY <2>1, ExcessNext
  <2>3. Excess(t, w) = b /\ b \in Int /\ (Even(t, w) <=> b = 0)
    <3>1. Excess(t, w) = b
      BY <1>2, <1>5, <1>11, <2>2 DEF b
    <3>2. b \in Int
      BY <1>1, <1>6 DEF b
    <3>3. Even(t, w) <=> Excess(t, w) = 0
      BY <2>2, ExcessType
    <3>. QED
      BY <3>1, <3>2, <3>3
  <2>4. \A r \in v : ~Even(t, Upto(t, p, down, r))
    BY <1>2, <1>11
  <2>5. CASE b = 0
    <3>1. m.pairBalance = 0 /\ m.eline = lno /\ m.eat = j /\ <<m.eline, m.eat>> = d
      BY <1>3, <1>11, <2>5 DEF d
    <3>2. d \in w
      BY <2>1
    <3>3. FirstEven(t, p, down, d)
      BY <2>1, <2>3, <2>4, <2>5, <3>2 DEF FirstEven, w
    <3>4. Toward(down, d, d)
      BY <1>7 DEF Toward, LessEq
    <3>. QED
      BY <1>8, <3>1, <3>3, <3>4 DEF Walked, m, d
  <2>6. CASE b # 0
    <3>1. m.pairBalance = b /\ m.eline = NoMatch /\ m.eat = 0
      BY <1>2, <1>3, <1>11, <2>6
    <3>2. (b > 0) = down
      <4>1. (pm.pairBalance > 0) = down
        BY <1>2, <1>11
      <4>. QED
        BY <1>1, <1>6, <1>11, <2>6, <4>1 DEF b
    <3>3. \A r \in w : ~Even(t, Upto(t, p, down, r))
      BY <2>1, <2>3, <2>4, <2>6 DEF w
    <3>4. /\ IsFiniteSet(w) /\ m.pairBalance = Excess(t, w) /\ m.pairBalance # 0
          /\ (m.pairBalance > 0) = down
      BY <2>2, <2>3, <2>6, <3>1, <3>2
    <3>. QED
      BY <1>8, <3>1, <3>3, <3>4 DEF Walked, m, d, w
  <2>. QED
    BY <2>5, <2>6
<1>. QED
  BY <1>9, <1>10, <1>11 DEF m, d

(* The places of a walk.                                                   *)
LEMMA OnwardIs ==
  ASSUME NEW pm \in PairMatches, NEW regions, Len(regions) \in Nat, NEW at \in Int,
         NEW n \in Nat, n = IF pm.pairBalance > 0 THEN Len(regions) - at ELSE at - 1
  PROVE  /\ DOMAIN Onward(pm, regions, at) = 1 .. n
         /\ \A k \in 1 .. n : /\ Onward(pm, regions, at)[k]
                                  = IF pm.pairBalance > 0 THEN at + k ELSE at - k
                              /\ Onward(pm, regions, at)[k] \in Int
<1>. DEFINE seq == Onward(pm, regions, at)
<1>1. seq = IF pm.pairBalance > 0 THEN [i \in 1 .. n |-> at + i] ELSE [i \in 1 .. n |-> at - i]
  BY DEF Onward
<1>. HIDE DEF seq
<1>2. DOMAIN seq = 1 .. n /\ \A k \in 1 .. n : seq[k] = IF pm.pairBalance > 0 THEN at + k ELSE at - k
  BY <1>1
<1>3. \A k \in 1 .. n : seq[k] \in Int
  BY <1>2
<1>. QED
  BY <1>2, <1>3 DEF seq

(* The fold of a walk, as the library defines it.                          *)
LEMMA WalkFold ==
  ASSUME NEW pm, NEW lno, NEW regions, NEW at
  PROVE  Walk(pm, lno, regions, at)
         = (CHOOSE u : u = [s \in SUBSET DOMAIN Onward(pm, regions, at) |->
              IF s = {} THEN pm
              ELSE Pass(u[s \ {Max(s)}], lno, regions, Onward(pm, regions, at)[Max(s)])])
           [DOMAIN Onward(pm, regions, at)]
BY DEF Walk, FoldLeft, MapThenFoldSet

(* A walk of n places, one after the other.                                *)
WalksBy(f, n, pm, lno, regions, at) ==
  /\ f \in [0 .. n -> PairMatches]
  /\ f[0] = pm
  /\ \A k \in 1 .. n : f[k] = Pass(f[k - 1], lno, regions, Onward(pm, regions, at)[k])
  /\ Walk(pm, lno, regions, at) = f[n]

(* There is such a table.                                                  *)
LEMMA WalkIs ==
  ASSUME NEW pm \in PairMatches, NEW lno \in Lines, NEW regions, NEW at \in Int, NEW n \in Nat,
         DOMAIN Onward(pm, regions, at) = 1 .. n,
         \A k \in 1 .. n : Onward(pm, regions, at)[k] \in Int
  PROVE  \E f : WalksBy(f, n, pm, lno, regions, at)
<1>. DEFINE seq == Onward(pm, regions, at)
            Call(x, k) == Pass(x, lno, regions, seq[k])
            op == [q \in PairMatches \X (1 .. n) |-> Call(q[1], q[2])]
            It(u) == u = [s \in SUBSET DOMAIN seq |->
                       IF s = {} THEN pm ELSE Call(u[s \ {Max(s)}], Max(s))]
<1>1. Walk(pm, lno, regions, at) = (CHOOSE u : It(u))[DOMAIN seq]
  BY WalkFold
<1>2. DOMAIN seq = 1 .. n
  OBVIOUS
<1>3. \A x \in PairMatches, k \in 1 .. n : Call(x, k) \in PairMatches
  <2>. SUFFICES ASSUME NEW x \in PairMatches, NEW k \in 1 .. n PROVE Call(x, k) \in PairMatches
    OBVIOUS
  <2>. DEFINE place == seq[k]
  <2>1. place \in Int /\ lno \in Int
    BY DEF Lines
  <2>. HIDE DEF place
  <2>2. Pass(x, lno, regions, place) \in PairMatches
    BY <2>1, PassIs
  <2>. QED
    BY <2>2 DEF place
<1>. HIDE DEF Call, seq
<1>4. op \in [PairMatches \X (1 .. n) -> PairMatches]
      /\ \A x \in PairMatches, k \in 1 .. n : op[<<x, k>>] = Call(x, k)
  BY <1>3
<1>. HIDE DEF op
<1>5. PICK u \in [SUBSET (1 .. n) -> PairMatches] : FoldsBy(u, 1 .. n, pm, op)
  BY <1>4, FoldTable
<1>6. ASSUME NEW s \in SUBSET (1 .. n)
      PROVE  u[s] = IF s = {} THEN pm ELSE Call(u[s \ {Max(s)}], Max(s))
  <2>1. CASE s = {}
    BY <1>5, <2>1 DEF FoldsBy
  <2>2. CASE s # {}
    <3>1. Max(s) \in 1 .. n
      BY <2>2, MaxOfRange
    <3>2. u[s \ {Max(s)}] \in PairMatches
      BY <1>5
    <3>3. u[s] = op[<<u[s \ {Max(s)}], Max(s)>>]
      BY <1>5, <2>2 DEF FoldsBy
    <3>4. u[s] = Call(u[s \ {Max(s)}], Max(s))
      BY <1>4, <3>1, <3>2, <3>3
    <3>. QED
      BY <2>2, <3>4
  <2>. QED
    BY <2>1, <2>2
<1>7. It(u)
  BY <1>2, <1>5, <1>6
<1>8. It(CHOOSE x : It(x))
  <2>. HIDE DEF It
  <2>. QED
    BY <1>7
<1>. DEFINE g == CHOOSE x : It(x)
<1>9. \A s \in SUBSET (1 .. n) : g[s] = IF s = {} THEN pm ELSE Call(g[s \ {Max(s)}], Max(s))
  <2>1. g = [s \in SUBSET DOMAIN seq |->
               IF s = {} THEN pm ELSE Call(g[s \ {Max(s)}], Max(s))]
    BY <1>8
  <2>. HIDE DEF g
  <2>. QED
    BY <1>2, <2>1
<1>10. Walk(pm, lno, regions, at) = g[1 .. n]
  BY <1>1, <1>2
<1>. HIDE DEF g
<1>. DEFINE f == [k \in 0 .. n |-> g[1 .. k]]
<1>11. f[0] = pm
  <2>1. 1 .. 0 = {} /\ 1 .. 0 \in SUBSET (1 .. n) /\ 0 \in 0 .. n
    OBVIOUS
  <2>. QED
    BY <1>9, <2>1
<1>12. ASSUME NEW k \in 1 .. n PROVE f[k] = Call(f[k - 1], k)
  <2>1. /\ Max(1 .. k) = k /\ (1 .. k) \ {k} = 1 .. k - 1 /\ 1 .. k # {}
        /\ 1 .. k \in SUBSET (1 .. n) /\ k \in 0 .. n /\ k - 1 \in 0 .. n
    <3>1. k \in Nat \ {0} /\ k \in 0 .. n /\ k - 1 \in 0 .. n
      OBVIOUS
    <3>2. 1 \in 1 .. k
      BY <3>1
    <3>3. 1 .. k \in SUBSET (1 .. n)
      OBVIOUS
    <3>. QED
      BY <3>1, <3>2, <3>3, MaxOfAll
  <2>2. g[1 .. k] = Call(g[1 .. k - 1], k)
    BY <1>9, <2>1
  <2>. QED
    BY <2>1, <2>2
<1>13. f \in [0 .. n -> PairMatches]
  <2>. DEFINE S == {k \in Nat : k <= n => f[k] \in PairMatches}
  <2>. HIDE DEF f
  <2>1. 0 \in S
    BY <1>11
  <2>2. \A k \in Nat : k \in S => k + 1 \in S
    <3>. SUFFICES ASSUME NEW k \in Nat, k \in S, k + 1 <= n PROVE f[k + 1] \in PairMatches
      OBVIOUS
    <3>1. k + 1 \in 1 .. n /\ (k + 1) - 1 = k /\ f[k] \in PairMatches
      OBVIOUS
    <3>. QED
      BY <1>3, <1>12, <3>1
  <2>3. Nat \subseteq S
    BY <2>1, <2>2, SetInduction
  <2>4. \A k \in 0 .. n : f[k] \in PairMatches
    BY <2>3
  <2>5. f = [k \in 0 .. n |-> f[k]]
    BY DEF f
  <2>. QED
    BY <2>4, <2>5
<1>14. Walk(pm, lno, regions, at) = f[n]
  BY <1>10
<1>. HIDE DEF f
<1>15. WalksBy(f, n, pm, lno, regions, at)
  BY <1>11, <1>12, <1>13, <1>14 DEF WalksBy, Call, seq
<1>. QED
  BY <1>15

(* A search walks over the rest of a line.                                 *)
LEMMA WalkStep ==
  ASSUME NEW t \in Texts, NEW pm, NEW lno \in Lines, NEW at \in Int,
         Walked(t, pm, <<lno, at>>), pm.pairBalance # 0,
         IF pm.topPosition THEN at \in 0 .. Len(t[lno]) ELSE at \in 1 .. Len(t[lno]) + 1
  PROVE  Walked(t, Walk(pm, lno, t[lno], at), <<lno, IF pm.topPosition THEN Len(t[lno]) ELSE 1>>)
<1>. DEFINE down == pm.topPosition
            regions == t[lno]
            seq == Onward(pm, regions, at)
            n == IF down THEN Len(regions) - at ELSE at - 1
<1>1. /\ pm \in PairMatches /\ (pm.pairBalance > 0) = down /\ down \in BOOLEAN
  BY DEF Walked, PairMatches
<1>2. regions \in Seq(Out!Calls) /\ Len(regions) \in Nat /\ DOMAIN regions = 1 .. Len(regions)
  BY DEF Texts
<1>3. n \in Nat
  BY <1>2
<1>4. /\ DOMAIN seq = 1 .. n
      /\ \A k \in 1 .. n : seq[k] = IF down THEN at + k ELSE at - k
  BY <1>1 DEF Onward
<1>5. \A k \in 1 .. n : seq[k] \in DOMAIN regions /\ seq[k] \in Int
  <2>. HIDE DEF regions, seq
  <2>. QED
    BY <1>2, <1>3, <1>4 DEF regions
<1>6. PICK f : WalksBy(f, n, pm, lno, regions, at)
  <2>. HIDE DEF regions, n
  <2>. QED
    BY <1>1, <1>3, <1>4, <1>5, WalkIs
<1>. DEFINE S == {k \in Nat : k <= n =>
                   /\ f[k] \in PairMatches /\ f[k].topPosition = down
                   /\ Walked(t, f[k], <<lno, IF down THEN at + k ELSE at - k>>)}
<1>7. 0 \in S
  BY <1>1, <1>6 DEF WalksBy
<1>8. ASSUME NEW k \in Nat, k \in S PROVE k + 1 \in S
  <2>. SUFFICES ASSUME k + 1 <= n
                PROVE  /\ f[k + 1] \in PairMatches /\ f[k + 1].topPosition = down
                       /\ Walked(t, f[k + 1], <<lno, IF down THEN at + (k + 1) ELSE at - (k + 1)>>)
    OBVIOUS
  <2>. DEFINE i == IF down THEN at + k ELSE at - k
              j == IF down THEN at + (k + 1) ELSE at - (k + 1)
              x == f[k]
  <2>1. /\ x \in PairMatches /\ x.topPosition = down /\ Walked(t, x, <<lno, i>>)
    BY <1>3, <1>8
  <2>2. k + 1 \in 1 .. n /\ (k + 1) - 1 = k
    BY <1>3
  <2>3. j \in DOMAIN regions /\ j = seq[k + 1] /\ i \in Int /\ j \in Int
        /\ j = IF x.topPosition THEN i + 1 ELSE i - 1
    <3>1. j = seq[k + 1] /\ j \in DOMAIN regions
      BY <1>4, <1>5, <2>2
    <3>2. i \in Int /\ j \in Int /\ j = IF down THEN i + 1 ELSE i - 1
      OBVIOUS
    <3>. QED
      BY <2>1, <3>1, <3>2
  <2>4. f[k + 1] = Pass(x, lno, t[lno], j)
    BY <1>6, <2>2, <2>3 DEF WalksBy
  <2>. HIDE DEF i, j, x, n
  <2>5. Walked(t, Pass(x, lno, t[lno], j), <<lno, j>>)
    BY <2>1, <2>3, PassStep
  <2>6. /\ Pass(x, lno, t[lno], j) \in PairMatches
        /\ Pass(x, lno, t[lno], j).topPosition = down
    BY <2>1, <2>3, PassIs DEF Lines
  <2>. QED
    BY <2>4, <2>5, <2>6 DEF j
<1>9. n \in S
  <2>. HIDE DEF S, n
  <2>. QED
    BY <1>3, <1>7, <1>8, SetInduction
<1>10. Walked(t, f[n], <<lno, IF down THEN at + n ELSE at - n>>)
  <2>. HIDE DEF n
  <2>. QED
    BY <1>3, <1>9
<1>11. (IF down THEN at + n ELSE at - n) = (IF down THEN Len(regions) ELSE 1)
  BY <1>2
<1>12. Walk(pm, lno, regions, at) = f[n]
  BY <1>6 DEF WalksBy
<1>. QED
  BY <1>10, <1>11, <1>12

(* Where no bracket lies between, a search is as far as it was.            *)
LEMMA Crossed ==
  ASSUME NEW t, NEW pm, NEW c, NEW d, Walked(t, pm, c),
         \A r \in BracketsOf(t) : Toward(pm.topPosition, r, c) <=> Toward(pm.topPosition, r, d)
  PROVE  Walked(t, pm, d)
<1>. DEFINE p == <<pm.sline, pm.sat>>
            down == pm.topPosition
<1>1. Upto(t, p, down, c) = Upto(t, p, down, d)
  BY DEF Upto
<1>2. p \in BracketsOf(t) /\ Toward(down, p, d)
  BY DEF Walked
<1>3. pm.pairBalance = 0 => Toward(down, <<pm.eline, pm.eat>>, d)
  <2>. SUFFICES ASSUME pm.pairBalance = 0 PROVE Toward(down, <<pm.eline, pm.eat>>, d)
    OBVIOUS
  <2>1. FirstEven(t, p, down, <<pm.eline, pm.eat>>) /\ Toward(down, <<pm.eline, pm.eat>>, c)
    BY DEF Walked
  <2>2. <<pm.eline, pm.eat>> \in BracketsOf(t)
    BY <2>1 DEF FirstEven, Upto
  <2>. QED
    BY <2>1, <2>2
<1>. HIDE DEF p, down
<1>. QED
  BY <1>1, <1>2, <1>3 DEF Walked, p, down

(* Where a search enters a line.                                           *)
EntryOf(down, lno) == IF down THEN <<lno, 0>> ELSE <<lno + 1, 1>>
Beyond(down, lno) == IF down THEN lno + 1 ELSE lno - 1

(* From the end of a line it comes to the next.                            *)
LEMMA LineLeft ==
  ASSUME NEW t \in Texts, NEW pm, NEW lno \in Lines,
         Walked(t, pm, <<lno, IF pm.topPosition THEN Len(t[lno]) ELSE 1>>)
  PROVE  Walked(t, pm, EntryOf(pm.topPosition, Beyond(pm.topPosition, lno)))
<1>. DEFINE down == pm.topPosition
            c == <<lno, IF down THEN Len(t[lno]) ELSE 1>>
            d == EntryOf(down, Beyond(down, lno))
<1>1. down \in BOOLEAN /\ lno \in Int /\ Len(t[lno]) \in Nat
  BY DEF Walked, PairMatches, Lines, Texts
<1>2. ASSUME NEW r \in BracketsOf(t) PROVE Toward(down, r, c) <=> Toward(down, r, d)
  <2>1. r \in Lines \X Nat /\ r[2] \in DOMAIN t[r[1]] /\ t[r[1]] \in Seq(Out!Calls)
    BY DEF BracketsOf, Texts
  <2>2. r[1] \in Int /\ r[2] \in 1 .. Len(t[r[1]]) /\ Len(t[r[1]]) \in Nat
    BY <2>1 DEF Lines
  <2>3. CASE down
    <3>1. c[1] = lno /\ c[2] = Len(t[lno]) /\ d[1] = lno + 1 /\ d[2] = 0
      BY <2>3 DEF EntryOf, Beyond
    <3>2. r[1] = lno => r[2] <= Len(t[lno])
      BY <2>2
    <3>. HIDE DEF c, d
    <3>. QED
      BY <1>1, <2>2, <2>3, <3>1, <3>2 DEF Toward, LessEq
  <2>4. CASE ~down
    <3>1. c = d
      BY <1>1, <2>4 DEF EntryOf, Beyond
    <3>. QED
      BY <3>1
  <2>. QED
    BY <2>3, <2>4
<1>. HIDE DEF d
<1>. QED
  BY <1>2, Crossed DEF d

(* The fields a walk keeps.                                                *)
LEMMA WalkKeeps ==
  ASSUME NEW pm \in PairMatches, NEW lno \in Lines, NEW regions, NEW at \in Int, NEW n \in Nat,
         DOMAIN Onward(pm, regions, at) = 1 .. n,
         \A k \in 1 .. n : Onward(pm, regions, at)[k] \in Int
  PROVE  LET m == Walk(pm, lno, regions, at)
         IN m.sline = pm.sline /\ m.sat = pm.sat /\ m.topPosition = pm.topPosition
<1>1. PICK f : WalksBy(f, n, pm, lno, regions, at)
  BY WalkIs
<1>. DEFINE S == {k \in Nat : k <= n =>
              f[k].sline = pm.sline /\ f[k].sat = pm.sat /\ f[k].topPosition = pm.topPosition}
<1>2. 0 \in S
  BY <1>1 DEF WalksBy
<1>3. ASSUME NEW k \in Nat, k \in S PROVE k + 1 \in S
  <2>. SUFFICES ASSUME k + 1 <= n
                PROVE  /\ f[k + 1].sline = pm.sline /\ f[k + 1].sat = pm.sat
                       /\ f[k + 1].topPosition = pm.topPosition
    OBVIOUS
  <2>. DEFINE x == f[k]
              i == Onward(pm, regions, at)[k + 1]
  <2>1. /\ k + 1 \in 1 .. n /\ (k + 1) - 1 = k
        /\ x.sline = pm.sline /\ x.sat = pm.sat /\ x.topPosition = pm.topPosition
    BY <1>3
  <2>2. f[k + 1] = Pass(x, lno, regions, i) /\ x \in PairMatches /\ i \in Int /\ lno \in Int
    BY <1>1, <2>1 DEF WalksBy, Lines
  <2>. HIDE DEF x, i
  <2>. QED
    BY <2>1, <2>2, PassIs
<1>4. n \in S
  <2>. HIDE DEF S
  <2>. QED
    BY <1>2, <1>3, SetInduction
<1>. QED
  BY <1>1, <1>4 DEF WalksBy

(* A search that enters a line passes all of it.                           *)
LEMMA LineWalked ==
  ASSUME NEW t \in Texts, NEW pm, NEW lno \in Lines, pm.pairBalance # 0,
         Walked(t, pm, EntryOf(pm.topPosition, lno))
  PROVE  LET m == Walk(pm, lno, t[lno], Edge(pm, t[lno]))
         IN /\ Walked(t, m, EntryOf(m.topPosition, Beyond(m.topPosition, lno)))
            /\ m.sline = pm.sline /\ m.topPosition = pm.topPosition
<1>. DEFINE down == pm.topPosition
            at == Edge(pm, t[lno])
            c == EntryOf(down, lno)
            m == Walk(pm, lno, t[lno], at)
<1>1. /\ pm \in PairMatches /\ down \in BOOLEAN /\ (pm.pairBalance > 0) = down
      /\ lno \in Int /\ Len(t[lno]) \in Nat
  BY DEF Walked, PairMatches, Lines, Texts
<1>2. at = IF down THEN 0 ELSE Len(t[lno]) + 1
  BY <1>1 DEF Edge
<1>3. ASSUME NEW r \in BracketsOf(t) PROVE Toward(down, r, c) <=> Toward(down, r, <<lno, at>>)
  <2>1. r \in Lines \X Nat /\ r[2] \in DOMAIN t[r[1]] /\ t[r[1]] \in Seq(Out!Calls)
    BY DEF BracketsOf, Texts
  <2>2. r[1] \in Int /\ r[2] \in 1 .. Len(t[r[1]]) /\ Len(t[r[1]]) \in Nat
    BY <2>1 DEF Lines
  <2>3. CASE ~down
    <3>. DEFINE d == <<lno, at>>
    <3>1. d[1] = lno /\ d[2] = Len(t[lno]) + 1 /\ c[1] = lno + 1 /\ c[2] = 1
      BY <1>2, <2>3 DEF EntryOf
    <3>2. r[1] = lno => r[2] <= Len(t[lno])
      BY <2>2
    <3>. HIDE DEF c, d
    <3>3. Toward(down, r, c) <=> Toward(down, r, d)
      BY <1>1, <2>2, <2>3, <3>1, <3>2 DEF Toward, LessEq
    <3>. QED
      BY <3>3 DEF d
  <2>4. CASE down
    <3>1. c = <<lno, at>>
      BY <1>1, <1>2, <2>4 DEF EntryOf
    <3>. QED
      BY <3>1
  <2>. QED
    BY <2>3, <2>4
<1>4. Walked(t, pm, <<lno, at>>)
  <2>. HIDE DEF at
  <2>. QED
    BY <1>3, Crossed
<1>. HIDE DEF at
<1>5. Walked(t, m, <<lno, IF down THEN Len(t[lno]) ELSE 1>>)
  BY <1>1, <1>2, <1>4, WalkStep
<1>6. m.sline = pm.sline /\ m.topPosition = down
  <2>. DEFINE regions == t[lno]
              n == IF pm.pairBalance > 0 THEN Len(regions) - at ELSE at - 1
  <2>1. n \in Nat /\ at \in Int /\ Len(regions) \in Nat
    BY <1>1, <1>2
  <2>2. n = IF pm.pairBalance > 0 THEN Len(regions) - at ELSE at - 1
    OBVIOUS
  <2>. HIDE DEF regions, n
  <2>3. /\ DOMAIN Onward(pm, regions, at) = 1 .. n
        /\ \A k \in 1 .. n : Onward(pm, regions, at)[k] \in Int
    BY <1>1, <2>1, <2>2, OnwardIs
  <2>4. /\ Walk(pm, lno, regions, at).sline = pm.sline
        /\ Walk(pm, lno, regions, at).topPosition = down
    BY <1>1, <2>1, <2>3, WalkKeeps
  <2>. QED
    BY <2>4 DEF regions
<1>. HIDE DEF m
<1>7. Walked(t, m, EntryOf(m.topPosition, Beyond(m.topPosition, lno)))
  BY <1>5, <1>6, LineLeft
<1>. QED
  BY <1>6, <1>7 DEF m, at

(* A search begins on its bracket.                                         *)
LEMMA SearchBegun ==
  ASSUME NEW t \in Texts, NEW lno \in Lines, NEW at \in DOMAIN t[lno], t[lno][at] \in Pairs
  PROVE  LET pm == NewPairMatch(lno, at, t[lno][at] = "pairStart")
         IN Walked(t, pm, <<lno, at>>) /\ pm.pairBalance # 0
<1>. DEFINE down == (t[lno][at] = "pairStart")
            pm == NewPairMatch(lno, at, down)
            p == <<lno, at>>
            none == {}
            one == {p}
<1>1. /\ at \in Nat /\ at \in 1 .. Len(t[lno]) /\ lno \in Int /\ p \in BracketsOf(t)
      /\ At(t, p) = t[lno][at]
  BY DEF Texts, Lines, BracketsOf, At
<1>2. /\ pm.sline = lno /\ pm.sat = at /\ pm.topPosition = down
      /\ pm.pairBalance = (IF down THEN 1 ELSE -1) /\ pm.eline = NoMatch /\ pm.eat = 0
      /\ pm \in PairMatches
  <2>1. at \in Nat /\ NoMatch \in Int /\ 0 \in Nat /\ (IF down THEN 1 ELSE -1) \in Int /\ down \in BOOLEAN
    BY <1>1 DEF NoMatch
  <2>. HIDE DEF down
  <2>. QED
    BY <2>1 DEF NewPairMatch, PairMatches
<1>3. p[1] = lno /\ p[2] = at
  OBVIOUS
<1>4. \A r \in BracketsOf(t) : r = <<r[1], r[2]>> /\ r[1] \in Int /\ r[2] \in Int
  BY DEF BracketsOf, Lines
<1>5. down \in BOOLEAN
  OBVIOUS
<1>6. Weight(t[lno][at]) = IF down THEN 1 ELSE -1
  BY DEF Weight, Pairs
<1>7. Toward(down, p, p) /\ Upto(t, p, down, p) = one
  <2>. HIDE DEF down
  <2>1. Toward(down, p, p)
    BY <1>1, <1>3 DEF Toward, LessEq
  <2>2. ASSUME NEW r \in BracketsOf(t), Toward(down, p, r), Toward(down, r, p) PROVE r = p
    BY <1>1, <1>4, <2>2 DEF Toward, LessEq
  <2>. HIDE DEF p
  <2>. QED
    BY <1>1, <2>1, <2>2 DEF Upto
<1>8. IsFiniteSet(one) /\ Excess(t, one) = IF down THEN 1 ELSE -1
  <2>1. IsFiniteSet(none) /\ Excess(t, none) = 0
    <3>1. Opening(t, none) = {} /\ Closing(t, none) = {}
      BY DEF Opening, Closing
    <3>2. IsFiniteSet({}) /\ Cardinality({}) = 0
      BY FS_EmptySet
    <3>. QED
      BY <3>1, <3>2 DEF Excess
  <2>2. p \notin none /\ At(t, p) \in Pairs /\ one = none \cup {p}
    BY <1>1
  <2>. HIDE DEF none, one, p
  <2>3. IsFiniteSet(none \cup {p}) /\ Excess(t, none \cup {p}) = Excess(t, none) + Weight(At(t, p))
    BY <2>1, <2>2, ExcessNext
  <2>. QED
    BY <1>1, <1>6, <2>1, <2>2, <2>3
<1>9. \A r \in one : ~Even(t, Upto(t, p, down, r))
  <2>1. ~Even(t, one)
    <3>. HIDE DEF one
    <3>. QED
      BY <1>8, ExcessType
  <2>. HIDE DEF p, down
  <2>. QED
    BY <1>7, <2>1
<1>. HIDE DEF pm, down, one
<1>10. /\ pm.pairBalance # 0 /\ (pm.pairBalance > 0) = down /\ pm.pairBalance = Excess(t, one)
  BY <1>2, <1>5, <1>8
<1>11. <<pm.sline, pm.sat>> = p /\ down = (At(t, p) = "pairStart")
  BY <1>1, <1>2 DEF down
<1>. HIDE DEF p
<1>12. Walked(t, pm, p)
  BY <1>1, <1>2, <1>7, <1>8, <1>9, <1>10, <1>11 DEF Walked
<1>. QED
  BY <1>10, <1>12 DEF pm, p, down

(* It passes the rest of its line.                                         *)
LEMMA FirstLineWalked ==
  ASSUME NEW t \in Texts, NEW lno \in Lines, NEW at \in DOMAIN t[lno], t[lno][at] \in Pairs
  PROVE  LET pm == NewPairMatch(lno, at, t[lno][at] = "pairStart")
             m == Walk(pm, lno, t[lno], at)
         IN /\ Walked(t, m, EntryOf(m.topPosition, Beyond(m.topPosition, lno)))
            /\ m.sline = lno /\ m.sat = at
<1>. DEFINE regions == t[lno]
            pm == NewPairMatch(lno, at, regions[at] = "pairStart")
            down == pm.topPosition
            m == Walk(pm, lno, regions, at)
            n == IF pm.pairBalance > 0 THEN Len(regions) - at ELSE at - 1
<1>1. Walked(t, pm, <<lno, at>>) /\ pm.pairBalance # 0
  BY SearchBegun
<1>2. pm.sline = lno /\ pm.sat = at
  BY DEF NewPairMatch
<1>3. at \in 1 .. Len(regions) /\ Len(regions) \in Nat /\ at \in Int
  BY DEF Texts
<1>. HIDE DEF pm, regions
<1>4. pm \in PairMatches /\ (pm.pairBalance > 0) = down /\ down \in BOOLEAN
  BY <1>1 DEF Walked, PairMatches
<1>5. n \in Nat /\ n = IF pm.pairBalance > 0 THEN Len(regions) - at ELSE at - 1
  BY <1>3
<1>. HIDE DEF n
<1>6. /\ DOMAIN Onward(pm, regions, at) = 1 .. n
      /\ \A k \in 1 .. n : Onward(pm, regions, at)[k] \in Int
  <2>1. pm \in PairMatches /\ Len(regions) \in Nat /\ at \in Int
    BY <1>3, <1>4
  <2>. QED
    BY <1>5, <2>1, OnwardIs
<1>7. m.sline = pm.sline /\ m.sat = pm.sat /\ m.topPosition = down
  BY <1>3, <1>4, <1>5, <1>6, WalkKeeps
<1>8. Walked(t, m, <<lno, IF down THEN Len(t[lno]) ELSE 1>>)
  BY <1>1, <1>3, <1>4, WalkStep DEF regions
<1>. HIDE DEF m
<1>9. Walked(t, m, EntryOf(m.topPosition, Beyond(m.topPosition, lno)))
  BY <1>7, <1>8, LineLeft
<1>. QED
  BY <1>2, <1>7, <1>9 DEF m, pm, regions

(* What a search for the match of p has to find among the brackets of the  *)
(* lines it looks in: those with which the pairs from p are even.          *)
Evens(t, p, down, first, last) ==
  {q \in BracketsOf(t) :
     /\ Toward(down, p, q) /\ Even(t, Upto(t, p, down, q))
     /\ IF down THEN q[1] <= last ELSE first <= q[1]}

(* The first of them, or that there is none.                               *)
Matching(t, p, down, first, last) ==
  IF Evens(t, p, down, first, last) = {} THEN <<NoMatch, 0>>
  ELSE CHOOSE q \in Evens(t, p, down, first, last) :
         \A r \in Evens(t, p, down, first, last) : Toward(down, q, r)

(* A search that is over has found it.                                     *)
LEMMA SearchOver ==
  ASSUME NEW t \in Texts, NEW pm, NEW lno \in Int, NEW first \in Int, NEW last \in Int,
         Walked(t, pm, EntryOf(pm.topPosition, lno)),
         IF pm.topPosition THEN lno - 1 <= last ELSE first <= lno + 1,
         pm.pairBalance = 0 \/ (IF pm.topPosition THEN last < lno ELSE lno < first)
  PROVE  <<pm.eline, pm.eat>> = Matching(t, <<pm.sline, pm.sat>>, pm.topPosition, first, last)
<1>. DEFINE p == <<pm.sline, pm.sat>>
            down == pm.topPosition
            q == <<pm.eline, pm.eat>>
            evens == Evens(t, p, down, first, last)
            c == EntryOf(down, lno)
<1>1. \A r \in BracketsOf(t) : r = <<r[1], r[2]>> /\ r[1] \in Int /\ r[2] \in Int /\ r[2] >= 1
  <2>. SUFFICES ASSUME NEW r \in BracketsOf(t)
                PROVE  r = <<r[1], r[2]>> /\ r[1] \in Int /\ r[2] \in Int /\ r[2] >= 1
    OBVIOUS
  <2>1. r \in Lines \X Nat /\ r[2] \in DOMAIN t[r[1]] /\ t[r[1]] \in Seq(Out!Calls)
    BY DEF BracketsOf, Texts
  <2>2. r[2] \in 1 .. Len(t[r[1]]) /\ r = <<r[1], r[2]>> /\ r[1] \in Int
    BY <2>1 DEF Lines
  <2>. QED
    BY <2>2
<1>2. /\ down \in BOOLEAN /\ p \in BracketsOf(t)
      /\ c[1] = (IF down THEN lno ELSE lno + 1) /\ c[2] = (IF down THEN 0 ELSE 1)
  BY DEF Walked, PairMatches, EntryOf
<1>3. /\ pm.pairBalance # 0 =>
          /\ pm.eline = NoMatch /\ pm.eat = 0
          /\ \A r \in Upto(t, p, down, c) : ~Even(t, Upto(t, p, down, r))
      /\ pm.pairBalance = 0 => FirstEven(t, p, down, q) /\ Toward(down, q, c)
  BY DEF Walked
<1>4. CASE pm.pairBalance # 0
  <2>1. ASSUME NEW r \in evens PROVE FALSE
    <3>1. /\ r \in BracketsOf(t) /\ Toward(down, p, r) /\ Even(t, Upto(t, p, down, r))
          /\ IF down THEN r[1] <= last ELSE first <= r[1]
      BY DEF Evens
    <3>2. r[1] \in Int /\ r[2] \in Int /\ r[2] >= 1
      BY <1>1, <3>1
    <3>3. IF down THEN last < lno ELSE lno < first
      BY <1>4
    <3>. HIDE DEF c, p, down
    <3>4. Toward(down, r, c)
      BY <1>2, <3>1, <3>2, <3>3 DEF Toward, LessEq
    <3>5. r \in Upto(t, p, down, c)
      BY <3>1, <3>4 DEF Upto
    <3>. QED
      BY <1>3, <1>4, <3>1, <3>5
  <2>2. evens = {}
    BY <2>1
  <2>. QED
    BY <1>3, <1>4, <2>2 DEF Matching
<1>5. CASE pm.pairBalance = 0
  <2>. HIDE DEF c, p, down, q
  <2>1. /\ q \in BracketsOf(t) /\ Toward(down, p, q) /\ Even(t, Upto(t, p, down, q))
        /\ \A r \in Upto(t, p, down, q) : r # q => ~Even(t, Upto(t, p, down, r))
        /\ Toward(down, q, c)
    BY <1>3, <1>5 DEF FirstEven, Upto
  <2>2. q[1] \in Int /\ q[2] \in Int /\ q[2] >= 1 /\ q = <<q[1], q[2]>>
    BY <1>1, <2>1
  <2>3. IF down THEN q[1] <= last ELSE first <= q[1]
    <3>1. IF down THEN lno - 1 <= last ELSE first <= lno + 1
      BY DEF down
    <3>. QED
      BY <1>2, <2>1, <2>2, <3>1 DEF Toward, LessEq
  <2>4. q \in evens
    BY <2>1, <2>3 DEF Evens
  <2>5. ASSUME NEW r \in evens PROVE Toward(down, q, r) /\ (Toward(down, r, q) => r = q)
    <3>1. /\ r \in BracketsOf(t) /\ Toward(down, p, r) /\ Even(t, Upto(t, p, down, r))
      BY DEF Evens
    <3>2. r[1] \in Int /\ r[2] \in Int /\ r = <<r[1], r[2]>>
      BY <1>1, <3>1
    <3>3. Toward(down, r, q) => r = q
      BY <2>1, <3>1 DEF Upto
    <3>4. Toward(down, q, r) \/ Toward(down, r, q)
      BY <1>2, <2>2, <3>2 DEF Toward, LessEq
    <3>5. Toward(down, q, q)
      BY <1>2, <2>2 DEF Toward, LessEq
    <3>. QED
      BY <3>3, <3>4, <3>5
  <2>. HIDE DEF evens
  <2>6. evens # {} /\ \E x \in evens : \A r \in evens : Toward(down, x, r)
    BY <2>4, <2>5
  <2>. DEFINE x == CHOOSE x \in evens : \A r \in evens : Toward(down, x, r)
  <2>7. x \in evens /\ \A r \in evens : Toward(down, x, r)
    BY <2>6
  <2>8. Matching(t, p, down, first, last) = x
    BY <2>6 DEF Matching, evens
  <2>. HIDE DEF x
  <2>9. x = q
    BY <2>4, <2>5, <2>7
  <2>. QED
    BY <2>8, <2>9 DEF p, q, down
<1>. QED
  BY <1>2, <1>4, <1>5 DEF Walked

-----------------------------------------------------------------------------
USE LinesAssumption, GrammarAssumption, WindowAssumption, CallsAssumption

-----------------------------------------------------------------------------
(* What the Outliner must have of a line.                                  *)
TrueItems(l) ==
  IF \E i \in DOMAIN TrueCalls(l) : TrueCalls(l)[i] = "outlined" THEN {TrueItem(l)} ELSE {}

(* Every stack a parse of the whole text comes to is one.                  *)
LEMMA TrueStateType ==
  ASSUME TypeOK, grammar # NoGrammar
  PROVE  \A l \in LineStarts : TrueState[l] \in States
<1>. DEFINE S == {n \in Nat : n <= MaxLines => TrueState[n] \in States}
<1>1. TrueState[0] = Root /\ \A l \in Lines : TrueState[l + 1] = Scan[grammar][<<TrueState[l], text[l]>>]
  BY TrueStateNext
<1>2. 0 \in S
  BY <1>1
<1>3. ASSUME NEW n \in Nat, n \in S PROVE n + 1 \in S
  <2>. SUFFICES ASSUME n + 1 <= MaxLines PROVE TrueState[n + 1] \in States
    OBVIOUS
  <2>1. n \in Lines /\ TrueState[n] \in States
    BY <1>3 DEF Lines
  <2>2. Scan[grammar][<<TrueState[n], text[n]>>] \in States
    BY <2>1, ScanType
  <2>. QED
    BY <1>1, <2>1, <2>2
<1>4. Nat \subseteq S
  <2>. HIDE DEF S
  <2>. QED
    BY <1>2, <1>3, SetInduction
<1>. QED
  BY <1>4 DEF LineStarts

(* The states a parse of the whole text reaches are a scan's: the          *)
(* recursion, as a formula that can be primed.                             *)
Goes ==
  TrueState[0] = Root /\ \A l \in Lines : TrueState[l + 1] = Scan[grammar][<<TrueState[l], text[l]>>]

(* TrueState is such a scan.                                               *)
LEMMA TrueStateGoes == Goes
BY TrueStateNext DEF Goes

(* They depend on the text above only.                                     *)
LEMMA TrueStateAbove ==
  ASSUME grammar' = grammar, NEW at \in LineStarts,
         \A l \in Lines : l < at => text'[l] = text[l]
  PROVE  \A l \in 0 .. at : TrueState'[l] = TrueState[l]
<1>. DEFINE S == {n \in Nat : n <= at => TrueState'[n] = TrueState[n]}
<1>1. TrueState[0] = Root /\ \A l \in Lines : TrueState[l + 1] = Scan[grammar][<<TrueState[l], text[l]>>]
  BY TrueStateNext
<1>2. TrueState'[0] = Root /\ \A l \in Lines : TrueState'[l + 1] = Scan[grammar'][<<TrueState'[l], text'[l]>>]
  <2>1. Goes'
    BY TrueStateGoes, PTL
  <2>. QED
    BY <2>1 DEF Goes
<1>3. 0 \in S
  BY <1>1, <1>2
<1>4. ASSUME NEW n \in Nat, n \in S PROVE n + 1 \in S
  <2>. SUFFICES ASSUME n + 1 <= at PROVE TrueState'[n + 1] = TrueState[n + 1]
    OBVIOUS
  <2>1. n \in Lines /\ n < at /\ TrueState'[n] = TrueState[n]
    BY <1>4 DEF Lines, LineStarts
  <2>2. text'[n] = text[n]
    BY <2>1
  <2>3. TrueState[n + 1] = Scan[grammar][<<TrueState[n], text[n]>>]
    BY <1>1, <2>1
  <2>4. TrueState'[n + 1] = Scan[grammar'][<<TrueState'[n], text'[n]>>]
    BY <1>2, <2>1
  <2>. QED
    BY <2>1, <2>2, <2>3, <2>4
<1>5. Nat \subseteq S
  <2>. HIDE DEF S
  <2>. QED
    BY <1>3, <1>4, SetInduction
<1>. QED
  BY <1>5 DEF LineStarts

(* What a line of the text calls, and the item it must have.               *)
LEMMA TrueCallsType ==
  ASSUME TypeOK, grammar # NoGrammar, NEW l \in Lines
  PROVE  TrueCalls(l) \in Seq(Out!Calls)
<1>1. l \in LineStarts /\ text[l] \in Contents /\ grammar \in Grammars
  BY DEF Lines, LineStarts, TypeOK
<1>2. TrueState[l] \in States
  BY <1>1, TrueStateType
<1>. QED
  BY <1>1, <1>2 DEF TrueCalls, CallsIn

(* The item a line has is the one its calls make.                          *)
LEMMA TrueItemsAre ==
  ASSUME NEW l, TrueCalls(l) \in Seq(Out!Calls)
  PROVE  TrueItems(l) =
           IF HasTo(TrueCalls(l), Len(TrueCalls(l)))
           THEN {LineItem(l, text[l], Depth[TrueState[l]], TrueCalls(l), Len(TrueCalls(l)))} ELSE {}
<1>. DEFINE calls == TrueCalls(l)
<1>1. DOMAIN calls = 1 .. Len(calls)
  OBVIOUS
<1>2. HasTo(calls, Len(calls)) <=> \E i \in DOMAIN calls : calls[i] = "outlined"
  BY <1>1 DEF HasTo
<1>3. TrueItem(l) = LineItem(l, text[l], Depth[TrueState[l]], calls, Len(calls))
  <2>1. Count(calls, "outlined", Len(calls)) = Cardinality(Outlined(calls))
    BY <1>1 DEF Count, Outlined
  <2>. QED
    BY <2>1 DEF TrueItem, LineItem, First, Outlined, Times
<1>. QED
  BY <1>2, <1>3 DEF TrueItems

(* A line has the same items while its text and its state are the same.    *)
LEMMA SameItems ==
  ASSUME NEW l, grammar' = grammar, text'[l] = text[l], TrueState'[l] = TrueState[l]
  PROVE  TrueItems(l)' = TrueItems(l)
<1>1. TrueCalls(l)' = TrueCalls(l)
  BY DEF TrueCalls, CallsIn
<1>2. TrueItem(l)' = TrueItem(l)
  BY <1>1 DEF TrueItem
<1>. QED
  BY <1>1, <1>2 DEF TrueItems

(* And every line while nothing of the text changes.                       *)
LEMMA SameText ==
  ASSUME grammar' = grammar, text' = text
  PROVE  TrueState' = TrueState /\ \A l : TrueItems(l)' = TrueItems(l)
<1>1. TrueState' = TrueState
  BY DEF TrueState
<1>. QED
  BY <1>1, SameItems

-----------------------------------------------------------------------------
(* The inductive invariant.                                                *)

(* The lines the Outliner was told everything of, and those it has seen    *)
(* since: a parse it was to take came by, is past them, or they were valid.*)
Heeded(l) == l < unheard /\ l < unannounced.at
Past(l) == l < outliner.modifiedLine \/ l < invalidLine \/ (~Idle /\ l < job.line)

(* It has no item of a line that the line does not have, and every one of  *)
(* the lines past.                                                         *)
Taken ==
  grammar # NoGrammar =>
    \A l \in Lines : Heeded(l) =>
      /\ On(outliner.outline, l) \subseteq TrueItems(l)
      /\ Past(l) => On(outliner.outline, l) = TrueItems(l)

(* No item lies where the next parse would take it again.                  *)
Above ==
  \A i \in DOMAIN outliner.outline :
    \/ outliner.outline[i].lno <= outliner.modifiedLine
    \/ ~Idle /\ outliner.outline[i].lno < job.line

(* Lines that are valid below the one it goes on from it was not told of.  *)
Behind ==
  grammar # NoGrammar =>
    unheard <= outliner.modifiedLine \/ invalidLine <= outliner.modifiedLine + 1

(* A parse is at the level of its state.                                   *)
Level == ~Idle => outliner.curLevel = Depth[job.state]

(* It carries the state the text above gives.                              *)
Carried == ~Idle => job.state = TrueState[job.line]

(* The types.                                                              *)
ListenerType == outliner \in Outliners \cup {NoOutliner} /\ unheard \in LineStarts

(* What holds of an attached Outliner.                                     *)
Listening == Ordered(outliner.outline) /\ Above /\ Taken /\ Behind /\ Level

(* The inductive invariant.                                                *)
OutlineInv == IInv /\ ListenerType /\ Carried /\ (Attached => Listening)

(* It is what the outline must be.                                         *)
LEMMA OutlineInvTrue == OutlineInv => OutlineTrue
<1>. SUFFICES ASSUME OutlineInv, Attached, Idle, grammar # NoGrammar,
                     NEW l \in Lines, l < Smaller(Known, unheard)
              PROVE  ItemsOf(l) = TrueItems(l)
  BY DEF OutlineTrue, TrueItems
<1>1. /\ invalidLine \in Int /\ unannounced.at \in Int /\ unheard \in Int /\ l \in Int
  BY DEF OutlineInv, ListenerType, IInv, TypeOK, Edits, LineStarts, Lines
<1>2. l < invalidLine /\ l < unannounced.at /\ l < unheard
  BY <1>1 DEF Known, Smaller
<1>3. Taken
  BY DEF OutlineInv, Listening
<1>4. On(outliner.outline, l) = TrueItems(l)
  BY <1>2, <1>3 DEF Taken, Heeded, Past
<1>. QED
  BY <1>4 DEF ItemsOf, On

(* No Outliner is attached at first.                                       *)
LEMMA OutlineInvInit == ServicesInit => OutlineInv
<1>. SUFFICES ASSUME ServicesInit PROVE OutlineInv
  OBVIOUS
<1>1. IInv /\ Idle /\ ~Attached
  BY IInvInit DEF ServicesInit, Init, NoJob, Idle, Attached
<1>2. ListenerType
  BY DEF ServicesInit, ListenerType, LineStarts
<1>. QED
  BY <1>1, <1>2 DEF OutlineInv, Carried

-----------------------------------------------------------------------------
(* Steps that leave the outline alone.                                     *)
LEMMA StillTaken ==
  ASSUME Taken, outliner'.outline = outliner.outline,
         \A l \in Lines : grammar' # NoGrammar /\ Heeded(l)' =>
           /\ grammar # NoGrammar /\ Heeded(l)
           /\ Past(l)' => Past(l)
           /\ TrueItems(l)' = TrueItems(l)
  PROVE  Taken'
<1>. SUFFICES ASSUME grammar' # NoGrammar, NEW l \in Lines, Heeded(l)'
              PROVE  /\ On(outliner'.outline, l) \subseteq TrueItems(l)'
                     /\ Past(l)' => On(outliner'.outline, l) = TrueItems(l)'
  BY DEF Taken, On
<1>1. grammar # NoGrammar /\ Heeded(l) /\ (Past(l)' => Past(l)) /\ TrueItems(l)' = TrueItems(l)
  OBVIOUS
<1>2. /\ On(outliner.outline, l) \subseteq TrueItems(l)
      /\ Past(l) => On(outliner.outline, l) = TrueItems(l)
  BY <1>1 DEF Taken
<1>. QED
  BY <1>1, <1>2

(* A call that reads the text for the host: it may start a parse, from a   *)
(* line whose stack the cache has.                                         *)
Looks ==
  /\ UNCHANGED <<text, unannounced, grammar, pred>>
  /\ Idle
  /\ \/ job' = job /\ (grammar # NoGrammar => invalidLine' = invalidLine)
     \/ /\ Ready /\ grammar # NoGrammar /\ ~Idle'
        /\ job'.line \in LineStarts /\ job'.line <= invalidLine
        /\ job'.state = pred[job'.line] /\ invalidLine' = invalidLine

(* What the editor does on its own, short of parsing a line: nothing, or a *)
(* parse starts at a line whose state is known.                            *)
LEMMA StartLooks ==
  ASSUME IInv, Ready, NEW plan, plan.from \in Nat, plan.to \in Int, plan.to <= lineCount,
         plan.mode \in {"read", "update"}, plan.from <= invalidLine, NEW asked,
         StartParse(plan, asked), UNCHANGED <<hostVars, grammar, pred>>
  PROVE  Looks
<1>1. Idle /\ UNCHANGED <<text, unannounced, grammar, pred>>
  BY DEF Ready, hostVars
<1>2. CASE plan.from < plan.to /\ grammar # NoGrammar
  <2>1. /\ job' = [mode |-> plan.mode, line |-> plan.from, stop |-> plan.to,
                   state |-> pred[plan.from], asked |-> asked]
        /\ invalidLine' = invalidLine
    BY <1>2 DEF StartParse
  <2>2. job'.mode = plan.mode /\ job'.line = plan.from /\ job'.state = pred[plan.from]
    BY <2>1
  <2>3. plan.from \in LineStarts
    BY DEF IInv, TypeOK, LineStarts
  <2>. QED
    BY <1>1, <1>2, <2>1, <2>2, <2>3 DEF Looks, Idle
<1>3. CASE ~(plan.from < plan.to /\ grammar # NoGrammar)
  BY <1>1, <1>3 DEF StartParse, Looks
<1>. QED
  BY <1>2, <1>3

(* validate begins in the valid part or at its end.                        *)
LEMMA PlanFrom ==
  ASSUME TypeOK, lineCount \in Nat \ {0}, NEW lno \in -1 .. MaxLines
  PROVE  Plan(lno).from <= invalidLine
<1>1. Plan(lno).from \in Nat /\ invalidLine \in Nat
  BY PlanType DEF TypeOK, LineStarts
<1>2. PICK a, from : Plan(lno).from = IF a \/ invalidLine <= from THEN invalidLine ELSE from
  BY DEF Plan
<1>. QED
  BY <1>1, <1>2

(* ensureCache.                                                            *)
LEMMA RebuildLooks ==
  ASSUME IInv, Ready, NEW lno \in -1 .. MaxLines, NEW asked, Rebuild(lno, asked)
  PROVE  Looks
<1>. DEFINE plan == Plan(lno)
<1>1. TypeOK /\ lineCount \in Nat \ {0}
  BY DEF IInv, Ready, TypeOK
<1>2. /\ plan.from \in Nat /\ plan.to \in Int /\ plan.to <= lineCount
      /\ plan.mode \in {"read", "update"}
  BY <1>1, PlanType
<1>3. plan.from <= invalidLine
  BY <1>1, PlanFrom
<1>4. StartParse(plan, asked) /\ UNCHANGED <<hostVars, grammar, pred>>
  BY DEF Rebuild
<1>. HIDE DEF plan
<1>. QED
  BY <1>2, <1>3, <1>4, StartLooks

(* getLineRegions.                                                         *)
LEMMA GetLineRegionsLooks ==
  ASSUME IInv, NEW lno \in -1 .. MaxLines, GetLineRegions(lno)
  PROVE  Looks
<1>1. CASE backParse > 0 /\ lno - invalidLine > backParse
  BY <1>1 DEF GetLineRegions, Looks, Ready, hostVars
<1>2. CASE ~(backParse > 0 /\ lno - invalidLine > backParse)
  <2>1. Ready /\ Rebuild(lno, lno)
    BY <1>2 DEF GetLineRegions
  <2>. QED
    BY <2>1, RebuildLooks
<1>. QED
  BY <1>1, <1>2

(* validate.                                                               *)
LEMMA ValidateLooks ==
  ASSUME IInv, NEW lno \in Int, Validate(lno, FALSE)
  PROVE  Looks
<1>. DEFINE plan == CachePlan(lno)
<1>1. lineCount \in Nat /\ invalidLine \in Nat
  BY DEF IInv, TypeOK, LineStarts
<1>2. /\ plan.from = invalidLine /\ plan.mode = "update"
      /\ plan.to \in Int /\ plan.to <= lineCount
  BY <1>1 DEF CachePlan, Smaller
<1>3. Ready /\ StartParse(plan, NotAsked) /\ UNCHANGED <<hostVars, grammar, pred>>
  BY DEF Validate
<1>. HIDE DEF plan
<1>4. plan.from \in Nat /\ plan.from <= invalidLine /\ plan.mode \in {"read", "update"}
  BY <1>1, <1>2
<1>. QED
  BY <1>2, <1>3, <1>4, StartLooks

(* Whatever the view asks.                                                 *)
LEMMA ViewStep ==
  ASSUME IInv, View
  PROVE  IInv' /\ Looks
<1>1. ASSUME NEW s \in Lines, NEW n \in WindowSizes, VisibleTextEvent(s, n)
      PROVE  IInv' /\ Looks
  BY <1>1, WindowStep DEF VisibleTextEvent, Looks, hostVars
<1>2. ASSUME NEW l \in Asked, GetLineRegions(l)
      PROVE  IInv' /\ Looks
  <2>1. l \in -1 .. MaxLines
    BY DEF Asked
  <2>. QED
    BY <1>2, <2>1, GetLineRegionsStep, GetLineRegionsLooks
<1>3. ASSUME NEW l \in Asked, Validate(l, TRUE)
      PROVE  IInv' /\ Looks
  <2>1. l \in -1 .. MaxLines /\ Ready /\ Rebuild(l, NotAsked) /\ NotAsked \in NotAsked .. MaxLines
    BY <1>3 DEF Validate, NotAsked, Asked
  <2>. QED
    BY <2>1, RebuildStep, RebuildLooks
<1>4. ASSUME NEW l \in Int, Validate(l, FALSE)
      PROVE  IInv' /\ Looks
  BY <1>4, ValidateStep, ValidateLooks
<1>5. CASE IdleJob
  <2>1. invalidLine + IdleLines \in Int
    BY DEF IInv, TypeOK, LineStarts
  <2>. QED
    BY <1>4, <1>5, <2>1 DEF IdleJob
<1>6. \A l \in -1 .. MaxLines : l \in Int
  OBVIOUS
<1>. QED
  BY <1>1, <1>2, <1>3, <1>4, <1>5, <1>6 DEF View

(* The types the steps go on.                                              *)
LEMMA Typed ==
  ASSUME OutlineInv
  PROVE  /\ IInv /\ TypeOK /\ invalidLine \in Nat /\ unheard \in Nat /\ unheard <= MaxLines
         /\ unannounced.at \in Nat /\ unannounced.at <= MaxLines
         /\ job \in Jobs /\ job.line \in Nat /\ job.stop \in Nat /\ job.state \in States
         /\ unheard \in LineStarts /\ ListenerType
         /\ outliner = NoOutliner \/ outliner \in Outliners
         /\ Attached =>
              /\ outliner \in Outliners /\ outliner.modifiedLine \in Nat
              /\ outliner.outline \in Seq(Items) /\ outliner.curLevel \in Int
              /\ \A i \in DOMAIN outliner.outline : outliner.outline[i].lno \in Nat
<1>1. IInv /\ TypeOK /\ ListenerType
  BY DEF OutlineInv, IInv
<1>2. invalidLine \in Nat /\ unannounced.at \in Nat /\ unannounced.at <= MaxLines /\ job \in Jobs
  BY <1>1 DEF TypeOK, LineStarts, Edits
<1>3. job.line \in Nat /\ job.stop \in Nat /\ job.state \in States
  BY <1>2 DEF Jobs, LineStarts
<1>4. unheard \in Nat /\ unheard <= MaxLines /\ unheard \in LineStarts
  BY <1>1 DEF ListenerType, LineStarts
<1>5. outliner = NoOutliner \/ outliner \in Outliners
  BY <1>1 DEF ListenerType
<1>6. ASSUME Attached
      PROVE  /\ outliner \in Outliners /\ outliner.modifiedLine \in Nat
             /\ outliner.outline \in Seq(Items) /\ outliner.curLevel \in Int
             /\ \A i \in DOMAIN outliner.outline : outliner.outline[i].lno \in Nat
  <2>1. outliner \in Outliners
    BY <1>5, <1>6 DEF Attached
  <2>2. outliner.outline \in Seq(Items) /\ outliner.modifiedLine \in Nat /\ outliner.curLevel \in Int
    BY <2>1, Fields
  <2>3. \A i \in DOMAIN outliner.outline : outliner.outline[i].lno \in Lines
    BY <2>2, SequenceOfItems
  <2>. QED
    BY <2>1, <2>2, <2>3 DEF Lines
<1>. QED
  BY <1>1, <1>2, <1>3, <1>4, <1>5, <1>6

(* At rest, with the outline and all it was told of the same.              *)
LEMMA AtRest ==
  ASSUME OutlineInv, IInv', Idle', UNCHANGED <<outliner, unheard>>,
         Attached =>
           \A l \in Lines : grammar' # NoGrammar /\ Heeded(l)' =>
             /\ grammar # NoGrammar /\ Heeded(l)
             /\ l < invalidLine' => l < invalidLine
             /\ TrueItems(l)' = TrueItems(l),
         Idle,
         Attached /\ grammar' # NoGrammar =>
           (grammar # NoGrammar /\ invalidLine' <= invalidLine) \/ invalidLine' = 0
  PROVE  OutlineInv'
<1>1. ListenerType' /\ Carried' /\ (Attached' <=> Attached) /\ invalidLine' \in Nat
  BY DEF OutlineInv, ListenerType, Carried, Attached, IInv, TypeOK, LineStarts
<1>2. ASSUME Attached PROVE Listening'
  <2>1. Ordered(outliner.outline) /\ Above /\ Taken /\ Behind
    BY <1>2 DEF OutlineInv, Listening
  <2>2. /\ invalidLine \in Nat /\ unheard \in Nat /\ outliner.modifiedLine \in Nat
        /\ \A i \in DOMAIN outliner.outline : outliner.outline[i].lno \in Nat
    BY <1>2, Typed
  <2>3. Ordered(outliner'.outline)
    BY <2>1
  <2>4. Above'
    BY <2>1 DEF Above
  <2>5. Taken'
    <3>1. \A l \in Lines : grammar' # NoGrammar /\ Heeded(l)' => (Past(l)' => Past(l))
      BY <1>2 DEF Past
    <3>. QED
      BY <1>2, <2>1, <3>1, StillTaken
  <2>6. Behind'
    BY <1>1, <1>2, <2>1, <2>2 DEF Behind
  <2>7. Level'
    BY DEF Level
  <2>. QED
    BY <2>3, <2>4, <2>5, <2>6, <2>7 DEF Listening
<1>. QED
  BY <1>1, <1>2 DEF OutlineInv

(* The Outliner stays right through it.                                    *)
LEMMA LooksStep ==
  ASSUME OutlineInv, IInv', Looks, HearsStart, UNCHANGED unheard
  PROVE  OutlineInv'
<1>1. UNCHANGED <<text, unannounced, grammar, pred>> /\ Idle
  BY DEF Looks
<1>2. TrueState' = TrueState /\ \A l : TrueItems(l)' = TrueItems(l)
  BY <1>1, SameText
<1>3. CASE job' = job /\ (grammar # NoGrammar => invalidLine' = invalidLine)
  <2>1. Idle' /\ outliner' = outliner
    BY <1>1, <1>3 DEF Idle, HearsStart
  <2>2. \A l : Heeded(l)' <=> Heeded(l)
    BY <1>1 DEF Heeded
  <2>3. invalidLine \in Nat
    BY Typed
  <2>. QED
    BY <1>1, <1>2, <1>3, <2>1, <2>2, <2>3, AtRest
<1>4. CASE /\ Ready /\ grammar # NoGrammar /\ ~Idle'
           /\ job'.line \in LineStarts /\ job'.line <= invalidLine
           /\ job'.state = pred[job'.line] /\ invalidLine' = invalidLine
  <2>0. /\ IInv /\ invalidLine \in Nat /\ job'.line \in Nat /\ job' \in Jobs /\ job'.state \in States
    <3>1. IInv /\ invalidLine \in Nat
      BY Typed
    <3>2. job'.line \in Nat
      BY <1>4 DEF LineStarts
    <3>3. job' \in Jobs
      BY DEF IInv, TypeOK
    <3>4. job'.state \in States
      BY <3>3 DEF Jobs
    <3>. QED
      BY <3>1, <3>2, <3>3, <3>4
  <2>1. job'.state = TrueState[job'.line]
    <3>1. \A l \in 0 .. Known : pred[l] = TrueState[l]
      BY <1>4, <2>0, KnownTrue
    <3>2. job'.line \in 0 .. Known
      <4>1. unannounced.at = MaxLines
        BY <1>4 DEF Ready, Announced
      <4>2. invalidLine <= MaxLines
        BY <2>0 DEF IInv, TypeOK, LineStarts
      <4>. QED
        BY <1>4, <2>0, <4>1, <4>2 DEF Known, Smaller
    <3>. QED
      BY <1>4, <3>1, <3>2
  <2>2. Carried'
    BY <1>2, <2>1 DEF Carried
  <2>3. CASE ~Attached
    <3>1. ~Attached' /\ ListenerType'
      BY <1>1, <1>4, <2>3, Typed DEF HearsStart, Hears, Attached, ListenerType
    <3>. QED
      BY <2>2, <3>1 DEF OutlineInv
  <2>4. CASE Attached
    <3>1. /\ outliner \in Outliners /\ Depth[job'.state] \in Nat /\ invalidLine \in Nat
          /\ unheard \in Nat /\ unheard \in LineStarts /\ outliner.modifiedLine \in Nat
          /\ \A i \in DOMAIN outliner.outline : outliner.outline[i].lno \in Nat
      BY <2>0, <2>4, Typed
    <3>. DEFINE d == Depth[job'.state]
                z == 0
    <3>2. outliner' = [[outliner EXCEPT !.curLevel = z] EXCEPT !.curLevel = d]
      BY <1>1, <1>4, <2>4 DEF HearsStart, Hears, Begun, Out!startParsing
    <3>3. /\ outliner' \in Outliners /\ outliner'.outline = outliner.outline
          /\ outliner'.curLevel = d /\ outliner'.modifiedLine = outliner.modifiedLine
      <4>. DEFINE q == [outliner EXCEPT !.curLevel = z]
      <4>0. z \in Int /\ d \in Int
        BY <3>1
      <4>. HIDE DEF d, z
      <4>1. q \in Outliners /\ q.outline = outliner.outline /\ q.modifiedLine = outliner.modifiedLine
        BY <3>1, <4>0, WithLevel
      <4>. HIDE DEF q
      <4>2. outliner' = [q EXCEPT !.curLevel = d]
        BY <3>2 DEF q
      <4>. QED
        BY <4>0, <4>1, <4>2, WithLevel
    <3>4. Ordered(outliner.outline) /\ Above /\ Taken /\ Behind
      BY <2>4 DEF OutlineInv, Listening
    <3>5. Above'
      BY <1>1, <3>3, <3>4 DEF Above
    <3>6. Taken'
      <4>1. ASSUME NEW l \in Lines, Past(l)' PROVE Past(l)
        <5>1. l \in Nat
          BY DEF Lines
        <5>. QED
          BY <1>4, <2>0, <3>3, <4>1, <5>1 DEF Past
      <4>2. \A l \in Lines : Heeded(l)' => Heeded(l)
        BY <1>1 DEF Heeded
      <4>. QED
        BY <1>1, <1>2, <3>3, <3>4, <4>1, <4>2, StillTaken
    <3>7. Behind'
      BY <1>1, <1>4, <3>3, <3>4 DEF Behind
    <3>8. Level'
      BY <3>3 DEF Level
    <3>9. ListenerType'
      BY <3>1, <3>3 DEF ListenerType
    <3>. QED
      BY <2>2, <3>3, <3>4, <3>5, <3>6, <3>7, <3>8, <3>9 DEF OutlineInv, Listening
  <2>. QED
    BY <2>3, <2>4
<1>. QED
  BY <1>3, <1>4 DEF Looks

-----------------------------------------------------------------------------
(* A line of a parse.                                                      *)

(* Nothing in the outline lies below the line, but for what is kept.       *)
Over(o, l) == \A i \in DOMAIN o.outline : o.outline[i].lno <= o.modifiedLine \/ o.outline[i].lno < l

(* What a line adds to an outline.                                         *)
LineTakes(r, o, l) ==
  /\ r \in Outliners /\ r.modifiedLine = o.modifiedLine
  /\ r.curLevel = Depth[Scan[grammar][<<TrueState[l], text[l]>>]]
  /\ Ordered(r.outline)
  /\ \A i \in DOMAIN r.outline : r.outline[i].lno <= o.modifiedLine \/ r.outline[i].lno < l + 1
  /\ \A k \in Lines : On(r.outline, k) =
       IF k = l /\ o.modifiedLine <= l THEN On(o.outline, k) \cup TrueItems(k) ELSE On(o.outline, k)

(* The parse of one line leaves in the list the item the line has, and     *)
(* nothing else of it.                                                     *)
LEMMA LineTaken ==
  ASSUME TypeOK, grammar # NoGrammar, NEW o \in Outliners, NEW l \in Lines,
         o.curLevel = Depth[TrueState[l]], Ordered(o.outline), Over(o, l)
  PROVE  LineTakes(Out!LineParsed(o, l, text[l], TrueCalls(l)), o, l)
<1>. DEFINE r == Out!LineParsed(o, l, text[l], TrueCalls(l))
            calls == TrueCalls(l)
            item == LineItem(l, text[l], Depth[TrueState[l]], calls, Len(calls))
<1>1. /\ calls \in Seq(Out!Calls) /\ text[l] \in Contents /\ TrueState[l] \in States
      /\ grammar \in Grammars /\ l \in Nat /\ o.modifiedLine \in Nat /\ o.outline \in Seq(Items)
      /\ \A i \in DOMAIN o.outline : o.outline[i].lno \in Nat
  <2>1. \A i \in DOMAIN o.outline : o.outline[i].lno \in Lines
    BY Fields, SequenceOfItems
  <2>2. l \in LineStarts
    BY DEF Lines, LineStarts
  <2>. QED
    BY <2>1, <2>2, TrueCallsType, TrueStateType, Fields DEF TypeOK, Lines
<1>2. Heard(r, o, l, text[l], calls, Len(calls)) /\ r \in Outliners
  BY <1>1, LineHeard
<1>. HIDE DEF r
<1>. SUFFICES LineTakes(r, o, l)
  BY DEF r
<1>7. \A i \in DOMAIN o.outline : o.outline[i].lno <= o.modifiedLine \/ o.outline[i].lno < l
  BY DEF Over
<1>3. TrueItems(l) = IF HasTo(calls, Len(calls)) THEN {item} ELSE {}
  BY <1>1, TrueItemsAre
<1>4. r.curLevel = Depth[Scan[grammar][<<TrueState[l], text[l]>>]]
  <2>1. Depth[Scan[grammar][<<TrueState[l], text[l]>>]] =
          Depth[TrueState[l]] + Count(calls, "enter", Len(calls)) - Count(calls, "leave", Len(calls))
    BY <1>1, DepthAssumption DEF TrueCalls, CallsIn
  <2>. QED
    BY <1>2, <2>1 DEF Heard
<1>5. CASE l < o.modifiedLine \/ ~HasTo(calls, Len(calls))
  <2>1. r.outline = o.outline /\ r.modifiedLine = o.modifiedLine
    BY <1>2, <1>5 DEF Heard
  <2>2. \A i \in DOMAIN o.outline : o.outline[i].lno <= o.modifiedLine \/ o.outline[i].lno < l + 1
    BY <1>1, <1>7
  <2>3. o.modifiedLine <= l => TrueItems(l) = {}
    BY <1>1, <1>3, <1>5
  <2>. QED
    BY <1>2, <1>4, <2>1, <2>2, <2>3 DEF LineTakes
<1>6. CASE ~(l < o.modifiedLine) /\ HasTo(calls, Len(calls))
  <2>1. r.outline = Append(o.outline, item) /\ r.modifiedLine = o.modifiedLine
    BY <1>2, <1>6, Zenon DEF Heard
  <2>2. item \in Items /\ item.lno = l
    <3>. DEFINE f == First(calls)
                e == Count(calls, "enter", f)
                g == Count(calls, "leave", f)
                n == Count(calls, "outlined", Len(calls))
                d == Depth[TrueState[l]] + e - g
    <3>1. f \in Nat /\ Len(calls) \in Nat
      <4>1. Len(calls) \in 0 .. Len(calls) /\ Len(calls) \in Nat
        BY <1>1
      <4>. QED
        BY <1>1, <1>6, <4>1, FirstType
    <3>2. e \in Nat /\ g \in Nat /\ n \in Nat
      <4>. HIDE DEF f
      <4>. QED
        BY <3>1, CountNext
    <3>3. d \in Int
      <4>1. Depth[TrueState[l]] \in Nat
        BY <1>1
      <4>. HIDE DEF e, g
      <4>. QED
        BY <3>2, <4>1
    <3>4. Times(text[l], n) \in Seq(Contents)
      <4>. HIDE DEF n
      <4>. QED
        BY <1>1, <3>2, TimesNext
    <3>5. item = [lno |-> l, pos |-> f, level |-> d, token |-> Times(text[l], n)]
      BY DEF LineItem
    <3>. HIDE DEF f, d, n, item
    <3>. QED
      BY <3>1, <3>3, <3>4, <3>5, ItemType
  <2>. HIDE DEF item
  <2>3. \A i \in DOMAIN o.outline : o.outline[i].lno <= l
    <3>1. o.modifiedLine <= l
      BY <1>1, <1>6
    <3>. SUFFICES ASSUME NEW i \in DOMAIN o.outline PROVE o.outline[i].lno <= l
      OBVIOUS
    <3>2. o.outline[i].lno <= o.modifiedLine \/ o.outline[i].lno < l
      BY <1>7
    <3>3. o.outline[i].lno \in Nat /\ l \in Nat /\ o.modifiedLine \in Nat
      BY <1>1
    <3>. QED
      BY <3>1, <3>2, <3>3
  <2>. DEFINE s == o.outline
              a == Append(s, item)
              n == Len(s)
  <2>4. /\ DOMAIN a = 1 .. n + 1 /\ DOMAIN s = 1 .. n /\ n \in Nat
        /\ \A i \in 1 .. n : a[i] = s[i]
        /\ a[n + 1] = item
        /\ \A k : On(a, k) = IF k = l THEN On(s, k) \cup {item} ELSE On(s, k)
    <3>1. s \in Seq(Items)
      BY <1>1
    <3>. HIDE DEF s
    <3>2. DOMAIN s = 1 .. n /\ n \in Nat
      BY <3>1
    <3>3. \A k : /\ On(a, k) = IF k = item.lno THEN On(s, k) \cup {item} ELSE On(s, k)
                 /\ DOMAIN a = 1 .. n + 1 /\ \A i \in 1 .. n : a[i] = s[i]
                 /\ a[n + 1] = item
      BY <2>2, <3>1, OnAppend
    <3>. HIDE DEF a, n
    <3>. QED
      BY <2>2, <3>2, <3>3
  <2>. HIDE DEF s, a, n
  <2>5. \A i \in DOMAIN a : i \in DOMAIN s \/ i = n + 1
    BY <2>4
  <2>6. /\ \A i \in DOMAIN s : s[i].lno <= l /\ s[i].lno \in Nat
        /\ \A i, j \in DOMAIN s : i <= j => s[i].lno <= s[j].lno
    BY <1>1, <2>3 DEF s, Ordered
  <2>7. Ordered(a)
    <3>1. ASSUME NEW i \in DOMAIN a, NEW j \in DOMAIN a, i <= j PROVE a[i].lno <= a[j].lno
      <4>1. CASE j = n + 1
        BY <1>1, <2>2, <2>4, <2>5, <2>6, <4>1
      <4>2. CASE j # n + 1
        <5>1. i \in 1 .. n /\ j \in 1 .. n
          BY <2>4, <3>1, <4>2
        <5>. QED
          BY <2>4, <2>6, <3>1, <5>1
      <4>. QED
        BY <4>1, <4>2
    <3>. QED
      BY <3>1 DEF Ordered
  <2>8. \A i \in DOMAIN a : a[i].lno < l + 1
    <3>. SUFFICES ASSUME NEW i \in DOMAIN a PROVE a[i].lno < l + 1
      OBVIOUS
    <3>1. a[i].lno \in Nat /\ a[i].lno <= l
      <4>1. CASE i \in DOMAIN s
        BY <2>4, <2>6, <4>1
      <4>2. CASE i = n + 1
        BY <1>1, <2>2, <2>4, <4>2
      <4>. QED
        BY <2>5, <4>1, <4>2
    <3>2. l \in Nat
      BY <1>1
    <3>. QED
      BY <3>1, <3>2
  <2>9. r.outline = a /\ TrueItems(l) = {item} /\ o.modifiedLine <= l
    BY <1>1, <1>3, <1>6, <2>1 DEF a, s, item
  <2>. QED
    BY <1>2, <1>4, <2>1, <2>4, <2>7, <2>8, <2>9 DEF s, LineTakes
<1>. QED
  BY <1>5, <1>6

(* A line of the editor's parse.                                           *)
LEMMA ParseLineHeard ==
  ASSUME OutlineInv, ParseLine, HearsLine, UNCHANGED unheard
  PROVE  OutlineInv'
<1>. DEFINE l == job.line
            next == Scan[grammar][<<job.state, text[l]>>]
<1>1. /\ ~Idle /\ l < job.stop
      /\ job' = [job EXCEPT !.line = @ + 1, !.state = next]
      /\ UNCHANGED <<text, unannounced, grammar, invalidLine>>
  BY DEF ParseLine, hostVars
<1>2. /\ IInv /\ TypeOK /\ job \in Jobs /\ job.stop \in LineStarts /\ grammar # NoGrammar
      /\ unannounced = Announced /\ job.state = TrueState[l]
  BY <1>1, Typed DEF OutlineInv, IInv, JobCoherent, Jobs, Carried
<1>3. l \in Lines /\ l \in Nat
  BY <1>1, <1>2 DEF Jobs, LineStarts, Lines
<1>4. job'.mode = job.mode /\ job'.line = l + 1 /\ job'.state = next /\ ~Idle'
  BY <1>1, <1>2 DEF Jobs, Idle
<1>5. IInv'
  BY <1>2, ParseLineStep
<1>6. TrueState' = TrueState /\ \A k : TrueItems(k)' = TrueItems(k)
  BY <1>1, SameText
<1>7. next = TrueState[l + 1]
  BY <1>2, <1>3, TrueStateNext
<1>8. Carried'
  BY <1>4, <1>6, <1>7 DEF Carried
<1>9. CASE ~Attached
  <2>1. outliner' = outliner
    BY <1>9 DEF HearsLine, Hears
  <2>2. ~Attached' /\ ListenerType'
    BY <1>9, <2>1, Typed DEF Attached, ListenerType
  <2>. QED
    BY <1>5, <1>8, <2>2 DEF OutlineInv
<1>10. CASE Attached
  <2>1. /\ outliner \in Outliners /\ outliner.modifiedLine \in Nat /\ invalidLine \in Nat
        /\ unheard \in LineStarts /\ unheard \in Nat
    BY <1>10, Typed
  <2>2. Ordered(outliner.outline) /\ Above /\ Taken /\ Behind /\ Level
    BY <1>10 DEF OutlineInv, Listening
  <2>3. outliner' = Out!LineParsed(outliner, l, text[l], TrueCalls(l))
    BY <1>2, <1>10 DEF HearsLine, Hears, TrueCalls, CallsIn
  <2>4. outliner.curLevel = Depth[TrueState[l]]
    BY <1>1, <1>2, <2>2 DEF Level
  <2>5. \A i \in DOMAIN outliner.outline :
          outliner.outline[i].lno <= outliner.modifiedLine \/ outliner.outline[i].lno < l
    BY <1>1, <2>2 DEF Above
  <2>. HIDE DEF l, next
  <2>6. /\ outliner' \in Outliners /\ outliner'.modifiedLine = outliner.modifiedLine
        /\ outliner'.curLevel = Depth[Scan[grammar][<<TrueState[l], text[l]>>]]
        /\ Ordered(outliner'.outline)
        /\ \A i \in DOMAIN outliner'.outline :
             outliner'.outline[i].lno <= outliner.modifiedLine \/ outliner'.outline[i].lno < l + 1
        /\ \A k \in Lines : On(outliner'.outline, k) =
             IF k = l /\ outliner.modifiedLine <= l THEN On(outliner.outline, k) \cup TrueItems(k)
             ELSE On(outliner.outline, k)
    <3>1. Over(outliner, l)
      BY <2>5 DEF Over
    <3>2. LineTakes(Out!LineParsed(outliner, l, text[l], TrueCalls(l)), outliner, l)
      BY <1>2, <1>3, <2>1, <2>2, <2>4, <3>1, LineTaken
    <3>. QED
      BY <2>3, <3>2, Zenon DEF LineTakes
  <2>7. Above'
    BY <1>4, <2>6 DEF Above
  <2>8. Level'
    BY <1>2, <1>4, <2>6 DEF Level, next
  <2>9. Behind'
    BY <1>1, <2>2, <2>6 DEF Behind
  <2>10. Taken'
    <3>. SUFFICES ASSUME NEW k \in Lines, Heeded(k)'
                  PROVE  /\ On(outliner'.outline, k) \subseteq TrueItems(k)'
                         /\ Past(k)' => On(outliner'.outline, k) = TrueItems(k)'
      BY DEF Taken, On
    <3>1. /\ On(outliner.outline, k) \subseteq TrueItems(k)
          /\ Past(k) => On(outliner.outline, k) = TrueItems(k)
      BY <1>1, <1>2, <2>2 DEF Taken, Heeded
    <3>2. TrueItems(k)' = TrueItems(k) /\ k \in Nat
      BY <1>6 DEF Lines
    <3>3. CASE k = l /\ outliner.modifiedLine <= l
      BY <2>6, <3>1, <3>2, <3>3
    <3>4. CASE ~(k = l /\ outliner.modifiedLine <= l)
      <4>1. On(outliner'.outline, k) = On(outliner.outline, k)
        BY <2>6, <3>4
      <4>2. Past(k)' => Past(k)
        <5>. SUFFICES ASSUME Past(k)' PROVE Past(k)
          OBVIOUS
        <5>1. k < outliner.modifiedLine \/ k < invalidLine \/ k < l + 1
          BY <1>1, <1>4, <2>6 DEF Past
        <5>2. k < outliner.modifiedLine \/ k < invalidLine \/ k < l
          BY <1>3, <2>1, <3>2, <3>4, <5>1
        <5>. QED
          BY <1>1, <5>2 DEF Past, l
      <4>. QED
        BY <3>1, <3>2, <4>1, <4>2
    <3>. QED
      BY <3>3, <3>4
  <2>11. ListenerType'
    BY <2>1, <2>6 DEF ListenerType
  <2>. QED
    BY <1>5, <1>8, <2>6, <2>7, <2>8, <2>9, <2>10, <2>11 DEF OutlineInv, Listening
<1>. QED
  BY <1>9, <1>10

(* The end of a parse.                                                     *)
LEMMA EndParseHeard ==
  ASSUME OutlineInv, EndParse, HearsEnd, UNCHANGED unheard
  PROVE  OutlineInv'
<1>1. /\ ~Idle /\ job.line = job.stop /\ job' = NoJob
      /\ invalidLine' = invalidLine \/ invalidLine' = stopLine(job.stop) + 1
      /\ UNCHANGED <<text, unannounced, grammar>>
  BY DEF EndParse, hostVars
<1>2. /\ IInv /\ TypeOK /\ job \in Jobs /\ job.stop \in LineStarts /\ job.stop \in Nat
      /\ job.stop <= MaxLines /\ grammar # NoGrammar
  BY <1>1, Typed DEF IInv, JobCoherent, Jobs, LineStarts
<1>3. invalidLine' = invalidLine \/ invalidLine' = job.stop
  BY <1>1, <1>2 DEF stopLine
<1>5. IInv' /\ Idle'
  BY <1>1, <1>2, EndParseStep DEF NoJob, Idle
<1>6. TrueState' = TrueState /\ \A k : TrueItems(k)' = TrueItems(k)
  BY <1>1, SameText
<1>8. Carried'
  BY <1>5 DEF Carried
<1>9. CASE ~Attached
  <2>1. outliner' = outliner
    BY <1>9 DEF HearsEnd, Hears
  <2>2. ~Attached' /\ ListenerType'
    BY <1>9, <2>1, Typed DEF Attached, ListenerType
  <2>. QED
    BY <1>5, <1>8, <2>2 DEF OutlineInv
<1>10. CASE Attached
  <2>1. /\ outliner \in Outliners /\ outliner.modifiedLine \in Nat /\ invalidLine \in Nat
        /\ unheard \in LineStarts /\ unheard \in Nat
        /\ \A i \in DOMAIN outliner.outline : outliner.outline[i].lno \in Nat
    BY <1>10, Typed
  <2>2. Ordered(outliner.outline) /\ Above /\ Taken /\ Behind
    BY <1>10 DEF OutlineInv, Listening
  <2>. DEFINE e == stopLine(job.stop)
  <2>3. outliner' = Out!endParsing(outliner, e) /\ e = job.stop - 1 /\ e \in -1 .. MaxLines
    BY <1>2, <1>10 DEF HearsEnd, Hears, stopLine
  <2>. HIDE DEF e
  <2>4. /\ outliner' \in Outliners /\ outliner'.outline = outliner.outline
        /\ outliner'.modifiedLine = IF outliner.modifiedLine < e THEN e + 1 ELSE outliner.modifiedLine
    BY <2>1, <2>3, EndParsed
  <2>5. /\ outliner'.modifiedLine = job.stop \/ outliner'.modifiedLine = outliner.modifiedLine
        /\ outliner.modifiedLine <= outliner'.modifiedLine
        /\ job.stop <= outliner'.modifiedLine + 1
        /\ outliner'.modifiedLine \in Nat
    <3>. DEFINE m == outliner.modifiedLine
                n == outliner'.modifiedLine
                s == job.stop
    <3>1. m \in Nat /\ s \in Nat /\ e = s - 1 /\ n = IF m < e THEN e + 1 ELSE m
      BY <1>2, <2>1, <2>3, <2>4
    <3>. HIDE DEF m, n, s
    <3>2. (n = s \/ n = m) /\ m <= n /\ s <= n + 1 /\ n \in Nat
      BY <3>1
    <3>. QED
      BY <3>2 DEF m, n, s
  <2>6. Above'
    <3>. SUFFICES ASSUME NEW i \in DOMAIN outliner.outline
                  PROVE  outliner.outline[i].lno <= outliner'.modifiedLine
      BY <2>4 DEF Above
    <3>1. outliner.outline[i].lno <= outliner.modifiedLine \/ outliner.outline[i].lno < job.stop
      BY <1>1, <2>2 DEF Above
    <3>2. outliner.outline[i].lno \in Nat
      BY <2>1
    <3>. QED
      BY <1>2, <2>1, <2>5, <3>1, <3>2
  <2>7. Behind'
    <3>1. unheard <= outliner.modifiedLine \/ invalidLine <= outliner.modifiedLine + 1
      BY <1>2, <2>2 DEF Behind
    <3>2. unheard <= outliner'.modifiedLine \/ invalidLine' <= outliner'.modifiedLine + 1
      BY <1>2, <1>3, <2>1, <2>5, <3>1
    <3>. QED
      BY <3>2 DEF Behind
  <2>8. Taken'
    <3>1. ASSUME NEW k \in Lines, Past(k)' PROVE Past(k)
      <4>0. k \in Nat
        BY DEF Lines
      <4>1. k < outliner'.modifiedLine \/ k < invalidLine'
        BY <1>5, <3>1 DEF Past
      <4>2. k < outliner.modifiedLine \/ k < invalidLine \/ k < job.stop
        BY <1>3, <2>5, <4>1
      <4>. QED
        BY <1>1, <4>2 DEF Past
    <3>2. \A k \in Lines : Heeded(k)' => Heeded(k)
      BY <1>1 DEF Heeded
    <3>. QED
      BY <1>2, <1>6, <2>2, <2>4, <3>1, <3>2, StillTaken
  <2>9. ListenerType' /\ Level'
    BY <1>5, <2>1, <2>4 DEF ListenerType, Level
  <2>. QED
    BY <1>5, <1>8, <2>2, <2>4, <2>6, <2>7, <2>8, <2>9 DEF OutlineInv, Listening
<1>. QED
  BY <1>9, <1>10

-----------------------------------------------------------------------------
(* An edit the Outliner is not told of, for it was in no valid part.       *)
LEMMA UnheardStep ==
  ASSUME OutlineInv, IInv', Idle, Idle', NEW line \in Lines, line <= unannounced.at,
         grammar # NoGrammar => invalidLine <= line /\ invalidLine' = invalidLine,
         unannounced' = Announced, UNCHANGED <<text, grammar, outliner>>, Unheard(line)
  PROVE  OutlineInv'
<1>1. TrueState' = TrueState /\ \A k : TrueItems(k)' = TrueItems(k)
  BY SameText
<1>2. Carried'
  BY DEF Carried
<1>3. CASE ~Attached
  <2>1. ~Attached' /\ ListenerType'
    BY <1>3, Typed DEF Attached, ListenerType, Unheard
  <2>. QED
    BY <1>2, <2>1 DEF OutlineInv
<1>4. CASE Attached
  <2>1. /\ outliner \in Outliners /\ outliner.modifiedLine \in Nat /\ invalidLine \in Nat
        /\ unheard \in LineStarts /\ unheard \in Nat /\ line \in Nat
        /\ unheard <= MaxLines /\ unannounced.at \in Nat
        /\ \A i \in DOMAIN outliner.outline : outliner.outline[i].lno \in Nat
    BY <1>4, Typed DEF Lines
  <2>2. Ordered(outliner.outline) /\ Above /\ Taken /\ Behind
    BY <1>4 DEF OutlineInv, Listening
  <2>3. /\ Forgot(line) => unheard' = unheard
        /\ ~Forgot(line) => unheard' <= unheard /\ unheard' <= line /\ unheard' \in Nat
    BY <1>4, <2>1 DEF Unheard, Smaller
  <2>4. unheard' <= unheard /\ unheard' \in Nat /\ ListenerType'
    BY <2>1, <2>3, Typed DEF ListenerType, LineStarts
  <2>5. Above' /\ Level'
    BY <2>2 DEF Above, Level
  <2>6. Behind'
    BY <2>1, <2>2, <2>4 DEF Behind
  <2>7. Taken'
    <3>. SUFFICES ASSUME grammar # NoGrammar, NEW k \in Lines, Heeded(k)'
                  PROVE  /\ On(outliner.outline, k) \subseteq TrueItems(k)
                         /\ Past(k)' => On(outliner.outline, k) = TrueItems(k)
      BY <1>1 DEF Taken, On
    <3>1. k \in Nat /\ k < unheard'
      BY DEF Lines, Heeded
    <3>2. k < unheard
      BY <2>1, <2>4, <3>1
    <3>3. CASE k < line
      <4>1. Heeded(k)
        BY <2>1, <3>1, <3>2, <3>3 DEF Heeded
      <4>2. Past(k)' => Past(k)
        BY DEF Past
      <4>. QED
        BY <2>2, <4>1, <4>2 DEF Taken
    <3>4. CASE ~(k < line)
      <4>1. Forgot(line)
        BY <2>1, <2>3, <3>1, <3>4
      <4>2. On(outliner.outline, k) = {}
        <5>1. \A i \in DOMAIN outliner.outline : outliner.outline[i].lno # k
          BY <2>1, <3>1, <3>4, <4>1 DEF Forgot
        <5>. QED
          BY <5>1 DEF On
      <4>3. ~Past(k)'
        BY <2>1, <3>1, <3>4, <4>1 DEF Past, Forgot
      <4>. QED
        BY <4>2, <4>3
    <3>. QED
      BY <3>3, <3>4
  <2>. QED
    BY <1>2, <2>2, <2>4, <2>5, <2>6, <2>7 DEF OutlineInv, Listening
<1>. QED
  BY <1>3, <1>4

(* modifyEvent.                                                            *)
LEMMA ModifyEventHeardStep ==
  ASSUME OutlineInv, NEW topLine \in Lines, ModifyEventHeard(topLine)
  PROVE  OutlineInv'
<1>1. /\ Idle /\ Idle' /\ topLine <= unannounced.at
      /\ invalidLine' = Smaller(invalidLine, topLine)
      /\ unannounced' = Announced /\ UNCHANGED <<text, grammar>>
  BY DEF ModifyEventHeard, ModifyEvent, Idle
<1>2. IInv'
  BY ModifyEventStep, Typed DEF ModifyEventHeard
<1>3. invalidLine \in Nat /\ topLine \in Nat
  BY Typed DEF Lines
<1>4. CASE ~(invalidLine > topLine)
  <2>1. UNCHANGED outliner /\ Unheard(topLine)
    BY <1>4 DEF ModifyEventHeard
  <2>2. invalidLine <= topLine /\ invalidLine' = invalidLine
    BY <1>1, <1>3, <1>4 DEF Smaller
  <2>. QED
    BY <1>1, <1>2, <2>1, <2>2, UnheardStep
<1>5. CASE invalidLine > topLine
  <2>1. /\ Hears(Out!modifyEvent(outliner, topLine))
        /\ unheard' = IF topLine <= unheard THEN MaxLines ELSE unheard
        /\ invalidLine' = topLine
    BY <1>1, <1>3, <1>5 DEF ModifyEventHeard, Smaller
  <2>2. Carried'
    BY <1>1 DEF Carried
  <2>3. unheard' \in LineStarts /\ unheard \in Nat
    BY <2>1, Typed DEF LineStarts
  <2>4. CASE ~Attached
    <3>1. outliner' = outliner
      BY <2>1, <2>4 DEF Hears
    <3>. QED
      BY <1>2, <2>2, <2>3, <2>4, <3>1, Typed DEF OutlineInv, ListenerType, Attached
  <2>5. CASE Attached
    <3>1. /\ outliner \in Outliners /\ unannounced.at \in Nat
      BY <2>5, Typed
    <3>2. Ordered(outliner.outline) /\ Taken
      BY <2>5 DEF OutlineInv, Listening
    <3>3. outliner' = Out!modifyEvent(outliner, topLine)
      BY <2>1, <2>5 DEF Hears
    <3>4. /\ outliner' \in Outliners /\ outliner'.modifiedLine = topLine
          /\ Ordered(outliner'.outline)
          /\ \A i \in DOMAIN outliner'.outline : outliner'.outline[i].lno < topLine
          /\ \A l \in Lines : On(outliner'.outline, l) =
               IF l < topLine THEN On(outliner.outline, l) ELSE {}
      BY <3>1, <3>2, <3>3, Forgotten
    <3>5. Above'
      <4>1. \A i \in DOMAIN outliner'.outline : outliner'.outline[i].lno \in Nat
        <5>1. \A i \in DOMAIN outliner'.outline : outliner'.outline[i].lno \in Lines
          BY <3>4, Fields, SequenceOfItems
        <5>. QED
          BY <5>1 DEF Lines
      <4>2. \A i \in DOMAIN outliner'.outline : outliner'.outline[i].lno <= topLine
        BY <1>3, <3>4, <4>1
      <4>. QED
        BY <3>4, <4>2 DEF Above
    <3>6. Behind' /\ Level'
      BY <1>1, <1>3, <2>1, <3>4 DEF Behind, Level
    <3>7. Taken'
      <4>0. \A k : TrueItems(k)' = TrueItems(k)
        BY <1>1, SameText
      <4>. SUFFICES ASSUME grammar # NoGrammar, NEW k \in Lines, Heeded(k)'
                    PROVE  /\ On(outliner'.outline, k) \subseteq TrueItems(k)
                           /\ Past(k)' => On(outliner'.outline, k) = TrueItems(k)
        BY <1>1, <4>0 DEF Taken, On
      <4>1. k \in Nat /\ k < unheard'
        BY DEF Lines, Heeded
      <4>2. CASE k < topLine
        <5>1. k < unheard /\ k < unannounced.at
          BY <1>1, <1>3, <2>1, <2>3, <3>1, <4>1, <4>2
        <5>2. Past(k) /\ Heeded(k)
          BY <1>3, <1>5, <4>1, <4>2, <5>1 DEF Past, Heeded
        <5>3. On(outliner.outline, k) = TrueItems(k)
          BY <3>2, <5>2 DEF Taken
        <5>. QED
          BY <3>4, <4>2, <5>3
      <4>3. CASE ~(k < topLine)
        BY <1>1, <2>1, <3>4, <4>3 DEF Past
      <4>. QED
        BY <4>2, <4>3
    <3>8. ListenerType'
      BY <2>3, <3>4 DEF ListenerType
    <3>. QED
      BY <1>2, <2>2, <3>4, <3>5, <3>6, <3>7, <3>8 DEF OutlineInv, Listening
  <2>. QED
    BY <2>4, <2>5
<1>. QED
  BY <1>4, <1>5

(* modifyLineEvent, which parses the one line.                             *)
LEMMA ModifyLineEventHeardStep ==
  ASSUME OutlineInv, NEW line \in Lines, ModifyLineEventHeard(line)
  PROVE  OutlineInv'
<1>1. /\ Idle /\ Idle' /\ line = unannounced.at
      /\ unannounced' = Announced /\ UNCHANGED <<text, grammar>>
      /\ ~(invalidLine > line) => invalidLine' = invalidLine
      /\ invalidLine' = invalidLine \/ invalidLine' = line
      /\ Unheard(line)
  BY DEF ModifyLineEventHeard, ModifyLineEvent, Idle
<1>2. IInv' /\ IInv /\ TypeOK
  BY ModifyLineEventStep, Typed DEF ModifyLineEventHeard
<1>3. invalidLine \in Nat /\ line \in Nat /\ line \in LineStarts
  BY Typed DEF Lines, LineStarts
<1>4. CASE ~(invalidLine > line /\ grammar # NoGrammar)
  <2>1. UNCHANGED outliner
    BY <1>4 DEF ModifyLineEventHeard
  <2>2. grammar # NoGrammar => invalidLine <= line /\ invalidLine' = invalidLine
    BY <1>1, <1>3, <1>4
  <2>3. line <= unannounced.at
    BY <1>1, <1>3
  <2>. QED
    BY <1>1, <1>2, <2>1, <2>2, <2>3, UnheardStep
<1>5. CASE invalidLine > line /\ grammar # NoGrammar
  <2>1. Carried'
    BY <1>1 DEF Carried
  <2>2. CASE ~Attached
    <3>1. outliner' = outliner /\ unheard' = unheard
      BY <1>1, <1>5, <2>2 DEF ModifyLineEventHeard, Hears, Unheard
    <3>. QED
      BY <1>2, <2>1, <2>2, <3>1, Typed DEF OutlineInv, ListenerType, Attached
  <2>3. CASE Attached
    <3>. DEFINE d == Depth[pred[line]]
                z == 0
                begun == [[outliner EXCEPT !.curLevel = z] EXCEPT !.curLevel = d]
                heard == Out!LineParsed(begun, line, text[line], TrueCalls(line))
    <3>1. /\ outliner \in Outliners /\ outliner.modifiedLine \in Nat
          /\ unheard \in LineStarts /\ unheard \in Nat /\ unannounced.at \in Nat
          /\ \A i \in DOMAIN outliner.outline : outliner.outline[i].lno \in Nat
      BY <2>3, Typed
    <3>2. Ordered(outliner.outline) /\ Above /\ Taken /\ Behind
      BY <2>3 DEF OutlineInv, Listening
    <3>3. pred[line] = TrueState[line] /\ pred[line] \in States
      <4>1. line \in 0 .. Known
        BY <1>1, <1>3, <1>5 DEF Known, Smaller
      <4>2. pred[line] = TrueState[line]
        BY <1>2, <1>5, <4>1, KnownTrue
      <4>. QED
        BY <1>2, <1>3, <4>2 DEF TypeOK
    <3>4. outliner' = Out!endParsing(heard, line)
      BY <1>5, <2>3, <3>3
         DEF ModifyLineEventHeard, Hears, Begun, Out!startParsing, TrueCalls, CallsIn
    <3>5. /\ begun \in Outliners /\ begun.outline = outliner.outline
          /\ begun.curLevel = Depth[TrueState[line]] /\ begun.modifiedLine = outliner.modifiedLine
      <4>. DEFINE q == [outliner EXCEPT !.curLevel = z]
      <4>0. z \in Int /\ d \in Int
        BY <3>3
      <4>6. d = Depth[TrueState[line]]
        BY <3>3
      <4>. HIDE DEF d, z
      <4>1. q \in Outliners /\ q.outline = outliner.outline /\ q.modifiedLine = outliner.modifiedLine
        BY <3>1, <4>0, WithLevel
      <4>. HIDE DEF q
      <4>2. begun = [q EXCEPT !.curLevel = d]
        BY DEF q
      <4>3. LET r == [q EXCEPT !.curLevel = d]
            IN /\ r \in Outliners /\ r.outline = q.outline
               /\ r.curLevel = d /\ r.modifiedLine = q.modifiedLine
        BY <4>0, <4>1, WithLevel
      <4>. HIDE DEF begun
      <4>. QED
        BY <4>1, <4>2, <4>3, <4>6
    <3>. HIDE DEF begun
    <3>6. Over(begun, line)
      <4>. SUFFICES ASSUME NEW i \in DOMAIN outliner.outline
                    PROVE  outliner.outline[i].lno <= outliner.modifiedLine
        BY <3>5 DEF Over
      <4>. QED
        BY <1>1, <3>2 DEF Above
    <3>7. LineTakes(heard, begun, line)
      BY <1>2, <1>5, <3>2, <3>5, <3>6, LineTaken
    <3>. HIDE DEF heard
    <3>. DEFINE m == outliner.modifiedLine
    <3>8. /\ heard \in Outliners /\ heard.modifiedLine = m /\ Ordered(heard.outline)
          /\ \A k \in Lines : On(heard.outline, k) =
               IF k = line /\ m <= line THEN On(outliner.outline, k) \cup TrueItems(k)
               ELSE On(outliner.outline, k)
          /\ \A i \in DOMAIN heard.outline : heard.outline[i].lno <= m \/ heard.outline[i].lno < line + 1
      BY <3>5, <3>7 DEF LineTakes
    <3>9. /\ outliner' \in Outliners /\ outliner'.outline = heard.outline
          /\ outliner'.modifiedLine = IF m < line THEN line + 1 ELSE m
      <4>1. line \in -1 .. MaxLines
        BY <1>3 DEF LineStarts
      <4>2. LET r == Out!endParsing(heard, line)
            IN /\ r \in Outliners /\ r.outline = heard.outline
               /\ r.modifiedLine = IF heard.modifiedLine < line THEN line + 1 ELSE heard.modifiedLine
        BY <3>8, <4>1, EndParsed
      <4>. HIDE DEF m
      <4>. QED
        BY <3>4, <3>8, <4>2
    <3>10. /\ m \in Nat /\ outliner'.modifiedLine \in Nat
           /\ outliner'.modifiedLine = line + 1 \/ outliner'.modifiedLine = m
           /\ m <= outliner'.modifiedLine /\ line <= outliner'.modifiedLine
      <4>1. m \in Nat
        BY <3>1
      <4>. HIDE DEF m
      <4>. QED
        BY <1>3, <3>9, <4>1
    <3>. HIDE DEF m
    <3>11. Above'
      <4>. SUFFICES ASSUME NEW i \in DOMAIN heard.outline
                    PROVE  heard.outline[i].lno <= outliner'.modifiedLine
        BY <3>9 DEF Above
      <4>1. heard.outline[i].lno <= m \/ heard.outline[i].lno < line + 1
        BY <3>8
      <4>2. heard.outline[i].lno \in Nat
        <5>1. heard.outline[i].lno \in Lines
          BY <3>8, Fields, SequenceOfItems
        <5>. QED
          BY <5>1 DEF Lines
      <4>. QED
        BY <1>3, <3>10, <4>1, <4>2
    <3>12. /\ Forgot(line) => unheard' = unheard
           /\ ~Forgot(line) => unheard' <= unheard /\ unheard' <= line
           /\ unheard' \in LineStarts /\ unheard' \in Nat /\ unheard' <= unheard
      BY <1>1, <1>3, <2>3, <3>1 DEF Unheard, Smaller
    <3>13. unheard <= m \/ invalidLine <= m + 1
      BY <1>5, <3>2 DEF Behind, m
    <3>14. Behind'
      <4>1. unheard' <= outliner'.modifiedLine \/ invalidLine' <= outliner'.modifiedLine + 1
        BY <1>1, <1>3, <1>5, <3>1, <3>10, <3>12, <3>13
      <4>. QED
        BY <4>1 DEF Behind
    <3>15. Taken'
      <4>0. \A k : TrueItems(k)' = TrueItems(k)
        BY <1>1, SameText
      <4>. SUFFICES ASSUME NEW k \in Lines, Heeded(k)'
                    PROVE  /\ On(heard.outline, k) \subseteq TrueItems(k)
                           /\ Past(k)' => On(heard.outline, k) = TrueItems(k)
        BY <1>1, <3>9, <4>0 DEF Taken, On
      <4>1. k \in Nat /\ k < unheard'
        BY DEF Lines, Heeded
      <4>2. k < unheard
        BY <3>1, <3>12, <4>1
      <4>3. CASE k < line
        <5>1. Heeded(k) /\ Past(k)
          BY <1>1, <1>3, <1>5, <4>1, <4>2, <4>3 DEF Heeded, Past
        <5>2. On(outliner.outline, k) = TrueItems(k)
          BY <1>5, <3>2, <5>1 DEF Taken
        <5>. QED
          <6>1. k # line
            BY <1>3, <4>1, <4>3
          <6>2. On(heard.outline, k) = On(outliner.outline, k)
            BY <3>8, <6>1
          <6>. QED
            BY <5>2, <6>2
      <4>4. CASE ~(k < line)
        <5>1. Forgot(line)
          BY <1>3, <3>12, <4>1, <4>4
        <5>2. m <= line /\ \A i \in DOMAIN outliner.outline : outliner.outline[i].lno < line
          BY <5>1 DEF Forgot, m
        <5>3. On(outliner.outline, k) = {}
          <6>1. \A i \in DOMAIN outliner.outline : outliner.outline[i].lno # k
            BY <1>3, <3>1, <4>1, <4>4, <5>2
          <6>. QED
            BY <6>1 DEF On
        <5>4. CASE k = line
          BY <3>8, <5>2, <5>3, <5>4
        <5>5. CASE k # line
          <6>1. ~(k < outliner'.modifiedLine) /\ ~(k < invalidLine')
            BY <1>1, <1>3, <3>1, <3>10, <3>13, <4>1, <4>2, <4>4, <5>2, <5>5
          <6>2. ~Past(k)'
            BY <1>1, <6>1 DEF Past
          <6>. QED
            BY <3>8, <5>3, <5>5, <6>2
        <5>. QED
          BY <5>4, <5>5
      <4>. QED
        BY <4>3, <4>4
    <3>16. ListenerType' /\ Level'
      BY <1>1, <3>9, <3>12 DEF ListenerType, Level
    <3>. QED
      BY <1>2, <2>1, <3>8, <3>9, <3>11, <3>14, <3>15, <3>16 DEF OutlineInv, Listening
  <2>. QED
    BY <2>2, <2>3
<1>. QED
  BY <1>4, <1>5

-----------------------------------------------------------------------------
(* The other calls of the host.                                            *)

(* An edit, which the host has still to announce.                          *)
LEMMA EditHeard ==
  ASSUME OutlineInv, Host, Unnoticed
  PROVE  OutlineInv'
<1>1. IInv' /\ TypeOK
  BY EditStep, Typed
<1>2. ASSUME NEW kind, NEW at \in Lines, Edit(kind, at),
             \A l \in Lines : l < at => text'[l] = text[l]
      PROVE  OutlineInv'
  <2>1. /\ Idle /\ Idle' /\ unannounced = Announced /\ unannounced'.at = at
        /\ UNCHANGED <<grammar, invalidLine>>
    BY <1>2 DEF Edit, Idle
  <2>2. at \in LineStarts /\ \A l \in Lines : l < at => l \in 0 .. at /\ l < MaxLines
    BY DEF Lines, LineStarts
  <2>3. \A l \in 0 .. at : TrueState'[l] = TrueState[l]
    BY <1>2, <2>1, <2>2, TrueStateAbove
  <2>4. ASSUME NEW l \in Lines, Heeded(l)' PROVE Heeded(l) /\ TrueItems(l)' = TrueItems(l)
    <3>1. l < at /\ l < unheard
      BY <2>1, <2>4 DEF Heeded, Unnoticed
    <3>2. Heeded(l)
      BY <2>1, <2>2, <3>1 DEF Heeded, Announced
    <3>3. TrueItems(l)' = TrueItems(l)
      BY <1>2, <2>1, <2>2, <2>3, <3>1, SameItems
    <3>. QED
      BY <3>2, <3>3
  <2>5. invalidLine' <= invalidLine /\ UNCHANGED <<outliner, unheard>>
    BY <2>1, Typed DEF Unnoticed
  <2>. QED
    BY <1>1, <2>1, <2>4, <2>5, AtRest
<1>3. ASSUME NEW l \in Lines, NEW c \in Contents, ReplaceLine(l, c)
      PROVE  OutlineInv'
  <2>1. Edit("line", l) /\ text' = [text EXCEPT ![l] = c]
    BY <1>3 DEF ReplaceLine
  <2>2. \A k \in Lines : k < l => text'[k] = text[k]
    BY <1>1, <2>1 DEF TypeOK, Lines
  <2>. QED
    BY <1>2, <2>1, <2>2
<1>4. ASSUME NEW l \in Lines, NEW c \in Contents, InsertLine(l, c)
      PROVE  OutlineInv'
  <2>1. /\ Edit("text", l)
        /\ text' = [i \in Lines |-> IF i < l THEN text[i] ELSE IF i = l THEN c ELSE text[i - 1]]
    BY <1>4 DEF InsertLine
  <2>2. \A k \in Lines : k < l => text'[k] = text[k]
    BY <2>1
  <2>. QED
    BY <1>2, <2>1, <2>2
<1>5. ASSUME NEW l \in Lines, DeleteLine(l)
      PROVE  OutlineInv'
  <2>1. /\ Edit("text", l)
        /\ text' = [i \in Lines |-> IF i < l \/ i = MaxLines - 1 THEN text[i] ELSE text[i + 1]]
    BY <1>5 DEF DeleteLine
  <2>2. \A k \in Lines : k < l => text'[k] = text[k]
    BY <2>1
  <2>. QED
    BY <1>2, <2>1, <2>2
<1>. QED
  BY <1>3, <1>4, <1>5 DEF Host

(* A file type.                                                            *)
LEMMA SetFileTypeHeard ==
  ASSUME OutlineInv, NEW g \in Grammars, SetFileType(g), UNCHANGED outliner, Unheard(0)
  PROVE  OutlineInv'
<1>1. /\ Idle /\ Idle' /\ invalidLine' = 0 /\ UNCHANGED unannounced
  BY DEF SetFileType, Idle, hostVars
<1>2. IInv'
  BY ConfigureStep, Typed DEF Configure
<1>3. Carried'
  BY <1>1 DEF Carried
<1>4. CASE ~Attached
  BY <1>2, <1>3, <1>4, Typed DEF OutlineInv, ListenerType, Attached, Unheard
<1>5. CASE Attached
  <2>1. /\ outliner \in Outliners /\ outliner.modifiedLine \in Nat
        /\ unheard \in LineStarts /\ unheard \in Nat
        /\ \A i \in DOMAIN outliner.outline : outliner.outline[i].lno \in Nat
    BY <1>5, Typed
  <2>2. Ordered(outliner.outline) /\ Above
    BY <1>5 DEF OutlineInv, Listening
  <2>3. Above' /\ Level' /\ Behind'
    <3>1. Above' /\ Level'
      BY <1>1, <2>2 DEF Above, Level
    <3>2. Behind'
      BY <1>1, <2>1 DEF Behind
    <3>. QED
      BY <3>1, <3>2
  <2>4. unheard' \in LineStarts /\ (Forgot(0) \/ unheard' = 0)
    BY <1>5, <2>1 DEF Unheard, Smaller, LineStarts
  <2>5. Taken'
    <3>. SUFFICES ASSUME NEW k \in Lines, Heeded(k)'
                  PROVE  On(outliner'.outline, k) = {} /\ ~Past(k)'
      <4>1. \A k : On(outliner'.outline, k) = {} => On(outliner'.outline, k) \subseteq TrueItems(k)'
        OBVIOUS
      <4>. QED
        BY <4>1 DEF Taken, On
    <3>1. k \in Nat /\ k < unheard'
      BY DEF Lines, Heeded
    <3>2. Forgot(0)
      BY <2>4, <3>1
    <3>3. ASSUME NEW i \in DOMAIN outliner.outline PROVE FALSE
      <4>1. outliner.outline[i].lno \in Nat /\ outliner.outline[i].lno < 0
        BY <2>1, <3>2 DEF Forgot
      <4>. QED
        BY <4>1
    <3>4. On(outliner'.outline, k) = {}
      BY <3>3 DEF On
    <3>5. ~Past(k)'
      BY <1>1, <2>1, <3>1, <3>2 DEF Past, Forgot
    <3>. QED
      BY <3>4, <3>5
  <2>6. ListenerType'
    BY <2>1, <2>4 DEF ListenerType
  <2>. QED
    BY <1>2, <1>3, <2>2, <2>3, <2>5, <2>6 DEF OutlineInv, Listening
<1>. QED
  BY <1>4, <1>5

(* Another mapping of the regions.                                         *)
LEMMA SetRegionMapperHeard ==
  ASSUME OutlineInv, NEW m \in Mappers, SetRegionMapper(m), Unnoticed
  PROVE  OutlineInv'
<1>1. /\ Idle /\ Idle' /\ invalidLine' = 0 /\ UNCHANGED <<text, unannounced, grammar>>
  BY DEF SetRegionMapper, remapLRS, Idle, hostVars
<1>2. IInv'
  BY ConfigureStep, Typed DEF Configure
<1>3. \A l : TrueItems(l)' = TrueItems(l) /\ (Heeded(l)' <=> Heeded(l))
  BY <1>1, SameText DEF Heeded, Unnoticed
<1>4. ASSUME NEW l \in Lines, l < invalidLine' PROVE FALSE
  BY <1>1, <1>4 DEF Lines
<1>. QED
  BY <1>1, <1>2, <1>3, <1>4, AtRest DEF Unnoticed

(* How many lines there are.                                               *)
LEMMA LineCountHeard ==
  ASSUME OutlineInv, NEW n \in LineStarts, LineCountEvent(n), Unnoticed
  PROVE  OutlineInv'
<1>1. /\ Idle /\ Idle' /\ UNCHANGED <<text, unannounced, grammar, invalidLine>>
  BY DEF LineCountEvent, Idle, hostVars
<1>2. IInv'
  BY WindowStep, Typed
<1>3. \A l : TrueItems(l)' = TrueItems(l) /\ (Heeded(l)' <=> Heeded(l))
  BY <1>1, SameText DEF Heeded, Unnoticed
<1>4. invalidLine' <= invalidLine
  BY <1>1, Typed
<1>. QED
  BY <1>1, <1>2, <1>3, <1>4, AtRest DEF Unnoticed

(* An Outliner comes.                                                      *)
LEMMA AddOutlinerStep ==
  ASSUME OutlineInv, AddOutliner
  PROVE  OutlineInv'
<1>1. /\ Idle /\ ~Attached /\ outliner' = Out!NewOutliner
      /\ unheard' = IF invalidLine = 0 THEN MaxLines ELSE 0
      /\ UNCHANGED vars
  BY DEF AddOutliner, Ready
<1>2. UNCHANGED <<text, docLines, unannounced, changes, grammar, mapper, lineCount,
                  invalidLine, backParse, wStart, wSize, firstLine, ring, lrSize, pred, job, shown>>
  BY <1>1 DEF vars, hostVars, windowVars, ringVars
<1>3. IInv' /\ Idle' /\ Carried'
  <2>1. Idle'
    BY <1>1, <1>2 DEF Idle
  <2>2. [Next]_vars
    BY <1>1
  <2>. QED
    BY <2>1, <2>2, IInvNext, Typed DEF Carried
<1>4. outliner' = [outline |-> <<>>, lineIsEmpty |-> FALSE, curLevel |-> 0, modifiedLine |-> 0]
  BY <1>1 DEF Out!NewOutliner
<1>5. outliner' \in Outliners /\ outliner'.outline = <<>> /\ outliner'.modifiedLine = 0
  <2>. DEFINE e == <<>>
              S == Seq(Items)
  <2>1. e \in S
    OBVIOUS
  <2>2. outliner' = [outline |-> e, lineIsEmpty |-> FALSE, curLevel |-> 0, modifiedLine |-> 0]
    BY <1>4
  <2>. HIDE DEF e, S
  <2>3. outliner' \in [outline : S, lineIsEmpty : BOOLEAN, curLevel : Int, modifiedLine : Nat]
    BY <2>1, <2>2
  <2>4. outliner'.outline = e /\ outliner'.modifiedLine = 0
    BY <2>2
  <2>. QED
    BY <2>3, <2>4 DEF Outliners, e, S
<1>6. unheard' \in LineStarts /\ invalidLine \in Nat
  BY <1>1, Typed DEF LineStarts
<1>7. DOMAIN outliner'.outline = {}
  BY <1>5
<1>8. Ordered(outliner'.outline) /\ Above' /\ Level' /\ Behind'
  <2>1. Ordered(outliner'.outline)
    BY <1>7 DEF Ordered
  <2>2. Above'
    BY <1>7 DEF Above
  <2>3. Level'
    BY <1>3 DEF Level
  <2>4. Behind'
    BY <1>1, <1>2, <1>5 DEF Behind
  <2>. QED
    BY <2>1, <2>2, <2>3, <2>4
<1>9. Taken'
  <2>. SUFFICES ASSUME NEW k \in Lines, Heeded(k)'
                PROVE  On(outliner'.outline, k) = {} /\ ~Past(k)'
    BY DEF Taken, On
  <2>1. On(outliner'.outline, k) = {}
    BY <1>7 DEF On
  <2>2. k \in Nat /\ k < unheard'
    BY DEF Lines, Heeded
  <2>3. invalidLine = 0
    BY <1>1, <2>2
  <2>4. ~Past(k)'
    BY <1>2, <1>3, <1>5, <2>2, <2>3 DEF Past
  <2>. QED
    BY <2>1, <2>4
<1>10. ListenerType'
  BY <1>5, <1>6 DEF ListenerType
<1>. QED
  BY <1>3, <1>5, <1>8, <1>9, <1>10 DEF OutlineInv, Listening

(* Counting a change is no change.                                         *)
LEMMA OnlyCounted ==
  ASSUME IInv, changes < MaxChanges, changes' = changes + 1,
         UNCHANGED <<text, docLines, unannounced, grammar, mapper, lineCount, invalidLine,
                     backParse, wStart, wSize, firstLine, ring, lrSize, pred, job, shown>>
  PROVE  IInv'
<1>1. TypeOK'
  <2>1. TypeOK
    BY DEF IInv
  <2>2. changes' \in 0 .. MaxChanges
    BY <2>1 DEF TypeOK
  <2>. QED
    BY <2>1, <2>2 DEF TypeOK
<1>. QED
  BY <1>1 DEF IInv, EditsOK, StrongCoherent, JobCoherent, Untouched, Predicted, Idle, Announced

(* It goes.                                                                *)
LEMMA RemoveOutlinerStep ==
  ASSUME OutlineInv, RemoveOutliner
  PROVE  OutlineInv'
<1>1. /\ Idle /\ outliner' = NoOutliner /\ unheard' = MaxLines /\ changes < MaxChanges
      /\ changes' = changes + 1
      /\ UNCHANGED <<text, docLines, unannounced, grammar, mapper, lineCount,
                     invalidLine, backParse, wStart, wSize, firstLine, ring, lrSize, pred, job, shown>>
  BY DEF RemoveOutliner, Ready, hostVars, windowVars, ringVars
<1>2. IInv'
  BY <1>1, OnlyCounted, Typed
<1>3. Idle' /\ ~Attached' /\ ListenerType'
  BY <1>1 DEF Idle, Attached, ListenerType, LineStarts
<1>. QED
  BY <1>2, <1>3 DEF OutlineInv, Carried

(* The editor and its Outliner do nothing.                                 *)
LEMMA NothingHeard ==
  ASSUME OutlineInv, UNCHANGED <<vars, outliner, unheard>>
  PROVE  OutlineInv'
<1>1. UNCHANGED <<text, unannounced, grammar, invalidLine, job, outliner, unheard>>
  BY DEF vars, hostVars
<1>2. IInv'
  <2>1. [Next]_vars
    OBVIOUS
  <2>. QED
    BY <2>1, IInvNext, Typed
<1>3. TrueState' = TrueState /\ \A l : TrueItems(l)' = TrueItems(l)
  BY <1>1, SameText
<1>4. (Idle' <=> Idle) /\ (Attached' <=> Attached) /\ Carried' /\ ListenerType'
  BY <1>1, <1>3, Typed DEF OutlineInv, Idle, Attached, Carried, ListenerType
<1>5. ASSUME Attached PROVE Listening'
  <2>1. Ordered(outliner.outline) /\ Above /\ Taken /\ Behind /\ Level
    BY <1>5 DEF OutlineInv, Listening
  <2>2. Above' /\ Behind' /\ Level'
    BY <1>1, <1>4, <2>1 DEF Above, Behind, Level
  <2>3. \A l : (Heeded(l)' <=> Heeded(l)) /\ (Past(l)' <=> Past(l))
    BY <1>1, <1>4 DEF Heeded, Past
  <2>4. Taken'
    BY <1>1, <1>3, <2>1, <2>3, StillTaken
  <2>. QED
    BY <1>1, <2>1, <2>2, <2>4 DEF Listening
<1>. QED
  BY <1>2, <1>4, <1>5 DEF OutlineInv

(* Every step of the editor with its Outliner.                             *)
LEMMA OutlineInvNext == OutlineInv /\ [ServicesNext]_all => OutlineInv'
<1>. SUFFICES ASSUME OutlineInv, [ServicesNext]_all PROVE OutlineInv'
  OBVIOUS
<1>0. IInv
  BY Typed
<1>1. CASE HostCalls
  <2>1. CASE View /\ HearsStart /\ UNCHANGED unheard
    BY <1>0, <2>1, ViewStep, LooksStep
  <2>. QED
    BY <1>1, <2>1, EditHeard, ModifyEventHeardStep, ModifyLineEventHeardStep, LineCountHeard,
       SetFileTypeHeard, SetRegionMapperHeard DEF HostCalls
<1>2. ASSUME NEW l \in -1 .. MaxLines, GetLineRegions(l), HearsStart, UNCHANGED unheard
      PROVE  OutlineInv'
  BY <1>0, <1>2, GetLineRegionsStep, GetLineRegionsLooks, LooksStep
<1>3. CASE Searches
  <2>1. ASSUME NEW l \in Lines, searchLocalPair(l) \/ searchGlobalPair(l), HearsStart, UNCHANGED unheard
        PROVE  OutlineInv'
    <3>1. l \in -1 .. MaxLines /\ GetLineRegions(l)
      BY <2>1 DEF searchLocalPair, searchGlobalPair, SearchPair, Lines
    <3>. QED
      BY <1>2, <2>1, <3>1
  <2>2. CASE AskNext /\ HearsStart /\ UNCHANGED unheard
    <3>1. PICK l \in LineStarts : GetLineRegions(l)
      BY <2>2 DEF AskNext
    <3>2. l \in -1 .. MaxLines
      BY DEF LineStarts
    <3>. QED
      BY <1>2, <2>2, <3>1, <3>2
  <2>3. CASE getPairMatch \/ ReadNext
    BY <2>3, NothingHeard DEF getPairMatch, ReadNext
  <2>. QED
    BY <1>3, <2>1, <2>2, <2>3 DEF Searches
<1>4. CASE ParserHeard
  BY <1>4, ParseLineHeard, EndParseHeard DEF ParserHeard
<1>5. CASE UNCHANGED all
  BY <1>5, NothingHeard DEF all, services
<1>. QED
  BY <1>1, <1>3, <1>4, <1>5, AddOutlinerStep, RemoveOutlinerStep DEF ServicesNext

(* OutlineInv holds of the editor with its Outliner, for every constant.   *)
THEOREM OutlineInvariance == ServicesSpec => []OutlineInv
BY OutlineInvInit, OutlineInvNext, PTL DEF ServicesSpec

(* The outline is true (OutlineTrue): what the Outliner lists of lines both*)
(* it and the editor hold valid is what a parse of the whole text gives,   *)
(* whatever pieces the text was parsed in, edited and remapped.            *)
THEOREM OutlineIsTrue == ServicesSpec => []OutlineTrue
BY OutlineInvariance, OutlineInvTrue, PTL

(* Of an outline, its items' levels.                                       *)
LEMMA OutlineInvPacked == OutlineInv => TreePacked
<1>. SUFFICES ASSUME OutlineInv, Attached, NEW n \in DOMAIN outliner.outline
              PROVE  LET level(i) == outliner.outline[i].level
                         Ancestors == {j \in 1 .. n - 1 : \A k \in j + 1 .. n : level(j) < level(k)}
                     IN Out!PackedLevel([i \in 1 .. n |-> level(i)]) = Cardinality(Ancestors)
  BY DEF TreePacked
<1>1. outliner \in Outliners
  BY DEF OutlineInv, ListenerType, Attached
<1>2. outliner.outline \in Seq(Items)
  BY <1>1 DEF Outliners
<1>3. /\ n \in Nat \ {0}
      /\ \A i \in 1 .. n : outliner.outline[i] \in Items
  <2>. DEFINE list == outliner.outline
  <2>. HIDE DEF list
  <2>1. list \in Seq(Items) /\ n \in DOMAIN list
    BY <1>2 DEF list
  <2>2. DOMAIN list = 1 .. Len(list) /\ Len(list) \in Nat
    BY <2>1
  <2>3. n \in Nat \ {0} /\ \A i \in 1 .. n : i \in 1 .. Len(list)
    BY <2>1, <2>2
  <2>4. \A i \in 1 .. Len(list) : list[i] \in Items
    BY <2>1
  <2>. QED
    BY <2>3, <2>4 DEF list
<1>. DEFINE levels == [i \in 1 .. n |-> outliner.outline[i].level]
<1>4. levels \in [1 .. n -> Int]
  BY <1>3 DEF Items
<1>5. \A i \in 1 .. n : levels[i] = outliner.outline[i].level
  OBVIOUS
<1>6. Out!PackedLevel(levels)
      = Cardinality({j \in 1 .. n - 1 : \A k \in j + 1 .. n : levels[j] < levels[k]})
  <2>. HIDE DEF levels
  <2>1. n \in Nat \ {0}
    BY <1>3
  <2>2. Packed(n, levels)
    BY <1>4, <2>1, PackedIs
  <2>. QED
    BY <2>2 DEF Packed
<1>7. {j \in 1 .. n - 1 : \A k \in j + 1 .. n : levels[j] < levels[k]}
      = {j \in 1 .. n - 1 : \A k \in j + 1 .. n : outliner.outline[j].level < outliner.outline[k].level}
  <2>1. ASSUME NEW j \in 1 .. n - 1
        PROVE  j \in 1 .. n /\ \A k \in j + 1 .. n : k \in 1 .. n
    <3>1. n \in Nat \ {0} /\ j \in 1 .. n - 1
      BY <1>3
    <3>2. j \in 1 .. n
      BY ONLY <3>1
    <3>3. ASSUME NEW k \in j + 1 .. n PROVE k \in 1 .. n
      BY ONLY <3>1, <3>3
    <3>. QED
      BY <3>2, <3>3
  <2>. HIDE DEF levels
  <2>. QED
    BY <1>5, <2>1
<1>. QED
  BY <1>6, <1>7

(* The tree of the outline (TreePacked): manageTree shows an item under    *)
(* the items before it that are lower than all since.                      *)
THEOREM TreeIsPacked == ServicesSpec => []TreePacked
BY OutlineInvariance, OutlineInvPacked, PTL

-----------------------------------------------------------------------------
(* The regions of the text as it is.                                       *)
Seen == [l \in Lines |-> IF l < lineCount THEN RegionsIn(Fresh(l)) ELSE <<>>]

(* They are calls.                                                         *)
LEMMA SeenType ==
  ASSUME TypeOK, grammar # NoGrammar
  PROVE  /\ Seen \in Texts
         /\ \A l \in Lines : l < lineCount => Seen[l] = RegionsIn(Fresh(l))
<1>1. ASSUME NEW l \in Lines PROVE RegionsIn(Fresh(l)) \in Seq(Out!Calls)
  <2>1. TrueCalls(l) \in Seq(Out!Calls)
    BY TrueCallsType
  <2>2. Fresh(l) # None
    BY DEF Fresh, Colored, None
  <2>3. /\ Fresh(l).grammar = grammar /\ Fresh(l).state = TrueState[l]
        /\ Fresh(l).content = text[l]
    BY DEF Fresh, Colored
  <2>. QED
    BY <2>1, <2>2, <2>3 DEF RegionsIn, TrueCalls, CallsIn
<1>2. <<>> \in Seq(Out!Calls)
  OBVIOUS
<1>. QED
  BY <1>1, <1>2 DEF Seen, Texts

(* Their brackets are those a match is looked for among.                   *)
LEMMA BracketsAre ==
  ASSUME TypeOK, grammar # NoGrammar, NEW a \in Int, NEW b \in Int
  PROVE  \A p : /\ p \in Brackets(a, b) <=> p \in BracketsOf(Seen) /\ a <= p[1] /\ p[1] <= b
                /\ p \in BracketsOf(Seen) => Kind(p) = At(Seen, p)
<1>1. /\ Seen \in Texts
      /\ \A l \in Lines : l < lineCount => Seen[l] = RegionsIn(Fresh(l))
      /\ \A l \in Lines : ~(l < lineCount) => Seen[l] = <<>>
  BY SeenType DEF Seen
<1>2. \A l \in Lines : \A i \in DOMAIN Seen[l] : i \in Nat
  BY <1>1 DEF Texts
<1>3. ASSUME NEW p \in BracketsOf(Seen)
      PROVE  /\ p \in Lines \X Nat /\ p[1] < lineCount /\ p[2] \in DOMAIN RegionsIn(Fresh(p[1]))
             /\ Kind(p) = At(Seen, p) /\ Kind(p) \in Pairs
  <2>1. p \in Lines \X Nat /\ p[1] \in Lines /\ p[2] \in DOMAIN Seen[p[1]] /\ At(Seen, p) \in Pairs
    BY DEF BracketsOf
  <2>2. p[1] < lineCount
    BY <1>1, <2>1
  <2>. QED
    BY <1>1, <2>1, <2>2 DEF Kind, At
<1>4. ASSUME NEW p, NEW l \in Lines, l < lineCount,
             p \in {l} \X DOMAIN RegionsIn(Fresh(l)), Kind(p) \in Pairs
      PROVE  p \in BracketsOf(Seen) /\ p[1] = l
  <2>1. p[1] = l /\ p[2] \in DOMAIN Seen[l] /\ p = <<p[1], p[2]>>
    BY <1>1, <1>4
  <2>2. p \in Lines \X Nat
    BY <1>2, <2>1
  <2>3. At(Seen, p) = Kind(p)
    BY <1>1, <1>4, <2>1 DEF At, Kind
  <2>. QED
    BY <1>4, <2>1, <2>2, <2>3 DEF BracketsOf
<1>5. ASSUME NEW p, p \in Brackets(a, b)
      PROVE  p \in BracketsOf(Seen) /\ a <= p[1] /\ p[1] <= b
  <2>1. PICK l \in Lines : /\ a <= l /\ l <= b /\ l < lineCount
                           /\ p \in {l} \X DOMAIN RegionsIn(Fresh(l)) /\ Kind(p) \in Pairs
    BY <1>5 DEF Brackets
  <2>. QED
    BY <1>4, <2>1
<1>6. ASSUME NEW p, p \in BracketsOf(Seen), a <= p[1], p[1] <= b
      PROVE  p \in Brackets(a, b)
  <2>. DEFINE l == p[1]
  <2>1. /\ l \in Lines /\ a <= l /\ l <= b /\ l < lineCount /\ Kind(p) \in Pairs
        /\ p \in {l} \X DOMAIN RegionsIn(Fresh(l))
    BY <1>3, <1>6
  <2>. HIDE DEF l
  <2>. QED
    BY <2>1 DEF Brackets
<1>. QED
  BY <1>3, <1>5, <1>6

(* The bracket that matches one is the first even one.                     *)
LEMMA MatchIs ==
  ASSUME TypeOK, grammar # NoGrammar, NEW p \in BracketsOf(Seen),
         NEW first \in Int, NEW last \in Int, first <= p[1], p[1] <= last
  PROVE  Match(p, first, last) = Matching(Seen, p, Kind(p) = "pairStart", first, last)
<1>. DEFINE down == Kind(p) = "pairStart"
            brackets == IF down THEN Brackets(p[1], last) ELSE Brackets(first, p[1])
            Between(q) == {r \in brackets : Toward(down, p, r) /\ Toward(down, r, q)}
            found == {q \in brackets : Toward(down, p, q) /\ Balanced(Between(q))}
            evens == Evens(Seen, p, down, first, last)
<1>1. Match(p, first, last) =
        IF found = {} THEN <<NoMatch, 0>> ELSE CHOOSE q \in found : \A r \in found : Toward(down, q, r)
  BY DEF Match
<1>2. p[1] \in Int /\ \A q \in BracketsOf(Seen) : q[1] \in Int /\ q[2] \in Int
  BY DEF BracketsOf, Lines
<1>3. \A q : q \in brackets <=>
        q \in BracketsOf(Seen) /\ IF down THEN p[1] <= q[1] /\ q[1] <= last
                                  ELSE first <= q[1] /\ q[1] <= p[1]
  <2>1. CASE down
    BY <1>2, <2>1, BracketsAre
  <2>2. CASE ~down
    BY <1>2, <2>2, BracketsAre
  <2>. QED
    BY <2>1, <2>2
<1>4. \A q \in BracketsOf(Seen) : Kind(q) = At(Seen, q)
  BY <1>2, BracketsAre
<1>. HIDE DEF brackets
<1>5. ASSUME NEW q \in BracketsOf(Seen)
      PROVE  q \in found <=> q \in evens
  <2>. HIDE DEF down
  <2>1. Toward(down, p, q) => IF down THEN p[1] <= q[1] ELSE q[1] <= p[1]
    BY <1>2 DEF Toward, LessEq
  <2>2. q \in brackets /\ Toward(down, p, q) => Between(q) = Upto(Seen, p, down, q)
    <3>. SUFFICES ASSUME q \in brackets, Toward(down, p, q)
                  PROVE  Between(q) = Upto(Seen, p, down, q)
      OBVIOUS
    <3>1. ASSUME NEW r \in BracketsOf(Seen), Toward(down, p, r), Toward(down, r, q)
          PROVE  r \in brackets
      <4>1. r[1] \in Int /\ q[1] \in Int /\ r[2] \in Int /\ q[2] \in Int /\ p[1] \in Int
        BY <1>2
      <4>. QED
        BY <1>3, <3>1, <4>1 DEF Toward, LessEq
    <3>. QED
      BY <1>3, <3>1 DEF Upto
  <2>3. Balanced(Upto(Seen, p, down, q)) <=> Even(Seen, Upto(Seen, p, down, q))
    <3>. DEFINE v == Upto(Seen, p, down, q)
    <3>1. \A r \in v : Kind(r) = At(Seen, r)
      BY <1>4 DEF Upto
    <3>. HIDE DEF v
    <3>2. /\ {r \in v : Kind(r) = "pairStart"} = Opening(Seen, v)
          /\ {r \in v : Kind(r) = "pairEnd"} = Closing(Seen, v)
      BY <3>1 DEF Opening, Closing
    <3>3. Balanced(v) <=> Even(Seen, v)
      BY <3>2 DEF Balanced, Even
    <3>. QED
      BY <3>3 DEF v
  <2>. HIDE DEF Between
  <2>. QED
    BY <1>3, <2>1, <2>2, <2>3 DEF Evens
<1>6. found = evens
  <2>1. \A q \in found : q \in BracketsOf(Seen)
    BY <1>3
  <2>2. \A q \in evens : q \in BracketsOf(Seen)
    BY DEF Evens
  <2>. HIDE DEF found, evens
  <2>. QED
    BY <1>5, <2>1, <2>2
<1>. HIDE DEF found, evens, down
<1>. QED
  BY <1>1, <1>6 DEF Matching, evens, down

-----------------------------------------------------------------------------
(* A search in progress: what it has walked over, and between which lines  *)
(* it looks.                                                               *)
UnderWay(t, s) ==
  LET pm == s.pm
  IN /\ s.line \in Int /\ s.first \in Int /\ s.last \in Int
     /\ s.first <= pm.sline /\ pm.sline <= s.last
     /\ pm.pairBalance # 0 /\ Walked(t, pm, EntryOf(pm.topPosition, s.line))
     /\ IF pm.topPosition THEN s.line <= s.last ELSE s.first <= s.line

(* One that is over.                                                       *)
Found(t, s) ==
  LET pm == s.pm
      p == <<pm.sline, pm.sat>>
  IN /\ s.first \in Int /\ s.last \in Int
     /\ s.first <= pm.sline /\ pm.sline <= s.last
     /\ p \in BracketsOf(t) /\ pm.topPosition = (At(t, p) = "pairStart")
     /\ <<pm.eline, pm.eat>> = Matching(t, p, pm.topPosition, s.first, s.last)

(* An editor without a grammar has coloured nothing.                       *)
Blank == grammar = NoGrammar => ring = EmptyRing(lrSize)

(* The regions of line l were asked for: what comes, or has come, of them. *)
Asking(l) ==
  /\ ~Idle => job.asked = l
  /\ Idle /\ l < invalidLine => shown.regions = LineRegionsOf(l)

SearchInv ==
  /\ search.phase \in {"none", "begin", "ask", "read", "done"}
  /\ search.phase = "begin" =>
       /\ search.line \in Lines /\ search.first \in Int /\ search.last \in Int
       /\ search.first <= search.line /\ search.line <= search.last
       /\ Asking(search.line)
  /\ search.phase = "ask" =>
       search = [phase |-> "ask", line |-> search.line, first |-> search.first,
                 last |-> search.last, trusted |-> search.trusted, pm |-> search.pm]
  /\ search.phase = "read" => search.line \in LineStarts /\ Asking(search.line)
  /\ search.phase \in {"ask", "read"} /\ search.trusted =>
       grammar # NoGrammar /\ UnderWay(Seen, search)
  /\ search.phase = "done" /\ search.trusted => grammar # NoGrammar /\ Found(Seen, search)

PairInv == RingInv /\ Blank /\ SearchInv

(* The regions of the text change with it only.                            *)
LEMMA SeenSame ==
  ASSUME UNCHANGED <<text, grammar, mapper, lineCount>>
  PROVE  Seen' = Seen
<1>1. TrueState' = TrueState
  BY DEF TrueState
<1>2. \A l : Fresh(l)' = Fresh(l)
  BY <1>1 DEF Fresh, Colored
<1>3. \A l : RegionsIn(Fresh(l))' = RegionsIn(Fresh(l))
  BY <1>2
<1>. QED
  BY <1>3 DEF Seen

(* searchPair goes on to the next line, or returns.                        *)
LEMMA ContinueShape ==
  ASSUME NEW pm, NEW lno, NEW trusted, Continue(pm, lno, trusted)
  PROVE  /\ search'.phase \in {"ask", "done"} /\ search'.trusted = trusted
         /\ search'.phase = "ask" =>
              search' = [phase |-> "ask", line |-> search'.line, first |-> search'.first,
                         last |-> search'.last, trusted |-> search'.trusted, pm |-> search'.pm]
BY DEF Continue

(* It is under way then, or over.                                          *)
LEMMA ContinueStep ==
  ASSUME NEW t \in Texts, NEW pm, NEW lno \in Lines, NEW trusted,
         NEW first \in Int, NEW last \in Int, first = search.first, last = search.last,
         first <= pm.sline, pm.sline <= last,
         IF pm.topPosition THEN lno <= last ELSE first <= lno,
         Walked(t, pm, EntryOf(pm.topPosition, Beyond(pm.topPosition, lno))),
         Continue(pm, lno, trusted)
  PROVE  /\ search'.phase = "ask" => UnderWay(t, search')
         /\ search'.phase = "done" => Found(t, search')
<1>. DEFINE down == pm.topPosition
            next == Beyond(down, lno)
            on == NextLine(pm, lno)
            over == \/ pm.pairBalance = 0
                    \/ pm.pairBalance > 0 /\ on > last
                    \/ pm.pairBalance < 0 /\ on < first
<1>1. /\ down \in BOOLEAN /\ lno \in Int /\ pm.pairBalance \in Int
      /\ <<pm.sline, pm.sat>> \in BracketsOf(t)
      /\ pm.pairBalance # 0 => (pm.pairBalance > 0) = down
      /\ down = (At(t, <<pm.sline, pm.sat>>) = "pairStart")
  BY DEF Walked, PairMatches, Lines
<1>2. next = (IF down THEN lno + 1 ELSE lno - 1) /\ next \in Int
  BY <1>1 DEF Beyond
<1>3. pm.pairBalance # 0 => on = next
  BY <1>1, <1>2 DEF NextLine
<1>4. /\ search'.phase = (IF over THEN "done" ELSE "ask") /\ search'.line = on
      /\ search'.first = first /\ search'.last = last /\ search'.pm = pm
  BY DEF Continue
<1>7. pm.pairBalance # 0 => (down => pm.pairBalance > 0) /\ (~down => pm.pairBalance < 0)
  <2>. DEFINE b == pm.pairBalance
              up == (b > 0)
  <2>1. b # 0 => up = down
    BY <1>1
  <2>2. up \in BOOLEAN
    OBVIOUS
  <2>. HIDE DEF up, down
  <2>3. b # 0 => (down <=> up)
    BY <1>1, <2>1, <2>2
  <2>4. b \in Int
    BY <1>1
  <2>. HIDE DEF b
  <2>. QED
    BY <2>3, <2>4 DEF up, b
<1>. HIDE DEF next, on
<1>5. CASE ~over
  <2>1. search'.phase = "ask"
    BY <1>4, <1>5
  <2>2. IF down THEN next <= last ELSE first <= next
    BY <1>1, <1>2, <1>3, <1>5, <1>7
  <2>3. pm.pairBalance # 0 /\ on = next
    BY <1>3, <1>5
  <2>. HIDE DEF down, over
  <2>4. UnderWay(t, search')
    BY <1>2, <1>4, <2>2, <2>3 DEF UnderWay, down, next
  <2>. QED
    BY <2>1, <2>4
<1>6. CASE over
  <2>1. search'.phase = "done"
    BY <1>4, <1>6
  <2>2. pm.pairBalance = 0 \/ (IF down THEN last < next ELSE next < first)
    BY <1>1, <1>2, <1>3, <1>6, <1>7
  <2>3. IF down THEN next - 1 <= last ELSE first <= next + 1
    BY <1>1, <1>2
  <2>. HIDE DEF over
  <2>4. <<pm.eline, pm.eat>> = Matching(t, <<pm.sline, pm.sat>>, down, first, last)
    BY <1>2, <2>2, <2>3, SearchOver DEF next
  <2>5. Found(t, search')
    BY <1>1, <1>4, <2>4 DEF Found
  <2>. QED
    BY <2>1, <2>5
<1>. QED
  BY <1>5, <1>6

(* A call for the regions of a line.                                       *)
LEMMA AskedFor ==
  ASSUME TypeOK, NEW l \in -1 .. MaxLines, GetLineRegions(l)
  PROVE  /\ Asking(l)'
         /\ UNCHANGED <<text, docLines, unannounced, grammar, mapper, lineCount>>
<1>1. Ready /\ Idle /\ invalidLine \in Nat /\ backParse \in Int /\ l \in Int /\ l # NotAsked
      /\ lineCount \in Nat \ {0}
  <2>1. Ready
    BY DEF GetLineRegions
  <2>. QED
    BY <2>1 DEF Ready, TypeOK, LineStarts, NotAsked
<1>2. CASE backParse > 0 /\ l - invalidLine > backParse
  <2>1. /\ UNCHANGED <<hostVars, grammar, mapper, lineCount, invalidLine, job>>
    BY <1>2 DEF GetLineRegions
  <2>2. ~(l < invalidLine)
    BY <1>1, <1>2
  <2>. QED
    BY <1>1, <2>1, <2>2 DEF Asking, Idle, hostVars
<1>3. CASE Rebuild(l, l)
  <2>. DEFINE plan == Plan(l)
  <2>1. /\ StartParse(plan, l) /\ UNCHANGED <<hostVars, grammar, mapper, lineCount>>
    BY <1>3 DEF Rebuild
  <2>2. plan.mode \in {"read", "update"}
    BY <1>1, PlanType
  <2>. HIDE DEF plan
  <2>3. CASE plan.from < plan.to /\ grammar # NoGrammar
    <3>1. job' = [mode |-> plan.mode, line |-> plan.from, stop |-> plan.to,
                  state |-> pred[plan.from], asked |-> l]
      BY <2>1, <2>3 DEF StartParse
    <3>2. job'.mode = plan.mode /\ job'.asked = l
      BY <3>1
    <3>3. ~Idle'
      BY <2>2, <3>2 DEF Idle
    <3>. QED
      BY <2>1, <3>2, <3>3 DEF Asking, hostVars
  <2>4. CASE ~(plan.from < plan.to /\ grammar # NoGrammar)
    <3>1. job' = job /\ shown' = Returned(l, LineRegionsOf(l)')
      BY <2>1, <2>4 DEF StartParse
    <3>2. shown' = [line |-> l, regions |-> LineRegionsOf(l)']
      BY <1>1, <3>1 DEF Returned
    <3>3. shown'.regions = LineRegionsOf(l)' /\ Idle'
      BY <1>1, <3>1, <3>2 DEF Idle
    <3>. QED
      BY <2>1, <3>3 DEF Asking, hostVars
  <2>. QED
    BY <2>3, <2>4
<1>. QED
  BY <1>2, <1>3 DEF GetLineRegions

(* What a search reads of a line in good faith is the line's regions.      *)
LEMMA TrustedRead ==
  ASSUME RingInv, Blank, Ready, NEW l \in LineStarts, Asking(l), NEW trusted, Read(l, trusted),
         RegionsIn(shown.regions) # <<>> \/ grammar # NoGrammar
  PROVE  /\ grammar # NoGrammar /\ l \in Lines
         /\ Seen \in Texts /\ RegionsIn(shown.regions) = Seen[l]
<1>1. /\ IInv /\ TypeOK /\ RingFresh /\ Idle /\ unannounced = Announced /\ lineCount = docLines
  BY RightIsFresh DEF RingInv, IInv, Ready
<1>2. /\ invalidLine \in Nat /\ invalidLine <= MaxLines /\ firstLine \in Nat /\ l \in Nat
      /\ wSize \in Nat /\ lrSize \in Nat \ {0}
  <2>1. wSize \in Nat
    BY <1>1 DEF TypeOK
  <2>. QED
    BY <1>1, <2>1 DEF TypeOK, LineStarts
<1>3. /\ l < invalidLine /\ firstLine <= l /\ l < firstLine + regionCoverLines(wSize)
  BY DEF Read
<1>4. l \in Lines /\ l < lineCount
  <2>1. l \in Lines
    BY <1>2, <1>3 DEF Lines
  <2>. QED
    BY <1>3, <2>1, ReadyWithin
<1>5. shown.regions = LineRegionsOf(l)
  BY <1>1, <1>3 DEF Asking
<1>6. grammar # NoGrammar
  <2>. SUFFICES ASSUME grammar = NoGrammar PROVE FALSE
    OBVIOUS
  <2>1. ring = EmptyRing(lrSize)
    BY DEF Blank
  <2>2. getLineIndex(l) \in 0 .. lrSize - 1
    BY <1>2, SlotRange DEF getLineIndex
  <2>3. LineRegionsOf(l) = None
    BY <2>1, <2>2 DEF LineRegionsOf, EmptyRing
  <2>. QED
    BY <1>5, <2>3 DEF RegionsIn
<1>7. LineRegionsOf(l) = Fresh(l)
  <2>1. Known = invalidLine
    BY <1>1, <1>2 DEF Known, Smaller, Announced
  <2>2. regionCoverLines(wSize) \in Nat
    BY <1>2 DEF regionCoverLines, regionWindow
  <2>3. l \in firstLine .. firstLine + regionCoverLines(wSize) - 1
    BY <1>2, <1>3, <2>2
  <2>. QED
    BY <1>1, <1>3, <1>4, <1>6, <2>1, <2>3 DEF RingFresh
<1>. QED
  BY <1>1, <1>4, <1>5, <1>6, <1>7, SeenType

(* An editor that rebuilds stays blank.                                    *)
LEMMA BlankRebuild ==
  ASSUME TypeOK, Blank, Ready, NEW lno \in -1 .. MaxLines, NEW asked, Rebuild(lno, asked)
  PROVE  Blank'
<1>. DEFINE plan == Plan(lno)
<1>1. lineCount \in Nat \ {0}
  BY DEF Ready, TypeOK, LineStarts
<1>2. ~plan.grow => plan.size = lrSize
  BY <1>1, PlanType
<1>3. /\ lrSize' = plan.size /\ grammar' = grammar
      /\ ring' = IF plan.grow THEN EmptyRing(plan.size) ELSE ring
  BY DEF Rebuild
<1>. HIDE DEF plan
<1>4. grammar' = NoGrammar => ring' = EmptyRing(plan.size)
  BY <1>2, <1>3 DEF Blank
<1>. QED
  BY <1>3, <1>4 DEF Blank, EmptyRing

(* What is kept by what colours nothing.                                   *)
LEMMA BlankSame ==
  ASSUME Blank, UNCHANGED <<grammar, ring, lrSize>>
  PROVE  Blank'
BY DEF Blank, EmptyRing

(* Every step keeps the invariant of the ring, and a blank one blank.      *)
LEMMA RingServicesNext ==
  ASSUME OneSize, RingInv, Blank, [ServicesNext]_all
  PROVE  RingInv' /\ Blank'
<1>0. IInv /\ TypeOK
  BY DEF RingInv, IInv
<1>1. ASSUME [Next]_vars PROVE RingInv'
  BY <1>1, RingInvNext
<1>2. ASSUME NEW l \in -1 .. MaxLines, GetLineRegions(l) \/ Validate(l, TRUE)
      PROVE  RingInv' /\ Blank'
  <2>1. Ready /\ (Rebuild(l, l) \/ Rebuild(l, NotAsked) \/ UNCHANGED <<grammar, ring, lrSize>>)
    BY <1>2 DEF GetLineRegions, Validate, ringVars
  <2>2. Blank'
    BY <1>0, <2>1, BlankRebuild, BlankSame
  <2>. QED
    BY <1>2, <2>2, RingAsked
<1>3. CASE HostCalls
  <2>1. CASE Host
    <3>1. UNCHANGED <<grammar, ring, lrSize>>
      BY <2>1 DEF Host, ReplaceLine, InsertLine, DeleteLine, Edit, ringVars
    <3>. QED
      BY <1>1, <2>1, <3>1, BlankSame DEF Next
  <2>2. ASSUME NEW l \in Lines, ModifyEvent(l) PROVE RingInv' /\ Blank'
    <3>1. UNCHANGED <<grammar, ring, lrSize>>
      BY <2>2 DEF ModifyEvent, ringVars
    <3>. QED
      BY <1>1, <2>2, <3>1, BlankSame DEF Next, Announce
  <2>3. ASSUME NEW l \in Lines, ModifyLineEvent(l) PROVE RingInv' /\ Blank'
    <3>1. UNCHANGED <<grammar, lrSize>> /\ (grammar = NoGrammar => ring' = ring)
      BY <2>3 DEF ModifyLineEvent
    <3>2. Blank'
      BY <3>1 DEF Blank, EmptyRing
    <3>. QED
      BY <1>1, <2>3, <3>2 DEF Next, Announce
  <2>4. ASSUME NEW n \in LineStarts, LineCountEvent(n) PROVE RingInv' /\ Blank'
    <3>1. UNCHANGED <<grammar, ring, lrSize>>
      BY <2>4 DEF LineCountEvent, ringVars
    <3>. QED
      BY <1>1, <2>4, <3>1, BlankSame DEF Next, Announce
  <2>5. ASSUME NEW g \in Grammars, SetFileType(g) PROVE RingInv' /\ Blank'
    <3>1. grammar' = g /\ g # NoGrammar /\ g \in Grammars \cup {NoGrammar}
      BY <2>5 DEF SetFileType
    <3>. QED
      BY <1>1, <2>5, <3>1 DEF Next, Configure, Blank
  <2>6. ASSUME NEW m \in Mappers, SetRegionMapper(m) PROVE RingInv' /\ Blank'
    <3>1. UNCHANGED <<grammar, ring, lrSize>>
      BY <2>6 DEF SetRegionMapper, remapLRS
    <3>. QED
      BY <1>1, <2>6, <3>1, BlankSame DEF Next, Configure
  <2>7. CASE View
    <3>1. ASSUME NEW s \in Lines, NEW n \in WindowSizes, VisibleTextEvent(s, n) PROVE Blank'
      BY <3>1, BlankSame DEF VisibleTextEvent, ringVars
    <3>2. ASSUME NEW l \in Asked, GetLineRegions(l) \/ Validate(l, TRUE) PROVE Blank'
      BY <1>2, <3>2 DEF Asked
    <3>3. ASSUME NEW l, Validate(l, FALSE) PROVE Blank'
      BY <3>3, BlankSame DEF Validate, ringVars
    <3>4. Blank'
      BY <2>7, <3>1, <3>2, <3>3 DEF View, IdleJob
    <3>. QED
      BY <1>1, <2>7, <3>4 DEF Next
  <2>. QED
    BY <1>3, <2>1, <2>2, <2>3, <2>4, <2>5, <2>6, <2>7
       DEF HostCalls, ModifyEventHeard, ModifyLineEventHeard
<1>4. CASE AddOutliner \/ UNCHANGED vars
  <2>1. UNCHANGED vars
    BY <1>4 DEF AddOutliner
  <2>2. UNCHANGED <<grammar, ring, lrSize>>
    BY <2>1 DEF vars, ringVars
  <2>. QED
    BY <1>1, <2>1, <2>2, BlankSame
<1>5. CASE RemoveOutliner
  <2>1. /\ changes < MaxChanges /\ changes' = changes + 1
        /\ UNCHANGED <<text, docLines, unannounced, grammar, mapper, lineCount,
                       invalidLine, backParse, wStart, wSize, firstLine, ring, lrSize, pred, job, shown>>
    BY <1>5 DEF RemoveOutliner, hostVars, windowVars, ringVars
  <2>2. IInv'
    BY <1>0, <2>1, OnlyCounted
  <2>. QED
    BY <2>1, <2>2, RingSame, BlankSame
<1>6. CASE Searches
  <2>1. ASSUME NEW l \in Lines, searchLocalPair(l) \/ searchGlobalPair(l) PROVE RingInv' /\ Blank'
    <3>1. l \in -1 .. MaxLines /\ GetLineRegions(l)
      BY <2>1 DEF searchLocalPair, searchGlobalPair, SearchPair, Lines
    <3>. QED
      BY <1>2, <3>1
  <2>2. CASE AskNext
    <3>1. PICK l \in LineStarts : GetLineRegions(l)
      BY <2>2 DEF AskNext
    <3>2. l \in -1 .. MaxLines
      BY DEF LineStarts
    <3>. QED
      BY <1>2, <3>1, <3>2
  <2>3. CASE getPairMatch \/ ReadNext
    BY <1>4, <2>3 DEF getPairMatch, ReadNext
  <2>. QED
    BY <1>6, <2>1, <2>2, <2>3 DEF Searches
<1>7. CASE ParserHeard
  <2>1. Parser
    BY <1>7 DEF ParserHeard, Parser
  <2>2. Blank'
    <3>1. grammar # NoGrammar /\ grammar' = grammar
      BY <1>0, <2>1 DEF Parser, ParseLine, EndParse, IInv, JobCoherent
    <3>. QED
      BY <3>1 DEF Blank
  <2>. QED
    BY <1>1, <2>1, <2>2 DEF Next
<1>8. CASE UNCHANGED all
  BY <1>4, <1>8 DEF all
<1>. QED
  BY <1>3, <1>4, <1>5, <1>6, <1>7, <1>8 DEF ServicesNext

(* No search is in progress.                                               *)
LEMMA NoneSearching ==
  ASSUME search' = NoSearch
  PROVE  SearchInv'
<1>1. search'.phase = "none"
  BY DEF NoSearch
<1>. QED
  BY <1>1 DEF SearchInv

(* The editor goes on parsing for a search.                                *)
LEMMA SearchGoesOn ==
  ASSUME SearchInv, UNCHANGED <<search, text, grammar, mapper, lineCount>>,
         \A l \in Nat : Asking(l) => Asking(l)'
  PROVE  SearchInv'
<1>1. Seen' = Seen
  BY SeenSame
<1>2. search.phase \in {"begin", "read"} => search.line \in Nat
  BY DEF SearchInv, Lines, LineStarts
<1>3. PICK l : l = search.line
  OBVIOUS
<1>4. search.phase \in {"begin", "read"} => Asking(l)'
  BY <1>2, <1>3 DEF SearchInv
<1>5. Asking(l)' => Asking(search.line)'
  BY <1>3
<1>. QED
  BY <1>1, <1>4, <1>5 DEF SearchInv

(* A search begins.                                                        *)
LEMMA SearchPairStep ==
  ASSUME TypeOK, NEW l \in Lines, NEW first \in Int, NEW last \in Int, first <= l, l <= last,
         SearchPair(l, first, last)
  PROVE  SearchInv'
<1>1. Asking(l)'
  <2>1. l \in -1 .. MaxLines /\ GetLineRegions(l)
    BY DEF SearchPair, Lines
  <2>. QED
    BY <2>1, AskedFor
<1>2. /\ search'.phase = "begin" /\ search'.line = l /\ search'.first = first /\ search'.last = last
  BY DEF SearchPair
<1>3. Asking(search.line)'
  BY <1>1, <1>2
<1>. QED
  BY <1>2, <1>3 DEF SearchInv

(* It has found its pair, or there is none.                                *)
LEMMA GetPairMatchStep ==
  ASSUME RingInv, Blank, SearchInv, getPairMatch
  PROVE  SearchInv'
<1>. DEFINE lno == search.line
            regions == RegionsIn(shown.regions)
            faith == Read(search.line, TRUE)
<1>1. /\ search.phase = "begin" /\ Ready /\ UNCHANGED vars
      /\ lno \in Lines /\ search.first \in Int /\ search.last \in Int
      /\ search.first <= lno /\ lno <= search.last /\ Asking(lno)
      /\ UNCHANGED <<text, grammar, mapper, lineCount>>
  BY DEF getPairMatch, SearchInv, vars, hostVars
<1>2. CASE search' = NoSearch
  BY <1>2, NoneSearching
<1>3. ASSUME NEW at \in DOMAIN regions, regions[at] \in Pairs,
             Continue(Walk(NewPairMatch(lno, at, regions[at] = "pairStart"), lno, regions, at),
                      lno, faith)
      PROVE  SearchInv'
  <2>. DEFINE m == Walk(NewPairMatch(lno, at, regions[at] = "pairStart"), lno, regions, at)
  <2>1. /\ search'.phase \in {"ask", "done"} /\ search'.trusted = faith
        /\ search'.phase = "ask" =>
             search' = [phase |-> "ask", line |-> search'.line, first |-> search'.first,
                        last |-> search'.last, trusted |-> search'.trusted, pm |-> search'.pm]
    BY <1>3, ContinueShape
  <2>2. ASSUME faith
        PROVE  /\ grammar # NoGrammar
               /\ search'.phase = "ask" => UnderWay(Seen, search')
               /\ search'.phase = "done" => Found(Seen, search')
    <3>1. regions # <<>>
      BY <1>3
    <3>2. lno \in LineStarts
      BY <1>1 DEF Lines, LineStarts
    <3>3. grammar # NoGrammar /\ Seen \in Texts /\ regions = Seen[lno]
      BY <1>1, <2>2, <3>1, <3>2, TrustedRead
    <3>4. ASSUME NEW t \in Texts, regions = t[lno]
          PROVE  /\ Walked(t, m, EntryOf(m.topPosition, Beyond(m.topPosition, lno)))
                 /\ m.sline = lno
      <4>1. /\ at \in DOMAIN t[lno] /\ t[lno][at] \in Pairs
            /\ m = Walk(NewPairMatch(lno, at, t[lno][at] = "pairStart"), lno, t[lno], at)
        BY <1>3, <3>4
      <4>. HIDE DEF m, regions, lno
      <4>. QED
        BY <1>1, <4>1, FirstLineWalked
    <3>5. /\ Walked(Seen, m, EntryOf(m.topPosition, Beyond(m.topPosition, lno)))
          /\ m.sline = lno
      BY <3>3, <3>4
    <3>6. Continue(m, lno, faith)
      BY <1>3
    <3>. HIDE DEF m, faith, lno
    <3>7. /\ search.first <= m.sline /\ m.sline <= search.last
          /\ IF m.topPosition THEN lno <= search.last ELSE search.first <= lno
      BY <1>1, <3>5
    <3>. QED
      BY <1>1, <3>3, <3>5, <3>6, <3>7, ContinueStep
  <2>. QED
    BY <1>1, <2>1, <2>2, SeenSame DEF SearchInv
<1>. QED
  BY <1>2, <1>3 DEF getPairMatch

(* It asks for the regions of the next line.                               *)
LEMMA AskNextStep ==
  ASSUME TypeOK, SearchInv, AskNext
  PROVE  SearchInv'
<1>1. /\ search.phase = "ask"
      /\ search = [phase |-> "ask", line |-> search.line, first |-> search.first,
                   last |-> search.last, trusted |-> search.trusted, pm |-> search.pm]
      /\ search' = [search EXCEPT !.phase = "read"]
  BY DEF AskNext, SearchInv
<1>2. search' = [phase |-> "read", line |-> search.line, first |-> search.first,
                 last |-> search.last, trusted |-> search.trusted, pm |-> search.pm]
  BY <1>1
<1>3. /\ search'.phase = "read" /\ search'.line = search.line /\ search'.first = search.first
      /\ search'.last = search.last /\ search'.trusted = search.trusted /\ search'.pm = search.pm
  BY <1>2
<1>4. PICK l \in LineStarts : l = search.line /\ GetLineRegions(l)
  BY DEF AskNext
<1>5. Asking(l)' /\ UNCHANGED <<text, grammar, mapper, lineCount>>
  <2>1. l \in -1 .. MaxLines
    BY DEF LineStarts
  <2>. QED
    BY <1>4, <2>1, AskedFor
<1>6. search'.line = l /\ Asking(search.line)'
  BY <1>3, <1>4, <1>5
<1>7. Seen' = Seen
  BY <1>5, SeenSame
<1>8. search.trusted => grammar # NoGrammar /\ UnderWay(Seen, search)
  BY <1>1 DEF SearchInv
<1>9. UnderWay(Seen, search) => UnderWay(Seen, search')
  BY <1>3 DEF UnderWay
<1>. QED
  BY <1>3, <1>5, <1>6, <1>7, <1>8, <1>9 DEF SearchInv

(* It walks over a line, and goes on or is over.                           *)
LEMMA ReadNextStep ==
  ASSUME RingInv, Blank, SearchInv, ReadNext
  PROVE  SearchInv'
<1>. DEFINE lno == search.line
            pm == search.pm
            regions == RegionsIn(shown.regions)
            faith == Read(search.line, search.trusted)
            m == Walk(pm, lno, regions, Edge(pm, regions))
<1>1. /\ search.phase = "read" /\ Ready /\ UNCHANGED vars
      /\ lno \in LineStarts /\ Asking(lno)
      /\ UNCHANGED <<text, grammar, mapper, lineCount>>
      /\ Continue(m, lno, faith)
  BY DEF ReadNext, SearchInv, vars, hostVars
<1>2. /\ search'.phase \in {"ask", "done"} /\ search'.trusted = faith
      /\ search'.phase = "ask" =>
           search' = [phase |-> "ask", line |-> search'.line, first |-> search'.first,
                      last |-> search'.last, trusted |-> search'.trusted, pm |-> search'.pm]
  BY <1>1, ContinueShape
<1>3. ASSUME faith
      PROVE  /\ grammar # NoGrammar
             /\ search'.phase = "ask" => UnderWay(Seen, search')
             /\ search'.phase = "done" => Found(Seen, search')
  <2>1. grammar # NoGrammar /\ UnderWay(Seen, search)
    BY <1>1, <1>3 DEF Read, SearchInv
  <2>2. lno \in Lines /\ Seen \in Texts /\ regions = Seen[lno]
    BY <1>1, <1>3, <2>1, TrustedRead
  <2>3. /\ search.first \in Int /\ search.last \in Int
        /\ search.first <= pm.sline /\ pm.sline <= search.last
        /\ pm.pairBalance # 0 /\ Walked(Seen, pm, EntryOf(pm.topPosition, lno))
        /\ IF pm.topPosition THEN lno <= search.last ELSE search.first <= lno
    BY <2>1 DEF UnderWay
  <2>4. ASSUME NEW t \in Texts, regions = t[lno], Walked(t, pm, EntryOf(pm.topPosition, lno))
        PROVE  /\ Walked(t, m, EntryOf(m.topPosition, Beyond(m.topPosition, lno)))
               /\ m.sline = pm.sline /\ m.topPosition = pm.topPosition
    <3>1. m = Walk(pm, lno, t[lno], Edge(pm, t[lno]))
      BY <2>4
    <3>. HIDE DEF m, regions, lno, pm
    <3>. QED
      BY <2>2, <2>3, <2>4, <3>1, LineWalked
  <2>5. /\ Walked(Seen, m, EntryOf(m.topPosition, Beyond(m.topPosition, lno)))
        /\ m.sline = pm.sline /\ m.topPosition = pm.topPosition
    BY <2>2, <2>3, <2>4
  <2>. HIDE DEF m, faith, lno, pm
  <2>6. /\ search.first <= m.sline /\ m.sline <= search.last
        /\ IF m.topPosition THEN lno <= search.last ELSE search.first <= lno
    BY <2>3, <2>5
  <2>. QED
    BY <1>1, <2>1, <2>2, <2>3, <2>5, <2>6, ContinueStep
<1>. QED
  BY <1>1, <1>2, <1>3, SeenSame DEF SearchInv

(* The parser parses a line it was asked for, or another.                  *)
LEMMA AskingParsed ==
  ASSUME TypeOK, Parser, NEW l \in Nat, Asking(l)
  PROVE  Asking(l)'
<1>1. CASE ParseLine
  <2>1. ~Idle /\ job \in Jobs
    BY <1>1 DEF ParseLine, TypeOK
  <2>2. job'.mode = job.mode /\ job'.asked = job.asked
    BY <1>1, <2>1 DEF ParseLine, Jobs
  <2>. QED
    BY <2>1, <2>2 DEF Asking, Idle
<1>2. CASE EndParse
  <2>1. ~Idle /\ job.asked = l /\ l # NotAsked
    BY <1>2 DEF EndParse, Asking, NotAsked
  <2>2. job' = NoJob /\ shown' = Returned(l, LineRegionsOf(l)) /\ UNCHANGED <<firstLine, ring, lrSize>>
    BY <1>2, <2>1 DEF EndParse, ringVars
  <2>3. Idle' /\ shown'.regions = LineRegionsOf(l)
    BY <2>1, <2>2 DEF Idle, NoJob, Returned
  <2>4. LineRegionsOf(l)' = LineRegionsOf(l)
    BY <2>2 DEF LineRegionsOf, checkLine, getLineIndex
  <2>. QED
    BY <2>3, <2>4 DEF Asking
<1>. QED
  BY <1>1, <1>2 DEF Parser

(* Every step keeps the invariant of a search.                             *)
LEMMA SearchInvNext ==
  ASSUME RingInv, Blank, SearchInv, [ServicesNext]_all
  PROVE  SearchInv'
<1>0. IInv /\ TypeOK
  BY DEF RingInv, IInv
<1>1. CASE (FreeHost /\ HostCalls /\ search' = NoSearch) \/ AddOutliner \/ RemoveOutliner
  BY <1>1, NoneSearching DEF AddOutliner, RemoveOutliner
<1>2. CASE Searches
  <2>1. ASSUME NEW l \in Lines, wStart <= l, l < Smaller(wStart + wSize, lineCount),
               searchLocalPair(l) \/ searchGlobalPair(l)
        PROVE  SearchInv'
    <3>1. /\ wStart \in Int /\ wSize \in Int /\ lineCount \in Int /\ l \in Int /\ 0 <= l
      BY <1>0 DEF TypeOK, LineStarts, Lines, WindowAssumption
    <3>2. /\ getLastVisibleLine \in Int /\ l <= getLastVisibleLine /\ l <= lineCount
      BY <2>1, <3>1 DEF getLastVisibleLine, Smaller
    <3>3. CASE searchLocalPair(l)
      BY <1>0, <2>1, <3>1, <3>2, <3>3, SearchPairStep DEF searchLocalPair
    <3>4. CASE searchGlobalPair(l)
      <4>. DEFINE top == 0
      <4>1. SearchPair(l, top, lineCount) /\ top \in Int /\ top <= l
        BY <3>1, <3>4 DEF searchGlobalPair
      <4>. HIDE DEF top
      <4>. QED
        BY <1>0, <3>1, <3>2, <4>1, SearchPairStep
    <3>. QED
      BY <2>1, <3>3, <3>4
  <2>. QED
    BY <1>0, <1>2, <2>1, GetPairMatchStep, AskNextStep, ReadNextStep DEF Searches
<1>3. CASE ParserHeard
  <2>1. Parser /\ UNCHANGED <<search, text, grammar, mapper, lineCount>>
    BY <1>3 DEF ParserHeard, Parser, ParseLine, EndParse, hostVars
  <2>. QED
    BY <1>0, <2>1, AskingParsed, SearchGoesOn
<1>4. CASE UNCHANGED all
  <2>1. UNCHANGED <<search, text, grammar, mapper, lineCount, invalidLine, firstLine, ring, lrSize,
                    job, shown>>
    BY <1>4 DEF all, services, vars, hostVars, ringVars
  <2>2. \A l \in Nat : Asking(l) => Asking(l)'
    BY <2>1 DEF Asking, Idle, LineRegionsOf, checkLine, getLineIndex
  <2>. QED
    BY <2>1, <2>2, SearchGoesOn
<1>. QED
  BY <1>1, <1>2, <1>3, <1>4 DEF ServicesNext

(* No search was made yet.                                                 *)
LEMMA PairInvInit == ServicesInit => PairInv
<1>. SUFFICES ASSUME ServicesInit PROVE PairInv
  OBVIOUS
<1>1. RingInv
  BY RingInvInit DEF ServicesInit
<1>2. Blank
  BY DEF ServicesInit, Init, Blank, EmptyRing
<1>3. SearchInv
  <2>1. search.phase = "none"
    BY DEF ServicesInit, NoSearch
  <2>. QED
    BY <2>1 DEF SearchInv
<1>. QED
  BY <1>1, <1>2, <1>3 DEF PairInv

(* Every step of the editor with its services.                             *)
LEMMA PairInvNext == ASSUME OneSize PROVE PairInv /\ [ServicesNext]_all => PairInv'
BY RingServicesNext, SearchInvNext DEF PairInv

(* What a search of good faith has found is the match.                     *)
LEMMA PairInvRight == PairInv => PairRight
<1>. SUFFICES ASSUME PairInv, search.phase = "done", search.trusted
              PROVE  LET pm == search.pm
                     IN /\ pm.sat \in DOMAIN RegionsIn(Fresh(pm.sline))
                        /\ pm.topPosition = (Kind(<<pm.sline, pm.sat>>) = "pairStart")
                        /\ <<pm.eline, pm.eat>>
                           = Match(<<pm.sline, pm.sat>>, search.first, search.last)
  BY DEF PairRight
<1>. DEFINE pm == search.pm
            p == <<pm.sline, pm.sat>>
<1>1. TypeOK /\ grammar # NoGrammar /\ Found(Seen, search)
  BY DEF PairInv, RingInv, IInv, SearchInv
<1>2. /\ search.first \in Int /\ search.last \in Int
      /\ search.first <= pm.sline /\ pm.sline <= search.last
      /\ p \in BracketsOf(Seen) /\ pm.topPosition = (At(Seen, p) = "pairStart")
      /\ <<pm.eline, pm.eat>> = Matching(Seen, p, pm.topPosition, search.first, search.last)
  BY <1>1 DEF Found
<1>3. p[1] = pm.sline /\ p[2] = pm.sat
  OBVIOUS
<1>. HIDE DEF pm, p
<1>4. Kind(p) = At(Seen, p)
  BY <1>1, <1>2, BracketsAre
<1>5. pm.sat \in DOMAIN RegionsIn(Fresh(pm.sline))
  <2>1. p[1] \in Lines /\ p[2] \in DOMAIN Seen[p[1]]
    BY <1>2 DEF BracketsOf
  <2>2. p[1] < lineCount
    <3>. SUFFICES ASSUME ~(p[1] < lineCount) PROVE FALSE
      OBVIOUS
    <3>1. Seen[p[1]] = <<>>
      BY <2>1 DEF Seen
    <3>. QED
      BY <2>1, <3>1
  <2>3. Seen[p[1]] = RegionsIn(Fresh(p[1]))
    BY <1>1, <2>1, <2>2, SeenType
  <2>. QED
    BY <1>3, <2>1, <2>3
<1>6. Match(p, search.first, search.last)
      = Matching(Seen, p, Kind(p) = "pairStart", search.first, search.last)
  BY <1>1, <1>2, <1>3, MatchIs
<1>. QED
  BY <1>2, <1>4, <1>5, <1>6 DEF p, pm

(* PairInv holds of an editor the windows of which have one size.          *)
THEOREM PairInvariance == ASSUME OneSize PROVE ServicesSpec => []PairInv
<1>1. PairInv /\ [ServicesNext]_all => PairInv'
  BY PairInvNext
<1>. QED
  BY <1>1, PairInvInit, PTL DEF ServicesSpec

(* The search is right (PairRight): one that read only lines the editor    *)
(* holds valid, in the cover of its ring, finds the bracket that matches,  *)
(* or that no line it was to look in has it, though each line it asked for *)
(* may have parsed, moved the window and turned the ring.                  *)
THEOREM PairIsRight == ASSUME OneSize PROVE ServicesSpec => []PairRight
BY PairInvariance, PairInvRight, PTL
=============================================================================
