------------------------- MODULE CacheLevels_proofs -------------------------
(***************************************************************************)
(* The cache is right: whatever the calls, lookups and edits, the levels   *)
(* it gives for a line are those a parse of the whole text would have come *)
(* to there, the levels the parse is in are those of the text up to gx,    *)
(* sameTryLevel accepts only what changes nothing, and the parser          *)
(* implements LineStacks. All this under Plain, which says what of the     *)
(* grammar has to be so, and as long as no step Disturbs: no parse is      *)
(* broken off, no line is null and no block nests too deep.                *)
(*                                                                         *)
(* The argument.  A line changes the levels open as a function of the text *)
(* and of little of these levels (Sig; Scanned, Stack).  While the cache   *)
(* is rebuilt it is right up to gy, and the last node over a line, open or *)
(* closed, has the levels of the text there (Tips, Rebuilt); while a try   *)
(* is made the tree is as it was and the levels of the frames follow from  *)
(* it (LevelsAgree, Cached).  A step of the parse is then a step of the    *)
(* text (Follows), one lemma for each, and FInv is the invariant.          *)
(***************************************************************************)
EXTENDS TextParser_proofs

(* The grammars and limits for which the cache is right: no \M, no ~, no   *)
(* low content, no match that a window is too short for and no line cut    *)
(* off. Without each of them there is a text for which it is wrong, or may *)
(* be left as it is where a parse of the whole text would go on otherwise. *)
Plain ==
  /\ AtStart = {} /\ LowContent = {} /\ Ahead = {}
  /\ maxBlockSize >= 2 \/ Wide = {}
  /\ chunkLongLines \/ \A s \in Contents : Len(s) <= maxBlockSize

-----------------------------------------------------------------------------
(* The levels the parse is in.                                             *)

(* All but the last of a sequence and one more.                            *)
LEMMA FrontAppend ==
  ASSUME NEW S, NEW s \in Seq(S), NEW x \in S
  PROVE  Front(Append(s, x)) = s /\ Append(s, x) # <<>> /\ Append(s, x) \in Seq(S)
<1>. DEFINE t == Append(s, x)
<1>1. /\ t \in Seq(S) /\ Len(t) = Len(s) + 1 /\ Len(s) \in Nat
      /\ \A i \in 1 .. Len(s) : t[i] = s[i]
  OBVIOUS
<1>. HIDE DEF t
<1>2. t # <<>>
  BY <1>1
<1>3. /\ Front(t) \in Seq(S) /\ Len(Front(t)) = Len(t) - 1
      /\ \A i \in 1 .. Len(t) - 1 : Front(t)[i] = t[i]
  BY <1>1, <1>2, FrontElements
<1>4. Front(t) = s
  BY <1>1, <1>3, SameSeq
<1>. QED
  BY <1>1, <1>2, <1>4 DEF t

(* One sequence after another, with one more.                              *)
LEMMA ConcatAppend ==
  ASSUME NEW S, NEW s \in Seq(S), NEW t \in Seq(S), NEW x \in S
  PROVE  s \o Append(t, x) = Append(s \o t, x)
<1>. DEFINE a == s \o Append(t, x)
            b == Append(s \o t, x)
<1>1. Append(t, x) \in Seq(S) /\ s \o t \in Seq(S) /\ Len(s) \in Nat /\ Len(t) \in Nat
  OBVIOUS
<1>2. a \in Seq(S) /\ Len(a) = Len(s) + Len(t) + 1
  OBVIOUS
<1>3. b \in Seq(S) /\ Len(b) = Len(s) + Len(t) + 1
  OBVIOUS
<1>4. ASSUME NEW i \in 1 .. Len(s) + Len(t) + 1 PROVE a[i] = b[i]
  <2>1. CASE i \in 1 .. Len(s)
    BY <1>1, <2>1
  <2>2. CASE i \in Len(s) + 1 .. Len(s) + Len(t)
    BY <1>1, <2>2
  <2>3. CASE i = Len(s) + Len(t) + 1
    BY <1>1, <2>3
  <2>. QED
    BY <1>1, <2>1, <2>2, <2>3
<1>5. a = b
  <2>. HIDE DEF a, b
  <2>. QED
    BY <1>2, <1>3, <1>4, SameSeq
<1>. QED
  BY <1>5

(* The blocks colorize() was called for in turn. *)
FrameLevels(fs) == [i \in 1 .. Len(fs) - 1 |-> fs[i + 1].level]

(* They are levels.                                                        *)
LEMMA FrameLevelsIs ==
  ASSUME NEW fs \in Seq(Frames), Len(fs) >= 1, \A i \in 2 .. Len(fs) : fs[i].level \in Levels
  PROVE  /\ FrameLevels(fs) \in Seq(Levels) /\ Len(FrameLevels(fs)) = Len(fs) - 1
         /\ \A i \in 1 .. Len(fs) - 1 : FrameLevels(fs)[i] = fs[i + 1].level
<1>. DEFINE n == Len(fs) - 1
<1>1. n \in Nat
  OBVIOUS
<1>2. \A i \in 1 .. n : i + 1 \in 2 .. Len(fs)
  OBVIOUS
<1>3. FrameLevels(fs) \in [1 .. n -> Levels]
  BY <1>2 DEF FrameLevels
<1>4. FrameLevels(fs) \in Seq(Levels) /\ Len(FrameLevels(fs)) = n
  <2>. HIDE DEF n
  <2>. QED
    BY <1>1, <1>3
<1>. QED
  BY <1>4 DEF FrameLevels

(* One block more.                                                         *)
LEMMA FrameLevelsPush ==
  ASSUME NEW fs \in Seq(Frames), Len(fs) >= 1, \A i \in 2 .. Len(fs) : fs[i].level \in Levels,
         NEW gs \in Seq(Frames), Len(gs) = Len(fs) + 1, \A i \in 1 .. Len(fs) : gs[i].level = fs[i].level,
         gs[Len(fs) + 1].level \in Levels
  PROVE  FrameLevels(gs) = Append(FrameLevels(fs), gs[Len(fs) + 1].level)
<1>. DEFINE k == Len(fs)
            x == gs[k + 1].level
            u == FrameLevels(fs)
            v == FrameLevels(gs)
<1>1. k \in Nat /\ k >= 1 /\ Len(gs) = k + 1 /\ x \in Levels
  OBVIOUS
<1>2. \A i \in 2 .. k + 1 : gs[i].level = (IF i = k + 1 THEN x ELSE fs[i].level)
  OBVIOUS
<1>3. \A i \in 2 .. k + 1 : gs[i].level \in Levels
  BY <1>1, <1>2
<1>4. u \in Seq(Levels) /\ Len(u) = k - 1 /\ \A i \in 1 .. k - 1 : u[i] = fs[i + 1].level
  BY FrameLevelsIs
<1>5. v \in Seq(Levels) /\ Len(v) = k /\ \A i \in 1 .. k : v[i] = gs[i + 1].level
  <2>1. /\ v \in Seq(Levels) /\ Len(v) = Len(gs) - 1
        /\ \A i \in 1 .. Len(gs) - 1 : v[i] = gs[i + 1].level
    BY <1>1, <1>3, FrameLevelsIs
  <2>. QED
    BY <1>1, <2>1
<1>. DEFINE w == Append(u, x)
<1>6. w \in Seq(Levels) /\ Len(w) = k /\ w[k] = x /\ \A i \in 1 .. k - 1 : w[i] = u[i]
  <2>. HIDE DEF u, x
  <2>1. Len(u) = k - 1 /\ u \in Seq(Levels) /\ (k - 1) + 1 = k
    BY <1>1, <1>4
  <2>2. Append(u, x) \in Seq(Levels) /\ Len(Append(u, x)) = Len(u) + 1 /\ Append(u, x)[Len(u) + 1] = x
        /\ \A i \in 1 .. Len(u) : Append(u, x)[i] = u[i]
    BY <1>1, <2>1
  <2>. QED
    BY <2>1, <2>2
<1>. HIDE DEF u, v, w, k, x
<1>7. \A i \in 1 .. k : v[i] = w[i]
  <2>1. SUFFICES ASSUME NEW i \in 1 .. k PROVE v[i] = w[i]
    OBVIOUS
  <2>2. v[i] = gs[i + 1].level /\ i + 1 \in 2 .. k + 1
    BY <1>1, <1>5
  <2>3. CASE i = k
    BY <1>2, <1>6, <2>2, <2>3
  <2>4. CASE i # k
    <3>1. i \in 1 .. k - 1 /\ i + 1 # k + 1
      BY <1>1, <2>4
    <3>2. gs[i + 1].level = fs[i + 1].level
      BY <1>2, <2>2, <3>1
    <3>. QED
      BY <1>4, <1>6, <2>2, <3>1, <3>2
  <2>. QED
    BY <2>3, <2>4
<1>8. v = w
  BY <1>5, <1>6, <1>7, SameSeq
<1>. QED
  BY <1>8 DEF u, v, w, k, x

(* One block less.                                                         *)
LEMMA FrameLevelsPop ==
  ASSUME NEW fs \in Seq(Frames), Len(fs) >= 2, \A i \in 2 .. Len(fs) : fs[i].level \in Levels,
         NEW gs \in Seq(Frames), Len(gs) = Len(fs) - 1, \A i \in 1 .. Len(fs) - 1 : gs[i] = fs[i]
  PROVE  /\ FrameLevels(fs) = Append(FrameLevels(gs), fs[Len(fs)].level)
         /\ FrameLevels(gs) \in Seq(Levels) /\ fs[Len(fs)].level \in Levels
<1>. DEFINE k == Len(gs)
<1>1. k \in Nat /\ k >= 1 /\ Len(fs) = k + 1
  OBVIOUS
<1>2. \A i \in 1 .. k : fs[i].level = gs[i].level
  OBVIOUS
<1>3. \A i \in 2 .. k : gs[i].level \in Levels
  OBVIOUS
<1>4. fs[k + 1].level \in Levels
  <2>1. Len(fs) \in 2 .. Len(fs)
    OBVIOUS
  <2>. QED
    BY <1>1, <2>1
<1>5. FrameLevels(fs) = Append(FrameLevels(gs), fs[k + 1].level)
  BY <1>1, <1>2, <1>3, <1>4, FrameLevelsPush
<1>6. FrameLevels(gs) \in Seq(Levels)
  BY <1>1, <1>3, FrameLevelsIs
<1>. QED
  BY <1>1, <1>4, <1>5, <1>6

(* What the end-RE and sameTryLevel know of a block without \M. *)
Proper(level) == level.tag = IF level.block \in Tagged THEN level.span ELSE Untagged

(* The activations are those of the nodes the parse stands on. *)
LevelsAgree ==
  /\ tree[RootId].level = None
  /\ \A n \in DOMAIN tree \ {RootId} : Proper(tree[n].level)
  /\ \A i \in 1 .. Len(frames) : ~frames[i].clipped /\ (i > 1 => frames[i].level \in Levels)
  /\ ~Idle /\ Updating =>
       /\ tree[parent].level = frames[Len(frames)].level
       /\ \A i \in 2 .. Len(frames) : tree[frames[i].nodeP].level = frames[i - 1].level
  /\ ~Idle /\ ~Updating => tree[parent].level = frames[1].level

(* The levels the parse is in. *)
OpenHere ==
  IF Updating THEN OpenLevels(tree, parent) ELSE OpenLevels(tree, parent) \o FrameLevels(frames)
(* What matters of them.       *)
Here == Sig(OpenHere)

(* They are levels, and the innermost is that of the activation.           *)
LEMMA InnerHere ==
  ASSUME IInv, LevelsAgree, ~Idle
  PROVE  /\ OpenHere \in Seq(Levels) /\ InnerOf(Here) = SigOf(Current.level)
         /\ Current = frames[Len(frames)] /\ Current \in Frames /\ Len(frames) \in Nat \ {0}
<1>1. /\ Len(frames) \in Nat \ {0} /\ Current \in Frames /\ Current = frames[Len(frames)]
      /\ frames \in Seq(Frames)
  BY TopFrame DEF Idle
<1>2. GoodTree(tree) /\ parent \in DOMAIN tree /\ tree[RootId].level = None
  BY DEF IInv, Standing, LevelsAgree, Idle
<1>3. InnerOf(Sig(OpenLevels(tree, parent))) = SigOf(tree[parent].level)
      /\ OpenLevels(tree, parent) \in Seq(Levels)
  BY <1>2, InnerLevel, GoodLevels
<1>4. CASE Updating
  <2>1. tree[parent].level = Current.level
    BY <1>1, <1>4 DEF LevelsAgree
  <2>. QED
    BY <1>1, <1>3, <1>4, <2>1 DEF OpenHere, Here
<1>5. CASE ~Updating
  <2>. DEFINE u == OpenLevels(tree, parent)
              v == FrameLevels(frames)
              k == Len(frames)
  <2>1. tree[parent].level = frames[1].level /\ OpenHere = u \o v
    BY <1>5 DEF LevelsAgree, OpenHere
  <2>2. \A i \in 2 .. k : frames[i].level \in Levels
    BY <1>1 DEF LevelsAgree
  <2>3. v \in Seq(Levels) /\ Len(v) = k - 1 /\ \A i \in 1 .. k - 1 : v[i] = frames[i + 1].level
    BY <1>1, <2>2, FrameLevelsIs
  <2>. HIDE DEF u, v, k
  <2>4. u \in Seq(Levels) /\ k \in Nat \ {0}
    BY <1>1, <1>3 DEF u, k
  <2>5. CASE k = 1
    <3>1. v = <<>>
      BY <2>3, <2>5
    <3>2. u \o v = u
      BY <2>4, <3>1
    <3>. QED
      BY <1>1, <1>3, <2>1, <2>4, <2>5, <3>2 DEF Here, u, k
  <2>6. CASE k # 1
    <3>a. u \in Seq(Levels)
      BY <2>4
    <3>b. v \in Seq(Levels)
      BY <2>3
    <3>1. u \o v \in Seq(Levels) /\ Len(u \o v) = Len(u) + Len(v) /\ Len(u) \in Nat
      BY <3>a, <3>b
    <3>2. k - 1 \in 1 .. k - 1 /\ Len(v) = k - 1
      BY <2>3, <2>4, <2>6
    <3>3. (u \o v)[Len(u) + (k - 1)] = v[k - 1]
      BY <2>3, <2>4, <3>2
    <3>4. v[k - 1] = frames[k].level
      <4>1. (k - 1) + 1 = k
        BY <2>4
      <4>. QED
        BY <2>3, <3>2, <4>1
    <3>5. u \o v # <<>>
      BY <3>1, <3>2
    <3>6. InnerOf(Sig(u \o v)) = SigOf((u \o v)[Len(u \o v)])
      BY <3>1, <3>5, InnerIs
    <3>. QED
      BY <1>1, <2>1, <3>1, <3>2, <3>3, <3>4, <3>6 DEF Here, k
  <2>. QED
    BY <2>5, <2>6
<1>. QED
  BY <1>1, <1>4, <1>5

(* A step within the activation.                                           *)
LEMMA LevelsStill ==
  ASSUME IInv, LevelsAgree, UNCHANGED <<tree, parent, call>>, ~Idle, ~Idle',
         Len(frames') = Len(frames),
         \A i \in 1 .. Len(frames) :
           /\ frames'[i].level = frames[i].level /\ frames'[i].nodeP = frames[i].nodeP
           /\ ~frames'[i].clipped
  PROVE  LevelsAgree' /\ OpenHere' = OpenHere
<1>1. Len(frames) \in Nat \ {0}
  BY TopFrame DEF Idle
<1>2. Updating' <=> Updating
  BY DEF Updating
<1>3. FrameLevels(frames') = FrameLevels(frames)
  <2>1. \A i \in 1 .. Len(frames) - 1 : frames'[i + 1].level = frames[i + 1].level
    BY <1>1
  <2>. QED
    BY <2>1 DEF FrameLevels
<1>4. OpenHere' = OpenHere
  BY <1>2, <1>3 DEF OpenHere
<1>5. \A i \in 1 .. Len(frames') : ~frames'[i].clipped /\ (i > 1 => frames'[i].level \in Levels)
  BY DEF LevelsAgree
<1>6. ASSUME Updating
      PROVE  /\ tree'[parent'].level = frames'[Len(frames')].level
             /\ \A i \in 2 .. Len(frames') : tree'[frames'[i].nodeP].level = frames'[i - 1].level
  <2>1. /\ tree[parent].level = frames[Len(frames)].level
        /\ \A i \in 2 .. Len(frames) : tree[frames[i].nodeP].level = frames[i - 1].level
    BY <1>6 DEF LevelsAgree
  <2>2. Len(frames) \in 1 .. Len(frames)
        /\ \A i \in 2 .. Len(frames) : i \in 1 .. Len(frames) /\ i - 1 \in 1 .. Len(frames)
    BY <1>1
  <2>. QED
    BY <2>1, <2>2
<1>7. ~Updating => tree'[parent'].level = frames'[1].level
  <2>1. 1 \in 1 .. Len(frames)
    BY <1>1
  <2>. QED
    BY <2>1 DEF LevelsAgree
<1>8. tree'[RootId].level = None /\ \A n \in DOMAIN tree' \ {RootId} : Proper(tree'[n].level)
  BY DEF LevelsAgree
<1>9. LevelsAgree'
  BY <1>2, <1>5, <1>6, <1>7, <1>8 DEF LevelsAgree
<1>. QED
  BY <1>4, <1>9

(* The activation, replaced.                                               *)
LEMMA TopSet ==
  ASSUME IInv, ~Idle, NEW f \in Frames, NEW gs, gs = WithTop(f)
  PROVE  /\ gs \in Seq(Frames) /\ Len(gs) = Len(frames) /\ Len(frames) \in Nat \ {0}
         /\ \A i \in 1 .. Len(frames) : gs[i] = IF i = Len(frames) THEN f ELSE frames[i]
<1>1. Len(frames) \in Nat \ {0} /\ frames \in Seq(Frames)
  BY TopFrame DEF Idle
<1>2. gs = [frames EXCEPT ![Len(frames)] = f]
  BY DEF WithTop
<1>. QED
  BY <1>1, <1>2, SetAt

(* Activations gs are fs with the flags of the last one set. *)
Flagged(fs, gs, ended, clipped) ==
  /\ gs \in Seq(Frames) /\ Len(gs) = Len(fs)
  /\ \A i \in 1 .. Len(fs) :
       /\ gs[i].level = fs[i].level /\ gs[i].nodeP = fs[i].nodeP
       /\ gs[i].old_line = fs[i].old_line /\ gs[i].old_matchend = fs[i].old_matchend
       /\ i # Len(fs) => gs[i] = fs[i]
  /\ (gs[Len(fs)].ended <=> ended) /\ (gs[Len(fs)].clipped <=> clipped)

(* The activation with its flags set.                                      *)
LEMMA TopFlags ==
  ASSUME IInv, ~Idle, NEW ended \in BOOLEAN, NEW clipped \in BOOLEAN
  PROVE  Flagged(frames, WithTop([Current EXCEPT !.ended = ended, !.clipped = clipped]), ended, clipped)
<1>. DEFINE f == [Current EXCEPT !.ended = ended, !.clipped = clipped]
            gs == WithTop(f)
<1>1. Len(frames) \in Nat \ {0} /\ Current \in Frames /\ Current = frames[Len(frames)]
  BY TopFrame DEF Idle
<1>2. /\ f \in Frames /\ f.level = Current.level /\ f.nodeP = Current.nodeP
      /\ f.old_line = Current.old_line /\ f.old_matchend = Current.old_matchend
      /\ f.ended = ended /\ f.clipped = clipped
  BY <1>1 DEF Frames
<1>3. gs = WithTop(f)
  OBVIOUS
<1>. HIDE DEF f, gs
<1>4. /\ gs \in Seq(Frames) /\ Len(gs) = Len(frames)
      /\ \A i \in 1 .. Len(frames) : gs[i] = IF i = Len(frames) THEN f ELSE frames[i]
  BY <1>2, <1>3, TopSet
<1>5. Flagged(frames, gs, ended, clipped)
  BY <1>1, <1>2, <1>4 DEF Flagged
<1>. QED
  BY <1>5 DEF gs, f

(* The activation uncut.                                                   *)
LEMMA TopUncut ==
  ASSUME IInv, ~Idle, NEW gs, gs = WithTop([Current EXCEPT !.clipped = FALSE])
  PROVE  /\ gs \in Seq(Frames) /\ Len(gs) = Len(frames) /\ Len(frames) \in Nat \ {0}
         /\ \A i \in 1 .. Len(frames) :
              /\ gs[i].level = frames[i].level /\ gs[i].nodeP = frames[i].nodeP
              /\ gs[i].old_line = frames[i].old_line /\ gs[i].old_matchend = frames[i].old_matchend
              /\ gs[i].ended = frames[i].ended
              /\ i # Len(frames) => gs[i] = frames[i]
         /\ ~gs[Len(frames)].clipped
<1>. DEFINE f == [Current EXCEPT !.clipped = FALSE]
<1>1. Len(frames) \in Nat \ {0} /\ Current \in Frames /\ Current = frames[Len(frames)]
  BY TopFrame DEF Idle
<1>2. /\ f \in Frames /\ f.level = Current.level /\ f.nodeP = Current.nodeP
      /\ f.old_line = Current.old_line /\ f.old_matchend = Current.old_matchend
      /\ f.ended = Current.ended /\ ~f.clipped
  BY <1>1 DEF Frames
<1>3. gs = WithTop(f)
  OBVIOUS
<1>. HIDE DEF f
<1>4. /\ gs \in Seq(Frames) /\ Len(gs) = Len(frames)
      /\ \A i \in 1 .. Len(frames) : gs[i] = IF i = Len(frames) THEN f ELSE frames[i]
  BY <1>2, <1>3, TopSet
<1>5. ~gs[Len(frames)].clipped
  <2>1. Len(frames) \in 1 .. Len(frames)
    BY <1>1
  <2>2. gs[Len(frames)] = f
    BY <1>4, <2>1
  <2>3. ~f.clipped
    BY <1>2
  <2>. QED
    BY <2>2, <2>3
<1>6. f.ended = frames[Len(frames)].ended
  BY <1>1, <1>2
<1>7. ASSUME NEW i \in 1 .. Len(frames)
      PROVE  /\ gs[i].level = frames[i].level /\ gs[i].nodeP = frames[i].nodeP
             /\ gs[i].old_line = frames[i].old_line /\ gs[i].old_matchend = frames[i].old_matchend
             /\ i # Len(frames) => gs[i] = frames[i]
  BY <1>1, <1>2, <1>4
<1>8. ASSUME NEW i \in 1 .. Len(frames) PROVE gs[i].ended = frames[i].ended
  BY <1>4, <1>6
<1>. QED
  BY <1>1, <1>4, <1>5, <1>7, <1>8

(* The node for a block has its level, and the others keep theirs.         *)
LEMMA GrownLevels ==
  ASSUME NEW T, GoodTree(T), NEW p \in DOMAIN T, NEW f, EndsIn(T, p, f),
         NEW level \in Levels, NEW ln \in 0 .. MaxLines, NEW id, id = FreeId(T),
         NEW R, R = Appended(T, p, f, id, NewNode(p, ln, level))
  PROVE  (\A n \in DOMAIN T : R[n].level = T[n].level) /\ R[id].level = level
<1>. DEFINE node == NewNode(p, ln, level)
<1>1. IsTree(T, AllLevels) /\ IsFiniteSet(DOMAIN T) /\ DOMAIN T \subseteq Nat
  BY DEF GoodTree, IsTree
<1>2. id \in Nat /\ id \notin DOMAIN T
  BY <1>1, FreeIdIsFree
<1>3. AtEnd(T, p, f)
  BY EndsAt DEF EndsIn, AtEnd
<1>4. level \in AllLevels /\ ln \in Nat
  BY BoundsAssumption DEF AllLevels
<1>5. MayAppend(AllLevels, T, p, f, id, ln, level)
  BY <1>1, <1>2, <1>3, <1>4 DEF MayAppend
<1>6. HasNew(AllLevels, T, p, id, node, R)
  BY <1>5, AppendedIs
<1>7. node.level = level
  BY DEF NewNode
<1>. HIDE DEF node
<1>. QED
  BY <1>6, <1>7 DEF HasNew

(* Where a block starts, without ~.                                        *)
BlocksHere == StartsAt(Current.level.block, str, gx, -1)
BlockHere  == CHOOSE x \in BlocksHere : TRUE
LevelHere  == LevelAt(BlockHere, str, gx)

(* The level of the block that starts.                                     *)
LEMMA LevelHereIs ==
  ASSUME Plain, IInv, ~Idle, line < stop, BlocksHere # {}
  PROVE  /\ LevelHere \in Levels /\ Proper(LevelHere) /\ LevelHere.at = gx /\ gx < Len(str)
         /\ LevelHere.block = BlockHere
<1>1. /\ Current \in Frames /\ line \in Lines /\ str \in Seq(Tokens) /\ gx \in Nat
  BY TopFrame, StrIs, BoundsAssumption, TokensAssumption DEF Idle, IInv, Typed
<1>2. Current.level.block \in Blocks \cup {Top}
  <2>1. Current.level \in AllLevels
    BY <1>1 DEF Frames
  <2>. QED
    BY <2>1 DEF AllLevels, Levels, None
<1>3. BlockHere \in BlocksHere
  BY DEF BlockHere
<1>. DEFINE b == BlockHere
            blk == Current.level.block
<1>4. b \in StartsAt(blk, str, gx, -1)
  BY <1>3 DEF BlocksHere
<1>. HIDE DEF b, blk
<1>5. /\ LevelAt(b, str, gx) \in Levels /\ LevelAt(b, str, gx).at = gx /\ LevelAt(b, str, gx).block = b
      /\ Token(str, gx) \in Tokens /\ gx < Len(str)
  BY <1>1, <1>2, <1>4, StartLevel, TokensAssumption, BlocksAssumption DEF blk
<1>6. LevelHere = LevelAt(b, str, gx)
  BY DEF LevelHere, b
<1>7. LevelAt(b, str, gx).tag = (IF b \notin Tagged THEN Untagged ELSE Token(str, gx))
      /\ LevelAt(b, str, gx).span = Token(str, gx)
  BY DEF LevelAt, Plain
<1>8. Proper(LevelHere)
  BY <1>5, <1>6, <1>7 DEF Proper
<1>. QED
  BY <1>5, <1>6, <1>8 DEF b

(* What a block that starts does, without ~.                               *)
Begun(fs, gs) ==
  LET k == Len(fs) IN
  /\ gs \in Seq(Frames) /\ Len(gs) = k + 1
  /\ gs[k + 1].level = LevelHere /\ ~gs[k + 1].ended /\ ~gs[k + 1].clipped
  /\ gs[k + 1].old_line = line /\ gs[k + 1].old_matchend = matchend
  /\ \A i \in 1 .. k :
       /\ gs[i].level = fs[i].level /\ gs[i].nodeP = fs[i].nodeP
       /\ gs[i].old_line = fs[i].old_line /\ gs[i].old_matchend = fs[i].old_matchend
       /\ gs[i].ended = fs[i].ended
  /\ \A i \in 1 .. k : i # k => gs[i] = fs[i]
  /\ ~gs[k].clipped

(* The step at the start of a block.                                       *)
LEMMA MatchBlockDoes ==
  ASSUME Plain, IInv, MatchBlock
  PROVE  /\ Searching /\ gx < hiLen /\ BlocksHere # {} /\ line < stop /\ ~Idle /\ ~Idle'
         /\ gx' = gx + 1
         /\ handler' = Append(handler, BlockHere)
         /\ tryStack' = IF Trying THEN Append(tryStack, LevelHere) ELSE tryStack
         /\ Begun(frames, frames')
         /\ Updating => /\ Grown(tree, parent, forward, parent', line + 1, tree')
                        /\ frames'[Len(frames) + 1].nodeP = parent
                        /\ \A n \in DOMAIN tree : tree'[n].level = tree[n].level
                        /\ tree'[parent'].level = LevelHere
         /\ ~Updating => UNCHANGED <<tree, parent, forward>>
         /\ stackLevel <= MaxLevel => pc' = "line"
         /\ UNCHANGED <<text, edits, valid, call, line, matchend, stop, clearLine, endLine, filled,
                        breakParsing, gone, expected, tryMismatch>>
<1>. DEFINE level == LevelHere
            id    == FreeId(tree)
            top   == IF forward # Nil /\ parent = Nil THEN tree[forward].parent ELSE parent
            mid   == WithTop([Current EXCEPT !.clipped = FALSE])
            fr    == [Bottom(level) EXCEPT !.old_line = line,
                            !.ResF = forward, !.ResP = parent,
                            !.node = IF Updating THEN id ELSE Nil,
                            !.nodeP = IF Updating THEN top ELSE Nil,
                            !.old_matchend = matchend, !.old_schemeStart = schemeStart]
            R     == Appended(tree, top, forward, id, NewNode(top, line + 1, level))
<1>1. StartsAt(Current.level.block, str, gx, schemeStart) = BlocksHere
  BY AnyStart DEF BlocksHere, Plain
<1>2. /\ Searching /\ gx < hiLen /\ BlocksHere # {} /\ gx' = gx + 1
      /\ handler' = Append(handler, BlockHere)
      /\ tryStack' = IF Trying THEN Append(tryStack, level) ELSE tryStack
      /\ IF Updating THEN tree' = R /\ parent' = id /\ forward' = Nil
         ELSE UNCHANGED <<tree, parent, forward>>
      /\ frames' = Append(mid, fr)
      /\ IF stackLevel > MaxLevel THEN pc' = "return" /\ UNCHANGED stackLevel
         ELSE pc' = "line" /\ stackLevel' = stackLevel + 1
      /\ UNCHANGED <<text, edits, valid, call, line, matchend, stop, clearLine, endLine, filled,
                     breakParsing, gone, expected, tryMismatch>>
  BY <1>1 DEF MatchBlock, client, LevelHere, BlockHere
<1>3. pc = "content" /\ ~Idle /\ ~Idle' /\ line < stop
  BY <1>2 DEF Searching, IInv, Control, Idle
<1>4. level \in Levels
  BY <1>2, <1>3, LevelHereIs
<1>5. parent \in DOMAIN tree /\ forward \in DOMAIN tree \cup {Nil} /\ GoodTree(tree)
      /\ DOMAIN tree \subseteq Nat /\ top = parent
  <2>1. parent \in DOMAIN tree /\ forward \in DOMAIN tree \cup {Nil} /\ GoodTree(tree)
        /\ DOMAIN tree \subseteq Nat
    BY <1>3 DEF IInv, Standing, GoodTree, IsTree, Idle
  <2>2. parent # Nil
    BY <2>1 DEF Nil
  <2>. QED
    BY <2>1, <2>2
<1>6. id \in Nat /\ id \notin DOMAIN tree
  BY <1>5, FreeIdIsFree DEF GoodTree, IsTree
<1>7. /\ mid \in Seq(Frames) /\ Len(mid) = Len(frames) /\ Len(frames) \in Nat \ {0}
      /\ \A i \in 1 .. Len(frames) :
           /\ mid[i].level = frames[i].level /\ mid[i].nodeP = frames[i].nodeP
           /\ mid[i].old_line = frames[i].old_line /\ mid[i].old_matchend = frames[i].old_matchend
           /\ mid[i].ended = frames[i].ended
           /\ i # Len(frames) => mid[i] = frames[i]
      /\ ~mid[Len(frames)].clipped
  BY <1>3, TopUncut
<1>8. /\ fr \in Frames /\ fr.level = level /\ ~fr.ended /\ ~fr.clipped /\ fr.old_line = line
      /\ fr.old_matchend = matchend /\ fr.nodeP = IF Updating THEN parent ELSE Nil
  <2>. DEFINE bot == Bottom(level)
              n1 == IF Updating THEN id ELSE Nil
              n2 == IF Updating THEN top ELSE Nil
  <2>1. bot \in Frames /\ bot.level = level /\ ~bot.ended /\ ~bot.clipped
    <3>1. level \in AllLevels
      BY <1>4 DEF AllLevels
    <3>. HIDE DEF level
    <3>2. Bottom(level) \in Frames
      BY <3>1, BottomIs, BoundsAssumption
    <3>3. Bottom(level).level = level /\ ~Bottom(level).ended /\ ~Bottom(level).clipped
      BY DEF Bottom
    <3>. QED
      BY <3>2, <3>3
  <2>2. /\ line \in 0 .. MaxLines + 1 /\ forward \in Nat \cup {Nil} /\ parent \in Nat \cup {Nil}
        /\ n1 \in Nat \cup {Nil} /\ n2 \in Nat \cup {Nil}
        /\ matchend \in Spans /\ schemeStart \in Nat \cup {-1}
    BY <1>5, <1>6 DEF IInv, Typed
  <2>3. n2 = IF Updating THEN parent ELSE Nil
    BY <1>5
  <2>4. fr = [bot EXCEPT !.old_line = line, !.ResF = forward, !.ResP = parent,
                    !.node = n1, !.nodeP = n2,
                    !.old_matchend = matchend, !.old_schemeStart = schemeStart]
    OBVIOUS
  <2>. HIDE DEF id, top, level, fr, bot, n1, n2
  <2>5. fr \in Frames
    BY <2>1, <2>2, <2>4 DEF Frames
  <2>6. fr.level = bot.level /\ fr.ended = bot.ended /\ fr.clipped = bot.clipped
        /\ fr.old_line = line /\ fr.old_matchend = matchend /\ fr.nodeP = n2
    BY <2>1, <2>2, <2>4 DEF Frames
  <2>. QED
    BY <2>1, <2>3, <2>5, <2>6
<1>. HIDE DEF mid, fr, level, R
<1>9. /\ frames' \in Seq(Frames) /\ Len(frames') = Len(frames) + 1 /\ frames'[Len(frames) + 1] = fr
      /\ \A i \in 1 .. Len(frames) : frames'[i] = mid[i]
  BY <1>2, <1>7, <1>8, AppendFrame
<1>10. Begun(frames, frames')
  <2>1. Len(frames) \in 1 .. Len(frames)
    BY <1>7
  <2>2. ~frames'[Len(frames)].clipped
    BY <1>7, <1>9, <2>1
  <2>3. /\ frames'[Len(frames) + 1].level = LevelHere /\ ~frames'[Len(frames) + 1].ended
        /\ ~frames'[Len(frames) + 1].clipped
        /\ frames'[Len(frames) + 1].old_line = line /\ frames'[Len(frames) + 1].old_matchend = matchend
    BY <1>8, <1>9 DEF level
  <2>4. ASSUME NEW i \in 1 .. Len(frames)
        PROVE  /\ frames'[i].level = frames[i].level /\ frames'[i].nodeP = frames[i].nodeP
               /\ frames'[i].old_line = frames[i].old_line
               /\ frames'[i].old_matchend = frames[i].old_matchend
               /\ frames'[i].ended = frames[i].ended
    BY <1>7, <1>9
  <2>5. ASSUME NEW i \in 1 .. Len(frames), i # Len(frames) PROVE frames'[i] = frames[i]
    BY <1>7, <1>9, <2>5
  <2>. QED
    BY <1>9, <2>2, <2>3, <2>4, <2>5 DEF Begun
<1>11. ASSUME Updating
       PROVE  /\ Grown(tree, parent, forward, parent', line + 1, tree')
              /\ frames'[Len(frames) + 1].nodeP = parent
              /\ \A n \in DOMAIN tree : tree'[n].level = tree[n].level
              /\ tree'[parent'].level = LevelHere
  <2>1. Grown(tree, parent, forward, parent', line + 1, tree')
    BY <1>11, MatchBlockIs, BoundsAssumption, TokensAssumption, BlocksAssumption
  <2>2. frames'[Len(frames) + 1].nodeP = parent
    BY <1>8, <1>9, <1>11
  <2>3. EndsIn(tree, parent, forward)
    BY <2>1 DEF Grown
  <2>4. line + 1 \in 0 .. MaxLines
    BY <1>3, BoundsAssumption DEF IInv, Typed
  <2>. DEFINE ln == line + 1
  <2>5. ln \in 0 .. MaxLines /\ R = Appended(tree, parent, forward, id, NewNode(parent, ln, level))
    BY <1>5, <2>4 DEF R
  <2>. HIDE DEF ln
  <2>6. (\A n \in DOMAIN tree : R[n].level = tree[n].level) /\ R[id].level = level
    BY <1>4, <1>5, <2>3, <2>5, GrownLevels DEF id
  <2>. QED
    BY <1>2, <1>11, <2>1, <2>2, <2>6 DEF level
<1>12. stackLevel <= MaxLevel => pc' = "line"
  <2>1. stackLevel \in Nat /\ MaxLevel \in Nat
    BY BoundsAssumption DEF IInv, Control
  <2>. QED
    BY <1>2, <2>1
<1>. QED
  BY <1>2, <1>3, <1>10, <1>11, <1>12 DEF level

(* With a block more the levels are those before and its own.              *)
LEMMA MatchBlockLevels ==
  ASSUME Plain, IInv, IInv', LevelsAgree, MatchBlock
  PROVE  LevelsAgree' /\ OpenHere' = Append(OpenHere, LevelHere)
<1>. DEFINE k == Len(frames)
<1>1. /\ BlocksHere # {} /\ line < stop /\ ~Idle /\ ~Idle'
      /\ Begun(frames, frames')
      /\ Updating => /\ Grown(tree, parent, forward, parent', line + 1, tree')
                     /\ frames'[Len(frames) + 1].nodeP = parent
                     /\ \A n \in DOMAIN tree : tree'[n].level = tree[n].level
                     /\ tree'[parent'].level = LevelHere
      /\ ~Updating => UNCHANGED <<tree, parent, forward>>
      /\ UNCHANGED call
  BY MatchBlockDoes
<1>2. LevelHere \in Levels /\ Proper(LevelHere)
  BY <1>1, LevelHereIs
<1>3. k \in Nat \ {0} /\ frames \in Seq(Frames) /\ frames' \in Seq(Frames) /\ Len(frames') = k + 1
      /\ frames'[k + 1].level = LevelHere /\ ~frames'[k + 1].clipped
      /\ \A i \in 1 .. k : frames'[i].level = frames[i].level /\ frames'[i].nodeP = frames[i].nodeP
  BY <1>1, TopFrame DEF Idle, Begun
<1>4. \A i \in 1 .. k : ~frames'[i].clipped
  <2>1. SUFFICES ASSUME NEW i \in 1 .. k PROVE ~frames'[i].clipped
    OBVIOUS
  <2>2. CASE i = k
    BY <1>1, <2>2 DEF Begun
  <2>3. CASE i # k
    <3>1. frames'[i] = frames[i]
      BY <1>1, <2>3 DEF Begun
    <3>. QED
      BY <3>1 DEF LevelsAgree
  <2>. QED
    BY <2>2, <2>3
<1>5. \A i \in 2 .. k : frames[i].level \in Levels
  <2>1. \A i \in 2 .. k : i \in 1 .. k /\ i > 1
    BY <1>3
  <2>. QED
    BY <2>1 DEF LevelsAgree
<1>6. \A i \in 1 .. Len(frames') : ~frames'[i].clipped /\ (i > 1 => frames'[i].level \in Levels)
  <2>1. SUFFICES ASSUME NEW i \in 1 .. k + 1
                 PROVE  ~frames'[i].clipped /\ (i > 1 => frames'[i].level \in Levels)
    BY <1>3
  <2>2. CASE i = k + 1
    BY <1>2, <1>3, <2>2
  <2>3. CASE i # k + 1
    <3>1. i \in 1 .. k /\ (i > 1 => i \in 2 .. k)
      BY <1>3, <2>3
    <3>. QED
      BY <1>3, <1>4, <1>5, <3>1
  <2>. QED
    BY <2>2, <2>3
<1>7. Updating' <=> Updating
  BY <1>1 DEF Updating
<1>8. FrameLevels(frames') = Append(FrameLevels(frames), LevelHere)
  BY <1>2, <1>3, <1>5, FrameLevelsPush
<1>9. CASE ~Updating
  <2>1. tree' = tree /\ parent' = parent
    BY <1>1, <1>9
  <2>2. tree[parent].level = frames[1].level
    BY <1>1, <1>9 DEF LevelsAgree
  <2>3. 1 \in 1 .. k
    BY <1>3
  <2>4. LevelsAgree'
    BY <1>3, <1>6, <1>7, <1>9, <2>1, <2>2, <2>3 DEF LevelsAgree
  <2>5. OpenHere = OpenLevels(tree, parent) \o FrameLevels(frames)
        /\ OpenHere' = OpenLevels(tree, parent) \o FrameLevels(frames')
    BY <1>7, <1>9, <2>1 DEF OpenHere
  <2>6. FrameLevels(frames) \in Seq(Levels)
    BY <1>3, <1>5, FrameLevelsIs
  <2>7. OpenLevels(tree, parent) \in Seq(Levels)
    <3>1. GoodTree(tree) /\ parent \in DOMAIN tree
      BY <1>1 DEF IInv, Standing, Idle
    <3>. QED
      BY <3>1, GoodLevels
  <2>. DEFINE u == OpenLevels(tree, parent)  v == FrameLevels(frames)  x == LevelHere
  <2>8. u \o Append(v, x) = Append(u \o v, x)
    <3>1. u \in Seq(Levels)
      BY <2>7
    <3>2. v \in Seq(Levels)
      BY <2>6
    <3>3. x \in Levels
      BY <1>2
    <3>. HIDE DEF u, v, x
    <3>. QED
      BY <3>1, <3>2, <3>3, ConcatAppend
  <2>. QED
    BY <1>8, <2>4, <2>5, <2>8
<1>10. CASE Updating
  <2>1. /\ Grown(tree, parent, forward, parent', line + 1, tree')
        /\ frames'[k + 1].nodeP = parent
        /\ \A n \in DOMAIN tree : tree'[n].level = tree[n].level
        /\ tree'[parent'].level = LevelHere
    BY <1>1, <1>10
  <2>2. /\ GoodTree(tree) /\ GoodTree(tree') /\ parent \in DOMAIN tree /\ parent' \notin DOMAIN tree
        /\ DOMAIN tree' = DOMAIN tree \cup {parent'} /\ tree'[parent'].parent = parent
        /\ \A n \in DOMAIN tree : tree'[n].parent = tree[n].parent
    BY <2>1 DEF Grown
  <2>3. RootId \in DOMAIN tree /\ parent' # RootId
    BY <2>2, GoodLevels
  <2>4. /\ tree[parent].level = frames[k].level
        /\ \A i \in 2 .. k : tree[frames[i].nodeP].level = frames[i - 1].level
        /\ tree[RootId].level = None
        /\ \A n \in DOMAIN tree \ {RootId} : Proper(tree[n].level)
    BY <1>1, <1>10 DEF LevelsAgree
  <2>5. \A i \in 2 .. k : frames[i].nodeP \in DOMAIN tree
    <3>1. Spine(tree, frames, parent, forward)
      BY <1>1, <1>10 DEF IInv, Standing, Idle
    <3>. QED
      BY <3>1 DEF Spine, Hangs
  <2>6. \A i \in 2 .. k + 1 : tree'[frames'[i].nodeP].level = frames'[i - 1].level
    <3>1. SUFFICES ASSUME NEW i \in 2 .. k + 1
                   PROVE  tree'[frames'[i].nodeP].level = frames'[i - 1].level
      OBVIOUS
    <3>2. CASE i = k + 1
      <4>1. i - 1 = k /\ k \in 1 .. k
        BY <1>3, <3>2
      <4>2. frames'[i - 1].level = frames[k].level
        BY <1>3, <4>1
      <4>. QED
        BY <2>1, <2>2, <2>4, <3>2, <4>2
    <3>3. CASE i # k + 1
      <4>1. i \in 2 .. k /\ i \in 1 .. k /\ i - 1 \in 1 .. k
        BY <1>3, <3>3
      <4>2. frames'[i - 1].level = frames[i - 1].level /\ frames'[i].nodeP = frames[i].nodeP
        BY <1>3, <4>1
      <4>3. frames[i].nodeP \in DOMAIN tree /\ tree[frames[i].nodeP].level = frames[i - 1].level
        BY <2>4, <2>5, <4>1
      <4>. QED
        BY <2>1, <4>2, <4>3
    <3>. QED
      BY <3>2, <3>3
  <2>7. \A n \in DOMAIN tree' \ {RootId} : Proper(tree'[n].level)
    <3>1. SUFFICES ASSUME NEW n \in DOMAIN tree' \ {RootId} PROVE Proper(tree'[n].level)
      OBVIOUS
    <3>2. CASE n = parent'
      BY <1>2, <2>1, <3>2
    <3>3. CASE n # parent'
      <4>1. n \in DOMAIN tree \ {RootId}
        BY <2>2, <3>3
      <4>2. tree'[n].level = tree[n].level
        BY <2>1, <4>1
      <4>. QED
        BY <2>4, <4>1, <4>2
    <3>. QED
      BY <3>2, <3>3
  <2>8. LevelsAgree'
    <3>1. tree'[RootId].level = None
      BY <2>1, <2>3, <2>4
    <3>2. tree'[parent'].level = frames'[Len(frames')].level
      BY <1>3, <2>1
    <3>. QED
      BY <1>3, <1>6, <1>7, <1>10, <2>6, <2>7, <3>1, <3>2 DEF LevelsAgree
  <2>9. OpenLevels(tree', parent') = Append(OpenLevels(tree', parent), LevelHere)
    <3>1. parent' \in DOMAIN tree' \ {RootId}
      BY <2>2, <2>3
    <3>2. OpenLevels(tree', parent') = Append(OpenLevels(tree', tree'[parent'].parent), tree'[parent'].level)
      BY <2>2, <3>1, GoodLevels
    <3>. QED
      BY <2>1, <2>2, <3>2
  <2>10. OpenLevels(tree', parent) = OpenLevels(tree, parent)
    <3>1. \A n \in DOMAIN tree : OpenLevels(tree, n) = OpenLevels(tree', n)
      <4>1. \A n \in DOMAIN tree : tree[n].parent = tree'[n].parent
        BY <2>2
      <4>2. \A n \in DOMAIN tree \ {RootId} : tree[n].level = tree'[n].level
        BY <2>1
      <4>3. DOMAIN tree \subseteq DOMAIN tree'
        BY <2>2
      <4>. QED
        BY <2>2, <4>1, <4>2, <4>3, SameLevels
    <3>. QED
      BY <2>2, <3>1
  <2>. QED
    BY <1>7, <1>10, <2>8, <2>9, <2>10 DEF OpenHere
<1>. QED
  BY <1>9, <1>10

(* What the return from a block's colorize() does.                         *)
LEMMA BlockReturnsDoes ==
  ASSUME IInv, IInv', BlockReturns
  PROVE  LET oneLine == Current.old_line = line
             nothing == oneLine /\ matchend.e = Current.level.at
         IN
         /\ pc = "return" /\ Len(frames) > 1 /\ ~Idle /\ ~Idle' /\ (line < stop \/ ~oneLine)
         /\ handler' = LeaveScheme /\ tryStack' = TryLeft(oneLine)
         /\ gx' = IF nothing THEN matchend.e + 1 ELSE matchend.e
         /\ matchend' = Current.old_matchend
         /\ pc' = IF ~oneLine \/ (~nothing /\ Current.old_matchend.s < gx') THEN "line" ELSE "content"
         /\ Len(frames') = Len(frames) - 1 /\ \A i \in 1 .. Len(frames) - 1 : frames'[i] = frames[i]
         /\ UNCHANGED <<text, edits, valid, call, line, stop, clearLine, endLine, filled,
                        breakParsing, gone, expected, tryMismatch>>
         /\ ~Updating => UNCHANGED <<tree, parent>>
         /\ Updating => /\ parent # RootId /\ parent = Current.node
                        /\ parent' = Current.nodeP /\ parent' = tree[parent].parent
                        /\ \A n \in DOMAIN tree' : n \in DOMAIN tree /\ tree'[n].level = tree[n].level
         /\ Updating /\ oneLine => TrimsTo(tree, Current.nodeP, Current.ResF, tree')
         /\ Updating /\ ~oneLine => ClosedTo(tree, parent, line, tree')
<1>. DEFINE k == Len(frames)
            fr == Current
            oneLine == fr.old_line = line
            nothing == oneLine /\ matchend.e = fr.level.at
<1>1. /\ pc = "return" /\ k > 1 /\ ~Idle /\ ~Idle'
      /\ handler' = LeaveScheme /\ tryStack' = TryLeft(oneLine)
      /\ gx' = IF nothing THEN matchend.e + 1 ELSE matchend.e
      /\ matchend' = fr.old_matchend
      /\ frames' = Front(frames)
      /\ pc' = IF ~oneLine \/ (~nothing /\ fr.old_matchend.s < gx') THEN "line" ELSE "content"
      /\ UNCHANGED <<text, edits, valid, call, line, stop, clearLine, endLine, filled,
                     breakParsing, gone, expected, tryMismatch>>
  BY DEF BlockReturns, client, Idle
<1>2. /\ ~Updating => UNCHANGED <<tree, parent>>
      /\ Updating /\ oneLine =>
           /\ tree' = IF fr.ResF # Nil THEN dropNext(tree, fr.ResF) ELSE dropChildren(tree, fr.ResP)
           /\ forward' = fr.ResF /\ parent' = fr.ResP
      /\ Updating /\ ~oneLine =>
           /\ tree' = Closed(tree, fr.node)
           /\ forward' = fr.node /\ parent' = fr.nodeP
  BY DEF BlockReturns
<1>3. k \in Nat \ {0} /\ fr \in Frames /\ fr = frames[k] /\ frames \in Seq(Frames) /\ k \in 2 .. k
  BY <1>1, TopFrame
<1>. HIDE DEF fr
<1>4. Len(frames') = k - 1 /\ \A i \in 1 .. k - 1 : frames'[i] = frames[i]
  <2>1. Len(frames) > 0
    BY <1>1, <1>3
  <2>. DEFINE t == Front(frames)
  <2>2. Len(t) = k - 1 /\ \A i \in 1 .. k - 1 : t[i] = frames[i]
    BY <1>3, <2>1, FrontFrame
  <2>3. frames' = t
    BY <1>1
  <2>. HIDE DEF t
  <2>. QED
    BY <2>2, <2>3
<1>5. line < stop \/ ~oneLine
  BY <1>3 DEF IInv, Control
<1>6. ASSUME Updating
      PROVE  /\ parent # RootId /\ parent = fr.node
             /\ parent' = fr.nodeP /\ parent' = tree[parent].parent
             /\ \A n \in DOMAIN tree' : n \in DOMAIN tree /\ tree'[n].level = tree[n].level
             /\ oneLine => TrimsTo(tree, fr.nodeP, fr.ResF, tree')
             /\ ~oneLine => ClosedTo(tree, parent, line, tree')
  <2>1. Spine(tree, frames, parent, forward) /\ GoodTree(tree) /\ line \in 0 .. MaxLines + 1
        /\ parent \in DOMAIN tree
    BY <1>1, <1>6 DEF IInv, Standing, Typed, Idle
  <2>2. Hangs(tree, fr) /\ parent = fr.node
    BY <1>1, <1>3, <2>1 DEF Spine
  <2>h. fr.ResF = Nil \/ (fr.ResF \in DOMAIN tree /\ fr.ResF # RootId /\ tree[fr.ResF].parent = fr.nodeP)
    BY <1>3, <2>1, <2>2, HangsHeld
  <2>3. fr.node # RootId /\ tree[fr.node].parent = fr.nodeP /\ fr.ResP = fr.nodeP
        /\ fr.nodeP \in DOMAIN tree
    BY <1>3, <2>1, <2>2, HangsHeld DEF Hangs
  <2>4. CASE oneLine
    <3>1. forward' = fr.ResF /\ parent' = fr.nodeP /\ tree' = Trimmed(tree, fr.nodeP, fr.ResF, TRUE)
      BY <1>2, <1>6, <2>3, <2>4 DEF Trimmed
    <3>. DEFINE R == tree'  q == fr.nodeP  g == fr.ResF  u == TRUE
    <3>2. Trims(tree, q, g) /\ u \in BOOLEAN /\ u
      BY <2>1, <2>3, <2>h DEF Trims
    <3>3. R = Trimmed(tree, q, g, u) /\ parent' = q
      BY <3>1
    <3>. HIDE DEF R, q, g, u
    <3>4. TrimsTo(tree, q, g, R) /\ R[q].level = tree[q].level
      BY <3>2, <3>3, TrimmedIs
    <3>5. \A n \in DOMAIN R : n \in DOMAIN tree /\ R[n].level = tree[n].level
      BY <3>4 DEF TrimsTo
    <3>. QED
      BY <2>2, <2>3, <2>4, <3>3, <3>4, <3>5 DEF q, g, R
  <2>5. CASE ~oneLine
    <3>. DEFINE R == [tree EXCEPT ![parent].eline = line]
    <3>1. parent' = fr.nodeP /\ tree' = R
      BY <1>2, <1>6, <2>2, <2>5 DEF Closed
    <3>2. ClosedTo(tree, parent, line, R)
      BY <2>1, ClosedIs
    <3>3. \A m \in DOMAIN tree : R[m].level = tree[m].level
      <4>1. IsTree(tree, AllLevels) /\ line \in Nat
        BY <2>1, BoundsAssumption DEF GoodTree
      <4>. QED
        BY <2>1, <4>1, EndedIs
    <3>4. DOMAIN R = DOMAIN tree
      BY <3>2 DEF ClosedTo
    <3>. HIDE DEF R
    <3>. QED
      BY <2>2, <2>3, <2>5, <3>1, <3>2, <3>3, <3>4
  <2>. QED
    BY <2>4, <2>5
<1>. QED
  BY <1>1, <1>2, <1>4, <1>5, <1>6 DEF fr

(* What the return from the colorize() of the block parse() went on in     *)
(* does: C is the tree with that block closed.                             *)
LEMMA ParentReturnsDoes ==
  ASSUME IInv, IInv', ParentReturns
  PROVE  /\ pc = "return" /\ Len(frames) = 1 /\ ~Idle /\ ~Idle' /\ pc' = "line"
         /\ parent # RootId /\ parent' = tree[parent].parent
         /\ handler' = LeaveScheme /\ gx' = matchend.e
         /\ Len(frames') = 1 /\ frames'[1].level = tree[parent'].level /\ ~frames'[1].clipped
         /\ UNCHANGED <<text, edits, valid, call, line, matchend, stop, clearLine, endLine, filled,
                        breakParsing, gone, tries>>
         /\ ~Updating => UNCHANGED tree
         /\ \A n \in DOMAIN tree' : n \in DOMAIN tree /\ tree'[n].level = tree[n].level
         /\ Updating => \E C : /\ ClosedTo(tree, parent, line, C)
                               /\ \A n \in DOMAIN tree : C[n].level = tree[n].level
                               /\ TrimsTo(C, parent', parent, tree')
<1>. DEFINE ended == IF Updating THEN Closed(tree, parent) ELSE tree
            q == tree[parent].parent
<1>1. /\ pc = "return" /\ Len(frames) = 1 /\ ~Idle /\ parent # RootId
      /\ handler' = LeaveScheme /\ gx' = matchend.e
      /\ Enter(ended, q, parent, Updating)
      /\ UNCHANGED <<text, edits, valid, call, line, matchend, stop, clearLine, endLine, filled,
                     breakParsing, gone, tries>>
  BY DEF ParentReturns, client, Idle
<1>2. /\ GoodTree(tree) /\ parent \in DOMAIN tree /\ IsTree(tree, AllLevels) /\ line \in 0 .. MaxLines + 1
      /\ q \in DOMAIN tree
  <2>1. GoodTree(tree) /\ parent \in DOMAIN tree /\ IsTree(tree, AllLevels) /\ line \in 0 .. MaxLines + 1
    BY <1>1 DEF IInv, Standing, GoodTree, Typed, Idle
  <2>. QED
    BY <1>1, <2>1 DEF IsTree, Linked
<1>3. /\ pc' = "line" /\ ~Idle' /\ parent' = q
      /\ tree' = Trimmed(ended, q, parent, Updating) /\ frames' = <<Bottom(ended[q].level)>>
  BY <1>1 DEF Enter, Idle
<1>. DEFINE C == [tree EXCEPT ![parent].eline = line]
<1>4. ClosedTo(tree, parent, line, C) /\ \A m \in DOMAIN tree : C[m].level = tree[m].level
  <2>1. line \in Nat
    BY <1>2, BoundsAssumption
  <2>. QED
    BY <1>2, <2>1, ClosedIs, EndedIs
<1>5. ended = IF Updating THEN C ELSE tree
  BY DEF Closed
<1>. HIDE DEF C, ended
<1>6. ended[q].level = tree[q].level /\ tree[q].level \in AllLevels
  BY <1>2, <1>4, <1>5 DEF IsTree, Nodes
<1>7. Len(frames') = 1 /\ frames'[1].level = tree[q].level /\ ~frames'[1].clipped
  <2>. DEFINE lv == ended[q].level
  <2>1. lv \in AllLevels /\ lv = tree[q].level /\ frames' = <<Bottom(lv)>>
    BY <1>3, <1>6
  <2>. HIDE DEF lv
  <2>2. Len(<<Bottom(lv)>>) = 1 /\ <<Bottom(lv)>>[1] = Bottom(lv) /\ Bottom(lv).level = lv
    BY <2>1, BottomIs, BoundsAssumption
  <2>3. ~Bottom(lv).clipped
    BY DEF Bottom
  <2>. QED
    BY <2>1, <2>2, <2>3
<1>8. CASE ~Updating
  <2>1. tree' = tree
    BY <1>3, <1>5, <1>8 DEF Trimmed
  <2>. QED
    BY <1>1, <1>3, <1>7, <1>8, <2>1
<1>9. CASE Updating
  <2>. DEFINE R == tree'  u == TRUE
  <2>1. R = Trimmed(C, q, parent, u)
    BY <1>3, <1>5, <1>9
  <2>2. Trims(C, q, parent)
    <3>1. GoodTree(C) /\ DOMAIN C = DOMAIN tree /\ C[parent].parent = tree[parent].parent
      BY <1>2, <1>4 DEF ClosedTo
    <3>. QED
      BY <1>1, <1>2, <3>1 DEF Trims
  <2>3. u \in BOOLEAN /\ u
    OBVIOUS
  <2>. HIDE DEF R, u, q
  <2>4. TrimsTo(C, q, parent, R) /\ R[q].level = C[q].level
    BY <2>1, <2>2, <2>3, TrimmedIs
  <2>5. \A n \in DOMAIN R : n \in DOMAIN tree /\ R[n].level = tree[n].level
    BY <1>4, <2>4 DEF TrimsTo, ClosedTo
  <2>. QED
    BY <1>1, <1>3, <1>4, <1>7, <1>9, <2>4, <2>5 DEF R, q
<1>. QED
  BY <1>8, <1>9

(* While the cache is rebuilt: back in the node around, the levels are     *)
(* those before without the innermost.                                     *)
LEMMA UpdatePop ==
  ASSUME IInv, IInv', LevelsAgree, ~Idle, ~Idle', UNCHANGED call, Updating, parent # RootId,
         parent' = tree[parent].parent,
         \A n \in DOMAIN tree' : /\ n \in DOMAIN tree /\ tree'[n].level = tree[n].level
                                 /\ tree'[n].parent = tree[n].parent,
         \A i \in 1 .. Len(frames') : ~frames'[i].clipped /\ (i > 1 => frames'[i].level \in Levels),
         frames'[Len(frames')].level = tree[parent'].level,
         \A i \in 2 .. Len(frames') :
           i \in 2 .. Len(frames) /\ frames'[i].nodeP = frames[i].nodeP /\ frames'[i - 1].level = frames[i - 1].level
  PROVE  LevelsAgree' /\ OpenHere # <<>> /\ OpenHere' = Front(OpenHere)
<1>1. GoodTree(tree) /\ GoodTree(tree') /\ parent \in DOMAIN tree /\ parent' \in DOMAIN tree'
  BY DEF IInv, Standing, Idle
<1>2. Updating'
  BY DEF Updating
<1>3. Spine(tree', frames', parent', forward')
  BY <1>2 DEF IInv, Standing, Idle
<1>4. RootId \in DOMAIN tree' /\ tree[RootId].level = None
  BY <1>1, GoodLevels DEF LevelsAgree
<1>5. \A i \in 2 .. Len(frames') : frames'[i].nodeP \in DOMAIN tree'
  BY <1>3 DEF Spine, Hangs
<1>6. \A i \in 2 .. Len(frames) : tree[frames[i].nodeP].level = frames[i - 1].level
  BY DEF LevelsAgree
<1>7. \A i \in 2 .. Len(frames') : tree'[frames'[i].nodeP].level = frames'[i - 1].level
  BY <1>5, <1>6
<1>8. tree'[RootId].level = None /\ tree'[parent'].level = frames'[Len(frames')].level
  BY <1>1, <1>4
<1>9. \A n \in DOMAIN tree' \ {RootId} : Proper(tree'[n].level)
  <2>1. \A n \in DOMAIN tree \ {RootId} : Proper(tree[n].level)
    BY DEF LevelsAgree
  <2>. QED
    BY <2>1
<1>10. LevelsAgree'
  BY <1>2, <1>7, <1>8, <1>9 DEF LevelsAgree
<1>11. OpenLevels(tree, parent) # <<>> /\ Front(OpenLevels(tree, parent)) = OpenLevels(tree, parent')
  BY <1>1, <1>4, InnerLevel
<1>12. OpenLevels(tree', parent') = OpenLevels(tree, parent')
  <2>1. DOMAIN tree' \subseteq DOMAIN tree
    OBVIOUS
  <2>2. \A n \in DOMAIN tree' : tree'[n].parent = tree[n].parent
    OBVIOUS
  <2>3. \A n \in DOMAIN tree' \ {RootId} : tree'[n].level = tree[n].level
    OBVIOUS
  <2>4. \A n \in DOMAIN tree' : OpenLevels(tree', n) = OpenLevels(tree, n)
    BY <1>1, <2>1, <2>2, <2>3, SameLevels
  <2>. QED
    BY <1>1, <2>4
<1>13. OpenHere = OpenLevels(tree, parent) /\ OpenHere' = OpenLevels(tree', parent')
  BY <1>2 DEF OpenHere
<1>. QED
  BY <1>10, <1>11, <1>12, <1>13

(* The levels when a block's colorize() has returned.                      *)
LEMMA BlockReturnsLevels ==
  ASSUME IInv, IInv', LevelsAgree, BlockReturns
  PROVE  LevelsAgree' /\ OpenHere # <<>> /\ OpenHere' = Front(OpenHere)
<1>. DEFINE k == Len(frames)
            oneLine == Current.old_line = line
<1>1. /\ pc = "return" /\ Len(frames) > 1 /\ ~Idle /\ ~Idle'
      /\ Len(frames') = Len(frames) - 1 /\ \A i \in 1 .. Len(frames) - 1 : frames'[i] = frames[i]
      /\ UNCHANGED call
      /\ ~Updating => UNCHANGED <<tree, parent>>
      /\ Updating => /\ parent # RootId /\ parent = Current.node
                     /\ parent' = Current.nodeP /\ parent' = tree[parent].parent
                     /\ \A n \in DOMAIN tree' : n \in DOMAIN tree /\ tree'[n].level = tree[n].level
      /\ Updating /\ oneLine => TrimsTo(tree, Current.nodeP, Current.ResF, tree')
      /\ Updating /\ ~oneLine => ClosedTo(tree, parent, line, tree')
  BY BlockReturnsDoes
<1>2. k \in Nat /\ k > 1 /\ Current = frames[k] /\ frames \in Seq(Frames) /\ frames' \in Seq(Frames)
      /\ Len(frames') = k - 1 /\ \A i \in 1 .. k - 1 : frames'[i] = frames[i]
  BY <1>1, TopFrame DEF IInv, Typed
<1>. HIDE DEF k
<1>3. \A i \in 1 .. k : ~frames[i].clipped /\ (i > 1 => frames[i].level \in Levels)
  BY DEF LevelsAgree, k
<1>4. \A i \in 1 .. Len(frames') : ~frames'[i].clipped /\ (i > 1 => frames'[i].level \in Levels)
  BY <1>2, <1>3
<1>5. CASE Updating
  <2>1. parent # RootId /\ parent' = tree[parent].parent
        /\ \A n \in DOMAIN tree' : n \in DOMAIN tree /\ tree'[n].level = tree[n].level
    BY <1>1, <1>5
  <2>2. \A n \in DOMAIN tree' : tree'[n].parent = tree[n].parent
    <3>1. CASE oneLine
      <4>. DEFINE q == Current.nodeP  f == Current.ResF
      <4>1. TrimsTo(tree, q, f, tree')
        BY <1>1, <1>5, <3>1
      <4>. HIDE DEF q, f
      <4>. QED
        BY <4>1 DEF TrimsTo
    <3>2. CASE ~oneLine
      BY <1>1, <1>5, <3>2 DEF ClosedTo
    <3>. QED
      BY <3>1, <3>2
  <2>3. frames'[Len(frames')].level = tree[parent'].level
    <3>1. k \in 2 .. Len(frames) /\ k - 1 \in 1 .. k - 1
      BY <1>2 DEF k
    <3>2. tree[frames[k].nodeP].level = frames[k - 1].level
      BY <1>1, <1>5, <3>1 DEF LevelsAgree
    <3>. QED
      BY <1>1, <1>2, <1>5, <3>1, <3>2
  <2>4. \A i \in 2 .. Len(frames') :
          i \in 2 .. Len(frames) /\ frames'[i].nodeP = frames[i].nodeP /\ frames'[i - 1].level = frames[i - 1].level
    <3>1. SUFFICES ASSUME NEW i \in 2 .. k - 1
                   PROVE i \in 2 .. k /\ frames'[i].nodeP = frames[i].nodeP
                         /\ frames'[i - 1].level = frames[i - 1].level
      BY <1>2 DEF k
    <3>2. i \in 2 .. k /\ i \in 1 .. k - 1 /\ i - 1 \in 1 .. k - 1
      BY <1>2
    <3>. QED
      BY <1>2, <3>2
  <2>5. \A n \in DOMAIN tree' : /\ n \in DOMAIN tree /\ tree'[n].level = tree[n].level
                                /\ tree'[n].parent = tree[n].parent
    BY <2>1, <2>2
  <2>. QED
    BY <1>1, <1>4, <1>5, <2>1, <2>3, <2>4, <2>5, UpdatePop
<1>6. CASE ~Updating
  <2>1. tree' = tree /\ parent' = parent /\ ~Updating' /\ tree[parent].level = frames[1].level
    BY <1>1, <1>6 DEF Updating, LevelsAgree
  <2>2. 1 \in 1 .. k - 1
    BY <1>2
  <2>3. frames'[1].level = frames[1].level
    BY <1>2, <2>2
  <2>4. LevelsAgree'
    <3>1. /\ tree[RootId].level = None
          /\ \A n \in DOMAIN tree \ {RootId} : Proper(tree[n].level)
      BY DEF LevelsAgree
    <3>. QED
      BY <1>1, <1>4, <2>1, <2>3, <3>1 DEF LevelsAgree
  <2>. DEFINE u == OpenLevels(tree, parent)  v == FrameLevels(frames')  x == frames[k].level
  <2>5. v \in Seq(Levels) /\ x \in Levels /\ FrameLevels(frames) = Append(v, x)
    <3>1. \A i \in 2 .. Len(frames) : frames[i].level \in Levels
      BY <1>3, <1>2 DEF k
    <3>2. Len(frames) >= 2 /\ Len(frames') = Len(frames) - 1
          /\ \A i \in 1 .. Len(frames) - 1 : frames'[i] = frames[i]
      BY <1>2 DEF k
    <3>. QED
      BY <1>2, <3>1, <3>2, FrameLevelsPop DEF k
  <2>6. u \in Seq(Levels)
    <3>1. GoodTree(tree) /\ parent \in DOMAIN tree
      BY <1>1 DEF IInv, Standing, Idle
    <3>. QED
      BY <3>1, GoodLevels
  <2>7. OpenHere = u \o Append(v, x) /\ OpenHere' = u \o v
    BY <1>6, <2>1, <2>5 DEF OpenHere
  <2>. HIDE DEF u, v, x
  <2>8. u \o Append(v, x) = Append(u \o v, x)
    BY <2>5, <2>6, ConcatAppend
  <2>. DEFINE w == u \o v
  <2>9. w \in Seq(Levels) /\ OpenHere = Append(w, x) /\ OpenHere' = w
    BY <2>5, <2>6, <2>7, <2>8
  <2>. HIDE DEF w
  <2>10. Front(Append(w, x)) = w /\ Append(w, x) # <<>>
    BY <2>5, <2>9, FrontAppend
  <2>. QED
    BY <2>4, <2>9, <2>10
<1>. QED
  BY <1>5, <1>6

(* The levels when the colorize() of the block parse() went on in has.     *)
LEMMA ParentReturnsLevels ==
  ASSUME IInv, IInv', LevelsAgree, ParentReturns
  PROVE  LevelsAgree' /\ OpenHere # <<>> /\ OpenHere' = Front(OpenHere)
<1>1. /\ pc = "return" /\ Len(frames) = 1 /\ ~Idle /\ ~Idle' /\ pc' = "line"
      /\ parent # RootId /\ parent' = tree[parent].parent
      /\ Len(frames') = 1 /\ frames'[1].level = tree[parent'].level /\ ~frames'[1].clipped
      /\ UNCHANGED call
      /\ ~Updating => UNCHANGED tree
      /\ \A n \in DOMAIN tree' : n \in DOMAIN tree /\ tree'[n].level = tree[n].level
      /\ Updating => \E C : /\ ClosedTo(tree, parent, line, C)
                            /\ \A n \in DOMAIN tree : C[n].level = tree[n].level
                            /\ TrimsTo(C, parent', parent, tree')
  BY ParentReturnsDoes
<1>2. \A i \in 1 .. Len(frames') : ~frames'[i].clipped /\ (i > 1 => frames'[i].level \in Levels)
  BY <1>1
<1>3. CASE Updating
  <2>1. PICK C : ClosedTo(tree, parent, line, C) /\ TrimsTo(C, parent', parent, tree')
    BY <1>1, <1>3
  <2>2. \A n \in DOMAIN tree' : /\ n \in DOMAIN tree /\ tree'[n].level = tree[n].level
                                /\ tree'[n].parent = tree[n].parent
    BY <1>1, <2>1 DEF ClosedTo, TrimsTo
  <2>3. frames'[Len(frames')].level = tree[parent'].level /\ 2 .. Len(frames') = {}
    BY <1>1
  <2>. QED
    BY <1>1, <1>2, <1>3, <2>2, <2>3, UpdatePop
<1>4. CASE ~Updating
  <2>1. tree' = tree /\ ~Updating' /\ GoodTree(tree) /\ parent \in DOMAIN tree /\ tree[RootId].level = None
    BY <1>1, <1>4 DEF Updating, LevelsAgree, IInv, Standing, Idle
  <2>2. LevelsAgree'
    <3>1. \A n \in DOMAIN tree \ {RootId} : Proper(tree[n].level)
      BY DEF LevelsAgree
    <3>. QED
      BY <1>1, <1>2, <2>1, <3>1 DEF LevelsAgree
  <2>3. OpenLevels(tree, parent) # <<>> /\ Front(OpenLevels(tree, parent)) = OpenLevels(tree, parent')
    BY <1>1, <2>1, InnerLevel
  <2>4. FrameLevels(frames) = <<>> /\ FrameLevels(frames') = <<>>
    BY <1>1 DEF FrameLevels
  <2>5. parent' \in DOMAIN tree
    BY <1>1, <2>1 DEF IInv, Standing, Idle
  <2>6. OpenLevels(tree, parent) \in Seq(Levels) /\ OpenLevels(tree, parent') \in Seq(Levels)
    BY <2>1, <2>5, GoodLevels
  <2>. DEFINE u == OpenLevels(tree, parent)  w == OpenLevels(tree, parent')
  <2>7. OpenHere = u \o <<>> /\ OpenHere' = w \o <<>>
    BY <1>4, <2>1, <2>4 DEF OpenHere
  <2>8. u \in Seq(Levels) /\ w \in Seq(Levels) /\ u # <<>> /\ Front(u) = w
    BY <2>3, <2>6
  <2>. HIDE DEF u, w
  <2>9. u \o <<>> = u /\ w \o <<>> = w
    BY <2>8
  <2>. QED
    BY <2>2, <2>7, <2>8, <2>9
<1>. QED
  BY <1>3, <1>4

(* The levels of a tree are of the kind \M-less grammars have. *)
Leveled(T) == T[RootId].level = None /\ \A n \in DOMAIN T \ {RootId} : Proper(T[n].level)

(* R has the nodes of T, but for what a search changes. *)
AsBefore(T, R) ==
  /\ Rested(R) /\ DOMAIN R = DOMAIN T
  /\ \A n \in DOMAIN T : /\ R[n].parent = T[n].parent /\ R[n].sline = T[n].sline
                         /\ R[n].eline = T[n].eline /\ R[n].level = T[n].level

(* The node parse() goes on from. *)
FoundFor(T, kind, from) == IF kind = "off" THEN RootId ELSE searchLine(T, from).found

(* What parse() does up to its first call of colorize().                   *)
LEMMA ParseDoes ==
  ASSUME IInv', NEW T, Rested(T), Leveled(T), NEW kind \in {"update", "read", "off", "try"},
         NEW from \in Lines, NEW num, parse(T, kind, from, num)
  PROVE  /\ ~Idle' /\ pc' = "line" /\ line' = from /\ stop' = from + num /\ gx' = 0
         /\ call' = [kind |-> kind, line |-> from]
         /\ clearLine' = -1 /\ endLine' = from /\ handler' = <<>>
         /\ ~filled' /\ ~breakParsing' /\ ~gone' /\ Len(frames') = 1
         /\ parent' = FoundFor(T, kind, from) /\ parent' \in DOMAIN T
         /\ LevelsAgree' /\ OpenHere' = OpenLevels(T, parent')
         /\ kind # "update" => AsBefore(T, tree')
         /\ kind = "update" =>
              /\ TrimsTo(searchLine(T, from).tree, parent', searchLine(T, from).forward, tree')
              /\ tree'[parent'].level = searchLine(T, from).tree[parent'].level
<1>0. from \in Nat /\ from \in 0 .. MaxLines /\ GoodTree(T)
  BY BoundsAssumption DEF Lines, Rested
<1>. DEFINE s == IF kind = "off" THEN [found |-> RootId, forward |-> Nil, tree |-> T]
                 ELSE searchLine(T, from)
            C == s.tree  p == s.found  f == s.forward  u == kind = "update"
<1>1. /\ call' = [kind |-> kind, line |-> from]
      /\ line' = from /\ stop' = from + num /\ gx' = 0
      /\ clearLine' = -1 /\ endLine' = from /\ handler' = <<>>
      /\ ~filled' /\ ~breakParsing' /\ ~gone'
      /\ Enter(C, p, f, u)
  BY DEF parse
<1>2. /\ Rested(C) /\ GoodTree(C) /\ DOMAIN C = DOMAIN T
      /\ \A n \in DOMAIN T :
           /\ C[n].parent = T[n].parent /\ C[n].sline = T[n].sline
           /\ C[n].eline = T[n].eline /\ C[n].level = T[n].level
      /\ p \in DOMAIN T
  <2>1. CASE kind = "off"
    <3>1. C = T /\ p = RootId
      BY <2>1
    <3>2. RootId \in DOMAIN T
      BY <1>0, GoodLevels
    <3>. HIDE DEF C, p
    <3>. QED
      BY <1>0, <3>1, <3>2
  <2>2. CASE kind # "off"
    <3>. DEFINE R == searchLine(T, from).tree
    <3>1. C = R /\ p = searchLine(T, from).found
      BY <2>2
    <3>2. /\ Rested(R) /\ GoodTree(R) /\ DOMAIN R = DOMAIN T
          /\ \A n \in DOMAIN T :
               /\ R[n].parent = T[n].parent /\ R[n].kids = T[n].kids /\ R[n].sline = T[n].sline
               /\ R[n].eline = T[n].eline /\ R[n].level = T[n].level
      BY <1>0, BoundsAssumption, SearchLeaves
    <3>3. p \in DOMAIN T
      BY <1>0, <3>1, BoundsAssumption, SearchGood
    <3>. HIDE DEF C, p, R
    <3>. QED
      BY <3>1, <3>2, <3>3
  <2>. QED
    BY <2>1, <2>2
<1>3. f = Nil \/ (f \in DOMAIN C /\ f # RootId /\ C[f].parent = p)
  <2>1. CASE kind = "off"
    BY <2>1
  <2>2. CASE kind # "off"
    BY <1>0, <2>2, BoundsAssumption, SearchGood
  <2>. QED
    BY <2>1, <2>2
<1>4. p = FoundFor(T, kind, from)
  BY DEF FoundFor
<1>5. kind = "update" => C = searchLine(T, from).tree /\ f = searchLine(T, from).forward
  OBVIOUS
<1>. HIDE DEF C, p, f
<1>6. /\ tree' = Trimmed(C, p, f, u) /\ parent' = p /\ frames' = <<Bottom(C[p].level)>> /\ pc' = "line"
  BY <1>1 DEF Enter
<1>7. Trims(C, p, f) /\ u \in BOOLEAN
  BY <1>2, <1>3 DEF Trims
<1>. DEFINE R == tree'
<1>8. /\ GoodTree(R) /\ p \in DOMAIN R /\ R[p].level = C[p].level
      /\ u => TrimsTo(C, p, f, R)
  <2>1. R = Trimmed(C, p, f, u)
    BY <1>6
  <2>. HIDE DEF R, u
  <2>. QED
    BY <1>7, <2>1, TrimmedIs
<1>9. ~u => R = C
  BY <1>6 DEF Trimmed
<1>10. /\ DOMAIN R \subseteq DOMAIN T
       /\ \A n \in DOMAIN R : R[n].parent = T[n].parent /\ R[n].level = T[n].level
  <2>1. CASE u
    <3>1. TrimsTo(C, p, f, R)
      BY <1>8, <2>1
    <3>. HIDE DEF R
    <3>. QED
      BY <1>2, <1>8, <3>1 DEF TrimsTo
  <2>2. CASE ~u
    BY <1>2, <1>9, <2>2
  <2>. QED
    BY <2>1, <2>2
<1>11. Len(frames') = 1 /\ frames'[1].level = T[p].level /\ ~frames'[1].clipped
  <2>. DEFINE lv == C[p].level
  <2>1. lv \in AllLevels /\ lv = T[p].level /\ frames' = <<Bottom(lv)>>
    BY <1>2, <1>6 DEF GoodTree, IsTree, Nodes
  <2>. HIDE DEF lv
  <2>2. Len(<<Bottom(lv)>>) = 1 /\ <<Bottom(lv)>>[1] = Bottom(lv) /\ Bottom(lv).level = lv
    BY <2>1, BottomIs, BoundsAssumption
  <2>3. ~Bottom(lv).clipped
    BY DEF Bottom
  <2>. QED
    BY <2>1, <2>2, <2>3
<1>12. ~Idle' /\ (Updating' <=> u)
  BY <1>1, <1>6 DEF Idle, Updating
<1>13. RootId \in DOMAIN R
  BY <1>8, GoodLevels
<1>14. LevelsAgree'
  <2>1. R[RootId].level = None /\ \A n \in DOMAIN R \ {RootId} : Proper(R[n].level)
    BY <1>10, <1>13 DEF Leveled
  <2>2. R[p].level = frames'[1].level
    BY <1>8, <1>10, <1>11
  <2>. QED
    BY <1>6, <1>11, <1>12, <2>1, <2>2 DEF LevelsAgree
<1>15. OpenLevels(R, p) = OpenLevels(T, p)
  <2>1. \A n \in DOMAIN R : R[n].parent = T[n].parent
    BY <1>10
  <2>2. \A n \in DOMAIN R \ {RootId} : R[n].level = T[n].level
    BY <1>10
  <2>3. DOMAIN R \subseteq DOMAIN T
    BY <1>10
  <2>. HIDE DEF R
  <2>. QED
    BY <1>0, <1>8, <2>1, <2>2, <2>3, SameLevels
<1>16. OpenHere' = OpenLevels(T, p)
  <2>1. CASE u
    BY <1>6, <1>12, <1>15, <2>1 DEF OpenHere
  <2>2. CASE ~u
    <3>1. FrameLevels(frames') = <<>>
      BY <1>11 DEF FrameLevels
    <3>2. OpenHere' = OpenLevels(R, p) \o <<>>
      BY <1>6, <1>12, <2>2, <3>1 DEF OpenHere
    <3>. DEFINE w == OpenLevels(R, p)
    <3>3. w \in Seq(Levels)
      BY <1>8, GoodLevels
    <3>. HIDE DEF w
    <3>4. w \o <<>> = w
      BY <3>3
    <3>. QED
      BY <1>15, <3>2, <3>4 DEF w
  <2>. QED
    BY <2>1, <2>2
<1>17. kind # "update" => AsBefore(T, R)
  <2>1. ASSUME kind # "update" PROVE AsBefore(T, R)
    <3>1. R = C
      BY <1>9, <2>1
    <3>. QED
      BY <1>2, <3>1 DEF AsBefore
  <2>. QED
    BY <2>1
<1>18. kind = "update" => /\ TrimsTo(searchLine(T, from).tree, p, searchLine(T, from).forward, R)
                          /\ R[p].level = searchLine(T, from).tree[p].level
  BY <1>5, <1>8
<1>. QED
  BY <1>1, <1>2, <1>4, <1>6, <1>11, <1>12, <1>14, <1>16, <1>17, <1>18

-----------------------------------------------------------------------------
(* The invariant of the text.                                              *)

(* Tree T has, to line e, the levels of text tx. *)
TreeTrue(tx, T, e) == \A l \in 0 .. e : Sig(OpenLevels(T, searchLine(T, l).found)) = Stack(tx, l)

(* At place g of the line the levels open are these. *)
At(g, open) == Reaches(Stack(text, line), str, g, open)

(* What an activation knows of the line from g on: where its end is, or    *)
(* that it has none.                                                       *)
Seen(f, m, s, g) ==
  /\ m.s <= Len(s)
  /\ f.ended => /\ m.e = m.s + 1 /\ m.s < Len(s) /\ IsEnd(f.level, Token(s, m.s))
                /\ \A p \in g .. m.s - 1 : ~IsEnd(f.level, Token(s, p))
  /\ ~f.ended => /\ \A p \in g .. Len(s) - 1 : ~IsEnd(f.level, Token(s, p))
                 /\ chunkLongLines \/ m.s = Len(s)

(* The tree that is rebuilt is right for the lines to the one reached.     *)
Rebuilt ==
  ~Idle /\ Updating =>
    /\ call.line = valid
    /\ Base(parent, frames) \in Above(tree, parent)
    /\ \A n \in Above(tree, parent) : call.line <= tree[n].eline
    /\ Tips(text, tree, parent, Base(parent, frames), call.line, line)

(* One that is read only is right for the lines the client knows.          *)
Cached == ~Updating => TreeTrue(text, tree, Known)

(* While a line is tried the tree is right below it, if it was at its end. *)
TrySame ==
  Trying =>
    /\ call.line < valid /\ stop = call.line + 1
    /\ Sig(expected) = Sig(CachedLevels(stop))
    /\ \A k \in stop .. valid - 1 : Sig(CachedLevels(k + 1)) = LineSig(Sig(CachedLevels(k)), text[k])
    /\ \A i \in 1 .. Len(expected) : Proper(expected[i])

(* The levels counted are those the parse is in. *)
TryCounts ==
  Trying =>
    /\ ~tryMismatch
    /\ \A i \in 1 .. Len(tryStack) : Proper(tryStack[i])
    /\ line < stop => tryStack = IF pc = "return" /\ Len(frames) = 1 THEN Front(OpenHere) ELSE OpenHere
    /\ line = stop => Sig(tryStack) = Stack(text, stop)

(* Where the loop is. *)
Turn ==
  /\ call.line <= line /\ line <= stop /\ call.line < stop
  /\ ~filled => pc = "line" /\ Len(frames) = 1 /\ line < stop
  /\ line < stop /\ clearLine = line => endLine = line
  /\ line = stop => endLine = stop - 1
  /\ \A i \in 2 .. Len(frames) : call.line <= frames[i].old_line /\ frames[i].old_line <= line
  /\ line < stop /\ clearLine # line => pc = "line" /\ gx = 0

(* What an activation that waits for a block on the line will go on with. *)
Waits ==
  \A i \in 2 .. Len(frames) : frames[i].old_line = line =>
    Seen(frames[i - 1], frames[i].old_matchend, str, gx) /\ frames[i].level.at < gx

(* The levels the parse is in are those the text has there: at the start of *)
(* a line,                                                                  *)
Place_line    == At(gx, Here)
(* inside one, where the end of a block may have been found ahead of gx,    *)
Place_content ==
  /\ gx <= Len(str) + 1 /\ Seen(Current, matchend, str, gx)
  /\ Current.ended /\ gx > matchend.s => gx = matchend.e /\ OpenHere # <<>> /\ At(gx, Front(Here))
  /\ ~(Current.ended /\ gx > matchend.s) => At(Least(gx, Len(str)), Here)
(* and at the end of the block an activation returns from.                  *)
Place_return  == gx = matchend.e /\ OpenHere # <<>> /\ At(gx, Front(Here))
(* All of these, while there are lines left to parse.                       *)
Follows ==
  line < stop =>
    /\ pc = "line" => Place_line
    /\ pc = "content" => Place_content
    /\ pc = "return" => Place_return
    /\ Waits
    /\ filled => handler = BlocksOf(OpenHere)

(* The inductive invariant, on top of IInv and OInv. *)
FInv ==
  /\ Idle => call = NoCall
  /\ ~breakParsing /\ ~gone
  /\ LevelsAgree /\ Rebuilt /\ Cached /\ TrySame
  /\ ~Idle => TryCounts /\ Turn /\ Follows

(* What is kept of the tree by a step that leaves it.                      *)
LEMMA StillCached ==
  ASSUME UNCHANGED <<text, call, valid>>, ~Updating => UNCHANGED tree, Cached
  PROVE  Cached'
<1>1. CASE Updating
  BY <1>1 DEF Cached, Updating
<1>2. CASE ~Updating
  <2>1. UNCHANGED <<text, call, valid, tree>>
    BY <1>2
  <2>2. Known' = Known
    BY <2>1 DEF Known, Trying
  <2>. QED
    BY <1>2, <2>1, <2>2 DEF Cached, Updating
<1>. QED
  BY <1>1, <1>2

(* And of what tryParseLine compares.                                      *)
LEMMA StillSame ==
  ASSUME UNCHANGED <<text, call, valid, stop, expected>>, ~Updating => UNCHANGED tree, TrySame
  PROVE  TrySame'
<1>1. CASE ~Trying
  BY <1>1 DEF TrySame, Trying
<1>2. CASE Trying
  <2>1. UNCHANGED <<text, call, valid, tree, stop, expected>>
    BY <1>2 DEF Trying, Updating
  <2>2. \A k : CachedLevels(k)' = CachedLevels(k)
    BY <2>1 DEF CachedLevels
  <2>. QED
    BY <1>2, <2>1, <2>2 DEF TrySame, Trying
<1>. QED
  BY <1>1, <1>2

(* And of the tree that is rebuilt, by a step within the line.             *)
LEMMA StillRebuilt ==
  ASSUME UNCHANGED <<text, call, valid, tree, parent, line>>, ~Idle, Rebuilt,
         Len(frames') = Len(frames), Len(frames) > 1 => frames'[2].nodeP = frames[2].nodeP,
         Len(frames) \in Nat \ {0}
  PROVE  Rebuilt'
<1>1. CASE ~Updating
  BY <1>1 DEF Rebuilt, Updating
<1>2. CASE Updating
  <2>1. Base(parent', frames') = Base(parent, frames)
    BY DEF Base
  <2>. QED
    BY <1>2, <2>1 DEF Rebuilt, Updating
<1>. QED
  BY <1>1, <1>2

(* What is known of the line is known of what is left of it.               *)
LEMMA SeenOn ==
  ASSUME NEW f, NEW m \in Spans, NEW s, NEW g \in Nat, Seen(f, m, s, g), NEW h \in Nat, g <= h,
         NEW k, k.level = f.level, k.ended = f.ended, Len(s) \in Nat
  PROVE  Seen(k, m, s, h)
<1>1. m.s \in Nat
  BY DEF Spans
<1>2. \A n \in Nat : \A p \in h .. n - 1 : p \in g .. n - 1
  OBVIOUS
<1>. QED
  BY <1>1, <1>2 DEF Seen

(* What the activations that wait for a block know, further on.            *)
LEMMA WaitsOn ==
  ASSUME IInv, Waits, UNCHANGED <<text, line>>, line < stop, ~Idle, Len(frames') = Len(frames),
         gx' \in Nat, gx <= gx',
         \A i \in 1 .. Len(frames) :
           /\ frames'[i].level = frames[i].level /\ frames'[i].old_line = frames[i].old_line
           /\ frames'[i].old_matchend = frames[i].old_matchend
           /\ i # Len(frames) => frames'[i].ended = frames[i].ended
  PROVE  Waits'
<1>1. Len(frames) \in Nat \ {0} /\ frames \in Seq(Frames)
  BY TopFrame DEF Idle
<1>2. str \in Seq(Tokens) /\ Len(str) \in Nat /\ str' = str /\ gx \in Nat
  BY BoundsAssumption, TokensAssumption, StrIs DEF str, IInv, Typed
<1>3. SUFFICES ASSUME NEW i \in 2 .. Len(frames), frames'[i].old_line = line
               PROVE  Seen(frames'[i - 1], frames'[i].old_matchend, str, gx') /\ frames'[i].level.at < gx'
  BY <1>2 DEF Waits
<1>4. i \in 1 .. Len(frames) /\ i - 1 \in 1 .. Len(frames) /\ i - 1 # Len(frames) /\ frames[i] \in Frames
  BY <1>1
<1>5. Seen(frames[i - 1], frames[i].old_matchend, str, gx) /\ frames[i].level.at < gx
  BY <1>3, <1>4 DEF Waits
<1>6. frames[i].old_matchend \in Spans
  BY <1>4 DEF Frames
<1>7. Seen(frames'[i - 1], frames[i].old_matchend, str, gx')
  <2>. DEFINE m == frames[i].old_matchend  f == frames[i - 1]  k == frames'[i - 1]
  <2>1. m \in Spans /\ Seen(f, m, str, gx) /\ k.level = f.level /\ k.ended = f.ended
    BY <1>4, <1>5, <1>6
  <2>. HIDE DEF m, f, k
  <2>2. Seen(k, m, str, gx')
    BY <1>2, <2>1, SeenOn
  <2>. QED
    BY <2>2 DEF m, k
<1>8. frames'[i].level.at < gx'
  <2>1. frames[i].level.at \in Nat
    <3>1. frames[i].level \in AllLevels
      BY <1>4 DEF Frames
    <3>. QED
      BY <3>1 DEF AllLevels, Levels, None
  <2>. QED
    BY <1>2, <1>4, <1>5, <2>1
<1>. QED
  BY <1>4, <1>7, <1>8

(* With one activation the levels are those of the node.                   *)
LEMMA OneFrame ==
  ASSUME IInv, ~Idle, Len(frames) = 1
  PROVE  OpenHere = OpenLevels(tree, parent)
<1>1. GoodTree(tree) /\ parent \in DOMAIN tree
  BY DEF IInv, Standing, Idle
<1>. DEFINE w == OpenLevels(tree, parent)
<1>2. w \in Seq(Levels)
  BY <1>1, GoodLevels
<1>3. FrameLevels(frames) = <<>>
  BY DEF FrameLevels
<1>4. OpenHere = IF Updating THEN w ELSE w \o <<>>
  BY <1>3 DEF OpenHere
<1>. HIDE DEF w
<1>5. w \o <<>> = w
  BY <1>2
<1>. QED
  BY <1>4, <1>5 DEF w

(* The end of the range.                                                   *)
LEMMA OutOfLinesTrue ==
  ASSUME IInv, FInv, OutOfLines
  PROVE  FInv'
<1>1. /\ pc = "line" /\ line >= stop /\ pc' = "return" /\ ~Idle /\ ~Idle'
      /\ UNCHANGED <<text, edits, valid, tree, call, frames, gx, line, matchend, stop, clearLine,
                     endLine, parent, filled, breakParsing, gone, handler, expected, tryStack,
                     tryMismatch>>
  BY DEF OutOfLines, Leave, client, cursor, tries, Idle
<1>2. line = stop /\ line \in Nat /\ stop \in Nat
  BY <1>1, BoundsAssumption DEF FInv, Turn, IInv, Typed
<1>3. Len(frames) \in Nat \ {0}
  BY <1>1, TopFrame
<1>4. LevelsAgree'
  <2>1. LevelsAgree
    BY DEF FInv
  <2>2. \A i \in 1 .. Len(frames) :
          /\ frames'[i].level = frames[i].level /\ frames'[i].nodeP = frames[i].nodeP /\ ~frames'[i].clipped
    BY <1>1, <2>1 DEF LevelsAgree
  <2>. QED
    BY <1>1, <2>1, <2>2, LevelsStill
<1>5. Rebuilt' /\ Cached' /\ TrySame'
  BY <1>1, <1>3, StillRebuilt, StillCached, StillSame DEF FInv
<1>6. TryCounts'
  BY <1>1, <1>2 DEF FInv, TryCounts, Trying
<1>7. Turn'
  BY <1>1, <1>2 DEF FInv, Turn
<1>8. Follows'
  BY <1>1, <1>2 DEF Follows
<1>. QED
  BY <1>1, <1>4, <1>5, <1>6, <1>7, <1>8 DEF FInv

(* Where the end of the block is looked for.                               *)
LEMMA StartSees ==
  ASSUME Plain, NEW f, NEW s \in Contents, Len(s) \in Nat, NEW g \in 0 .. Len(s), NEW ends,
         ends = {p \in g .. Len(s) - 1 : IsEnd(f.level, Token(s, p))},
         f.ended <=> ends # {},
         NEW m, m = IF ends = {} THEN [s |-> Least(g + maxBlockSize, Len(s)), e |-> Least(g + maxBlockSize, Len(s))]
                    ELSE [s |-> CHOOSE p \in ends : \A q \in ends : p <= q,
                          e |-> (CHOOSE p \in ends : \A q \in ends : p <= q) + 1]
  PROVE  Seen(f, m, s, g) /\ (f.ended => g <= m.s)
<1>0. maxBlockSize \in Nat \ {0}
  BY BoundsAssumption
<1>1. CASE ends = {}
  <2>1. m.s = Least(g + maxBlockSize, Len(s)) /\ ~f.ended
    BY <1>1
  <2>2. m.s <= Len(s) /\ (chunkLongLines \/ m.s = Len(s))
    <3>. DEFINE n == Len(s)  b == maxBlockSize  x == m.s
    <3>1. chunkLongLines \/ n <= b
      BY DEF Plain
    <3>2. n \in Nat /\ b \in Nat /\ g \in Nat /\ x = IF g + b < n THEN g + b ELSE n
      BY <1>0, <2>1 DEF Least
    <3>. HIDE DEF n, b, x
    <3>3. x <= n /\ (n <= b => x = n)
      BY <3>2
    <3>4. chunkLongLines \/ x = n
      BY <3>1, <3>3
    <3>. QED
      BY <3>3, <3>4 DEF n, x
  <2>3. \A p \in g .. Len(s) - 1 : ~IsEnd(f.level, Token(s, p))
    BY <1>1
  <2>. QED
    BY <2>1, <2>2, <2>3 DEF Seen
<1>2. CASE ends # {}
  <2>. DEFINE at == CHOOSE p \in ends : \A q \in ends : p <= q
  <2>1. ends \subseteq Nat
    OBVIOUS
  <2>2. \E p \in ends : \A q \in ends : p <= q
    BY <1>2, <2>1, LeastNat
  <2>3. at \in ends /\ \A q \in ends : at <= q
    BY <2>2
  <2>4. m.s = at /\ m.e = at + 1 /\ f.ended
    BY <1>2
  <2>. HIDE DEF at
  <2>5. at \in g .. Len(s) - 1 /\ IsEnd(f.level, Token(s, at))
    BY <2>3
  <2>6. \A p \in g .. at - 1 : ~IsEnd(f.level, Token(s, p))
    <3>1. SUFFICES ASSUME NEW p \in g .. at - 1, IsEnd(f.level, Token(s, p)) PROVE FALSE
      OBVIOUS
    <3>2. p \in g .. Len(s) - 1 /\ ~(at <= p)
      BY <2>5
    <3>3. p \in ends
      BY <3>1, <3>2
    <3>. QED
      BY <2>3, <3>2, <3>3
  <2>7. at < Len(s) /\ at <= Len(s) /\ g <= at
    <3>. DEFINE n == Len(s)
    <3>1. at \in g .. n - 1 /\ n \in Nat /\ g \in Nat
      BY <2>5
    <3>. HIDE DEF n
    <3>2. at < n /\ at <= n /\ g <= at
      BY <3>1
    <3>. QED
      BY <3>2 DEF n
  <2>8. Seen(f, m, s, g)
    BY <2>4, <2>5, <2>6, <2>7 DEF Seen
  <2>. QED
    BY <2>4, <2>7, <2>8
<1>. QED
  BY <1>1, <1>2

(* The beginning of a turn of the loop.                                    *)
LEMMA StartLineTrue ==
  ASSUME Plain, IInv, IInv', FInv, StartLine
  PROVE  FInv'
<1>. DEFINE ends  == {p \in gx .. Len(str) - 1 : IsEnd(Current.level, Token(str, p))}
            at    == CHOOSE p \in ends : \A q \in ends : p <= q
            bound == Least(gx + maxBlockSize, Len(str))
            found == ends # {}
            low == Current.level.block \in LowContent
            k == Len(frames)
<1>1. /\ pc = "line" /\ line < stop /\ pc' = "content" /\ ~Idle /\ ~Idle'
      /\ clearLine' = line /\ endLine' = line /\ filled'
      /\ handler' = IF filled THEN handler ELSE BlocksOf(OpenLevels(tree, parent))
      /\ matchend' = IF ends = {} THEN [s |-> bound, e |-> bound] ELSE [s |-> at, e |-> at + 1]
      /\ frames' = WithTop([Current EXCEPT !.ended = found, !.clipped = low])
      /\ UNCHANGED <<text, edits, valid, tree, call, gx, line, stop,
                     parent, breakParsing, gone, expected, tryStack, tryMismatch>>
  BY DEF StartLine, client, tries, Idle, fillInvisibleSchemes
<1>2. line \in Lines /\ str \in Seq(Tokens) /\ Len(str) \in Nat /\ str \in Contents /\ str' = str
  <2>1. line \in Lines /\ str \in Seq(Tokens) /\ Len(str) \in Nat
    BY <1>1, BoundsAssumption, TokensAssumption, StrIs
  <2>2. str \in Contents
    BY <2>1 DEF str, IInv, Typed
  <2>. QED
    BY <1>1, <2>1, <2>2 DEF str
<1>3. At(gx, Here) /\ Waits /\ (filled => handler = BlocksOf(OpenHere))
  BY <1>1 DEF FInv, Follows, Place_line
<1>4. gx \in 0 .. Len(str) /\ gx \in Nat
  BY <1>2, <1>3 DEF At, Reaches
<1>5. /\ Len(frames') = k /\ k \in Nat \ {0} /\ frames' \in Seq(Frames)
      /\ \A i \in 1 .. k :
           /\ frames'[i].level = frames[i].level /\ frames'[i].nodeP = frames[i].nodeP
           /\ frames'[i].old_line = frames[i].old_line /\ frames'[i].old_matchend = frames[i].old_matchend
           /\ i # k => frames'[i] = frames[i]
      /\ (frames'[k].ended <=> found) /\ (frames'[k].clipped <=> low)
  <2>1. found \in BOOLEAN /\ low \in BOOLEAN
    OBVIOUS
  <2>2. frames' = WithTop([Current EXCEPT !.ended = found, !.clipped = low])
    BY <1>1
  <2>i. ~Idle
    BY <1>1
  <2>. HIDE DEF found, low
  <2>3. Flagged(frames, WithTop([Current EXCEPT !.ended = found, !.clipped = low]), found, low)
    BY <2>i, <2>1, TopFlags
  <2>4. Len(frames) \in Nat \ {0}
    BY <2>i, TopFrame DEF Idle
  <2>. QED
    BY <2>2, <2>3, <2>4 DEF Flagged
<1>6. ~low
  BY DEF Plain
<1>7. LevelsAgree' /\ OpenHere' = OpenHere /\ Here' = Here
  <2>1. LevelsAgree
    BY DEF FInv
  <2>2. \A i \in 1 .. k : ~frames'[i].clipped
    <3>1. SUFFICES ASSUME NEW i \in 1 .. k PROVE ~frames'[i].clipped
      OBVIOUS
    <3>2. CASE i = k
      BY <1>5, <1>6, <3>2
    <3>3. CASE i # k
      <4>1. frames'[i] = frames[i]
        BY <1>5, <3>3
      <4>. QED
        BY <2>1, <4>1 DEF LevelsAgree
    <3>. QED
      BY <3>2, <3>3
  <2>. HIDE DEF ends, at, bound, found, low
  <2>3. LevelsAgree' /\ OpenHere' = OpenHere
    BY <1>1, <1>5, <2>1, <2>2, LevelsStill
  <2>. QED
    BY <2>3 DEF Here
<1>8. Current' = frames'[k] /\ Current = frames[k]
  <2>1. Current = frames[k]
    BY <1>1, TopFrame DEF Idle
  <2>2. Current' = frames'[Len(frames')]
    BY DEF Current, Last
  <2>. QED
    BY <1>5, <2>1, <2>2
<1>9. Seen(Current', matchend', str, gx) /\ (found => gx <= matchend'.s)
  <2>. DEFINE f == Current'  m == matchend'
  <2>1. f.level = Current.level /\ (f.ended <=> ends # {})
    BY <1>5, <1>8
  <2>2. ends = {p \in gx .. Len(str) - 1 : IsEnd(f.level, Token(str, p))}
    BY <2>1
  <2>3. m = IF ends = {} THEN [s |-> Least(gx + maxBlockSize, Len(str)), e |-> Least(gx + maxBlockSize, Len(str))]
            ELSE [s |-> CHOOSE p \in ends : \A q \in ends : p <= q,
                  e |-> (CHOOSE p \in ends : \A q \in ends : p <= q) + 1]
    BY <1>1
  <2>. HIDE DEF f, m, ends
  <2>4. Seen(f, m, str, gx) /\ (f.ended => gx <= m.s)
    BY <1>2, <1>4, <2>1, <2>2, <2>3, StartSees
  <2>. QED
    BY <2>1, <2>4 DEF f, m
<1>. HIDE DEF ends, at, bound, found, low
<1>10. Rebuilt' /\ Cached' /\ TrySame'
  <2>1. k > 1 => frames'[2].nodeP = frames[2].nodeP
    <3>1. k > 1 => 2 \in 1 .. k
      BY <1>5
    <3>. QED
      BY <1>5, <3>1
  <2>. QED
    BY <1>1, <1>5, <2>1, StillRebuilt, StillCached, StillSame DEF FInv
<1>11. TryCounts'
  BY <1>1, <1>7 DEF FInv, TryCounts, Trying
<1>12. Turn'
  <2>1. /\ call.line <= line /\ line <= stop /\ call.line < stop
        /\ \A i \in 2 .. k : call.line <= frames[i].old_line /\ frames[i].old_line <= line
    BY <1>1 DEF FInv, Turn, k
  <2>2. \A i \in 2 .. k : i \in 1 .. k
    BY <1>5
  <2>3. \A i \in 2 .. Len(frames') : call'.line <= frames'[i].old_line /\ frames'[i].old_line <= line'
    BY <1>1, <1>5, <2>1, <2>2
  <2>4. line # stop
    BY <1>1, BoundsAssumption DEF IInv, Typed
  <2>. QED
    BY <1>1, <2>1, <2>3, <2>4 DEF Turn
<1>13. Waits'
  <2>1. \A i \in 1 .. Len(frames) : i # Len(frames) => frames'[i].ended = frames[i].ended
    BY <1>5
  <2>. QED
    BY <1>1, <1>3, <1>4, <1>5, <2>1, WaitsOn
<1>14. handler' = BlocksOf(OpenHere)
  <2>1. CASE filled
    BY <1>1, <1>3, <2>1
  <2>2. CASE ~filled
    <3>1. Len(frames) = 1
      BY <1>1, <2>2 DEF FInv, Turn
    <3>. QED
      BY <1>1, <2>2, <3>1, OneFrame
  <2>. QED
    BY <2>1, <2>2
<1>15. Place_content'
  <2>1. At(gx, Here)' /\ Least(gx, Len(str)) = gx
    BY <1>1, <1>2, <1>3, <1>4, <1>7 DEF At, Least
  <2>2. ~(Current'.ended /\ gx > matchend'.s)
    <3>1. matchend'.s \in Nat
      BY DEF IInv, Typed, Spans
    <3>. QED
      BY <1>4, <1>5, <1>8, <1>9, <3>1
  <2>3. gx <= Len(str) + 1
    BY <1>2, <1>4
  <2>. QED
    BY <1>1, <1>2, <1>9, <2>1, <2>2, <2>3 DEF Place_content
<1>16. Follows'
  BY <1>1, <1>7, <1>13, <1>14, <1>15 DEF Follows
<1>. QED
  BY <1>1, <1>7, <1>10, <1>11, <1>12, <1>16 DEF FInv

(* What is known in the middle of a line.                                  *)
LEMMA ContentIs ==
  ASSUME IInv, FInv, pc = "content"
  PROVE  /\ ~Idle /\ line < stop /\ line # stop /\ line \in Lines /\ line \in Nat /\ stop \in Nat
         /\ str \in Seq(Tokens) /\ Len(str) \in Nat /\ str \in Contents
         /\ gx \in Nat /\ matchend \in Spans /\ matchend.s \in Nat /\ matchend.e \in Nat
         /\ len = Len(str) /\ filled /\ clearLine = line /\ endLine = line
         /\ gx <= Len(str) + 1 /\ Seen(Current, matchend, str, gx) /\ matchend.s <= Len(str)
         /\ Current \in Frames /\ Current = frames[Len(frames)] /\ Len(frames) \in Nat \ {0}
         /\ frames \in Seq(Frames)
         /\ Waits /\ handler = BlocksOf(OpenHere) /\ LevelsAgree
         /\ Current.ended /\ gx > matchend.s =>
              gx = matchend.e /\ OpenHere # <<>> /\ At(gx, Front(Here))
         /\ ~(Current.ended /\ gx > matchend.s) => At(Least(gx, Len(str)), Here)
         /\ gx <= matchend.s => gx <= Len(str) /\ At(gx, Here)
<1>1. ~Idle /\ line < stop
  BY DEF Idle, IInv, Control
<1>2. line \in Lines /\ str \in Seq(Tokens) /\ Len(str) \in Nat /\ str \in Contents
  <2>1. line \in Lines /\ str \in Seq(Tokens) /\ Len(str) \in Nat
    BY <1>1, BoundsAssumption, TokensAssumption, StrIs
  <2>. QED
    BY <2>1 DEF str, IInv, Typed
<1>3. gx \in Nat /\ matchend \in Spans /\ matchend.s \in Nat /\ matchend.e \in Nat
  BY DEF IInv, Typed, Spans
<1>4. Current \in Frames /\ Current = frames[Len(frames)] /\ Len(frames) \in Nat \ {0} /\ frames \in Seq(Frames)
  BY <1>1, TopFrame DEF Idle
<1>5. LevelsAgree /\ Turn /\ Follows
  BY <1>1 DEF FInv
<1>6. len = Len(str)
  <2>1. ~Current.clipped
    BY <1>4, <1>5 DEF LevelsAgree
  <2>. QED
    BY <2>1 DEF len
<1>7. filled /\ clearLine = line /\ endLine = line
  BY <1>1, <1>5 DEF Turn
<1>8. Place_content /\ Waits /\ handler = BlocksOf(OpenHere)
  BY <1>1, <1>5, <1>7 DEF Follows
<1>9. gx <= Len(str) + 1 /\ Seen(Current, matchend, str, gx) /\ matchend.s <= Len(str)
      /\ (Current.ended /\ gx > matchend.s =>
              gx = matchend.e /\ OpenHere # <<>> /\ At(gx, Front(Here)))
      /\ (~(Current.ended /\ gx > matchend.s) => At(Least(gx, Len(str)), Here))
  BY <1>8 DEF Place_content, Seen
<1>10. gx <= matchend.s => gx <= Len(str) /\ At(gx, Here)
  <2>1. ASSUME gx <= matchend.s PROVE gx <= Len(str) /\ Least(gx, Len(str)) = gx /\ ~(gx > matchend.s)
    BY <1>2, <1>3, <1>9, <2>1 DEF Least
  <2>. QED
    BY <1>9, <2>1
<1>11. line # stop /\ line \in Nat /\ stop \in Nat
  BY <1>1, BoundsAssumption DEF IInv, Typed
<1>. QED
  BY <1>1, <1>2, <1>3, <1>4, <1>5, <1>6, <1>7, <1>8, <1>9, <1>10, <1>11

(* A step within the line that leaves all but gx, pc and what is cut.      *)
LEMMA WithinLine ==
  ASSUME IInv, IInv', FInv, pc = "content", pc' \in {"line", "content"}, gx <= gx',
         frames' = WithTop([Current EXCEPT !.clipped = FALSE]),
         UNCHANGED <<text, edits, valid, tree, call, line, stop, clearLine, endLine, matchend,
                     parent, filled, breakParsing, gone, handler, expected, tryStack, tryMismatch>>,
         pc' = "line" => Place_line',
         pc' = "content" => Place_content'
  PROVE  FInv'
<1>1. /\ ~Idle /\ ~Idle' /\ line < stop /\ filled /\ clearLine = line /\ endLine = line /\ line # stop
      /\ Waits /\ handler = BlocksOf(OpenHere) /\ LevelsAgree /\ Turn /\ TryCounts
  BY ContentIs DEF Idle, FInv
<1>2. /\ frames' \in Seq(Frames) /\ Len(frames') = Len(frames) /\ Len(frames) \in Nat \ {0}
      /\ \A i \in 1 .. Len(frames) :
              /\ frames'[i].level = frames[i].level /\ frames'[i].nodeP = frames[i].nodeP
              /\ frames'[i].old_line = frames[i].old_line /\ frames'[i].old_matchend = frames[i].old_matchend
              /\ frames'[i].ended = frames[i].ended
              /\ i # Len(frames) => frames'[i] = frames[i]
      /\ ~frames'[Len(frames)].clipped
  <2>. DEFINE hs == frames'
  <2>1. hs = WithTop([Current EXCEPT !.clipped = FALSE])
    OBVIOUS
  <2>. HIDE DEF hs
  <2>2. /\ hs \in Seq(Frames) /\ Len(hs) = Len(frames) /\ Len(frames) \in Nat \ {0}
        /\ \A i \in 1 .. Len(frames) :
              /\ hs[i].level = frames[i].level /\ hs[i].nodeP = frames[i].nodeP
              /\ hs[i].old_line = frames[i].old_line /\ hs[i].old_matchend = frames[i].old_matchend
              /\ hs[i].ended = frames[i].ended
              /\ i # Len(frames) => hs[i] = frames[i]
        /\ ~hs[Len(frames)].clipped
    BY <1>1, <2>1, TopUncut
  <2>. QED
    BY <2>2 DEF hs
<1>3. LevelsAgree' /\ OpenHere' = OpenHere
  <2>1. \A i \in 1 .. Len(frames) : ~frames'[i].clipped
    <3>1. \A i \in 1 .. Len(frames) : ~frames[i].clipped
      BY <1>1 DEF LevelsAgree
    <3>. QED
      BY <1>2, <3>1
  <2>. QED
    BY <1>1, <1>2, <2>1, LevelsStill
<1>4. Rebuilt' /\ Cached' /\ TrySame'
  <2>1. Len(frames) > 1 => frames'[2].nodeP = frames[2].nodeP
    <3>1. Len(frames) > 1 => 2 \in 1 .. Len(frames)
      BY <1>2
    <3>. QED
      BY <1>2, <3>1
  <2>. QED
    BY <1>1, <1>2, <2>1, StillRebuilt, StillCached, StillSame DEF FInv
<1>5. TryCounts'
  BY <1>1, <1>3 DEF TryCounts, Trying
<1>6. Turn'
  <2>1. \A i \in 2 .. Len(frames) : i \in 1 .. Len(frames)
    BY <1>2
  <2>2. \A i \in 2 .. Len(frames') : call'.line <= frames'[i].old_line /\ frames'[i].old_line <= line'
    BY <1>1, <1>2, <2>1 DEF Turn
  <2>. QED
    BY <1>1, <1>2, <2>2 DEF Turn
<1>7. Waits'
  BY <1>1, <1>2, WaitsOn DEF IInv, Typed
<1>8. Follows'
  BY <1>1, <1>3, <1>7 DEF Follows
<1>. QED
  BY <1>1, <1>3, <1>4, <1>5, <1>6, <1>8 DEF FInv

(* The innermost level is the one the activation looks for the end of.     *)
LEMMA EndHere ==
  ASSUME IInv, LevelsAgree, ~Idle
  PROVE  /\ InnerOf(Here).block = Current.level.block
         /\ \A t : IsEnd(InnerOf(Here), t) <=> IsEnd(Current.level, t)
         /\ OpenHere = <<>> => Current.level.block = Top
<1>1. InnerOf(Here) = SigOf(Current.level) /\ OpenHere \in Seq(Levels)
  BY InnerHere
<1>2. InnerOf(Here).block = Current.level.block /\ InnerOf(Here).tag = Current.level.tag
  BY <1>1 DEF SigOf
<1>3. \A t : IsEnd(InnerOf(Here), t) <=> IsEnd(Current.level, t)
  BY <1>2 DEF IsEnd
<1>4. OpenHere = <<>> => Current.level.block = Top
  <2>1. SUFFICES ASSUME OpenHere = <<>> PROVE Current.level.block = Top
    OBVIOUS
  <2>2. Here = <<>>
    <3>1. Sig(OpenHere) = <<>>
      BY <1>1, <2>1, SigIs
    <3>. QED
      BY <3>1 DEF Here
  <2>3. InnerOf(Here).block = Top
    BY <2>2 DEF InnerOf, SigOf, None
  <2>. QED
    BY <1>2, <2>3
<1>. QED
  BY <1>2, <1>3, <1>4

(* A regexp that takes two tokens.                                         *)
LEMMA MatchRegexpTrue ==
  ASSUME Plain, IInv, IInv', FInv, MatchRegexp
  PROVE  FInv'
<1>1. /\ pc = "content" /\ gx <= matchend.s /\ gx + 1 < hiLen
      /\ StartsAt(Current.level.block, str, gx, schemeStart) = {} /\ Token(str, gx) \in Wide
      /\ gx' = gx + 2 /\ pc' = IF matchend.s < gx' THEN "line" ELSE "content"
      /\ frames' = WithTop([Current EXCEPT !.clipped = FALSE])
      /\ UNCHANGED <<text, edits, valid, tree, call, line, stop, clearLine, endLine, matchend,
                     parent, filled, breakParsing, gone, handler, expected, tryStack, tryMismatch>>
  BY DEF MatchRegexp, Searching, client, tries
<1>2. /\ ~Idle /\ line < stop /\ str \in Seq(Tokens) /\ Len(str) \in Nat /\ len = Len(str)
      /\ gx \in Nat /\ matchend \in Spans /\ matchend.s \in Nat /\ matchend.s <= Len(str)
      /\ LevelsAgree /\ Seen(Current, matchend, str, gx) /\ At(gx, Here)
      /\ Current = frames[Len(frames)] /\ Len(frames) \in Nat \ {0}
  BY <1>1, ContentIs
<1>3. gx + 1 < Len(str)
  <2>. DEFINE n == Len(str)
  <2>1. hiLen = Least(matchend.s + maxBlockSize, n) /\ n \in Nat /\ gx + 1 < hiLen
    BY <1>1, <1>2 DEF hiLen
  <2>. HIDE DEF n
  <2>2. gx + 1 < n
    BY <1>2, <2>1, BoundsAssumption DEF Least
  <2>. QED
    BY <2>2 DEF n
<1>4. StartsAt(InnerOf(Here).block, str, gx, -1) = {}
  <2>1. InnerOf(Here).block = Current.level.block
    BY <1>2, EndHere
  <2>2. AtStart = {}
    BY DEF Plain
  <2>3. StartsAt(Current.level.block, str, gx, -1) = StartsAt(Current.level.block, str, gx, schemeStart)
    BY <2>2, AnyStart
  <2>. QED
    BY <1>1, <2>1, <2>3
<1>5. At(gx + 2, Here)
  <2>. DEFINE start == Stack(text, line)  s == str  open == Here
  <2>1. Reaches(start, s, gx, open) /\ gx + 1 < Len(s) /\ StartsAt(InnerOf(open).block, s, gx, -1) = {}
        /\ Token(s, gx) \in Wide /\ s \in Seq(Tokens)
    BY <1>1, <1>2, <1>3, <1>4 DEF At
  <2>. HIDE DEF start, s, open
  <2>2. Reaches(start, s, gx + 2, open)
    BY <2>1, ReachWide
  <2>. QED
    BY <2>2 DEF At, start, s, open
<1>6. /\ Current'.level = Current.level /\ Current'.ended = Current.ended /\ Here' = Here
      /\ OpenHere' = OpenHere
  <2>. DEFINE hs == frames'
  <2>1. hs = WithTop([Current EXCEPT !.clipped = FALSE])
    BY <1>1
  <2>. HIDE DEF hs
  <2>2. /\ Len(hs) = Len(frames)
        /\ \A i \in 1 .. Len(frames) :
              /\ hs[i].level = frames[i].level /\ hs[i].nodeP = frames[i].nodeP
              /\ hs[i].ended = frames[i].ended
              /\ i # Len(frames) => hs[i] = frames[i]
        /\ ~hs[Len(frames)].clipped
    BY <1>2, <2>1, TopUncut
  <2>3. Current' = hs[Len(frames)] /\ Len(frames) \in 1 .. Len(frames)
    BY <1>2, <2>2 DEF Current, Last, hs
  <2>4. \A i \in 1 .. Len(frames) : ~hs[i].clipped
    <3>1. \A i \in 1 .. Len(frames) : ~frames[i].clipped
      BY <1>2 DEF LevelsAgree
    <3>. QED
      BY <2>2, <3>1
  <2>5. ~Idle'
    BY <1>1 DEF Idle
  <2>6. OpenHere' = OpenHere
    BY <1>1, <1>2, <2>2, <2>4, <2>5, LevelsStill DEF hs
  <2>. QED
    BY <1>2, <2>2, <2>3, <2>6 DEF Here
<1>7. str' = str
  BY <1>1 DEF str
<1>8. pc' = "line" => Place_line'
  BY <1>1, <1>5, <1>6, <1>7 DEF Place_line, At
<1>9. pc' = "content" => Place_content'
  <2>1. SUFFICES ASSUME pc' = "content" PROVE Place_content'
    OBVIOUS
  <2>2. gx' <= matchend.s /\ gx <= gx' /\ gx' \in Nat
    BY <1>1, <1>2, <2>1
  <2>3. Seen(Current', matchend, str, gx')
    <3>. DEFINE f == Current  h == Current'
    <3>1. h.level = f.level /\ h.ended = f.ended /\ Seen(f, matchend, str, gx)
      BY <1>2, <1>6
    <3>. HIDE DEF f, h
    <3>2. Seen(h, matchend, str, gx')
      BY <1>2, <2>2, <3>1, SeenOn
    <3>. QED
      BY <3>2 DEF h
  <2>4. gx' <= Len(str) /\ Least(gx', Len(str)) = gx' /\ ~(gx' > matchend.s)
    BY <1>2, <2>2 DEF Least
  <2>5. gx' <= Len(str) + 1
    BY <1>2, <2>2, <2>4
  <2>. QED
    BY <1>1, <1>5, <1>6, <1>7, <2>3, <2>4, <2>5 DEF Place_content, At
<1>10. pc' \in {"line", "content"} /\ gx <= gx'
  BY <1>1, <1>2
<1>. QED
  BY <1>1, <1>8, <1>9, <1>10, WithinLine

(* A token of the line that starts nothing, and no regexp takes.           *)
LEMMA MatchNothingTrue ==
  ASSUME Plain, IInv, IInv', FInv, MatchNothing
  PROVE  FInv'
<1>1. /\ pc = "content" /\ gx <= matchend.s
      /\ gx < hiLen => StartsAt(Current.level.block, str, gx, schemeStart) = {}
      /\ gx + 1 < hiLen => Token(str, gx) \notin Wide
      /\ gx' = gx + 1 /\ pc' = "content"
      /\ frames' = WithTop([Current EXCEPT !.clipped = FALSE])
      /\ UNCHANGED <<text, edits, valid, tree, call, line, stop, clearLine, endLine, matchend,
                     parent, filled, breakParsing, gone, handler, expected, tryStack, tryMismatch>>
  BY DEF MatchNothing, Searching, client, tries
<1>2. /\ ~Idle /\ line < stop /\ str \in Seq(Tokens) /\ Len(str) \in Nat /\ len = Len(str)
      /\ gx \in Nat /\ matchend \in Spans /\ matchend.s \in Nat /\ matchend.s <= Len(str)
      /\ LevelsAgree /\ Seen(Current, matchend, str, gx) /\ At(gx, Here) /\ gx <= Len(str)
      /\ Current = frames[Len(frames)] /\ Len(frames) \in Nat \ {0}
  BY <1>1, ContentIs
<1>3. gx < Len(str) => StartsAt(InnerOf(Here).block, str, gx, -1) = {}
  <2>. DEFINE n == Len(str)
  <2>1. hiLen = Least(matchend.s + maxBlockSize, n) /\ n \in Nat
    BY <1>2 DEF hiLen
  <2>. HIDE DEF n
  <2>2. gx < n => gx < hiLen
    BY <1>1, <1>2, <2>1, BoundsAssumption DEF Least
  <2>3. InnerOf(Here).block = Current.level.block
    BY <1>2, EndHere
  <2>4. AtStart = {}
    BY DEF Plain
  <2>5. StartsAt(Current.level.block, str, gx, -1) = StartsAt(Current.level.block, str, gx, schemeStart)
    BY <2>4, AnyStart
  <2>. QED
    BY <1>1, <2>2, <2>3, <2>5 DEF n
<1>4. ~(Token(str, gx) \in Wide /\ gx + 1 < Len(str))
  <2>. DEFINE n == Len(str)
  <2>1. hiLen = Least(matchend.s + maxBlockSize, n) /\ n \in Nat
    BY <1>2 DEF hiLen
  <2>2. Token(str, gx) \in Wide => maxBlockSize >= 2
    BY DEF Plain
  <2>. HIDE DEF n
  <2>3. maxBlockSize >= 2 /\ gx + 1 < n => gx + 1 < hiLen
    BY <1>1, <1>2, <2>1, BoundsAssumption DEF Least
  <2>. QED
    BY <1>1, <2>2, <2>3 DEF n
<1>5. /\ Current'.level = Current.level /\ Current'.ended = Current.ended /\ Here' = Here
      /\ OpenHere' = OpenHere
  <2>. DEFINE hs == frames'
  <2>1. hs = WithTop([Current EXCEPT !.clipped = FALSE])
    BY <1>1
  <2>. HIDE DEF hs
  <2>2. /\ Len(hs) = Len(frames)
        /\ \A i \in 1 .. Len(frames) :
              /\ hs[i].level = frames[i].level /\ hs[i].nodeP = frames[i].nodeP
              /\ hs[i].ended = frames[i].ended
              /\ i # Len(frames) => hs[i] = frames[i]
        /\ ~hs[Len(frames)].clipped
    BY <1>2, <2>1, TopUncut
  <2>3. Current' = hs[Len(frames)] /\ Len(frames) \in 1 .. Len(frames)
    BY <1>2, <2>2 DEF Current, Last, hs
  <2>4. \A i \in 1 .. Len(frames) : ~hs[i].clipped
    <3>1. \A i \in 1 .. Len(frames) : ~frames[i].clipped
      BY <1>2 DEF LevelsAgree
    <3>. QED
      BY <2>2, <3>1
  <2>5. ~Idle'
    BY <1>1 DEF Idle
  <2>6. OpenHere' = OpenHere
    BY <1>1, <1>2, <2>2, <2>4, <2>5, LevelsStill DEF hs
  <2>. QED
    BY <1>2, <2>2, <2>3, <2>6 DEF Here
<1>6. str' = str
  BY <1>1 DEF str
<1>7. Seen(Current', matchend, str, gx')
  <2>. DEFINE f == Current  h == Current'
  <2>1. h.level = f.level /\ h.ended = f.ended /\ Seen(f, matchend, str, gx)
    BY <1>2, <1>5
  <2>2. gx' \in Nat /\ gx <= gx'
    BY <1>1, <1>2
  <2>. HIDE DEF f, h
  <2>3. Seen(h, matchend, str, gx')
    BY <1>2, <2>1, <2>2, SeenOn
  <2>. QED
    BY <2>3 DEF h
<1>8. Place_content'
  <2>1. CASE gx = Len(str)
    <3>1. ~Current.ended
      BY <1>1, <1>2, <2>1 DEF Seen
    <3>2. Least(gx', Len(str)) = gx /\ gx' <= Len(str) + 1
      BY <1>1, <1>2, <2>1 DEF Least
    <3>. QED
      BY <1>1, <1>2, <1>5, <1>6, <1>7, <3>1, <3>2 DEF Place_content, At
  <2>2. CASE gx < Len(str) /\ Current.ended /\ gx = matchend.s
    <3>. DEFINE start == Stack(text, line)  s == str  open == Here
    <3>1. IsEnd(Current.level, Token(str, gx)) /\ matchend.e = gx + 1
      BY <1>2, <2>2 DEF Seen
    <3>2. IsEnd(InnerOf(open), Token(s, gx)) /\ OpenHere # <<>>
      <4>1. Current.level.block # Top
        BY <3>1 DEF IsEnd
      <4>. QED
        BY <1>2, <3>1, <4>1, EndHere
    <3>3. Reaches(start, s, gx, open) /\ gx < Len(s) /\ StartsAt(InnerOf(open).block, s, gx, -1) = {}
          /\ ~(Token(s, gx) \in Wide /\ gx + 1 < Len(s)) /\ s \in Seq(Tokens)
      BY <1>2, <1>3, <1>4, <2>2 DEF At
    <3>. HIDE DEF start, s, open
    <3>4. Reaches(start, s, gx + 1, Front(open))
      BY <3>2, <3>3, ReachEnd
    <3>5. At(gx + 1, Front(Here))
      BY <3>4 DEF At, start, s, open
    <3>6. gx' > matchend.s /\ gx' <= Len(str) + 1 /\ gx' = matchend.e
      BY <1>1, <1>2, <2>2, <3>1
    <3>. QED
      BY <1>1, <1>5, <1>6, <1>7, <2>2, <3>2, <3>5, <3>6 DEF Place_content, At
  <2>3. CASE gx < Len(str) /\ ~(Current.ended /\ gx = matchend.s)
    <3>. DEFINE start == Stack(text, line)  s == str  open == Here
    <3>1. ~IsEnd(Current.level, Token(str, gx))
      <4>. DEFINE n == Len(str)
      <4>1. n \in Nat /\ gx < n
        BY <1>2, <2>3
      <4>2. Current.ended => \A p \in gx .. matchend.s - 1 : ~IsEnd(Current.level, Token(str, p))
        BY <1>2 DEF Seen
      <4>3. ~Current.ended => \A p \in gx .. n - 1 : ~IsEnd(Current.level, Token(str, p))
        BY <1>2 DEF Seen
      <4>. HIDE DEF n
      <4>4. gx \in gx .. n - 1
        BY <1>2, <4>1
      <4>5. Current.ended => gx \in gx .. matchend.s - 1
        BY <1>1, <1>2, <2>3
      <4>. QED
        BY <4>2, <4>3, <4>4, <4>5
    <3>2. ~IsEnd(InnerOf(open), Token(s, gx))
      BY <1>2, <3>1, EndHere
    <3>3. Reaches(start, s, gx, open) /\ gx < Len(s) /\ StartsAt(InnerOf(open).block, s, gx, -1) = {}
          /\ ~(Token(s, gx) \in Wide /\ gx + 1 < Len(s)) /\ s \in Seq(Tokens)
      BY <1>2, <1>3, <1>4, <2>3 DEF At
    <3>. HIDE DEF start, s, open
    <3>4. Reaches(start, s, gx + 1, open)
      BY <3>2, <3>3, ReachOver
    <3>5. At(gx + 1, Here)
      BY <3>4 DEF At, start, s, open
    <3>6. Least(gx', Len(str)) = gx + 1 /\ gx' <= Len(str) + 1
      BY <1>1, <1>2, <2>3 DEF Least
    <3>7. ~(Current.ended /\ gx' > matchend.s)
      BY <1>1, <1>2, <2>3
    <3>. QED
      BY <1>1, <1>5, <1>6, <1>7, <3>5, <3>6, <3>7 DEF Place_content, At
  <2>. QED
    BY <1>2, <2>1, <2>2, <2>3
<1>9. pc' \in {"line", "content"} /\ gx <= gx' /\ pc' # "line"
  BY <1>1, <1>2
<1>. QED
  BY <1>1, <1>8, <1>9, WithinLine

(* One line on, in levels that are those of the text.                      *)
LEMMA RebuiltLine ==
  ASSUME IInv, OInv, Rebuilt, ~Idle, Here = Stack(text, line + 1), line \in Nat,
         UNCHANGED <<text, valid, tree, call, frames, parent>>, line' = line + 1
  PROVE  Rebuilt'
<1>1. CASE ~Updating
  BY <1>1 DEF Rebuilt, Updating
<1>2. CASE Updating
  <2>1. /\ call.line = valid /\ Base(parent, frames) \in Above(tree, parent)
        /\ \A n \in Above(tree, parent) : call.line <= tree[n].eline
        /\ Tips(text, tree, parent, Base(parent, frames), call.line, line)
    BY <1>2 DEF Rebuilt
  <2>2. Rising(tree, parent, forward, frames, line)
    BY <1>2 DEF OInv
  <2>3. GoodTree(tree) /\ parent \in DOMAIN tree /\ Spine(tree, frames, parent, forward)
    BY <1>2 DEF IInv, Standing, Idle
  <2>4. EndsIn(tree, parent, forward) /\ Sorted(tree) /\ (forward = Nil \/ tree[forward].eline <= line)
    BY <2>2, <2>3 DEF Rising, Spine
  <2>5. tree[parent].sline <= line + 1
    <3>. DEFINE k == Len(frames)
    <3>1. k \in Nat \ {0}
      BY TopFrame DEF Idle
    <3>2. tree[parent].sline \in Int
      BY <2>3 DEF GoodTree, LineOf
    <3>3. CASE k = 1
      <4>1. tree[parent].sline <= line
        BY <2>2, <3>3 DEF Rising, Base
      <4>. QED
        BY <3>2, <4>1
    <3>4. CASE k > 1
      <4>1. k \in 2 .. k /\ parent = frames[k].node
        BY <2>3, <3>1, <3>4 DEF Spine
      <4>2. frames[k].old_line <= line /\ tree[frames[k].node].sline = frames[k].old_line + 1
        BY <2>2, <4>1 DEF Rising
      <4>3. frames[k].old_line \in Int
        <5>1. frames \in Seq(Frames) /\ k \in 1 .. k
          BY <3>1, TopFrame DEF Idle
        <5>2. frames[k] \in Frames
          BY <5>1
        <5>. QED
          BY <5>2, BoundsAssumption DEF Frames
      <4>. HIDE DEF k
      <4>. QED
        BY <4>1, <4>2, <4>3
    <3>5. k = 1 \/ k > 1
      <4>. HIDE DEF k
      <4>. QED
        BY <3>1
    <3>. QED
      BY <3>3, <3>4, <3>5
  <2>6. Sig(OpenLevels(tree, parent)) = Stack(text, line + 1)
    BY <1>2 DEF Here, OpenHere
  <2>7. Tips(text, tree, parent, Base(parent, frames), call.line, line + 1)
    <3>. DEFINE T == tree  p == parent  f == forward  b == Base(parent, frames)  tx == text
                ln == line  from == call.line
    <3>1. /\ GoodTree(T) /\ Sorted(T) /\ p \in DOMAIN T /\ EndsIn(T, p, f) /\ ln \in Nat
          /\ f = Nil \/ T[f].eline <= ln
      BY <2>3, <2>4
    <3>2. T[p].sline <= ln + 1 /\ b \in Above(T, p) /\ Tips(tx, T, p, b, from, ln)
      BY <2>1, <2>5
    <3>3. Sig(OpenLevels(T, p)) = Stack(tx, ln + 1)
      BY <2>6
    <3>. HIDE DEF T, p, f, b, tx, ln, from
    <3>4. Tips(tx, T, p, b, from, ln + 1)
      BY <3>1, <3>2, <3>3, TipsLine
    <3>. QED
      BY <3>4 DEF T, p, b, tx, ln, from
  <2>8. Base(parent', frames') = Base(parent, frames)
    BY DEF Base
  <2>. QED
    BY <2>1, <2>7, <2>8 DEF Rebuilt
<1>. QED
  BY <1>1, <1>2

(* The turn of the loop is over.                                           *)
LEMMA ContentOverTrue ==
  ASSUME Plain, IInv, IInv', OInv, FInv, ContentOver
  PROVE  FInv'
<1>1. /\ pc = "content" /\ gx > matchend.s /\ EndLine(line)
      /\ UNCHANGED <<text, edits, valid, tree, call, frames, matchend, stop, clearLine, endLine,
                     parent, filled, breakParsing, gone, handler, expected>>
  BY DEF ContentOver, client
<1>2. /\ ~Idle /\ line < stop /\ line # stop /\ line \in Lines /\ line \in Nat /\ stop \in Nat
      /\ str \in Seq(Tokens) /\ Len(str) \in Nat /\ gx \in Nat /\ matchend.s \in Nat
      /\ len = Len(str) /\ filled /\ clearLine = line /\ endLine = line
      /\ Seen(Current, matchend, str, gx) /\ Len(frames) \in Nat \ {0}
      /\ Waits /\ handler = BlocksOf(OpenHere) /\ LevelsAgree
      /\ Current.ended => gx = matchend.e /\ OpenHere # <<>> /\ At(gx, Front(Here))
      /\ ~Current.ended => At(Least(gx, Len(str)), Here)
  BY <1>1, ContentIs
<1>3. TryCounts /\ Turn /\ Rebuilt /\ Cached /\ TrySame /\ ~breakParsing /\ ~gone
  BY <1>2 DEF FInv
<1>4. OpenHere \in Seq(Levels)
  BY <1>2, InnerHere
<1>5. pc' \in {"line", "return"} /\ ~Idle'
  BY <1>1 DEF EndLine, Leave, Idle
<1>6. LevelsAgree' /\ OpenHere' = OpenHere /\ Here' = Here
  <2>1. \A i \in 1 .. Len(frames) :
          /\ frames'[i].level = frames[i].level /\ frames'[i].nodeP = frames[i].nodeP /\ ~frames'[i].clipped
    BY <1>1, <1>2 DEF LevelsAgree
  <2>2. LevelsAgree' /\ OpenHere' = OpenHere
    BY <1>1, <1>2, <1>5, <2>1, LevelsStill
  <2>. QED
    BY <2>2 DEF Here
<1>7. Cached' /\ TrySame'
  BY <1>1, <1>3, StillCached, StillSame
<1>8. CASE Current.ended
  <2>1. /\ line' = line /\ pc' = "return" /\ UNCHANGED gx
        /\ IF Trying /\ Len(frames) = 1 /\ Current.level.block # Top
           THEN /\ tryMismatch' = (tryMismatch \/ tryStack = <<>>)
                /\ tryStack' = IF tryStack = <<>> THEN <<>> ELSE Front(tryStack)
           ELSE UNCHANGED <<tryStack, tryMismatch>>
    BY <1>1, <1>8 DEF EndLine, Leave
  <2>2. Rebuilt'
    BY <1>1, <1>2, <1>3, <2>1, StillRebuilt
  <2>3. Turn'
    BY <1>1, <1>2, <1>3, <2>1 DEF Turn
  <2>4. Waits' /\ Place_return'
    <3>1. str' = str
      BY <1>1, <2>1 DEF str
    <3>2. Waits'
      BY <1>1, <1>2, <2>1, <3>1 DEF Waits
    <3>3. Place_return'
      BY <1>1, <1>2, <1>6, <1>8, <2>1, <3>1 DEF Place_return, At
    <3>. QED
      BY <3>2, <3>3
  <2>5. TryCounts'
    <3>1. CASE ~Trying
      BY <1>1, <3>1 DEF TryCounts, Trying
    <3>2. CASE Trying
      <4>1. tryStack = OpenHere /\ ~tryMismatch /\ \A i \in 1 .. Len(tryStack) : Proper(tryStack[i])
        BY <1>1, <1>2, <1>3, <3>2 DEF TryCounts
      <4>2. CASE Len(frames) = 1
        <5>1. Current.level.block # Top
          BY <1>2, <1>8 DEF Seen, IsEnd
        <5>2. tryStack' = Front(OpenHere) /\ ~tryMismatch'
          BY <1>2, <1>8, <2>1, <3>2, <4>1, <4>2, <5>1
        <5>3. \A i \in 1 .. Len(tryStack') : Proper(tryStack'[i])
          <6>. DEFINE w == OpenHere
          <6>1. w \in Seq(Levels) /\ w # <<>>
            BY <1>2, <1>4, <1>8
          <6>2. \A i \in 1 .. Len(w) : Proper(w[i])
            BY <4>1
          <6>. HIDE DEF w
          <6>3. Len(Front(w)) = Len(w) - 1 /\ Len(w) \in Nat /\ \A i \in 1 .. Len(w) - 1 : Front(w)[i] = w[i]
            BY <6>1, FrontElements
          <6>4. \A i \in 1 .. Len(Front(w)) : Proper(Front(w)[i])
            <7>1. \A i \in 1 .. Len(w) - 1 : i \in 1 .. Len(w)
              BY <6>3
            <7>. QED
              BY <6>2, <6>3, <7>1
          <6>. QED
            BY <5>2, <6>4 DEF w
        <5>. QED
          BY <1>1, <1>2, <1>6, <2>1, <4>2, <5>2, <5>3 DEF TryCounts
      <4>3. CASE Len(frames) # 1
        <5>1. UNCHANGED <<tryStack, tryMismatch>>
          BY <2>1, <4>3
        <5>. QED
          BY <1>1, <1>2, <1>6, <2>1, <4>1, <4>3, <5>1 DEF TryCounts
      <4>. QED
        BY <4>2, <4>3
    <3>. QED
      BY <3>1, <3>2
  <2>6. Follows'
    BY <1>1, <1>2, <1>6, <2>1, <2>4 DEF Follows
  <2>. QED
    BY <1>1, <1>3, <1>5, <1>6, <1>7, <2>2, <2>3, <2>5, <2>6 DEF FInv
<1>9. CASE ~Current.ended
  <2>1. pc' = "line" /\ UNCHANGED <<tryStack, tryMismatch>>
    BY <1>1, <1>9 DEF EndLine
  <2>2. At(Least(gx, Len(str)), Here)
    BY <1>2, <1>9
  <2>3. CASE MoreOfLine
    <3>1. line' = line /\ UNCHANGED gx
      BY <1>1, <1>9, <2>3 DEF EndLine
    <3>2. Rebuilt'
      BY <1>1, <1>2, <1>3, <3>1, StillRebuilt
    <3>3. Turn'
      BY <1>1, <1>2, <1>3, <3>1, <2>1 DEF Turn
    <3>4. Waits' /\ Place_line'
      <4>1. str' = str
        BY <1>1, <3>1 DEF str
      <4>2. Waits'
        BY <1>1, <1>2, <3>1, <4>1 DEF Waits
      <4>3. Least(gx, Len(str)) = gx
        BY <1>2, <2>3 DEF MoreOfLine, Least
      <4>. QED
        BY <1>1, <1>6, <2>2, <3>1, <4>1, <4>2, <4>3 DEF Place_line, At
    <3>5. TryCounts'
      BY <1>1, <1>2, <1>3, <1>6, <2>1, <3>1 DEF TryCounts, Trying
    <3>6. Follows'
      BY <1>1, <1>2, <1>6, <2>1, <3>1, <3>4 DEF Follows
    <3>. QED
      BY <1>1, <1>3, <1>5, <1>6, <1>7, <3>2, <3>3, <3>5, <3>6 DEF FInv
  <2>4. CASE ~MoreOfLine
    <3>1. line' = line + 1 /\ gx' = 0
      BY <1>1, <1>9, <2>4 DEF EndLine
    <3>2. Stack(text, line + 1) = Here
      <4>. DEFINE n == Len(str)
      <4>1. n \in Nat /\ (chunkLongLines => gx >= n)
        BY <1>2, <2>4 DEF MoreOfLine
      <4>2. chunkLongLines \/ matchend.s = n
        BY <1>2, <1>9 DEF Seen
      <4>. HIDE DEF n
      <4>3. matchend.s = n => gx >= n
        BY <1>1, <1>2, <4>1
      <4>4. gx >= n
        BY <4>1, <4>2, <4>3
      <4>5. Least(gx, n) = n
        BY <1>2, <4>1, <4>4 DEF Least
      <4>6. At(Len(str), Here)
        BY <2>2, <4>5 DEF n
      <4>7. LineSig(Stack(text, line), str) = Here
        <5>. DEFINE start == Stack(text, line)  s == str  open == Here
        <5>1. Reaches(start, s, Len(s), open) /\ s \in Seq(Tokens)
          BY <1>2, <4>6 DEF At
        <5>. HIDE DEF start, s, open
        <5>2. LineSig(start, s) = open
          BY <5>1, ReachLine
        <5>. QED
          BY <5>2 DEF start, s, open
      <4>8. Stack(text, line + 1) = LineSig(Stack(text, line), text[line])
        <5>. DEFINE tx == text
        <5>1. tx \in [Lines -> Contents] /\ AtStart = {}
          BY DEF IInv, Typed, Plain
        <5>. HIDE DEF tx
        <5>2. \A l \in Lines : Stack(tx, l + 1) = LineSig(Stack(tx, l), tx[l])
          BY <5>1, StackIs, BoundsAssumption, TokensAssumption, BlocksAssumption
        <5>. QED
          BY <1>2, <5>2 DEF tx
      <4>. QED
        BY <4>7, <4>8 DEF str
    <3>3. Rebuilt'
      BY <1>1, <1>2, <1>3, <3>1, <3>2, RebuiltLine
    <3>4. Turn'
      <4>. DEFINE k == Len(frames)
      <4>1. frames \in Seq(Frames) /\ \A i \in 2 .. k : i \in 1 .. k
        BY <1>2, TopFrame DEF Idle
      <4>2. \A i \in 2 .. k : frames[i].old_line \in Nat
        <5>1. \A i \in 2 .. k : frames[i] \in Frames
          BY <4>1
        <5>2. \A f \in Frames : f.old_line \in Nat
          BY BoundsAssumption DEF Frames
        <5>. QED
          BY <5>1, <5>2
      <4>3. \A i \in 2 .. k : call.line <= frames[i].old_line /\ frames[i].old_line <= line
        BY <1>3 DEF Turn
      <4>4. call.line <= line /\ call.line < stop /\ call.line \in Nat
        BY <1>3, BoundsAssumption DEF Turn, IInv, Typed, Lines
      <4>. HIDE DEF k
      <4>5. \A i \in 2 .. k : call.line <= frames[i].old_line /\ frames[i].old_line <= line + 1
        BY <1>2, <4>2, <4>3
      <4>6. call.line <= line + 1 /\ line + 1 <= stop /\ (line + 1 = stop => line = stop - 1) /\ line # line + 1
        BY <1>2, <4>4
      <4>. QED
        BY <1>1, <1>2, <2>1, <3>1, <4>4, <4>5, <4>6 DEF Turn, k
    <3>5. Waits'
      <4>1. SUFFICES ASSUME NEW i \in 2 .. Len(frames), frames[i].old_line = line + 1 PROVE FALSE
        BY <1>1, <3>1 DEF Waits
      <4>2. frames[i].old_line <= line
        BY <1>3 DEF Turn
      <4>. QED
        BY <1>2, <4>1, <4>2
    <3>6. line' < stop' => Place_line'
      <4>1. SUFFICES ASSUME line' < stop' PROVE Place_line'
        OBVIOUS
      <4>2. line + 1 \in Lines
        BY <1>1, <1>2, <3>1, <4>1, BoundsAssumption DEF Lines, IInv, Typed
      <4>3. text[line + 1] \in Seq(Tokens)
        BY <4>2, TokensAssumption DEF IInv, Typed
      <4>4. Reaches(Stack(text, line + 1), text[line + 1], 0, Stack(text, line + 1))
        BY <4>3, ReachStart
      <4>5. str' = text[line + 1]
        BY <1>1, <3>1 DEF str
      <4>. QED
        BY <1>1, <1>6, <3>1, <3>2, <4>4, <4>5 DEF Place_line, At
    <3>7. TryCounts'
      <4>1. Trying => ~tryMismatch /\ tryStack = OpenHere /\ \A i \in 1 .. Len(tryStack) : Proper(tryStack[i])
        BY <1>1, <1>2, <1>3 DEF TryCounts
      <4>2. Trying /\ line + 1 = stop => Sig(tryStack) = Stack(text, stop)
        BY <3>2, <4>1 DEF Here
      <4>. QED
        BY <1>1, <1>6, <2>1, <3>1, <4>1, <4>2 DEF TryCounts, Trying
    <3>8. Follows'
      BY <1>1, <1>2, <1>6, <2>1, <3>1, <3>5, <3>6 DEF Follows
    <3>. QED
      BY <1>1, <1>3, <1>5, <1>6, <1>7, <3>3, <3>4, <3>7, <3>8 DEF FInv
  <2>. QED
    BY <2>3, <2>4
<1>. QED
  BY <1>8, <1>9

(* The schemes of levels, one by one.                                      *)
LEMMA BlocksOfIs ==
  ASSUME NEW v \in Seq(Levels)
  PROVE  /\ BlocksOf(v) \in Seq(Blocks) /\ Len(BlocksOf(v)) = Len(v)
         /\ \A i \in 1 .. Len(v) : BlocksOf(v)[i] = v[i].block
<1>1. DOMAIN v = 1 .. Len(v) /\ Len(v) \in Nat /\ \A i \in 1 .. Len(v) : v[i] \in Levels
  OBVIOUS
<1>2. BlocksOf(v) = [i \in 1 .. Len(v) |-> v[i].block]
  BY <1>1 DEF BlocksOf
<1>3. \A i \in 1 .. Len(v) : v[i].block \in Blocks
  BY <1>1 DEF Levels
<1>. QED
  BY <1>1, <1>2, <1>3

(* One scheme more.                                                        *)
LEMMA BlocksAppend ==
  ASSUME NEW levels \in Seq(Levels), NEW x \in Levels
  PROVE  BlocksOf(Append(levels, x)) = Append(BlocksOf(levels), x.block)
<1>. DEFINE t == Append(levels, x)  n == Len(levels)
<1>1. t \in Seq(Levels) /\ Len(t) = n + 1 /\ n \in Nat /\ t[n + 1] = x /\ \A i \in 1 .. n : t[i] = levels[i]
  BY AppendFrame
<1>2. \A v \in Seq(Levels) : /\ BlocksOf(v) \in Seq(Blocks) /\ Len(BlocksOf(v)) = Len(v)
                             /\ \A i \in 1 .. Len(v) : BlocksOf(v)[i] = v[i].block
  BY BlocksOfIs
<1>. HIDE DEF t
<1>. DEFINE u == BlocksOf(levels)  w == BlocksOf(t)
<1>3. /\ u \in Seq(Blocks) /\ Len(u) = n /\ \A i \in 1 .. n : u[i] = levels[i].block
      /\ w \in Seq(Blocks) /\ Len(w) = n + 1 /\ \A i \in 1 .. n + 1 : w[i] = t[i].block
  BY <1>1, <1>2
<1>. HIDE DEF u, w, n
<1>4. x.block \in Blocks
  BY DEF Levels
<1>5. LET v == Append(u, x.block) IN
      v \in Seq(Blocks) /\ Len(v) = n + 1 /\ v[n + 1] = x.block /\ \A i \in 1 .. n : v[i] = u[i]
  BY <1>3, <1>4, AppendFrame
<1>. DEFINE v == Append(u, x.block)
<1>6. v \in Seq(Blocks) /\ Len(v) = n + 1 /\ v[n + 1] = x.block /\ \A i \in 1 .. n : v[i] = u[i]
  BY <1>5
<1>. HIDE DEF v
<1>7. \A i \in 1 .. n + 1 : i \in 1 .. n \/ i = n + 1
  BY <1>1
<1>8. \A i \in 1 .. n : i \in 1 .. n + 1
  BY <1>1
<1>9. \A i \in 1 .. n + 1 : w[i] = v[i]
  <2>1. SUFFICES ASSUME NEW i \in 1 .. n + 1 PROVE w[i] = v[i]
    OBVIOUS
  <2>2. CASE i = n + 1
    BY <1>1, <1>3, <1>6, <2>2
  <2>3. CASE i \in 1 .. n
    BY <1>1, <1>3, <1>6, <1>8, <2>3
  <2>. QED
    BY <1>7, <2>2, <2>3
<1>10. w = v
  BY <1>3, <1>6, <1>9, SameSeq
<1>. QED
  BY <1>10 DEF w, t, v, u

(* One scheme less.                                                        *)
LEMMA BlocksFront ==
  ASSUME NEW levels \in Seq(Levels), levels # <<>>
  PROVE  BlocksOf(Front(levels)) = Front(BlocksOf(levels)) /\ BlocksOf(levels) # <<>>
<1>1. \A v \in Seq(Levels) : /\ BlocksOf(v) \in Seq(Blocks) /\ Len(BlocksOf(v)) = Len(v)
                             /\ \A i \in 1 .. Len(v) : BlocksOf(v)[i] = v[i].block
  BY BlocksOfIs
<1>. DEFINE t == Front(levels)  n == Len(levels)  u == BlocksOf(levels)
<1>2. t \in Seq(Levels) /\ Len(t) = n - 1 /\ n \in Nat \ {0} /\ \A i \in 1 .. n - 1 : t[i] = levels[i]
  BY FrontElements
<1>. HIDE DEF t
<1>. DEFINE w == BlocksOf(t)
<1>3. /\ u \in Seq(Blocks) /\ Len(u) = n /\ \A i \in 1 .. n : u[i] = levels[i].block
      /\ w \in Seq(Blocks) /\ Len(w) = n - 1 /\ \A i \in 1 .. n - 1 : w[i] = t[i].block
  BY <1>1, <1>2
<1>. HIDE DEF u, w, n
<1>4. u # <<>>
  BY <1>2, <1>3
<1>5. Front(u) \in Seq(Blocks) /\ Len(Front(u)) = Len(u) - 1 /\ \A i \in 1 .. Len(u) - 1 : Front(u)[i] = u[i]
  BY <1>3, <1>4, FrontElements
<1>. DEFINE v == Front(u)
<1>6. v \in Seq(Blocks) /\ Len(v) = n - 1 /\ \A i \in 1 .. n - 1 : v[i] = u[i]
  BY <1>3, <1>5
<1>. HIDE DEF v
<1>7. \A i \in 1 .. n - 1 : i \in 1 .. n
  BY <1>2
<1>8. \A i \in 1 .. n - 1 : w[i] = v[i]
  BY <1>2, <1>3, <1>6, <1>7
<1>9. w = v
  BY <1>3, <1>6, <1>8, SameSeq
<1>. QED
  BY <1>4, <1>9 DEF w, t, v, u

(* The tree that is rebuilt, with a node for the block.                    *)
LEMMA RebuiltBlock ==
  ASSUME Plain, IInv, IInv', Rebuilt, ~Idle, UNCHANGED <<text, valid, call, line>>, line \in Nat,
         Begun(frames, frames'), Updating => Grown(tree, parent, forward, parent', line + 1, tree'),
         Updating => frames'[Len(frames) + 1].nodeP = parent,
         Updating => \A n \in DOMAIN tree : tree'[n].level = tree[n].level
  PROVE  Rebuilt'
<1>1. CASE ~Updating
  BY <1>1 DEF Rebuilt, Updating
<1>2. CASE Updating
  <2>. DEFINE T == tree  R == tree'  p == parent  id == parent'  f == forward
              b == Base(parent, frames)  tx == text  ln == line  from == call.line
  <2>1. /\ from = valid /\ b \in Above(T, p) /\ \A n \in Above(T, p) : from <= T[n].eline
        /\ Tips(tx, T, p, b, from, ln)
    BY <1>2 DEF Rebuilt
  <2>2. Grown(T, p, f, id, ln + 1, R)
    BY <1>2
  <2>l. \A n \in DOMAIN T : R[n].level = T[n].level
    BY <1>2
  <2>3. R[id].eline = Unended /\ from <= Unended
    <3>1. from \in Lines
      BY DEF IInv, Typed
    <3>. QED
      BY <2>2, <3>1, BoundsAssumption DEF Grown, Unended, Lines
  <2>4. Base(parent', frames') = b
    <3>. DEFINE k == Len(frames)
    <3>1. k \in Nat \ {0} /\ Len(frames') = k + 1 /\ frames'[k + 1].nodeP = p
          /\ \A i \in 1 .. k : frames'[i].nodeP = frames[i].nodeP
      BY <1>2, TopFrame DEF Begun, Idle
    <3>2. b = IF k = 1 THEN p ELSE frames[2].nodeP
      BY DEF Base
    <3>3. Base(parent', frames') = IF k + 1 = 1 THEN id ELSE frames'[2].nodeP
      BY <3>1 DEF Base
    <3>. HIDE DEF k, b, id, p
    <3>4. k # 1 => 2 \in 1 .. k
      BY <3>1
    <3>. QED
      BY <3>1, <3>2, <3>3, <3>4
  <2>5. ln \in Nat
    OBVIOUS
  <2>6. T = tree /\ R = tree' /\ id = parent' /\ tx = text /\ ln = line /\ from = call.line
    OBVIOUS
  <2>. HIDE DEF T, R, p, id, f, b, tx, ln, from
  <2>7. /\ Tips(tx, R, id, b, from, ln) /\ Above(R, id) = {id} \cup Above(T, p)
        /\ \A n \in DOMAIN T : R[n].eline = T[n].eline
    <3>1. Tips(tx, T, p, b, from, ln)
      BY <2>1
    <3>2. Tips(tx, R, id, b, from, ln)
      BY <2>2, <2>l, <2>5, <3>1, TipsGrown
    <3>3. /\ IsTree(R, AllLevels) /\ p \in DOMAIN T /\ DOMAIN R = DOMAIN T \cup {id} /\ id \notin DOMAIN T
          /\ R[id].parent = p /\ GoodTree(T) /\ \A n \in DOMAIN T : R[n].eline = T[n].eline
      BY <2>2 DEF Grown, GoodTree
    <3>4. id \in DOMAIN R \ {RootId}
      <4>1. RootId \in DOMAIN T
        BY <3>3, GoodLevels
      <4>. QED
        BY <3>3, <4>1
    <3>5. Above(R, id) = {id} \cup Above(R, p)
      BY <3>3, <3>4, AboveIs
    <3>6. Pruned(AllLevels, R, T)
      BY <2>2, GrownPruned
    <3>7. Above(T, p) = Above(R, p)
      BY <3>3, <3>6, PrunedAbove
    <3>. QED
      BY <3>2, <3>3, <3>5, <3>7
  <2>8. \A n \in Above(R, id) : from <= R[n].eline
    <3>1. Above(T, p) \subseteq DOMAIN T
      BY DEF Above
    <3>. QED
      BY <2>1, <2>3, <2>7, <3>1
  <2>. QED
    BY <2>1, <2>4, <2>6, <2>7, <2>8 DEF Rebuilt
<1>. QED
  BY <1>1, <1>2

(* A block starts.                                                         *)
LEMMA MatchBlockTrue ==
  ASSUME Plain, IInv, IInv', FInv, MatchBlock, stackLevel <= MaxLevel
  PROVE  FInv'
<1>1. /\ Searching /\ gx < hiLen /\ BlocksHere # {} /\ line < stop /\ ~Idle /\ ~Idle'
      /\ gx' = gx + 1 /\ pc' = "line"
      /\ handler' = Append(handler, BlockHere)
      /\ tryStack' = IF Trying THEN Append(tryStack, LevelHere) ELSE tryStack
      /\ Begun(frames, frames')
      /\ Updating => /\ Grown(tree, parent, forward, parent', line + 1, tree')
                     /\ frames'[Len(frames) + 1].nodeP = parent
                     /\ \A n \in DOMAIN tree : tree'[n].level = tree[n].level
      /\ ~Updating => UNCHANGED <<tree, parent, forward>>
      /\ UNCHANGED <<text, edits, valid, call, line, matchend, stop, clearLine, endLine, filled,
                     breakParsing, gone, expected, tryMismatch>>
  BY MatchBlockDoes
<1>2. /\ pc = "content" /\ gx <= matchend.s
  BY <1>1 DEF Searching
<1>3. /\ line # stop /\ line \in Lines /\ line \in Nat /\ stop \in Nat
      /\ str \in Seq(Tokens) /\ Len(str) \in Nat /\ gx \in Nat /\ matchend \in Spans
      /\ filled /\ clearLine = line /\ endLine = line
      /\ Seen(Current, matchend, str, gx) /\ Len(frames) \in Nat \ {0} /\ frames \in Seq(Frames)
      /\ Current = frames[Len(frames)]
      /\ Waits /\ handler = BlocksOf(OpenHere) /\ LevelsAgree /\ At(gx, Here)
  BY <1>2, ContentIs
<1>4. TryCounts /\ Turn /\ Rebuilt /\ Cached /\ TrySame /\ ~breakParsing /\ ~gone
  BY <1>1 DEF FInv
<1>5. /\ LevelHere \in Levels /\ Proper(LevelHere) /\ LevelHere.at = gx /\ gx < Len(str)
      /\ LevelHere.block = BlockHere
  BY <1>1, LevelHereIs
<1>6. OpenHere \in Seq(Levels)
  BY <1>1, <1>3, InnerHere
<1>7. LevelsAgree' /\ OpenHere' = Append(OpenHere, LevelHere)
  BY <1>3, MatchBlockLevels
<1>8. Here' = Append(Here, SigOf(LevelHere))
  <2>. DEFINE w == OpenHere  x == LevelHere
  <2>1. w \in Seq(Levels) /\ x \in Levels
    BY <1>5, <1>6
  <2>. HIDE DEF w, x
  <2>2. Sig(Append(w, x)) = Append(Sig(w), SigOf(x))
    BY <2>1, SigAppend
  <2>. QED
    BY <1>7, <2>2 DEF w, x, Here
<1>9. str' = str
  BY <1>1 DEF str
<1>10. Place_line'
  <2>. DEFINE start == Stack(text, line)  s == str  open == Here  found == BlocksHere
  <2>1. Reaches(start, s, gx, open) /\ gx < Len(s) /\ found # {} /\ s \in Seq(Tokens)
    BY <1>1, <1>3, <1>5 DEF At
  <2>2. found = StartsAt(InnerOf(open).block, s, gx, -1)
    BY <1>1, <1>3, EndHere DEF BlocksHere
  <2>3. LevelHere = LevelAt(CHOOSE b \in found : TRUE, s, gx)
    BY DEF LevelHere, BlockHere
  <2>. HIDE DEF start, s, open, found
  <2>4. Reaches(start, s, gx + 1, Append(open, SigOf(LevelAt(CHOOSE b \in found : TRUE, s, gx))))
    BY <2>1, <2>2, ReachBlock
  <2>5. Reaches(start, s, gx + 1, Append(open, SigOf(LevelHere)))
    BY <2>3, <2>4
  <2>. QED
    BY <1>1, <1>8, <1>9, <2>5 DEF Place_line, At, start, s, open
<1>11. handler' = BlocksOf(OpenHere')
  <2>. DEFINE w == OpenHere  x == LevelHere
  <2>1. w \in Seq(Levels) /\ x \in Levels
    BY <1>5, <1>6
  <2>. HIDE DEF w, x
  <2>2. BlocksOf(Append(w, x)) = Append(BlocksOf(w), x.block)
    BY <2>1, BlocksAppend
  <2>. QED
    BY <1>1, <1>3, <1>5, <1>7, <2>2 DEF w, x
<1>12. TryCounts'
  <2>1. CASE ~Trying
    BY <1>1, <2>1 DEF TryCounts, Trying
  <2>2. CASE Trying
    <3>1. tryStack = OpenHere /\ ~tryMismatch /\ \A i \in 1 .. Len(tryStack) : Proper(tryStack[i])
      BY <1>1, <1>2, <1>4, <2>2 DEF TryCounts
    <3>2. tryStack' = OpenHere'
      BY <1>1, <1>7, <2>2, <3>1
    <3>3. \A i \in 1 .. Len(tryStack') : Proper(tryStack'[i])
      <4>. DEFINE w == tryStack  x == LevelHere  v == tryStack'
      <4>1. w \in Seq(Levels) /\ x \in Levels /\ Proper(x) /\ v = Append(w, x)
        BY <1>1, <1>5, <1>6, <2>2, <3>1
      <4>2. \A i \in 1 .. Len(w) : Proper(w[i])
        BY <3>1
      <4>. HIDE DEF w, x, v
      <4>3. Len(v) = Len(w) + 1 /\ v[Len(w) + 1] = x /\ \A i \in 1 .. Len(w) : v[i] = w[i]
        BY <4>1, AppendFrame
      <4>4. \A i \in 1 .. Len(w) + 1 : i \in 1 .. Len(w) \/ i = Len(w) + 1
        BY <4>1
      <4>5. \A i \in 1 .. Len(v) : Proper(v[i])
        BY <4>1, <4>2, <4>3, <4>4
      <4>. QED
        BY <4>5 DEF v
    <3>. QED
      BY <1>1, <1>3, <3>1, <3>2, <3>3 DEF TryCounts
  <2>. QED
    BY <2>1, <2>2
<1>13. Rebuilt' /\ Cached' /\ TrySame'
  BY <1>1, <1>3, <1>4, RebuiltBlock, StillCached, StillSame
<1>14. /\ Len(frames') = Len(frames) + 1
       /\ frames'[Len(frames) + 1].level = LevelHere
       /\ frames'[Len(frames) + 1].old_line = line /\ frames'[Len(frames) + 1].old_matchend = matchend
       /\ \A i \in 1 .. Len(frames) :
            /\ frames'[i].level = frames[i].level
            /\ frames'[i].old_line = frames[i].old_line /\ frames'[i].old_matchend = frames[i].old_matchend
            /\ frames'[i].ended = frames[i].ended
  BY <1>1 DEF Begun
<1>15. \A i \in 2 .. Len(frames') : i \in 1 .. Len(frames') /\ (i \in 2 .. Len(frames) \/ i = Len(frames) + 1)
                                   /\ (i \in 2 .. Len(frames) => i \in 1 .. Len(frames))
                                   /\ i - 1 \in 1 .. Len(frames)
  <2>. DEFINE k == Len(frames)
  <2>1. k \in Nat \ {0} /\ Len(frames') = k + 1
    BY <1>3, <1>14
  <2>. HIDE DEF k
  <2>2. \A i \in 2 .. k + 1 : i \in 1 .. k + 1 /\ (i \in 2 .. k \/ i = k + 1)
                                   /\ (i \in 2 .. k => i \in 1 .. k) /\ i - 1 \in 1 .. k
    BY <2>1
  <2>. QED
    BY <2>1, <2>2 DEF k
<1>16. Turn'
  <2>1. \A i \in 2 .. Len(frames') : call'.line <= frames'[i].old_line /\ frames'[i].old_line <= line'
    <3>1. call.line <= line /\ line <= line
      BY <1>3, <1>4 DEF Turn
    <3>2. \A i \in 2 .. Len(frames) : call.line <= frames[i].old_line /\ frames[i].old_line <= line
      BY <1>4 DEF Turn
    <3>. QED
      BY <1>1, <1>14, <1>15, <3>1, <3>2
  <2>. QED
    BY <1>1, <1>3, <1>4, <2>1 DEF Turn
<1>17. Waits'
  <2>1. SUFFICES ASSUME NEW i \in 2 .. Len(frames'), frames'[i].old_line = line
                 PROVE  Seen(frames'[i - 1], frames'[i].old_matchend, str, gx + 1) /\ frames'[i].level.at < gx + 1
    BY <1>1, <1>9 DEF Waits
  <2>2. CASE i \in 2 .. Len(frames)
    <3>1. i \in 1 .. Len(frames) /\ i - 1 \in 1 .. Len(frames) /\ frames[i].old_line = line
      BY <1>14, <1>15, <2>1, <2>2
    <3>2. Seen(frames[i - 1], frames[i].old_matchend, str, gx) /\ frames[i].level.at < gx
      BY <1>3, <2>2, <3>1 DEF Waits
    <3>3. frames[i] \in Frames
      BY <1>3, <3>1
    <3>4. frames[i].old_matchend \in Spans /\ frames[i].level.at \in Nat
      BY <3>3 DEF Frames, AllLevels, Levels, None
    <3>5. Seen(frames'[i - 1], frames[i].old_matchend, str, gx + 1)
      <4>. DEFINE m == frames[i].old_matchend  f == frames[i - 1]  k == frames'[i - 1]
      <4>1. m \in Spans /\ Seen(f, m, str, gx) /\ k.level = f.level /\ k.ended = f.ended
        BY <1>14, <3>1, <3>2, <3>4
      <4>2. gx \in Nat /\ gx + 1 \in Nat /\ gx <= gx + 1
        BY <1>3
      <4>. HIDE DEF m, f, k
      <4>3. Seen(k, m, str, gx + 1)
        BY <1>3, <4>1, <4>2, SeenOn
      <4>. QED
        BY <4>3 DEF m, k
    <3>6. frames'[i].level.at < gx + 1
      BY <1>3, <1>14, <3>1, <3>2, <3>4
    <3>. QED
      BY <1>14, <3>1, <3>5, <3>6
  <2>3. CASE i = Len(frames) + 1
    <3>1. i - 1 = Len(frames) /\ Len(frames) \in 1 .. Len(frames)
      BY <1>3, <2>3
    <3>2. Seen(frames'[i - 1], matchend, str, gx + 1)
      <4>. DEFINE f == Current  k == frames'[i - 1]
      <4>1. Seen(f, matchend, str, gx) /\ k.level = f.level /\ k.ended = f.ended
        BY <1>3, <1>14, <3>1
      <4>2. gx \in Nat /\ gx + 1 \in Nat /\ gx <= gx + 1
        BY <1>3
      <4>. HIDE DEF f, k
      <4>3. Seen(k, matchend, str, gx + 1)
        BY <1>3, <4>1, <4>2, SeenOn
      <4>. QED
        BY <4>3 DEF k
    <3>3. frames'[i].level.at < gx + 1
      BY <1>3, <1>5, <1>14, <2>3
    <3>. QED
      BY <1>14, <2>3, <3>2, <3>3
  <2>. QED
    BY <1>15, <2>2, <2>3
<1>18. Follows'
  BY <1>1, <1>10, <1>11, <1>17 DEF Follows
<1>. QED
  BY <1>1, <1>4, <1>7, <1>12, <1>13, <1>16, <1>18 DEF FInv

(* A block that is over: its node lies over the same lines, closed.        *)
LEMMA TipsClosed ==
  ASSUME NEW tx, NEW T, GoodTree(T), NEW p \in DOMAIN T \ {RootId}, NEW ln \in Nat,
         NEW C, ClosedTo(T, p, ln, C), \A n \in DOMAIN T : C[n].level = T[n].level,
         NEW base, NEW from, Tips(tx, T, p, base, from, ln)
  PROVE  /\ Tips(tx, C, T[p].parent, base, from, ln)
         /\ \A n \in DOMAIN T : Above(C, n) = Above(T, n)
         /\ Above(T, p) = {p} \cup Above(T, T[p].parent)
<1>. DEFINE q == T[p].parent
<1>1. /\ GoodTree(C) /\ DOMAIN C = DOMAIN T
      /\ \A m \in DOMAIN T : C[m].parent = T[m].parent /\ C[m].kids = T[m].kids /\ C[m].sline = T[m].sline
      /\ \A m \in DOMAIN T : C[m].eline = IF m = p THEN ln ELSE T[m].eline
  BY DEF ClosedTo
<1>2. IsTree(T, AllLevels) /\ IsTree(C, AllLevels)
  BY <1>1 DEF GoodTree
<1>3. q \in DOMAIN T /\ Above(T, p) = {p} \cup Above(T, q)
  BY <1>2, AboveIs
<1>4. Pruned(AllLevels, T, C)
  BY <1>1, <1>2 DEF Pruned
<1>5. \A n \in DOMAIN T : Above(C, n) = Above(T, n)
  BY <1>1, <1>4, PrunedAbove
<1>6. \A l \in 0 .. ln : \A n \in DOMAIN T : Lies(C, q, n, l) <=> Lies(T, p, n, l)
  <2>1. SUFFICES ASSUME NEW l \in 0 .. ln, NEW n \in DOMAIN T PROVE Lies(C, q, n, l) <=> Lies(T, p, n, l)
    OBVIOUS
  <2>2. n \in Above(T, p) <=> n = p \/ n \in Above(C, q)
    BY <1>3, <1>5
  <2>3. C[n].sline = T[n].sline /\ (n # p => C[n].eline = T[n].eline) /\ (n = p => l <= C[n].eline)
    BY <1>1
  <2>. QED
    BY <2>2, <2>3 DEF Lies
<1>7. \A n \in DOMAIN T \ {RootId} : C[n].level = T[n].level
  OBVIOUS
<1>8. \A n \in DOMAIN T : C[n].parent = T[n].parent
  BY <1>1
<1>. HIDE DEF q
<1>9. Tips(tx, C, q, base, from, ln)
  BY <1>1, <1>5, <1>6, <1>7, <1>8, TipsRaise
<1>. QED
  BY <1>3, <1>5, <1>9 DEF q

(* A block within a line: its node, which lies over none yet, is dropped.  *)
LEMMA TipsWithin ==
  ASSUME NEW tx, NEW T, GoodTree(T), Sorted(T), NEW fr \in Frames, Hangs(T, fr),
         NEW p, p = fr.node, NEW q, q = fr.nodeP, NEW ln \in Nat, T[p].sline = ln + 1,
         NEW R, TrimsTo(T, q, fr.ResF, R), R[q].level = T[q].level,
         NEW base, NEW from, Tips(tx, T, p, base, from, ln)
  PROVE  /\ Tips(tx, R, q, base, from, ln)
         /\ Above(R, q) = Above(T, q) /\ Above(T, p) = {p} \cup Above(T, q)
         /\ \A n \in DOMAIN R : n \in DOMAIN T /\ R[n].eline = T[n].eline
<1>. DEFINE f == fr.ResF  kids == T[q].kids  n == Len(kids)
<1>1. /\ q \in DOMAIN T /\ p \in DOMAIN T /\ EndsIn(T, q, p)
      /\ IF f = Nil THEN n = 1 ELSE n > 1 /\ kids[n - 1] = f
  BY DEF Hangs
<1>2. p # Nil
  BY <1>1 DEF GoodTree, IsTree, Nil
<1>3. /\ p # RootId /\ T[p].parent = q /\ n \in Nat \ {0} /\ kids[n] = p /\ kids \in Seq(DOMAIN T)
  BY <1>1, <1>2, EndsAt
<1>4. IsTree(T, AllLevels)
  BY DEF GoodTree
<1>5. Above(T, p) = {p} \cup Above(T, q)
  BY <1>1, <1>3, <1>4, AboveIs
<1>6. Tips(tx, T, q, base, from, ln)
  <2>1. \A l \in 0 .. ln : \A m \in DOMAIN T : Lies(T, q, m, l) <=> Lies(T, p, m, l)
    <3>1. SUFFICES ASSUME NEW l \in 0 .. ln, NEW m \in DOMAIN T PROVE Lies(T, q, m, l) <=> Lies(T, p, m, l)
      OBVIOUS
    <3>2. CASE m = p
      <4>1. ~(T[m].sline <= l)
        BY <3>2
      <4>. QED
        BY <4>1 DEF Lies
    <3>3. CASE m # p
      BY <1>5, <3>3 DEF Lies
    <3>. QED
      BY <3>2, <3>3
  <2>. QED
    BY <2>1, TipsRaise
<1>7. \A k \in DOMAIN T \ {RootId} : T[k].parent = q /\ k \notin DOMAIN R => T[k].sline > ln
  <2>1. SUFFICES ASSUME NEW k \in DOMAIN T \ {RootId}, T[k].parent = q, k \notin DOMAIN R PROVE k = p
    OBVIOUS
  <2>2. PICK i \in DOMAIN kids : kids[i] = k /\ (f # Nil => \E j \in DOMAIN kids : kids[j] = f /\ j < i)
    BY <2>1, KidsDropped
  <2>3. DOMAIN kids = 1 .. n
    BY <1>3
  <2>4. CASE f = Nil
    <3>1. n = 1
      BY <1>1, <2>4
    <3>. HIDE DEF kids, n
    <3>2. i = n
      BY <2>3, <3>1
    <3>. QED
      BY <1>3, <2>2, <3>2
  <2>5. CASE f # Nil
    <3>1. PICK j \in DOMAIN kids : kids[j] = f /\ j < i
      BY <2>2, <2>5
    <3>2. n > 1 /\ kids[n - 1] = f
      BY <1>1, <2>5
    <3>3. \A x, y \in DOMAIN kids : kids[x] = kids[y] => x = y
      BY <1>1, <1>4 DEF IsTree, KidsOnce
    <3>. HIDE DEF kids, n
    <3>4. n - 1 \in DOMAIN kids
      BY <1>3, <2>3, <3>2
    <3>5. j = n - 1
      BY <3>1, <3>2, <3>3, <3>4
    <3>6. i = n
      BY <1>3, <2>3, <3>1, <3>5
    <3>. QED
      BY <1>3, <2>2, <3>6
  <2>. QED
    BY <2>4, <2>5
<1>8. \A m \in DOMAIN T \ DOMAIN R : T[m].sline > ln
  <2>1. ln \in Int /\ Begins(T)
    BY <1>4, SortedBegins
  <2>. QED
    BY <1>7, <2>1, DroppedStart
<1>9. \A l \in 0 .. ln : \A m \in DOMAIN T :
        T[m].sline <= l /\ (l > from => base \in Above(T, m))
          => m \in DOMAIN R /\ (l > from => base \in Above(T, m))
  <2>1. \A m \in DOMAIN T : T[m].sline \in Nat
    BY <1>4, LinesAreInts
  <2>2. \A l \in 0 .. ln : \A m \in DOMAIN T : T[m].sline <= l => m \in DOMAIN R
    BY <1>8, <2>1
  <2>. QED
    BY <2>2
<1>10. Tips(tx, R, q, base, from, ln)
  BY <1>6, <1>9, TipsTrimmed
<1>11. Pruned(AllLevels, T, R) /\ SameEnds(T, R) /\ q \in DOMAIN R /\ DOMAIN R \subseteq DOMAIN T
  <2>1. Pruned(AllLevels, T, R) /\ SameEnds(T, R)
    BY TrimsPrune
  <2>. QED
    BY <2>1 DEF TrimsTo
<1>12. Above(R, q) = Above(T, q)
  BY <1>11, PrunedAbove
<1>. QED
  BY <1>5, <1>10, <1>11, <1>12 DEF SameEnds

(* The tree that is rebuilt, when a block's colorize() has returned.       *)
LEMMA RebuiltReturns ==
  ASSUME IInv, IInv', OInv, LevelsAgree, LevelsAgree', Rebuilt, Turn, BlockReturns
  PROVE  Rebuilt'
<1>1. CASE ~Updating
  <2>1. UNCHANGED call
    BY DEF BlockReturns
  <2>. QED
    BY <1>1, <2>1 DEF Rebuilt, Updating
<1>2. CASE Updating
  <2>. DEFINE T == tree  R == tree'  p == parent  q == parent'  k == Len(frames)  fr == Current
              b == Base(parent, frames)  tx == text  ln == line  from == call.line
  <2>1. /\ ~Idle /\ Len(frames) > 1 /\ p # RootId /\ p = fr.node /\ q = fr.nodeP /\ q = T[p].parent
        /\ \A n \in DOMAIN R : n \in DOMAIN T /\ R[n].level = T[n].level
        /\ fr.old_line = line => TrimsTo(T, fr.nodeP, fr.ResF, R)
        /\ fr.old_line # line => ClosedTo(T, p, line, R)
        /\ Len(frames') = k - 1 /\ \A i \in 1 .. k - 1 : frames'[i] = frames[i]
        /\ UNCHANGED <<text, valid, call, line>>
    BY <1>2, BlockReturnsDoes
  <2>2. /\ k \in Nat \ {0} /\ fr = frames[k] /\ fr \in Frames /\ frames \in Seq(Frames)
    BY <2>1, TopFrame DEF Idle
  <2>3. Rising(T, p, forward, frames, ln)
    BY <1>2, <2>1 DEF OInv
  <2>4. /\ from = valid /\ b \in Above(T, p) /\ \A n \in Above(T, p) : from <= T[n].eline
        /\ Tips(tx, T, p, b, from, ln)
    BY <1>2, <2>1 DEF Rebuilt
  <2>5. GoodTree(T) /\ GoodTree(R) /\ p \in DOMAIN T /\ Spine(T, frames, p, forward) /\ q \in DOMAIN R
    BY <1>2, <2>1 DEF IInv, Standing, Idle, BlockReturns
  <2>6. Hangs(T, fr) /\ b # p /\ Base(q, frames') = b
    <3>1. k \in 2 .. k /\ 2 \in 2 .. k /\ k > 1
      BY <2>1, <2>2
    <3>2. Hangs(T, frames[k]) /\ frames[2].nodeP # frames[k].node
      BY <2>5, <3>1 DEF Spine
    <3>3. b = frames[2].nodeP
      BY <2>1, <2>2 DEF Base
    <3>4. Base(q, frames') = IF k - 1 = 1 THEN q ELSE frames'[2].nodeP
      BY <2>1 DEF Base
    <3>. HIDE DEF k, b, q
    <3>5. k - 1 # 1 => 2 \in 1 .. k - 1
      BY <2>2, <3>1
    <3>6. k - 1 = 1 => k = 2
      BY <2>2
    <3>. QED
      BY <2>1, <2>2, <3>2, <3>3, <3>4, <3>5, <3>6
  <2>7. ln \in Nat /\ from <= ln /\ Sorted(T) /\ (fr.old_line = ln => T[p].sline = ln + 1)
    <3>1. ln \in Nat /\ from <= ln
      BY BoundsAssumption DEF IInv, Typed, Turn
    <3>2. k \in 2 .. k
      BY <2>1, <2>2
    <3>. QED
      BY <2>1, <2>2, <2>3, <3>1, <3>2 DEF Rising
  <2>8. T = tree /\ R = tree' /\ p = parent /\ q = parent' /\ tx = text /\ ln = line /\ from = call.line
    OBVIOUS
  <2>l. \A n \in DOMAIN R : R[n].level = T[n].level
    BY <2>1
  <2>. HIDE DEF T, R, p, q, k, fr, b, tx, ln, from
  <2>9. CASE fr.old_line = ln
    <3>1. TrimsTo(T, q, fr.ResF, R) /\ T[p].sline = ln + 1 /\ R[q].level = T[q].level
      BY <2>1, <2>5, <2>7, <2>8, <2>9
    <3>2. Tips(tx, T, p, b, from, ln) /\ Hangs(T, fr) /\ fr \in Frames /\ p = fr.node /\ q = fr.nodeP
      BY <2>1, <2>2, <2>4, <2>6
    <3>3. Tips(tx, R, q, b, from, ln)
      BY <2>5, <2>7, <3>1, <3>2, TipsWithin
    <3>4. /\ Above(R, q) = Above(T, q) /\ Above(T, p) = {p} \cup Above(T, q)
          /\ \A n \in DOMAIN R : n \in DOMAIN T /\ R[n].eline = T[n].eline
      <4>1. IsTree(T, AllLevels) /\ p \in DOMAIN T \ {RootId}
        BY <2>1, <2>5 DEF GoodTree
      <4>2. Above(T, p) = {p} \cup Above(T, q)
        BY <2>1, <4>1, AboveIs
      <4>3. Pruned(AllLevels, T, R) /\ SameEnds(T, R)
        BY <2>5, <3>1, TrimsPrune
      <4>4. Above(R, q) = Above(T, q)
        BY <2>5, <4>3, PrunedAbove
      <4>. QED
        BY <2>1, <4>2, <4>3, <4>4 DEF SameEnds
    <3>5. b \in Above(R, q)
      BY <2>4, <2>6, <3>4
    <3>6. \A n \in Above(R, q) : from <= R[n].eline
      <4>1. Above(R, q) \subseteq DOMAIN R
        BY DEF Above
      <4>. QED
        BY <2>4, <3>4, <4>1
    <3>. QED
      BY <2>1, <2>4, <2>6, <2>8, <3>3, <3>5, <3>6 DEF Rebuilt
  <2>10. CASE fr.old_line # ln
    <3>1. ClosedTo(T, p, ln, R) /\ p \in DOMAIN T \ {RootId}
      BY <2>1, <2>5, <2>8, <2>10
    <3>2. DOMAIN R = DOMAIN T /\ \A n \in DOMAIN T : R[n].eline = IF n = p THEN ln ELSE T[n].eline
      BY <3>1 DEF ClosedTo
    <3>3. \A n \in DOMAIN T : R[n].level = T[n].level
      BY <2>l, <3>2
    <3>4. Tips(tx, T, p, b, from, ln)
      BY <2>4
    <3>5. Tips(tx, R, T[p].parent, b, from, ln)
      BY <2>5, <2>7, <3>1, <3>3, <3>4, TipsClosed
    <3>6. \A n \in DOMAIN T : Above(R, n) = Above(T, n)
      BY <2>5, <2>7, <3>1, <3>3, <3>4, TipsClosed
    <3>7. Above(T, p) = {p} \cup Above(T, T[p].parent)
      <4>1. IsTree(T, AllLevels)
        BY <2>5 DEF GoodTree
      <4>. QED
        BY <3>1, <4>1, AboveIs
    <3>8. b \in Above(R, q)
      BY <2>1, <2>4, <2>5, <2>6, <3>2, <3>6, <3>7
    <3>9. \A n \in Above(R, q) : from <= R[n].eline
      <4>1. Above(R, q) \subseteq DOMAIN R /\ Above(R, q) = Above(T, q)
        BY <2>5, <3>2, <3>6 DEF Above
      <4>. QED
        BY <2>1, <2>4, <2>7, <3>2, <3>7, <4>1
    <3>. QED
      BY <2>1, <2>4, <2>6, <2>8, <3>5, <3>8, <3>9 DEF Rebuilt
  <2>. QED
    BY <2>9, <2>10
<1>. QED
  BY <1>1, <1>2

(* The return from a block's colorize().                                   *)
LEMMA BlockReturnsTrue ==
  ASSUME Plain, IInv, IInv', OInv, FInv, BlockReturns
  PROVE  FInv'
<1>. DEFINE fr == Current  k == Len(frames)  oneLine == fr.old_line = line
<1>1. /\ pc = "return" /\ k > 1 /\ ~Idle /\ ~Idle' /\ (line < stop \/ ~oneLine)
      /\ handler' = LeaveScheme /\ tryStack' = TryLeft(oneLine)
      /\ gx' = IF oneLine /\ matchend.e = fr.level.at THEN matchend.e + 1 ELSE matchend.e
      /\ matchend' = fr.old_matchend
      /\ pc' = IF ~oneLine \/ (~(oneLine /\ matchend.e = fr.level.at) /\ fr.old_matchend.s < gx')
               THEN "line" ELSE "content"
      /\ Len(frames') = k - 1 /\ \A i \in 1 .. k - 1 : frames'[i] = frames[i]
      /\ UNCHANGED <<text, edits, valid, call, line, stop, clearLine, endLine, filled,
                     breakParsing, gone, expected, tryMismatch>>
      /\ ~Updating => UNCHANGED <<tree, parent>>
  BY BlockReturnsDoes
<1>2. /\ k \in Nat \ {0} /\ fr = frames[k] /\ fr \in Frames /\ frames \in Seq(Frames)
  BY <1>1, TopFrame DEF Idle
<1>3. /\ LevelsAgree /\ Rebuilt /\ Cached /\ TrySame /\ TryCounts /\ Turn /\ Follows
      /\ ~breakParsing /\ ~gone
  BY <1>1 DEF FInv
<1>4. /\ line \in Nat /\ stop \in Nat /\ call.line \in Nat /\ line <= stop /\ call.line <= line
      /\ filled /\ (line < stop => clearLine = line /\ endLine = line)
      /\ fr.old_line \in Nat /\ call.line <= fr.old_line /\ fr.old_line <= line
  <2>1. line \in Nat /\ stop \in Nat /\ call.line \in Nat
    BY BoundsAssumption DEF IInv, Typed, Lines
  <2>2. fr.old_line \in Nat
    BY <1>2, BoundsAssumption DEF Frames
  <2>3. k \in 2 .. k
    BY <1>1, <1>2
  <2>4. call.line <= fr.old_line /\ fr.old_line <= line
    BY <1>2, <1>3, <2>3 DEF Turn
  <2>. QED
    BY <1>1, <1>3, <2>1, <2>2, <2>4 DEF Turn
<1>5. LevelsAgree' /\ OpenHere # <<>> /\ OpenHere' = Front(OpenHere)
  BY <1>3, BlockReturnsLevels
<1>6. OpenHere \in Seq(Levels)
  BY <1>1, <1>3, InnerHere
<1>7. Here' = Front(Here)
  <2>. DEFINE w == OpenHere
  <2>1. w \in Seq(Levels) /\ w # <<>>
    BY <1>5, <1>6
  <2>. HIDE DEF w
  <2>2. Sig(Front(w)) = Front(Sig(w))
    BY <2>1, SigFront
  <2>. QED
    BY <1>5, <2>2 DEF w, Here
<1>8. Rebuilt'
  BY <1>3, <1>5, RebuiltReturns
<1>9. Cached' /\ TrySame'
  BY <1>1, <1>3, StillCached, StillSame
<1>10. Current' = frames[k - 1] /\ k - 1 \in 1 .. k - 1 /\ pc' \in {"line", "content"}
  <2>1. k - 1 \in 1 .. k - 1
    BY <1>1, <1>2
  <2>2. Current' = frames'[k - 1]
    BY <1>1 DEF Current, Last
  <2>3. pc' \in {"line", "content"}
    BY <1>1
  <2>. HIDE DEF k
  <2>. QED
    BY <1>1, <2>1, <2>2, <2>3
<1>i. \A i \in 2 .. k - 1 : i \in 2 .. k /\ i \in 1 .. k - 1 /\ i - 1 \in 1 .. k - 1
  <2>. HIDE DEF k
  <2>. QED
    BY <1>1, <1>2
<1>11. Turn'
  <2>1. \A i \in 2 .. k : call.line <= frames[i].old_line /\ frames[i].old_line <= line
    BY <1>3 DEF Turn
  <2>2. \A i \in 2 .. Len(frames') : call'.line <= frames'[i].old_line /\ frames'[i].old_line <= line'
    BY <1>1, <1>i, <2>1
  <2>3. /\ call.line < stop
        /\ line = stop => endLine = stop - 1
    BY <1>3 DEF Turn
  <2>. QED
    BY <1>1, <1>4, <2>2, <2>3 DEF Turn
<1>12. CASE line = stop
  <2>1. ~oneLine
    BY <1>1, <1>4, <1>12
  <2>2. TryCounts'
    <3>1. CASE ~Trying
      BY <1>1, <3>1 DEF TryCounts, Trying
    <3>2. CASE Trying
      <4>1. tryStack' = tryStack
        BY <1>1, <2>1 DEF TryLeft
      <4>2. ~tryMismatch /\ (\A i \in 1 .. Len(tryStack) : Proper(tryStack[i])) /\ Sig(tryStack) = Stack(text, stop)
        BY <1>3, <1>12, <3>2 DEF TryCounts
      <4>3. ~(line < stop)
        BY <1>4, <1>12
      <4>. QED
        BY <1>1, <4>1, <4>2, <4>3 DEF TryCounts
    <3>. QED
      BY <3>1, <3>2
  <2>3. Follows'
    BY <1>1, <1>4, <1>12 DEF Follows
  <2>. QED
    BY <1>1, <1>3, <1>5, <1>8, <1>9, <1>11, <2>2, <2>3 DEF FInv
<1>13. CASE line < stop
  <2>1. gx = matchend.e /\ At(gx, Front(Here)) /\ Waits /\ handler = BlocksOf(OpenHere) /\ gx \in Nat
    BY <1>1, <1>3, <1>4, <1>13 DEF Follows, Place_return, IInv, Typed
  <2>2. oneLine => Seen(frames[k - 1], fr.old_matchend, str, gx) /\ fr.level.at < gx
    <3>1. k \in 2 .. k
      BY <1>1, <1>2
    <3>. QED
      BY <1>2, <2>1, <3>1 DEF Waits
  <2>3. fr.level.at \in Nat /\ fr.old_matchend.s \in Nat
    <3>1. fr.level \in AllLevels /\ fr.old_matchend \in Spans
      BY <1>2 DEF Frames
    <3>. QED
      BY <3>1 DEF AllLevels, Levels, None, Spans
  <2>4. ~(oneLine /\ matchend.e = fr.level.at)
    <3>. HIDE DEF fr
    <3>. QED
      BY <2>1, <2>2, <2>3
  <2>5. gx' = gx
    BY <1>1, <2>1, <2>4
  <2>6. str' = str
    BY <1>1 DEF str
  <2>7. Place_line'
    BY <1>1, <1>7, <2>1, <2>5, <2>6 DEF Place_line, At
  <2>8. pc' = "content" => Place_content'
    <3>1. SUFFICES ASSUME pc' = "content" PROVE Place_content'
      OBVIOUS
    <3>2. oneLine /\ ~(fr.old_matchend.s < gx)
      BY <1>1, <2>4, <2>5, <3>1
    <3>3. gx <= fr.old_matchend.s /\ ~(gx > fr.old_matchend.s)
      <4>. HIDE DEF fr
      <4>. QED
        BY <2>1, <2>3, <3>2
    <3>4. Seen(Current', matchend', str, gx)
      BY <1>1, <1>10, <2>2, <3>2
    <3>5. str \in Seq(Tokens) /\ Len(str) \in Nat
      BY <1>13, BoundsAssumption, TokensAssumption, StrIs
    <3>6. gx <= Len(str) + 1 /\ Least(gx, Len(str)) = gx
      <4>. DEFINE n == Len(str)  x == fr.old_matchend.s
      <4>1. x <= n /\ x \in Nat /\ gx <= x /\ n \in Nat
        BY <1>1, <2>3, <3>3, <3>4, <3>5 DEF Seen
      <4>. HIDE DEF n, x
      <4>2. gx <= n + 1 /\ Least(gx, n) = gx
        BY <2>1, <4>1 DEF Least
      <4>. QED
        BY <4>2 DEF n
    <3>7. ~(gx > matchend'.s)
      BY <1>1, <3>3
    <3>8. At(Least(gx, Len(str)), Here)'
      BY <1>1, <1>7, <2>1, <2>5, <2>6, <3>6 DEF At
    <3>. QED
      BY <2>5, <2>6, <3>4, <3>6, <3>7, <3>8 DEF Place_content
  <2>9. handler' = BlocksOf(OpenHere')
    <3>. DEFINE w == OpenHere
    <3>1. w \in Seq(Levels) /\ w # <<>>
      BY <1>5, <1>6
    <3>. HIDE DEF w
    <3>2. BlocksOf(Front(w)) = Front(BlocksOf(w)) /\ BlocksOf(w) # <<>>
      BY <3>1, BlocksFront
    <3>. QED
      BY <1>1, <1>5, <1>13, <2>1, <3>2 DEF LeaveScheme, w
  <2>10. Waits'
    <3>1. \A i \in 2 .. Len(frames') : frames'[i] = frames[i] /\ frames'[i - 1] = frames[i - 1] /\ i \in 2 .. k
      BY <1>1, <1>i
    <3>. QED
      BY <1>1, <2>1, <2>5, <2>6, <3>1 DEF Waits
  <2>11. TryCounts'
    <3>1. CASE ~Trying
      BY <1>1, <3>1 DEF TryCounts, Trying
    <3>2. CASE Trying
      <4>1. oneLine
        <5>1. stop = call.line + 1
          BY <1>3, <3>2 DEF TrySame
        <5>. HIDE DEF fr
        <5>2. fr.old_line = line
          BY <1>4, <1>13, <5>1
        <5>. QED
          BY <5>2
      <4>2. tryStack = OpenHere /\ ~tryMismatch /\ \A i \in 1 .. Len(tryStack) : Proper(tryStack[i])
        <5>1. k # 1
          BY <1>1, <1>2
        <5>. QED
          BY <1>1, <1>3, <1>13, <3>2, <5>1 DEF TryCounts
      <4>3. tryStack' = OpenHere'
        BY <1>1, <1>5, <3>2, <4>1, <4>2 DEF TryLeft
      <4>4. \A i \in 1 .. Len(tryStack') : Proper(tryStack'[i])
        <5>. DEFINE w == OpenHere
        <5>1. w \in Seq(Levels) /\ w # <<>> /\ tryStack' = Front(w)
          BY <1>5, <1>6, <4>3
        <5>2. \A i \in 1 .. Len(w) : Proper(w[i])
          BY <4>2
        <5>. HIDE DEF w
        <5>3. Len(Front(w)) = Len(w) - 1 /\ Len(w) \in Nat /\ \A i \in 1 .. Len(w) - 1 : Front(w)[i] = w[i]
          BY <5>1, FrontElements
        <5>4. \A i \in 1 .. Len(w) - 1 : i \in 1 .. Len(w)
          BY <5>3
        <5>. QED
          BY <5>1, <5>2, <5>3, <5>4
      <4>5. pc' # "return" /\ line # stop
        BY <1>4, <1>10, <1>13
      <4>. QED
        BY <1>1, <4>2, <4>3, <4>4, <4>5 DEF TryCounts
    <3>. QED
      BY <3>1, <3>2
  <2>12. Follows'
    BY <1>1, <1>10, <2>7, <2>8, <2>9, <2>10 DEF Follows
  <2>. QED
    BY <1>1, <1>3, <1>5, <1>8, <1>9, <1>11, <2>11, <2>12 DEF FInv
<1>. QED
  BY <1>4, <1>12, <1>13

(* Tree T is rebuilt from line from to ln, at p, in the block base. *)
Risen(tx, T, p, base, from, ln) ==
  /\ Tips(tx, T, p, base, from, ln) /\ base \in Above(T, p)
  /\ \A n \in Above(T, p) : from <= T[n].eline

(* A block that is over, with what the cache had after it dropped: the     *)
(* lines known before the parse began are all above what goes.             *)
LEMMA TipsAround ==
  ASSUME NEW tx, NEW T, GoodTree(T), Sorted(T), NEW p \in DOMAIN T \ {RootId}, NEW q, q = T[p].parent,
         NEW ln \in Nat, NEW C, ClosedTo(T, p, ln, C), \A n \in DOMAIN T : C[n].level = T[n].level,
         NEW R, TrimsTo(C, q, p, R), R[q].level = C[q].level,
         NEW from \in Nat, from <= ln, \A n \in Above(T, p) : from <= T[n].eline,
         Tips(tx, T, p, p, from, ln)
  PROVE  Risen(tx, R, q, q, from, ln)
<1>1. /\ GoodTree(C) /\ DOMAIN C = DOMAIN T
      /\ \A m \in DOMAIN T : C[m].parent = T[m].parent /\ C[m].kids = T[m].kids /\ C[m].sline = T[m].sline
      /\ \A m \in DOMAIN T : C[m].eline = IF m = p THEN ln ELSE T[m].eline
  BY DEF ClosedTo
<1>2. IsTree(T, AllLevels) /\ IsTree(C, AllLevels)
  BY <1>1 DEF GoodTree
<1>3. q \in DOMAIN T /\ Above(T, p) = {p} \cup Above(T, q)
  BY <1>2, AboveIs
<1>4. /\ Tips(tx, C, q, p, from, ln)
      /\ \A n \in DOMAIN T : Above(C, n) = Above(T, n)
  <2>1. Tips(tx, C, q, p, from, ln)
    BY TipsClosed
  <2>2. Pruned(AllLevels, T, C)
    BY <1>1, <1>2 DEF Pruned
  <2>. QED
    BY <1>1, <2>1, <2>2, PrunedAbove
<1>5. Pruned(AllLevels, C, R) /\ SameEnds(C, R)
  BY <1>1, TrimsPrune
<1>6. q \in DOMAIN R /\ p \in DOMAIN R /\ DOMAIN R \subseteq DOMAIN T /\ IsTree(R, AllLevels)
  BY <1>1, <1>2 DEF TrimsTo, GoodTree, IsTree, Nil
<1>7. \A l \in 0 .. ln : \A n \in DOMAIN C :
        C[n].sline <= l /\ (l > from => p \in Above(C, n))
          => n \in DOMAIN R /\ (l > from => q \in Above(C, n))
  <2>1. SUFFICES ASSUME NEW l \in 0 .. ln, NEW n \in DOMAIN C, C[n].sline <= l,
                        l > from => p \in Above(C, n)
                 PROVE  n \in DOMAIN R /\ (l > from => q \in Above(C, n))
    OBVIOUS
  <2>2. CASE l > from
    <3>1. p \in Above(C, n)
      BY <2>1, <2>2
    <3>2. p \in DOMAIN C \ {RootId} /\ C[p].parent = q
      BY <1>1
    <3>3. n \in DOMAIN R
      BY <1>1, <1>6, <3>1, <3>2, KeptBelow
    <3>4. Above(C, p) \subseteq Above(C, n)
      BY <1>2, <3>1, AboveTrans
    <3>5. q \in Above(C, p)
      <4>1. q \in Above(T, q)
        BY <1>2, <1>3, AboveSelf
      <4>. QED
        BY <1>3, <1>4, <4>1
    <3>. QED
      BY <3>3, <3>4, <3>5
  <2>3. CASE ~(l > from)
    <3>1. SUFFICES ASSUME n \notin DOMAIN R PROVE FALSE
      BY <2>3
    <3>2. Begins(C)
      <4>1. Begins(T)
        BY <1>2, SortedBegins
      <4>2. \A m \in DOMAIN T \ {RootId} : T[m].parent \in DOMAIN T
        BY <1>2, AboveIs
      <4>. QED
        BY <1>1, <4>1, <4>2 DEF Begins
    <3>3. \A k \in DOMAIN C \ {RootId} : C[k].parent = q /\ k \notin DOMAIN R => C[k].sline > from
      <4>1. SUFFICES ASSUME NEW k \in DOMAIN C \ {RootId}, C[k].parent = q, k \notin DOMAIN R
                     PROVE  C[k].sline > from
        OBVIOUS
      <4>2. p # Nil
        BY <1>2 DEF IsTree, Nil
      <4>3. \E i \in DOMAIN C[q].kids :
              /\ C[q].kids[i] = k
              /\ p # Nil => \E j \in DOMAIN C[q].kids : C[q].kids[j] = p /\ j < i
        BY <1>1, <4>1, KidsDropped
      <4>4. PICK i \in DOMAIN T[q].kids :
              T[q].kids[i] = k /\ \E j \in DOMAIN T[q].kids : T[q].kids[j] = p /\ j < i
        BY <1>1, <1>3, <4>2, <4>3
      <4>5. T[p].eline < T[k].sline
        BY <1>3, <4>4 DEF Sorted
      <4>6. p \in Above(T, p) /\ from <= T[p].eline
        BY <1>3
      <4>7. T[p].eline \in Nat /\ T[k].sline \in Nat /\ C[k].sline = T[k].sline
        BY <1>1, <1>2, LinesAreInts
      <4>. QED
        BY <4>5, <4>6, <4>7
    <3>4. C[n].sline > from
      <4>1. from \in Int
        OBVIOUS
      <4>. QED
        BY <1>1, <3>1, <3>2, <3>3, <4>1, DroppedStart
    <3>5. C[n].sline \in Nat
      BY <1>2, LinesAreInts
    <3>. QED
      BY <2>1, <2>3, <3>4, <3>5
  <2>. QED
    BY <2>2, <2>3
<1>8. Tips(tx, R, q, q, from, ln)
  BY <1>1, <1>4, <1>7, TipsTrimmed
<1>9. Above(R, q) = Above(C, q) /\ q \in Above(R, q)
  BY <1>5, <1>6, PrunedAbove, AboveSelf
<1>10. \A n \in Above(R, q) : from <= R[n].eline
  <2>1. Above(R, q) \subseteq DOMAIN R
    BY DEF Above
  <2>2. \A n \in DOMAIN R : R[n].eline = C[n].eline
    BY <1>5 DEF SameEnds
  <2>. QED
    BY <1>1, <1>3, <1>4, <1>6, <1>9, <2>1, <2>2
<1>. QED
  BY <1>8, <1>9, <1>10 DEF Risen

(* The tree that is rebuilt, in the block around the one parse() went on   *)
(* in.                                                                     *)
LEMMA RebuiltAround ==
  ASSUME IInv, IInv', OInv, Rebuilt, Turn, ParentReturns
  PROVE  Rebuilt'
<1>1. CASE ~Updating
  <2>1. UNCHANGED call
    BY DEF ParentReturns
  <2>. QED
    BY <1>1, <2>1 DEF Rebuilt, Updating
<1>2. CASE Updating
  <2>. DEFINE T == tree  R == tree'  p == parent  q == parent'  tx == text  ln == line  from == call.line
  <2>1. /\ ~Idle /\ Len(frames) = 1 /\ p # RootId /\ q = T[p].parent /\ Len(frames') = 1
        /\ \A n \in DOMAIN R : n \in DOMAIN T /\ R[n].level = T[n].level
        /\ UNCHANGED <<text, valid, call, line>>
    BY ParentReturnsDoes
  <2>2. \E C : /\ ClosedTo(T, p, ln, C) /\ \A n \in DOMAIN T : C[n].level = T[n].level
               /\ TrimsTo(C, q, p, R)
    BY <1>2, ParentReturnsDoes
  <2>3. PICK C : ClosedTo(T, p, ln, C) /\ (\A n \in DOMAIN T : C[n].level = T[n].level) /\ TrimsTo(C, q, p, R)
    BY <2>2
  <2>4. Rising(T, p, forward, frames, ln)
    BY <1>2, <2>1 DEF OInv
  <2>5. Base(p, frames) = p /\ Base(q, frames') = q
    BY <2>1 DEF Base
  <2>6. /\ from = valid /\ \A n \in Above(T, p) : from <= T[n].eline
        /\ Tips(tx, T, p, p, from, ln)
    BY <1>2, <2>1, <2>5 DEF Rebuilt
  <2>7. GoodTree(T) /\ p \in DOMAIN T /\ q \in DOMAIN R /\ Sorted(T)
    <3>1. ~Idle'
      BY ParentReturnsDoes
    <3>. QED
      BY <2>1, <2>4, <3>1 DEF IInv, Standing, Idle, Rising
  <2>8. ln \in Nat /\ from \in Nat /\ from <= ln
    BY BoundsAssumption DEF IInv, Typed, Turn, Lines
  <2>9. T = tree /\ R = tree' /\ p = parent /\ q = parent' /\ tx = text /\ ln = line /\ from = call.line
    OBVIOUS
  <2>. HIDE DEF T, R, p, q, tx, ln, from
  <2>10. R[q].level = C[q].level /\ p \in DOMAIN T \ {RootId}
    BY <2>1, <2>3, <2>7
  <2>11. ClosedTo(T, p, ln, C)
    BY <2>3
  <2>12. \A n \in DOMAIN T : C[n].level = T[n].level
    BY <2>3
  <2>13. TrimsTo(C, q, p, R) /\ q = T[p].parent
    BY <2>1, <2>3
  <2>14. Tips(tx, T, p, p, from, ln)
    BY <2>6
  <2>15. \A n \in Above(T, p) : from <= T[n].eline
    BY <2>6
  <2>16. Risen(tx, R, q, q, from, ln)
    BY <2>7, <2>8, <2>10, <2>11, <2>12, <2>13, <2>14, <2>15, TipsAround
  <2>. QED
    BY <2>1, <2>5, <2>6, <2>9, <2>16 DEF Rebuilt, Risen
<1>. QED
  BY <1>1, <1>2

(* The step to the block around the one parse() went on in.                *)
LEMMA ParentReturnsTrue ==
  ASSUME Plain, IInv, IInv', OInv, FInv, ParentReturns
  PROVE  FInv'
<1>1. /\ pc = "return" /\ Len(frames) = 1 /\ ~Idle /\ ~Idle' /\ pc' = "line"
      /\ handler' = LeaveScheme /\ gx' = matchend.e /\ Len(frames') = 1
      /\ UNCHANGED <<text, edits, valid, call, line, matchend, stop, clearLine, endLine, filled,
                     breakParsing, gone, expected, tryStack, tryMismatch>>
      /\ ~Updating => UNCHANGED tree
  BY ParentReturnsDoes DEF tries
<1>2. /\ LevelsAgree /\ Rebuilt /\ Cached /\ TrySame /\ TryCounts /\ Turn /\ Follows
      /\ ~breakParsing /\ ~gone
  BY <1>1 DEF FInv
<1>3. /\ line \in Nat /\ stop \in Nat /\ line <= stop /\ filled
      /\ (line < stop => clearLine = line /\ endLine = line)
  BY <1>1, <1>2, BoundsAssumption DEF IInv, Typed, Turn
<1>4. LevelsAgree' /\ OpenHere # <<>> /\ OpenHere' = Front(OpenHere)
  BY <1>2, ParentReturnsLevels
<1>5. OpenHere \in Seq(Levels)
  BY <1>1, <1>2, InnerHere
<1>6. Here' = Front(Here)
  <2>. DEFINE w == OpenHere
  <2>1. w \in Seq(Levels) /\ w # <<>>
    BY <1>4, <1>5
  <2>. HIDE DEF w
  <2>2. Sig(Front(w)) = Front(Sig(w))
    BY <2>1, SigFront
  <2>. QED
    BY <1>4, <2>2 DEF w, Here
<1>7. Rebuilt' /\ Cached' /\ TrySame'
  BY <1>1, <1>2, RebuiltAround, StillCached, StillSame
<1>8. Turn' /\ Waits'
  BY <1>1, <1>2, <1>3 DEF Turn, Waits
<1>9. TryCounts'
  BY <1>1, <1>2, <1>3, <1>4 DEF TryCounts, Trying
<1>10. CASE line = stop
  <2>1. Follows'
    BY <1>1, <1>3, <1>10 DEF Follows
  <2>. QED
    BY <1>1, <1>2, <1>4, <1>7, <1>8, <1>9, <2>1 DEF FInv
<1>11. CASE line < stop
  <2>1. gx = matchend.e /\ At(gx, Front(Here)) /\ handler = BlocksOf(OpenHere)
    BY <1>1, <1>2, <1>3, <1>11 DEF Follows, Place_return
  <2>2. str' = str
    BY <1>1 DEF str
  <2>3. Place_line'
    BY <1>1, <1>6, <2>1, <2>2 DEF Place_line, At
  <2>4. handler' = BlocksOf(OpenHere')
    <3>. DEFINE w == OpenHere
    <3>1. w \in Seq(Levels) /\ w # <<>>
      BY <1>4, <1>5
    <3>. HIDE DEF w
    <3>2. BlocksOf(Front(w)) = Front(BlocksOf(w)) /\ BlocksOf(w) # <<>>
      BY <3>1, BlocksFront
    <3>. QED
      BY <1>1, <1>4, <1>11, <2>1, <3>2 DEF LeaveScheme, w
  <2>5. Follows'
    BY <1>1, <1>8, <2>3, <2>4 DEF Follows
  <2>. QED
    BY <1>1, <1>2, <1>4, <1>7, <1>8, <1>9, <2>5 DEF FInv
<1>. QED
  BY <1>3, <1>10, <1>11

(* The tree that is rebuilt is right for the lines around the place the    *)
(* parse stands at, even where a node there may still end too early.       *)
LEMMA TipsFound ==
  ASSUME NEW tx, NEW T, GoodTree(T), Sorted(T), NEW p \in DOMAIN T,
         \A n \in DOMAIN T \ Above(T, p) : Within(T, n),
         NEW e \in Nat, \A n \in Above(T, p) : e <= T[n].eline,
         NEW base, NEW from, NEW ln \in Nat, e <= ln, Tips(tx, T, p, base, from, ln)
  PROVE  TreeTrue(tx, T, e)
<1>1. SUFFICES ASSUME NEW l \in 0 .. e
               PROVE  Sig(OpenLevels(T, searchLine(T, l).found)) = Stack(tx, l)
  BY DEF TreeTrue
<1>2. l \in 0 .. ln /\ l \in Int
  OBVIOUS
<1>3. PICK n \in DOMAIN T : TipOf(T, p, n, l) /\ Sig(OpenLevels(T, n)) = Stack(tx, l)
  BY <1>2 DEF Tips
<1>4. IsTree(T, AllLevels) /\ \A m \in DOMAIN T : T[m].sline \in Nat /\ T[m].eline \in Nat
  <2>1. IsTree(T, AllLevels)
    BY DEF GoodTree
  <2>. QED
    BY <2>1, LinesAreInts
<1>5. \A m \in Above(T, p) : m \in DOMAIN T /\ l <= T[m].eline
  BY <1>4 DEF Above
<1>6. Tip(T, n, l)
  BY <1>3, <1>5 DEF Tip, TipOf, Lies, Covers
<1>7. \A m \in DOMAIN T \ {RootId} : Covers(T, m, l) => Covers(T, T[m].parent, l)
  <2>1. SUFFICES ASSUME NEW m \in DOMAIN T \ {RootId}, Covers(T, m, l) PROVE Covers(T, T[m].parent, l)
    OBVIOUS
  <2>. DEFINE q == T[m].parent
  <2>2. q \in DOMAIN T /\ \E i \in DOMAIN T[q].kids : T[q].kids[i] = m
    BY <1>4, KidAt
  <2>3. T[q].sline <= T[m].sline
    BY <1>4, SortedBegins DEF Begins
  <2>4. T[m].sline <= l /\ l <= T[m].eline
    BY <2>1 DEF Covers
  <2>. HIDE DEF q
  <2>5. l <= T[q].eline
    <3>1. CASE q \in Above(T, p)
      BY <1>5, <3>1
    <3>2. CASE q \notin Above(T, p)
      <4>1. T[m].eline <= T[q].eline
        BY <2>2, <3>2 DEF Within
      <4>. QED
        BY <1>4, <2>2, <2>4, <4>1
    <3>. QED
      BY <3>1, <3>2
  <2>6. T[q].sline <= l
    BY <1>4, <2>2, <2>3, <2>4
  <2>. QED
    BY <2>5, <2>6 DEF Covers, q
<1>8. searchLine(T, l).found = n
  BY <1>2, <1>4, <1>6, <1>7, TipFound
<1>. QED
  BY <1>3, <1>8

(* What tryParseLine compares of the levels is all that matters of them,   *)
(* without \M.                                                             *)
LEMMA SameTry ==
  ASSUME NEW u \in Seq(Levels), NEW v \in Seq(Levels), Len(u) = Len(v),
         \A i \in 1 .. Len(u) : Proper(u[i]), \A i \in 1 .. Len(v) : Proper(v[i]),
         \A i \in 1 .. Len(v) : sameTryLevel(u[i], v[i])
  PROVE  Sig(u) = Sig(v)
<1>1. \A i \in 1 .. Len(u) : SigOf(u[i]) = SigOf(v[i])
  <2>1. SUFFICES ASSUME NEW i \in 1 .. Len(u) PROVE SigOf(u[i]) = SigOf(v[i])
    OBVIOUS
  <2>. DEFINE a == u[i]  b == v[i]
  <2>2. Proper(a) /\ Proper(b) /\ sameTryLevel(a, b)
    OBVIOUS
  <2>. HIDE DEF a, b
  <2>3. SigOf(a) = SigOf(b)
    BY <2>2 DEF Proper, sameTryLevel, SigOf
  <2>. QED
    BY <2>3 DEF a, b
<1>. DEFINE s == Sig(u)  t == Sig(v)
<1>2. /\ s \in Seq(Sigs) /\ Len(s) = Len(u) /\ \A i \in 1 .. Len(u) : s[i] = SigOf(u[i])
      /\ t \in Seq(Sigs) /\ Len(t) = Len(v) /\ \A i \in 1 .. Len(v) : t[i] = SigOf(v[i])
  BY SigIs
<1>. HIDE DEF s, t
<1>3. s = t
  BY <1>1, <1>2, SameSeq
<1>. QED
  BY <1>3 DEF s, t

(* If the tried line opens what the cache has for the next, the cache is   *)
(* right below.                                                            *)
LEMMA TriedOn ==
  ASSUME Plain, BoundsAssumption, TokensAssumption, BlocksAssumption, text \in [Lines -> Contents],
         NEW T, NEW a \in Nat, NEW e \in 0 .. MaxLines, TreeTrue(text, T, a),
         Sig(OpenLevels(T, searchLine(T, a + 1).found)) = Stack(text, a + 1),
         \A k \in a + 1 .. e - 1 : Sig(OpenLevels(T, searchLine(T, k + 1).found))
                                     = LineSig(Sig(OpenLevels(T, searchLine(T, k).found)), text[k])
  PROVE  TreeTrue(text, T, e)
<1>. DEFINE G(n) == Sig(OpenLevels(T, searchLine(T, n).found))
            S == {n \in Nat : n <= e => G(n) = Stack(text, n)}
<1>. DEFINE tx == text
<1>1. tx \in [Lines -> Contents] /\ AtStart = {}
  BY DEF Plain
<1>. HIDE DEF tx
<1>2. \A l \in Lines : Stack(tx, l + 1) = LineSig(Stack(tx, l), tx[l])
  BY <1>1, StackIs
<1>3. \A l \in 0 .. a : G(l) = Stack(tx, l)
  BY DEF TreeTrue, tx
<1>4. G(a + 1) = Stack(tx, a + 1)
  BY DEF tx
<1>5. \A k \in a + 1 .. e - 1 : G(k + 1) = LineSig(G(k), tx[k])
  BY DEF tx
<1>. HIDE DEF G
<1>6. e \in Nat /\ e <= MaxLines /\ MaxLines \in Nat
  BY DEF BoundsAssumption
<1>7. 0 \in S
  <2>1. 0 \in 0 .. a
    OBVIOUS
  <2>. QED
    BY <1>3, <2>1 DEF tx
<1>8. ASSUME NEW n \in Nat, n \in S PROVE n + 1 \in S
  <2>1. SUFFICES ASSUME n + 1 <= e PROVE G(n + 1) = Stack(text, n + 1)
    OBVIOUS
  <2>2. CASE n + 1 <= a
    BY <1>3, <2>2 DEF tx
  <2>3. CASE n = a
    BY <1>4, <2>3 DEF tx
  <2>4. CASE n > a
    <3>1. n \in a + 1 .. e - 1 /\ n \in Lines /\ n <= e
      BY <1>6, <2>1, <2>4 DEF Lines
    <3>2. G(n) = Stack(text, n)
      BY <1>8, <3>1
    <3>. QED
      BY <1>2, <1>5, <3>1, <3>2 DEF tx
  <2>. QED
    BY <2>2, <2>3, <2>4
<1>9. Nat \subseteq S
  <2>. HIDE DEF S
  <2>. QED
    BY <1>7, <1>8, SetInduction
<1>10. \A l \in 0 .. e : G(l) = Stack(text, l)
  BY <1>6, <1>9
<1>. QED
  BY <1>10 DEF TreeTrue, G

(* The tree while it is rebuilt is right for the lines known before.       *)
LEMMA RisenTrue ==
  ASSUME BoundsAssumption, IInv, OInv, ~Idle, Updating, Rebuilt, call.line <= line
  PROVE  TreeTrue(text, tree, call.line)
<1>. DEFINE T == tree  p == parent  b == Base(parent, frames)  tx == text  ln == line  from == call.line
<1>1. Rising(T, p, forward, frames, ln)
  BY DEF OInv
<1>2. GoodTree(T) /\ p \in DOMAIN T
  BY DEF IInv, Standing, Idle
<1>3. Sorted(T) /\ \A n \in DOMAIN T \ Above(T, p) : Within(T, n)
  BY <1>1 DEF Rising
<1>4. (\A n \in Above(T, p) : from <= T[n].eline) /\ Tips(tx, T, p, b, from, ln)
  BY DEF Rebuilt
<1>5. ln \in Nat /\ from \in Nat /\ from <= ln
  BY BoundsAssumption DEF IInv, Typed, Lines
<1>. HIDE DEF T, p, b, tx, ln, from
<1>6. TreeTrue(tx, T, from)
  BY <1>2, <1>3, <1>4, <1>5, TipsFound
<1>. QED
  BY <1>6 DEF T, tx, from

(* The end of parse().                                                     *)
LEMMA ParseReturnsTrue ==
  ASSUME Plain, IInv, IInv', OInv, FInv, ParseReturns
  PROVE  FInv'
<1>1. /\ pc = "return" /\ Len(frames) = 1 /\ parent = RootId /\ ~Idle /\ Idle'
      /\ valid' = IF Updating THEN endLine + 1
                  ELSE IF Trying /\ ~Unchanged THEN call.line ELSE valid
      /\ call' = NoCall /\ frames' = <<>> /\ ~breakParsing' /\ ~gone' /\ UNCHANGED <<text, tree>>
  BY DEF ParseReturns, Idle, FirstInvalid
<1>2. /\ LevelsAgree /\ Rebuilt /\ Cached /\ TrySame /\ TryCounts /\ Turn /\ Follows
  BY <1>1 DEF FInv
<1>3. /\ line \in Nat /\ stop \in Nat /\ line <= stop /\ filled /\ valid \in 0 .. MaxLines
      /\ call.line \in Nat /\ call.line <= line /\ call.line \in Lines
      /\ (line < stop => clearLine = line) /\ (line = stop => endLine = stop - 1)
  BY <1>1, <1>2, BoundsAssumption DEF IInv, Typed, Turn, Lines
<1>4. line = stop
  <2>1. SUFFICES ASSUME line < stop PROVE FALSE
    BY <1>3
  <2>2. OpenHere # <<>>
    BY <1>1, <1>2, <1>3, <2>1 DEF Follows, Place_return
  <2>3. OpenHere = OpenLevels(tree, RootId)
    BY <1>1, OneFrame
  <2>4. OpenLevels(tree, RootId) = <<>>
    BY GoodLevels DEF IInv
  <2>. QED
    BY <2>2, <2>3, <2>4
<1>5. ~Updating' /\ ~Trying' /\ Known' = valid'
  BY <1>1 DEF Updating, Trying, NoCall, Known
<1>6. LevelsAgree'
  <2>1. Len(frames') = 0
    BY <1>1
  <2>. QED
    BY <1>1, <1>2, <2>1 DEF LevelsAgree
<1>7. TreeTrue(text, tree, valid')
  <2>1. CASE Updating
    <3>. DEFINE T == tree  b == Base(parent, frames)  tx == text  ln == line
    <3>1. Rising(T, RootId, forward, frames, ln) /\ Rooted(T)
      BY <1>1, <2>1 DEF OInv
    <3>2. GoodTree(T) /\ RootId \in DOMAIN T
      <4>1. GoodTree(tree)
        BY DEF IInv
      <4>. QED
        BY <4>1, GoodLevels
    <3>3. Sorted(T) /\ \A n \in DOMAIN T \ Above(T, RootId) : Within(T, n)
      BY <3>1 DEF Rising
    <3>4. Tips(tx, T, RootId, b, call.line, ln)
      BY <1>1, <1>2, <2>1 DEF Rebuilt
    <3>5. \A n \in Above(T, RootId) : ln <= T[n].eline
      <4>1. Above(T, RootId) = {RootId}
        BY <3>2, AboveIs DEF GoodTree
      <4>2. ln <= Unended
        BY BoundsAssumption DEF IInv, Typed, Unended
      <4>. QED
        BY <3>1, <4>1, <4>2 DEF Rooted
    <3>6. ln \in Nat /\ ln <= ln
      BY <1>3
    <3>7. valid' = ln
      BY <1>1, <1>3, <1>4, <2>1
    <3>. HIDE DEF T, b, tx, ln
    <3>8. TreeTrue(tx, T, ln)
      BY <3>2, <3>3, <3>4, <3>5, <3>6, TipsFound
    <3>. QED
      BY <3>7, <3>8 DEF T, tx
  <2>2. CASE ~Updating /\ ~Trying
    BY <1>1, <1>2, <2>2 DEF Cached, Known
  <2>3. CASE Trying
    <3>1. ~Updating
      BY <2>3 DEF Updating, Trying
    <3>2. /\ call.line < valid /\ stop = call.line + 1 /\ Sig(expected) = Sig(CachedLevels(stop))
          /\ \A k \in stop .. valid - 1 : Sig(CachedLevels(k + 1)) = LineSig(Sig(CachedLevels(k)), text[k])
          /\ \A i \in 1 .. Len(expected) : Proper(expected[i])
      BY <1>2, <2>3 DEF TrySame
    <3>3. Known = call.line
      BY <1>3, <2>3, <3>2 DEF Known, Least
    <3>4. TreeTrue(text, tree, call.line)
      BY <1>2, <3>1, <3>3 DEF Cached
    <3>5. CASE ~Unchanged
      BY <1>1, <2>3, <3>1, <3>4, <3>5
    <3>6. CASE Unchanged
      <4>1. valid' = valid
        BY <1>1, <3>1, <3>6
      <4>2. Sig(tryStack) = Stack(text, stop) /\ \A i \in 1 .. Len(tryStack) : Proper(tryStack[i])
        BY <1>2, <1>4, <2>3 DEF TryCounts
      <4>3. Sig(tryStack) = Sig(expected)
        <5>. DEFINE u == tryStack  v == expected
        <5>1. u \in Seq(Levels) /\ v \in Seq(Levels)
          BY DEF IInv, Typed
        <5>2. Len(u) = Len(v) /\ \A i \in DOMAIN v : sameTryLevel(u[i], v[i])
          BY <3>6 DEF Unchanged
        <5>3. \A i \in 1 .. Len(u) : Proper(u[i])
          BY <4>2
        <5>4. \A i \in 1 .. Len(v) : Proper(v[i])
          BY <3>2
        <5>. HIDE DEF u, v
        <5>5. \A i \in 1 .. Len(v) : sameTryLevel(u[i], v[i])
          BY <5>1, <5>2
        <5>6. Sig(u) = Sig(v)
          BY <5>1, <5>2, <5>3, <5>4, <5>5, SameTry
        <5>. QED
          BY <5>6 DEF u, v
      <4>4. Sig(OpenLevels(tree, searchLine(tree, call.line + 1).found)) = Stack(text, call.line + 1)
        BY <3>2, <4>2, <4>3 DEF CachedLevels
      <4>5. \A k \in call.line + 1 .. valid - 1 :
              Sig(OpenLevels(tree, searchLine(tree, k + 1).found))
                = LineSig(Sig(OpenLevels(tree, searchLine(tree, k).found)), text[k])
        BY <3>2 DEF CachedLevels
      <4>6. text \in [Lines -> Contents] /\ call.line \in Nat /\ valid \in 0 .. MaxLines
        BY <1>3 DEF IInv, Typed
      <4>7. TreeTrue(text, tree, valid)
        <5>. DEFINE T == tree  a == call.line  e == valid
        <5>1. /\ Sig(OpenLevels(T, searchLine(T, a + 1).found)) = Stack(text, a + 1)
              /\ TreeTrue(text, T, a) /\ a \in Nat /\ e \in 0 .. MaxLines
          BY <3>4, <4>4, <4>6
        <5>2. \A k \in a + 1 .. e - 1 : Sig(OpenLevels(T, searchLine(T, k + 1).found))
                                     = LineSig(Sig(OpenLevels(T, searchLine(T, k).found)), text[k])
          BY <4>5
        <5>. HIDE DEF T, a, e
        <5>3. TreeTrue(text, T, e)
          BY <4>6, <5>1, <5>2, BoundsAssumption, TokensAssumption, BlocksAssumption, TriedOn
        <5>. QED
          BY <5>3 DEF T, e
      <4>. QED
        BY <4>1, <4>7
    <3>. QED
      BY <3>5, <3>6
  <2>. QED
    BY <2>1, <2>2, <2>3
<1>8. Cached'
  BY <1>1, <1>5, <1>7 DEF Cached
<1>9. Rebuilt' /\ TrySame'
  BY <1>1, <1>5 DEF Rebuilt, TrySame
<1>. QED
  BY <1>1, <1>6, <1>8, <1>9 DEF FInv

(* The levels open in a node are of the kind \M-less grammars have.        *)
LEMMA OpenProper ==
  ASSUME NEW T, GoodTree(T), Leveled(T), NEW n \in DOMAIN T
  PROVE  \A i \in 1 .. Len(OpenLevels(T, n)) : Proper(OpenLevels(T, n)[i])
<1>. DEFINE V == {x \in Levels : Proper(x)}
<1>1. IsTree(T, AllLevels) /\ \A m \in DOMAIN T \ {RootId} : T[m].level \in V
  BY DEF GoodTree, Leveled
<1>. HIDE DEF V
<1>2. OpenLevels(T, n) \in Seq(V)
  BY <1>1, OpenLevelsOf
<1>3. \A i \in 1 .. Len(OpenLevels(T, n)) : OpenLevels(T, n)[i] \in V
  BY <1>2
<1>. QED
  BY <1>3 DEF V

(* A tree that differs in its cursors only has the same levels.            *)
LEMMA SameFound ==
  ASSUME BoundsAssumption, NEW T, Rested(T), NEW R, AsBefore(T, R), NEW l \in 0 .. MaxLines
  PROVE  OpenLevels(R, searchLine(R, l).found) = OpenLevels(T, searchLine(T, l).found)
<1>1. /\ Rested(R) /\ DOMAIN R = DOMAIN T
      /\ \A n \in DOMAIN T : /\ R[n].parent = T[n].parent /\ R[n].sline = T[n].sline
                             /\ R[n].eline = T[n].eline /\ R[n].level = T[n].level
  BY DEF AsBefore
<1>2. searchLine(R, l).found = searchLine(T, l).found
  BY <1>1, SearchSame
<1>3. searchLine(T, l).found \in DOMAIN T
  BY BoundsAssumption, SearchGood DEF Rested, GoodTree
<1>4. \A n \in DOMAIN T : OpenLevels(R, n) = OpenLevels(T, n)
  BY <1>1, SearchSame
<1>. QED
  BY <1>2, <1>3, <1>4

(* So it is right for the same lines.                                      *)
LEMMA SameTrue ==
  ASSUME BoundsAssumption, NEW T, Rested(T), NEW R, AsBefore(T, R), NEW e \in 0 .. MaxLines, NEW tx,
         TreeTrue(tx, T, e)
  PROVE  TreeTrue(tx, R, e)
<1>1. \A l \in 0 .. e : l \in 0 .. MaxLines
  BY DEF BoundsAssumption
<1>. QED
  BY <1>1, SameFound DEF TreeTrue

(* The tree a search leaves is such a tree.                                *)
LEMMA SearchAsBefore ==
  ASSUME BoundsAssumption, NEW T, Rested(T), NEW ln \in Nat
  PROVE  AsBefore(T, searchLine(T, ln).tree) /\ (Leveled(T) => Leveled(searchLine(T, ln).tree))
<1>. DEFINE R == searchLine(T, ln).tree
<1>1. /\ Rested(R) /\ DOMAIN R = DOMAIN T
      /\ \A n \in DOMAIN T :
              /\ R[n].parent = T[n].parent /\ R[n].sline = T[n].sline
              /\ R[n].eline = T[n].eline /\ R[n].level = T[n].level
  BY SearchLeaves
<1>2. RootId \in DOMAIN T
  BY GoodLevels DEF Rested
<1>. HIDE DEF R
<1>3. AsBefore(T, R)
  BY <1>1 DEF AsBefore
<1>4. Leveled(T) => Leveled(R)
  BY <1>1, <1>2 DEF Leveled
<1>. QED
  BY <1>3, <1>4 DEF R

(* Two such trees in turn.                                                 *)
LEMMA AsBeforeTwice ==
  ASSUME NEW T, NEW S, NEW R, AsBefore(T, S), AsBefore(S, R)
  PROVE  AsBefore(T, R)
BY DEF AsBefore

(* A parse begins in levels that are those of the text.                    *)
LEMMA EntersTrue ==
  ASSUME Plain, IInv', NEW T, Rested(T), Leveled(T),
         NEW kind \in {"update", "read", "off", "try"},
         NEW from \in Lines, NEW num \in Nat \ {0}, parse(T, kind, from, num),
         Sig(OpenLevels(T, FoundFor(T, kind, from))) = Stack(text', from)
  PROVE  /\ ~Idle' /\ ~breakParsing' /\ ~gone' /\ LevelsAgree' /\ Turn' /\ Follows'
         /\ call' = [kind |-> kind, line |-> from] /\ line' = from /\ stop' = from + num
         /\ Base(parent', frames') = parent' /\ parent' = FoundFor(T, kind, from) /\ pc' = "line"
         /\ OpenHere' = OpenLevels(T, parent')
<1>1. /\ ~Idle' /\ pc' = "line" /\ line' = from /\ stop' = from + num /\ gx' = 0
      /\ call' = [kind |-> kind, line |-> from]
      /\ clearLine' = -1 /\ ~filled' /\ ~breakParsing' /\ ~gone' /\ Len(frames') = 1
      /\ parent' = FoundFor(T, kind, from) /\ parent' \in DOMAIN T
      /\ LevelsAgree' /\ OpenHere' = OpenLevels(T, parent')
  BY ParseDoes
<1>2. from \in Nat /\ from # -1 /\ from < from + num
  BY BoundsAssumption DEF Lines
<1>3. Turn'
  <2>1. call'.line = from
    BY <1>1
  <2>2. from <= from /\ from <= from + num /\ from # from + num
    BY <1>2
  <2>. QED
    BY <1>1, <1>2, <2>1, <2>2 DEF Turn
<1>4. Here' = Stack(text', from)
  BY <1>1 DEF Here
<1>5. Place_line'
  <2>1. text'[from] \in Seq(Tokens)
    BY TokensAssumption DEF IInv, Typed
  <2>2. Reaches(Stack(text', from), text'[from], 0, Stack(text', from))
    BY <2>1, ReachStart
  <2>3. str' = text'[from]
    BY <1>1 DEF str
  <2>. QED
    BY <1>1, <1>4, <2>2, <2>3 DEF Place_line, At
<1>6. Waits'
  BY <1>1 DEF Waits
<1>7. Follows'
  BY <1>1, <1>5, <1>6 DEF Follows
<1>8. Base(parent', frames') = parent'
  BY <1>1 DEF Base
<1>. QED
  BY <1>1, <1>3, <1>7, <1>8

(* Between calls the tree is at rest and right for the lines known.        *)
LEMMA AtRest ==
  ASSUME IInv, OInv, FInv, Idle
  PROVE  /\ Rested(tree) /\ Leveled(tree) /\ TreeTrue(text, tree, valid) /\ valid \in 0 .. MaxLines
         /\ text \in [Lines -> Contents]
<1>1. Rested(tree)
  BY DEF IInv, OInv, Rested
<1>2. Leveled(tree)
  BY DEF FInv, LevelsAgree, Leveled
<1>3. ~Updating /\ ~Trying
  BY DEF FInv, NoCall, Updating, Trying
<1>4. TreeTrue(text, tree, valid)
  BY <1>3 DEF FInv, Cached, Known
<1>. QED
  BY <1>1, <1>2, <1>4 DEF IInv, Typed

(* The levels at the node a call of the client's goes on from are those of *)
(* the text.                                                               *)
LEMMA FoundTrue ==
  ASSUME Plain, BoundsAssumption, TokensAssumption, BlocksAssumption, NEW tx \in [Lines -> Contents],
         NEW T, Rested(T), NEW e \in 0 .. MaxLines, TreeTrue(tx, T, e), NEW kind, NEW from \in Lines,
         IF kind = "off" THEN from = 0 ELSE from <= e
  PROVE  Sig(OpenLevels(T, FoundFor(T, kind, from))) = Stack(tx, from)
<1>1. CASE kind = "off"
  <2>1. OpenLevels(T, RootId) = <<>>
    BY GoodLevels DEF Rested
  <2>2. Sig(<<>>) = <<>>
    <3>1. <<>> \in Seq(Levels)
      OBVIOUS
    <3>. QED
      BY <3>1, SigIs
  <2>3. Stack(tx, 0) = <<>>
    BY StackIs DEF Plain
  <2>. QED
    BY <1>1, <2>1, <2>2, <2>3 DEF FoundFor
<1>2. CASE kind # "off"
  <2>1. from \in 0 .. e
    BY <1>2, BoundsAssumption DEF Lines
  <2>. QED
    BY <1>2, <2>1 DEF FoundFor, TreeTrue
<1>. QED
  BY <1>1, <1>2

(* A call of parse() by the client.                                        *)
LEMMA ParseTrue ==
  ASSUME Plain, IInv, IInv', OInv, FInv, NEW kind \in {"update", "read", "off"}, NEW from \in Lines,
         NEW num \in 1 .. MaxLines, Parse(kind, from, num)
  PROVE  FInv'
<1>0. /\ Idle /\ parse(tree, kind, from, num) /\ UNCHANGED <<text, edits, valid>>
      /\ kind = "update" => from = valid
      /\ kind = "read" => from <= valid
      /\ kind = "off" => from = 0
  BY DEF Parse, client
<1>1. /\ Rested(tree) /\ Leveled(tree) /\ TreeTrue(text, tree, valid) /\ valid \in 0 .. MaxLines
      /\ text \in [Lines -> Contents]
  BY <1>0, AtRest
<1>. DEFINE T == tree  tx == text  e == valid
<1>2. /\ Rested(T) /\ Leveled(T) /\ TreeTrue(tx, T, e) /\ e \in 0 .. MaxLines
      /\ tx \in [Lines -> Contents] /\ parse(T, kind, from, num) /\ text' = tx /\ valid' = e
  BY <1>0, <1>1
<1>3. num \in Nat \ {0} /\ from \in Nat /\ from \in 0 .. MaxLines
  BY BoundsAssumption DEF Lines
<1>4. IF kind = "off" THEN from = 0 ELSE from <= e
  BY <1>0, <1>3
<1>5. kind = "update" => from = e
  BY <1>0
<1>6. kind \in {"update", "read", "off", "try"} /\ kind # "try"
  OBVIOUS
<1>. HIDE DEF T, tx, e
<1>7. Sig(OpenLevels(T, FoundFor(T, kind, from))) = Stack(tx, from)
  BY <1>2, <1>4, FoundTrue, BoundsAssumption, TokensAssumption, BlocksAssumption
<1>8. /\ ~Idle' /\ ~breakParsing' /\ ~gone' /\ LevelsAgree' /\ Turn' /\ Follows'
      /\ call' = [kind |-> kind, line |-> from] /\ line' = from
      /\ Base(parent', frames') = parent' /\ parent' = FoundFor(T, kind, from)
  <2>1. Sig(OpenLevels(T, FoundFor(T, kind, from))) = Stack(text', from)
    BY <1>2, <1>7
  <2>2. /\ Plain /\ IInv' /\ Rested(T) /\ Leveled(T) /\ kind \in {"update", "read", "off", "try"}
        /\ from \in Lines /\ num \in Nat \ {0} /\ parse(T, kind, from, num)
    BY <1>2, <1>3, <1>6
  <2>. QED
    <3>1. ~Idle' /\ Turn' /\ Follows'
      BY <2>1, <2>2, EntersTrue
    <3>2. ~breakParsing' /\ ~gone'
      BY <2>1, <2>2, EntersTrue
    <3>3. LevelsAgree'
      BY <2>1, <2>2, EntersTrue
    <3>4. /\ call' = [kind |-> kind, line |-> from] /\ line' = from /\ Len(frames') = 1
          /\ parent' = FoundFor(T, kind, from)
      BY <2>2, ParseDoes
    <3>5. Base(parent', frames') = parent'
      BY <3>4 DEF Base
    <3>. QED
      BY <3>1, <3>2, <3>3, <3>4, <3>5
<1>9. /\ kind # "update" => AsBefore(T, tree')
      /\ kind = "update" =>
              /\ TrimsTo(searchLine(T, from).tree, parent', searchLine(T, from).forward, tree')
              /\ tree'[parent'].level = searchLine(T, from).tree[parent'].level
  BY <1>2, <1>6, ParseDoes
<1>10. ~Trying' /\ (Updating' <=> kind = "update") /\ call'.line = from
  BY <1>6, <1>8 DEF Trying, Updating
<1>11. Cached'
  <2>1. Known' = e
    BY <1>2, <1>10 DEF Known
  <2>2. kind # "update" => TreeTrue(tx, tree', e)
    BY <1>2, <1>9, SameTrue, BoundsAssumption
  <2>. QED
    BY <1>2, <1>10, <2>1, <2>2 DEF Cached
<1>12. TrySame' /\ TryCounts'
  BY <1>10 DEF TrySame, TryCounts
<1>13. Rebuilt'
  <2>. SUFFICES ASSUME kind = "update" PROVE Rebuilt'
    BY <1>10 DEF Rebuilt
  <2>1. /\ from = e /\ parent' = searchLine(T, from).found
        /\ TrimsTo(searchLine(T, from).tree, parent', searchLine(T, from).forward, tree')
        /\ tree'[parent'].level = searchLine(T, from).tree[parent'].level
    BY <1>5, <1>8, <1>9 DEF FoundFor
  <2>. DEFINE s == searchLine(T, from)  R == tree'
  <2>2. /\ s = searchLine(T, from) /\ TrimsTo(s.tree, s.found, s.forward, R)
        /\ R[s.found].level = s.tree[s.found].level /\ R = tree' /\ s.found = parent'
    BY <2>1
  <2>. HIDE DEF s, R
  <2>3. \A l \in 0 .. from : Sig(OpenLevels(T, searchLine(T, l).found)) = Stack(tx, l)
    BY <1>2, <2>1 DEF TreeTrue
  <2>4. /\ Tips(tx, R, s.found, s.found, from, from)
        /\ \A n \in Above(R, s.found) : from <= R[n].eline
        /\ s.found \in Above(R, s.found)
    BY <1>2, <1>3, <2>2, <2>3, TipsStart, BoundsAssumption
  <2>. QED
    BY <1>2, <1>8, <1>10, <2>1, <2>2, <2>4 DEF Rebuilt
<1>. QED
  BY <1>8, <1>11, <1>12, <1>13 DEF FInv

(* Text ty is tx but for line l. *)
Edited(tx, l, ty) == ty \in [Lines -> Contents] /\ \A k \in Lines : k # l => ty[k] = tx[k]

(* That leaves the levels at the starts of the lines to it.                *)
LEMMA EditAbove ==
  ASSUME Plain, NEW tx \in [Lines -> Contents],
         NEW l \in Lines, NEW ty, Edited(tx, l, ty)
  PROVE  \A k \in 0 .. l : Stack(ty, k) = Stack(tx, k)
<1>1. ty \in [Lines -> Contents] /\ \A k \in Lines : k # l => ty[k] = tx[k]
  BY DEF Edited
<1>2. l \in 0 .. MaxLines /\ \A k \in 0 .. l - 1 : k \in Lines /\ k # l
  BY BoundsAssumption DEF Lines
<1>3. \A k \in 0 .. l - 1 : ty[k] = tx[k]
  BY <1>1, <1>2
<1>4. AtStart = {}
  BY DEF Plain
<1>. QED
  BY <1>1, <1>2, <1>3, <1>4, StackAbove, BoundsAssumption, TokensAssumption, BlocksAssumption

(* A tree stays right for the lines to the one edited.                     *)
LEMMA EditTrue ==
  ASSUME Plain, NEW tx \in [Lines -> Contents],
         NEW l \in Lines, NEW ty, Edited(tx, l, ty),
         NEW T, NEW e \in 0 .. MaxLines, TreeTrue(tx, T, e), NEW d \in Nat, d <= l, d <= e
  PROVE  TreeTrue(ty, T, d)
<1>1. \A k \in 0 .. d : k \in 0 .. l /\ k \in 0 .. e
  BY BoundsAssumption DEF Lines
<1>2. \A k \in 0 .. l : Stack(ty, k) = Stack(tx, k)
  BY EditAbove
<1>. QED
  BY <1>1, <1>2 DEF TreeTrue

(* What tryParseLine compares, right after its two searches: tree T, and R *)
(* after them, for line l of text tx, known to line e.                     *)
LEMMA TryBegins ==
  ASSUME Plain, NEW tx \in [Lines -> Contents],
         NEW l \in Lines, NEW ty, Edited(tx, l, ty),
         NEW T, Rested(T), NEW R, AsBefore(T, R), NEW e \in 0 .. MaxLines, l < e, TreeTrue(tx, T, e)
  PROVE  /\ TreeTrue(ty, R, l)
         /\ OpenLevels(R, searchLine(R, l + 1).found) = OpenLevels(T, searchLine(T, l + 1).found)
         /\ \A k \in l + 1 .. e - 1 : Sig(OpenLevels(R, searchLine(R, k + 1).found))
                                        = LineSig(Sig(OpenLevels(R, searchLine(R, k).found)), ty[k])
<1>1. TreeTrue(tx, R, e)
  BY SameTrue, BoundsAssumption
<1>2. l \in Nat /\ l <= l /\ l <= e /\ l + 1 \in 0 .. MaxLines
  BY BoundsAssumption DEF Lines
<1>3. TreeTrue(ty, R, l)
  BY <1>1, <1>2, EditTrue
<1>4. OpenLevels(R, searchLine(R, l + 1).found) = OpenLevels(T, searchLine(T, l + 1).found)
  BY <1>2, SameFound, BoundsAssumption
<1>5. ASSUME NEW k \in l + 1 .. e - 1
      PROVE  Sig(OpenLevels(R, searchLine(R, k + 1).found))
               = LineSig(Sig(OpenLevels(R, searchLine(R, k).found)), ty[k])
  <2>1. k \in 0 .. e /\ k + 1 \in 0 .. e /\ k \in Lines /\ k # l
    BY <1>2, BoundsAssumption DEF Lines
  <2>2. /\ Sig(OpenLevels(R, searchLine(R, k + 1).found)) = Stack(tx, k + 1)
        /\ Sig(OpenLevels(R, searchLine(R, k).found)) = Stack(tx, k)
    BY <1>1, <2>1 DEF TreeTrue
  <2>3. Stack(tx, k + 1) = LineSig(Stack(tx, k), tx[k])
    BY <2>1, StackIs, BoundsAssumption, TokensAssumption, BlocksAssumption DEF Plain
  <2>4. ty[k] = tx[k]
    BY <2>1 DEF Edited
  <2>. QED
    BY <2>2, <2>3, <2>4
<1>. QED
  BY <1>3, <1>4, <1>5

(* A call of tryParseLine.                                                 *)
LEMMA TryParseLineTrue ==
  ASSUME Plain, IInv, IInv', OInv, FInv, NEW l \in Lines, NEW c \in Contents, TryParseLine(l, c)
  PROVE  FInv'
<1>. DEFINE N == searchLine(tree, l + 1).tree
            H == searchLine(N, l).tree
            T == tree  tx == text  ty == text'  e == valid  R == tree'
<1>0. /\ Idle /\ ty = [tx EXCEPT ![l] = c] /\ l < e /\ valid' = e
      /\ expected' = OpenLevels(T, searchLine(T, l + 1).found)
      /\ tryStack' = OpenLevels(T, searchLine(N, l).found)
      /\ parse(H, "try", l, 1) /\ ~tryMismatch'
      /\ N = searchLine(T, l + 1).tree /\ H = searchLine(N, l).tree
      /\ ty = text' /\ R = tree'
  BY DEF TryParseLine, EditLine
<1>1. /\ Rested(T) /\ Leveled(T) /\ TreeTrue(tx, T, e) /\ e \in 0 .. MaxLines
      /\ tx \in [Lines -> Contents] /\ Edited(tx, l, ty)
  BY <1>0, AtRest DEF Edited
<1>2. l \in Nat /\ l + 1 \in Nat /\ l \in 0 .. MaxLines /\ l + 1 \in 0 .. MaxLines /\ e \in Nat /\ 1 \in Nat \ {0}
  BY <1>1, BoundsAssumption DEF Lines
<1>. HIDE DEF N, H, T, tx, ty, e, R
<1>3. AsBefore(T, N) /\ Leveled(N)
  BY <1>0, <1>1, <1>2, SearchAsBefore, BoundsAssumption
<1>4. Rested(N) /\ searchLine(N, l).found = searchLine(T, l).found
  <2>1. /\ Rested(N) /\ DOMAIN N = DOMAIN T
        /\ \A n \in DOMAIN T : /\ N[n].parent = T[n].parent /\ N[n].sline = T[n].sline
                               /\ N[n].eline = T[n].eline /\ N[n].level = T[n].level
    BY <1>3 DEF AsBefore
  <2>. QED
    BY <1>1, <1>2, <2>1, SearchSame, BoundsAssumption
<1>5. AsBefore(N, H) /\ Leveled(H)
  BY <1>0, <1>2, <1>3, <1>4, SearchAsBefore, BoundsAssumption
<1>6. AsBefore(T, H)
  BY <1>3, <1>5, AsBeforeTwice
<1>7. Rested(H)
  BY <1>6 DEF AsBefore
<1>8. FoundFor(H, "try", l) = searchLine(H, l).found
  BY DEF FoundFor
<1>9. OpenLevels(H, searchLine(H, l).found) = OpenLevels(T, searchLine(T, l).found)
  BY <1>1, <1>2, <1>6, SameFound, BoundsAssumption
<1>10. Sig(OpenLevels(H, FoundFor(H, "try", l))) = Stack(text', l)
  <2>1. Sig(OpenLevels(T, searchLine(T, l).found)) = Stack(tx, l)
    <3>1. l \in 0 .. e
      BY <1>0, <1>2
    <3>. QED
      BY <1>1, <3>1 DEF TreeTrue
  <2>2. Stack(ty, l) = Stack(tx, l)
    <3>1. l \in 0 .. l
      BY <1>2
    <3>. QED
      BY <1>0, <1>1, <3>1, EditAbove
  <2>. QED
    BY <1>0, <1>8, <1>9, <2>1, <2>2
<1>11. /\ Plain /\ IInv' /\ Rested(H) /\ Leveled(H) /\ "try" \in {"update", "read", "off", "try"}
       /\ l \in Lines /\ 1 \in Nat \ {0} /\ parse(H, "try", l, 1)
  BY <1>0, <1>2, <1>5, <1>7
<1>12. /\ call' = [kind |-> "try", line |-> l] /\ line' = l /\ stop' = l + 1 /\ Len(frames') = 1
       /\ parent' = FoundFor(H, "try", l) /\ pc' = "line" /\ AsBefore(H, R)
       /\ ~Idle' /\ OpenHere' = OpenLevels(H, parent')
  BY <1>0, <1>11, ParseDoes
<1>13. ~Idle' /\ ~breakParsing' /\ ~gone' /\ LevelsAgree' /\ Turn' /\ Follows'
  BY <1>10, <1>11, EntersTrue
<1>14. Trying' /\ ~Updating' /\ call'.line = l
  BY <1>12 DEF Trying, Updating
<1>15. AsBefore(T, R)
  BY <1>6, <1>12, AsBeforeTwice
<1>16. /\ TreeTrue(ty, R, l)
       /\ OpenLevels(R, searchLine(R, l + 1).found) = OpenLevels(T, searchLine(T, l + 1).found)
       /\ \A k \in l + 1 .. e - 1 : Sig(OpenLevels(R, searchLine(R, k + 1).found))
                                        = LineSig(Sig(OpenLevels(R, searchLine(R, k).found)), ty[k])
  <2>1. /\ tx \in [Lines -> Contents] /\ l \in Lines /\ Edited(tx, l, ty) /\ Rested(T) /\ AsBefore(T, R)
        /\ e \in 0 .. MaxLines /\ l < e /\ TreeTrue(tx, T, e)
    BY <1>0, <1>1, <1>15
  <2>2. TreeTrue(ty, R, l)
    BY <2>1, TryBegins
  <2>3. OpenLevels(R, searchLine(R, l + 1).found) = OpenLevels(T, searchLine(T, l + 1).found)
    BY <2>1, TryBegins
  <2>4. \A k \in l + 1 .. e - 1 : Sig(OpenLevels(R, searchLine(R, k + 1).found))
                                        = LineSig(Sig(OpenLevels(R, searchLine(R, k).found)), ty[k])
    BY <2>1, TryBegins
  <2>. QED
    BY <2>2, <2>3, <2>4
<1>17. Cached'
  <2>1. Known' = l
    BY <1>0, <1>2, <1>14 DEF Known, Least
  <2>. QED
    BY <1>0, <1>16, <2>1 DEF Cached
<1>18. TrySame'
  <2>1. \A i \in 1 .. Len(expected') : Proper(expected'[i])
    <3>1. searchLine(T, l + 1).found \in DOMAIN T
      BY <1>1, <1>2, SearchGood, BoundsAssumption DEF Rested, GoodTree
    <3>2. GoodTree(T)
      BY <1>1 DEF Rested
    <3>. QED
      BY <1>0, <1>1, <3>1, <3>2, OpenProper
  <2>2. Sig(expected') = Sig(CachedLevels(stop))'
    BY <1>0, <1>12, <1>16 DEF CachedLevels
  <2>3. \A k \in stop' .. valid' - 1 : Sig(CachedLevels(k + 1))' = LineSig(Sig(CachedLevels(k))', text'[k])
    BY <1>0, <1>12, <1>16 DEF CachedLevels
  <2>. QED
    BY <1>0, <1>12, <1>14, <2>1, <2>2, <2>3 DEF TrySame
<1>19. TryCounts'
  <2>1. tryStack' = OpenHere'
    BY <1>0, <1>4, <1>8, <1>9, <1>12
  <2>2. \A i \in 1 .. Len(tryStack') : Proper(tryStack'[i])
    <3>1. searchLine(T, l).found \in DOMAIN T
      BY <1>1, <1>2, SearchGood, BoundsAssumption DEF Rested, GoodTree
    <3>2. GoodTree(T)
      BY <1>1 DEF Rested
    <3>. QED
      BY <1>0, <1>1, <1>4, <3>1, <3>2, OpenProper
  <2>3. line' # stop' /\ pc' # "return"
    BY <1>2, <1>12
  <2>. QED
    BY <1>0, <2>1, <2>2, <2>3 DEF TryCounts
<1>20. Rebuilt'
  BY <1>14 DEF Rebuilt
<1>. QED
  BY <1>13, <1>17, <1>18, <1>19, <1>20 DEF FInv

(* An edit that is not tried: the lines below are given up.                *)
LEMMA ModifyLineTrue ==
  ASSUME Plain, IInv, IInv', OInv, FInv, NEW l \in Lines, NEW c \in Contents, ModifyLine(l, c)
  PROVE  FInv'
<1>. DEFINE T == tree  tx == text  ty == text'  e == valid  d == valid'
<1>0. /\ Idle /\ pc' = pc /\ ty = [tx EXCEPT ![l] = c] /\ d = Least(e, l)
      /\ UNCHANGED <<tree, call, pc, frames, stop, parent, breakParsing, gone, expected>>
      /\ d = valid' /\ ty = text' /\ tree' = T
  BY DEF ModifyLine, EditLine, tries
<1>1. /\ Rested(T) /\ TreeTrue(tx, T, e) /\ e \in 0 .. MaxLines
      /\ tx \in [Lines -> Contents] /\ Edited(tx, l, ty)
  BY <1>0, AtRest DEF Edited
<1>2. Idle' /\ call = NoCall /\ call' = NoCall
  BY <1>0 DEF FInv, Idle
<1>3. ~Updating' /\ ~Trying' /\ ~Updating /\ ~Trying
  BY <1>2 DEF NoCall, Updating, Trying
<1>4. l \in Nat /\ e \in Nat /\ d \in Nat /\ d <= l /\ d <= e
  <2>1. l \in Nat /\ e \in Nat
    BY <1>1, BoundsAssumption DEF Lines
  <2>. QED
    BY <1>0, <2>1 DEF Least
<1>. HIDE DEF T, tx, ty, e, d
<1>5. TreeTrue(ty, T, d)
  BY <1>1, <1>4, EditTrue
<1>6. Cached'
  BY <1>0, <1>3, <1>5 DEF Cached, Known
<1>7. LevelsAgree'
  BY <1>0, <1>2 DEF FInv, LevelsAgree
<1>. QED
  BY <1>0, <1>2, <1>3, <1>6, <1>7 DEF FInv, Rebuilt, TrySame

(* A step that changes nothing.                                            *)
LEMMA StillTrue ==
  ASSUME FInv, UNCHANGED vars
  PROVE  FInv'
<1>0. UNCHANGED <<text, edits, valid, tree, call, pc, frames, gx, line, matchend, schemeStart, stop,
                  clearLine, endLine, stackLevel, parent, forward, filled, breakParsing, gone, handler,
                  expected, tryStack, tryMismatch>>
  BY DEF vars, client, cursor, tries
<1>1. /\ (Idle' <=> Idle) /\ (Updating' <=> Updating) /\ (Trying' <=> Trying) /\ Known' = Known
      /\ str' = str /\ Current' = Current /\ OpenHere' = OpenHere
  BY <1>0 DEF Idle, Updating, Trying, Known, str, Current, OpenHere
<1>2. Here' = Here
  BY <1>1 DEF Here
<1>3. LevelsAgree'
  BY <1>0, <1>1 DEF FInv, LevelsAgree
<1>4. Rebuilt'
  BY <1>0, <1>1 DEF FInv, Rebuilt
<1>5. Cached'
  BY <1>0, <1>1 DEF FInv, Cached
<1>6. TrySame'
  BY <1>0, <1>1 DEF FInv, TrySame, CachedLevels
<1>7. TryCounts <=> TryCounts'
  BY <1>0, <1>1 DEF TryCounts
<1>8. Turn <=> Turn'
  BY <1>0, <1>1 DEF Turn
<1>9. Follows <=> Follows'
  BY <1>0, <1>1, <1>2 DEF Follows, Place_line, Place_content, Place_return, Waits, At
<1>. QED
  BY <1>0, <1>1, <1>3, <1>4, <1>5, <1>6, <1>7, <1>8, <1>9 DEF FInv

(* A cache with nothing in it is right for no line known.                  *)
LEMMA InitFInv == Plain /\ Init => FInv
<1>. SUFFICES ASSUME Plain, Init PROVE FInv
  OBVIOUS
<1>1. IInv
  BY InitIInv
<1>2. /\ Idle /\ call = NoCall /\ ~breakParsing /\ ~gone /\ valid = 0 /\ tree = InitTree(None)
      /\ frames = <<>>
  BY DEF Init, Idle
<1>3. ~Updating /\ ~Trying
  BY <1>2 DEF NoCall, Updating, Trying
<1>4. DOMAIN tree = {RootId} /\ tree[RootId].level = None
  <2>1. DOMAIN InitTree(None) = {RootId}
    BY InitTreeIs
  <2>. QED
    BY <1>2, <2>1 DEF InitTree, NewNode
<1>5. LevelsAgree
  BY <1>2, <1>4 DEF LevelsAgree
<1>6. TreeTrue(text, tree, 0)
  <2>1. GoodTree(tree) /\ text \in [Lines -> Contents]
    BY <1>1 DEF IInv, Typed
  <2>2. searchLine(tree, 0).found = RootId
    <3>1. searchLine(tree, 0).found \in DOMAIN tree
      BY <2>1, SearchGood, BoundsAssumption
    <3>. QED
      BY <1>4, <3>1
  <2>3. OpenLevels(tree, RootId) = <<>>
    BY <2>1, GoodLevels
  <2>4. Sig(<<>>) = <<>>
    <3>1. <<>> \in Seq(Levels)
      OBVIOUS
    <3>. QED
      BY <3>1, SigIs
  <2>5. Stack(text, 0) = <<>>
    BY <2>1, StackIs, BoundsAssumption, TokensAssumption, BlocksAssumption DEF Plain
  <2>. QED
    BY <2>2, <2>3, <2>4, <2>5 DEF TreeTrue
<1>7. Cached
  BY <1>2, <1>3, <1>6 DEF Cached, Known
<1>. QED
  BY <1>2, <1>3, <1>5, <1>7 DEF FInv, Rebuilt, TrySame

(* What the theorems below leave out: a parse broken off, a host whose     *)
(* text is shorter than it said, and blocks nested deeper than colorize()  *)
(* goes.                                                                   *)
Disturbs == BreakParse \/ NullLine \/ (MatchBlock /\ stackLevel > MaxLevel)

(* Every other step keeps the invariant.                                   *)
LEMMA NextFInv == Plain /\ IInv /\ IInv' /\ OInv /\ FInv /\ [Next]_vars /\ [~Disturbs]_vars => FInv'
<1>. SUFFICES ASSUME Plain, IInv, IInv', OInv, FInv, [Next]_vars, [~Disturbs]_vars PROVE FInv'
  OBVIOUS
<1>1. CASE UNCHANGED vars
  BY <1>1, StillTrue
<1>. SUFFICES ASSUME Next, ~Disturbs PROVE FInv'
  BY <1>1
<1>2. CASE Client
  <2>1. ASSUME NEW kind \in {"update", "read", "off"}, NEW from \in Lines, NEW num \in 1 .. MaxLines,
               Parse(kind, from, num)
        PROVE  FInv'
    BY <2>1, ParseTrue
  <2>2. ASSUME NEW l \in Lines, NEW c \in Contents, ModifyLine(l, c) PROVE FInv'
    BY <2>2, ModifyLineTrue
  <2>3. ASSUME NEW l \in Lines, NEW c \in Contents, TryParseLine(l, c) PROVE FInv'
    BY <2>3, TryParseLineTrue
  <2>. QED
    BY <1>2, <2>1, <2>2, <2>3 DEF Client
<1>3. CASE OutOfLines
  BY <1>3, OutOfLinesTrue
<1>4. CASE StartLine
  BY <1>4, StartLineTrue
<1>5. CASE ContentOver
  BY <1>5, ContentOverTrue
<1>6. CASE Broken
  BY <1>6 DEF Broken, FInv
<1>7. CASE MatchBlock
  <2>1. stackLevel \in 0 .. MaxLevel + 1 /\ MaxLevel \in Nat
    BY BoundsAssumption DEF IInv, Control
  <2>2. ~(stackLevel > MaxLevel)
    BY <1>7 DEF Disturbs
  <2>3. stackLevel <= MaxLevel
    BY <2>1, <2>2
  <2>. QED
    BY <1>7, <2>3, MatchBlockTrue
<1>8. CASE MatchRegexp
  BY <1>8, MatchRegexpTrue
<1>9. CASE MatchNothing
  BY <1>9, MatchNothingTrue
<1>10. CASE BlockReturns
  BY <1>10, BlockReturnsTrue
<1>11. CASE ParentReturns
  BY <1>11, ParentReturnsTrue
<1>12. CASE ParseReturns
  BY <1>12, ParseReturnsTrue
<1>13. ~BreakParse /\ ~NullLine
  BY DEF Disturbs
<1>. QED
  BY <1>2, <1>3, <1>4, <1>5, <1>6, <1>7, <1>8, <1>9, <1>10, <1>11, <1>12, <1>13 DEF Next, Parser

-----------------------------------------------------------------------------
(* What the runs check.                                                    *)

(* Levels that are the same in what matters have the same schemes and the  *)
(* same meaning.                                                           *)
LEMMA SameSig ==
  ASSUME NEW u \in Seq(Levels), NEW v \in Seq(Levels), Sig(u) = Sig(v)
  PROVE  /\ Len(u) = Len(v) /\ BlocksOf(u) = BlocksOf(v) /\ Meaning(u) = Meaning(v)
         /\ \A i \in 1 .. Len(u) : u[i].block = v[i].block /\ u[i].tag = v[i].tag /\ u[i].at = v[i].at
<1>1. Len(u) = Len(v) /\ DOMAIN u = 1 .. Len(u) /\ DOMAIN v = 1 .. Len(u)
  <2>1. Len(Sig(u)) = Len(u) /\ Len(Sig(v)) = Len(v)
    BY SigIs
  <2>2. Len(u) = Len(v)
    BY <2>1
  <2>. QED
    BY <2>2
<1>2. \A i \in 1 .. Len(u) : u[i].block = v[i].block /\ u[i].tag = v[i].tag /\ u[i].at = v[i].at
  <2>. SUFFICES ASSUME NEW i \in 1 .. Len(u)
                PROVE u[i].block = v[i].block /\ u[i].tag = v[i].tag /\ u[i].at = v[i].at
    OBVIOUS
  <2>1. i \in 1 .. Len(v)
    BY <1>1
  <2>2. Sig(u)[i] = SigOf(u[i]) /\ Sig(v)[i] = SigOf(v[i])
    BY <2>1, SigIs
  <2>. QED
    BY <2>2 DEF SigOf
<1>3. BlocksOf(u) = BlocksOf(v)
  BY <1>1, <1>2 DEF BlocksOf
<1>4. Meaning(u) = Meaning(v)
  BY <1>1, <1>2 DEF Meaning
<1>. QED
  BY <1>1, <1>2, <1>3, <1>4

(* The levels the cache has for a line are levels.                         *)
LEMMA CachedAre ==
  ASSUME IInv, NEW l \in 0 .. MaxLines
  PROVE  CachedLevels(l) \in Seq(Levels)
<1>1. GoodTree(tree)
  BY DEF IInv
<1>2. searchLine(tree, l).found \in DOMAIN tree
  BY <1>1, SearchGood, BoundsAssumption
<1>. QED
  BY <1>1, <1>2, GoodLevels DEF CachedLevels

(* The levels of the text are levels.                                      *)
LEMMA TrueAre ==
  ASSUME Plain, IInv, NEW l \in 0 .. MaxLines
  PROVE  TrueLevels[l] \in Seq(Levels) /\ Sig(TrueLevels[l]) = Stack(text, l)
<1>1. text \in [Lines -> Contents] /\ AtStart = {}
  BY DEF IInv, Typed, Plain
<1>2. TrueFrom(text)[l] \in Seq(Levels)
  BY <1>1, StackIs, BoundsAssumption, TokensAssumption, BlocksAssumption
<1>. QED
  BY <1>2, TrueOfText DEF Stack

(* For the lines known the cache is right at all times.                    *)
LEMMA TrueKnown ==
  ASSUME Plain, IInv, OInv, FInv
  PROVE  Known \in 0 .. MaxLines /\ TreeTrue(text, tree, Known)
<1>1. valid \in 0 .. MaxLines /\ call.line \in Lines
  BY DEF IInv, Typed
<1>2. Known \in 0 .. MaxLines
  <2>1. call.line \in 0 .. MaxLines
    BY <1>1, BoundsAssumption DEF Lines
  <2>. QED
    BY <1>1, <2>1 DEF Known, Least
<1>3. CASE Updating
  <2>1. ~Idle /\ ~Trying
    BY <1>3 DEF FInv, NoCall, Updating, Trying
  <2>2. Rebuilt /\ call.line = valid /\ call.line <= line
    BY <1>3, <2>1 DEF FInv, Rebuilt, Turn
  <2>3. TreeTrue(text, tree, call.line)
    BY <1>3, <2>1, <2>2, RisenTrue, BoundsAssumption
  <2>. QED
    BY <1>2, <2>1, <2>2, <2>3 DEF Known
<1>4. CASE ~Updating
  BY <1>2, <1>4 DEF FInv, Cached
<1>. QED
  BY <1>3, <1>4

(* So the cache has the levels of the text.                                *)
LEMMA CacheIs ==
  ASSUME Plain, IInv, OInv, FInv
  PROVE  \A l \in 0 .. Known : l \in 0 .. MaxLines /\ Sig(CachedLevels(l)) = Stack(text, l)
<1>1. Known \in 0 .. MaxLines /\ TreeTrue(text, tree, Known)
  BY TrueKnown
<1>2. \A l \in 0 .. Known : l \in 0 .. MaxLines
  BY <1>1, BoundsAssumption
<1>. QED
  BY <1>1, <1>2 DEF TreeTrue, CachedLevels

(* The invariant says what CacheTrue does.                                 *)
LEMMA CacheIsTrue ==
  ASSUME Plain, IInv, OInv, FInv
  PROVE  CacheTrue
<1>. SUFFICES ASSUME NEW l \in 0 .. Known PROVE Meaning(CachedLevels(l)) = Meaning(TrueLevels[l])
  BY DEF CacheTrue
<1>1. l \in 0 .. MaxLines /\ Sig(CachedLevels(l)) = Stack(text, l)
  BY CacheIs
<1>2. CachedLevels(l) \in Seq(Levels) /\ TrueLevels[l] \in Seq(Levels) /\ Sig(TrueLevels[l]) = Stack(text, l)
  BY <1>1, CachedAre, TrueAre
<1>. QED
  BY <1>1, <1>2, SameSig

(* It says what HandlerInScheme does.                                      *)
LEMMA HandlerIs ==
  ASSUME Plain, IInv, FInv
  PROVE  HandlerInScheme
<1>. SUFFICES ASSUME pc = "content", gx <= matchend.s
              PROVE handler = BlocksOf(ScanTo(TrueLevels[line], str, gx))
  BY DEF HandlerInScheme
<1>1. /\ ~Idle /\ line \in Lines /\ str \in Seq(Tokens) /\ LevelsAgree
      /\ At(gx, Here) /\ handler = BlocksOf(OpenHere)
  BY ContentIs
<1>2. OpenHere \in Seq(Levels)
  BY <1>1, InnerHere
<1>3. line \in 0 .. MaxLines
  BY <1>1, BoundsAssumption DEF Lines
<1>4. gx \in 0 .. Len(str) /\ Scanned(Stack(text, line), str)[gx].open = Here
  BY <1>1 DEF At, Reaches
<1>5. TrueLevels[line] \in Seq(Levels) /\ Sig(TrueLevels[line]) = Stack(text, line)
  BY <1>3, TrueAre
<1>6. AtStart = {}
  BY DEF Plain
<1>. DEFINE w == ScanTo(TrueLevels[line], str, gx)
<1>7. w \in Seq(Levels) /\ Sig(w) = Scanned(Sig(TrueLevels[line]), str)[gx].open
  BY <1>1, <1>4, <1>5, <1>6, ScanToIs, TokensAssumption, BlocksAssumption
<1>. HIDE DEF w
<1>8. Sig(w) = Sig(OpenHere)
  BY <1>4, <1>5, <1>7 DEF Here
<1>9. BlocksOf(w) = BlocksOf(OpenHere)
  BY <1>2, <1>7, <1>8, SameSig
<1>. QED
  BY <1>1, <1>9 DEF w

(* And what RereadAgrees does.                                             *)
LEMMA RereadIs ==
  ASSUME Plain, IInv, OInv, FInv
  PROVE  RereadAgrees
<1>. SUFFICES ASSUME pc = "line", call.kind = "read", filled, clearLine # line, line < stop, line <= valid
              PROVE handler = BlocksOf(CachedLevels(line))
  BY DEF RereadAgrees
<1>1. ~Idle /\ ~Trying /\ Known = valid
  BY DEF Idle, Trying, Known
<1>2. Turn /\ Follows /\ LevelsAgree
  BY <1>1 DEF FInv
<1>3. gx = 0 /\ At(gx, Here) /\ handler = BlocksOf(OpenHere)
  BY <1>2 DEF Turn, Follows, Place_line
<1>4. line \in Nat /\ stop \in 0 .. MaxLines /\ line \in Lines
  BY BoundsAssumption DEF IInv, Typed, Lines
<1>5. str \in Seq(Tokens)
  BY <1>4, TokensAssumption DEF IInv, Typed, str
<1>6. Here = Stack(text, line)
  <2>1. Scanned(Stack(text, line), str)[0] = [open |-> Stack(text, line), taken |-> FALSE]
    BY <1>5, ScannedIs
  <2>2. Scanned(Stack(text, line), str)[0] = [open |-> Here, taken |-> FALSE]
    BY <1>3 DEF At, Reaches
  <2>. QED
    BY <2>1, <2>2
<1>7. line \in 0 .. Known
  BY <1>1, <1>4, TrueKnown
<1>8. line \in 0 .. MaxLines /\ Sig(CachedLevels(line)) = Sig(OpenHere)
  BY <1>6, <1>7, CacheIs DEF Here
<1>9. CachedLevels(line) \in Seq(Levels) /\ OpenHere \in Seq(Levels)
  BY <1>1, <1>2, <1>8, CachedAre, InnerHere
<1>10. BlocksOf(CachedLevels(line)) = BlocksOf(OpenHere)
  BY <1>8, <1>9, SameSig
<1>. QED
  BY <1>3, <1>10

(* The invariants hold at all times, when nothing disturbs: whatever is    *)
(* edited, tried, parsed and read, the cache and the parse are where the   *)
(* text is (FInv; colorize, searchBL, parse, tryParseLine).                *)
THEOREM TextInvariant ==
  ASSUME Plain
  PROVE  Spec /\ [][~Disturbs]_vars => [](IInv /\ OInv /\ FInv)
<1>1. Init => FInv
  BY InitFInv
<1>2. IInv /\ IInv' /\ OInv /\ FInv /\ [Next]_vars /\ [~Disturbs]_vars => FInv'
  BY NextFInv
<1>. QED
  BY <1>1, <1>2, InvariantInTime, PTL DEF Spec

(* For every line the client takes for parsed the cache has the blocks     *)
(* that are open at its start, with all that their ends depend on          *)
(* (CacheTrue; colorize, searchBL, parse, tryParseLine).                   *)
THEOREM CacheIsRight ==
  ASSUME Plain
  PROVE  Spec /\ [][~Disturbs]_vars => []CacheTrue
<1>1. IInv /\ OInv /\ FInv => CacheTrue
  BY CacheIsTrue
<1>. QED
  BY <1>1, TextInvariant, PTL

(* At every place of every line the region handler is in the schemes open  *)
(* there, in whatever mode and from whatever line it is parsed             *)
(* (HandlerInScheme; colorize, fillInvisibleSchemes, leaveScheme).         *)
THEOREM HandlerIsRight ==
  ASSUME Plain
  PROVE  Spec /\ [][~Disturbs]_vars => []HandlerInScheme
<1>1. IInv /\ OInv /\ FInv => HandlerInScheme
  BY HandlerIs
<1>. QED
  BY <1>1, TextInvariant, PTL

(* A line read again is parsed in the schemes the cache has for it         *)
(* (RereadAgrees; parse with TPM_CACHE_READ).                              *)
THEOREM RereadIsRight ==
  ASSUME Plain
  PROVE  Spec /\ [][~Disturbs]_vars => []RereadAgrees
<1>1. IInv /\ OInv /\ FInv => RereadAgrees
  BY RereadIs
<1>. QED
  BY <1>1, TextInvariant, PTL

-----------------------------------------------------------------------------
(* What a line does depends on the meaning of the levels only.             *)

(* Levels as LineStacks has them, with nothing but their meaning.          *)
Bare == [block : Blocks, at : Nat, span : Tokens \cup {Untagged}, tag : Tokens \cup {Untagged}]
(* The same with the places their blocks began at.                         *)
Bares == [level : Bare, start : Int]
(* Levels of the same meaning.                                             *)
Alike(u, v) == u.block = v.block /\ u.tag = v.tag
(* A level of each for each of the other.                                  *)
Paired(o, open) ==
  Len(o) = Len(open) /\ \A i \in 1 .. Len(open) : Alike(o[i].level, open[i].level) /\ Proper(open[i].level)
(* States of AfterToken with levels of the same meaning.                   *)
Twins(x, y) ==
  \E o \in Seq(Bares), open \in Seq(Opens), taken \in BOOLEAN :
    x = StateOf(o, taken) /\ y = StateOf(open, taken) /\ Paired(o, open)

(* The innermost levels of such states.                                    *)
LEMMA PairedInner ==
  ASSUME BlocksAssumption, NEW o \in Seq(Bares), NEW open \in Seq(Opens), Paired(o, open)
  PROVE  /\ Alike(Innermost(o).level, Innermost(open).level)
         /\ Innermost(open).level.block \in Blocks \cup {Top}
         /\ Innermost(open).level.block # Top => o # <<>> /\ open # <<>>
<1>1. CASE open = <<>>
  <2>1. o = <<>>
    BY <1>1 DEF Paired
  <2>. QED
    BY <1>1, <2>1 DEF Innermost, Opened, Alike, None
<1>2. CASE open # <<>>
  <2>1. o # <<>> /\ Len(open) \in 1 .. Len(open) /\ Len(o) = Len(open)
    BY <1>2 DEF Paired
  <2>2. Innermost(o) = o[Len(open)] /\ Innermost(open) = open[Len(open)]
    BY <1>2, <2>1 DEF Innermost, Last
  <2>3. open[Len(open)].level \in Levels
    <3>1. open[Len(open)] \in Opens
      BY <2>1
    <3>. QED
      BY <3>1 DEF Opens
  <2>. QED
    BY <1>2, <2>1, <2>2, <2>3 DEF Paired, Levels
<1>. QED
  BY <1>1, <1>2

(* One more on each.                                                       *)
LEMMA PairedAppend ==
  ASSUME NEW o \in Seq(Bares), NEW open \in Seq(Opens), Paired(o, open),
         NEW x \in Opens, Proper(x.level)
  PROVE  Append(o, x) \in Seq(Bares) /\ Append(open, x) \in Seq(Opens) /\ Paired(Append(o, x), Append(open, x))
<1>1. x \in Bares
  BY DEF Opens, Bares, Levels, Bare
<1>. DEFINE u == Append(o, x)  v == Append(open, x)  n == Len(open)
<1>2. /\ u \in Seq(Bares) /\ v \in Seq(Opens) /\ n \in Nat /\ Len(u) = n + 1 /\ Len(v) = n + 1
      /\ u[n + 1] = x /\ v[n + 1] = x /\ \A i \in 1 .. n : u[i] = o[i] /\ v[i] = open[i]
  BY <1>1 DEF Paired
<1>3. \A i \in 1 .. n : Alike(o[i].level, open[i].level) /\ Proper(open[i].level)
  BY DEF Paired
<1>. HIDE DEF u, v, n
<1>4. ASSUME NEW i \in 1 .. n + 1 PROVE Alike(u[i].level, v[i].level) /\ Proper(v[i].level)
  <2>1. CASE i = n + 1
    BY <1>2, <2>1 DEF Alike
  <2>2. CASE i # n + 1
    <3>1. i \in 1 .. n
      BY <1>2, <2>2
    <3>. QED
      BY <1>2, <1>3, <3>1
  <2>. QED
    BY <2>1, <2>2
<1>5. Paired(u, v)
  BY <1>2, <1>4 DEF Paired
<1>. QED
  BY <1>2, <1>5 DEF u, v

(* One less on each.                                                       *)
LEMMA PairedFront ==
  ASSUME NEW o \in Seq(Bares), NEW open \in Seq(Opens), Paired(o, open), o # <<>>, open # <<>>
  PROVE  Front(o) \in Seq(Bares) /\ Front(open) \in Seq(Opens) /\ Paired(Front(o), Front(open))
<1>. DEFINE u == Front(o)  v == Front(open)  n == Len(open)
<1>1. Len(o) = n /\ \A i \in 1 .. n : Alike(o[i].level, open[i].level) /\ Proper(open[i].level)
  BY DEF Paired
<1>2. u \in Seq(Bares) /\ Len(u) = Len(o) - 1 /\ \A i \in 1 .. Len(o) - 1 : u[i] = o[i]
  BY FrontElements
<1>3. v \in Seq(Opens) /\ Len(v) = n - 1 /\ n \in Nat \ {0} /\ \A i \in 1 .. n - 1 : v[i] = open[i]
  BY FrontElements
<1>. HIDE DEF u, v, n
<1>4. ASSUME NEW i \in 1 .. n - 1 PROVE Alike(u[i].level, v[i].level) /\ Proper(v[i].level)
  <2>1. i \in 1 .. n
    BY <1>3
  <2>2. u[i] = o[i] /\ v[i] = open[i]
    BY <1>1, <1>2, <1>3
  <2>. QED
    BY <1>1, <2>1, <2>2
<1>5. Paired(u, v)
  BY <1>1, <1>2, <1>3, <1>4 DEF Paired
<1>. QED
  BY <1>2, <1>3, <1>5 DEF u, v

(* AfterToken does the same to both.                                       *)
LEMMA TwinsAfter ==
  ASSUME Plain, NEW x, NEW y, Twins(x, y), NEW s \in Seq(Tokens), NEW p \in Nat
  PROVE  Twins(AfterToken(x, s, p), AfterToken(y, s, p))
<1>0. PICK o \in Seq(Bares), open \in Seq(Opens), taken \in BOOLEAN :
        x = StateOf(o, taken) /\ y = StateOf(open, taken) /\ Paired(o, open)
  BY DEF Twins
<1>. DEFINE in == Innermost(open)  at == Innermost(o)
            found == StartsAt(in.level.block, s, p, in.start)
            level == LevelAt(CHOOSE b \in found : TRUE, s, p)
            more == Opened(level, p + 1)
<1>1. Alike(at.level, in.level) /\ in.level.block \in Blocks \cup {Top}
      /\ (in.level.block # Top => o # <<>> /\ open # <<>>)
  BY <1>0, PairedInner, BlocksAssumption
<1>2. AtStart = {} /\ Ahead = {}
  BY DEF Plain
<1>3. StartsAt(at.level.block, s, p, at.start) = found /\ found = StartsAt(in.level.block, s, p, -1)
  BY <1>1, <1>2, AnyStart DEF Alike
<1>4. IsEnd(at.level, Token(s, p)) = IsEnd(in.level, Token(s, p))
  BY <1>1 DEF IsEnd, Alike
<1>5. AfterToken(y, s, p) =
        IF taken THEN StateOf(open, FALSE)
        ELSE IF found # {} THEN StateOf(Append(open, more), FALSE)
        ELSE IF Token(s, p) \in Wide /\ p + 1 < Len(s) THEN StateOf(open, TRUE)
        ELSE IF IsEnd(in.level, Token(s, p)) THEN StateOf(Front(open), FALSE)
        ELSE StateOf(open, FALSE)
  BY <1>0, AfterTokenOf
<1>6. AfterToken(x, s, p) =
        IF taken THEN StateOf(o, FALSE)
        ELSE IF found # {} THEN StateOf(Append(o, more), FALSE)
        ELSE IF Token(s, p) \in Wide /\ p + 1 < Len(s) THEN StateOf(o, TRUE)
        ELSE IF IsEnd(in.level, Token(s, p)) THEN StateOf(Front(o), FALSE)
        ELSE StateOf(o, FALSE)
  <2>. DEFINE found2 == StartsAt(at.level.block, s, p, at.start)
              level2 == LevelAt(CHOOSE b \in found2 : TRUE, s, p)
  <2>1. AfterToken(StateOf(o, taken), s, p) =
          IF taken THEN StateOf(o, FALSE)
          ELSE IF found2 # {} THEN StateOf(Append(o, Opened(level2, p + 1)), FALSE)
          ELSE IF Token(s, p) \in Wide /\ p + 1 < Len(s) THEN StateOf(o, TRUE)
          ELSE IF IsEnd(at.level, Token(s, p)) THEN StateOf(Front(o), FALSE)
          ELSE StateOf(o, FALSE)
    BY AfterTokenOf
  <2>2. found2 = found
    BY <1>3
  <2>. HIDE DEF found2, found, at, in
  <2>. QED
    BY <1>0, <1>4, <2>1, <2>2
<1>7. found # {} => more \in Opens /\ Proper(more.level)
  <2>. SUFFICES ASSUME found # {} PROVE more \in Opens /\ Proper(more.level)
    OBVIOUS
  <2>1. PICK b \in found : b = CHOOSE z \in found : TRUE
    OBVIOUS
  <2>. DEFINE blk == in.level.block
  <2>2. b \in StartsAt(blk, s, p, -1) /\ blk \in Blocks \cup {Top}
    BY <1>1, <1>3
  <2>. HIDE DEF found, blk
  <2>3. LevelAt(b, s, p) \in Levels
    BY <2>2, StartLevel, TokensAssumption, BlocksAssumption
  <2>4. Proper(LevelAt(b, s, p))
    BY <1>2 DEF Proper, LevelAt
  <2>. QED
    BY <2>1, <2>3, <2>4 DEF Opened, Opens
<1>. HIDE DEF in, at, found, level, more
<1>8. CASE taken
  BY <1>0, <1>5, <1>6, <1>8 DEF Twins
<1>9. CASE ~taken /\ found # {}
  <2>1. /\ Append(o, more) \in Seq(Bares) /\ Append(open, more) \in Seq(Opens)
        /\ Paired(Append(o, more), Append(open, more))
    BY <1>0, <1>7, <1>9, PairedAppend
  <2>2. AfterToken(x, s, p) = StateOf(Append(o, more), FALSE) /\ AfterToken(y, s, p) = StateOf(Append(open, more), FALSE)
    BY <1>5, <1>6, <1>9
  <2>. QED
    BY <2>1, <2>2 DEF Twins
<1>10. CASE ~taken /\ found = {} /\ Token(s, p) \in Wide /\ p + 1 < Len(s)
  <2>1. AfterToken(x, s, p) = StateOf(o, TRUE) /\ AfterToken(y, s, p) = StateOf(open, TRUE)
    BY <1>5, <1>6, <1>10
  <2>. QED
    BY <1>0, <2>1 DEF Twins
<1>11. CASE ~taken /\ found = {} /\ ~(Token(s, p) \in Wide /\ p + 1 < Len(s)) /\ IsEnd(in.level, Token(s, p))
  <2>1. o # <<>> /\ open # <<>>
    BY <1>1, <1>11 DEF IsEnd
  <2>2. Front(o) \in Seq(Bares) /\ Front(open) \in Seq(Opens) /\ Paired(Front(o), Front(open))
    BY <1>0, <2>1, PairedFront
  <2>3. AfterToken(x, s, p) = StateOf(Front(o), FALSE) /\ AfterToken(y, s, p) = StateOf(Front(open), FALSE)
    BY <1>5, <1>6, <1>11
  <2>. QED
    BY <2>2, <2>3 DEF Twins
<1>12. CASE ~taken /\ found = {} /\ ~(Token(s, p) \in Wide /\ p + 1 < Len(s)) /\ ~IsEnd(in.level, Token(s, p))
  <2>1. AfterToken(x, s, p) = StateOf(o, FALSE) /\ AfterToken(y, s, p) = StateOf(open, FALSE)
    BY <1>5, <1>6, <1>12
  <2>. QED
    BY <1>0, <2>1 DEF Twins
<1>. QED
  BY <1>8, <1>9, <1>10, <1>11, <1>12

(* The state a line begins in, with levels of the same meaning.            *)
LEMMA TwinsFresh ==
  ASSUME NEW u \in Seq(Bare), NEW v \in Seq(Levels), Len(u) = Len(v),
         \A i \in 1 .. Len(v) : Alike(u[i], v[i]) /\ Proper(v[i])
  PROVE  Twins(Fresh(u), Fresh(v))
<1>. DEFINE o == [i \in DOMAIN u |-> Opened(u[i], -1)]
            open == [i \in DOMAIN v |-> Opened(v[i], -1)]
            n == Len(v)
<1>1. n \in Nat /\ DOMAIN u = 1 .. n /\ DOMAIN v = 1 .. n
  OBVIOUS
<1>2. \A i \in 1 .. n : u[i] \in Bare /\ v[i] \in Levels
  BY <1>1
<1>3. /\ \A x \in Bare : Opened(x, -1) \in Bares /\ Opened(x, -1).level = x
      /\ \A x \in Levels : Opened(x, -1) \in Opens /\ Opened(x, -1).level = x
  BY DEF Opened, Bares, Opens
<1>4. o \in [1 .. n -> Bares] /\ open \in [1 .. n -> Opens]
  BY <1>1, <1>2, <1>3
<1>5. \A i \in 1 .. n : o[i].level = u[i] /\ open[i].level = v[i]
  BY <1>1, <1>2, <1>3
<1>6. Fresh(u) = StateOf(o, FALSE) /\ Fresh(v) = StateOf(open, FALSE)
  BY DEF Fresh
<1>7. \A i \in 1 .. n : Alike(u[i], v[i]) /\ Proper(v[i])
  OBVIOUS
<1>. HIDE DEF o, open, n
<1>8. o \in Seq(Bares) /\ open \in Seq(Opens) /\ Len(o) = n /\ Len(open) = n
  BY <1>1, <1>4
<1>9. Paired(o, open)
  BY <1>5, <1>7, <1>8 DEF Paired
<1>. QED
  BY <1>6, <1>8, <1>9 DEF Twins

(* The levels of such states.                                              *)
LEMMA TwinsMean ==
  ASSUME NEW x, NEW y, Twins(x, y)
  PROVE  /\ Meaning(LevelsOf(x.open)) = Meaning(LevelsOf(y.open))
         /\ LevelsOf(y.open) \in Seq(Levels)
         /\ \A i \in 1 .. Len(LevelsOf(y.open)) : Proper(LevelsOf(y.open)[i])
<1>1. PICK o \in Seq(Bares), open \in Seq(Opens), taken \in BOOLEAN :
        x = StateOf(o, taken) /\ y = StateOf(open, taken) /\ Paired(o, open)
  BY DEF Twins
<1>2. x.open = o /\ y.open = open
  BY <1>1 DEF StateOf
<1>3. Len(o) = Len(open) /\ \A i \in 1 .. Len(open) : Alike(o[i].level, open[i].level) /\ Proper(open[i].level)
  BY <1>1 DEF Paired
<1>4. DOMAIN o = 1 .. Len(open) /\ DOMAIN open = 1 .. Len(open)
  BY <1>3
<1>5. /\ LevelsOf(open) \in Seq(Levels) /\ Len(LevelsOf(open)) = Len(open)
      /\ \A i \in 1 .. Len(open) : LevelsOf(open)[i] = open[i].level
  BY LevelsOfIs
<1>6. Meaning(LevelsOf(o)) = Meaning(LevelsOf(open))
  BY <1>3, <1>4 DEF Meaning, LevelsOf, Alike
<1>. QED
  BY <1>2, <1>3, <1>5, <1>6

(* A line entered with levels of the same meaning is left with such.       *)
LEMMA ScanMeans ==
  ASSUME Plain, NEW u \in Seq(Bare), NEW v \in Seq(Levels), Len(u) = Len(v),
         \A i \in 1 .. Len(v) : Alike(u[i], v[i]) /\ Proper(v[i]),
         NEW s \in Seq(Tokens)
  PROVE  /\ Meaning(ScanLine(u, s)) = Meaning(ScanLine(v, s))
         /\ ScanLine(v, s) \in Seq(Levels)
         /\ \A i \in 1 .. Len(ScanLine(v, s)) : Proper(ScanLine(v, s)[i])
<1>. DEFINE x == ScanOf(u, s)  y == ScanOf(v, s)  n == Len(s)
            Q == {k \in Nat : k <= n => Twins(x[k], y[k])}
<1>1. /\ x[0] = Fresh(u) /\ y[0] = Fresh(v)
      /\ \A k \in 0 .. n - 1 : x[k + 1] = AfterToken(x[k], s, k) /\ y[k + 1] = AfterToken(y[k], s, k)
      /\ ScanLine(u, s) = LevelsOf(x[n].open) /\ ScanLine(v, s) = LevelsOf(y[n].open)
  BY ScanOfIs DEF ScanLine
<1>2. n \in Nat
  OBVIOUS
<1>. HIDE DEF x, y, n
<1>3. 0 \in Q
  BY <1>1, TwinsFresh
<1>4. ASSUME NEW k \in Nat, k \in Q PROVE k + 1 \in Q
  <2>. SUFFICES ASSUME k + 1 <= n PROVE Twins(x[k + 1], y[k + 1])
    OBVIOUS
  <2>1. k <= n /\ k \in 0 .. n - 1
    BY <1>2
  <2>2. Twins(x[k], y[k])
    BY <1>4, <2>1
  <2>3. Twins(AfterToken(x[k], s, k), AfterToken(y[k], s, k))
    BY <2>2, TwinsAfter
  <2>. QED
    BY <1>1, <2>1, <2>3
<1>5. Nat \subseteq Q
  <2>. HIDE DEF Q
  <2>. QED
    BY <1>3, <1>4, SetInduction
<1>6. Twins(x[n], y[n])
  BY <1>2, <1>5
<1>. QED
  BY <1>1, <1>6, TwinsMean

(* The levels of a text are of the kind \M-less grammars have.             *)
LEMMA TextProper ==
  ASSUME Plain, NEW tx \in [Lines -> Contents]
  PROVE  \A l \in 0 .. MaxLines : /\ TrueFrom(tx)[l] \in Seq(Levels)
                                  /\ \A i \in 1 .. Len(TrueFrom(tx)[l]) : Proper(TrueFrom(tx)[l][i])
<1>. DEFINE f == TrueFrom(tx)
            Fine(v) == v \in Seq(Levels) /\ \A i \in 1 .. Len(v) : Proper(v[i])
            S == {n \in Nat : n <= MaxLines => Fine(f[n])}
<1>1. f[0] = <<>> /\ \A l \in Lines : f[l + 1] = ScanLine(f[l], tx[l])
  BY TrueFromIs, BoundsAssumption
<1>2. MaxLines \in Nat /\ \A l \in Lines : tx[l] \in Seq(Tokens)
  BY BoundsAssumption, TokensAssumption
<1>. HIDE DEF f
<1>3. 0 \in S
  <2>1. Fine(<<>>)
    OBVIOUS
  <2>. HIDE DEF Fine
  <2>. QED
    BY <1>1, <2>1
<1>4. ASSUME NEW n \in Nat, n \in S PROVE n + 1 \in S
  <2>. SUFFICES ASSUME n + 1 <= MaxLines PROVE Fine(f[n + 1])
    OBVIOUS
  <2>1. n \in Lines /\ n <= MaxLines
    BY <1>2 DEF Lines
  <2>. DEFINE v == f[n]  s == tx[n]
  <2>2. v \in Seq(Levels) /\ (\A i \in 1 .. Len(v) : Proper(v[i])) /\ s \in Seq(Tokens)
    BY <1>2, <1>4, <2>1
  <2>3. f[n + 1] = ScanLine(v, s)
    BY <1>1, <2>1
  <2>. HIDE DEF v, s
  <2>4. v \in Seq(Bare) /\ \A i \in 1 .. Len(v) : Alike(v[i], v[i])
    <3>1. Levels \subseteq Bare
      BY DEF Levels, Bare
    <3>. QED
      BY <2>2, <3>1 DEF Alike
  <2>5. Fine(ScanLine(v, s))
    BY <2>2, <2>4, ScanMeans
  <2>. QED
    BY <2>3, <2>5
<1>5. Nat \subseteq S
  <2>. HIDE DEF S
  <2>. QED
    BY <1>3, <1>4, SetInduction
<1>6. \A l \in 0 .. MaxLines : l \in Nat /\ l <= MaxLines
  BY <1>2
<1>7. \A l \in 0 .. MaxLines : Fine(f[l])
  BY <1>5, <1>6
<1>. QED
  BY <1>7 DEF f

(* At its end parse() is past the lines it was asked for.                  *)
LEMMA AtStop ==
  ASSUME IInv, FInv, ParseReturns
  PROVE  line = stop
<1>1. /\ pc = "return" /\ Len(frames) = 1 /\ parent = RootId /\ ~Idle
  BY DEF ParseReturns, Idle
<1>2. Turn /\ Follows
  BY <1>1 DEF FInv
<1>3. line \in Nat /\ stop \in Nat /\ line <= stop
  BY <1>2, BoundsAssumption DEF IInv, Typed, Turn
<1>4. SUFFICES ASSUME line < stop PROVE FALSE
  BY <1>3
<1>5. OpenHere # <<>>
  BY <1>1, <1>2, <1>4 DEF Follows, Place_return
<1>6. OpenHere = OpenLevels(tree, RootId)
  BY <1>1, OneFrame
<1>7. OpenLevels(tree, RootId) = <<>>
  BY GoodLevels DEF IInv
<1>. QED
  BY <1>5, <1>6, <1>7

(* Levels that agree where a block is, where it began and what its start   *)
(* took are the same for tryParseLine: t are those counted, w those of the *)
(* text and e those expected.                                              *)
LEMMA SameAsExpected ==
  ASSUME NEW t \in Seq(Levels), NEW w \in Seq(Levels), NEW e \in Seq(Levels), Sig(t) = Sig(w),
         \A i \in 1 .. Len(t) : Proper(t[i]), \A i \in 1 .. Len(w) : Proper(w[i]),
         [i \in DOMAIN e |-> [e[i] EXCEPT !.tag = Untagged]]
           = [i \in DOMAIN w |-> [w[i] EXCEPT !.tag = Untagged]]
  PROVE  Len(t) = Len(e) /\ \A i \in 1 .. Len(e) : sameTryLevel(t[i], e[i])
<1>. DEFINE x == [i \in DOMAIN e |-> [e[i] EXCEPT !.tag = Untagged]]
            y == [i \in DOMAIN w |-> [w[i] EXCEPT !.tag = Untagged]]
<1>1. /\ Len(t) = Len(w)
      /\ \A i \in 1 .. Len(t) : t[i].block = w[i].block /\ t[i].tag = w[i].tag /\ t[i].at = w[i].at
  BY SameSig
<1>2. DOMAIN e = 1 .. Len(e) /\ DOMAIN w = 1 .. Len(w) /\ Len(e) \in Nat /\ Len(w) \in Nat
  OBVIOUS
<1>3. DOMAIN x = DOMAIN e /\ DOMAIN y = DOMAIN w /\ x = y
  OBVIOUS
<1>4. Len(e) = Len(w)
  <2>. DEFINE m == Len(e)  n == Len(w)
  <2>1. m \in Nat /\ n \in Nat /\ 1 .. m = 1 .. n
    BY <1>2, <1>3
  <2>. HIDE DEF m, n
  <2>2. m \in 1 .. m \/ m = 0
    BY <2>1
  <2>3. n \in 1 .. n \/ n = 0
    BY <2>1
  <2>4. m = n
    BY <2>1, <2>2, <2>3
  <2>. QED
    BY <2>4 DEF m, n
<1>5. ASSUME NEW i \in 1 .. Len(e) PROVE sameTryLevel(t[i], e[i])
  <2>1. i \in DOMAIN e /\ i \in DOMAIN w /\ i \in 1 .. Len(t) /\ i \in 1 .. Len(w)
    BY <1>1, <1>2, <1>4
  <2>2. x[i] = [e[i] EXCEPT !.tag = Untagged] /\ y[i] = [w[i] EXCEPT !.tag = Untagged]
    BY <2>1
  <2>3. e[i] \in Levels /\ w[i] \in Levels /\ t[i] \in Levels
    BY <2>1
  <2>. DEFINE a == e[i]  b == w[i]  c == t[i]
  <2>4. a \in Levels /\ b \in Levels /\ [a EXCEPT !.tag = Untagged] = [b EXCEPT !.tag = Untagged]
    BY <1>3, <2>2, <2>3
  <2>. HIDE DEF a, b
  <2>5. a.block = b.block /\ a.span = b.span /\ a.at = b.at
    <3>1. \A z \in Levels : /\ [z EXCEPT !.tag = Untagged].block = z.block
                            /\ [z EXCEPT !.tag = Untagged].span = z.span
                            /\ [z EXCEPT !.tag = Untagged].at = z.at
      BY DEF Levels
    <3>. QED
      BY <2>4, <3>1
  <2>6. c.block = b.block /\ c.tag = b.tag /\ c.at = b.at
    BY <1>1, <2>1 DEF b
  <2>7. Proper(c) /\ Proper(b)
    BY <2>1 DEF b
  <2>. HIDE DEF c
  <2>8. c.block \in Tagged => c.span = a.span
    BY <2>5, <2>6, <2>7 DEF Proper
  <2>9. sameTryLevel(c, a)
    BY <2>5, <2>6, <2>8 DEF sameTryLevel
  <2>. QED
    BY <2>9 DEF a, c
<1>. QED
  BY <1>1, <1>4, <1>5

(* The end of a call of tryParseLine for a line that opens what the cache  *)
(* has for the next.                                                       *)
LEMMA TriedAccepts ==
  ASSUME Plain, IInv, FInv, ParseReturns, Trying,
         [i \in DOMAIN expected |-> [expected[i] EXCEPT !.tag = Untagged]]
           = [i \in DOMAIN TrueLevels[call.line + 1] |->
                [TrueLevels[call.line + 1][i] EXCEPT !.tag = Untagged]]
  PROVE  valid' = valid
<1>1. ~Idle /\ ~Updating /\ line = stop
  BY AtStop DEF ParseReturns, Idle, Trying, Updating
<1>2. TrySame /\ TryCounts
  BY <1>1 DEF FInv
<1>3. /\ stop = call.line + 1 /\ ~tryMismatch /\ Sig(tryStack) = Stack(text, stop)
      /\ \A i \in 1 .. Len(tryStack) : Proper(tryStack[i])
  BY <1>1, <1>2 DEF TrySame, TryCounts
<1>4. text \in [Lines -> Contents] /\ stop \in 0 .. MaxLines /\ tryStack \in Seq(Levels) /\ expected \in Seq(Levels)
  BY DEF IInv, Typed
<1>. DEFINE t == tryStack  w == TrueLevels[stop]  e == expected
<1>5. w \in Seq(Levels) /\ Sig(w) = Stack(text, stop) /\ \A i \in 1 .. Len(w) : Proper(w[i])
  <2>1. w = TrueFrom(text)[stop]
    BY TrueOfText
  <2>. QED
    BY <1>4, <2>1, TextProper DEF Stack
<1>6. [i \in DOMAIN e |-> [e[i] EXCEPT !.tag = Untagged]]
           = [i \in DOMAIN w |-> [w[i] EXCEPT !.tag = Untagged]]
  BY <1>3
<1>7. /\ t \in Seq(Levels) /\ e \in Seq(Levels) /\ Sig(t) = Sig(w)
      /\ \A i \in 1 .. Len(t) : Proper(t[i])
  BY <1>3, <1>4, <1>5
<1>. HIDE DEF t, w, e
<1>8. Len(t) = Len(e) /\ \A i \in 1 .. Len(e) : sameTryLevel(t[i], e[i])
  BY <1>5, <1>6, <1>7, SameAsExpected
<1>9. DOMAIN e = 1 .. Len(e)
  BY <1>7
<1>10. Unchanged
  BY <1>3, <1>8, <1>9 DEF Unchanged, t, e
<1>. QED
  BY <1>1, <1>10 DEF ParseReturns

(* An edit that leaves the blocks below as they were is accepted: the text *)
(* below is not given up (TryAccepts; tryParseLine, sameTryLevel).         *)
THEOREM TryIsRight ==
  ASSUME Plain
  PROVE  Spec /\ [][~Disturbs]_vars => TryAccepts
<1>1. IInv /\ OInv /\ FInv /\ [Next]_vars =>
        [(ParseReturns /\ Trying
      /\ [i \in DOMAIN expected |-> [expected[i] EXCEPT !.tag = Untagged]]
         = [i \in DOMAIN TrueLevels[call.line + 1] |->
              [TrueLevels[call.line + 1][i] EXCEPT !.tag = Untagged]])
     => valid' = valid]_vars
  BY TriedAccepts
<1>. QED
  BY <1>1, TextInvariant, PTL DEF TryAccepts, Spec

-----------------------------------------------------------------------------
(* The parser implements LineStacks.                                       *)

(* The stack LineStacks has for a line of text tx. *)
TextStack(tx, l) == Meaning(TrueFrom(tx)[l])

(* What is kept of levels.                                                 *)
LEMMA MeaningIs ==
  ASSUME NEW v \in Seq(Levels)
  PROVE  /\ Meaning(v) \in Stacks
         /\ AsLevels(Meaning(v)) \in Seq(Bare) /\ Len(AsLevels(Meaning(v))) = Len(v)
         /\ \A i \in 1 .. Len(v) : Alike(AsLevels(Meaning(v))[i], v[i])
<1>. DEFINE n == Len(v)  m == Meaning(v)  u == AsLevels(m)
            K == [block : Blocks, tag : Tokens \cup {Untagged}]
<1>1. n \in Nat /\ DOMAIN v = 1 .. n /\ \A i \in 1 .. n : v[i] \in Levels
  OBVIOUS
<1>2. m = [i \in 1 .. n |-> [block |-> v[i].block, tag |-> v[i].tag]]
  BY <1>1 DEF Meaning
<1>3. \A x \in Levels : [block |-> x.block, tag |-> x.tag] \in K
  BY DEF Levels
<1>4. m \in [1 .. n -> K] /\ \A i \in 1 .. n : m[i].block = v[i].block /\ m[i].tag = v[i].tag
  <2>. HIDE DEF K
  <2>. QED
    BY <1>1, <1>2, <1>3
<1>. HIDE DEF m, n
<1>5. m \in Stacks
  <2>. HIDE DEF K
  <2>1. m \in Seq(K)
    BY <1>1, <1>4
  <2>. QED
    BY <2>1 DEF Stacks, K
<1>6. u = [i \in 1 .. n |-> [None EXCEPT !.block = m[i].block, !.tag = m[i].tag]]
  BY <1>4 DEF AsLevels
<1>7. ASSUME NEW k \in K
      PROVE  LET x == [None EXCEPT !.block = k.block, !.tag = k.tag] IN
             x \in Bare /\ x.block = k.block /\ x.tag = k.tag
  BY DEF None, Bare
<1>. HIDE DEF K, u
<1>8. \A i \in 1 .. n : m[i] \in K
  BY <1>4
<1>9. ASSUME NEW i \in 1 .. n PROVE u[i] \in Bare /\ Alike(u[i], v[i])
  <2>1. u[i] = [None EXCEPT !.block = m[i].block, !.tag = m[i].tag]
    BY <1>6
  <2>2. u[i] \in Bare /\ u[i].block = m[i].block /\ u[i].tag = m[i].tag
    BY <1>7, <1>8, <2>1
  <2>. QED
    BY <1>4, <2>2 DEF Alike
<1>10. u \in [1 .. n -> Bare]
  BY <1>6, <1>9
<1>11. u \in Seq(Bare) /\ Len(u) = n
  BY <1>1, <1>10
<1>. QED
  BY <1>5, <1>9, <1>11 DEF m, n, u

(* The stacks of a text follow one from the other.                         *)
LEMMA TextStackIs ==
  ASSUME Plain, NEW tx \in [Lines -> Contents]
  PROVE  /\ TextStack(tx, 0) = <<>>
         /\ \A l \in 0 .. MaxLines : TextStack(tx, l) \in Stacks
         /\ \A l \in Lines : TextStack(tx, l + 1) = AfterLine[Top][<<TextStack(tx, l), tx[l]>>]
<1>1. TrueFrom(tx)[0] = <<>> /\ \A l \in Lines : TrueFrom(tx)[l + 1] = ScanLine(TrueFrom(tx)[l], tx[l])
  BY TrueFromIs, BoundsAssumption
<1>2. Meaning(<<>>) = <<>>
  BY DEF Meaning
<1>3. \A l \in 0 .. MaxLines : TextStack(tx, l) \in Stacks
  BY TextProper, MeaningIs DEF TextStack
<1>4. ASSUME NEW l \in Lines PROVE TextStack(tx, l + 1) = AfterLine[Top][<<TextStack(tx, l), tx[l]>>]
  <2>. DEFINE v == TrueFrom(tx)[l]  s == tx[l]  u == AsLevels(Meaning(v))
  <2>1. l \in 0 .. MaxLines
    BY BoundsAssumption DEF Lines
  <2>2. v \in Seq(Levels) /\ \A i \in 1 .. Len(v) : Proper(v[i])
    BY <2>1, TextProper
  <2>3. s \in Contents /\ s \in Seq(Tokens) /\ TrueFrom(tx)[l + 1] = ScanLine(v, s)
    BY <1>1, TokensAssumption
  <2>. HIDE DEF v, s
  <2>4. Meaning(v) \in Stacks /\ u \in Seq(Bare) /\ Len(u) = Len(v) /\ \A i \in 1 .. Len(v) : Alike(u[i], v[i])
    BY <2>2, MeaningIs
  <2>. HIDE DEF u
  <2>5. Meaning(ScanLine(u, s)) = Meaning(ScanLine(v, s))
    BY <2>2, <2>3, <2>4, ScanMeans
  <2>6. AfterLine[Top][<<Meaning(v), s>>] = Meaning(ScanLine(u, s))
    BY <2>3, <2>4 DEF AfterLine, u
  <2>. QED
    BY <2>3, <2>5, <2>6 DEF TextStack, v, s
<1>. QED
  BY <1>1, <1>2, <1>3, <1>4 DEF TextStack

(* An edit leaves the stacks above.                                        *)
LEMMA EditStacks ==
  ASSUME Plain, NEW tx \in [Lines -> Contents], NEW l \in Lines, NEW ty, Edited(tx, l, ty)
  PROVE  \A k \in 0 .. l : TextStack(ty, k) = TextStack(tx, k)
<1>1. ty \in [Lines -> Contents]
  BY DEF Edited
<1>2. \A k \in 0 .. l : Stack(ty, k) = Stack(tx, k) /\ k \in 0 .. MaxLines
  <2>1. \A k \in 0 .. l : k \in 0 .. MaxLines
    BY BoundsAssumption DEF Lines
  <2>. QED
    BY <2>1, EditAbove
<1>3. \A k \in 0 .. MaxLines : TrueFrom(tx)[k] \in Seq(Levels) /\ TrueFrom(ty)[k] \in Seq(Levels)
  BY <1>1, TextProper
<1>. QED
  BY <1>2, <1>3, SameSig DEF Stack, TextStack

(* What LineStacks sees of the parser is right.                            *)
StacksOK ==
  /\ Known \in 0 .. MaxLines /\ text \in [Lines -> Contents]
  /\ KnownStacks = [l \in 0 .. Known |-> TextStack(text, l)]
  /\ Idle => call = NoCall

(* So the invariants say.                                                  *)
LEMMA StacksAre ==
  ASSUME Plain, IInv, OInv, FInv
  PROVE  StacksOK
<1>1. Known \in 0 .. MaxLines /\ text \in [Lines -> Contents] /\ (Idle => call = NoCall)
  BY TrueKnown DEF IInv, Typed, FInv
<1>2. \A l \in 0 .. Known : Meaning(CachedLevels(l)) = TextStack(text, l)
  BY CacheIsTrue, TrueOfText DEF CacheTrue, TextStack
<1>. QED
  BY <1>1, <1>2 DEF StacksOK, KnownStacks

(* The text is left, or changes at a line not above those still known.     *)
LEMMA TextStep ==
  ASSUME IInv, StacksOK, StacksOK', [Next]_vars
  PROVE  UNCHANGED text \/ \E l \in Lines : Edited(text, l, text') /\ Known' <= l /\ Known' <= Known
<1>1. CASE UNCHANGED vars
  BY <1>1 DEF vars, client
<1>2. ASSUME NEW l \in Lines, NEW c \in Contents, EditLine(l, c), valid' = Least(valid, l) \/ l < valid,
             Idle, Known' = Least(valid, l)
      PROVE  Edited(text, l, text') /\ Known' <= l /\ Known' <= Known
  <2>1. text \in [Lines -> Contents] /\ text' = [text EXCEPT ![l] = c]
    BY <1>2 DEF StacksOK, EditLine
  <2>2. Edited(text, l, text')
    BY <2>1 DEF Edited
  <2>3. Known = valid
    BY <1>2 DEF StacksOK, NoCall, Trying, Known
  <2>4. l \in Nat /\ valid \in Nat
    BY BoundsAssumption DEF IInv, Typed, Lines
  <2>. QED
    BY <1>2, <2>2, <2>3, <2>4 DEF Least
<1>3. ASSUME NEW l \in Lines, NEW c \in Contents, ModifyLine(l, c)
      PROVE  \E k \in Lines : Edited(text, k, text') /\ Known' <= k /\ Known' <= Known
  <2>1. EditLine(l, c) /\ valid' = Least(valid, l) /\ Idle /\ call' = call
    BY <1>3 DEF ModifyLine, EditLine
  <2>2. Known' = Least(valid, l)
    BY <2>1 DEF StacksOK, NoCall, Trying, Known
  <2>. QED
    BY <1>2, <2>1, <2>2
<1>4. ASSUME NEW l \in Lines, NEW c \in Contents, TryParseLine(l, c)
      PROVE  \E k \in Lines : Edited(text, k, text') /\ Known' <= k /\ Known' <= Known
  <2>1. EditLine(l, c) /\ l < valid /\ Idle /\ valid' = valid /\ call' = [kind |-> "try", line |-> l]
    BY <1>4 DEF TryParseLine, EditLine, parse
  <2>2. Known' = Least(valid, l)
    BY <2>1 DEF Trying, Known
  <2>. QED
    BY <1>2, <2>1, <2>2
<1>5. ASSUME NEW kind, NEW from, NEW num, Parse(kind, from, num) PROVE UNCHANGED text
  BY <1>5 DEF Parse, client
<1>6. CASE BreakParse \/ Parser
  BY <1>6 DEF BreakParse, Parser, OutOfLines, NullLine, StartLine, ContentOver, Broken, MatchBlock,
    MatchRegexp, MatchNothing, BlockReturns, ParentReturns, ParseReturns, client
<1>7. CASE Client
  BY <1>3, <1>4, <1>5, <1>7 DEF Client
<1>. QED
  BY <1>1, <1>6, <1>7 DEF Next

(* The stacks known, one by one.                                           *)
LEMMA KnownIs ==
  ASSUME StacksOK
  PROVE  /\ Known \in 0 .. MaxLines /\ Known \in Nat /\ text \in [Lines -> Contents]
         /\ DOMAIN KnownStacks = 0 .. Known
         /\ \A l \in 0 .. Known : KnownStacks[l] = TextStack(text, l)
         /\ KnownStacks = [l \in 0 .. Known |-> TextStack(text, l)]
BY BoundsAssumption DEF StacksOK

(* Of the same text, more is learnt or some is forgotten.                  *)
LEMMA LearnOrForget ==
  ASSUME Plain, StacksOK, StacksOK', UNCHANGED text
  PROVE  Incremental!Learn \/ Incremental!Forget
<1>. DEFINE K == Known  n == Known'  a == KnownStacks  b == KnownStacks'  tx == text
<1>1. /\ K \in 0 .. MaxLines /\ K \in Nat /\ tx \in [Lines -> Contents] /\ DOMAIN a = 0 .. K
      /\ \A l \in 0 .. K : a[l] = TextStack(tx, l)
  BY KnownIs
<1>2. /\ n \in 0 .. MaxLines /\ n \in Nat /\ b = [l \in 0 .. n |-> TextStack(tx, l)]
  BY BoundsAssumption DEF StacksOK
<1>3. \A l \in 0 .. n : b[l] = TextStack(tx, l)
  BY <1>2
<1>4. a = KnownStacks /\ b = KnownStacks' /\ tx = text /\ text' = text
  OBVIOUS
<1>. HIDE DEF K, n, a, b, tx
<1>5. CASE n <= K
  <2>1. n \in DOMAIN a
    BY <1>1, <1>2, <1>5
  <2>2. b = [l \in 0 .. n |-> a[l]]
    <3>1. \A l \in 0 .. n : l \in 0 .. K
      BY <1>1, <1>2, <1>5
    <3>. QED
      BY <1>1, <1>2, <3>1
  <2>3. b = Incremental!Prefix(n)
    BY <1>4, <2>2 DEF Incremental!Prefix
  <2>. QED
    BY <1>4, <2>1, <2>3 DEF Incremental!Forget
<1>6. CASE K < n
  <2>1. DOMAIN a \subseteq 0 .. n /\ n \in Incremental!LineStarts
    BY <1>1, <1>2, <1>6 DEF Incremental!LineStarts
  <2>2. b \in [0 .. n -> Stacks]
    <3>1. \A l \in 0 .. n : TextStack(tx, l) \in Stacks
      <4>1. \A l \in 0 .. n : l \in 0 .. MaxLines
        BY <1>2, BoundsAssumption
      <4>. QED
        BY <1>1, <4>1, TextStackIs
    <3>. QED
      BY <1>2, <3>1
  <2>3. \A l \in DOMAIN a : b[l] = a[l]
    BY <1>1, <1>3, <2>1
  <2>4. ASSUME NEW l \in (0 .. n) \ DOMAIN a
        PROVE  b[l] = AfterLine[Top][<<b[l - 1], tx[l - 1]>>]
    <3>. DEFINE k == l - 1
    <3>1. k \in Lines /\ k \in 0 .. n /\ l = k + 1 /\ l \in 0 .. n
      BY <1>1, <1>2, BoundsAssumption DEF Lines
    <3>. HIDE DEF k
    <3>2. TextStack(tx, k + 1) = AfterLine[Top][<<TextStack(tx, k), tx[k]>>]
      BY <1>1, <3>1, TextStackIs
    <3>3. b[l] = TextStack(tx, k + 1) /\ b[k] = TextStack(tx, k)
      BY <1>3, <3>1
    <3>4. b[l] = AfterLine[Top][<<b[k], tx[k]>>]
      BY <3>2, <3>3
    <3>. QED
      BY <3>4 DEF k
  <2>5. Top # Untagged
    BY TopAssumption
  <2>. QED
    BY <1>4, <2>1, <2>2, <2>3, <2>4, <2>5 DEF Incremental!Learn
<1>. QED
  BY <1>1, <1>2, <1>5, <1>6

(* An edit leaves what is known above it, at the most.                     *)
LEMMA EditIsChange ==
  ASSUME Plain, StacksOK, StacksOK', NEW e \in Lines, Edited(text, e, text'), Known' <= e, Known' <= Known
  PROVE  Incremental!Change
<1>. DEFINE K == Known  n == Known'  a == KnownStacks  b == KnownStacks'  tx == text  ty == text'
<1>1. /\ K \in 0 .. MaxLines /\ K \in Nat /\ tx \in [Lines -> Contents] /\ DOMAIN a = 0 .. K
      /\ \A l \in 0 .. K : a[l] = TextStack(tx, l)
  BY KnownIs
<1>2. /\ n \in 0 .. MaxLines /\ n \in Nat /\ b = [l \in 0 .. n |-> TextStack(ty, l)]
      /\ ty \in [Lines -> Contents]
  BY BoundsAssumption DEF StacksOK
<1>3. /\ a = KnownStacks /\ b = KnownStacks' /\ tx = text /\ ty = text' /\ n <= e /\ n <= K
      /\ Edited(tx, e, ty)
  OBVIOUS
<1>. HIDE DEF K, n, a, b, tx, ty
<1>4. \A l \in 0 .. n : l \in 0 .. K /\ l \in 0 .. e
  BY <1>1, <1>2, <1>3, BoundsAssumption DEF Lines
<1>5. \A l \in 0 .. e : TextStack(ty, l) = TextStack(tx, l)
  BY <1>1, <1>3, EditStacks
<1>6. b = [l \in 0 .. n |-> a[l]]
  BY <1>1, <1>2, <1>4, <1>5
<1>7. b = Incremental!Prefix(n) /\ n \in DOMAIN a
  BY <1>1, <1>2, <1>3, <1>6 DEF Incremental!Prefix
<1>8. \A l \in 0 .. n - 1 : ty[l] = tx[l]
  <2>1. \A l \in 0 .. n - 1 : l \in Lines /\ l # e
    BY <1>2, <1>3, BoundsAssumption DEF Lines
  <2>. QED
    BY <1>3, <2>1 DEF Edited
<1>9. ty \in Incremental!Texts
  BY <1>2 DEF Incremental!Texts, Lines
<1>. QED
  BY <1>3, <1>7, <1>8, <1>9 DEF Incremental!Change

(* Every step is one of LineStacks, or none.                               *)
LEMMA StepIsStep ==
  ASSUME Plain, IInv, StacksOK, StacksOK', [Next]_vars
  PROVE  [Incremental!Next]_(Incremental!absVars)
<1>1. CASE UNCHANGED text
  BY <1>1, LearnOrForget DEF Incremental!Next
<1>2. CASE ~UNCHANGED text
  BY <1>2, TextStep, EditIsChange DEF Incremental!Next
<1>. QED
  BY <1>1, <1>2

(* At first nothing is known.                                              *)
LEMMA StartIsStart ==
  ASSUME StacksOK, Plain, Init
  PROVE  Incremental!Init
<1>1. Known = 0
  BY DEF Init, NoCall, Known, Trying
<1>2. text \in [Lines -> Contents] /\ KnownStacks = [l \in 0 .. 0 |-> TextStack(text, l)]
  BY <1>1 DEF StacksOK
<1>3. \A l \in 0 .. 0 : TextStack(text, l) = <<>>
  BY <1>2, TextStackIs
<1>4. KnownStacks = Incremental!Nothing
  BY <1>2, <1>3 DEF Incremental!Nothing
<1>5. text \in Incremental!Texts
  BY <1>2 DEF Incremental!Texts, Lines
<1>. QED
  BY <1>4, <1>5 DEF Incremental!Init

(* The parser implements LineStacks: what the cache has for the lines      *)
(* known is learnt line by line from the text, and given up where that     *)
(* changes (IsIncrementalParse; parse, tryParseLine).                      *)
THEOREM ParserRefines ==
  ASSUME Plain
  PROVE  Spec /\ [][~Disturbs]_vars => IsIncrementalParse
<1>1. IInv /\ OInv /\ FInv => StacksOK
  BY StacksAre
<1>2. Init /\ StacksOK => Incremental!Init
  BY StartIsStart
<1>3. IInv /\ StacksOK /\ StacksOK' /\ [Next]_vars => [Incremental!Next]_(Incremental!absVars)
  BY StepIsStep
<1>. QED
  BY <1>1, <1>2, <1>3, TextInvariant, PTL DEF Spec, IsIncrementalParse, Incremental!Spec
=============================================================================
