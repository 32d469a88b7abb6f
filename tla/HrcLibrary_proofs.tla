-------------------------- MODULE HrcLibrary_proofs -------------------------
(***************************************************************************)
(* What holds of the library whatever the files are: TypeOK,               *)
(* RegionsNumbered and NothingDangles.                                     *)
(*                                                                         *)
(* The inductive invariant is about the stack of frames.  Each frame is of *)
(* a type that is marked as being loaded or parsed, and no two frames load *)
(* one type, so a type that a frame or a scheme points to is never         *)
(* unloaded; and what each frame puts back when it ends is a context in    *)
(* which the stack below it is right.  StackAppend says this of one frame  *)
(* more, and every action is a frame that is put on, goes on or ends.      *)
(***************************************************************************)
EXTENDS ParserFactory, SequenceLemmas

-----------------------------------------------------------------------------
(* A type, an element of a file and one of a type, as they always are.     *)
TypeFields == {"serial", "isPackage", "inputSource", "choosers", "params", "imports", "baseScheme",
               "type_loading", "loadDone", "load_broken", "input_source_loading"}

ItemOK(item) ==
  item.tag = "scheme" =>
    /\ item.name \in STRING \X STRING
    /\ IsList(item.nodes)
    /\ \A node \in ToSet(item.nodes) : "tag" \in DOMAIN node /\ node.tag # "scheme"

ElementOK(e) ==
  /\ e.name # NoType
  /\ e.tag = "type" => IsList(e.items) /\ \A item \in ToSet(e.items) : ItemOK(item)

(* What a frame is about: loading a file, or parsing a type.               *)
IsLoad(f) == f.k \in {"open", "file", "return"}
Parses(f) == f.k = "type" \/ (f.k = "links" /\ f.todo # <<>>)
Parsed(t, ts) == t \in DOMAIN ts /\ ts[t].type_loading

TodoOK(f) ==
  /\ IsSeq(f.todo)
  /\ f.k = "file" => \A e \in ToSet(f.todo) : ElementOK(e)
  /\ f.k = "type" => \A item \in ToSet(f.todo) : ItemOK(item)

FrameFields == {"k", "type", "serial", "saved", "todo", "got", "amid", "at", "loaded", "global",
                "pass", "seen"}

FrameOK(f, ts) ==
  /\ DOMAIN f = FrameFields /\ DOMAIN f.saved = 1 .. 3 /\ f.at \in Nat
  /\ f.k \in {"open", "file", "type", "links", "return", "ask"}
  /\ TodoOK(f)
  /\ f.k \in {"links", "ask"} => f.type = NoType
  /\ f.type # NoType => f.type \in DOMAIN ts /\ ts[f.type].serial = f.serial
  /\ f.k = "type" => f.type # NoType /\ Parsed(f.type, ts)
  /\ IsLoad(f) /\ f.type # NoType => ts[f.type].input_source_loading

(* No two frames load the same type.                                       *)
Apart(S) ==
  \A i \in 1 .. Len(S), j \in 1 .. Len(S) :
    IsLoad(S[i]) /\ IsLoad(S[j]) /\ S[i].type = S[j].type /\ S[i].type # NoType => i = j

(* The type being parsed is one whose parse has begun, or none when no     *)
(* frame parses; so is the one each frame that parses puts back.           *)
ParseOK(S, p, ts) ==
  /\ IF \E i \in 1 .. Len(S) : Parses(S[i]) THEN Parsed(p, ts) ELSE p = NoType
  /\ \A i \in 1 .. Len(S) : Parses(S[i]) =>
       IF \E j \in 1 .. i - 1 : Parses(S[j]) THEN Parsed(S[i].saved[1], ts)
       ELSE S[i].saved[1] = NoType

(* When no file is loaded there is no source; the frame of the outermost   *)
(* file puts that back.                                                    *)
SourceOK(S, source, load_type) ==
  /\ (\A i \in 1 .. Len(S) : ~IsLoad(S[i])) => source = NoFile /\ load_type = "FULL"
  /\ \A i \in 1 .. Len(S) : IsLoad(S[i]) /\ (\A j \in 1 .. i - 1 : ~IsLoad(S[j])) =>
       S[i].saved[2] = NoFile /\ S[i].saved[3] = "FULL"

StackInv(S, ts, p, source, load_type) ==
  /\ IsSeq(S)
  /\ \A i \in 1 .. Len(S) : FrameOK(S[i], ts)
  /\ Apart(S)
  /\ ParseOK(S, p, ts)
  /\ SourceOK(S, source, load_type)

LoadsOf(S) == {S[i].type : i \in {j \in 1 .. Len(S) : IsLoad(S[j])}}
ParsesOf(S) == {S[i].type : i \in {j \in 1 .. Len(S) : S[j].k = "type"}}

(* A mark on a type is the mark of a frame that will take it off.          *)
FlagsOK(S, ts) ==
  \A t \in DOMAIN ts :
    /\ ts[t].input_source_loading => t \in LoadsOf(S)
    /\ ts[t].type_loading /\ ~ts[t].loadDone => t \in ParsesOf(S)

TypesOK ==
  /\ NoType \notin DOMAIN types
  /\ \A t \in DOMAIN types : DOMAIN types[t] = TypeFields

VectorOK ==
  /\ IsSeq(fileTypeVector)
  /\ \A i \in 1 .. Len(fileTypeVector) :
       /\ Known(fileTypeVector[i])
       /\ \A j \in 1 .. i - 1 : fileTypeVector[j] # fileTypeVector[i]

SchemesOK ==
  \A s \in DOMAIN schemes :
    /\ s \in (DOMAIN types) \X STRING
    /\ DOMAIN schemes[s] = {"type", "serial", "nodes"}
    /\ Parsed(s[1], types) /\ Parsed(schemes[s].type, types)
    /\ types[schemes[s].type].serial = schemes[s].serial

RegionsOK == IsSeq(regions) /\ RegionsNumbered

Inv ==
  /\ TypesOK /\ VectorOK /\ SchemesOK /\ RegionsOK
  /\ StackInv(stack, types, current_parse_type, current_input_source, current_load_type)
  /\ FlagsOK(stack, types)
-----------------------------------------------------------------------------
(* A stack is what is below its innermost frame, with that frame on it.    *)
LEMMA FrontLast ==
  ASSUME NEW S, IsSeq(S), S # <<>>
  PROVE  S = Append(Front(S), Last(S)) /\ IsSeq(Front(S))
<1>. DEFINE F == Front(S)
           n == Len(S) - 1
           T == Append(F, Last(S))
<1>1. /\ IsSeq(F) /\ Len(F) = n /\ n \in Nat /\ Last(S) = S[n + 1]
      /\ \A i \in 1 .. n : F[i] = S[i]
  BY FrontIsSeq, IsSeqShape
<1>2. /\ IsSeq(T) /\ Len(T) = n + 1 /\ T[n + 1] = Last(S)
      /\ \A i \in 1 .. n : T[i] = S[i]
  <2>. HIDE DEF F, n
  <2>. QED BY <1>1, AppendIsSeq
<1>3. T = [i \in 1 .. n + 1 |-> T[i]] /\ S = [i \in 1 .. n + 1 |-> S[i]]
  BY <1>1, <1>2, IsSeqShape
<1>4. \A i \in 1 .. n + 1 : T[i] = S[i]
  BY <1>1, <1>2
<1>. HIDE DEF T
<1>5. T = S
  BY <1>3, <1>4
<1>. QED
  BY <1>1, <1>5 DEF T

(* ParseOK of a stack with a frame on it, from ParseOK of the stack below. *)
LEMMA ParseAppend ==
  ASSUME NEW F, IsSeq(F), NEW f, NEW p, NEW ts
  PROVE  ParseOK(Append(F, f), p, ts) <=>
           /\ Parses(f) => Parsed(p, ts)
           /\ ParseOK(F, IF Parses(f) THEN f.saved[1] ELSE p, ts)
<1>. DEFINE S == Append(F, f)
           n == Len(F)
<1>1. /\ Len(S) = n + 1 /\ n \in Nat /\ S[n + 1] = f
      /\ \A i \in 1 .. n : S[i] = F[i]
  BY AppendIsSeq, IsSeqShape
<1>. HIDE DEF S, n
<1>2. (\E i \in 1 .. Len(S) : Parses(S[i])) <=> Parses(f) \/ \E i \in 1 .. n : Parses(F[i])
  <2>1. \A i \in 1 .. Len(S) : i \in 1 .. n \/ i = n + 1
    BY <1>1
  <2>2. (1 .. n) \subseteq 1 .. Len(S) /\ n + 1 \in 1 .. Len(S)
    BY <1>1
  <2>. QED
    BY <1>1, <2>1, <2>2
<1>3. ASSUME NEW i \in 1 .. n
      PROVE  (\E j \in 1 .. i - 1 : Parses(S[j])) <=> \E j \in 1 .. i - 1 : Parses(F[j])
  <2>1. 1 .. i - 1 \subseteq 1 .. n
    BY <1>1
  <2>. QED
    BY <1>1, <2>1
<1>4. (\E j \in 1 .. (n + 1) - 1 : Parses(S[j])) <=> \E j \in 1 .. n : Parses(F[j])
  BY <1>1
<1>. DEFINE Back(T, i) == Parses(T[i]) =>
              IF \E j \in 1 .. i - 1 : Parses(T[j]) THEN Parsed(T[i].saved[1], ts)
              ELSE T[i].saved[1] = NoType
<1>5. ASSUME NEW i \in 1 .. n PROVE Back(S, i) <=> Back(F, i)
  BY <1>1, <1>3
<1>6. Back(S, n + 1) <=>
        (Parses(f) => IF \E j \in 1 .. n : Parses(F[j]) THEN Parsed(f.saved[1], ts)
                      ELSE f.saved[1] = NoType)
  BY <1>1, <1>4
<1>. HIDE DEF Back
<1>7. (\A i \in 1 .. Len(S) : Back(S, i)) <=> Back(S, n + 1) /\ \A i \in 1 .. n : Back(F, i)
  <2>1. \A i \in 1 .. Len(S) : i \in 1 .. n \/ i = n + 1
    BY <1>1
  <2>2. (1 .. n) \subseteq 1 .. Len(S) /\ n + 1 \in 1 .. Len(S)
    BY <1>1
  <2>. QED
    BY <1>5, <2>1, <2>2
<1>8. ParseOK(S, p, ts) <=>
        /\ IF Parses(f) \/ \E i \in 1 .. n : Parses(F[i]) THEN Parsed(p, ts) ELSE p = NoType
        /\ Back(S, n + 1) /\ \A i \in 1 .. n : Back(F, i)
  BY <1>2, <1>7 DEF ParseOK, Back
<1>9. \A q : ParseOK(F, q, ts) <=>
        /\ IF \E i \in 1 .. n : Parses(F[i]) THEN Parsed(q, ts) ELSE q = NoType
        /\ \A i \in 1 .. n : Back(F, i)
  BY DEF ParseOK, Back, n
<1>. QED
  BY <1>6, <1>8, <1>9 DEF S

(* SourceOK of a stack with a frame on it, from SourceOK of the stack      *)
(* below.                                                                  *)
LEMMA SourceAppend ==
  ASSUME NEW F, IsSeq(F), NEW f, NEW source, NEW load_type
  PROVE  SourceOK(Append(F, f), source, load_type) <=>
           IF IsLoad(f) THEN SourceOK(F, f.saved[2], f.saved[3])
           ELSE SourceOK(F, source, load_type)
<1>. DEFINE S == Append(F, f)
           n == Len(F)
           NoLoad(T, m) == \A i \in 1 .. m : ~IsLoad(T[i])
           Back(T, i) == IsLoad(T[i]) /\ NoLoad(T, i - 1) =>
                           T[i].saved[2] = NoFile /\ T[i].saved[3] = "FULL"
<1>1. /\ Len(S) = n + 1 /\ n \in Nat /\ S[n + 1] = f
      /\ \A i \in 1 .. n : S[i] = F[i]
  BY AppendIsSeq, IsSeqShape
<1>. HIDE DEF S, n
<1>2. \A i \in 1 .. Len(S) : i \in 1 .. n \/ i = n + 1
  BY <1>1
<1>3. (1 .. n) \subseteq 1 .. Len(S) /\ n + 1 \in 1 .. Len(S)
  BY <1>1
<1>4. \A m \in 0 .. n : 1 .. m \subseteq 1 .. n
  BY <1>1
<1>5. NoLoad(S, Len(S)) <=> NoLoad(F, n) /\ ~IsLoad(f)
  BY <1>1, <1>2, <1>3
<1>6. \A m \in 0 .. n : NoLoad(S, m) <=> NoLoad(F, m)
  BY <1>1, <1>4
<1>7. ASSUME NEW i \in 1 .. n PROVE Back(S, i) <=> Back(F, i)
  <2>1. i - 1 \in 0 .. n
    BY <1>1
  <2>. HIDE DEF NoLoad
  <2>. QED
    BY <1>1, <1>6, <2>1
<1>8. Back(S, n + 1) <=> (IsLoad(f) /\ NoLoad(F, n) => f.saved[2] = NoFile /\ f.saved[3] = "FULL")
  <2>1. n \in 0 .. n /\ (n + 1) - 1 = n
    BY <1>1
  <2>. HIDE DEF NoLoad
  <2>. QED
    BY <1>1, <1>6, <2>1
<1>. HIDE DEF Back, NoLoad
<1>9. (\A i \in 1 .. Len(S) : Back(S, i)) <=> Back(S, n + 1) /\ \A i \in 1 .. n : Back(F, i)
  BY <1>2, <1>3, <1>7
<1>10. \A a, b : SourceOK(F, a, b) <=>
         (NoLoad(F, n) => a = NoFile /\ b = "FULL") /\ \A i \in 1 .. n : Back(F, i)
  BY DEF SourceOK, Back, NoLoad, n
<1>11. SourceOK(S, source, load_type) <=>
         (NoLoad(S, Len(S)) => source = NoFile /\ load_type = "FULL")
         /\ \A i \in 1 .. Len(S) : Back(S, i)
  BY DEF SourceOK, Back, NoLoad
<1>. QED
  BY <1>5, <1>8, <1>9, <1>10, <1>11 DEF S

(* The types a stack loads and parses, with one frame more.                *)
LEMMA LoadsAppend ==
  ASSUME NEW F, IsSeq(F), NEW f
  PROVE  /\ LoadsOf(Append(F, f)) = LoadsOf(F) \cup (IF IsLoad(f) THEN {f.type} ELSE {})
         /\ ParsesOf(Append(F, f)) = ParsesOf(F) \cup (IF f.k = "type" THEN {f.type} ELSE {})
<1>. DEFINE S == Append(F, f)
           n == Len(F)
<1>1. /\ Len(S) = n + 1 /\ n \in Nat /\ S[n + 1] = f
      /\ \A i \in 1 .. n : S[i] = F[i]
  BY AppendIsSeq, IsSeqShape
<1>. HIDE DEF S, n
<1>2. \A i \in 1 .. Len(S) : i \in 1 .. n \/ i = n + 1
  BY <1>1
<1>3. (1 .. n) \subseteq 1 .. Len(S) /\ n + 1 \in 1 .. Len(S)
  BY <1>1
<1>4. LoadsOf(S) = LoadsOf(F) \cup (IF IsLoad(f) THEN {f.type} ELSE {})
  <2>1. \A x : x \in LoadsOf(S) <=> \E i \in 1 .. Len(S) : IsLoad(S[i]) /\ x = S[i].type
    BY DEF LoadsOf
  <2>2. \A x : x \in LoadsOf(F) <=> \E i \in 1 .. n : IsLoad(F[i]) /\ x = F[i].type
    BY DEF LoadsOf, n
  <2>. QED
    BY <1>1, <1>2, <1>3, <2>1, <2>2
<1>5. ParsesOf(S) = ParsesOf(F) \cup (IF f.k = "type" THEN {f.type} ELSE {})
  <2>1. \A x : x \in ParsesOf(S) <=> \E i \in 1 .. Len(S) : S[i].k = "type" /\ x = S[i].type
    BY DEF ParsesOf
  <2>2. \A x : x \in ParsesOf(F) <=> \E i \in 1 .. n : F[i].k = "type" /\ x = F[i].type
    BY DEF ParsesOf, n
  <2>. QED
    BY <1>1, <1>2, <1>3, <2>1, <2>2
<1>. QED
  BY <1>4, <1>5 DEF S

(* Loads stay apart when a frame loads a type no frame below loads.        *)
LEMMA ApartAppend ==
  ASSUME NEW F, IsSeq(F), NEW f
  PROVE  Apart(Append(F, f)) <=>
           Apart(F) /\ (IsLoad(f) /\ f.type # NoType => f.type \notin LoadsOf(F))
<1>. DEFINE S == Append(F, f)
           n == Len(F)
<1>1. /\ Len(S) = n + 1 /\ n \in Nat /\ S[n + 1] = f
      /\ \A i \in 1 .. n : S[i] = F[i]
  BY AppendIsSeq, IsSeqShape
<1>. HIDE DEF S, n
<1>2. \A i \in 1 .. Len(S) : i \in 1 .. n \/ i = n + 1
  BY <1>1
<1>3. (1 .. n) \subseteq 1 .. Len(S) /\ n + 1 \in 1 .. Len(S) /\ \A i \in 1 .. n : i # n + 1
  BY <1>1
<1>4. \A x : x \in LoadsOf(F) <=> \E i \in 1 .. n : IsLoad(F[i]) /\ x = F[i].type
  BY DEF LoadsOf, n
<1>5. Apart(F) <=> \A i, j \in 1 .. n :
         IsLoad(F[i]) /\ IsLoad(F[j]) /\ F[i].type = F[j].type /\ F[i].type # NoType => i = j
  BY DEF Apart, n
<1>. QED
  <2>1. ASSUME Apart(S) PROVE Apart(F) /\ (IsLoad(f) /\ f.type # NoType => f.type \notin LoadsOf(F))
    BY <1>1, <1>3, <1>4, <1>5, <2>1 DEF Apart
  <2>2. ASSUME Apart(F), IsLoad(f) /\ f.type # NoType => f.type \notin LoadsOf(F) PROVE Apart(S)
    BY <1>1, <1>2, <1>4, <1>5, <2>2 DEF Apart
  <2>. QED
    BY <2>1, <2>2 DEF S

(* A stack with a frame on it is right when the frame is, and when the     *)
(* stack below it is, in the context the frame puts back.                  *)
LEMMA StackAppend ==
  ASSUME NEW F, IsSeq(F), NEW f, NEW ts, NEW p, NEW source, NEW load_type
  PROVE  StackInv(Append(F, f), ts, p, source, load_type) <=>
           /\ FrameOK(f, ts)
           /\ IsLoad(f) /\ f.type # NoType => f.type \notin LoadsOf(F)
           /\ Parses(f) => Parsed(p, ts)
           /\ StackInv(F, ts, IF Parses(f) THEN f.saved[1] ELSE p,
                       IF IsLoad(f) THEN f.saved[2] ELSE source,
                       IF IsLoad(f) THEN f.saved[3] ELSE load_type)
<1>. DEFINE S == Append(F, f)
           n == Len(F)
<1>1. /\ Len(S) = n + 1 /\ n \in Nat /\ S[n + 1] = f /\ IsSeq(S)
      /\ \A i \in 1 .. n : S[i] = F[i]
  BY AppendIsSeq, IsSeqShape
<1>2. (\A i \in 1 .. Len(S) : FrameOK(S[i], ts)) <=> FrameOK(f, ts) /\ \A i \in 1 .. n : FrameOK(F[i], ts)
  <2>. HIDE DEF S, n
  <2>1. \A i \in 1 .. Len(S) : i \in 1 .. n \/ i = n + 1
    BY <1>1
  <2>2. (1 .. n) \subseteq 1 .. Len(S) /\ n + 1 \in 1 .. Len(S)
    BY <1>1
  <2>. QED
    BY <1>1, <2>1, <2>2
<1>3. Apart(S) <=> Apart(F) /\ (IsLoad(f) /\ f.type # NoType => f.type \notin LoadsOf(F))
  BY ApartAppend
<1>4. ParseOK(S, p, ts) <=> /\ Parses(f) => Parsed(p, ts)
                            /\ ParseOK(F, IF Parses(f) THEN f.saved[1] ELSE p, ts)
  BY ParseAppend
<1>5. SourceOK(S, source, load_type) <=>
        IF IsLoad(f) THEN SourceOK(F, f.saved[2], f.saved[3]) ELSE SourceOK(F, source, load_type)
  BY SourceAppend
<1>. HIDE DEF S
<1>. QED
  BY <1>1, <1>2, <1>3, <1>4, <1>5 DEF StackInv, S

-----------------------------------------------------------------------------
(* What the types may become under a stack: those that are loaded stay,    *)
(* with the marks the frames of the stack stand for.                       *)
Kept(S, ts, us) ==
  \A t \in DOMAIN ts : isContentLoaded(ts[t]) =>
    /\ t \in DOMAIN us /\ us[t].serial = ts[t].serial
    /\ ts[t].type_loading => us[t].type_loading
    /\ ts[t].input_source_loading /\ t \in LoadsOf(S) => us[t].input_source_loading

(* A stack stays right when the types become what Kept allows.             *)
LEMMA StackKept ==
  ASSUME NEW S, NEW ts, NEW us, NEW p, NEW source, NEW load_type,
         StackInv(S, ts, p, source, load_type), Kept(S, ts, us)
  PROVE  StackInv(S, us, p, source, load_type)
<1>1. \A t : Parsed(t, ts) => Parsed(t, us)
  BY DEF Kept, Parsed, isContentLoaded
<1>2. ASSUME NEW i \in 1 .. Len(S), FrameOK(S[i], ts) PROVE FrameOK(S[i], us)
  <2>. DEFINE f == S[i]
  <2>1. IsLoad(f) => f.type \in LoadsOf(S)
    BY DEF LoadsOf
  <2>2. CASE f.type = NoType
    BY <1>2, <2>2 DEF FrameOK
  <2>3. CASE f.type # NoType
    <3>1. f.type \in DOMAIN ts /\ ts[f.type].serial = f.serial
      BY <1>2, <2>3 DEF FrameOK
    <3>2. IsLoad(f) \/ f.k = "type"
      BY <1>2, <2>3 DEF FrameOK, IsLoad
    <3>3. /\ IsLoad(f) => ts[f.type].input_source_loading
          /\ f.k = "type" => Parsed(f.type, ts)
      BY <1>2, <2>3 DEF FrameOK
    <3>4. isContentLoaded(ts[f.type])
      BY <3>2, <3>3 DEF isContentLoaded, Parsed
    <3>5. /\ f.type \in DOMAIN us /\ us[f.type].serial = f.serial
          /\ IsLoad(f) => us[f.type].input_source_loading
      BY <2>1, <3>1, <3>3, <3>4 DEF Kept
    <3>. QED
      BY <1>1, <1>2, <3>5 DEF FrameOK
  <2>. QED
    BY <2>2, <2>3
<1>3. ParseOK(S, p, us)
  BY <1>1 DEF StackInv, ParseOK
<1>. QED
  BY <1>2, <1>3 DEF StackInv

(* What the invariant says of the innermost frame and of the rest of the   *)
(* stack.                                                                  *)
LEMMA TopOK ==
  ASSUME Inv, stack # <<>>
  PROVE  /\ IsSeq(Front(stack)) /\ stack = Append(Front(stack), top)
         /\ FrameOK(top, types)
         /\ IsLoad(top) /\ top.type # NoType => top.type \notin LoadsOf(Front(stack))
         /\ Parses(top) => Parsed(current_parse_type, types)
         /\ StackInv(Front(stack), types,
                     IF Parses(top) THEN top.saved[1] ELSE current_parse_type,
                     IF IsLoad(top) THEN top.saved[2] ELSE current_input_source,
                     IF IsLoad(top) THEN top.saved[3] ELSE current_load_type)
         /\ LoadsOf(stack) = LoadsOf(Front(stack)) \cup (IF IsLoad(top) THEN {top.type} ELSE {})
         /\ ParsesOf(stack) = ParsesOf(Front(stack)) \cup (IF top.k = "type" THEN {top.type} ELSE {})
<1>1. IsSeq(stack)
  BY DEF Inv, StackInv
<1>2. IsSeq(Front(stack)) /\ stack = Append(Front(stack), top)
  BY <1>1, FrontLast DEF top
<1>3. StackInv(Append(Front(stack), top), types, current_parse_type, current_input_source,
               current_load_type)
  BY <1>2 DEF Inv
<1>. QED
  BY <1>2, <1>3, StackAppend, LoadsAppend

(* A frame that goes on: of the same kind, for the same type.              *)
GoesOn(f) ==
  /\ FrameOK(f, types)
  /\ f.type = top.type /\ f.saved = top.saved
  /\ IsLoad(f) <=> IsLoad(top)
  /\ Parses(f) <=> Parses(top)
  /\ f.k = "type" <=> top.k = "type"

(* The stack is right when its innermost frame has gone on.                *)
LEMMA ReplacedOK ==
  ASSUME Inv, stack # <<>>, NEW f, GoesOn(f)
  PROVE  /\ IsSeq(Replaced(f))
         /\ StackInv(Replaced(f), types, current_parse_type, current_input_source, current_load_type)
         /\ LoadsOf(Replaced(f)) = LoadsOf(stack) /\ ParsesOf(Replaced(f)) = ParsesOf(stack)
<1>1. StackInv(Append(Front(stack), f), types, current_parse_type, current_input_source,
               current_load_type)
  BY TopOK, StackAppend DEF GoesOn
<1>2. /\ LoadsOf(Append(Front(stack), f)) = LoadsOf(stack)
      /\ ParsesOf(Append(Front(stack), f)) = ParsesOf(stack)
  BY TopOK, LoadsAppend DEF GoesOn
<1>. QED
  BY <1>1, <1>2 DEF Replaced, StackInv

(* What any step does that only goes on with the innermost frame.          *)
LEMMA GoneOn ==
  ASSUME Inv, stack # <<>>, NEW f, GoesOn(f), stack' = Replaced(f),
         UNCHANGED <<types, context>>
  PROVE  /\ StackInv(stack, types, current_parse_type, current_input_source, current_load_type)'
         /\ FlagsOK(stack, types)'
BY ReplacedOK DEF FlagsOK, Inv, context

(* The fields of a new frame.                                              *)
LEMMA FrameShape ==
  ASSUME NEW k, NEW type, NEW todo
  PROVE  /\ DOMAIN Frame(k, type, todo) = FrameFields
         /\ DOMAIN Frame(k, type, todo).saved = 1 .. 3
         /\ Frame(k, type, todo).k = k /\ Frame(k, type, todo).type = type
         /\ Frame(k, type, todo).todo = todo /\ Frame(k, type, todo).at = 1
         /\ type = NoType \/ Frame(k, type, todo).serial = types[type].serial
BY DEF Frame, FrameFields

(* The fields of a frame that has gone on to other elements.               *)
LEMMA AheadShape ==
  ASSUME NEW todo, FrameOK(top, types)
  PROVE  /\ DOMAIN Ahead(todo) = FrameFields
         /\ Ahead(todo).k = top.k /\ Ahead(todo).type = top.type
         /\ Ahead(todo).serial = top.serial
         /\ Ahead(todo).saved = top.saved /\ Ahead(todo).todo = todo /\ Ahead(todo).at = 1
         /\ Ahead(todo).seen = top.seen /\ Ahead(todo).pass = top.pass
BY DEF Ahead, FrameOK, FrameFields

(* The elements a frame has left are as good as those it had.              *)
LEMMA TailOK ==
  ASSUME NEW f, TodoOK(f), f.todo # <<>>
  PROVE  /\ IsSeq(Tail(f.todo))
         /\ f.k = "file" => ElementOK(Head(f.todo)) /\ \A e \in ToSet(Tail(f.todo)) : ElementOK(e)
         /\ f.k = "type" => ItemOK(Head(f.todo)) /\ \A e \in ToSet(Tail(f.todo)) : ItemOK(e)
BY TailIsSeq DEF TodoOK

(* The innermost frame with the first thing of its list done.              *)
LEMMA NextOK ==
  ASSUME Inv, stack # <<>>, top.todo # <<>>, top.k # "links"
  PROVE  GoesOn(Ahead(Tail(top.todo)))
<1>1. FrameOK(top, types)
  BY TopOK
<1>. DEFINE f == Ahead(Tail(top.todo))
<1>2. /\ DOMAIN f = FrameFields
      /\ f.k = top.k /\ f.type = top.type /\ f.serial = top.serial
      /\ f.saved = top.saved /\ f.todo = Tail(top.todo) /\ f.at = 1
  BY <1>1, AheadShape
<1>3. TodoOK(f)
  BY <1>1, <1>2, TailOK DEF TodoOK, FrameOK
<1>. HIDE DEF f
<1>4. (IsLoad(f) <=> IsLoad(top)) /\ (Parses(f) <=> Parses(top))
  BY <1>2 DEF IsLoad, Parses
<1>5. FrameOK(f, types)
  BY <1>1, <1>2, <1>3, <1>4 DEF FrameOK
<1>. QED
  BY <1>2, <1>4, <1>5 DEF GoesOn, f

-----------------------------------------------------------------------------
(* loadFileType: the new frame loads a type no frame loads yet, so the     *)
(* mark set on the type is its own.                                        *)
LEMMA BeginOK ==
  ASSUME NEW t, Known(t), mayLoad(t), NEW frames, BeginLoad(t, frames),
         StackInv(frames, types, current_parse_type, current_input_source, current_load_type),
         FlagsOK(frames, types), TypesOK, UNCHANGED current_parse_type
  PROVE  /\ StackInv(stack, types, current_parse_type, current_input_source, current_load_type)'
         /\ FlagsOK(stack, types)' /\ TypesOK' /\ DOMAIN types' = DOMAIN types
         /\ Kept(frames, types, types')
<1>. DEFINE f == LoadFrame(t, types[t].inputSource)
<1>0. t # NoType /\ DOMAIN types[t] = TypeFields /\ t \in DOMAIN types
  BY DEF Known, TypesOK
<1>1. /\ DOMAIN types' = DOMAIN types
      /\ types'[t] = [types[t] EXCEPT !.input_source_loading = TRUE]
      /\ \A u \in DOMAIN types : u # t => types'[u] = types[u]
  BY <1>0 DEF BeginLoad
<1>2. /\ DOMAIN types'[t] = TypeFields
      /\ types'[t].input_source_loading
      /\ types'[t].serial = types[t].serial
      /\ types'[t].type_loading = types[t].type_loading /\ types'[t].loadDone = types[t].loadDone
  BY <1>0, <1>1 DEF TypeFields
<1>3. Kept(frames, types, types')
  BY <1>0, <1>1, <1>2 DEF Kept
<1>4. StackInv(frames, types', current_parse_type, current_input_source, current_load_type)
  BY <1>3, StackKept
<1>5. t \notin LoadsOf(frames)
  <2>1. SUFFICES ASSUME NEW i \in 1 .. Len(frames), IsLoad(frames[i]), frames[i].type = t
                 PROVE  FALSE
    BY DEF LoadsOf
  <2>2. FrameOK(frames[i], types)
    BY DEF StackInv
  <2>. QED
    BY <1>0, <2>1, <2>2 DEF FrameOK, mayLoad
<1>6. /\ DOMAIN f = FrameFields /\ DOMAIN f.saved = 1 .. 3 /\ f.k = "open" /\ f.type = t
      /\ f.saved[2] = current_input_source /\ f.saved[3] = current_load_type
      /\ f.todo = <<>> /\ f.serial = types[t].serial /\ f.at = 1
  BY <1>0, FrameShape DEF LoadFrame, FrameFields
<1>. HIDE DEF f
<1>7. IsLoad(f) /\ ~Parses(f)
  BY <1>6 DEF IsLoad, Parses
<1>8. FrameOK(f, types')
  <2>1. TodoOK(f)
    BY <1>6 DEF TodoOK, IsSeq, ToSet
  <2>2. f.type \in DOMAIN types' /\ types'[f.type].serial = f.serial /\ types'[f.type].input_source_loading
    BY <1>0, <1>1, <1>2, <1>6
  <2>3. f.k \in {"open", "file", "type", "links", "return", "ask"} /\ f.k \notin {"links", "ask"} /\ f.k # "type"
    BY <1>6
  <2>4. f.at \in Nat
    BY <1>6
  <2>. QED
    BY <1>6, <2>1, <2>2, <2>3, <2>4 DEF FrameOK
<1>9. IsSeq(frames) /\ stack' = Append(frames, f)
  BY DEF StackInv, BeginLoad, f
<1>10. StackInv(stack', types', current_parse_type, types[t].inputSource, "TYPE")
  BY <1>4, <1>5, <1>6, <1>7, <1>8, <1>9, StackAppend
<1>11. LoadsOf(stack') = LoadsOf(frames) \cup {t} /\ ParsesOf(stack') = ParsesOf(frames)
  BY <1>6, <1>7, <1>9, LoadsAppend
<1>12. FlagsOK(stack', types')
  BY <1>0, <1>1, <1>2, <1>11 DEF FlagsOK
<1>. QED
  BY <1>0, <1>1, <1>2, <1>3, <1>10, <1>12 DEF BeginLoad, TypesOK

(* Schemes keep the types they belong to when types that are loaded stay.  *)
LEMMA SchemesKept ==
  ASSUME SchemesOK, NEW S, Kept(S, types, types'), UNCHANGED schemes
  PROVE  SchemesOK'
<1>1. \A t : Parsed(t, types) => /\ Parsed(t, types') /\ t \in DOMAIN types'
                                 /\ types'[t].serial = types[t].serial
  BY DEF Kept, Parsed, isContentLoaded
<1>. QED
  BY <1>1 DEF SchemesOK

(* The list of types is right as long as no type of it is unloaded.        *)
LEMMA VectorKept ==
  ASSUME VectorOK, DOMAIN types \subseteq DOMAIN types', UNCHANGED fileTypeVector
  PROVE  VectorOK'
BY DEF VectorOK, Known

(* Regions are only added to, by one action.                               *)
LEMMA RegionsKept == RegionsOK /\ UNCHANGED regions => RegionsOK'
BY DEF RegionsOK, RegionsNumbered

(* The name a load is begun for is one of a type that may be loaded.       *)
LEMMA StopNeedsLoad ==
  ASSUME NEW want, Stops(want) # {}, top.at \in Nat
  PROVE  /\ Min(Stops(want)) \in Nat
         /\ NeedsLoad(Candidates(want.name)[Min(Stops(want))])
<1>1. Stops(want) \subseteq Nat
  BY DEF Stops
<1>2. Min(Stops(want)) \in Stops(want)
  BY <1>1, MinOfNat
<1>. QED
  BY <1>1, <1>2 DEF Stops

(* A name that needs a type loaded begins the load of it.                  *)
LEMMA LoadAskedInv == Inv /\ LoadAsked => Inv'
<1>. SUFFICES ASSUME Inv, LoadAsked PROVE Inv'
  OBVIOUS
<1>1. PICK want \in Wanted :
        /\ LoadsFirst(want)
        /\ LET i == Min(Stops(want)) IN
             BeginLoad(Candidates(want.name)[i], Replaced([top EXCEPT !.at = i, !.loaded = TRUE]))
  BY DEF LoadAsked
<1>. DEFINE i == Min(Stops(want))
           t == Candidates(want.name)[i]
           f == [top EXCEPT !.at = i, !.loaded = TRUE]
<1>2. stack # <<>>
  BY DEF Wanted, InElement
<1>3. FrameOK(top, types)
  BY <1>2, TopOK
<1>4. NeedsLoad(t) /\ i \in Nat
  BY <1>1, <1>3, StopNeedsLoad DEF LoadsFirst, FrameOK
<1>. HIDE DEF i, t
<1>5. GoesOn(f)
  <2>1. /\ DOMAIN f = FrameFields /\ f.k = top.k /\ f.type = top.type /\ f.serial = top.serial
        /\ f.saved = top.saved /\ f.todo = top.todo /\ f.at = i
    BY <1>3 DEF FrameOK, FrameFields
  <2>. HIDE DEF f
  <2>2. (IsLoad(f) <=> IsLoad(top)) /\ (Parses(f) <=> Parses(top)) /\ TodoOK(f)
    BY <1>3, <2>1 DEF IsLoad, Parses, TodoOK, FrameOK
  <2>3. FrameOK(f, types)
    BY <1>3, <1>4, <2>1, <2>2 DEF FrameOK
  <2>. QED
    BY <2>1, <2>2, <2>3 DEF GoesOn
<1>. HIDE DEF f
<1>6. /\ StackInv(Replaced(f), types, current_parse_type, current_input_source, current_load_type)
      /\ LoadsOf(Replaced(f)) = LoadsOf(stack) /\ ParsesOf(Replaced(f)) = ParsesOf(stack)
  BY <1>2, <1>5, ReplacedOK
<1>7. FlagsOK(Replaced(f), types)
  BY <1>6 DEF FlagsOK, Inv
<1>8. BeginLoad(t, Replaced(f)) /\ UNCHANGED <<current_parse_type, fileTypeVector, schemes, regions>>
  BY <1>1 DEF t, i, f, LoadAsked
<1>9. /\ StackInv(stack, types, current_parse_type, current_input_source, current_load_type)'
      /\ FlagsOK(stack, types)' /\ TypesOK' /\ DOMAIN types' = DOMAIN types
      /\ Kept(Replaced(f), types, types')
  BY <1>4, <1>6, <1>7, <1>8, BeginOK DEF NeedsLoad, Inv
<1>. QED
  BY <1>8, <1>9, SchemesKept, VectorKept, RegionsKept DEF Inv

(* A step that changes nothing but what the innermost frame does next.     *)
LEMMA OnlyGoesOn ==
  ASSUME Inv, stack # <<>>, NEW f, GoesOn(f), stack' = Replaced(f),
         UNCHANGED <<types, fileTypeVector, schemes, regions, context>>
  PROVE  Inv'
<1>1. /\ StackInv(stack, types, current_parse_type, current_input_source, current_load_type)'
      /\ FlagsOK(stack, types)'
  BY GoneOn
<1>. QED
  BY <1>1 DEF Inv, TypesOK, VectorOK, SchemesOK, RegionsOK, RegionsNumbered, Known

(* A name is looked up.                                                    *)
LEMMA LookUpInv == Inv /\ LookUp => Inv'
<1>. SUFFICES ASSUME Inv, LookUp PROVE Inv'
  OBVIOUS
<1>1. PICK want \in Wanted :
        stack' = Replaced([top EXCEPT
            !.got = Append(@, Answer(want)), !.at = 1, !.loaded = FALSE,
            !.amid = @ \cup {t \in ToSet(Candidates(want.name)) : InProgress(t)}])
  BY DEF LookUp
<1>. DEFINE f == [top EXCEPT
            !.got = Append(@, Answer(want)), !.at = 1, !.loaded = FALSE,
            !.amid = @ \cup {t \in ToSet(Candidates(want.name)) : InProgress(t)}]
<1>2. stack # <<>>
  BY DEF Wanted, InElement
<1>3. FrameOK(top, types)
  BY <1>2, TopOK
<1>4. GoesOn(f)
  <2>1. /\ DOMAIN f = FrameFields /\ f.k = top.k /\ f.type = top.type /\ f.serial = top.serial
        /\ f.saved = top.saved /\ f.todo = top.todo /\ f.at = 1
    BY <1>3 DEF FrameOK, FrameFields
  <2>. HIDE DEF f
  <2>2. (IsLoad(f) <=> IsLoad(top)) /\ (Parses(f) <=> Parses(top)) /\ TodoOK(f)
    BY <1>3, <2>1 DEF IsLoad, Parses, TodoOK, FrameOK
  <2>3. FrameOK(f, types)
    BY <1>3, <2>1, <2>2 DEF FrameOK
  <2>. QED
    BY <2>1, <2>2, <2>3 DEF GoesOn
<1>. QED
  BY <1>1, <1>2, <1>4, OnlyGoesOn DEF LookUp, library

(* An element that is left out.                                            *)
LEMMA SkipElementInv == Inv /\ SkipElement => Inv'
<1>. SUFFICES ASSUME Inv, SkipElement PROVE Inv'
  OBVIOUS
<1>1. stack # <<>> /\ top.todo # <<>> /\ top.k = "file"
  BY DEF SkipElement, Working, Doing
<1>. QED
  BY <1>1, NextOK, OnlyGoesOn DEF SkipElement, library

(* An entity is added.                                                     *)
LEMMA AddTypeEntityInv == Inv /\ AddTypeEntity => Inv'
<1>. SUFFICES ASSUME Inv, AddTypeEntity PROVE Inv'
  OBVIOUS
<1>1. stack # <<>> /\ top.todo # <<>> /\ top.k = "type"
  BY DEF AddTypeEntity, Ready, Working, Doing
<1>. QED
  BY <1>1, NextOK, OnlyGoesOn DEF AddTypeEntity, NextElement

-----------------------------------------------------------------------------
(* The innermost frame ends and puts back what it saved.                   *)
LEMMA PopOK ==
  ASSUME Inv, stack # <<>>, stack' = Front(stack), Kept(Front(stack), types, types'),
         current_parse_type' = IF Parses(top) THEN top.saved[1] ELSE current_parse_type,
         current_input_source' = IF IsLoad(top) THEN top.saved[2] ELSE current_input_source,
         current_load_type' = IF IsLoad(top) THEN top.saved[3] ELSE current_load_type,
         \A t \in DOMAIN types' :
           /\ t \in DOMAIN types
           /\ types'[t].input_source_loading =>
                types[t].input_source_loading /\ ~(IsLoad(top) /\ t = top.type)
           /\ types'[t].type_loading /\ ~types'[t].loadDone =>
                types[t].type_loading /\ ~types[t].loadDone /\ ~(top.k = "type" /\ t = top.type)
  PROVE  /\ StackInv(stack, types, current_parse_type, current_input_source, current_load_type)'
         /\ FlagsOK(stack, types)'
<1>1. StackInv(Front(stack), types, current_parse_type', current_input_source', current_load_type')
  BY TopOK
<1>2. StackInv(Front(stack), types', current_parse_type', current_input_source', current_load_type')
  BY <1>1, StackKept
<1>3. FlagsOK(Front(stack), types')
  BY TopOK DEF FlagsOK, Inv
<1>. QED
  BY <1>2, <1>3

(* ts is types, without those unloaded before the exception.               *)
LEMMA ThrowOK ==
  ASSUME Inv, stack # <<>>, IsLoad(top), NEW ts, Throw(ts), Kept(stack, types, ts),
         \A t \in DOMAIN ts : t \in DOMAIN types /\ ts[t] = types[t]
  PROVE  /\ StackInv(stack, types, current_parse_type, current_input_source, current_load_type)'
         /\ FlagsOK(stack, types)' /\ TypesOK' /\ Kept(Front(stack), types, types')
         /\ DOMAIN types' = DOMAIN ts
<1>0. TypesOK
  BY DEF Inv
<1>1. /\ FrameOK(top, types) /\ ~Parses(top)
      /\ top.type # NoType => top.type \notin LoadsOf(Front(stack))
      /\ LoadsOf(stack) = LoadsOf(Front(stack)) \cup {top.type}
  BY TopOK DEF IsLoad, Parses
<1>2. /\ DOMAIN types' = DOMAIN ts
      /\ \A t \in DOMAIN ts : t # top.type \/ top.type = NoType => types'[t] = ts[t]
      /\ top.type # NoType /\ top.type \in DOMAIN ts =>
           types'[top.type] = [ts[top.type] EXCEPT !.load_broken = TRUE,
                                                   !.input_source_loading = FALSE]
  BY DEF Throw
<1>3. ASSUME NEW t \in DOMAIN ts
      PROVE  /\ DOMAIN types'[t] = TypeFields
             /\ types'[t].serial = types[t].serial
             /\ types'[t].type_loading = types[t].type_loading
             /\ types'[t].loadDone = types[t].loadDone
             /\ t # top.type => types'[t].input_source_loading = types[t].input_source_loading
             /\ t = top.type => types'[t].input_source_loading = FALSE
  <2>1. t # NoType /\ t \in DOMAIN types /\ ts[t] = types[t] /\ DOMAIN types[t] = TypeFields
    BY <1>0 DEF TypesOK
  <2>2. CASE t = top.type
    <3>1. types'[t] = [types[t] EXCEPT !.load_broken = TRUE, !.input_source_loading = FALSE]
      BY <1>2, <2>1, <2>2
    <3>. QED
      BY <2>1, <2>2, <3>1 DEF TypeFields
  <2>3. CASE t # top.type
    BY <1>2, <2>1, <2>3
  <2>. QED
    BY <2>2, <2>3
<1>4. TypesOK'
  BY <1>0, <1>2, <1>3 DEF TypesOK
<1>5. Kept(Front(stack), types, types')
  <2>1. SUFFICES ASSUME NEW t \in DOMAIN types, isContentLoaded(types[t])
                 PROVE  /\ t \in DOMAIN types' /\ types'[t].serial = types[t].serial
                        /\ types[t].type_loading => types'[t].type_loading
                        /\ types[t].input_source_loading /\ t \in LoadsOf(Front(stack)) =>
                             types'[t].input_source_loading
    BY DEF Kept
  <2>2. t \in DOMAIN ts
    BY <2>1 DEF Kept
  <2>3. t \in LoadsOf(Front(stack)) => t # top.type
    BY <1>0, <1>1 DEF TypesOK
  <2>. QED
    BY <1>2, <1>3, <2>2, <2>3
<1>6. \A t \in DOMAIN types' :
           /\ t \in DOMAIN types
           /\ types'[t].input_source_loading => types[t].input_source_loading /\ t # top.type
           /\ types'[t].type_loading /\ ~types'[t].loadDone =>
                types[t].type_loading /\ ~types[t].loadDone
  BY <1>2, <1>3
<1>7. top.k # "type"
  BY DEF IsLoad
<1>8. /\ stack' = Front(stack) /\ current_parse_type' = current_parse_type
      /\ current_input_source' = top.saved[2] /\ current_load_type' = top.saved[3]
  BY DEF Throw
<1>. QED
  BY <1>1, <1>2, <1>4, <1>5, <1>6, <1>7, <1>8, PopOK

(* Types that do not change are kept.                                      *)
LEMMA KeptSame == \A S, ts : Kept(S, ts, ts)
BY DEF Kept

(* parseHRC reads a file, or throws.                                       *)
LEMMA ReadHRCInv == Inv /\ ReadHRC => Inv'
<1>. SUFFICES ASSUME Inv, ReadHRC PROVE Inv'
  OBVIOUS
<1>1. stack # <<>> /\ top.k = "open" /\ UNCHANGED <<fileTypeVector, schemes, regions>>
  BY DEF ReadHRC, Doing
<1>2. IsLoad(top) /\ FrameOK(top, types)
  BY <1>1, TopOK DEF IsLoad
<1>3. CASE HrcFile(current_input_source)
  <2>. DEFINE f == [top EXCEPT !.k = "file", !.global = ~updateStarted,
                               !.todo = Files[current_input_source].elements]
  <2>1. /\ DOMAIN f = FrameFields /\ f.k = "file" /\ f.type = top.type /\ f.serial = top.serial
        /\ f.saved = top.saved /\ f.todo = Files[current_input_source].elements /\ f.at = top.at
    BY <1>2 DEF FrameOK, FrameFields
  <2>2. stack' = Replaced(f) /\ UNCHANGED <<types, context>>
    BY <1>3 DEF ReadHRC
  <2>. HIDE DEF f
  <2>3. TodoOK(f)
    BY <1>3, <2>1, FilesAssumption DEF HrcFile, TodoOK, IsSeq, IsList, ElementOK, ItemOK
  <2>4. (IsLoad(f) <=> IsLoad(top)) /\ (Parses(f) <=> Parses(top))
    BY <1>1, <2>1 DEF IsLoad, Parses
  <2>5. FrameOK(f, types)
    BY <1>2, <2>1, <2>3, <2>4 DEF FrameOK
  <2>6. GoesOn(f)
    BY <1>1, <2>1, <2>4, <2>5 DEF GoesOn
  <2>. QED
    BY <1>1, <2>2, <2>6, OnlyGoesOn
<1>4. CASE ~HrcFile(current_input_source)
  <2>1. Throw(types)
    BY <1>4 DEF ReadHRC
  <2>2. /\ StackInv(stack, types, current_parse_type, current_input_source, current_load_type)'
        /\ FlagsOK(stack, types)' /\ TypesOK' /\ Kept(Front(stack), types, types')
        /\ DOMAIN types' = DOMAIN types
    BY <1>1, <1>2, <2>1, KeptSame, ThrowOK
  <2>. QED
    BY <1>1, <2>2, SchemesKept, VectorKept, RegionsKept DEF Inv
<1>. QED
  BY <1>3, <1>4

(* erase takes the one entry of a type out of the list of types.           *)
LEMMA NotInOK ==
  ASSUME VectorOK, NEW name
  PROVE  /\ IsSeq(NotIn(name))
         /\ \A i \in 1 .. Len(NotIn(name)) :
              /\ Known(NotIn(name)[i]) /\ NotIn(name)[i] # name
              /\ \A j \in 1 .. i - 1 : NotIn(name)[j] # NotIn(name)[i]
<1>. DEFINE v == fileTypeVector
           I == {i \in 1 .. Len(v) : v[i] = name}
           at == SelectInSeq(v, LAMBDA t : t = name)
<1>1. /\ IsSeq(v) /\ Len(v) \in Nat
      /\ \A i \in 1 .. Len(v) : Known(v[i]) /\ \A j \in 1 .. i - 1 : v[j] # v[i]
  BY IsSeqShape DEF VectorOK
<1>2. at = IF I # {} THEN Min(I) ELSE 0
  BY DEF SelectInSeq
<1>3. CASE I = {}
  <2>1. NotIn(name) = v
    BY <1>2, <1>3 DEF NotIn
  <2>. QED
    BY <1>1, <1>3, <2>1
<1>4. CASE I # {}
  <2>1. I \subseteq Nat
    BY <1>1
  <2>2. at \in I
    BY <1>2, <1>4, <2>1, MinOfNat
  <2>3. at \in 1 .. Len(v) /\ v[at] = name
    BY <2>2
  <2>. DEFINE w == RemoveAt(v, at)
  <2>4. NotIn(name) = w
    BY <2>3 DEF NotIn
  <2>. HIDE DEF at
  <2>5. /\ IsSeq(w) /\ Len(w) = Len(v) - 1
        /\ \A i \in 1 .. Len(v) - 1 : w[i] = IF i < at THEN v[i] ELSE v[i + 1]
    BY <1>1, <2>3, RemoveAtIsSeq
  <2>. HIDE DEF w, v, I
  <2>6. \A i, j \in 1 .. Len(v) : i # j => v[i] # v[j]
    BY <1>1
  <2>7. ASSUME NEW i \in 1 .. Len(w)
        PROVE  /\ Known(w[i]) /\ w[i] # name
               /\ \A j \in 1 .. i - 1 : w[j] # w[i]
    <3>. DEFINE o(k) == IF k < at THEN k ELSE k + 1
    <3>1. \A k \in 1 .. Len(w) : o(k) \in 1 .. Len(v) /\ o(k) # at /\ w[k] = v[o(k)]
      BY <1>1, <2>3, <2>5
    <3>2. \A j \in 1 .. i - 1 : j \in 1 .. Len(w) /\ o(j) # o(i)
      BY <1>1, <2>3, <2>5
    <3>. HIDE DEF o
    <3>. QED
      BY <1>1, <2>3, <2>6, <3>1, <3>2
  <2>. QED
    BY <2>4, <2>5, <2>7
<1>. QED
  BY <1>3, <1>4

-----------------------------------------------------------------------------
(* Unloading leaves alone what is loaded.                                  *)
LEMMA UnloadedKept ==
  ASSUME NEW e, ~Unloadable(e), NEW S, NEW ts,
         \A t \in DOMAIN types \ {e.name} : t \in DOMAIN ts /\ ts[t] = types[t]
  PROVE  Kept(S, types, ts)
BY DEF Kept, Unloadable, Known

(* A prototype that may not be replaced, or leads nowhere, ends the load   *)
(* of its file.                                                            *)
LEMMA PrototypeThrowsInv == Inv /\ PrototypeThrows => Inv'
<1>. SUFFICES ASSUME Inv, PrototypeThrows PROVE Inv'
  OBVIOUS
<1>1. /\ stack # <<>> /\ top.k = "file" /\ IsLoad(top)
      /\ UNCHANGED <<schemes, regions>>
  BY DEF PrototypeThrows, Working, Doing, IsLoad
<1>2. CASE Unloadable(element) /\ Throw(types) /\ UNCHANGED fileTypeVector
  <2>1. /\ StackInv(stack, types, current_parse_type, current_input_source, current_load_type)'
        /\ FlagsOK(stack, types)' /\ TypesOK' /\ Kept(Front(stack), types, types')
        /\ DOMAIN types' = DOMAIN types
    BY <1>1, <1>2, KeptSame, ThrowOK
  <2>. QED
    BY <1>1, <1>2, <2>1, SchemesKept, VectorKept, RegionsKept DEF Inv
<1>3. CASE /\ ~Unloadable(element)
           /\ Throw(Unloaded(element.name)) /\ fileTypeVector' = NotIn(element.name)
  <2>. DEFINE ts == Unloaded(element.name)
  <2>1. DOMAIN ts = DOMAIN types \ {element.name} /\ \A t \in DOMAIN ts : ts[t] = types[t]
    BY DEF Unloaded
  <2>. HIDE DEF ts
  <2>2. Kept(stack, types, ts)
    BY <1>3, <2>1, UnloadedKept
  <2>3. /\ StackInv(stack, types, current_parse_type, current_input_source, current_load_type)'
        /\ FlagsOK(stack, types)' /\ TypesOK' /\ Kept(Front(stack), types, types')
        /\ DOMAIN types' = DOMAIN ts
    BY <1>1, <1>3, <2>1, <2>2, ThrowOK DEF ts
  <2>4. VectorOK'
    BY <1>3, <2>1, <2>3, NotInOK DEF VectorOK, Known, Inv
  <2>. QED
    BY <1>1, <2>3, <2>4, SchemesKept, RegionsKept DEF Inv
<1>. QED
  BY <1>2, <1>3 DEF PrototypeThrows

(* A prototype takes the place of one that is not loaded: nothing points   *)
(* to that one.                                                            *)
LEMMA AddPrototypeInv == Inv /\ AddPrototype => Inv'
<1>. SUFFICES ASSUME Inv, AddPrototype PROVE Inv'
  OBVIOUS
<1>1. /\ stack # <<>> /\ top.todo # <<>> /\ top.k = "file" /\ ~Unloadable(element)
      /\ stack' = Replaced(Ahead(Tail(top.todo)))
      /\ UNCHANGED <<schemes, regions, context>>
  BY DEF AddPrototype, Working, Doing
<1>. DEFINE f == Ahead(Tail(top.todo))
           new == parsePrototypeBlock(element, serials')
           name == element.name
<1>2. GoesOn(f)
  BY <1>1, NextOK
<1>3. /\ IsSeq(Replaced(f))
      /\ StackInv(Replaced(f), types, current_parse_type, current_input_source, current_load_type)
      /\ LoadsOf(Replaced(f)) = LoadsOf(stack) /\ ParsesOf(Replaced(f)) = ParsesOf(stack)
  BY <1>1, <1>2, ReplacedOK
<1>4. name # NoType
  <2>1. ElementOK(Head(top.todo))
    BY <1>1, TopOK, TailOK DEF FrameOK
  <2>. QED
    BY <2>1 DEF ElementOK, element
<1>5. /\ DOMAIN new = TypeFields
      /\ new.input_source_loading = FALSE /\ new.type_loading = FALSE
  BY DEF parsePrototypeBlock, FileTypeOf, TypeFields
<1>6. types' = Put(Unloaded(name), name, new)
  BY DEF AddPrototype
<1>. HIDE DEF new, f
<1>7. /\ DOMAIN types' = DOMAIN types \cup {name} /\ types'[name] = new
      /\ \A t \in DOMAIN types : t # name => types'[t] = types[t]
  BY <1>6 DEF Put, Unloaded
<1>8. Kept(Replaced(f), types, types')
  BY <1>1, <1>7, UnloadedKept
<1>9. StackInv(stack, types, current_parse_type, current_input_source, current_load_type)'
  BY <1>1, <1>3, <1>8, StackKept DEF context, f
<1>10. FlagsOK(stack, types)'
  <2>1. LoadsOf(stack') = LoadsOf(stack) /\ ParsesOf(stack') = ParsesOf(stack)
    BY <1>1, <1>3 DEF f
  <2>2. FlagsOK(stack, types)
    BY DEF Inv
  <2>. QED
    BY <1>5, <1>7, <2>1, <2>2 DEF FlagsOK
<1>11. TypesOK'
  <2>1. TypesOK
    BY DEF Inv
  <2>. QED
    BY <1>4, <1>5, <1>7, <2>1 DEF TypesOK
<1>12. VectorOK'
  <2>. DEFINE v == NotIn(name)
  <2>1. /\ IsSeq(v)
        /\ \A i \in 1 .. Len(v) : /\ Known(v[i]) /\ v[i] # name
                                  /\ \A j \in 1 .. i - 1 : v[j] # v[i]
    BY NotInOK DEF Inv
  <2>. HIDE DEF v
  <2>2. fileTypeVector' = v \/ fileTypeVector' = Append(v, name)
    BY DEF AddPrototype, v
  <2>3. CASE fileTypeVector' = v
    BY <1>7, <2>1, <2>3 DEF VectorOK, Known
  <2>4. CASE fileTypeVector' = Append(v, name)
    <3>. DEFINE w == Append(v, name)
    <3>1. /\ IsSeq(w) /\ Len(w) = Len(v) + 1 /\ Len(v) \in Nat
          /\ \A i \in 1 .. Len(v) : w[i] = v[i]
          /\ w[Len(v) + 1] = name
      BY <2>1, AppendIsSeq, IsSeqShape
    <3>. HIDE DEF w
    <3>2. ASSUME NEW i \in 1 .. Len(w)
          PROVE  w[i] \in DOMAIN types' /\ \A j \in 1 .. i - 1 : w[j] # w[i]
      <4>1. CASE i \in 1 .. Len(v)
        <5>1. \A j \in 1 .. i - 1 : j \in 1 .. Len(v)
          BY <3>1, <4>1
        <5>. QED
          BY <1>7, <2>1, <3>1, <4>1, <5>1 DEF Known
      <4>2. CASE i = Len(v) + 1
        <5>1. \A j \in 1 .. i - 1 : j \in 1 .. Len(v)
          BY <3>1, <4>2
        <5>. QED
          BY <1>7, <2>1, <3>1, <4>2, <5>1
      <4>. QED
        BY <3>1, <4>1, <4>2
    <3>. QED
      BY <2>4, <3>1, <3>2 DEF VectorOK, Known, w
  <2>. QED
    BY <2>2, <2>3, <2>4
<1>. QED
  BY <1>1, <1>8, <1>9, <1>10, <1>11, <1>12, SchemesKept, RegionsKept DEF Inv

(* The parse of a type begins: it becomes the type being parsed.           *)
LEMMA AddTypeInv == Inv /\ AddType => Inv'
<1>. SUFFICES ASSUME Inv, AddType PROVE Inv'
  OBVIOUS
<1>. DEFINE t == element.name
           g == Ahead(Tail(top.todo))
           f == [Frame("type", t, element.items) EXCEPT !.saved = <<current_parse_type, NoFile, "FULL">>]
<1>1. /\ stack # <<>> /\ top.todo # <<>> /\ top.k = "file" /\ element.tag = "type" /\ ~LeavesOut(element)
      /\ stack' = Append(Replaced(g), f)
      /\ current_parse_type' = t
      /\ types' = [types EXCEPT ![t].type_loading = TRUE]
      /\ UNCHANGED <<fileTypeVector, schemes, regions, current_input_source, current_load_type>>
  BY DEF AddType, Working, Doing
<1>2. TypesOK /\ FlagsOK(stack, types)
  BY DEF Inv
<1>3. t \in DOMAIN types /\ ~types[t].type_loading /\ t # NoType /\ DOMAIN types[t] = TypeFields
  BY <1>1, <1>2 DEF LeavesOut, Known, TypesOK
<1>4. GoesOn(g)
  BY <1>1, NextOK
<1>. HIDE DEF g
<1>5. /\ IsSeq(Replaced(g))
      /\ StackInv(Replaced(g), types, current_parse_type, current_input_source, current_load_type)
      /\ LoadsOf(Replaced(g)) = LoadsOf(stack) /\ ParsesOf(Replaced(g)) = ParsesOf(stack)
  BY <1>1, <1>4, ReplacedOK
<1>6. /\ DOMAIN types' = DOMAIN types
      /\ \A u \in DOMAIN types : u # t => types'[u] = types[u]
      /\ DOMAIN types'[t] = TypeFields
      /\ types'[t].type_loading
      /\ types'[t].serial = types[t].serial
      /\ types'[t].input_source_loading = types[t].input_source_loading
      /\ types'[t].loadDone = types[t].loadDone
  <2>1. /\ DOMAIN types' = DOMAIN types
        /\ \A u \in DOMAIN types : u # t => types'[u] = types[u]
        /\ types'[t] = [types[t] EXCEPT !.type_loading = TRUE]
    BY <1>1, <1>3
  <2>. QED
    BY <1>3, <2>1 DEF TypeFields
<1>7. Kept(Replaced(g), types, types')
  BY <1>6 DEF Kept
<1>8. StackInv(Replaced(g), types', current_parse_type, current_input_source, current_load_type)
  BY <1>5, <1>7, StackKept
<1>9. /\ DOMAIN f = FrameFields /\ DOMAIN f.saved = 1 .. 3 /\ f.k = "type" /\ f.type = t
      /\ f.saved[1] = current_parse_type
      /\ f.todo = element.items /\ f.serial = types[t].serial /\ f.at = 1
  BY <1>3, FrameShape DEF FrameFields
<1>. HIDE DEF f
<1>10. TodoOK(f)
  <2>1. ElementOK(element)
    BY <1>1, TopOK, TailOK DEF FrameOK, element
  <2>. QED
    BY <1>1, <1>9, <2>1 DEF ElementOK, TodoOK, IsSeq, IsList
<1>11. ~IsLoad(f) /\ Parses(f) /\ Parsed(t, types')
  BY <1>3, <1>6, <1>9 DEF IsLoad, Parses, Parsed
<1>12. FrameOK(f, types')
  <2>1. f.type \in DOMAIN types' /\ types'[f.type].serial = f.serial
    BY <1>3, <1>6, <1>9
  <2>2. f.k \in {"open", "file", "type", "links", "return", "ask"} /\ f.k \notin {"links", "ask"}
    BY <1>9
  <2>. QED
    BY <1>3, <1>9, <1>10, <1>11, <2>1, <2>2 DEF FrameOK
<1>13. StackInv(Append(Replaced(g), f), types', t, current_input_source, current_load_type)
  BY <1>5, <1>8, <1>9, <1>11, <1>12, StackAppend
<1>14. LoadsOf(stack') = LoadsOf(stack) /\ ParsesOf(stack') = ParsesOf(stack) \cup {t}
  <2>1. stack' = Append(Replaced(g), f)
    BY <1>1
  <2>2. /\ LoadsOf(stack') = LoadsOf(Replaced(g)) \cup (IF IsLoad(f) THEN {f.type} ELSE {})
        /\ ParsesOf(stack') = ParsesOf(Replaced(g)) \cup (IF f.k = "type" THEN {f.type} ELSE {})
    BY <1>5, <2>1, LoadsAppend
  <2>. QED
    BY <1>5, <1>9, <1>11, <2>2
<1>15. FlagsOK(stack', types')
  BY <1>2, <1>6, <1>14 DEF FlagsOK
<1>16. TypesOK'
  BY <1>2, <1>6 DEF TypesOK
<1>. QED
  BY <1>1, <1>6, <1>7, <1>13, <1>15, <1>16, SchemesKept, VectorKept, RegionsKept DEF Inv

(* The parse of a type is over: the type parsed before comes back.         *)
LEMMA TypeDoneInv == Inv /\ TypeDone => Inv'
<1>. SUFFICES ASSUME Inv, TypeDone PROVE Inv'
  OBVIOUS
<1>. DEFINE t == top.type
<1>1. /\ stack # <<>> /\ top.k = "type" /\ stack' = Front(stack) /\ current_parse_type' = top.saved[1]
      /\ UNCHANGED <<fileTypeVector, schemes, regions, current_input_source, current_load_type>>
  BY DEF TypeDone, Doing
<1>2. PICK base : types' = [types EXCEPT ![t].loadDone = TRUE, ![t].baseScheme = base]
  BY DEF TypeDone
<1>3. TypesOK
  BY DEF Inv
<1>4. t \in DOMAIN types /\ DOMAIN types[t] = TypeFields
  BY <1>1, <1>3, TopOK DEF FrameOK, TypesOK
<1>5. /\ DOMAIN types' = DOMAIN types
      /\ \A u \in DOMAIN types : u # t => types'[u] = types[u]
      /\ types'[t] = [types[t] EXCEPT !.loadDone = TRUE, !.baseScheme = base]
  BY <1>2, <1>4
<1>6. /\ DOMAIN types'[t] = TypeFields
      /\ types'[t].serial = types[t].serial
      /\ types'[t].input_source_loading = types[t].input_source_loading
      /\ types'[t].type_loading = types[t].type_loading
      /\ types'[t].loadDone
  BY <1>4, <1>5 DEF TypeFields
<1>7. Kept(Front(stack), types, types')
  BY <1>5, <1>6 DEF Kept
<1>8. ~IsLoad(top) /\ Parses(top)
  BY <1>1 DEF IsLoad, Parses
<1>9. /\ StackInv(stack, types, current_parse_type, current_input_source, current_load_type)'
      /\ FlagsOK(stack, types)'
  <2>1. \A u \in DOMAIN types' :
           /\ u \in DOMAIN types
           /\ types'[u].input_source_loading => types[u].input_source_loading
           /\ types'[u].type_loading /\ ~types'[u].loadDone =>
                types[u].type_loading /\ ~types[u].loadDone /\ u # t
    BY <1>5, <1>6
  <2>. QED
    BY <1>1, <1>7, <1>8, <2>1, PopOK
<1>10. TypesOK'
  BY <1>3, <1>5, <1>6 DEF TypesOK
<1>. QED
  BY <1>1, <1>5, <1>7, <1>9, <1>10, SchemesKept, VectorKept, RegionsKept DEF Inv

-----------------------------------------------------------------------------
(* RegionNo finds a region by its name, or there is none.                  *)
LEMMA RegionNoOK ==
  ASSUME IsSeq(regions), NEW qname
  PROVE  /\ RegionNo(qname) \in 0 .. Len(regions)
         /\ RegionNo(qname) = 0 => \A i \in 1 .. Len(regions) : regions[i].name # qname
<1>. DEFINE I == {i \in 1 .. Len(regions) : regions[i].name = qname}
<1>1. Len(regions) \in Nat
  BY IsSeqShape
<1>2. RegionNo(qname) = IF I # {} THEN Min(I) ELSE 0
  BY DEF RegionNo, SelectInSeq
<1>3. I \subseteq Nat
  BY <1>1
<1>4. I # {} => Min(I) \in I
  BY <1>3, MinOfNat
<1>. QED
  BY <1>1, <1>2, <1>4

(* A region gets the next number, after its parent, under a name that is   *)
(* new.                                                                    *)
LEMMA AddTypeRegionInv == Inv /\ AddTypeRegion => Inv'
<1>. SUFFICES ASSUME Inv, AddTypeRegion PROVE Inv'
  OBVIOUS
<1>1. /\ stack # <<>> /\ top.todo # <<>> /\ top.k = "type"
      /\ UNCHANGED <<types, fileTypeVector, schemes, context>>
      /\ stack' = Replaced(Ahead(Tail(top.todo)))
  BY DEF AddTypeRegion, Ready, Working, Doing, NextElement
<1>2. /\ StackInv(stack, types, current_parse_type, current_input_source, current_load_type)'
      /\ FlagsOK(stack, types)'
  BY <1>1, NextOK, GoneOn
<1>3. IsSeq(regions) /\ RegionsNumbered
  BY DEF Inv, RegionsOK
<1>. DEFINE qname == qualifyOwnName(element.name)
           parent == IF top.got = <<>> \/ top.got[1] = NoName THEN 0 ELSE RegionNo(top.got[1])
           new == [name |-> qname, id |-> Len(regions) + 1, parent |-> parent]
<1>4. \/ regions' = regions
      \/ RegionNo(qname) = 0 /\ regions' = Append(regions, new)
  BY DEF AddTypeRegion
<1>5. ASSUME regions' = regions PROVE RegionsOK'
  BY <1>3, <1>5 DEF RegionsOK, RegionsNumbered
<1>6. ASSUME RegionNo(qname) = 0, regions' = Append(regions, new) PROVE RegionsOK'
  <2>1. parent \in 0 .. Len(regions) /\ Len(regions) \in Nat
    BY <1>3, IsSeqShape, RegionNoOK
  <2>2. \A i \in 1 .. Len(regions) : regions[i].name # qname
    BY <1>3, <1>6, RegionNoOK
  <2>3. \A i \in 1 .. Len(regions) : /\ regions[i].id = i /\ regions[i].parent < i
                                     /\ \A j \in 1 .. i - 1 : regions[j].name # regions[i].name
    BY <1>3, IsSeqShape DEF RegionsNumbered
  <2>4. new.name = qname /\ new.id = Len(regions) + 1 /\ new.parent = parent
    OBVIOUS
  <2>. HIDE DEF new, qname, parent
  <2>. DEFINE w == Append(regions, new)
             n == Len(regions)
  <2>5. /\ IsSeq(w) /\ Len(w) = n + 1
        /\ \A i \in 1 .. n : w[i] = regions[i]
        /\ w[n + 1] = new
    BY <1>3, AppendIsSeq
  <2>6. DOMAIN w = 1 .. n + 1
    BY <2>5, IsSeqShape
  <2>7. regions' = w
    BY <1>6
  <2>. HIDE DEF w
  <2>8. ASSUME NEW i \in 1 .. n + 1
        PROVE  /\ w[i].id = i /\ w[i].parent < i
               /\ \A j \in 1 .. i - 1 : w[j].name # w[i].name
    <3>1. \A j \in 1 .. i - 1 : j \in 1 .. n
      BY <2>1
    <3>2. CASE i \in 1 .. n
      BY <2>3, <2>5, <3>1, <3>2
    <3>3. CASE i = n + 1
      <4>1. w[i].id = i /\ w[i].parent < i
        BY <2>1, <2>4, <2>5, <3>3
      <4>2. \A j \in 1 .. i - 1 : w[j].name # w[i].name
        BY <2>2, <2>4, <2>5, <3>1, <3>3
      <4>. QED
        BY <4>1, <4>2
    <3>. QED
      BY <2>1, <3>2, <3>3
  <2>. QED
    BY <2>5, <2>6, <2>7, <2>8 DEF RegionsOK, RegionsNumbered
<1>7. RegionsOK'
  BY <1>4, <1>5, <1>6
<1>. QED
  BY <1>1, <1>2, <1>7 DEF Inv, TypesOK, VectorOK, SchemesOK, Known

(* A type imports another.                                                 *)
LEMMA AddTypeImportInv == Inv /\ AddTypeImport => Inv'
<1>. SUFFICES ASSUME Inv, AddTypeImport PROVE Inv'
  OBVIOUS
<1>. DEFINE t == top.type
           f == Ahead(Tail(top.todo))
<1>1. /\ stack # <<>> /\ top.todo # <<>> /\ top.k = "type"
      /\ UNCHANGED <<fileTypeVector, schemes, regions, context>>
      /\ stack' = Replaced(f)
      /\ \/ types' = types
         \/ \E x : types' = [types EXCEPT ![t].imports = x]
  BY DEF AddTypeImport, Ready, Working, Doing, NextElement
<1>2. GoesOn(f)
  BY <1>1, NextOK
<1>3. CASE types' = types
  BY <1>1, <1>2, <1>3, OnlyGoesOn
<1>4. ASSUME NEW x, types' = [types EXCEPT ![t].imports = x] PROVE Inv'
  <2>. HIDE DEF f
  <2>1. TypesOK /\ FlagsOK(stack, types)
    BY DEF Inv
  <2>2. t \in DOMAIN types /\ DOMAIN types[t] = TypeFields
    BY <1>1, <2>1, TopOK DEF FrameOK, TypesOK
  <2>3. /\ DOMAIN types' = DOMAIN types
        /\ \A u \in DOMAIN types : u # t => types'[u] = types[u]
        /\ types'[t] = [types[t] EXCEPT !.imports = x]
    BY <1>4, <2>2
  <2>4. /\ DOMAIN types'[t] = TypeFields
        /\ types'[t].serial = types[t].serial
        /\ types'[t].input_source_loading = types[t].input_source_loading
        /\ types'[t].type_loading = types[t].type_loading
        /\ types'[t].loadDone = types[t].loadDone
    BY <2>2, <2>3 DEF TypeFields
  <2>5. /\ StackInv(Replaced(f), types, current_parse_type, current_input_source, current_load_type)
        /\ LoadsOf(Replaced(f)) = LoadsOf(stack) /\ ParsesOf(Replaced(f)) = ParsesOf(stack)
    BY <1>1, <1>2, ReplacedOK
  <2>6. Kept(Replaced(f), types, types')
    BY <2>3, <2>4 DEF Kept
  <2>7. StackInv(stack, types, current_parse_type, current_input_source, current_load_type)'
    BY <1>1, <2>5, <2>6, StackKept DEF context
  <2>8. FlagsOK(stack, types)'
    BY <1>1, <2>1, <2>3, <2>4, <2>5 DEF FlagsOK
  <2>9. TypesOK'
    BY <2>1, <2>3, <2>4 DEF TypesOK
  <2>. QED
    BY <1>1, <2>3, <2>6, <2>7, <2>8, <2>9, SchemesKept, VectorKept, RegionsKept DEF Inv
<1>. QED
  BY <1>1, <1>3, <1>4

(* A scheme is added, and its nodes are what comes next.                   *)
LEMMA AddSchemeInv == Inv /\ AddScheme => Inv'
<1>. SUFFICES ASSUME Inv, AddScheme PROVE Inv'
  OBVIOUS
<1>. DEFINE qname == qualifyOwnName(element.name)
           nodes == IF Disabled(element) THEN <<>>
                    ELSE [i \in DOMAIN element.nodes |-> Put(element.nodes[i], "in", qname)]
           scheme == [type |-> top.type, serial |-> top.serial, nodes |-> <<>>]
           f == Ahead(nodes \o Tail(top.todo))
<1>1. /\ stack # <<>> /\ top.todo # <<>> /\ top.k = "type" /\ element.tag = "scheme"
      /\ UNCHANGED <<types, fileTypeVector, regions, context>>
  BY DEF AddScheme, Ready, Working, Doing
<1>2. FrameOK(top, types) /\ Parsed(current_parse_type, types) /\ ItemOK(element)
  BY <1>1, TopOK, TailOK DEF FrameOK, Parses, element
<1>3. CASE UNCHANGED schemes /\ NextElement
  BY <1>1, <1>3, NextOK, OnlyGoesOn DEF NextElement
<1>4. CASE /\ qname # NoName /\ qname \notin DOMAIN schemes
           /\ schemes' = Put(schemes, qname, scheme)
           /\ stack' = Replaced(f)
  <2>1. qname \in (DOMAIN types) \X STRING /\ qname[1] = current_parse_type
    BY <1>1, <1>2, <1>4 DEF ItemOK, qualifyOwnName, Parsed
  <2>2. /\ scheme.type = top.type /\ scheme.serial = top.serial
        /\ DOMAIN scheme = {"type", "serial", "nodes"}
    OBVIOUS
  <2>. HIDE DEF scheme
  <2>3. SchemesOK'
    <3>1. Parsed(top.type, types) /\ types[top.type].serial = top.serial
      BY <1>1, <1>2 DEF FrameOK
    <3>2. SchemesOK
      BY DEF Inv
    <3>. HIDE DEF qname
    <3>3. /\ DOMAIN schemes' = DOMAIN schemes \cup {qname} /\ schemes'[qname] = scheme
          /\ \A s \in DOMAIN schemes : s # qname => schemes'[s] = schemes[s]
      BY <1>4 DEF Put
    <3>. QED
      BY <1>1, <1>2, <2>1, <2>2, <3>1, <3>2, <3>3 DEF SchemesOK
  <2>4. IsSeq(nodes) /\ \A e \in ToSet(nodes) : ItemOK(e)
    <3>1. CASE Disabled(element)
      BY <3>1 DEF IsSeq, ToSet
    <3>2. CASE ~Disabled(element)
      <4>1. /\ IsSeq(element.nodes)
            /\ \A node \in ToSet(element.nodes) : "tag" \in DOMAIN node /\ node.tag # "scheme"
        BY <1>1, <1>2 DEF ItemOK, IsList, IsSeq
      <4>2. DOMAIN element.nodes = 1 .. Len(element.nodes) /\ Len(element.nodes) \in Nat
        BY <4>1, IsSeqShape
      <4>. DEFINE n == Len(element.nodes)
      <4>3. nodes = [i \in 1 .. n |-> Put(element.nodes[i], "in", qname)]
        BY <3>2, <4>2
      <4>. HIDE DEF nodes, qname, n
      <4>4. IsSeq(nodes) /\ DOMAIN nodes = 1 .. n
        BY <4>2, <4>3, FunctionIsSeq DEF n
      <4>5. ASSUME NEW i \in 1 .. n PROVE nodes[i].tag # "scheme"
        <5>1. "tag" \in DOMAIN element.nodes[i] /\ element.nodes[i].tag # "scheme"
          BY <4>1, <4>2 DEF ToSet, n
        <5>. QED
          BY <4>3, <5>1 DEF Put
      <4>. QED
        BY <4>4, <4>5 DEF ToSet, ItemOK
    <3>. QED
      BY <3>1, <3>2
  <2>. HIDE DEF nodes
  <2>5. IsSeq(Tail(top.todo)) /\ \A e \in ToSet(Tail(top.todo)) : ItemOK(e)
    BY <1>1, <1>2, TailOK DEF FrameOK
  <2>. DEFINE todo == nodes \o Tail(top.todo)
  <2>6. IsSeq(todo) /\ \A e \in ToSet(todo) : ItemOK(e)
    BY <2>4, <2>5, ConcatIsSeq
  <2>. HIDE DEF todo
  <2>7. /\ DOMAIN f = FrameFields
        /\ f.k = top.k /\ f.type = top.type /\ f.serial = top.serial
        /\ f.saved = top.saved /\ f.todo = todo /\ f.at = 1
    BY <1>2, AheadShape DEF todo
  <2>. HIDE DEF f
  <2>8. TodoOK(f)
    BY <1>1, <2>6, <2>7 DEF TodoOK
  <2>9. (IsLoad(f) <=> IsLoad(top)) /\ (Parses(f) <=> Parses(top))
    BY <1>1, <2>7 DEF IsLoad, Parses
  <2>10. FrameOK(f, types)
    BY <1>2, <2>7, <2>8, <2>9 DEF FrameOK
  <2>11. GoesOn(f)
    BY <2>7, <2>9, <2>10 DEF GoesOn
  <2>12. /\ StackInv(stack, types, current_parse_type, current_input_source, current_load_type)'
         /\ FlagsOK(stack, types)'
    BY <1>1, <1>4, <2>11, GoneOn
  <2>. QED
    BY <1>1, <2>3, <2>12 DEF Inv, TypesOK, VectorOK, RegionsOK, RegionsNumbered, Known
<1>. QED
  BY <1>3, <1>4 DEF AddScheme, NextElement

(* A node is added to its scheme.                                          *)
LEMMA AddNodeInv == Inv /\ AddNode => Inv'
<1>. SUFFICES ASSUME Inv, AddNode PROVE Inv'
  OBVIOUS
<1>1. /\ stack # <<>> /\ top.todo # <<>> /\ top.k = "type"
      /\ UNCHANGED <<types, fileTypeVector, regions, context>>
      /\ stack' = Replaced(Ahead(Tail(top.todo)))
      /\ schemes' = [schemes EXCEPT ![element.in].nodes = @ \o NodeOf(element)]
  BY DEF AddNode, Ready, Working, Doing, NextElement
<1>2. /\ StackInv(stack, types, current_parse_type, current_input_source, current_load_type)'
      /\ FlagsOK(stack, types)'
  BY <1>1, NextOK, GoneOn
<1>3. /\ DOMAIN schemes' = DOMAIN schemes
      /\ \A s \in DOMAIN schemes : s # element.in => schemes'[s] = schemes[s]
      /\ element.in \in DOMAIN schemes => \E x :
           schemes'[element.in] = [schemes[element.in] EXCEPT !.nodes = x]
  BY <1>1
<1>4. SchemesOK
  BY DEF Inv
<1>5. \A s \in DOMAIN schemes : /\ DOMAIN schemes'[s] = {"type", "serial", "nodes"}
                                /\ schemes'[s].type = schemes[s].type
                                /\ schemes'[s].serial = schemes[s].serial
  BY <1>3, <1>4 DEF SchemesOK
<1>6. SchemesOK'
  BY <1>1, <1>3, <1>4, <1>5 DEF SchemesOK
<1>. QED
  BY <1>1, <1>2, <1>6 DEF Inv, TypesOK, VectorOK, RegionsOK, RegionsNumbered, Known

-----------------------------------------------------------------------------
(* A file is read; the outermost one is followed by the pass over the      *)
(* references.                                                             *)
LEMMA FileDoneInv == Inv /\ FileDone => Inv'
<1>. SUFFICES ASSUME Inv, FileDone PROVE Inv'
  OBVIOUS
<1>. DEFINE g == [top EXCEPT !.k = "return"]
           f == [Frame("links", NoType, <<>>) EXCEPT !.pass = DOMAIN schemes]
<1>1. /\ stack # <<>> /\ top.k = "file" /\ top.todo = <<>>
      /\ UNCHANGED <<types, fileTypeVector, schemes, regions, context>>
      /\ stack' = Replaced(g) \/ stack' = Append(Replaced(g), f)
  BY DEF FileDone, Doing, library
<1>2. FrameOK(top, types)
  BY <1>1, TopOK
<1>3. /\ DOMAIN g = FrameFields /\ g.k = "return" /\ g.type = top.type /\ g.serial = top.serial
      /\ g.saved = top.saved /\ g.todo = <<>> /\ g.at = top.at
  BY <1>1, <1>2 DEF FrameOK, FrameFields
<1>4. /\ DOMAIN f = FrameFields /\ DOMAIN f.saved = 1 .. 3 /\ f.k = "links" /\ f.type = NoType
      /\ f.todo = <<>> /\ f.at = 1
  BY FrameShape DEF FrameFields
<1>. HIDE DEF f, g
<1>5. TodoOK(g) /\ TodoOK(f)
  BY <1>3, <1>4 DEF TodoOK, IsSeq, ToSet
<1>6. (IsLoad(g) <=> IsLoad(top)) /\ (Parses(g) <=> Parses(top)) /\ ~IsLoad(f) /\ ~Parses(f)
  BY <1>1, <1>3, <1>4 DEF IsLoad, Parses
<1>7. FrameOK(g, types) /\ FrameOK(f, types)
  BY <1>2, <1>3, <1>4, <1>5, <1>6 DEF FrameOK
<1>8. GoesOn(g)
  BY <1>1, <1>3, <1>6, <1>7 DEF GoesOn
<1>9. CASE stack' = Replaced(g)
  BY <1>1, <1>8, <1>9, OnlyGoesOn
<1>10. CASE stack' = Append(Replaced(g), f)
  <2>1. /\ IsSeq(Replaced(g))
        /\ StackInv(Replaced(g), types, current_parse_type, current_input_source, current_load_type)
        /\ LoadsOf(Replaced(g)) = LoadsOf(stack) /\ ParsesOf(Replaced(g)) = ParsesOf(stack)
    BY <1>1, <1>8, ReplacedOK
  <2>2. StackInv(stack', types, current_parse_type, current_input_source, current_load_type)
    BY <1>4, <1>6, <1>7, <1>10, <2>1, StackAppend
  <2>3. LoadsOf(stack') = LoadsOf(stack) /\ ParsesOf(stack') = ParsesOf(stack)
    <3>1. f.k # "type"
      BY <1>4
    <3>. DEFINE F == Replaced(g)
    <3>2. /\ LoadsOf(Append(F, f)) = LoadsOf(F) \cup (IF IsLoad(f) THEN {f.type} ELSE {})
          /\ ParsesOf(Append(F, f)) = ParsesOf(F) \cup (IF f.k = "type" THEN {f.type} ELSE {})
      BY <2>1, LoadsAppend
    <3>. QED
      BY <1>6, <1>10, <2>1, <3>1, <3>2
  <2>4. /\ StackInv(stack, types, current_parse_type, current_input_source, current_load_type)'
        /\ FlagsOK(stack, types)'
    BY <1>1, <2>2, <2>3 DEF context, FlagsOK, Inv
  <2>. QED
    BY <1>1, <2>4 DEF Inv, TypesOK, VectorOK, SchemesOK, RegionsOK, RegionsNumbered, Known
<1>. QED
  BY <1>1, <1>9, <1>10

(* A pass over the references that comes to a scheme, or is done with one. *)
LEMMA TurnOK ==
  ASSUME Inv, stack # <<>>, top.k = "links", NEW f, FrameOK(f, types), f.k = "links",
         f.type = NoType, stack' = Replaced(f),
         UNCHANGED <<types, current_input_source, current_load_type>>,
         Parses(f) => Parsed(current_parse_type', types),
         (IF Parses(f) THEN f.saved[1] ELSE current_parse_type') =
           IF Parses(top) THEN top.saved[1] ELSE current_parse_type
  PROVE  /\ StackInv(stack, types, current_parse_type, current_input_source, current_load_type)'
         /\ FlagsOK(stack, types)'
<1>1. ~IsLoad(top) /\ ~IsLoad(f) /\ top.k # "type" /\ f.k # "type"
  BY DEF IsLoad
<1>2. stack' = Append(Front(stack), f) /\ IsSeq(Front(stack))
  BY TopOK DEF Replaced
<1>3. StackInv(stack', types, current_parse_type', current_input_source, current_load_type)
  BY <1>1, <1>2, TopOK, StackAppend
<1>4. LoadsOf(stack') = LoadsOf(stack) /\ ParsesOf(stack') = ParsesOf(stack)
  BY <1>1, <1>2, TopOK, LoadsAppend
<1>. QED
  BY <1>3, <1>4 DEF FlagsOK, Inv

(* A sequence of one.                                                      *)
LEMMA SingletonIsSeq == \A x : IsSeq(<<x>>) /\ <<x>> # <<>>
BY DEF IsSeq, ToSet

(* The pass comes to a scheme, and its type becomes the one being parsed.  *)
LEMMA LinkSchemeInv == Inv /\ LinkScheme => Inv'
<1>. SUFFICES ASSUME Inv, LinkScheme PROVE Inv'
  OBVIOUS
<1>1. PICK s \in Linkable \ top.seen :
       /\ current_parse_type' = schemes[s].type
       /\ stack' = Replaced([Ahead(<<LinkElement(s, schemes[s])>>) EXCEPT
                               !.seen = @ \cup {s}, !.saved[1] = current_parse_type])
  BY DEF LinkScheme
<1>. DEFINE todo == <<LinkElement(s, schemes[s])>>
           f == [Ahead(todo) EXCEPT !.seen = @ \cup {s}, !.saved[1] = current_parse_type]
<1>2. /\ stack # <<>> /\ top.k = "links" /\ top.todo = <<>>
      /\ UNCHANGED <<types, fileTypeVector, schemes, regions, current_input_source, current_load_type>>
  BY DEF LinkScheme, Doing, library
<1>3. FrameOK(top, types) /\ ~Parses(top)
  BY <1>2, TopOK DEF Parses
<1>. HIDE DEF todo
<1>4. /\ DOMAIN f = FrameFields /\ f.k = "links" /\ f.type = NoType
      /\ f.todo = todo /\ f.at = 1
      /\ f.saved = [top.saved EXCEPT ![1] = current_parse_type]
  <2>. DEFINE a == Ahead(todo)
  <2>1. /\ DOMAIN a = FrameFields /\ a.k = "links" /\ a.type = NoType /\ a.todo = todo /\ a.at = 1
        /\ a.saved = top.saved
    BY <1>2, <1>3, AheadShape DEF FrameOK
  <2>. HIDE DEF a
  <2>2. f = [a EXCEPT !.seen = @ \cup {s}, !.saved[1] = current_parse_type]
    BY DEF a
  <2>. HIDE DEF f
  <2>. QED
    BY <2>1, <2>2 DEF FrameFields
<1>. HIDE DEF f
<1>5. f.saved[1] = current_parse_type /\ DOMAIN f.saved = 1 .. 3
  BY <1>3, <1>4 DEF FrameOK
<1>6. IsSeq(todo) /\ todo # <<>>
  BY SingletonIsSeq DEF todo
<1>7. ~IsLoad(f) /\ Parses(f)
  BY <1>4, <1>6 DEF IsLoad, Parses
<1>8. FrameOK(f, types)
  BY <1>4, <1>5, <1>6, <1>7 DEF FrameOK, TodoOK
<1>9. Parsed(current_parse_type', types)
  BY <1>1 DEF Linkable, SchemesOK, Inv
<1>10. stack' = Replaced(f)
  BY <1>1 DEF f, todo
<1>11. /\ StackInv(stack, types, current_parse_type, current_input_source, current_load_type)'
       /\ FlagsOK(stack, types)'
  BY <1>2, <1>3, <1>4, <1>5, <1>7, <1>8, <1>9, <1>10, TurnOK
<1>. QED
  BY <1>2, <1>11 DEF Inv, TypesOK, VectorOK, SchemesOK, RegionsOK, RegionsNumbered, Known

(* A reference is looked up; with the last one the pass is done with the   *)
(* scheme.                                                                 *)
LEMMA UpdateSchemeLinkInv == Inv /\ UpdateSchemeLink => Inv'
<1>. SUFFICES ASSUME Inv, UpdateSchemeLink PROVE Inv'
  OBVIOUS
<1>1. /\ stack # <<>> /\ top.k = "links" /\ top.todo # <<>>
      /\ UNCHANGED <<types, fileTypeVector, regions, current_input_source, current_load_type>>
  BY DEF UpdateSchemeLink, Ready, Working, Doing
<1>2. FrameOK(top, types) /\ Parses(top) /\ Parsed(current_parse_type, types) /\ ~IsLoad(top)
  BY <1>1, TopOK DEF Parses, IsLoad
<1>3. SchemesOK'
  <2>1. PICK x : schemes' = [schemes EXCEPT ![element.in].nodes = x]
    <3>. DEFINE old == schemes[element.in].nodes
                at == element.at
    <3>1. schemes' = [schemes EXCEPT ![element.in].nodes =
                       [old EXCEPT ![at[1]].links[at[2]] =
                          [old[at[1]].links[at[2]] EXCEPT !.to = top.got[1], !.name = NoName,
                                                          !.amid = top.amid]]]
      BY DEF UpdateSchemeLink
    <3>. QED
      BY <3>1
  <2>2. SchemesOK
    BY DEF Inv
  <2>3. /\ DOMAIN schemes' = DOMAIN schemes
        /\ \A s \in DOMAIN schemes : s # element.in => schemes'[s] = schemes[s]
        /\ element.in \in DOMAIN schemes =>
             schemes'[element.in] = [schemes[element.in] EXCEPT !.nodes = x]
    BY <2>1
  <2>4. \A s \in DOMAIN schemes : /\ DOMAIN schemes'[s] = {"type", "serial", "nodes"}
                                  /\ schemes'[s].type = schemes[s].type
                                  /\ schemes'[s].serial = schemes[s].serial
    BY <2>2, <2>3 DEF SchemesOK
  <2>. QED
    BY <1>1, <2>2, <2>3, <2>4 DEF SchemesOK
<1>4. /\ StackInv(stack, types, current_parse_type, current_input_source, current_load_type)'
      /\ FlagsOK(stack, types)'
  <2>1. CASE /\ stack' = Replaced([Ahead(<<>>) EXCEPT !.saved[1] = NoType])
             /\ current_parse_type' = top.saved[1]
    <3>. DEFINE a == Ahead(<<>>)
                f == [a EXCEPT !.saved[1] = NoType]
    <3>1. /\ DOMAIN a = FrameFields /\ a.k = "links" /\ a.type = NoType /\ a.todo = <<>> /\ a.at = 1
          /\ a.saved = top.saved
      BY <1>1, <1>2, AheadShape DEF FrameOK
    <3>. HIDE DEF a
    <3>2. /\ DOMAIN f = FrameFields /\ f.k = "links" /\ f.type = NoType
          /\ f.todo = <<>> /\ f.at = 1
          /\ f.saved = [top.saved EXCEPT ![1] = NoType]
      BY <3>1 DEF FrameFields
    <3>3. stack' = Replaced(f)
      BY <2>1 DEF a
    <3>. HIDE DEF f
    <3>4. DOMAIN f.saved = 1 .. 3 /\ TodoOK(f) /\ ~IsLoad(f) /\ ~Parses(f)
      BY <1>2, <3>2 DEF FrameOK, TodoOK, IsSeq, ToSet, IsLoad, Parses
    <3>5. FrameOK(f, types)
      BY <3>2, <3>4 DEF FrameOK
    <3>. QED
      BY <1>1, <1>2, <2>1, <3>2, <3>3, <3>4, <3>5, TurnOK
  <2>2. ASSUME NEW e, stack' = Replaced(Ahead(<<e>>)), UNCHANGED current_parse_type
        PROVE  /\ StackInv(stack, types, current_parse_type, current_input_source, current_load_type)'
               /\ FlagsOK(stack, types)'
    <3>. DEFINE f == Ahead(<<e>>)
    <3>1. /\ DOMAIN f = FrameFields /\ f.k = "links" /\ f.type = NoType /\ f.todo = <<e>> /\ f.at = 1
          /\ f.saved = top.saved
      BY <1>1, <1>2, AheadShape DEF FrameOK
    <3>2. stack' = Replaced(f)
      BY <2>2
    <3>. HIDE DEF f
    <3>3. TodoOK(f) /\ ~IsLoad(f) /\ Parses(f)
      BY <3>1, SingletonIsSeq DEF TodoOK, IsLoad, Parses
    <3>4. FrameOK(f, types)
      BY <1>2, <3>1, <3>3 DEF FrameOK
    <3>. QED
      BY <1>1, <1>2, <2>2, <3>1, <3>2, <3>3, <3>4, TurnOK
  <2>. QED
    BY <2>1, <2>2 DEF UpdateSchemeLink
<1>. QED
  BY <1>1, <1>3, <1>4 DEF Inv, TypesOK, VectorOK, RegionsOK, RegionsNumbered, Known

(* The pass begins anew.                                                   *)
LEMMA AnotherPassInv == Inv /\ AnotherPass => Inv'
<1>. SUFFICES ASSUME Inv, AnotherPass PROVE Inv'
  OBVIOUS
<1>. DEFINE a == Ahead(<<>>)
           f == [a EXCEPT !.seen = {}, !.pass = DOMAIN schemes]
<1>1. /\ stack # <<>> /\ top.k = "links" /\ top.todo = <<>>
      /\ UNCHANGED <<types, fileTypeVector, schemes, regions, context>>
      /\ stack' = Replaced(f)
  BY DEF AnotherPass, Doing, library
<1>2. FrameOK(top, types) /\ ~Parses(top)
  BY <1>1, TopOK DEF Parses
<1>3. /\ DOMAIN a = FrameFields /\ a.k = "links" /\ a.type = NoType /\ a.todo = <<>> /\ a.at = 1
      /\ a.saved = top.saved
  BY <1>1, <1>2, AheadShape DEF FrameOK
<1>. HIDE DEF a
<1>4. /\ DOMAIN f = FrameFields /\ f.k = "links" /\ f.type = NoType
      /\ f.todo = <<>> /\ f.at = 1 /\ f.saved = top.saved
  BY <1>3 DEF FrameFields
<1>. HIDE DEF f
<1>5. TodoOK(f) /\ ~IsLoad(f) /\ ~Parses(f)
  BY <1>4 DEF TodoOK, IsSeq, ToSet, IsLoad, Parses
<1>6. FrameOK(f, types)
  BY <1>2, <1>4, <1>5 DEF FrameOK
<1>7. /\ StackInv(stack, types, current_parse_type, current_input_source, current_load_type)'
      /\ FlagsOK(stack, types)'
  BY <1>1, <1>2, <1>4, <1>5, <1>6, TurnOK DEF context
<1>. QED
  BY <1>1, <1>7 DEF Inv, TypesOK, VectorOK, SchemesOK, RegionsOK, RegionsNumbered, Known

(* A frame that neither loads nor parses ends.                             *)
LEMMA PlainPop ==
  ASSUME Inv, stack # <<>>, stack' = Front(stack), ~IsLoad(top), ~Parses(top), top.k # "type",
         UNCHANGED <<types, fileTypeVector, schemes, regions, context>>
  PROVE  Inv'
<1>1. /\ StackInv(stack, types, current_parse_type, current_input_source, current_load_type)'
      /\ FlagsOK(stack, types)'
  BY PopOK, KeptSame DEF context
<1>. QED
  BY <1>1 DEF Inv, TypesOK, VectorOK, SchemesOK, RegionsOK, RegionsNumbered, Known

(* The pass is over.                                                       *)
LEMMA LinksDoneInv == Inv /\ LinksDone => Inv'
BY PlainPop DEF LinksDone, Doing, IsLoad, Parses, library

(* A host has its answer.                                                  *)
LEMMA AnsweredInv == Inv /\ Answered => Inv'
BY PlainPop DEF Answered, Ready, Working, Doing, IsLoad, Parses, library

(* The load of a file is over: its context comes back and the mark is      *)
(* taken off.                                                              *)
LEMMA ReturnInv == Inv /\ Return => Inv'
<1>. SUFFICES ASSUME Inv, Return PROVE Inv'
  OBVIOUS
<1>. DEFINE t == top.type
<1>1. /\ stack # <<>> /\ IsLoad(top) /\ ~Parses(top) /\ top.k # "type" /\ stack' = Front(stack)
      /\ UNCHANGED <<fileTypeVector, schemes, regions, current_parse_type>>
      /\ current_input_source' = top.saved[2] /\ current_load_type' = top.saved[3]
      /\ types' = IF t = NoType THEN types
                  ELSE [types EXCEPT ![t].input_source_loading = FALSE]
  BY DEF Return, Doing, IsLoad, Parses
<1>2. /\ FrameOK(top, types) /\ TypesOK
      /\ t # NoType => t \notin LoadsOf(Front(stack))
  BY <1>1, TopOK DEF Inv
<1>3. /\ DOMAIN types' = DOMAIN types
      /\ \A u \in DOMAIN types :
           /\ DOMAIN types'[u] = TypeFields
           /\ types'[u].serial = types[u].serial
           /\ types'[u].type_loading = types[u].type_loading
           /\ types'[u].loadDone = types[u].loadDone
           /\ u # t => types'[u].input_source_loading = types[u].input_source_loading
           /\ u = t => types'[u].input_source_loading = FALSE
  <2>1. CASE t = NoType
    BY <1>1, <1>2, <2>1 DEF TypesOK
  <2>2. CASE t # NoType
    <3>1. t \in DOMAIN types
      BY <1>2, <2>2 DEF FrameOK
    <3>2. /\ DOMAIN types' = DOMAIN types
          /\ \A u \in DOMAIN types : u # t => types'[u] = types[u]
          /\ types'[t] = [types[t] EXCEPT !.input_source_loading = FALSE]
      BY <1>1, <2>2, <3>1
    <3>. QED
      BY <1>2, <3>1, <3>2 DEF TypesOK, TypeFields
  <2>. QED
    BY <2>1, <2>2
<1>4. Kept(Front(stack), types, types')
  <2>1. \A u \in DOMAIN types : u \in LoadsOf(Front(stack)) => u # t
    BY <1>2 DEF TypesOK
  <2>. QED
    BY <1>3, <2>1 DEF Kept
<1>5. /\ StackInv(stack, types, current_parse_type, current_input_source, current_load_type)'
      /\ FlagsOK(stack, types)'
  <2>1. \A u \in DOMAIN types' :
           /\ u \in DOMAIN types
           /\ types'[u].input_source_loading => types[u].input_source_loading /\ u # t
           /\ types'[u].type_loading /\ ~types'[u].loadDone =>
                types[u].type_loading /\ ~types[u].loadDone
    BY <1>3
  <2>. QED
    BY <1>1, <1>4, <2>1, PopOK
<1>6. TypesOK'
  BY <1>2, <1>3 DEF TypesOK
<1>. QED
  BY <1>1, <1>3, <1>4, <1>5, <1>6, SchemesKept, VectorKept, RegionsKept DEF Inv

-----------------------------------------------------------------------------

(* The empty sequence is one.                                              *)
LEMMA EmptyIsSeq == IsSeq(<<>>)
BY DEF IsSeq, ToSet

(* A library that does nothing loads and parses nothing.                   *)
LEMMA NoneLoads == LoadsOf(<<>>) = {} /\ ParsesOf(<<>>) = {}
BY DEF LoadsOf, ParsesOf

(* The first frame of a request, which loads a file or asks for a name.    *)
LEMMA FirstFrame ==
  ASSUME Inv, stack = <<>>, NEW f, FrameOK(f, types), ~Parses(f), f.type = NoType,
         IsLoad(f) => f.saved[2] = current_input_source /\ f.saved[3] = current_load_type,
         ~IsLoad(f) => UNCHANGED <<current_input_source, current_load_type>>,
         stack' = <<f>>,
         UNCHANGED <<types, fileTypeVector, schemes, regions, current_parse_type>>
  PROVE  Inv'
<1>1. StackInv(<<>>, types, current_parse_type, current_input_source, current_load_type)
  BY DEF Inv
<1>2. stack' = Append(<<>>, f)
  OBVIOUS
<1>3. f.k # "type"
  BY DEF Parses
<1>4. StackInv(stack', types, current_parse_type, current_input_source', current_load_type')
  <2>. DEFINE E == <<>>
  <2>1. IsSeq(E) /\ stack' = Append(E, f) /\ f.type \notin LoadsOf(E)
    BY <1>2, EmptyIsSeq, NoneLoads
  <2>2. StackInv(E, types, current_parse_type, current_input_source, current_load_type)
    BY <1>1
  <2>. HIDE DEF E
  <2>3. ASSUME NEW source, NEW load_type
        PROVE  StackInv(Append(E, f), types, current_parse_type, source, load_type) <=>
                 StackInv(E, types, current_parse_type, IF IsLoad(f) THEN f.saved[2] ELSE source,
                          IF IsLoad(f) THEN f.saved[3] ELSE load_type)
    BY <2>1, StackAppend
  <2>. QED
    BY <2>1, <2>2, <2>3
<1>5. LoadsOf(stack') = (IF IsLoad(f) THEN {NoType} ELSE {}) /\ ParsesOf(stack') = {}
  BY <1>2, <1>3, EmptyIsSeq, NoneLoads, LoadsAppend
<1>6. FlagsOK(<<>>, types)
  BY DEF Inv
<1>7. FlagsOK(stack', types)
  BY <1>5, <1>6, NoneLoads DEF FlagsOK
<1>. QED
  BY <1>4, <1>7 DEF Inv, TypesOK, VectorOK, SchemesOK, RegionsOK, RegionsNumbered, Known

(* Steps that change none of this.                                         *)
LEMMA StutterInv ==
  Inv /\ UNCHANGED <<types, fileTypeVector, schemes, regions, context, stack>> => Inv'
BY DEF Inv, TypesOK, VectorOK, SchemesOK, RegionsOK, RegionsNumbered, Known, context

(* loadSource, asked for by a host or by the factory for a file of a       *)
(* catalog.                                                                *)
LEMMA LoadSourceInv ==
  ASSUME Inv, stack = <<>>, NEW file, NEW load_type, loadSource(file, load_type)
  PROVE  Inv'
<1>1. CASE UNCHANGED <<stack, current_input_source, current_load_type>>
  BY <1>1, StutterInv DEF loadSource, library, context
<1>2. CASE stack' = <<LoadFrame(NoType, file)>>
  <2>. DEFINE f == LoadFrame(NoType, file)
  <2>1. /\ DOMAIN f = FrameFields /\ DOMAIN f.saved = 1 .. 3 /\ f.k = "open" /\ f.type = NoType
        /\ f.saved[2] = current_input_source /\ f.saved[3] = current_load_type
        /\ f.todo = <<>> /\ f.at = 1
    BY FrameShape DEF LoadFrame, FrameFields
  <2>2. stack' = <<f>>
    BY <1>2
  <2>. HIDE DEF f
  <2>3. ~Parses(f) /\ TodoOK(f)
    BY <2>1, EmptyIsSeq DEF Parses, TodoOK
  <2>4. FrameOK(f, types)
    BY <2>1, <2>3 DEF FrameOK
  <2>. QED
    BY <2>1, <2>2, <2>3, <2>4, FirstFrame DEF loadSource, library, IsLoad
<1>. QED
  BY <1>1, <1>2 DEF loadSource

(* getRegion.                                                              *)
LEMMA GetRegionInv == ASSUME Inv, NEW name, GetRegion(name) PROVE Inv'
<1>. DEFINE todo == <<[tag |-> "ask", want |-> Want("region", name)]>>
           f == Frame("ask", NoType, todo)
<1>1. /\ DOMAIN f = FrameFields /\ DOMAIN f.saved = 1 .. 3 /\ f.k = "ask" /\ f.type = NoType
      /\ f.todo = todo /\ f.at = 1
  BY FrameShape
<1>2. /\ stack = <<>> /\ stack' = <<f>>
      /\ UNCHANGED <<types, fileTypeVector, schemes, regions, context>>
  BY DEF GetRegion, Call, library
<1>3. IsSeq(todo)
  BY SingletonIsSeq
<1>. HIDE DEF todo, f
<1>4. ~Parses(f) /\ ~IsLoad(f) /\ TodoOK(f)
  BY <1>1, <1>3 DEF Parses, IsLoad, TodoOK
<1>5. FrameOK(f, types)
  BY <1>1, <1>4 DEF FrameOK
<1>. QED
  BY <1>1, <1>2, <1>4, <1>5, FirstFrame DEF context

(* loadFileType, asked for by a host.                                      *)
LEMMA LoadFileTypeInv == ASSUME Inv, NEW t, LoadFileType(t) PROVE Inv'
<1>1. /\ Known(t) /\ stack = <<>>
      /\ UNCHANGED <<fileTypeVector, schemes, regions, current_parse_type>>
  BY DEF LoadFileType, Call
<1>2. CASE mayLoad(t) /\ BeginLoad(t, <<>>)
  <2>1. /\ StackInv(stack, types, current_parse_type, current_input_source, current_load_type)'
        /\ FlagsOK(stack, types)' /\ TypesOK' /\ DOMAIN types' = DOMAIN types
        /\ Kept(<<>>, types, types')
    BY <1>1, <1>2, BeginOK DEF Inv
  <2>. QED
    BY <1>1, <2>1, SchemesKept, VectorKept, RegionsKept DEF Inv
<1>3. CASE UNCHANGED <<types, stack, current_input_source, current_load_type>>
  BY <1>1, <1>3, StutterInv DEF context
<1>. QED
  BY <1>2, <1>3 DEF LoadFileType

(* A request that changes only what types say of themselves, not how far   *)
(* they are loaded.                                                        *)
LEMMA TypesRetold ==
  ASSUME Inv, stack = <<>>, UNCHANGED <<fileTypeVector, schemes, regions, context, stack>>,
         DOMAIN types' = DOMAIN types,
         \A t \in DOMAIN types :
           /\ DOMAIN types'[t] = DOMAIN types[t]
           /\ \A field \in {"serial", "type_loading", "loadDone", "input_source_loading"} :
                types'[t][field] = types[t][field]
  PROVE  Inv'
<1>1. \A t \in DOMAIN types :
           /\ DOMAIN types'[t] = DOMAIN types[t]
           /\ types'[t].serial = types[t].serial
           /\ types'[t].type_loading = types[t].type_loading
           /\ types'[t].loadDone = types[t].loadDone
           /\ types'[t].input_source_loading = types[t].input_source_loading
  OBVIOUS
<1>2. Kept(stack, types, types')
  BY <1>1 DEF Kept
<1>3. StackInv(stack, types, current_parse_type, current_input_source, current_load_type)'
  BY <1>2, StackKept DEF Inv, context
<1>4. FlagsOK(stack, types)'
  BY <1>1 DEF Inv, FlagsOK
<1>5. TypesOK'
  BY <1>1 DEF Inv, TypesOK
<1>. QED
  BY <1>2, <1>3, <1>4, <1>5, SchemesKept, VectorKept, RegionsKept DEF Inv

(* loadHrcSettings.                                                        *)
LEMMA LoadHrcSettingsInv == ASSUME Inv, NEW s, LoadHrcSettings(s) PROVE Inv'
<1>1. stack = <<>> /\ UNCHANGED <<fileTypeVector, schemes, regions, context, stack>>
  BY DEF LoadHrcSettings, Call
<1>2. PICK overlays : \/ types' = types
                      \/ types' = [t \in DOMAIN types |-> updatePrototype(types[t], overlays[t])]
  <2>. DEFINE o == [t \in DOMAIN types |-> SelectSeq(Settings[s].elements, LAMBDA e : e.name = t)]
  <2>1. \/ types' = types
        \/ types' = [t \in DOMAIN types |-> updatePrototype(types[t], o[t])]
    BY DEF LoadHrcSettings
  <2>. QED
    BY <2>1
<1>3. CASE types' = types
  BY <1>1, <1>3, StutterInv
<1>4. CASE types' = [t \in DOMAIN types |-> updatePrototype(types[t], overlays[t])]
  <2>1. TypesOK
    BY DEF Inv
  <2>2. ASSUME NEW t \in DOMAIN types
        PROVE  /\ DOMAIN types'[t] = DOMAIN types[t]
               /\ \A field \in {"serial", "type_loading", "loadDone", "input_source_loading"} :
                    types'[t][field] = types[t][field]
    <3>1. DOMAIN types[t] = TypeFields
      BY <2>1 DEF TypesOK
    <3>2. PICK x, y : types'[t] = [types[t] EXCEPT !.params = x, !.choosers = y]
      BY <1>4 DEF updatePrototype
    <3>. QED
      BY <3>1, <3>2 DEF TypeFields
  <2>. QED
    BY <1>1, <1>4, <2>2, TypesRetold
<1>. QED
  BY <1>2, <1>3, <1>4

(* setParamValue.                                                          *)
LEMMA SetParamValueInv == ASSUME Inv, NEW t, NEW p, NEW value, SetParamValue(t, p, value) PROVE Inv'
<1>1. stack = <<>> /\ UNCHANGED <<fileTypeVector, schemes, regions, context, stack>> /\ t \in DOMAIN types
  BY DEF SetParamValue, Call, Known
<1>2. CASE types' = types
  BY <1>1, <1>2, StutterInv
<1>3. CASE types' = [types EXCEPT ![t].params = setParamValue(@, p, value)]
  <2>1. DOMAIN types[t] = TypeFields
    BY <1>1 DEF TypesOK, Inv
  <2>2. PICK x : types' = [types EXCEPT ![t].params = x]
    BY <1>3
  <2>3. /\ DOMAIN types' = DOMAIN types
        /\ \A u \in DOMAIN types : u # t => types'[u] = types[u]
        /\ types'[t] = [types[t] EXCEPT !.params = x]
    BY <1>1, <2>2
  <2>4. /\ DOMAIN types'[t] = DOMAIN types[t]
        /\ \A field \in {"serial", "type_loading", "loadDone", "input_source_loading"} :
             types'[t][field] = types[t][field]
    BY <2>1, <2>3 DEF TypeFields
  <2>5. \A u \in DOMAIN types :
           /\ DOMAIN types'[u] = DOMAIN types[u]
           /\ \A field \in {"serial", "type_loading", "loadDone", "input_source_loading"} :
                types'[u][field] = types[u][field]
    BY <2>3, <2>4
  <2>. QED
    BY <1>1, <2>3, <2>5, TypesRetold
<1>. QED
  BY <1>2, <1>3 DEF SetParamValue

-----------------------------------------------------------------------------
(* A factory begins with an empty library.                                 *)
LEMMA InitInv == Init => Inv
<1>. SUFFICES ASSUME Init PROVE Inv
  OBVIOUS
<1>1. /\ types = <<>> /\ fileTypeVector = <<>> /\ schemes = <<>> /\ regions = <<>> /\ stack = <<>>
      /\ current_parse_type = NoType /\ current_input_source = NoFile /\ current_load_type = "FULL"
  BY DEF Init, InitLibrary
<1>2. DOMAIN types = {} /\ DOMAIN schemes = {} /\ DOMAIN regions = {} /\ Len(stack) = 0
      /\ Len(fileTypeVector) = 0
  BY <1>1
<1>3. TypesOK /\ SchemesOK
  BY <1>2 DEF TypesOK, SchemesOK
<1>4. VectorOK /\ RegionsOK
  BY <1>1, <1>2, EmptyIsSeq DEF VectorOK, RegionsOK, RegionsNumbered
<1>5. StackInv(stack, types, current_parse_type, current_input_source, current_load_type)
  BY <1>1, <1>2, EmptyIsSeq DEF StackInv, Apart, ParseOK, SourceOK
<1>6. FlagsOK(stack, types)
  BY <1>2 DEF FlagsOK
<1>. QED
  BY <1>3, <1>4, <1>5, <1>6 DEF Inv

(* Every step of the library, of its host and of the factory keeps the     *)
(* invariant.                                                              *)
LEMMA NextInv == Inv /\ [Next]_<<vars, factory>> => Inv'
<1>. SUFFICES ASSUME Inv, [Next]_<<vars, factory>> PROVE Inv'
  OBVIOUS
<1>1. CASE LoadStep
  BY <1>1, LoadAskedInv, LookUpInv, ReadHRCInv, SkipElementInv, PrototypeThrowsInv, AddPrototypeInv,
     AddTypeInv, TypeDoneInv, AddTypeRegionInv, AddTypeEntityInv, AddTypeImportInv, AddSchemeInv,
     AddNodeInv, FileDoneInv, LinkSchemeInv, UpdateSchemeLinkInv, AnotherPassInv, LinksDoneInv,
     ReturnInv, AnsweredInv DEF LoadStep
<1>2. CASE LoadHrc
  BY <1>2, LoadSourceInv DEF LoadHrc
<1>3. CASE Host
  <2>1. CASE \E f \in Sources, k \in {"FULL", "PROTOTYPE"} : LoadSource(f, k)
    BY <2>1, LoadSourceInv DEF LoadSource, Call
  <2>2. CASE \E t \in DOMAIN types : LoadFileType(t)
    BY <2>2, LoadFileTypeInv
  <2>3. CASE \E s \in DOMAIN Settings : LoadHrcSettings(s)
    BY <2>3, LoadHrcSettingsInv
  <2>4. CASE \E t \in DOMAIN types, p \in Params, v \in Values : SetParamValue(t, p, v)
    BY <2>4, SetParamValueInv
  <2>5. CASE \E n \in Asked : GetRegion(n)
    BY <2>5, GetRegionInv
  <2>. QED
    BY <1>3, <2>1, <2>2, <2>3, <2>4, <2>5 DEF Host
<1>4. CASE Factory
  <2>1. UNCHANGED <<types, fileTypeVector, schemes, regions, context, stack>>
    BY <1>4 DEF Factory, LoadCatalog, LoadHrcPath, LoadHrdPath, CreateMapper, library
  <2>. QED
    BY <2>1, StutterInv
<1>5. CASE UNCHANGED <<vars, factory>>
  BY <1>5, StutterInv DEF vars, library
<1>. QED
  BY <1>1, <1>2, <1>3, <1>4, <1>5 DEF Next, Load, AskLibrary

(* The inductive invariant holds, whatever the files, the catalogs and the *)
(* calls are.                                                              *)
THEOREM Invariant == Spec => []Inv
BY InitInv, NextInv, PTL DEF Spec

(* TypeOK: when a call is over the context is back where it was and no     *)
(* type is left marked as being loaded, also after loads that threw.       *)
THEOREM TypeCorrect == Spec => []TypeOK
<1>1. Inv => TypeOK
  <2>. SUFFICES ASSUME Inv PROVE TypeOK
    OBVIOUS
  <2>1. DOMAIN schemes \subseteq (DOMAIN types) \X STRING
    BY DEF Inv, SchemesOK
  <2>2. \A i \in DOMAIN stack : stack[i].k \in {"open", "file", "type", "links", "return", "ask"}
    BY IsSeqShape DEF Inv, StackInv, FrameOK
  <2>3. ASSUME Idle
        PROVE  /\ context = <<NoType, NoFile, "FULL">>
               /\ \A t \in DOMAIN types : /\ ~types[t].input_source_loading
                                          /\ types[t].type_loading => types[t].loadDone
    <3>1. stack = <<>> /\ Len(stack) = 0
      BY <2>3 DEF Idle
    <3>2. context = <<NoType, NoFile, "FULL">>
      BY <3>1 DEF Inv, StackInv, ParseOK, SourceOK, context
    <3>. QED
      BY <3>1, <3>2, NoneLoads DEF Inv, FlagsOK
  <2>. QED
    BY <2>1, <2>2, <2>3 DEF TypeOK
<1>. QED
  BY <1>1, Invariant, PTL

(* RegionsNumbered: regions are numbered in order, each after its parent,  *)
(* none twice.                                                             *)
THEOREM Numbered == Spec => []RegionsNumbered
<1>1. Inv => RegionsNumbered
  BY DEF Inv, RegionsOK
<1>. QED
  BY <1>1, Invariant, PTL

(* NothingDangles: no scheme, frame or list points to a FileType that was  *)
(* deleted by unloadFileType.                                              *)
THEOREM NoneDangles == Spec => []NothingDangles
<1>1. Inv => NothingDangles
  <2>. SUFFICES ASSUME Inv PROVE NothingDangles
    OBVIOUS
  <2>1. \A s \in DOMAIN schemes :
           Known(schemes[s].type) /\ types[schemes[s].type].serial = schemes[s].serial
    BY DEF Inv, SchemesOK, Parsed, Known
  <2>2. \A i \in DOMAIN stack : stack[i].type # NoType =>
           Known(stack[i].type) /\ types[stack[i].type].serial = stack[i].serial
    BY IsSeqShape DEF Inv, StackInv, FrameOK, Known
  <2>3. \A i \in DOMAIN fileTypeVector :
       Known(fileTypeVector[i]) /\ \A j \in 1 .. i - 1 : fileTypeVector[j] # fileTypeVector[i]
    BY IsSeqShape DEF Inv, VectorOK
  <2>. QED
    BY <2>1, <2>2, <2>3 DEF NothingDangles
<1>. QED
  BY <1>1, Invariant, PTL
=============================================================================
