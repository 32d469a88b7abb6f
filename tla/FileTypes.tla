------------------------------ MODULE FileTypes -----------------------------
(***************************************************************************)
(* A FileType: what its prototype says of it (where its definition is, how *)
(* to recognise a file of the type, its parameters) and how far it is      *)
(* loaded; and how the type of a file is chosen.                           *)
(*                                                                         *)
(* A chooser is [kind, weight, ok, re]: its expression matches a text, a   *)
(* sequence of characters, that has one of re; ok is that it compiles.     *)
(* Weights are small integers, Unweighted one that is missing or not a     *)
(* valid number.                                                           *)
(***************************************************************************)
EXTENDS Integers, Sequences, SequencesExt, FiniteSetsExt

CONSTANTS CHOOSE_STR, CHOOSE_LEN    \* lines and characters of a text looked at

Unset == "(unset)"
NoType == "(no type)"
Unweighted == -1
NoName == <<"", "">>            \* a name is <<prefix, name>>, "" for no prefix

Param(value) == [value |-> value, user_value |-> Unset]

addParam(params, name, value) ==
  IF name \in DOMAIN params THEN params ELSE (name :> Param(value)) @@ params

addParams(params, pairs) ==
  FoldLeft(LAMBDA ps, p : addParam(ps, p[1], p[2]), params, pairs)

getParamDefaultValue(params, name) ==
  IF name \in DOMAIN params THEN params[name].value ELSE Unset

getParamUserValue(params, name) ==
  IF name \in DOMAIN params THEN params[name].user_value ELSE Unset

getParamValue(params, name) ==
  IF getParamUserValue(params, name) # Unset THEN getParamUserValue(params, name)
  ELSE getParamDefaultValue(params, name)

(* Both throw for a parameter there is not; value = Unset takes a user     *)
(* value back.                                                             *)
setParamValue(params, name, value) == [params EXCEPT ![name].user_value = value]
setParamDefaultValue(params, name, value) == [params EXCEPT ![name].value = value]

(* What stoi makes of a value; one that is no number leaves the default.   *)
Numerals == "0" :> 0 @@ "1" :> 1 @@ "2" :> 2 @@ "3" :> 3
getParamValueInt(params, name, default) ==
  LET value == getParamValue(params, name) IN
  IF value \in DOMAIN Numerals THEN Numerals[value] ELSE default

-----------------------------------------------------------------------------
DefaultWeight(kind) == IF kind = "filename" THEN 2 ELSE 1

addDetectParam(choosers, c) ==
  IF ~c.ok THEN choosers
  ELSE Append(choosers, [kind |-> c.kind, re |-> c.re,
                         priority |-> IF c.weight < 0 THEN DefaultWeight(c.kind) ELSE c.weight])

addDetectParams(choosers, cs) == FoldLeft(addDetectParam, choosers, cs)

calcPriority(chooser, string) ==
  IF ToSet(string) \cap chooser.re # {} THEN chooser.priority ELSE 0

getPriority(choosers, fileName, fileContent) ==
  FoldLeft(LAMBDA sum, c :
             sum + calcPriority(c, IF c.kind = "filename" THEN fileName ELSE fileContent),
           0, choosers)

(* The best of the types, the first of equal ones; typeNo > 0 lets that    *)
(* many be taken that are no better than the best so far.                  *)
NoChoice == [best |-> NoType, max |-> 0, typeNo |-> 0]

Mutant_Considered(choice, name, prior) ==
  IF prior >= choice.max \/ choice.best = NoType
  THEN [choice EXCEPT !.best = name, !.max = prior] ELSE choice

Considered(choice, name, prior) ==
  LET passed == IF choice.typeNo > 0 /\ prior <= choice.max
                THEN [choice EXCEPT !.best = name, !.typeNo = @ - 1] ELSE choice
  IN IF prior > passed.max \/ passed.best = NoType
     THEN [passed EXCEPT !.best = name, !.max = prior] ELSE passed

chooseFileType(types, vector, fileName, firstLine, typeNo) ==
  LET end == FoldLeft(LAMBDA c, name :
                        Considered(c, name, getPriority(types[name].choosers, fileName, firstLine)),
                      [NoChoice EXCEPT !.typeNo = typeNo], vector)
  IN IF end.typeNo > 0 THEN NoType ELSE end.best

(* The editor: what it reads of the lines of a text, at most str of them   *)
(* and len characters, and the type chosen for it, which may ask for other *)
(* limits.  Then it chooses anew with those.                               *)
TextStart(text, limits) ==
  FoldLeft(LAMBDA read, line :
             IF read.over THEN read
             ELSE LET n == Min({limits.len - read.total, Len(line)}) IN
                  [out |-> read.out \o SubSeq(line, 1, n) \o <<"\n">>, total |-> read.total + n,
                   over |-> read.total + n >= limits.len],
           [out |-> <<>>, total |-> 0, over |-> FALSE], SubSeq(text, 1, Min({limits.str, Len(text)}))).out

Limits(params, limits) ==
  [str |-> getParamValueInt(params, "firstlines", limits.str),
   len |-> getParamValueInt(params, "firstlinebytes", limits.len)]

FirstLimits(types) ==
  LET limits == [str |-> CHOOSE_STR, len |-> CHOOSE_LEN] IN
  IF "default" \in DOMAIN types THEN Limits(types["default"].params, limits) ELSE limits

(* The first so many turns of it; again is that it is not over.            *)
chooseFileTypeCh(types, vector, fileName, text, turns) ==
  LET chosen(limits) == chooseFileType(types, vector, fileName, TextStart(text, limits), 0) IN
  FoldLeft(LAMBDA c, turn :
             LET next == Limits(types[c.type].params, c.limits) IN
             IF next = c.limits THEN [c EXCEPT !.again = FALSE]
             ELSE [limits |-> next, type |-> chosen(next), again |-> TRUE],
           [limits |-> FirstLimits(types), type |-> chosen(FirstLimits(types)), again |-> TRUE],
           [i \in 1 .. turns |-> i])

-----------------------------------------------------------------------------
(* serial tells a FileType object from a later one of the same name.       *)
FileTypeOf(serial, isPackage, source, choosers, params) ==
  [serial |-> serial, isPackage |-> isPackage, inputSource |-> source,
   choosers |-> choosers, params |-> params, imports |-> <<>>, baseScheme |-> NoName,
   type_loading |-> FALSE, loadDone |-> FALSE, load_broken |-> FALSE,
   input_source_loading |-> FALSE]

Mutant_isContentLoaded(type) == type.loadDone \/ type.type_loading \/ type.load_broken

isContentLoaded(type) ==
  type.loadDone \/ type.type_loading \/ type.input_source_loading \/ type.load_broken

(* What hrcsettings say of a prototype, one element after the other: its   *)
(* detect parameters take the place of those it has, its parameters become *)
(* defaults.                                                               *)
updateParam(params, name, value) ==
  IF getParamValue(params, name) = Unset THEN addParam(params, name, value)
  ELSE setParamDefaultValue(params, name, value)

updateParams(params, overlay) ==
  FoldLeft(LAMBDA ps, p : updateParam(ps, p[1], p[2]), params, overlay.params)

updateChoosers(choosers, overlay) ==
  addDetectParams(IF overlay.choosers = <<>> THEN choosers ELSE <<>>, overlay.choosers)

updatePrototype(type, overlays) ==
  [type EXCEPT !.params = FoldLeft(updateParams, @, overlays),
               !.choosers = FoldLeft(updateChoosers, @, overlays)]
=============================================================================
