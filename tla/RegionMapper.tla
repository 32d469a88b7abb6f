----------------------------- MODULE RegionMapper ---------------------------
(***************************************************************************)
(* A RegionMapper: definitions by region name, as read from HRD files, and *)
(* how a region finds its own: by its name, else by its parent's.  What is *)
(* found is kept by region number.                                         *)
(*                                                                         *)
(* A definition is an object; defines gives the number of the object a     *)
(* name has, values what it says, for those that still exist.  cache holds *)
(* numbers, 0 for none.  Regions are a sequence of [name, parent].         *)
(***************************************************************************)
EXTENDS Integers, Sequences, SequencesExt

NoMapper == [class |-> "", defines |-> <<>>, values |-> <<>>, cache |-> <<>>, made |-> 0]
NewMapper(class) == [NoMapper EXCEPT !.class = class]

(* The object of the name before goes with its definition.                 *)
Define(mapper, name, value) ==
  LET old == IF name \in DOMAIN mapper.defines THEN {mapper.defines[name]} ELSE {}
      new == mapper.made + 1
  IN [mapper EXCEPT
        !.made = new,
        !.defines = (name :> new) @@ @,
        !.values = (new :> value) @@ [n \in DOMAIN @ \ old |-> @[n]]]

setRegionDefine(mapper, name, value) == Define(mapper, name, value)

(* The <assign> elements of one HRD file; one without a name is left out.  *)
loadRegionMappings(mapper, assigns) ==
  FoldLeft(LAMBDA m, a : IF a.name = "" THEN m ELSE Define(m, a.name, a.value), mapper, assigns)

-----------------------------------------------------------------------------
Chain(regions, id) ==
  LET Up[r \in DOMAIN regions] ==
        <<r>> \o IF regions[r].parent = 0 THEN <<>> ELSE Up[regions[r].parent]
  IN Up[id]

Cached(mapper, id) == IF id \in DOMAIN mapper.cache THEN mapper.cache[id] ELSE 0

Own(mapper, regions, id) ==
  IF Cached(mapper, id) # 0 THEN Cached(mapper, id)
  ELSE IF regions[id].name \in DOMAIN mapper.defines THEN mapper.defines[regions[id].name] ELSE 0

(* getRegionDefine: the object found, 0 for none, and the mapper after.    *)
getRegionDefine(mapper, regions, id) ==
  LET chain == Chain(regions, id)
      at == SelectInSeq(chain, LAMBDA r : Own(mapper, regions, r) # 0)
      passed == IF at = 0 THEN ToSet(chain) ELSE ToSet(SubSeq(chain, 1, at))
      found == IF at = 0 THEN 0 ELSE Own(mapper, regions, chain[at])
  IN [found |-> found, mapper |-> [mapper EXCEPT !.cache = [r \in passed |-> found] @@ @]]
=============================================================================
