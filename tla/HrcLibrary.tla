------------------------------ MODULE HrcLibrary ----------------------------
(***************************************************************************)
(* HrcLibrary: loading HRC files into file types, schemes, regions and     *)
(* entities.  A name that belongs to another type loads that type, in the  *)
(* middle of what is being loaded, so loads nest: stack holds one frame    *)
(* for each file, type, reference pass and request under way.  The call of *)
(* a host holds the library's lock, so calls follow one another.           *)
(*                                                                         *)
(* A file is read as its elements; each is one step, and within a type so  *)
(* is each name that has to be looked up.                                  *)
(***************************************************************************)
EXTENDS FileTypes

CONSTANTS
  Files,        \* path -> [readable, root, elements]
  Settings,     \* hrcsettings: path -> [readable, root, elements]
  Sources, Asked, Params, Values, MaxCalls   \* what a host asks for

VARIABLES
  types, fileTypeVector, serials,       \* fileTypeHash, in order, objects made
  schemes, regions, entities,           \* by qualified name; regions by number
  current_parse_type, current_input_source, current_load_type,
  structureChanged, updateStarted, typeContentLoaded,
  stack,        \* what is under way, innermost last
  calls, thrown

context == <<current_parse_type, current_input_source, current_load_type>>
library == <<types, fileTypeVector, serials, schemes, regions, entities>>
flags == <<structureChanged, updateStarted, typeContentLoaded>>
vars == <<library, context, flags, stack, calls, thrown>>

NoFile == "(no file)"
Lost == "(lost)"                \* a path that leads to no file

(* What files hold is made of lists and of names of two strings, and no    *)
(* type is called NoType.                                                  *)
IsList(s) == s \in Seq(ToSet(s))

ASSUME FilesAssumption ==
  \A path \in DOMAIN Files :
    /\ IsList(Files[path].elements)
    /\ \A e \in ToSet(Files[path].elements) :
         /\ e.name # NoType
         /\ e.tag = "type" =>
              /\ IsList(e.items)
              /\ \A item \in ToSet(e.items) : item.tag = "scheme" =>
                   /\ item.name \in STRING \X STRING
                   /\ IsList(item.nodes)
                   /\ \A node \in ToSet(item.nodes) :
                        "tag" \in DOMAIN node /\ node.tag # "scheme"

HrcFile(path) == path \in DOMAIN Files /\ Files[path].readable /\ Files[path].root = "hrc"

Put(f, key, value) == [x \in DOMAIN f \cup {key} |-> IF x = key THEN value ELSE f[x]]

-----------------------------------------------------------------------------
(* Frames.  type is the type a frame is for and serial its object; saved   *)
(* what it puts back when it ends.  The rest is where it has come to: the  *)
(* elements left, the names of the first one looked up so far (got, and    *)
(* amid, the candidates for them that were still being loaded), and the    *)
(* candidate types for the next name (at, and whether that one has been    *)
(* loaded for it).                                                         *)
Frame(k, type, todo) ==
  [k |-> k, type |-> type, serial |-> IF type = NoType THEN 0 ELSE types[type].serial,
   saved |-> <<NoType, NoFile, "FULL">>, todo |-> todo, got |-> <<>>, amid |-> {},
   at |-> 1, loaded |-> FALSE, global |-> FALSE, pass |-> {}, seen |-> {}]

top == Last(stack)
Replaced(frame) == Append(Front(stack), frame)
Doing(k) == stack # <<>> /\ top.k = k
Working(k) == Doing(k) /\ top.todo # <<>>
element == Head(top.todo)
Ahead(todo) == [top EXCEPT !.todo = todo, !.got = <<>>, !.amid = {}, !.at = 1, !.loaded = FALSE]

(* loadSource from the context it saves on.                                *)
LoadFrame(type, file) ==
  [Frame("open", type, <<>>) EXCEPT
     !.saved = <<NoType, current_input_source, current_load_type>>]

mayLoad(t) == ~types[t].type_loading /\ ~types[t].input_source_loading /\ ~types[t].load_broken

(* The frames and the rest of the state as loadFileType begins.            *)
BeginLoad(t, frames) ==
  /\ types' = [types EXCEPT ![t].input_source_loading = TRUE]
  /\ stack' = Append(frames, LoadFrame(t, types[t].inputSource))
  /\ current_input_source' = types[t].inputSource
  /\ current_load_type' = "TYPE"

(* An exception leaves the load of the innermost file: loadFileType takes  *)
(* it and gives the type up, otherwise it is the host's.                   *)
Throw(ts) ==
  /\ types' = IF top.type = NoType THEN ts
              ELSE [ts EXCEPT ![top.type].load_broken = TRUE,
                              ![top.type].input_source_loading = FALSE]
  /\ typeContentLoaded' = (typeContentLoaded \/ top.type # NoType)
  /\ stack' = Front(stack)
  /\ thrown' = (top.type = NoType)
  /\ current_input_source' = top.saved[2] /\ current_load_type' = top.saved[3]
  /\ UNCHANGED current_parse_type

-----------------------------------------------------------------------------
(* Names.                                                                  *)
Qualified(name) == name[1] # ""

(* NoName when the prefix is another type's.                               *)
qualifyOwnName(name) ==
  IF ~Qualified(name) THEN <<current_parse_type, name[2]>>
  ELSE IF name[1] = current_parse_type THEN name ELSE NoName

RegionNo(qname) == SelectInSeq(regions, LAMBDA r : r.name = qname)

checkNameExist(qname, kind) ==
  CASE kind = "region" -> RegionNo(qname) # 0
    [] kind = "entity" -> qname \in DOMAIN entities
    [] kind = "scheme" -> qname \in DOMAIN schemes

Mutant_Candidates(name) ==
  IF Qualified(name) THEN <<name[1]>>
  ELSE IF current_parse_type = NoType THEN <<>>
  ELSE types[current_parse_type].imports \o <<current_parse_type>>

Candidates(name) ==
  IF Qualified(name) THEN <<name[1]>>
  ELSE IF current_parse_type = NoType THEN <<>>
  ELSE <<current_parse_type>> \o types[current_parse_type].imports

Known(t) == t \in DOMAIN types

(* qualifyForeignName, which goes on where it stopped to load a type.      *)
NeedsLoad(t) == Known(t) /\ mayLoad(t)
Has(t, want) ==
  /\ Known(t)
  /\ Qualified(want.name) => t = current_parse_type \/ types[t].type_loading
  /\ checkNameExist(<<t, want.name[2]>>, want.kind)

Stops(want) ==
  LET cs == Candidates(want.name) IN
  {i \in top.at .. Len(cs) : NeedsLoad(cs[i]) /\ ~(i = top.at /\ top.loaded)}
Hits(want) ==
  LET cs == Candidates(want.name) IN {i \in top.at .. Len(cs) : Has(cs[i], want)}

LoadsFirst(want) == Stops(want) # {} /\ \A i \in Hits(want) : Min(Stops(want)) <= i

(* A region called default is transparent.                                 *)
Answer(want) ==
  IF Hits(want) = {} THEN NoName
  ELSE LET q == <<Candidates(want.name)[Min(Hits(want))], want.name[2]>>
       IN IF want.kind = "region" /\ q[2] = "default" THEN NoName ELSE q

-----------------------------------------------------------------------------
(* What an element looks up, in this order; later names depend on what the *)
(* earlier ones were found to be.  A text is a sequence of tokens, each a  *)
(* literal or the name of an entity; "(" alone does not compile.           *)
Want(kind, name) == [kind |-> kind, name |-> name]
IsEntity(token) == token.ent # NoName
EntitiesOf(text) ==
  LET es == SelectSeq(text, IsEntity) IN [i \in DOMAIN es |-> Want("entity", es[i].ent)]
RegionsOf(names) ==
  LET given == SelectSeq(names, LAMBDA n : n # NoName)
  IN [i \in DOMAIN given |-> Want("region", given[i])]

useEntities(text, got) ==
  FoldLeft(LAMBDA acc, token :
             IF ~IsEntity(token) THEN [acc EXCEPT !.out = Append(@, token.lit)]
             ELSE [out |-> acc.out \o IF got[acc.used + 1] = NoName THEN <<"%">>
                                      ELSE entities[got[acc.used + 1]],
                   used |-> acc.used + 1],
           [out |-> <<>>, used |-> 0], text).out

isOk(literals) == \A i \in DOMAIN literals : literals[i] # "("

Compiles(text, got) ==
  Len(got) >= Len(EntitiesOf(text)) /\ isOk(useEntities(text, got))

After(n, got) == SubSeq(got, n + 1, Len(got))

RegexpWants(e, got) ==
  IF e.match = <<>> THEN <<>>
  ELSE EntitiesOf(e.match) \o IF Compiles(e.match, got) THEN RegionsOf(e.regions) ELSE <<>>

(* The regions of a block: those of its own attributes, then those of its  *)
(* start and end elements, whose region is asked for only while the block  *)
(* has none.                                                               *)
loadBlockRegions(e) == RegionsOf(<<e.region>> \o e.regions)
loadRegions(part, found) == RegionsOf((IF found THEN <<>> ELSE <<part.region>>) \o part.regions)

Found(name, at, got) == name # NoName /\ Len(got) >= at /\ got[at] # NoName
BlockRegions(e, got) ==
  LET own == loadBlockRegions(e)
      found == Found(e.region, 1, got)
      starts == loadRegions(e.starts, found)
      known == found \/ Found(e.starts.region, Len(own) + 1, got)
  IN  own \o IF Len(got) < Len(own) + Len(starts) THEN starts
             ELSE starts \o loadRegions(e.ends, known)

BlockWants(e, got) ==
  LET starts == EntitiesOf(e.start)
      ends   == starts \o EntitiesOf(e.end)
  IN
  IF e.start = <<>> \/ e.end = <<>> \/ e.scheme = NoName THEN <<>>
  ELSE IF ~Compiles(e.start, got) THEN starts
  ELSE IF ~Compiles(e.end, After(Len(starts), got)) THEN ends
  ELSE ends \o BlockRegions(e, After(Len(ends), got))

(* A word without a name is left out.                                      *)
WordsOf(e) == SelectSeq(e.words, LAMBDA w : w.name # "")

KeywordsWants(e, got) ==
  RegionsOf(<<e.region>>) \o
  IF e.region = NoName \/ got = <<>> \/ got[1] = NoName THEN <<>>
  ELSE EntitiesOf(e.worddiv) \o RegionsOf([i \in DOMAIN WordsOf(e) |-> WordsOf(e)[i].region])

Wants(e, got) ==
  CASE e.tag = "region" ->
         IF qualifyOwnName(e.name) = NoName \/ RegionNo(qualifyOwnName(e.name)) # 0 THEN <<>>
         ELSE RegionsOf(<<e.parent>>)
    [] e.tag = "entity" -> EntitiesOf(e.value)
    [] e.tag = "inherit" -> IF e.scheme = NoName THEN <<>> ELSE <<Want("scheme", e.scheme)>>
    [] e.tag = "regexp" -> RegexpWants(e, got)
    [] e.tag = "block" -> BlockWants(e, got)
    [] e.tag = "keywords" -> KeywordsWants(e, got)
    [] e.tag \in {"link", "ask"} -> <<e.want>>
    [] OTHER -> <<>>

InElement == stack # <<>> /\ top.k \in {"type", "links", "ask"} /\ top.todo # <<>>

(* The name to be looked up next, if there is one.                         *)
Wanted ==
  IF ~InElement \/ Len(top.got) >= Len(Wants(element, top.got)) THEN {}
  ELSE {Wants(element, top.got)[Len(top.got) + 1]}
Ready(k, tags) == Working(k) /\ element.tag \in tags /\ Wanted = {}

InProgress(t) == Known(t) /\ types[t].type_loading /\ ~types[t].loadDone

LoadAsked ==
  /\ \E want \in Wanted :
       /\ LoadsFirst(want)
       /\ LET i == Min(Stops(want)) IN
            BeginLoad(Candidates(want.name)[i], Replaced([top EXCEPT !.at = i, !.loaded = TRUE]))
  /\ UNCHANGED <<fileTypeVector, serials, schemes, regions, entities, current_parse_type,
                 flags, calls, thrown>>

LookUp ==
  /\ \E want \in Wanted :
       /\ ~LoadsFirst(want)
       /\ stack' = Replaced([top EXCEPT
            !.got = Append(@, Answer(want)), !.at = 1, !.loaded = FALSE,
            !.amid = @ \cup {t \in ToSet(Candidates(want.name)) : InProgress(t)}])
  /\ UNCHANGED <<library, context, flags, calls, thrown>>

-----------------------------------------------------------------------------
(* parseHRC and the elements of a file.                                    *)
ReadHRC ==
  /\ Doing("open")
  /\ IF HrcFile(current_input_source)
     THEN /\ updateStarted' = TRUE
          /\ stack' = Replaced([top EXCEPT !.k = "file", !.global = ~updateStarted,
                                           !.todo = Files[current_input_source].elements])
          /\ UNCHANGED <<types, context, typeContentLoaded, thrown>>
     ELSE Throw(types) /\ UNCHANGED updateStarted
  /\ UNCHANGED <<fileTypeVector, serials, schemes, regions, entities, structureChanged, calls>>

IsPrototype(e) == e.tag \in {"prototype", "package"}

(* Which elements a load of this kind leaves out.                          *)
LeavesOut(e) ==
  \/ e.tag = "prototype" /\ current_load_type = "TYPE"
  \/ e.tag = "package" /\ current_load_type = IF e.global THEN "TYPE" ELSE "PROTOTYPE"
  \/ e.tag = "type" /\ \/ current_load_type = "PROTOTYPE"
                       \/ ~Known(e.name)
                       \/ Known(e.name) /\ types[e.name].type_loading
  \/ e.name = ""

SkipElement ==
  /\ Working("file") /\ LeavesOut(element)
  /\ stack' = Replaced(Ahead(Tail(top.todo)))
  /\ UNCHANGED <<library, context, flags, calls, thrown>>

Unloadable(e) == Known(e.name) /\ isContentLoaded(types[e.name])
Unloaded(name) == [t \in DOMAIN types \ {name} |-> types[t]]
NotIn(name) ==
  LET at == SelectInSeq(fileTypeVector, LAMBDA t : t = name) IN
  IF at = 0 THEN fileTypeVector ELSE RemoveAt(fileTypeVector, at)

(* unloadFileType has taken the old prototype away when its location turns *)
(* out to lead nowhere.                                                    *)
PrototypeThrows ==
  /\ Working("file") /\ IsPrototype(element) /\ ~LeavesOut(element)
  /\ \/ Unloadable(element) /\ Throw(types) /\ UNCHANGED fileTypeVector
     \/ /\ ~Unloadable(element) /\ element.location = Lost
        /\ Throw(Unloaded(element.name)) /\ fileTypeVector' = NotIn(element.name)
  /\ UNCHANGED <<serials, schemes, regions, entities, structureChanged, updateStarted, calls>>

parsePrototypeBlock(e, serial) ==
  FileTypeOf(serial, e.tag = "package",
             IF e.location = NoFile THEN current_input_source ELSE e.location,
             IF e.tag = "package" THEN <<>> ELSE addDetectParams(<<>>, e.choosers),
             IF e.tag = "package" THEN <<>> ELSE addParams(<<>>, e.params))

AddPrototype ==
  /\ Working("file") /\ IsPrototype(element) /\ ~LeavesOut(element)
  /\ ~Unloadable(element) /\ element.location # Lost
  /\ serials' = serials + 1
  /\ types' = Put(Unloaded(element.name), element.name, parsePrototypeBlock(element, serials'))
  /\ fileTypeVector' = IF element.tag = "package" THEN NotIn(element.name)
                       ELSE Append(NotIn(element.name), element.name)
  /\ stack' = Replaced(Ahead(Tail(top.todo)))
  /\ UNCHANGED <<schemes, regions, entities, context, flags, calls, thrown>>

AddType ==
  /\ Working("file") /\ element.tag = "type" /\ ~LeavesOut(element)
  /\ types' = [types EXCEPT ![element.name].type_loading = TRUE]
  /\ typeContentLoaded' = TRUE
  /\ current_parse_type' = element.name
  /\ stack' = Append(Replaced(Ahead(Tail(top.todo))),
                     [Frame("type", element.name, element.items) EXCEPT
                        !.saved = <<current_parse_type, NoFile, "FULL">>])
  /\ UNCHANGED <<fileTypeVector, serials, schemes, regions, entities, current_input_source,
                 current_load_type, structureChanged, updateStarted, calls, thrown>>

Mutant_TypeDone ==
  /\ Doing("type") /\ top.todo = <<>>
  /\ LET base == qualifyOwnName(<<"", top.type>>) IN
       types' = [types EXCEPT ![top.type].loadDone = TRUE,
                              ![top.type].baseScheme = IF base \in DOMAIN schemes THEN base
                                                       ELSE NoName]
    /\ stack' = Front(stack)
  /\ UNCHANGED <<current_parse_type, fileTypeVector, serials, schemes, regions, entities, current_input_source,
                 current_load_type, flags, calls, thrown>>

(* loadDone, then back to the type that was being parsed.                  *)
TypeDone ==
  /\ Doing("type") /\ top.todo = <<>>
  /\ LET base == qualifyOwnName(<<"", top.type>>) IN
       types' = [types EXCEPT ![top.type].loadDone = TRUE,
                              ![top.type].baseScheme = IF base \in DOMAIN schemes THEN base
                                                       ELSE NoName]
  /\ current_parse_type' = top.saved[1]
  /\ stack' = Front(stack)
  /\ UNCHANGED <<fileTypeVector, serials, schemes, regions, entities, current_input_source,
                 current_load_type, flags, calls, thrown>>

-----------------------------------------------------------------------------
(* The elements of a type.                                                 *)
NextElement == stack' = Replaced(Ahead(Tail(top.todo)))

Mutant_AddTypeRegion ==
  /\ Ready("type", {"region"})
  /\ LET qname == qualifyOwnName(element.name) IN
       regions' = IF qname = NoName THEN regions
                  ELSE Append(regions, [name |-> qname, id |-> Len(regions) + 1,
                                        parent |-> IF top.got = <<>> \/ top.got[1] = NoName THEN 0
                                                   ELSE RegionNo(top.got[1])])
  /\ NextElement
  /\ UNCHANGED <<types, fileTypeVector, serials, schemes, entities, context, flags, calls, thrown>>

AddTypeRegion ==
  /\ Ready("type", {"region"})
  /\ LET qname == qualifyOwnName(element.name) IN
       regions' = IF qname = NoName \/ RegionNo(qname) # 0 THEN regions
                  ELSE Append(regions, [name |-> qname, id |-> Len(regions) + 1,
                                        parent |-> IF top.got = <<>> \/ top.got[1] = NoName THEN 0
                                                   ELSE RegionNo(top.got[1])])
  /\ NextElement
  /\ UNCHANGED <<types, fileTypeVector, serials, schemes, entities, context, flags, calls, thrown>>

AddTypeEntity ==
  /\ Ready("type", {"entity"})
  /\ LET qname == qualifyOwnName(element.name) IN
       entities' = IF qname = NoName \/ qname \in DOMAIN entities THEN entities
                   ELSE Put(entities, qname, useEntities(element.value, top.got))
  /\ NextElement
  /\ UNCHANGED <<types, fileTypeVector, serials, schemes, regions, context, flags, calls, thrown>>

AddTypeImport ==
  /\ Ready("type", {"import"})
  /\ types' = IF Known(element.type)
              THEN [types EXCEPT ![top.type].imports = Append(@, element.type)] ELSE types
  /\ NextElement
  /\ UNCHANGED <<fileTypeVector, serials, schemes, regions, entities, context, flags, calls, thrown>>

(* Left empty by its if or unless; both are asked of the parameters as     *)
(* they are while the type is loaded.                                      *)
Disabled(e) ==
  LET value(p) == getParamValue(types[current_parse_type].params, p) IN
  \/ e.if # "" /\ value(e.if) \notin {Unset, "true"}
  \/ e.unless # "" /\ value(e.unless) = "true"

AddScheme ==
  /\ Ready("type", {"scheme"})
  /\ LET qname == qualifyOwnName(element.name) IN
       IF qname = NoName \/ qname \in DOMAIN schemes THEN schemes' = schemes /\ NextElement
       ELSE /\ schemes' = Put(schemes, qname, [type |-> top.type, serial |-> top.serial, nodes |-> <<>>])
            /\ stack' = Replaced(Ahead(
                 (IF Disabled(element) THEN <<>>
                  ELSE [i \in DOMAIN element.nodes |-> Put(element.nodes[i], "in", qname)])
                 \o Tail(top.todo)))
  /\ UNCHANGED <<types, fileTypeVector, serials, regions, entities, context, flags, calls, thrown>>

(* The nodes.  A reference is [name, to, ref, amid]: name is reset when it *)
(* has been looked up, ref remembers it.                                   *)
Reference(ref, to, amid) ==
  [name |-> IF to = NoName THEN ref ELSE to, to |-> to, ref |-> ref, amid |-> amid]
Node(tag, links, text, names) ==
  <<[tag |-> tag, links |-> links, text |-> text, regions |-> names, amid |-> top.amid]>>

(* The regions asked for after n other names, each with what it was found  *)
(* to be.                                                                  *)
Asking(wants, n) ==
  [i \in 1 .. Len(top.got) - n |-> <<wants[i].name, top.got[n + i]>>]

addSchemeInherit(e) ==
  IF e.scheme = NoName THEN <<>>
  ELSE Node("inherit",
            <<Reference(e.scheme, top.got[1], top.amid)>> \o
              [i \in DOMAIN e.virtual |-> Reference(e.virtual[i], NoName, {})], <<>>, <<>>)

addSchemeRegexp(e) ==
  IF e.match = <<>> \/ ~Compiles(e.match, top.got) THEN <<>>
  ELSE Node("regexp", <<>>, useEntities(e.match, top.got),
            Asking(RegionsOf(e.regions), Len(EntitiesOf(e.match))))

addSchemeBlock(e) ==
  LET n == Len(EntitiesOf(e.start))
      m == n + Len(EntitiesOf(e.end))
      ends == After(n, top.got)
  IN IF e.start = <<>> \/ e.end = <<>> \/ e.scheme = NoName \/ ~Compiles(e.start, top.got)
       \/ ~Compiles(e.end, ends) THEN <<>>
     ELSE Node("block", <<Reference(e.scheme, NoName, {})>>,
               useEntities(e.start, top.got) \o useEntities(e.end, ends),
               Asking(BlockRegions(e, After(m, top.got)), m))

(* A word has the region of the list unless it names one of its own; got   *)
(* are what the words' own regions were found to be.                       *)
addSchemeKeyword(e, i, got) ==
  LET own(k) == WordsOf(e)[k].region # NoName
  IN  IF own(i) THEN <<WordsOf(e)[i].region, got[Cardinality({j \in 1 .. i : own(j)})]>>
      ELSE <<e.region, top.got[1]>>

parseSchemeKeywords(e) ==
  IF top.got = <<>> \/ top.got[1] = NoName THEN <<>>
  ELSE Node("keywords", <<>>, [i \in DOMAIN WordsOf(e) |-> WordsOf(e)[i].name],
            [i \in DOMAIN WordsOf(e) |->
               addSchemeKeyword(e, i, After(1 + Len(EntitiesOf(e.worddiv)), top.got))])

NodeOf(e) ==
  CASE e.tag = "inherit" -> addSchemeInherit(e)
    [] e.tag = "regexp" -> addSchemeRegexp(e)
    [] e.tag = "block" -> addSchemeBlock(e)
    [] e.tag = "keywords" -> parseSchemeKeywords(e)

AddNode ==
  /\ Ready("type", {"inherit", "regexp", "block", "keywords"})
  /\ schemes' = [schemes EXCEPT ![element.in].nodes = @ \o NodeOf(element)]
  /\ NextElement
  /\ UNCHANGED <<types, fileTypeVector, serials, regions, entities, context, flags, calls, thrown>>

-----------------------------------------------------------------------------
(* updateLinks: the references of the schemes, in any order.  A type that  *)
(* is loaded for one of them changes the table walked over, so the pass    *)
(* begins anew.                                                            *)
Untried(link) == link.to = NoName /\ link.name # NoName
LinksOf(scheme) ==
  UNION {{<<i, j>> : j \in {k \in DOMAIN scheme.nodes[i].links : Untried(scheme.nodes[i].links[k])}} :
           i \in DOMAIN scheme.nodes}
Linkable == {s \in DOMAIN schemes : types[schemes[s].type].loadDone /\ LinksOf(schemes[s]) # {}}

Mutant_FileDone ==
  /\ Doing("file") /\ top.todo = <<>>
  /\ structureChanged' = (~top.global /\ structureChanged)
  /\ stack' = IF top.global
              THEN Append(Replaced([top EXCEPT !.k = "return"]),
                          [Frame("links", NoType, <<>>) EXCEPT !.pass = DOMAIN schemes])
              ELSE Replaced([top EXCEPT !.k = "return"])
  /\ UNCHANGED <<library, context, updateStarted, typeContentLoaded, calls, thrown>>

FileDone ==
  /\ Doing("file") /\ top.todo = <<>>
  /\ structureChanged' = ~top.global
  /\ stack' = IF top.global
              THEN Append(Replaced([top EXCEPT !.k = "return"]),
                          [Frame("links", NoType, <<>>) EXCEPT !.pass = DOMAIN schemes])
              ELSE Replaced([top EXCEPT !.k = "return"])
  /\ UNCHANGED <<library, context, updateStarted, typeContentLoaded, calls, thrown>>

(* The references of a scheme come up in order.                            *)
FirstLink(refs) ==
  CHOOSE a \in refs : \A b \in refs : a[1] < b[1] \/ (a[1] = b[1] /\ a[2] <= b[2])
LinkElement(s, scheme) ==
  LET at == FirstLink(LinksOf(scheme)) IN
  [tag |-> "link", in |-> s, at |-> at,
   want |-> Want("scheme", scheme.nodes[at[1]].links[at[2]].name)]

(* The next scheme of the pass; one added during it may come up or not.    *)
LinkScheme ==
  /\ Doing("links") /\ top.todo = <<>> /\ ~structureChanged
  /\ \E s \in Linkable \ top.seen :
       /\ current_parse_type' = schemes[s].type
       /\ stack' = Replaced([Ahead(<<LinkElement(s, schemes[s])>>) EXCEPT
                               !.seen = @ \cup {s}, !.saved[1] = current_parse_type])
  /\ UNCHANGED <<library, current_input_source, current_load_type, flags, calls, thrown>>

Mutant_UpdateSchemeLink ==
  /\ Ready("links", {"link"})
  /\ schemes' = [schemes EXCEPT ![element.in].nodes[element.at[1]].links[element.at[2]] =
                   [@ EXCEPT !.to = top.got[1], !.amid = top.amid]]
  /\ IF LinksOf(schemes'[element.in]) = {}
     THEN /\ stack' = Replaced([Ahead(<<>>) EXCEPT !.saved[1] = NoType])
          /\ current_parse_type' = top.saved[1]
     ELSE /\ stack' = Replaced(Ahead(<<LinkElement(element.in, schemes'[element.in])>>))
          /\ UNCHANGED current_parse_type
  /\ UNCHANGED <<types, fileTypeVector, serials, regions, entities, current_input_source,
                 current_load_type, flags, calls, thrown>>

(* The name is given up, found or not.                                     *)
UpdateSchemeLink ==
  /\ Ready("links", {"link"})
  /\ schemes' = [schemes EXCEPT ![element.in].nodes[element.at[1]].links[element.at[2]] =
                   [@ EXCEPT !.to = top.got[1], !.name = NoName, !.amid = top.amid]]
  /\ IF LinksOf(schemes'[element.in]) = {}
     THEN /\ stack' = Replaced([Ahead(<<>>) EXCEPT !.saved[1] = NoType])
          /\ current_parse_type' = top.saved[1]
     ELSE /\ stack' = Replaced(Ahead(<<LinkElement(element.in, schemes'[element.in])>>))
          /\ UNCHANGED current_parse_type
  /\ UNCHANGED <<types, fileTypeVector, serials, regions, entities, current_input_source,
                 current_load_type, flags, calls, thrown>>

AnotherPass ==
  /\ Doing("links") /\ top.todo = <<>> /\ structureChanged
  /\ structureChanged' = FALSE
  /\ stack' = Replaced([Ahead(<<>>) EXCEPT !.seen = {}, !.pass = DOMAIN schemes])
  /\ UNCHANGED <<library, context, updateStarted, typeContentLoaded, calls, thrown>>

LinksDone ==
  /\ Doing("links") /\ top.todo = <<>> /\ ~structureChanged
  /\ Linkable \cap top.pass \subseteq top.seen
  /\ updateStarted' = FALSE
  /\ stack' = Front(stack)
  /\ UNCHANGED <<library, context, structureChanged, typeContentLoaded, calls, thrown>>

(* loadSource puts its context back, loadFileType takes its mark off.      *)
Return ==
  /\ Doing("return")
  /\ types' = IF top.type = NoType THEN types
              ELSE [types EXCEPT ![top.type].input_source_loading = FALSE]
  /\ current_input_source' = top.saved[2] /\ current_load_type' = top.saved[3]
  /\ stack' = Front(stack)
  /\ UNCHANGED <<fileTypeVector, serials, schemes, regions, entities, current_parse_type,
                 flags, calls, thrown>>

Answered ==
  /\ Ready("ask", {"ask"})
  /\ stack' = Front(stack)
  /\ UNCHANGED <<library, context, flags, calls, thrown>>

LoadStep ==
  \/ LoadAsked \/ LookUp \/ ReadHRC \/ SkipElement \/ PrototypeThrows \/ AddPrototype
  \/ AddType \/ TypeDone \/ AddTypeRegion \/ AddTypeEntity \/ AddTypeImport \/ AddScheme
  \/ AddNode \/ FileDone \/ LinkScheme \/ UpdateSchemeLink \/ AnotherPass \/ LinksDone
  \/ Return \/ Answered

-----------------------------------------------------------------------------
(* What a host calls.                                                      *)
Call == stack = <<>> /\ calls < MaxCalls /\ calls' = calls + 1

loadSource(file, load_type) ==
  /\ IF load_type = "PROTOTYPE" /\ typeContentLoaded
     THEN thrown' = TRUE /\ UNCHANGED <<stack, current_input_source, current_load_type>>
     ELSE /\ thrown' = FALSE
          /\ stack' = <<LoadFrame(NoType, file)>>
          /\ current_input_source' = file /\ current_load_type' = load_type
  /\ UNCHANGED <<library, current_parse_type, flags>>

LoadSource(file, load_type) == Call /\ loadSource(file, load_type)

LoadFileType(t) ==
  /\ Call /\ Known(t) /\ thrown' = FALSE
  /\ IF mayLoad(t) THEN BeginLoad(t, <<>>)
     ELSE UNCHANGED <<types, stack, current_input_source, current_load_type>>
  /\ UNCHANGED <<fileTypeVector, serials, schemes, regions, entities, current_parse_type, flags>>

(* Only prototypes there are; the others are left out.                     *)
LoadHrcSettings(s) ==
  /\ Call
  /\ LET overlay == Settings[s]
         ok == ~typeContentLoaded /\ overlay.readable /\ overlay.root = "hrc-settings"
     IN /\ thrown' = ~ok
        /\ types' = IF ~ok THEN types
                    ELSE [t \in DOMAIN types |->
                            updatePrototype(types[t], SelectSeq(overlay.elements,
                                                                LAMBDA e : e.name = t))]
  /\ UNCHANGED <<fileTypeVector, serials, schemes, regions, entities, context, flags, stack>>

SetParamValue(t, p, value) ==
  /\ Call /\ Known(t)
  /\ thrown' = (p \notin DOMAIN types[t].params)
  /\ types' = IF thrown' THEN types
              ELSE [types EXCEPT ![t].params = setParamValue(@, p, value)]
  /\ UNCHANGED <<fileTypeVector, serials, schemes, regions, entities, context, flags, stack>>

GetRegion(name) ==
  /\ Call /\ thrown' = FALSE
  /\ stack' = <<Frame("ask", NoType, <<[tag |-> "ask", want |-> Want("region", name)]>>)>>
  /\ UNCHANGED <<library, context, flags>>

Host ==
  \/ \E f \in Sources, k \in {"FULL", "PROTOTYPE"} : LoadSource(f, k)
  \/ \E t \in DOMAIN types : LoadFileType(t)
  \/ \E s \in DOMAIN Settings : LoadHrcSettings(s)
  \/ \E t \in DOMAIN types, p \in Params, v \in Values : SetParamValue(t, p, v)
  \/ \E n \in Asked : GetRegion(n)

InitLibrary ==
  /\ types = <<>> /\ fileTypeVector = <<>> /\ serials = 0
  /\ schemes = <<>> /\ regions = <<>> /\ entities = <<>>
  /\ current_parse_type = NoType
  /\ current_input_source = NoFile /\ current_load_type = "FULL"
  /\ structureChanged = FALSE /\ updateStarted = FALSE /\ typeContentLoaded = FALSE
  /\ stack = <<>> /\ calls = 0 /\ thrown = FALSE
=============================================================================
