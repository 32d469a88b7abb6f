---------------------------- MODULE ParserFactory ---------------------------
(***************************************************************************)
(* ParserFactory: reads a catalog, loads the prototypes of the HRC files   *)
(* it lists, one file after the other, into the library, keeps the HRDs it *)
(* lists and makes region mappers from them.                               *)
(***************************************************************************)
EXTENDS HrcLibrary, RegionMapper

CONSTANTS
  Catalogs,     \* path -> [readable, root, hrc, hrd]
  Folders,      \* path -> the files in it, as [path, ext]
  HrdFiles,     \* path -> [readable, root, class, name, assigns, hrd]
  Leads(_, _),  \* the path a location leads to, from the catalog's
  FirstCatalog, Paths, HrdPaths, Mappers,
  EnvHrd        \* COLORER_HRD, Unset or a name

VARIABLES base_catalog_path, hrc_locations, hrd_nodes,
          pending,      \* the files the catalog or path under way has left
          request,      \* what was asked last
          mapper        \* the mapper last made

factory == <<base_catalog_path, hrc_locations, hrd_nodes, pending, request, mapper>>

Regular(path) == path \in DOMAIN Files \cup DOMAIN HrdFiles

(* A folder's .hrc files, but no .ent.hrc; nothing when the path is bad.   *)
OfKind(path, ext) ==
  LET fs == SelectSeq(Folders[path], LAMBDA f : f.ext = ext) IN [i \in DOMAIN fs |-> fs[i].path]
HrcAt(path) ==
  IF Regular(path) THEN <<path>>
  ELSE IF path \in DOMAIN Folders THEN OfKind(path, "hrc") ELSE <<>>
HrcOf(base, locations) ==
  FlattenSeq([i \in DOMAIN locations |-> HrcAt(Leads(base, locations[i]))])

Ok(file, root) == file.readable /\ file.root = root

-----------------------------------------------------------------------------
addHrcSetsLocation(catalog) == SelectSeq(catalog.hrc, LAMBDA l : l # "")

(* An HRD needs a class, a name and a location.                            *)
parseHRDSetsChild(h) ==
  LET there == SelectSeq(h.locations, LAMBDA l : l # "") IN
  IF h.class = "" \/ h.name = "" \/ there = <<>> THEN <<>>
  ELSE <<[class |-> h.class, name |-> h.name, hrd_location |-> there]>>

addHrd(nodes, h) ==
  IF h.class \in DOMAIN nodes THEN [nodes EXCEPT ![h.class] = Append(@, h)]
  ELSE (h.class :> <<h>>) @@ nodes

AddHrds(nodes, hs) ==
  FoldLeft(LAMBDA ns, h : FoldLeft(addHrd, ns, parseHRDSetsChild(h)), nodes, hs)

(* readCatalog throws before it has changed anything, but the base path is *)
(* already the new one.                                                    *)
LoadCatalog(path) ==
  /\ Call /\ pending = <<>>
  /\ base_catalog_path' = path
  /\ thrown' = ~Ok(Catalogs[path], "catalog")
  /\ request' = IF thrown' THEN "refused" ELSE "catalog"
  /\ IF thrown' THEN UNCHANGED <<hrc_locations, hrd_nodes, pending>>
     ELSE /\ hrc_locations' = addHrcSetsLocation(Catalogs[path])
          /\ hrd_nodes' = AddHrds(<<>>, Catalogs[path].hrd)
          /\ pending' = HrcOf(path, hrc_locations')
  /\ UNCHANGED <<library, context, flags, stack, mapper>>

LoadHrcPath(path) ==
  /\ Call /\ pending = <<>> /\ request' = "path" /\ thrown' = FALSE
  /\ pending' = HrcAt(path)
  /\ UNCHANGED <<library, context, flags, stack, base_catalog_path, hrc_locations, hrd_nodes, mapper>>

(* loadHrc: what one file throws does not keep the next from being loaded. *)
Mutant_LoadHrc ==
  /\ stack = <<>> /\ pending # <<>>
  /\ loadSource(Head(pending), "PROTOTYPE")
  /\ pending' = IF thrown THEN <<>> ELSE Tail(pending)
  /\ UNCHANGED <<calls, base_catalog_path, hrc_locations, hrd_nodes, request, mapper>>

LoadHrc ==
  /\ stack = <<>> /\ pending # <<>>
  /\ loadSource(Head(pending), "PROTOTYPE")
  /\ pending' = Tail(pending)
  /\ UNCHANGED <<calls, base_catalog_path, hrc_locations, hrd_nodes, request, mapper>>

(* A file is a list of HRDs, a folder holds HRDs; the first that cannot be *)
(* read ends it, the ones before are kept.                                 *)
loadHrd(path) ==
  LET h == HrdFiles[path] IN [class |-> h.class, name |-> h.name, locations |-> <<path>>]

HrdsAt(path) ==
  IF Regular(path) THEN IF Ok(HrdFiles[path], "hrd-sets") THEN HrdFiles[path].hrd ELSE <<>>
  ELSE IF path \notin DOMAIN Folders THEN <<>>
  ELSE LET files == OfKind(path, "hrd")
           bad == SelectInSeq(files, LAMBDA f : ~Ok(HrdFiles[f], "hrd"))
           read == IF bad = 0 THEN files ELSE SubSeq(files, 1, bad - 1)
       IN [i \in DOMAIN read |-> loadHrd(read[i])]

LoadHrdPath(path) ==
  /\ Call /\ pending = <<>> /\ request' = "hrd" /\ thrown' = FALSE
  /\ hrd_nodes' = AddHrds(hrd_nodes, HrdsAt(path))
  /\ UNCHANGED <<library, context, flags, stack, base_catalog_path, hrc_locations, pending, mapper>>

-----------------------------------------------------------------------------
Named(nodes, class, name) ==
  IF class \notin DOMAIN nodes THEN <<>> ELSE SelectSeq(nodes[class], LAMBDA h : h.name = name)

DefaultName == IF EnvHrd = Unset THEN "default" ELSE EnvHrd

(* createStyledMapper and createTextMapper: every location of the HRD, or  *)
(* no mapper.                                                              *)
CreateMapper(class, nameID) ==
  LET node == Named(hrd_nodes, class, IF nameID = Unset THEN DefaultName ELSE nameID)
      paths == IF node = <<>> THEN <<>>
               ELSE [i \in DOMAIN node[1].hrd_location |->
                       Leads(base_catalog_path, node[1].hrd_location[i])]
      ok == node # <<>> /\ \A i \in DOMAIN paths : Regular(paths[i]) /\ Ok(HrdFiles[paths[i]], "hrd")
  IN /\ Call /\ pending = <<>> /\ request' = "mapper"
     /\ thrown' = ~ok
     /\ mapper' = IF ~ok THEN NoMapper
                  ELSE FoldLeft(LAMBDA m, p : loadRegionMappings(m, HrdFiles[p].assigns),
                                NewMapper(class), paths)
     /\ UNCHANGED <<library, context, flags, stack, base_catalog_path, hrc_locations, hrd_nodes,
                    pending>>

-----------------------------------------------------------------------------
Factory ==
  \/ \E c \in DOMAIN Catalogs : LoadCatalog(c)
  \/ \E p \in Paths : LoadHrcPath(p)
  \/ \E p \in HrdPaths : LoadHrdPath(p)
  \/ \E m \in Mappers : CreateMapper(m[1], m[2])

(* A factory that has been asked for its first catalog.                    *)
Init ==
  /\ InitLibrary
  /\ base_catalog_path = FirstCatalog
  /\ hrc_locations = addHrcSetsLocation(Catalogs[FirstCatalog])
  /\ hrd_nodes = AddHrds(<<>>, Catalogs[FirstCatalog].hrd)
  /\ pending = HrcOf(FirstCatalog, hrc_locations)
  /\ request = "catalog" /\ mapper = NoMapper

AskLibrary ==
  /\ pending = <<>> /\ Host /\ request' = "library"
  /\ UNCHANGED <<base_catalog_path, hrc_locations, hrd_nodes, pending, mapper>>

Load == LoadStep /\ UNCHANGED factory

Next == Load \/ LoadHrc \/ AskLibrary \/ Factory

Spec == Init /\ [][Next]_<<vars, factory>> /\ WF_<<vars, factory>>(Load \/ LoadHrc)

-----------------------------------------------------------------------------
Idle == stack = <<>> /\ pending = <<>>

(* A host may call only when the library is back where it was: no context  *)
(* of a nested load is left over, and no type is marked as being loaded.   *)
TypeOK ==
  /\ DOMAIN schemes \subseteq (DOMAIN types) \X STRING
  /\ \A i \in DOMAIN stack : stack[i].k \in {"open", "file", "type", "links", "return", "ask"}
  /\ Idle => /\ context = <<NoType, NoFile, "FULL">>
             /\ \A t \in DOMAIN types : /\ ~types[t].input_source_loading
                                        /\ types[t].type_loading => types[t].loadDone

(* Regions are numbered in order, each after its parent, and none twice,   *)
(* also when looking up the parent loads types with regions of their own.  *)
RegionsNumbered ==
  \A i \in DOMAIN regions :
    /\ regions[i].id = i /\ regions[i].parent < i
    /\ \A j \in 1 .. i - 1 : regions[j].name # regions[i].name

(* Nothing is left that points to a FileType that was unloaded: not the    *)
(* schemes, the list of types or anything under way.                       *)
NothingDangles ==
  /\ \A s \in DOMAIN schemes :
       Known(schemes[s].type) /\ types[schemes[s].type].serial = schemes[s].serial
  /\ \A i \in DOMAIN stack :
       stack[i].type # NoType => Known(stack[i].type) /\ types[stack[i].type].serial = stack[i].serial
  /\ \A i \in DOMAIN fileTypeVector :
       Known(fileTypeVector[i]) /\ \A j \in 1 .. i - 1 : fileTypeVector[j] # fileTypeVector[i]

(* When a call is over no reference of a loaded type waits to be looked    *)
(* up, as long as no call before was left with updateStarted set.          *)
AllLinked == Idle /\ ~updateStarted => Linkable = {}

(* The same of every call: a loaded type has all its references.           *)
LoadedIsLinked == Idle => Linkable = {}

(* A load comes back, however types refer to one another and although each *)
(* type loaded for a reference begins the pass over the references anew.   *)
CallsReturn == ~Idle ~> Idle
=============================================================================
