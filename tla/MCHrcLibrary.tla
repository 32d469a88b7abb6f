----------------------------- MODULE MCHrcLibrary ---------------------------
(***************************************************************************)
(* A small collection of HRC files and a catalog that lists them.  Types A and B import one another, A   *)
(* defines scheme t after it is inherited, B's file brings package Q along *)
(* and only a block leads to package R; C's file names C as a package of   *)
(* its own, which may not be; the default type's cannot be read, E's has no E. *)
(* Another file replaces prototype A, another has a default type that leads nowhere.  *)
(***************************************************************************)
EXTENDS ParserFactory

Lit(x) == [ent |-> NoName, lit |-> x]
Ent(p, n) == [ent |-> <<p, n>>, lit |-> ""]
U(n) == <<"", n>>

Prototype(name, location, choosers, params) ==
  [tag |-> "prototype", name |-> name, location |-> location, global |-> TRUE,
   choosers |-> choosers, params |-> params]
Package(name, location, global) ==
  [tag |-> "package", name |-> name, location |-> location, global |-> global]
Type(name, items) == [tag |-> "type", name |-> name, items |-> items]
Region(name, parent) == [tag |-> "region", name |-> U(name), parent |-> parent]
Entity(name, value) == [tag |-> "entity", name |-> U(name), value |-> value]
Import(t) == [tag |-> "import", type |-> t]
Scheme(name, unless, nodes) ==
  [tag |-> "scheme", name |-> U(name), if |-> "", unless |-> unless, nodes |-> nodes]
Inherit(scheme, virtual) == [tag |-> "inherit", scheme |-> scheme, virtual |-> virtual]
Regexp(match, names) == [tag |-> "regexp", match |-> match, regions |-> names]
Part(region, names) == [region |-> region, regions |-> names]
BlockOf(scheme, start, names, starts, ends) ==
  [tag |-> "block", scheme |-> scheme, start |-> start, end |-> <<Lit("e")>>,
   region |-> IF names = <<>> THEN NoName ELSE Head(names),
   regions |-> IF names = <<>> THEN <<>> ELSE Tail(names), starts |-> starts, ends |-> ends]
Block(scheme, start, names) == BlockOf(scheme, start, names, Part(NoName, <<>>), Part(NoName, <<>>))
Keywords(region, words) ==
  [tag |-> "keywords", region |-> region, worddiv |-> <<>>, words |-> words]
Word(name, region) == [name |-> name, region |-> region]
Hrc(elements) == [readable |-> TRUE, root |-> "hrc", elements |-> elements]

Name(names, weight) == [kind |-> "filename", weight |-> weight, ok |-> TRUE, re |-> names]
Line(lines) == [kind |-> "firstline", weight |-> Unweighted, ok |-> TRUE, re |-> lines]

MCFiles ==
  "protos" :> Hrc(<<
     Prototype("A", "a", <<Name({"x"}, Unweighted), Line({"l"})>>, <<<<"flag", "false">>, <<"firstlines", "2">>>>),
     Prototype("B", "b", <<Name({"x", "y"}, Unweighted)>>, <<>>),
     Prototype("C", "c", <<[Line({"l"}) EXCEPT !.weight = 2]>>, <<>>),
     Prototype("default", "d", <<>>, <<<<"firstlines", "1">>, <<"firstlinebytes", "some">>>>), Prototype("E", "e", <<>>, <<>>)>>) @@
  "packs" :> Hrc(<<
     Package("P", "p", TRUE), Package("R", "r", TRUE), Package("N", NoFile, FALSE)>>) @@
  "a" :> Hrc(<<Prototype("A", NoFile, <<>>, <<>>), Type("A", <<
     Import("E"), Import("B"), Import("P"), Import("Nowhere"),
     Region("r", <<"P", "base">>), Region("own", U("rb")), Entity("e2", <<Ent("P", "e"), Lit("+")>>),
     Scheme("A", "", <<Inherit(U("s"), <<U("t"), <<"C", "c">>>>), Inherit(U("t"), <<>>),
                       BlockOf(U("t"), <<Ent("", "e2")>>, <<U("r"), NoName, U("rb")>>, Part(U("own"), <<U("rb")>>), Part(NoName, <<>>))>>),
     Scheme("t", "flag", <<Keywords(U("r"), <<Word("k", NoName), Word("", U("r")), Word("m", <<"P", "default">>)>>),
                           Regexp(<<Ent("E", "no"), Lit("(")>>, <<U("r")>>)>>),
     Region("late", NoName)>>)>>) @@
  "b" :> Hrc(<<Package("Q", NoFile, FALSE),
     Type("Q", <<Region("q", NoName), Scheme("Q", "", <<Regexp(<<Lit("x")>>, <<U("q")>>)>>)>>),
     Type("B", <<Import("A"), Region("rb", NoName), Region("rb", <<"P", "base">>),
     Scheme("B", "", <<Inherit(<<"Q", "Q">>, <<>>), Block(<<"A", "A">>, <<Lit("b")>>, <<U("late")>>),
                       BlockOf(U("t"), <<Lit("b")>>, <<>>, Part(U("none"), <<U("rb")>>), Part(<<"Q", "q">>, <<>>)),
                       Block(<<"R", "R">>, <<Lit("b")>>, <<>>), Block(<<"E", "none">>, <<Lit("b")>>, <<>>)>>),
     Scheme("s", "", <<Inherit(<<"A", "t">>, <<>>)>>), Scheme("t", "", <<>>)>>)>>) @@
  "c" :> Hrc(<<Package("C", NoFile, FALSE), Type("C", <<Scheme("c", "", <<>>)>>)>>) @@
  "d" :> [readable |-> FALSE, root |-> "", elements |-> <<>>] @@
  "e" :> Hrc(<<Type("Z", <<>>)>>) @@
  "p" :> Hrc(<<Type("P", <<Region("base", NoName), Region("default", NoName),
                           Entity("e", <<Lit("x")>>)>>)>>) @@
  "r" :> Hrc(<<Type("R", <<Scheme("R", "", <<Block(<<"B", "t">>, <<Lit("b")>>, <<>>)>>)>>)>>) @@
  "over" :> Hrc(<<Prototype("A", "a", <<>>, <<<<"flag", "true">>>>)>>) @@
  "gone" :> Hrc(<<Prototype("default", Lost, <<>>, <<>>)>>)

MCSettings ==
  "user" :> [readable |-> TRUE, root |-> "hrc-settings", elements |->
     <<[name |-> "A", params |-> <<<<"flag", "true">>>>, choosers |-> <<Line({"m"})>>],
      [name |-> "C", params |-> <<<<"firstlines", "1">>, <<"firstlinebytes", "2">>>>, choosers |-> <<>>],
       [name |-> "Unknown", params |-> <<>>, choosers |-> <<>>]>>]

MCFolders == "more" :> <<[path |-> "readme", ext |-> "txt"], [path |-> "packs", ext |-> "hrc"],
                         [path |-> "dark", ext |-> "hrd"], [path |-> "bad", ext |-> "hrd"]>>

Hrd(class, name, locations) == [class |-> class, name |-> name, locations |-> locations]
Assign(name, value) == [name |-> name, value |-> value]
HrdFile(root, name, assigns, hrd) ==
  [readable |-> TRUE, root |-> root, class |-> "rgb", name |-> name, assigns |-> assigns, hrd |-> hrd]
MCHrdFiles ==
  "light" :> HrdFile("hrd", "light", <<Assign("P:base", 1), Assign("", 2), Assign("P:base", 3)>>, <<>>) @@
  "dark" :> HrdFile("hrd", "dark", <<Assign("P:base", 4)>>, <<>>) @@
  "bad" :> [HrdFile("hrd", "bad", <<>>, <<>>) EXCEPT !.readable = FALSE]

MCCatalogs ==
  "cat" :> [readable |-> TRUE, root |-> "catalog",
            hrc |-> <<"d", "", "protos", Lost, "more">>,
            hrd |-> <<Hrd("rgb", "default", <<"light", "", "dark">>), Hrd("rgb", "", <<"dark">>),
                      Hrd("console", "default", <<>>)>>] @@
  "moved" :> [readable |-> FALSE, root |-> "", hrc |-> <<>>, hrd |-> <<>>]
MCLeads(base, location) == IF base = "moved" THEN Lost ELSE location
MCMappers == {<<"rgb", Unset>>, <<"console", Unset>>}

MCAsked == {<<"B", "rb">>, <<"", "rb">>}

-----------------------------------------------------------------------------
(* What a name means, from the files alone: the first of the type that     *)
(* uses it and the types it imports, or the type named, whose file, when   *)
(* it can be loaded, has an element of that name.                          *)
MakesThrow(e) == e.tag = "package" /\ ~e.global /\ e.name \in {"A", "B", "C", "default", "E", "P", "R"}
ItemsOf(t) ==
  LET file == Files[types[t].inputSource] IN
  IF ~file.readable \/ \E i \in DOMAIN file.elements : MakesThrow(file.elements[i]) THEN <<>>
  ELSE LET own == SelectSeq(file.elements, LAMBDA e : e.tag = "type" /\ e.name = t)
       IN IF own = <<>> THEN <<>> ELSE own[1].items

Declares(t, kind, n) ==
  Known(t) /\ \E item \in ToSet(ItemsOf(t)) : item.tag = kind /\ item.name[2] = n

Meaning(t, kind, name) ==
  LET cs == IF Qualified(name) THEN <<name[1]>> ELSE <<t>> \o types[t].imports
      i == SelectInSeq(cs, LAMBDA c : Declares(c, kind, name[2]))
  IN IF i = 0 \/ (kind = "region" /\ name[2] = "default") THEN NoName ELSE <<cs[i], name[2]>>

Means(t, kind, name, to, amid) ==
  to = Meaning(t, kind, name) \/ \E c \in amid : Declares(c, kind, name[2])

(* Whatever the order in which types are asked for, and whatever each load *)
(* pulled in: every reference to a scheme and every region of a node is    *)
(* what its name means, unless it was looked up while a type that defines  *)
(* it was itself still being loaded.                                       *)
NamesMean ==
  Idle => \A s \in DOMAIN schemes :
    \A i \in DOMAIN schemes[s].nodes :
      LET node == schemes[s].nodes[i] IN
      /\ \A j \in DOMAIN node.links :
           Untried(node.links[j]) \/
           Means(schemes[s].type, "scheme", node.links[j].ref, node.links[j].to, node.links[j].amid)
      /\ \A j \in DOMAIN node.regions :
           Means(schemes[s].type, "region", node.regions[j][1], node.regions[j][2], node.amid)

(* The type chosen for a file is one that fits it best, and of those the   *)
(* one whose prototype came first, after replaced prototypes and settings  *)
(* too.  What is read of the file to see that is what the type chosen asks *)
(* for, and the editor does come to such a type, unless two types ask for  *)
(* different limits: then each may lead it to the other, without an end.   *)
Texts == {<<>>, <<<<"l">>>>, <<<<"m">>, <<"l">>>>, <<<<"i">>, <<"i", "i", "m", "l">>>>}
AsksFor(t) == {"firstlines", "firstlinebytes"} \cap DOMAIN types[t].params # {}
ChosenBest ==
  Idle /\ fileTypeVector # <<>> => \A file \in {<<"x">>, <<"y">>, <<>>}, text \in Texts :
    LET asking == Cardinality({t \in DOMAIN types : AsksFor(t)})
        choice == chooseFileTypeCh(types, fileTypeVector, file, text, (asking + 1) * (asking + 1))
        start == TextStart(text, choice.limits)
        fit(t) == getPriority(types[t].choosers, file, start)
        at == SelectInSeq(fileTypeVector, LAMBDA t : t = choice.type)
    IN /\ choice.again => asking > 1
       /\ \A i \in DOMAIN fileTypeVector :
            \/ fit(fileTypeVector[i]) < fit(choice.type)
            \/ fit(fileTypeVector[i]) = fit(choice.type) /\ i >= at
       /\ ~choice.again => Limits(types[choice.type].params, choice.limits) = choice.limits

(* A file that cannot be read and a location that leads nowhere do not     *)
(* keep the other files of a catalog from being loaded: every prototype of *)
(* every one that can be read is there.                                    *)
EveryFileTried ==
  Idle /\ request = "catalog" /\ ~typeContentLoaded =>
    \A i \in DOMAIN hrc_locations :
      \A f \in ToSet(HrcAt(hrc_locations[i])) :
        Files[f].readable =>
          \A j \in DOMAIN Files[f].elements :
            Files[f].elements[j].global => Known(Files[f].elements[j].name)

=============================================================================
