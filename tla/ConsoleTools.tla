----------------------------- MODULE ConsoleTools ---------------------------
(***************************************************************************)
(* The console tools: the command line, the jobs that list or load types,  *)
(* write a colored file and show one, with everything between the parser   *)
(* and what is seen.  The parser is here the calls it makes of a           *)
(* RegionHandler: those of any grammar, in the order TextParser keeps.     *)
(*                                                                         *)
(* Jobs use one store each.  plain and compact are the two kinds, told the *)
(* same: the viewer reads the one, the generator writes the other.         *)
(***************************************************************************)
EXTENDS ParsedLineWriter, TextLinesStore, TextConsoleViewer

CONSTANTS
  CommandLines, \* sequences of arguments [o |-> option, v |-> value]
  Files,        \* of each file that is there, its text
  Types,        \* the library's types in order, [name, description, detects]: the files it is for
  Letters,      \* of each name, description and wanted type, its letters
  Hrds,         \* of some <<class, name>>, the definitions of the HRD file
  Links,        \* of some files, docLinkHash as the file gives it
  Regions,      \* the regions, [name, parent]
  Special,      \* def:Special
  Marks,        \* what the parser adds to a line, [start, end, region]
  Blocks,       \* of some blocks, [region, scheme], the region NoRegion if it has none
  RingLines,    \* the lines a store has room for
  Screens,      \* the sizes of the console
  Keys,         \* the keys that are pressed
  MaxEvents,    \* bound, of each file: calls of the parser after which it goes on to the end
  MaxKeys       \* bound: keys pressed

VARIABLES
  settings, \* what the command line asks for
  pc,       \* where the job is
  type,     \* the file type selected
  lines,    \* the TextLinesStore
  plain, compact,
  feed,     \* where the parser is: see NoFeed
  out,      \* what has been written
  view,     \* the viewer, with the keys pressed
  screen    \* and what it shows
vars == <<settings, pc, type, lines, plain, compact, feed, out, view, screen>>

-----------------------------------------------------------------------------
(* readArgs.  An option that needs a value takes the next argument, or, at *)
(* the end, is read without its second letter or not at all.               *)
Valued == ("ls" :> "links") @@ ("t" :> "type") @@ ("o" :> "output") @@ ("i" :> "hrd")
          @@ ("cs" :> "hrcsettings") @@ ("cu" :> "userhrc") @@ ("cd" :> "userhrd") @@ ("c" :> "catalog")
Jobs == ("p" :> "profile") @@ ("r" :> "regtest") @@ ("v" :> "view") @@ ("ht" :> "tokens") @@ ("h" :> "gen")
        @@ ("ll" :> "list load") @@ ("lt" :> "list names") @@ ("ld" :> "load type") @@ ("l" :> "list types")
Switches == ("ln" :> "lines") @@ ("dc" :> "copyright") @@ ("db" :> "bom") @@ ("ds" :> "escape") @@ ("dh" :> "wrap")

Defaults == [p \in {"input"} \cup {Valued[o] : o \in DOMAIN Valued} |-> ""]
            @@ ("job" :> "nothing") @@ ("switched" :> {})

ReadArg(read, arg) ==
  LET given(name) == [read EXCEPT !.settings[name] = arg.v, !.waits = ""]
  IN CASE read.waits # "" -> [read EXCEPT !.settings[read.waits] = arg.o \o arg.v, !.waits = ""]
       [] read.waits = "" /\ arg.o = "" -> given("input")
       [] read.waits = "" /\ arg.o \in DOMAIN Jobs -> [read EXCEPT !.settings.job = Jobs[arg.o]]
       [] read.waits = "" /\ arg.o \in DOMAIN Switches ->
            [read EXCEPT !.settings.switched = @ \cup {Switches[arg.o]}]
       [] read.waits = "" /\ arg.o \in DOMAIN Valued ->
            IF arg.v = "" THEN [read EXCEPT !.waits = Valued[arg.o], !.option = arg.o] ELSE given(Valued[arg.o])
       [] OTHER -> read

SecondLetter == ("cs" :> "s") @@ ("cu" :> "u") @@ ("cd" :> "d")
LeftOut(option, s) ==
  CASE option = "ls" -> [s EXCEPT !.job = Jobs["l"]]
    [] option \in DOMAIN SecondLetter -> [s EXCEPT !.catalog = SecondLetter[option]]
    [] OTHER -> s

readArgs(args) ==
  LET read == FoldLeft(ReadArg, [settings |-> Defaults, waits |-> "", option |-> ""], args)
  IN IF read.waits = "" THEN read.settings ELSE LeftOut(read.option, read.settings)

-----------------------------------------------------------------------------
(* What a job begins with, and how one ends.                               *)
(* feed: the line parsed, where it may stop, the calls made, the blocks    *)
(* open, the place they are open from, and, as the parse cache knows them, *)
(* the blocks open where each line begins.                                 *)
NoFeed == [lno |-> 0, stop |-> 0, events |-> 0, open |-> <<>>, at |-> 0, cache |-> <<<<>>>>]
NoView == [topline |-> 0, leftpos |-> 0, X |-> 0, Y |-> 0, keys |-> 0]

Init ==
  /\ \E args \in CommandLines : settings = readArgs(args)
  /\ pc = "start" /\ type = "" /\ lines = <<>>
  /\ plain = NewSupport(FALSE, RingLines, Special, NoMapper)
  /\ compact = NewSupport(TRUE, RingLines, Special, NoMapper)
  /\ feed = NoFeed /\ out = <<>> /\ view = NoView /\ screen = <<>>

Untouched == UNCHANGED <<settings, type, lines, plain, compact, feed, view, screen>>
Quit(last) == pc' = "done" /\ out' = out \o last /\ Untouched
Fails(error) == Quit(<<<<"error", error>>>>)
GoesOn(to) == pc' = to /\ UNCHANGED out /\ Untouched

(* initConsoleTools: a file of links that cannot be read ends it all.      *)
InitConsoleTools ==
  /\ pc = "start"
  /\ IF settings.links = "" \/ settings.links \in DOMAIN Links THEN GoesOn("work") ELSE Fails("links")

docLinkHash == IF settings.links = "" THEN <<>> ELSE Links[settings.links]

ListTypes ==
  /\ pc = "work" /\ settings.job \in {"list load", "list types", "list names"}
  /\ Quit([k \in DOMAIN Types |-> <<"type", Types[k].name>>])

LoadType ==
  /\ pc = "work" /\ settings.job = "load type"
  /\ Quit(IF \E k \in DOMAIN Types : Types[k].name = settings.type
          THEN <<<<"loaded", settings.type>>>> ELSE <<<<"not found", settings.type>>>>)

PrintUsage == pc = "work" /\ settings.job = "nothing" /\ Quit(<<<<"usage", "">>>>)

Viewing == settings.job = "view"
Colors == settings.job \in {"gen", "tokens", "view", "profile"}
LoadFile ==
  /\ pc = "work" /\ Colors
  /\ IF settings.input \notin DOMAIN Files THEN Fails("file")
     ELSE /\ lines' = loadFile(Files[settings.input], TRUE)
          /\ pc' = "prepare"
          /\ UNCHANGED <<settings, type, plain, compact, feed, out, view, screen>>

(* selectType: by its name; else the first whose description or name is    *)
(* long enough and compares, without case, as different (caseCompare is 0  *)
(* for the same); else by the file; "" for none.                           *)
Differs(wanted, from) ==
  Len(Letters[from]) >= Len(Letters[wanted]) /\ ~IsPrefix(Letters[wanted], Letters[from])

selectType(wanted, file) ==
  LET first(Test(_)) == SelectInSeq(Types, Test)
      named == first(LAMBDA t : t.name = wanted)
      other == first(LAMBDA t : Differs(wanted, t.description) \/ Differs(wanted, t.name))
      chosen == first(LAMBDA t : file \in t.detects)
      k == IF wanted # "" /\ named # 0 THEN named
           ELSE IF wanted # "" /\ other # 0 THEN other ELSE chosen
  IN IF k = 0 THEN "" ELSE Types[k].name

(* The mapper of the job: tokens need none; colors are the HRD's of class  *)
(* rgb, or else its texts.                                                 *)
HrdClasses == CASE settings.job = "gen" -> <<"rgb", "text">> [] settings.job = "tokens" -> <<>>
                [] OTHER -> <<"console">>
HrdClass ==
  LET k == SelectInSeq(HrdClasses, LAMBDA class : <<class, settings.hrd>> \in DOMAIN Hrds)
  IN IF k = 0 THEN "" ELSE HrdClasses[k]
Mapper == IF HrdClass = "" THEN NoMapper
          ELSE loadRegionMappings(NewMapper(HrdClass), Hrds[<<HrdClass, settings.hrd>>])

(* The mapper, the editor with its store, the type.                        *)
Prepare ==
  /\ pc = "prepare"
  /\ CASE HrdClasses # <<>> /\ HrdClass = "" -> Fails("hrd")
       [] selectType(settings.type, settings.input) = "" -> Fails("type")
       [] OTHER ->
            /\ type' = selectType(settings.type, settings.input)
            /\ plain' = NewSupport(FALSE, RingLines, Special, Mapper)
            /\ compact' = NewSupport(TRUE, RingLines, Special, Mapper)
            /\ pc' = IF settings.job = "profile" THEN "time" ELSE IF Viewing THEN "open" ELSE "head"
            /\ UNCHANGED <<settings, lines, feed, out, view, screen>>

(* profile: its loops parse for the cache alone, and store no regions.     *)
Profile == pc = "time" /\ Quit(<<<<"time", "">>>>)

-----------------------------------------------------------------------------
(* A parse, for a line that is wanted.  The store's window is put where    *)
(* the line is in it; parsing starts at a line the cache knows.            *)
Wanted == IF Viewing THEN view.topline ELSE Len(SelectSeq(out, LAMBDA o : o[1] = "line"))
LastWanted == IF Viewing THEN view.topline + ShownLines(view, Len(lines)) - 1 ELSE Wanted
Ready == checkLine(plain, Wanted) /\ LastWanted < feed.stop

Both(Told(_)) == plain' = Told(plain) /\ compact' = Told(compact)

(* fillInvisibleSchemes: the blocks open where the parse starts are        *)
(* entered at the start of the line, all with the innermost's scheme.      *)
Fill(s, lno, open) ==
  FoldLeft(LAMBDA t, b : enterScheme(t, Regions, lno, 0, b.region, Last(open).scheme), s, open)

Parse(first) ==
  LET from == Min({first, Len(feed.cache) - 1})
      open == feed.cache[from + 1]
  IN /\ pc = "color"
     /\ Both(LAMBDA s : Fill(clearLine(startParsing(setFirstLine(s, first)), from), from, open))
     /\ feed' = [feed EXCEPT !.lno = from, !.stop = Min({first + RingLines, Len(lines)}), !.open = open, !.at = 0]
     /\ pc' = "parse"
     /\ UNCHANGED <<settings, type, lines, out, view, screen>>

Told(b) == [b EXCEPT !.events = @ + 1]
Tells == pc = "parse" /\ feed.events < MaxEvents[settings.input] /\ UNCHANGED <<settings, pc, type, lines, out, view, screen>>
Length == IF pc = "parse" THEN Len(lines[feed.lno + 1]) ELSE 0

AddRegion(mark) ==
  /\ Tells /\ mark.end <= Length
  /\ Both(LAMBDA s : addRegion(s, Regions, feed.lno, mark.start, mark.end, mark.region))
  /\ feed' = Told(feed)

EnterScheme(at, b) ==
  /\ Tells /\ feed.at <= at /\ at <= Length
  /\ Both(LAMBDA s : enterScheme(s, Regions, feed.lno, at, b.region, b.scheme))
  /\ feed' = [Told(feed) EXCEPT !.open = Append(@, b), !.at = at]

LeaveScheme(at) ==
  /\ Tells /\ feed.at <= at /\ at <= Length /\ feed.open # <<>>
  /\ Both(LAMBDA s : leaveScheme(s, feed.lno, at))
  /\ feed' = [Told(feed) EXCEPT !.open = Front(@), !.at = at]

Knows(cache, lno, open) == IF lno = Len(cache) THEN Append(cache, open) ELSE [cache EXCEPT ![lno + 1] = open]
NextLine ==
  /\ pc = "parse" /\ feed.lno + 1 < feed.stop
  /\ Both(LAMBDA s : clearLine(s, feed.lno + 1))
  /\ feed' = [feed EXCEPT !.lno = @ + 1, !.at = 0, !.cache = Knows(@, feed.lno + 1, feed.open)]
  /\ UNCHANGED <<settings, pc, type, lines, out, view, screen>>

EndParsing ==
  /\ pc = "parse" /\ feed.lno + 1 = feed.stop
  /\ feed' = [feed EXCEPT !.cache = Knows(@, feed.stop, feed.open)]
  /\ pc' = IF Viewing THEN "paint" ELSE "write"
  /\ UNCHANGED <<settings, type, lines, plain, compact, out, view, screen>>

-----------------------------------------------------------------------------
(* genOutput                                                               *)
Writes(pieces, to) ==
  out' = out \o pieces /\ pc' = to /\ UNCHANGED <<settings, type, lines, plain, compact, feed, view, screen>>

useMarkup == settings.job = "gen" /\ HrdClass = "text"
DefText ==
  LET m == plain.mapper IN IF "def:Text" \in DOMAIN m.defines THEN m.values[m.defines["def:Text"]] ELSE NoDefine
Wraps == "wrap" \notin settings.switched /\ (settings.job = "tokens" \/ DefText # NoDefine)

WriteHead ==
  /\ pc = "head"
  /\ Writes((IF ~Wraps THEN <<>> ELSE Opens(IF useMarkup THEN DefText.start_text ELSE "html"))
            \o (IF "copyright" \in settings.switched THEN <<>> ELSE <<<<"type", type>>>>), "color")

Colored(lno) ==
  LET line == lines[lno + 1]
      list == getLineRegions(compact, lno)
  IN IF settings.job = "tokens" THEN tokenWrite(line, list, Regions)
     ELSE IF useMarkup THEN markupWrite(line, list) ELSE htmlRGBWrite(line, list, docLinkHash)

WriteNext ==
  /\ pc = "write" /\ Wanted < Len(lines) /\ Ready
  /\ Writes(<<<<"line", (IF "lines" \in settings.switched THEN <<<<"no", Wanted>>>> ELSE <<>>) \o Colored(Wanted)>>>>,
            "write")

ParseMore == pc = "write" /\ Wanted < Len(lines) /\ ~Ready /\ GoesOn("color")

WriteFoot ==
  /\ pc = "write" /\ Wanted = Len(lines)
  /\ Writes(IF Wraps THEN Closes(IF useMarkup THEN DefText.end_text ELSE "html") ELSE <<>>, "done")

-----------------------------------------------------------------------------
(* viewFile: the viewer draws and waits for a key, until escape.           *)
background ==
  IF DefText # NoDefine /\ DefText.fore # "" /\ DefText.back # "" THEN <<DefText.fore, DefText.back>>
  ELSE <<"F", "1">>

Views(v, to) == view' = v /\ pc' = to /\ UNCHANGED <<settings, type, lines, plain, compact, feed, out, screen>>

OpenViewer(X, Y) ==
  pc = "open" /\ Views([view EXCEPT !.X = X, !.Y = Y], "shown")

(* visibleTextEvent, and what the lines shown need parsed.                 *)
Show == pc = "shown" /\ GoesOn(IF Ready THEN "paint" ELSE "color")

Paint ==
  /\ pc = "paint"
  /\ screen' = Buffer(view, lines, [lno \in 0..Len(lines) - 1 |-> getLineRegions(plain, lno)], background)
  /\ pc' = "key"
  /\ UNCHANGED <<settings, type, lines, plain, compact, feed, out, view>>

PressKey(key) ==
  pc = "key" /\ view.keys < MaxKeys /\ Views([Key(view, Len(lines), key) EXCEPT !.keys = @ + 1], "shown")

ResizeWindow(X, Y) ==
  pc = "key" /\ view.keys < MaxKeys /\ Views([Resize(view, X, Y) EXCEPT !.keys = @ + 1], "shown")

Escape == pc = "key" /\ GoesOn("done")

-----------------------------------------------------------------------------
Next ==
  \/ InitConsoleTools \/ ListTypes \/ LoadType \/ PrintUsage \/ LoadFile \/ Prepare \/ Profile
  \/ \E first \in 0..Wanted : LastWanted < first + RingLines /\ Parse(first)
  \/ \E mark \in Marks : AddRegion(mark)
  \/ \E at \in 0..Length, b \in Blocks : EnterScheme(at, b)
  \/ \E at \in 0..Length : LeaveScheme(at)
  \/ NextLine \/ EndParsing
  \/ WriteHead \/ WriteNext \/ ParseMore \/ WriteFoot
  \/ \E size \in Screens : OpenViewer(size[1], size[2])
  \/ Show \/ Paint \/ Escape
  \/ \E key \in Keys : PressKey(key)
  \/ \E size \in Screens : ResizeWindow(size[1], size[2])

Spec == Init /\ [][Next]_vars
=============================================================================
