# Colorer-library: models, checks and proofs

This directory models Colorer-library: the editor facade, the incremental text
parser with its cache, the search for the next match in a scheme, regular
expressions and character classes, the loading of HRC files and catalogs, the
stores of line regions, and what editors and the console tools make of them.
Each module is written from the C++ under `src/src/colorer/` and
`src/tools/colorer/`; `PROJECT.json` says, definition by definition, which lines
it stands for.

    tlc   -config EditorView.cfg MCBaseEditor.tla     # check one run
    tlapm BaseEditor_proofs.tla                       # check the proofs of one module

## The system

A host (an editor, a viewer) owns a text and asks which regions its lines have.

| Part | State it keeps | Operations | Talks to |
|---|---|---|---|
| `BaseEditor` (`editor/BaseEditor.cpp`) | `invalidLine`: lines below it are parsed; `lineCount`; window `wStart`, `wSize`; ring length `lrSize`; file type, region mapper, `backParse` | `getLineRegions`, `validate`, `idleJob`, `modifyEvent`, `modifyLineEvent`, `visibleTextEvent`, `lineCountEvent`, `setFileType`, `setRegionMapper`, `setRegionCompact`, pair search | calls `TextParser::parse` and `tryParseLine`; is the `RegionHandler` of the parser and forwards to `LineRegionsSupport` and listeners; reads lines from the host's `LineSource` |
| `TextParser` (`parsers/TextParserImpl.cpp`) | cache tree; during a call: `gx`, line, `matchend`, `schemeStart`, parent/forward, the C++ stack of `colorize` | `parse(from, num, mode)`, `tryParseLine`, `breakParse`, `clearCache`, `setFileType` | reads lines; calls the region handler; regexps; takes the library's lock shared |
| `ParseCache` (`parsers/TextParserHelpers.cpp`) | tree of blocks that span lines, a search cursor per list | `searchLine`, `dropChildren`, `dropNext`, appends by `searchBL` | owned by `TextParser` |
| `VTList` (same file) | stack of virtual-scheme tables, partly hidden | `push`, `pop`, `pushvirt`, `popvirt`, `store`, `restore` | owned by `TextParser` |
| `LineRegionsSupport`, `LineRegionsCompactSupport` (`handlers/`) | ring of lists of regions, scheme stack, `flowBackground`, pool | region callbacks, `getLineRegions`, `setFirstLine`, `resize` | filled by the parser, read by the editor and the host |
| `RegionMapper`, HRD mappers (`handlers/`) | definitions by name, cache by region number | `getRegionDefine`, `setRegionDefine`, load | asked by `LineRegionsSupport` |
| `Outliner` (`editor/Outliner.cpp`) | items, `modifiedLine` | region callbacks, `modifyEvent` | region handler and editor listener |
| `HrcLibrary` (`parsers/HrcLibraryImpl.cpp`) | prototypes, types, schemes, regions, entities; what is being loaded | `loadSource`, `loadFileType`, `getFileType`, `chooseFileType`, `getRegion` | XML reader; read by the parser while it runs |
| Keyword lists, search nodes (`parsers/SchemeNode.cpp`, `KeywordList.cpp`) | index of a scheme's nodes by first character | built on load, read by `colorize` | |
| `CRegExp` (`cregexp/`) | compiled tree, captures, a shared stack | `setRE`, `parse`, `mayMatch` | |
| character classes (`strings/icu/UStr.cpp`, `strings/legacy/`) | sets of characters, in one of two forms by build | `createCharClass` | called by `setRE` |
| `ParserFactory`, `CatalogParser` | catalog, HRD nodes, path the files are relative to | `loadCatalog`, `loadHrcPath`, `loadHrdPath`, `createStyledMapper` | loads prototypes into the library, makes mappers |
| `PairMatch` (`editor/`) | one search | `searchLocalPair`, `searchGlobalPair` | asks the editor line by line |
| `TextLinesStore`, `ParsedLineWriter`, `TextConsoleViewer`, console tools | the lines of a file; place and size of the screen; options | load, write, view; one job per command line | the editor or the parser, and its stores |
| XML reader, input sources, strings | | I/O and data types | |

What is hard here, and what the models are for:

* **Partial parses.** Text is parsed by any sequence of calls: a window now,
  the lines below in idle time, one edited line by itself. What a line is
  coloured with must not depend on which calls there were. `TextParser.h:71-74`
  promises it.
* **Caches that answer for a changing text.** The parse cache, its search
  cursors, and the ring of coloured lines each answer for lines that have been
  edited, inserted, scrolled away or remapped since.
* **A recursive parser over a tree it rebuilds.** `searchBL` holds pointers
  into sibling lists that its recursive call appends to and trims.
* **Calls out and interruptions.** `getLine` may return null, another thread
  may call `breakParse`, blocks may nest too deep, lines may be longer than a
  window: in each case the call must end and leave a sound cache.
* **A search that is prepared ahead.** `updateLinks` inlines, merges and indexes
  the nodes of every scheme whenever a file type is loaded, and `<virtual>`
  changes what a reference stands for depending on the inherits and blocks around
  it, also when a parse goes on inside a block later. What is found must be what
  the HRC file says in its order.

* **Loads inside loads.** A name that belongs to another type loads that type in
  the middle of the one being loaded, whose file may need the first. Any of these
  may throw half way. What a name is bound to must not depend on the order.
* **A backtracking matcher that remembers.** The rounds of a loop are kept in the
  tree, across backtracking and calls, and five prefilters decide that a match
  need not be tried at all.
* **Two of a kind.** Plain and compact line regions, the ICU and the legacy build
  of character classes: each pair must agree.

The full list, with source lines, is under `hazards` in `PROJECT.json`.

## Modules

| Module | Models | State and actions |
|---|---|---|
| `LineStacks` | the abstract incremental parse | `stacks`: for a prefix of the lines, the blocks open at their start. `Learn`, `Forget`, `Change`, `Retype` |
| `BaseEditor` | `BaseEditor.cpp`, the ring of `LineRegionsSupport` | the variables have the names of the fields; one action per handler. A `parse()` in progress is `job`, one `ParseLine` step per line. The grammar is any function `Scan` |
| `BaseEditor_proofs` | theorems about `BaseEditor`: its parse cache, the refinement of `LineStacks`, the ring of coloured lines | |
| `ParseCache` | class `ParseCache` | trees as functions from nodes to records; the methods are operators, tree in and tree out |
| `ParseCache_proofs` | lemmas: what each of these operators does to any tree | |
| `TextParser` | `TextParserImpl.cpp` | `frames` is the C++ stack of `colorize`; one action per step of its loop (`StartLine`, `MatchBlock`, `MatchRegexp`, `MatchNothing`, `ContentOver`, `Broken`, `NullLine`, `OutOfLines`) and per return (`BlockReturns`, `ParentReturns`, `ParseReturns`) |
| `TextParser_proofs` | theorems about `TextParser`: types, that nothing dangles, the order of its cache; lemmas: what a line of text does to the levels open, what a search of the tree comes to while it is rebuilt | |
| `CacheLevels_proofs` | theorems about `TextParser`: the cache, the handler and the trial parse are right for the text; it implements `LineStacks` | |
| `VTList` | class `VTList` | a list is `[nodes, last]`; the methods are operators, list in and list out |
| `VTList_proofs` | theorems about `VTList` | |
| `Keywords` | `KeywordList.cpp`, `mergeKeywordNodes`, `searchKW` | operators on sorted lists of `[keyword, region, isSymbol]`; `Longest` is the reference |
| `Grammar` | `SchemeNode.h` | the nodes of schemes as constants, and the reference `Search`: HRC order, first match wins, `<virtual>` by a stack of tables |
| `SchemeEnv` | what a parse promises about schemes and substitutions | `open`: the blocks open here, each with scheme and environment; `begun`: the same for each line start |
| `SchemeSearch` | `updateLinks`, `searchMatch`/`searchIN`/`searchBL`, `parse` as far as it handles `vtlist` | `searchNodes`, `searchDispatch` as linked; `frames`: what each activation still undoes on `vtlist`; `blocks`: cached blocks with their `vcache`. `Turn` is one turn of `colorize`'s loop |
| `Characters` | class `Character` | the sets of characters an expression asks about, as constants |
| `RegExpTree` | `CRegExp::setRELow`, `setStructs` | from tokens to a tree; a chain of nodes is a sequence |
| `RegExpFacts` | `CRegExp::optimize` | first characters, anchors, length, required characters: operators on trees |
| `CRegExp` | `setRE`, `parse`, `parseRE`, `lowParse`, `mayMatch` | `self` is the object with what loops remember in their nodes; `stack` the backtracking stack; a turn of `lowParse`'s loop is one step |
| `RegExpMeaning` | (reference) | all ways an expression matches, the preferred first, by recursion over the tree |
| `BitArray`, `CharacterClass` | the classes of those names | operators: a page of bits in its three forms; the sets of both builds with their operations |
| `ClassParser` | `createCharClass` of both builds | `frames` are the recursive calls; a step reads one item of a class into a set of each build |
| `FileTypes` | `FileType`, its choosers and parameters, `chooseFileType`, `chooseFileTypeCh` | operators on records |
| `HrcLibrary` | `HrcLibraryImpl.cpp` | `stack` holds one frame for each file, type, pass over references and question under way; a step is one element of a file or one name looked up |
| `HrcLibrary_proofs` | theorems about `ParserFactory` with `HrcLibrary`, whatever the files are | |
| `RegionMapper` | `RegionMapper.cpp`, HRD mappers | operators; definitions are objects with numbers, so that what is freed shows |
| `ParserFactory` | `ParserFactoryImpl.cpp`, `CatalogParser.cpp` | composes `HrcLibrary` and `RegionMapper`; `pending` are the files a catalog has left |
| `LineRegions` | `LineRegionsSupport`, `LineRegionsCompactSupport`, `LineRegion` | a store is a record, a list of regions a sequence of records with an id for their address |
| `TextLinesStore`, `ParsedLineWriter`, `TextConsoleViewer` | the files of those names | operators |
| `ConsoleTools` | the console program | one action per option and per part of a job; the parser is any sequence of the calls it may make of a region handler |
| `Outliner`, `PairMatch` | the classes of those names | operators on an outliner and a search |
| `EditorServices` | editor, outliner and pair search together | extends `BaseEditor`: its actions with what the outliner hears of them, and a search, one line per step |
| `EditorServices_proofs` | theorems about the outliner and the pair search beside the editor | |
| `SequenceLemmas` | lemmas on numbers, sequences and folds that the proofs share | |
| `MCBaseEditor`, `MCTextParser`, `MCSchemeSearch`, `MCCRegExp`, `MCClassParser`, `MCHrcLibrary`, `MCConsoleTools`, `MCEditorServices` | | grammars, texts, expressions and files for TLC, and the properties of the last five that no theorem states |

`LineStacks` says what an incremental parse promises, whoever does it. Both the
editor (over an abstract grammar) and the parser (over real cache trees) are
shown to implement it: `Incremental == INSTANCE LineStacks WITH ...` maps the
known prefix to `stacks`, and `IsIncrementalParse == Incremental!Spec` is a
property of their runs, and a theorem of each. So the editor's assumption about `parse()` — a line is
coloured from the stack the cache has for it, and the cache learns the stack
after it — is what the parser model provides.

### Correspondence

* In `BaseEditor` the variable `pred` is what `searchLine` would find for each
  line; `EndParse` gives up what lies below the range of an update, as
  `dropNext`/`dropChildren` do. `Plan` is the part of `validate` that decides
  window, ring, range and mode; it is evaluated with `wStart` as it was before
  the window moves, as the code does. The host's edit and its announcement are
  separate steps (`unannounced`).
* In `TextParser` a line is a sequence of tokens, and what the regexps of the
  HRC file match is given by constants (`Starts`, `Ends`, `Wide`). `Levels` holds
  what of a start the rest of the parse depends on: block, place, text, and the
  text `\y` refers to. A tree node is a `ParseCache` object; freed nodes leave the
  domain of `tree`, so a pointer to a freed node is a pointer outside of it.

* In `SchemeSearch` the search itself is sequential code without interruption and
  therefore one operator, `searchMatch`, that carries `vtlist` along. When it finds
  a block, the functions on the stack (`searchIN` inside `searchIN` inside ...)
  have not returned yet: what each of them will undo is the `undo` of the result,
  kept in `frames` until the block is left or `parse()` returns. A line is an
  explicit step (`GetLine`) so that loading, interrupting and resuming come
  between lines.
* `KeepsEnvironments` is `Abstract!Spec`, where `Abstract == INSTANCE SchemeEnv`
  maps each open block to the tables that would be in force after the frames
  above it have returned, or that its `vcache` holds.

* In `CRegExp` positions, captures and the step budget are the code's. The class
  in brackets is one token that takes any set (`Enum`), which `ClassParser` makes.
* In `ClassParser` the two builds read the same text in the same step; the variable
  part `differs` of a frame remembers which known difference the class has met, and
  `BuildsAgree` is about classes that met none.
* In `HrcLibrary` names are pairs of prefix and name, a text with entities a
  sequence of tokens, of which one does not compile. `LookUp` and `LoadAsked` are
  `qualifyForeignName`, which goes on where it stopped once the type it needed is
  loaded. A reference keeps what it was looked up as (`ref`) and which types were
  still being loaded then (`amid`), for the properties only. A call of a host begins
  when none is under way: that is the library's lock.
* In `ConsoleTools` both stores are told the same, whichever the job uses, so that
  they can be compared at every step.
* In `EditorServices` `unheard` is the first line whose change the outliner was
  not told of; it is no state of the code.

## Runs

| Run | Question | Bounds |
|---|---|---|
| `EditorView` | Painting a window over a text that is edited, scrolled, remapped and parsed in the background: are the parse cache, the ring and what `getLineRegions` returns right? | 6 lines, window of 3 (cover 6, ring 9), 2 changes, lines up to one off the window asked for |
| `EditorConfig` | Two file types, two mappings, `backParse`: does the editor implement `LineStacks`, do only edits and reconfigurations make lines invalid, do idle calls bring the whole text in? | 4 lines, window of 1: the ring of 3 lines wraps; 2 changes; fair |
| `ParserNest` | Nested blocks over lines parsed by calls of every mode and length in any order: is the tree in order and true, is the handler in the right schemes? | 3 lines of 5 contents, the longest in two windows (`maxBlockSize` 2); 1 edit |
| `ParserHere` | Ends that depend on starts, lines parsed in windows, a regexp that runs over an end, `tryParseLine`: does the parser implement `LineStacks`, and does it keep what it may keep? | 2 lines of 6 contents, 2 edits, `maxBlockSize` 1 |
| `ParserLive` | Null lines, `breakParse`, blocks nested too deep, windows of one token: does every call end, and does nothing point to a node that is gone? | 2 lines, 1 edit, `MaxLevel` 2; fair |
| `Search` | File types that embed one another through `<virtual>`, loaded in any order while a text is parsed, interrupted, and parsed on from any line: is what is found what the grammar says there? | 3 lines of 8 contents, 7 schemes in 3 file types, two tables deep |
| `RegExp` | Some thirty expressions, each compiled once and parsed any number of times at every place of short texts: is what is found what the expression means, and are no steps wasted? | 3 groups, 2 named ones, 300 steps |
| `Library` | Ten HRC files that import and name one another, in a catalog and besides it, asked for in any order, some of which cannot be read or throw: what is each name bound to, which type is chosen, does every call return? | 3 calls of a host after the factory's first |
| `LibraryStuck` | What a file that throws leaves behind: refuted, see `findings` | as `Library` |
| `Console` | Command lines over small files with any calls of a parser: do the two stores show the same, is what is written or shown the text? | 4, 3, 2, 1 or no calls by file; 2 keys; rings of 2 lines; screens of 2x1 and 3x3 |
| `EditorServices` | An outliner attached at any time and pair searches from any line, while the text is edited, scrolled, remapped and parsed | 4 lines, window of 1 (cover 2, ring 3), 2 changes, outlines of 3 items when a call comes |
| `ClassParser` | Every class of up to three items in both builds: are the sets the same, and does a meta symbol in a class add what it matches outside of one? | 16 characters: 2 pages of 2 words of 4 bits; 3 items, classes two deep |

Further properties that TLC refutes are checked by naming them in a listed
configuration in place of its own: `VisibleColored` in `EditorView.cfg`, `PairTrue` in
`EditorServices.cfg`, `TypeIsMeant` in `Console.cfg`, `RangeIsRange` and `MetaOnlyAdds`
(as `PROPERTIES`) in `ClassParser.cfg`, and `BudgetSpared` in `RegExp.cfg` with
`Patterns <- MCLoopPatterns`. Others need other constants as well. In `ParserNest.cfg`:
`CacheTrue` with `Blocks = {peek}  Contents <- PeekLines  Tagged = {peek}  Ahead = {peek}`,
`RereadAgrees` with `Blocks = {comment, paren, first}  Contents <- TildeLines
AtStart = {first}`, and `LowContentInBlock` with `Blocks = {comment}  Contents <- LowLines
LowContent = {comment}  Wide = {"esc"}`. In `Search.cfg`: `SubstitutionsKept` with the
definitions of `MCSchemeSearch` that begin with `Swap` and `Bases = {"outer"}`, and
`FirstMatchWins` with those that begin with `List` and `Bases = {"main"}`. The section on
disagreements says what each shows.

The properties:

* `CacheCoherent`, `CacheTrue`: for every line taken for parsed the cache has the
  blocks that a parse of the whole text finds open there.
* `IsIncrementalParse`: the same as a refinement, step by step: results are
  learnt each from the line before, and none is kept that an edit could have changed.
* `RingFresh`, `ShownFresh`: coloured lines in the valid part, and what is
  returned for visible lines, are what text, file type and mapping give now.
* `LookingKeepsValid`, `CatchesUp`: only edits make lines invalid; idle calls
  finish the job.
* `NothingDangles`, `CacheOrdered`: no pointer in tree or stack outlives its node;
  siblings are in order and `searchLine` finds the deepest block from any cursor.
* `HandlerInScheme`, `RereadAgrees`: at every place of every line, in whatever
  call, the handler is in the schemes the text has there.
* `TryAccepts`: `tryParseLine` keeps the text below if the edit changed no block.
* `ParseEnds`: every call returns.
* `FirstMatchWins`: inlined, merged and dispatched nodes, searched binary and by
  first character, find what the plain nodes give in HRC order.
* `ListBalanced`: whatever functions return after a block, no table is left
  behind or hidden.
* `KeepsEnvironments`: scheme and substitutions in every block are those the text
  above prescribes, on a first parse, on one that resumes, and after loading.
* `AgreesWithMeaning`: `parse` finds the preferred way of `RegExpMeaning`, with its
  groups and the moves of `\m` and `\M`, or none, whatever earlier calls left in the
  nodes. `PrefiltersSound`: no fact found at compile time, nor `mayMatch`, says no
  where there is a match. `BudgetSpared`: a parse takes at most two steps for each node
  that the ways of the expression come to, by `RegExpMeaning`, at the places that are
  tried. So the budget is exceeded only by an expression that has very many ways, be it
  by loops in one another (`(a+)+b`), by alternatives that share a text (`(a|aa)+b`) or by
  loops that follow one another (`a*a*a*b`), and then there is no match. It is not used up by
  going round over nothing, nor by what an earlier call left behind.
* `NamesMean`: every reference to a scheme and every region of a node is what its
  name means by the files alone, unless it was looked up amid the load of a type
  that defines it. `AllLinked`: no reference of a loaded type waits. `RegionsNumbered`:
  each region after its parent, none twice. `NothingDangles` (of `ParserFactory`):
  nothing points to a replaced `FileType`.
* `ChosenBest`: the type chosen for a name and a text fits best what is read of the
  text with the limits that type asks for, the first of equals; the choice ends
  unless two types ask for limits. `EveryFileTried`: no file of a catalog keeps
  another from being loaded. `CallsReturn`: every load comes back.
* `CompactIsFlat`: the compact list is sorted, does not overlap, and shows at every
  column what painting the plain one in its order shows. `FlowIsHere`:
  `flowBackground` is in the list of the line being parsed. `OutputIsTheText`,
  `ScreenShowsText`: with the markup taken away the text is left, and the screen
  has the text from its place on, in the color of the last region over it.
* `OutlineTrue`: the outline of the lines the outliner heard of is that of the text.
  `TreePacked`: its tree has each item under the last one above it of less depth.
  `PairRight`: a search that read only valid lines of the cover finds the bracket that
  balances.
* `BuildsAgree`: both builds make the same set of a class. `MetaInClass`: a meta
  symbol in a class adds what it matches outside of one.

Every property has a mutant: a plausible mistake in one mapped definition
that makes TLC refute the property under the run's own configuration.

### Why the bounds are enough

The editor's arithmetic is relative to the window and the ring: 6 lines with a
window of 3 let the window stand above, inside, at the end of and below the
cover, and move by less than, exactly and more than a window; the window of 1
over 4 lines makes the ring wrap. Two changes give an edit during or after a
remap, and two edits one above the other. In the parser 3 lines let a block
begin before, on and after the line a call begins with, and hold a sibling
before and after it; parentheses nest to depth 6 in `ParserNest`. One edit
between arbitrary calls gives each kind of stale cache; `ParserHere` has two.

The grammar of `Search` has every kind of node; an inherit that is inlined until
another file type makes it a virtual target; references replaced once, twice and
not at all, from an inherit and from a block; blocks in replaced schemes that lead
back to the outer one, so that tables are pushed in front of hidden ones; and a
character that is not ASCII and goes past the dispatch slices. With 3 lines a
block may begin on one, end on the next, and be resumed inside on the third
pass. No two adjacent keyword lists of it disagree (those of `ListNodes` do), and no
substitutions lead back to where they began (those of `SwapNodes` do).

`RegExp` has at least one expression for every operator, greedy and not, and pairs
of them where one disturbs the other's memory (a loop in a loop, a loop in an
alternative, a look ahead in a loop, a reference to a group that was tried and
left). Texts have up to three characters, so a loop goes round up to three times,
and is parsed again after a match and after none. Four expressions are given texts of six to
eight as well; with three of them, of which only one has a loop in a loop, such a text takes more
than the 300 steps, while twice what the others have to look at is less than that, so that
these must not run out. `StepsPerVisit` is 2: a turn to come to a node and one to come back. With one, TLC
refutes `BudgetSpared`. Left out of the expressions, since
the code disagrees with the meaning there (see below): a counted group whose body
can match in several ways, an unbounded loop over one that may be empty, an
expression under `i` that begins with a letter that is not ASCII, and `\M` in an
alternative that fails.

`Library` has a cycle of imports, a reference through a block and one through an
inherit, each to a type loaded only then, a package that comes with a file, one of
that file's own name, which throws, names that no type has, two that several have,
a prototype that comes twice, and blocks and keywords that take their regions from
every place they can. Three calls are enough for a load, a change and another load.
Of `ChosenBest`, texts of two lines and limits of one to three make the choice move
once, and go round for ever.

In `Console` regions and blocks overlap in every way that three columns allow; one
mark is empty, the others not. A ring of two lines wraps with the third. Screens of 2x1 and
3x3 are narrower and wider, lower and higher than the texts.

`EditorServices`: four lines and a window of one let a search leave the window and the
cover in both directions and make the ring of three lines wrap, two brackets that open
and two that close let a search pass an inner pair. `backParse` stays off (it is in
`EditorConfig`).

Classes of `ClassParser` are made of two full words, parts of words and empty ones
on each page, so all cases of `BitArray` come up; three items let an operation
follow a union, and an item follow an operation.

### Fairness

`EditorConfig` assumes that a parse runs on (`WF` of `Parser`: the loop is
sequential code of one thread), that an edit made is announced (`WF` of
`Announce`), and that idle time comes back again and again (`SF` of `IdleJob`,
since other calls may come between). `ParserLive` assumes only the first.
`Library` assumes that a load runs on (`WF` of its steps: one thread, holding the
lock). None assumes anything about what hosts do, which the bounds make stop.

## Proofs

Every theorem is about the specification TLC runs, for every value of the
constants. The only assumptions are those the modules state of their constants
and TLC evaluates on each run, and, for three theorems about what the ring
serves, `OneSize` or `Near`, and for those about what the parser's cache holds, `Plain` and
no step that `Disturbs` (below). In all, the inductive invariant is what the property lacks:
what holds in the middle of a call, or of lines the property is silent about.

### The editor: `BaseEditor_proofs`

From `LinesAssumption`, `GrammarAssumption` and `WindowAssumption`: constants are
numbers and sets of the right kind, `Scan` is total, `Root` is a state.

* `TypeCorrect`: `Spec => []TypeOK`.
* `CacheCorrect`: `Spec => []CacheCoherent`.
* `Refinement`: `Spec => IsIncrementalParse`.
* `Monotone`: `Spec => LookingKeepsValid`.
* `CoverIsFresh`: `OneSize`, `Spec => []RingFresh`.
* `ShownIsFresh`: `Near`, `Spec => []ShownFresh`.

`CacheCoherent` is not inductive: it says nothing about the lines after an edit
not yet announced, which `modifyLineEvent` may take back into the valid part, nor
about a parse in progress. The invariant behind the first four is
`IInv == TypeOK /\ EditsOK /\ StrongCoherent /\ JobCoherent`. `StrongCoherent`: the
cache is right for every line before `invalidLine` whose text the edit has not
moved or changed, those after it too. `JobCoherent`: a job runs only while every
edit is announced and is not past its stop; one that updates the cache has
come to `invalidLine` or further, carries the stack the cache has for its line, and the
cache is right for all the lines above. With them each action is a case: `ParseLine` extends the coherent
prefix by one line, `EndParse` takes it over into `invalidLine`,
`ModifyLineEvent` keeps it because the prediction it compares with is itself the
end of a coherent prefix or is recomputed, and an edit is covered by the line it
will be announced for. `Invariance` is the theorem; `Refinement` maps `ParseLine` and
`EndParse` of an update to stutter and `Learn`, handlers to `Forget`, edits to
`Change`, `SetFileType` to `Retype`.

The ring needs two more. `RingInv`: it is right, for the stacks the cache has, of
every line that the window, its cover and `invalidLine` still vouch for; the slot of
a line, `l % lrSize`, does not depend on where the ring begins, so turning it moves
nothing. `ShownInv`: what a parse in progress carries is the state of the whole text,
and the lines asked for lie where it will have coloured them. `OneSize`
says that the host keeps the size of its window, `Near` also that it asks at
most one line beyond it. Both are needed: `validate` repaints nothing after a
resize within the ring, and decides what to parse for the window as it was; with
`WindowSizes` of two members or `Reach = 2` TLC refutes the properties.

### The services beside the editor: `EditorServices_proofs`

From the same assumptions and `CallsAssumption`, `DepthAssumption`: a line makes the
calls of its state and text, and enters and leaves as many blocks as its stack gains and
loses.

* `OutlineIsTrue`: `ServicesSpec => []OutlineTrue`.
* `TreeIsPacked`: `ServicesSpec => []TreePacked`.
* `PairIsRight`: `OneSize`, `ServicesSpec => []PairRight`.

`OutlineTrue` speaks of the lines that both the editor and the outliner hold valid,
while the editor is at rest. The invariant, `OutlineInv` (`OutlineInvariance`), says which
items there may be at any time. `Taken`: of a line whose change the outliner was told of
it has only items the line has, and all of them once a parse is past the line.
`Behind`: lines the editor has taken for valid without it, it has still to take, or it
was not told that they changed. `Ordered` and `Above`: items come in the order of the
lines, none where the next parse would take it again. `Level`, `Carried`: a parse is at the
level, and carries the state, the text above gives. `ServicesSpec` does not imply the
editor's `Spec`, since a search asks for lines anywhere; so `IInv` is carried along
again. What a line adds is proved from the table of a fold: `FoldTable` of
`SequenceLemmas` says that the table the community modules choose exists, and that it is
what the calls make of the outliner, one after the other (`LineParsedIs`, `HeardNext`).
`TreeIsPacked` is proved the same way: `manageTree`'s stack rises, and holds the levels
of those items that are lower than all since (`Stacks`, `StacksNext`), as many as there
are (`StacksCount`).

`PairRight` speaks of a search that is over; its invariant, `PairInv` (`PairInvariance`),
of one under way. `Walked`: the brackets from the first to the place reached are known
(`Upto`), their excess is `pairBalance`, and with none of them has it been zero before;
a region passed adds one bracket or none (`PassStep`), an empty line or the edge of a
line none (`Crossed`, `LineLeft`). `Asking`: the line being parsed for is the one the
search asked for, and, when the editor is at rest and holds the line valid, what came
is what the ring has of it. `RingInv`, carried over to all steps of the services
(`RingServicesNext`), makes that the line as a parse of the whole text colours it
(`TrustedRead`); hence `OneSize`. `Blank`: an editor without a grammar has coloured nothing, so that a
line that has regions has a grammar behind them. That the first place at which the
excess is zero is the bracket `Match` chooses is `SearchOver` and `MatchIs`.

### The parser and its cache: `ParseCache_proofs`, `TextParser_proofs`, `CacheLevels_proofs`

From `BoundsAssumption`, `TokensAssumption`, `BlocksAssumption` and `TopAssumption`.

* `TypeCorrect`: `Spec => []TypeOK` (of `TextParser`).
* `NoneDangles`: `Spec => []NothingDangles`.
* `Ordering`: `Spec => []CacheOrdered`.

With `Plain`, and as long as no step `Disturbs` (both below):

* `CacheIsRight`: `Spec /\ [][~Disturbs]_vars => []CacheTrue`.
* `HandlerIsRight`: the same for `HandlerInScheme`.
* `RereadIsRight`: the same for `RereadAgrees`.
* `TryIsRight`: the same for `TryAccepts`.
* `ParserRefines`: `Spec /\ [][~Disturbs]_vars => IsIncrementalParse`.

`ParseCache_proofs` says once of every tree what deleting, appending, closing and
searching do to it. Its recursive functions are unfolded by induction over the rank
of a node, its distance from the root. The invariant of `TextParser_proofs`, `IInv`,
is about the C++ stack: while the cache is rebuilt, the activations of `colorize`
stand along the right edge of the tree, each on the last child of the one before
(`Standing`, `Spine`), and that edge is all that `dropNext`, `dropChildren` and
`searchBL` ever cut; so no activation is left on a node that is freed.
`OInv` adds the order: between calls the children of every node are in order
and within it; during a call that rebuilds, all but the nodes around the place
reached are, what is before that place has ended by it, and what it is in has begun.
From the order follows what `searchLine` finds (`DeepestFound`), wherever the cursors
stand.

`CacheLevels_proofs` is about the text. The reference is `TrueLevels`, a parse of the
whole text token by token; the invariant is `FInv` (theorem `TextInvariant`), on top of
`IInv` and `OInv`:

* What a line does to the levels depends on the block, the tag and the place of each,
  and on nothing else (`Sig`, `AfterTokenIs`, `ScanToIs`); so `Stack(text, l)` is a
  function of the text above line l, and an edit leaves it as it was up to its line
  (`EditAbove`).
* `Rebuilt`: while an update runs, of the nodes over a line done, open or closed, the
  last has the levels of the text there (`Tips`). When it is over that is what
  `searchLine` finds (`RisenTrue`). A block that is opened, closed, or taken out again
  because it lies in one line changes this for the lines after it began only
  (`TipsGrown`, `TipsLine`, `TipsTrimmed`).
* `LevelsAgree`: the levels the activations of `colorize` carry are those of the nodes
  they stand on, and what a call that does not rebuild has of its own is on its frames.
* `Cached`: the tree is right for the lines known, when no update runs. `TrySame`: while a
  line is tried, what was known below follows from the levels that were expected after it,
  so that accepting the line gives all of it back; `TryCounts`: the levels `tryStack`
  counts are those the parse is in.
* `Follows`: at `gx` the parse is in the levels the text has there, the handler in their
  schemes, and where a block ends is known from `matchend` (`Seen`), also by the
  activations that wait for one below them (`Waits`). `Turn`: where the loop is.

Each action has a lemma (`StartLineTrue`, `MatchBlockTrue`, ...). For the refinement the state
of `LineStacks` has blocks and tags without places: two scans of a line that begin alike
in these stay so (`Twins`, `ScanMeans`).

`Plain` is what of the grammar has to be so, `Disturbs` what of a run must not happen.
They are not there for the prover: without any one of them `CacheTrue` fails, and TLC shows it
on a text of two lines, with the constants of `ParserNest` but for those named.

| Without | | `CacheTrue` is refuted with |
|---|---|---|
| `Ahead = {}` | an end-RE that looks past what it takes: what it saw can change on its own | `PeekLines`, `Ahead` = `Tagged` = `Blocks` = `{peek}` |
| `AtStart = {}` | `~`: `schemeStart` is a column, and is not kept over a block of many lines | `TildeLines`, `Blocks = {comment, paren, first}`, `AtStart = {first}` |
| `LowContent = {}` | content of a low-priority block that runs over its end | `LowLines`, `Blocks` = `LowContent` = `{comment}`, `Wide = {"esc"}` |
| `maxBlockSize >= 2`, or nothing `Wide` | a regexp that starts at the last place of a window of one token is not tried | texts of `<<")", "esc", "/*">>` and `<<"*/">>`, `Blocks = {comment}`, `Wide = {"esc"}`, `maxBlockSize = 1`, `chunkLongLines = TRUE` |
| `chunkLongLines`, or lines no longer than `maxBlockSize` | the rest of the line is not parsed | texts of `<<")", ")", ")", "/*">>` and `<<"*/">>`, `Blocks = {comment}`, `maxBlockSize = 1`, `chunkLongLines = FALSE` |
| no `BreakParse` | the line broken off counts as parsed | `Breaks = TRUE` |
| no `NullLine` | the blocks open are closed there | `Vanishes = TRUE` |
| no `MatchBlock` with `stackLevel > MaxLevel` | what is too deep depends on where the call goes on from | `MaxLevel = 1` |

The constants of `ParserNest` are plain, and nothing disturbs there. `ParserHere` has
windows of one token: it shows more than `ParserRefines` and `TryIsRight` say, for lines in which
no window ends before what a regexp takes.

### The library: `HrcLibrary_proofs`

From `FilesAssumption`: a file is a finite list of elements with names.

* `TypeCorrect`: `Spec => []TypeOK` (of `ParserFactory`).
* `Numbered`: `Spec => []RegionsNumbered`.
* `NoneDangles`: `Spec => []NothingDangles`.

The invariant `Inv` (theorem `Invariant`) is about the stack of nested loads. Each frame
is of a type that is marked as being loaded or parsed (`FlagsOK`), no two frames load one
type, and what each puts back when it ends is a context in which the stack below it is
right (`StackInv`). So a type that a frame or a scheme points to is never replaced under
it, and a load that throws leaves what it found. `StackAppend` says this of one frame more,
`Kept` of a change of types that keeps the flags; with them each action is a frame
that is put on, goes on or ends.

### Tables of virtual schemes: `VTList_proofs`

For tables and lists of any length, a call that is undone leaves the list as it found
it, nodes that are out of force included:

* `PopUndoesPush`, `PushAppends`: an inherit puts its table innermost, and takes
  that one off again.
* `PopvirtUndoesPushvirt`: wherever a reference was replaced, leaving it brings
  back the tables that were hidden. `Clean` is what it needs: no table in force
  carries a `shadow_last` of an earlier call, and each call keeps that so.
* `RestoreGivesStored`: a parse that resumes in a block has the tables in force
  that the block stored.

### Only model-checked

* Liveness under fairness, which is out of the prover's reach: `CatchesUp`, `ParseEnds`,
  `CallsReturn`.
* Of the parser, what becomes of a cache after a parse that was broken off or a null line:
  only that nothing dangles and that the tree is in order is proved of these.
* Of the library, `AllLinked`, which does not hold for every file (a nested load that
  throws leaves references of other types untried), and `NamesMean`, `ChosenBest`,
  `EveryFileTried`, whose reference definitions recurse over the files.
* The search in schemes, regular expressions, classes and the console tools. Their
  modules define recursive operators over trees and texts; with one in reach the prover
  loses its arithmetic, and what they compute is shown by induction over data.

## Not modelled

* In `TextParser`: the kinds of nodes, which are in `SchemeSearch`; regexps that
  match nothing (except a block too deep); and what a regexp matches: `Starts`, `Ends` and `Wide` stand for it. In the
  grammars checked at most one start matches at a place. Tokens are not cut at
  the edge of a window.
* In `SchemeSearch`: a start, an end and a regexp take one character; a block of
  length zero is in `TextParser` only. The cache `startCache` of
  `schemeCanStartWith`, which can only add nodes to a slice. Cyclic inherits, which
  HRC does not allow and no search would end in. Several keywords of a list that
  are equal but for region or kind, of which only one is ever tried.
* A `breakParse` before `parse()` resets the flag: it is lost, as in the code.
* Locks: the models have one client thread and, in `ParserLive`, a thread that
  only calls `breakParse`.
* In `CRegExp`: the text of an expression is tokens; the stack of the matcher has no
  limit; which Unicode characters are letters is a constant.
* In `HrcLibrary` and `ParserFactory`: what XML says is given as elements; external
  entities of XML and `jar:` locations are part of `Leads`. The priority and other
  attributes of a node, which do not bear on what a name is, are left out.
* In `ConsoleTools`: the colors a Windows console has, timing and the words of
  messages; of a parser, which regions a grammar gives (any may come).
* `FileType` parameters are texts; of numbers only small ones are read.
* The XML reader, input sources, strings and encodings, logging: input, output and
  data types. Writing a mapping to a file.
* Vendored code: the filesystem polyfill, `spimpl.h`, the tables of characters.

## Disagreements met while modelling

With a run, quoted under `findings`: a file that throws leaves `updateStarted` set,
and no later type is linked (`LibraryStuck`).

With a configuration or a property that is refuted in one:

* `VisibleColored`: scrolling up by one window after an edit shows stale lines.
* `PairTrue` (`BaseEditor.cpp:440`, `BaseEditor.h:168-170`): a pair search reads the
  line at `wStart + wSize`, just off the window, as it was before an edit, since the
  range to parse is computed before the window moves; so does a host that asks for it.
  A line that is valid, but lies beyond the cover, comes back as its slot of the ring
  happens to be: that of another line, or nothing. `PairRight` is therefore about
  searches that read lines of the cover.
* `CacheTrue` with `PeekLines`: an edit in what an end-RE only looks at. `RereadAgrees`
  with `TildeLines`: `~` after a block of many lines. `LowContentInBlock`: content of a
  low-priority block that runs over its end.
* `SubstitutionsKept`: substitutions that lead back to the scheme they started from.
  `FirstMatchWins` with `ListNodes`: adjacent keyword lists.
* `BudgetSpared` with `MCLoopPatterns`: `((b)?)*.` on `b`, a loop over something that may be
  empty, goes round on one character until the budget is used up, of 300 or 20000 steps.
* `TypeIsMeant` (`ConsoleTools.cpp:242-249`): a type asked for by the beginning of its
  name is any whose name does not begin so: the comparison is inverted.
* `RangeIsRange` (`BitArray.cpp:59`, `BitArray.h:37`): in the legacy build a range that
  starts at the first bit of a word and ends within it takes the whole word, as
  `[@-B]`.
* `MetaOnlyAdds` (`UStr.cpp:118-136`): in the ICU build `[\s\S]` loses tab and line ends
  and `[\w\W]` loses `_`.

Without one, about the editor and the parser:

* `BaseEditor.cpp:462`: a window that grows within the ring shows lines that were
  never coloured when they lie in the valid part (`WindowSizes = {1, 2}` refutes
  `ShownFresh`).
* `TextParserImpl.cpp:600`: a null line in the middle of a parse records the open
  blocks as closed there, and the line counts as parsed (`Vanishes = TRUE` refutes
  `CacheTrue`).
* `TextParserImpl.cpp:645`: a parse broken off in the middle of a line counts the
  line as parsed (`Breaks = TRUE` refutes `CacheTrue`).
* `TextParserImpl.cpp:102`: the depth allowed to blocks counts from the place a
  call goes on from, so what is too deep depends on the calls (`MaxLevel = 1`
  refutes `RereadAgrees`).

* `BaseEditor.cpp:185`: two types that ask for different limits, each chosen under the
  other's, make the choice of a type recurse for ever; with no type at all it reads
  through a null pointer.
* `Outliner.cpp:69`: an outliner takes a line twice when a parse ends with the line
  that is next to be taken, as a parse of one line does. It is not told of changes
  by `modifyLineEvent` and `setFileType`, nor by `modifyEvent` when the cache is
  already known to be invalid above (`BaseEditor.cpp:362-383`), and one attached
  late never gets the lines above.
* `TextParserImpl.cpp:200`: on entering a line in the middle of blocks the handler is
  given the innermost scheme for each of the blocks.

About the library and the factory:

* An exception of a nested load while references are looked up leaves new schemes
  unlinked. Names looked up while the type that defines them is being loaded are not
  found, so cyclic imports bind by order (`NamesMean` names the exception).
* `HrcLibraryImpl.cpp:172-183`: the number of a choice counts types that do not fit.
* `HrcLibraryImpl.cpp:318-325`: a prototype that comes again with a location that leads
  nowhere removes the good one. A `FileType` a host holds dangles when it is replaced.
* `if` and `unless` of a scheme are decided when it is loaded; a parameter changed
  later does not count.
* `HrcLibrary.cpp:63`: `getRegion` takes the lock that a parse of the same thread may hold.
* `loadCatalog` changes the path files are relative to before it knows that the
  catalog can be read.
* `RegionMapper.cpp:14`: the cache keeps pointers to definitions that
  `setRegionDefine` frees.

About expressions and classes:

* `(a|ab){2}c` matches `abc`, which has one round only. Groups set in an alternative that failed stay set. Under `i` an expression that begins
  with the Kelvin sign misses `k`. `(?` at the end of an expression is read past it
  (`cregexp.cpp:992`). A search that moves on tries `~` at its first place only.
* Ranges and categories of a class do not become larger under `i`. Reversed ranges set
  bits of their own in the legacy build; `[a-c-f]` is a range from `a`. After one
  unknown category of the ICU build the later ones are empty. In the legacy build
  `{UNASSIGNED}` forgets what the class held, and `{C}`, `{Cn}` lack the unassigned.
  `hrc-ref.md:172` writes intersection as `|[`, the code reads `&&[`; `hrc-ref.md:175`
  calls `\l` "not upper", the code takes lower case.

About the console:

* `-ld` without `-t`, or with a text HRD, reads through a null pointer; a negative `-p`
  never ends; `-cs`, `-cu`, `-cd` at the end of a command line read past it. A background
  without a definition lets the regions before it show through.

## Plan

1. Whether an update from above the place of a broken parse makes the cache right again, with
   the theorems of `CacheLevels_proofs` for the lines above it.
2. That a store of `LineRegions` keeps `flowBackground` in its list; lemmas about
   `BitArray`: each operation does to the set of bits what it says.
3. On `VTList_proofs`: that nested calls of any depth on one list implement a
   stack of environments, from its four theorems.
4. Reading of locations and shared input sources, with the library above it.
