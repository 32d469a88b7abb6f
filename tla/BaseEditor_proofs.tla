-------------------------- MODULE BaseEditor_proofs --------------------------
(***************************************************************************)
(* The editor's parse cache, for every text length, grammar, window and    *)
(* host: type correctness, the coherence of the cache with the text, and   *)
(* the implementation of LineStacks.  Then its coloured lines: the ring    *)
(* and what getLineRegions returns of it, for windows of one size.         *)
(***************************************************************************)
EXTENDS BaseEditor, SequenceLemmas, TLAPS

(* While an edit of one line is unannounced the predictions of the lines   *)
(* below it stay right: modifyLineEvent may take them back into the valid  *)
(* part.  This is what CacheCoherent lacks to be inductive.                *)
Untouched(l) ==
  \/ l < unannounced.at
  \/ unannounced.edit = "line" /\ l # unannounced.at

StrongCoherent ==
  /\ pred[0] = Root
  /\ grammar # NoGrammar =>
       \A l \in Lines : l < invalidLine /\ Untouched(l) => Predicted(l)

(* A parse in progress starts no lower than the invalid part, and carries  *)
(* the stack the cache has for its line when it updates the cache.         *)
JobCoherent ==
  ~Idle =>
    /\ grammar # NoGrammar /\ unannounced = Announced
    /\ job.line <= job.stop
    /\ job.mode = "update" =>
         /\ invalidLine <= job.line
         /\ job.state = pred[job.line]
         /\ \A l \in Lines : l < job.line => Predicted(l)

EditsOK == unannounced.edit = "none" => unannounced = Announced

IInv == TypeOK /\ EditsOK /\ StrongCoherent /\ JobCoherent

USE LinesAssumption, GrammarAssumption, WindowAssumption

-----------------------------------------------------------------------------
(* Lemmas on the operators of the model.                                   *)

LEMMA NoneIsNoRegions == None \notin Regions
BY DEF None, Regions

(* A scan of any line from any stack is a stack.                           *)
LEMMA ScanType ==
  ASSUME TypeOK, grammar # NoGrammar, NEW s \in States, NEW l \in Lines
  PROVE  Scan[grammar][<<s, text[l]>>] \in States
BY DEF TypeOK, Lines

(* Colours are regions, and a ring stays a ring when a line is coloured.   *)
LEMMA RingAfterType ==
  ASSUME TypeOK, grammar # NoGrammar, NEW s \in States, NEW l \in Lines
  PROVE  RingAfter(l, s) \in [0 .. lrSize - 1 -> Regions \cup {None}]
<1>1. Colored(l, s) \in Regions
  BY DEF Colored, Regions, TypeOK
<1>. QED
  BY <1>1 DEF RingAfter, TypeOK

(* getLineIndex is a slot of the ring.                                     *)
LEMMA SlotRange ==
  ASSUME NEW f \in Nat, NEW n \in Nat \ {0}, NEW l \in Int
  PROVE  ((f % n) + l - f) % n \in 0 .. n - 1
<1>1. (f % n) \in Int
  OBVIOUS
<1>. QED
  BY <1>1

(* What the ring serves for a line is the regions of a line, or null.      *)
LEMMA LineRegionsType ==
  ASSUME NEW l \in Int, lrSize \in Nat \ {0}, firstLine \in Nat,
         ring \in [0 .. lrSize - 1 -> Regions \cup {None}]
  PROVE  LineRegionsOf(l) \in Regions \cup {None}
<1>1. getLineIndex(l) \in 0 .. lrSize - 1
  BY SlotRange DEF getLineIndex
<1>. QED
  BY <1>1 DEF LineRegionsOf

(* validate moves window and ring to places that exist and parses lines of *)
(* the text; an update starts at the first invalid line, and a read above. *)
LEMMA PlanType ==
  ASSUME TypeOK, lineCount \in Nat \ {0}, NEW lno \in -1 .. MaxLines
  PROVE  /\ Plan(lno).top \in LineStarts
         /\ Plan(lno).size \in Nat \ {0}
         /\ ~Plan(lno).grow => Plan(lno).size = lrSize
         /\ Plan(lno).first \in Nat
         /\ Plan(lno).from \in Nat
         /\ Plan(lno).to \in Int /\ Plan(lno).to <= lineCount
         /\ Plan(lno).mode \in {"read", "update"}
         /\ Plan(lno).mode = "update" => Plan(lno).from = invalidLine
<1> DEFINE line   == IF lno = -1 \/ lno > lineCount THEN lineCount - 1 ELSE lno
           w      == regionWindow(wSize)
           cover  == regionCoverLines(wSize)
           grow   == lrSize < cover
           top    == IF line < wStart \/ line > wStart + wSize THEN line ELSE wStart
           move   == grow \/ top < firstLine \/ top + wSize > firstLine + cover
           first  == IF move THEN (top \div w) * w ELSE firstLine
           oneUp  == ~grow /\ firstLine - first = w
           from   == IF move THEN first ELSE wStart + wSize
           to     == IF move THEN first + cover - (IF oneUp THEN w - 1 ELSE 0)
                     ELSE IF invalidLine = 0 THEN firstLine + cover ELSE wStart + wSize
           update == (~move /\ invalidLine <= to) \/ invalidLine <= from
<1>1. Plan(lno) =
        [top |-> top, grow |-> grow,
         size |-> IF grow THEN regionBufferLines(wSize) ELSE lrSize,
         first |-> first, from |-> IF update THEN invalidLine ELSE from,
         to |-> Smaller(to, lineCount), mode |-> IF update THEN "update" ELSE "read"]
  BY DEF Plan
<1>2. /\ lineCount \in Nat /\ lineCount <= MaxLines /\ invalidLine \in Nat
      /\ wStart \in Nat /\ wStart <= MaxLines /\ wSize \in Nat
      /\ lrSize \in Nat \ {0} /\ firstLine \in Nat
  BY DEF TypeOK, LineStarts
<1>3. line \in LineStarts
  BY <1>2 DEF LineStarts
<1>4. w \in Nat \ {0} /\ cover \in Nat /\ regionBufferLines(wSize) \in Nat \ {0}
  BY <1>2 DEF regionWindow, regionCoverLines, regionBufferLines
<1>5. top \in LineStarts /\ top \in Nat
  BY <1>2, <1>3 DEF LineStarts
<1>6. first \in Nat
  <2>1. top \div w \in Nat
    BY <1>4, <1>5
  <2>2. \A x, y \in Nat : x * y \in Nat
    OBVIOUS
  <2>3. (top \div w) * w \in Nat
    BY <1>4, <2>1, <2>2
  <2>. QED
    BY <1>2, <2>3
<1>7. from \in Nat /\ to \in Int
  <2>. HIDE DEF first, w, cover, move, oneUp
  <2>1. from \in Nat
    BY <1>2, <1>6
  <2>. QED
    BY <1>2, <1>4, <1>6, <2>1
<1>8. Smaller(to, lineCount) \in Int /\ Smaller(to, lineCount) <= lineCount
  BY <1>2, <1>7 DEF Smaller
<1>. HIDE DEF line, w, cover, grow, top, move, first, oneUp, from, to, update
<1>. QED
  BY <1>1, <1>2, <1>4, <1>5, <1>6, <1>7, <1>8
-----------------------------------------------------------------------------
(* Each action preserves IInv.                                             *)

LEMMA StartParseJob ==
  ASSUME IInv, Ready, grammar # NoGrammar, NEW from \in Nat, NEW to \in Int, from < to,
         to <= lineCount, NEW mode \in {"read", "update"}, NEW asked \in NotAsked .. MaxLines,
         mode = "update" => from = invalidLine,
         job' = [mode |-> mode, line |-> from, stop |-> to, state |-> pred[from],
                 asked |-> asked],
         UNCHANGED <<hostVars, grammar, invalidLine, pred>>
  PROVE  job' \in Jobs /\ JobCoherent'
<1>1. from \in LineStarts /\ to \in LineStarts
  BY DEF IInv, TypeOK, LineStarts
<1>2. job' \in Jobs
  BY <1>1 DEF IInv, TypeOK, Jobs
<1>3. \A l \in Lines : l < invalidLine => Predicted(l)
  BY LinesAssumption DEF IInv, StrongCoherent, Untouched, Ready, Announced, Lines
<1>4. JobCoherent'
  BY <1>3, <1>1 DEF JobCoherent, Idle, Ready, hostVars, Predicted, Lines, IInv, TypeOK, LineStarts
<1>. QED
  BY <1>2, <1>4

LEMMA StartParseStep ==
  ASSUME IInv, Ready, NEW plan, plan.from \in Nat, plan.to \in Int, plan.to <= lineCount,
         plan.mode \in {"read", "update"}, plan.mode = "update" => plan.from = invalidLine,
         NEW asked \in NotAsked .. MaxLines,
         StartParse(plan, asked),
         UNCHANGED <<hostVars, changes, grammar, mapper, lineCount, backParse, wSize, pred>>,
         wStart' \in LineStarts, lrSize' \in Nat \ {0}, firstLine' \in Nat,
         ring' \in [0 .. lrSize' - 1 -> Regions \cup {None}]
  PROVE  IInv'
<1>1. /\ UNCHANGED <<text, docLines, unannounced>>
      /\ lineCount \in Nat /\ lineCount <= MaxLines
  BY DEF hostVars, IInv, TypeOK, LineStarts
<1>2. CASE plan.from < plan.to /\ grammar # NoGrammar
  <2>1. /\ job' = [mode |-> plan.mode, line |-> plan.from, stop |-> plan.to,
                   state |-> pred[plan.from], asked |-> asked]
        /\ shown' = None /\ invalidLine' = invalidLine
    BY <1>2 DEF StartParse
  <2>2. job' \in Jobs /\ JobCoherent'
    BY <1>2, <2>1, StartParseJob
  <2>3. TypeOK'
    BY <1>1, <2>1, <2>2 DEF IInv, TypeOK, Lines
  <2>4. EditsOK' /\ StrongCoherent'
    BY <1>1, <2>1 DEF IInv, EditsOK, StrongCoherent, Untouched, Predicted, Announced, Lines
  <2>. QED
    BY <2>2, <2>3, <2>4 DEF IInv
<1>3. CASE ~(plan.from < plan.to /\ grammar # NoGrammar)
  <2>1. /\ invalidLine' = (IF plan.from < plan.to /\ plan.mode = "update"
                           THEN plan.from + 1 ELSE invalidLine)
        /\ shown' = Returned(asked, LineRegionsOf(asked)')
        /\ job' = job
        /\ grammar = NoGrammar \/ ~(plan.from < plan.to)
    BY <1>3 DEF StartParse
  <2>2. invalidLine' \in LineStarts
    <3>1. invalidLine \in LineStarts
      BY DEF IInv, TypeOK
    <3>2. plan.from < plan.to => plan.from + 1 \in 0 .. MaxLines
      BY <1>1
    <3>. QED
      BY <2>1, <3>1, <3>2 DEF LineStarts
  <2>3. LineRegionsOf(asked)' \in Regions \cup {None}
    <3>1. asked \in Int
      BY DEF NotAsked
    <3>2. ((firstLine' % lrSize') + asked - firstLine') % lrSize' \in 0 .. lrSize' - 1
      BY <3>1, SlotRange
    <3>. QED
      BY <3>2 DEF LineRegionsOf, getLineIndex
  <2>4. shown' \in [line : -1 .. MaxLines, regions : Regions \cup {None}] \cup {None}
    BY <2>1, <2>3 DEF Returned, NotAsked
  <2>5. TypeOK'
    BY <1>1, <2>1, <2>2, <2>4 DEF IInv, TypeOK, Lines
  <2>6. EditsOK' /\ StrongCoherent'
    BY <1>1, <2>1 DEF IInv, EditsOK, StrongCoherent, Untouched, Predicted, Announced, Lines
  <2>7. JobCoherent'
    BY <2>1 DEF JobCoherent, Ready, Idle
  <2>. QED
    BY <2>5, <2>6, <2>7 DEF IInv
<1>. QED
  BY <1>2, <1>3

LEMMA RebuildStep ==
  ASSUME IInv, Ready, NEW lno \in -1 .. MaxLines, NEW asked \in NotAsked .. MaxLines,
         Rebuild(lno, asked)
  PROVE  IInv'
<1>. DEFINE plan == Plan(lno)
<1>1. TypeOK /\ lineCount \in Nat \ {0}
  BY DEF IInv, Ready, TypeOK
<1>2. /\ plan.top \in LineStarts /\ plan.size \in Nat \ {0}
      /\ ~plan.grow => plan.size = lrSize
      /\ plan.first \in Nat /\ plan.from \in Nat
      /\ plan.to \in Int /\ plan.to <= lineCount
      /\ plan.mode \in {"read", "update"}
      /\ plan.mode = "update" => plan.from = invalidLine
  BY <1>1, PlanType
<1>3. /\ wStart' = plan.top /\ lrSize' = plan.size /\ firstLine' = plan.first
      /\ ring' = IF plan.grow THEN EmptyRing(plan.size) ELSE ring
      /\ StartParse(plan, asked)
      /\ UNCHANGED <<hostVars, changes, grammar, mapper, lineCount, backParse, wSize, pred>>
  BY DEF Rebuild
<1>. HIDE DEF plan
<1>4. ring' \in [0 .. lrSize' - 1 -> Regions \cup {None}]
  BY <1>1, <1>2, <1>3 DEF EmptyRing, TypeOK
<1>. QED
  BY <1>2, <1>3, <1>4, StartParseStep

LEMMA ValidateStep ==
  ASSUME IInv, NEW lno \in Int, Validate(lno, FALSE)
  PROVE  IInv'
<1>1. TypeOK /\ lineCount \in Nat /\ Ready
  BY DEF IInv, Validate, TypeOK, LineStarts
<1>. DEFINE plan == CachePlan(lno)
<1>2. /\ plan.from = invalidLine /\ plan.mode = "update"
      /\ plan.to \in Int /\ plan.to <= lineCount
  BY <1>1 DEF CachePlan, Smaller
<1>3. /\ StartParse(plan, NotAsked)
      /\ UNCHANGED <<hostVars, changes, grammar, mapper, lineCount, backParse,
                     wStart, wSize, firstLine, ring, lrSize, pred>>
  BY DEF Validate, windowVars, ringVars
<1>. HIDE DEF plan
<1>4. plan.from \in Nat
  BY <1>1, <1>2 DEF TypeOK, LineStarts
<1>5. /\ wStart' \in LineStarts /\ lrSize' \in Nat \ {0} /\ firstLine' \in Nat
      /\ ring' \in [0 .. lrSize' - 1 -> Regions \cup {None}]
  BY <1>1, <1>3 DEF TypeOK
<1>6. NotAsked \in NotAsked .. MaxLines
  BY DEF NotAsked
<1>. QED
  BY <1>1, <1>2, <1>3, <1>4, <1>5, <1>6, StartParseStep

LEMMA GetLineRegionsStep ==
  ASSUME IInv, NEW lno \in -1 .. MaxLines, GetLineRegions(lno)
  PROVE  IInv'
<1>1. CASE backParse > 0 /\ lno - invalidLine > backParse
  <2>1. /\ shown' = Returned(lno, None)
        /\ UNCHANGED <<text, docLines, unannounced, changes, grammar, mapper, lineCount,
                       invalidLine, backParse, wStart, wSize, firstLine, ring, lrSize, pred, job>>
    BY <1>1 DEF GetLineRegions, hostVars, windowVars, ringVars
  <2>2. shown' \in [line : -1 .. MaxLines, regions : Regions \cup {None}] \cup {None}
    BY <2>1 DEF Returned
  <2>3. TypeOK'
    BY <2>1, <2>2 DEF IInv, TypeOK, Lines
  <2>. QED
    BY <2>1, <2>3 DEF IInv, EditsOK, StrongCoherent, JobCoherent, Untouched, Predicted, Idle,
                      Announced, Lines
<1>2. CASE ~(backParse > 0 /\ lno - invalidLine > backParse)
  <2>1. Ready /\ Rebuild(lno, lno) /\ lno \in NotAsked .. MaxLines
    BY <1>2 DEF GetLineRegions, NotAsked
  <2>. QED
    BY <2>1, RebuildStep
<1>. QED
  BY <1>1, <1>2

LEMMA ModifyEventStep ==
  ASSUME IInv, NEW topLine \in Lines, ModifyEvent(topLine)
  PROVE  IInv'
<1>1. /\ Idle /\ topLine <= unannounced.at
      /\ invalidLine' = Smaller(invalidLine, topLine)
      /\ unannounced' = Announced /\ shown' = None
      /\ UNCHANGED <<text, docLines, changes, grammar, mapper, lineCount, backParse,
                     wStart, wSize, firstLine, ring, lrSize, pred, job>>
  BY DEF ModifyEvent, windowVars, ringVars
<1>2. invalidLine' \in LineStarts /\ \A l \in Lines : l < invalidLine' => l < invalidLine /\ l < topLine
  BY <1>1 DEF Smaller, IInv, TypeOK, LineStarts, Lines
<1>3. Announced \in Edits
  BY DEF Announced, Edits, LineStarts
<1>4. TypeOK'
  BY <1>1, <1>2, <1>3 DEF IInv, TypeOK, Lines
<1>5. StrongCoherent'
  <2>1. unannounced.at \in Int
    BY DEF IInv, TypeOK, Edits, LineStarts
  <2>2. \A l \in Lines : l < invalidLine' => l < invalidLine /\ Untouched(l)
    BY <1>1, <1>2, <2>1 DEF Untouched, Lines
  <2>3. \A l \in Lines : Predicted(l)' <=> Predicted(l)
    BY <1>1 DEF Predicted
  <2>. QED
    BY <1>1, <2>2, <2>3 DEF IInv, StrongCoherent, Lines
<1>. QED
  BY <1>1, <1>4, <1>5 DEF IInv, EditsOK, JobCoherent, Idle

LEMMA ModifyLineEventStep ==
  ASSUME IInv, NEW line \in Lines, ModifyLineEvent(line)
  PROVE  IInv'
<1>1. /\ Idle /\ unannounced.edit = "line" /\ line = unannounced.at
      /\ unannounced' = Announced /\ shown' = None
      /\ UNCHANGED <<text, docLines, changes, grammar, mapper, lineCount, backParse,
                     wStart, wSize, firstLine, lrSize, pred, job>>
      /\ IF invalidLine > line
         THEN /\ invalidLine' = IF TryParseLine(line) THEN invalidLine ELSE line
              /\ ring' = IF grammar # NoGrammar THEN RingAfter(line, pred[line]) ELSE ring
         ELSE UNCHANGED <<invalidLine, ring>>
  BY DEF ModifyLineEvent, windowVars
<1>2. invalidLine' \in LineStarts
  BY <1>1 DEF IInv, TypeOK, LineStarts, Lines
<1>3. ring' \in [0 .. lrSize - 1 -> Regions \cup {None}]
  <2>1. pred[line] \in States
    BY DEF IInv, TypeOK, Lines, LineStarts
  <2>. QED
    BY <1>1, <2>1, RingAfterType DEF IInv, TypeOK
<1>4. Announced \in Edits
  BY DEF Announced, Edits, LineStarts
<1>5. TypeOK'
  BY <1>1, <1>2, <1>3, <1>4 DEF IInv, TypeOK, Lines
<1>6. StrongCoherent'
  <2>1. \A l \in Lines : Predicted(l)' <=> Predicted(l)
    BY <1>1 DEF Predicted
  <2>2. grammar # NoGrammar => \A l \in Lines : l < invalidLine /\ l # line => Predicted(l)
    BY <1>1 DEF IInv, StrongCoherent, Untouched
  <2>3. TryParseLine(line) => Predicted(line)
    BY DEF TryParseLine, Predicted
  <2>4. grammar # NoGrammar => \A l \in Lines : l < invalidLine' => Predicted(l)
    BY <1>1, <2>2, <2>3 DEF IInv, TypeOK, LineStarts, Lines
  <2>. QED
    BY <1>1, <2>1, <2>4 DEF IInv, StrongCoherent
<1>. QED
  BY <1>1, <1>5, <1>6 DEF IInv, EditsOK, JobCoherent, Idle

LEMMA ParseLineStep ==
  ASSUME IInv, ParseLine
  PROVE  IInv'
<1>. DEFINE next == Scan[grammar][<<job.state, text[job.line]>>]
<1>1. /\ ~Idle /\ job.line < job.stop
      /\ ring' = RingAfter(job.line, job.state)
      /\ job' = [job EXCEPT !.line = @ + 1, !.state = next]
      /\ pred' = IF job.mode = "update" THEN [pred EXCEPT ![job.line + 1] = next] ELSE pred
      /\ UNCHANGED <<text, docLines, unannounced, changes, grammar, mapper, lineCount,
                     invalidLine, backParse, wStart, wSize, firstLine, lrSize, shown>>
  BY DEF ParseLine, hostVars, windowVars
<1>2. /\ job.line \in Lines /\ job.line + 1 \in LineStarts /\ job.state \in States
      /\ job.stop \in LineStarts /\ job \in Jobs
      /\ grammar # NoGrammar /\ unannounced = Announced
      /\ invalidLine \in LineStarts
  <2>1. job \in Jobs /\ invalidLine \in LineStarts
    BY DEF IInv, TypeOK
  <2>2. job.line \in LineStarts /\ job.stop \in LineStarts /\ job.state \in States
    BY <2>1 DEF Jobs
  <2>3. job.line \in Lines /\ job.line + 1 \in LineStarts
    BY <1>1, <2>2 DEF LineStarts, Lines
  <2>4. grammar # NoGrammar /\ unannounced = Announced
    BY <1>1 DEF IInv, JobCoherent
  <2>. QED
    BY <2>1, <2>2, <2>3, <2>4
<1>3. next \in States
  BY <1>2, ScanType DEF IInv
<1>. HIDE DEF next
<1>4. ring' \in [0 .. lrSize - 1 -> Regions \cup {None}]
  BY <1>1, <1>2, RingAfterType DEF IInv
<1>5. job' \in Jobs /\ pred' \in [LineStarts -> States]
  BY <1>1, <1>2, <1>3 DEF Jobs, IInv, TypeOK
<1>6. TypeOK'
  BY <1>1, <1>4, <1>5 DEF IInv, TypeOK, Lines
<1>7. CASE job.mode = "read"
  <2>1. pred' = pred /\ job'.mode = "read" /\ job'.line = job.line + 1 /\ job'.stop = job.stop
    BY <1>1, <1>2, <1>7 DEF Jobs
  <2>2. \A l \in Lines : Predicted(l)' <=> Predicted(l)
    BY <1>1, <2>1 DEF Predicted
  <2>3. StrongCoherent'
    BY <1>1, <2>1, <2>2 DEF IInv, StrongCoherent, Untouched
  <2>4. JobCoherent'
    BY <1>1, <1>2, <2>1 DEF JobCoherent, Lines, LineStarts
  <2>. QED
    BY <1>1, <1>6, <2>3, <2>4 DEF IInv, EditsOK, Announced
<1>8. CASE job.mode = "update"
  <2>1. /\ invalidLine <= job.line /\ job.state = pred[job.line]
        /\ \A l \in Lines : l < job.line => Predicted(l)
    BY <1>1, <1>8 DEF IInv, JobCoherent
  <2>2. /\ job'.mode = "update" /\ job'.line = job.line + 1 /\ job'.stop = job.stop
        /\ job'.state = next
        /\ pred' = [pred EXCEPT ![job.line + 1] = next]
    BY <1>1, <1>2, <1>8 DEF Jobs
  <2>3. \A l \in LineStarts : l # job.line + 1 => pred'[l] = pred[l]
    BY <2>2 DEF IInv, TypeOK
  <2>4. pred'[job.line + 1] = next
    BY <1>2, <2>2 DEF IInv, TypeOK
  <2>5. \A l \in Lines : l < job.line => Predicted(l)'
    <3>. SUFFICES ASSUME NEW l \in Lines, l < job.line
                  PROVE  Predicted(l)'
      OBVIOUS
    <3>1. pred'[l] = pred[l] /\ pred'[l + 1] = pred[l + 1]
      BY <1>2, <2>3 DEF Lines, LineStarts
    <3>. QED
      BY <1>1, <2>1, <3>1 DEF Predicted
  <2>6. \A l \in Lines : l = job.line => Predicted(l)'
    <3>. SUFFICES ASSUME NEW l \in Lines, l = job.line
                  PROVE  Predicted(l)'
      OBVIOUS
    <3>1. pred'[l] = job.state /\ pred'[l + 1] = next
      BY <1>2, <2>1, <2>3, <2>4 DEF Lines, LineStarts
    <3>2. next = Scan[grammar'][<<pred'[l], text'[l]>>]
      BY <1>1, <3>1 DEF next
    <3>. QED
      BY <3>1, <3>2 DEF Predicted
  <2>7. \A l \in Lines : l < job'.line => Predicted(l)'
    BY <1>2, <2>2, <2>5, <2>6 DEF Lines, LineStarts
  <2>8. JobCoherent'
    BY <1>1, <1>2, <2>1, <2>2, <2>4, <2>7 DEF JobCoherent, Lines, LineStarts
  <2>9. StrongCoherent'
    <3>1. pred'[0] = pred[0]
      BY <1>2, <2>3 DEF Lines, LineStarts
    <3>2. \A l \in Lines : l < invalidLine' => Predicted(l)'
      BY <1>1, <1>2, <2>1, <2>5 DEF Lines, LineStarts
    <3>. QED
      BY <3>1, <3>2 DEF IInv, StrongCoherent
  <2>. QED
    BY <1>1, <1>6, <2>8, <2>9 DEF IInv, EditsOK, Announced
<1>. QED
  BY <1>1, <1>2, <1>7, <1>8 DEF Jobs, Idle

LEMMA EndParseStep ==
  ASSUME IInv, EndParse
  PROVE  IInv'
<1>1. /\ ~Idle /\ job.line = job.stop
      /\ IF job.mode = "update"
         THEN /\ pred' = [l \in LineStarts |-> IF l <= job.stop THEN pred[l] ELSE Root]
              /\ invalidLine' = job.stop
         ELSE UNCHANGED <<pred, invalidLine>>
      /\ shown' = Returned(job.asked, LineRegionsOf(job.asked))
      /\ job' = NoJob
      /\ UNCHANGED <<text, docLines, unannounced, changes, grammar, mapper, lineCount,
                     backParse, wStart, wSize, firstLine, ring, lrSize>>
  <2>1. job.stop \in Int
    BY DEF IInv, TypeOK, Jobs, LineStarts
  <2>. QED
    BY <2>1 DEF EndParse, stopLine, hostVars, windowVars, ringVars
<1>2. /\ job \in Jobs /\ job.stop \in LineStarts /\ job.asked \in NotAsked .. MaxLines
      /\ invalidLine \in LineStarts /\ pred \in [LineStarts -> States]
  BY DEF IInv, TypeOK, Jobs
<1>3. unannounced = Announced /\ grammar # NoGrammar
  BY <1>1 DEF IInv, JobCoherent
<1>4. job' \in Jobs
  BY <1>1 DEF NoJob, Jobs, LineStarts, NotAsked
<1>5. shown' \in [line : -1 .. MaxLines, regions : Regions \cup {None}] \cup {None}
  <2>1. LineRegionsOf(job.asked) \in Regions \cup {None}
    BY <1>2, LineRegionsType DEF IInv, TypeOK, NotAsked
  <2>. QED
    BY <1>1, <1>2, <2>1 DEF Returned, NotAsked
<1>6. invalidLine' \in LineStarts /\ pred' \in [LineStarts -> States]
  BY <1>1, <1>2
<1>7. TypeOK'
  BY <1>1, <1>4, <1>5, <1>6 DEF IInv, TypeOK, Lines
<1>8. JobCoherent' /\ EditsOK'
  BY <1>1 DEF JobCoherent, Idle, NoJob, IInv, EditsOK, Announced
<1>9. StrongCoherent'
  <2>1. CASE job.mode = "update"
    <3>1. /\ pred' = [l \in LineStarts |-> IF l <= job.stop THEN pred[l] ELSE Root]
          /\ invalidLine' = job.stop
          /\ \A l \in Lines : l < job.stop => Predicted(l)
      BY <1>1, <2>1 DEF IInv, JobCoherent
    <3>2. pred'[0] = Root
      BY <1>2, <3>1 DEF IInv, StrongCoherent, LineStarts
    <3>3. ASSUME NEW l \in Lines, l < invalidLine'
          PROVE  Predicted(l)'
      <4>1. pred'[l] = pred[l] /\ pred'[l + 1] = pred[l + 1]
        BY <1>2, <3>1, <3>3 DEF Lines, LineStarts
      <4>. QED
        BY <1>1, <3>1, <3>3, <4>1 DEF Predicted
    <3>. QED
      BY <3>2, <3>3 DEF StrongCoherent
  <2>2. CASE job.mode # "update"
    <3>1. \A l \in Lines : Predicted(l)' <=> Predicted(l)
      BY <1>1, <2>2 DEF Predicted
    <3>. QED
      BY <1>1, <2>2, <3>1 DEF IInv, StrongCoherent, Untouched
  <2>. QED
    BY <2>1, <2>2
<1>. QED
  BY <1>7, <1>8, <1>9 DEF IInv

LEMMA ConfigureStep ==
  ASSUME IInv, Configure
  PROVE  IInv'
<1>1. ASSUME NEW g \in Grammars \cup {NoGrammar}, SetFileType(g)
      PROVE  IInv'
  <2>1. /\ Idle /\ changes < MaxChanges /\ changes' = changes + 1 /\ grammar' = g
        /\ pred' = [l \in LineStarts |-> Root] /\ invalidLine' = 0 /\ shown' = None
        /\ UNCHANGED <<text, docLines, unannounced, mapper, lineCount, backParse, wStart,
                       wSize, firstLine, ring, lrSize, job>>
    BY <1>1 DEF SetFileType, hostVars, windowVars, ringVars
  <2>2. TypeOK'
    BY <2>1 DEF IInv, TypeOK, LineStarts, Lines
  <2>3. StrongCoherent'
    BY <2>1 DEF StrongCoherent, LineStarts, Lines
  <2>. QED
    BY <2>1, <2>2, <2>3 DEF IInv, EditsOK, JobCoherent, Idle, Announced
<1>2. ASSUME NEW m \in Mappers, SetRegionMapper(m)
      PROVE  IInv'
  <2>1. /\ Idle /\ changes < MaxChanges /\ changes' = changes + 1 /\ mapper' = m
        /\ invalidLine' = 0 /\ shown' = None
        /\ UNCHANGED <<text, docLines, unannounced, grammar, lineCount, backParse, wStart,
                       wSize, firstLine, ring, lrSize, pred, job>>
    BY <1>2 DEF SetRegionMapper, remapLRS, hostVars, windowVars
  <2>2. TypeOK'
    BY <2>1 DEF IInv, TypeOK, LineStarts, Lines
  <2>3. StrongCoherent'
    BY <2>1 DEF IInv, StrongCoherent, Lines
  <2>. QED
    BY <2>1, <2>2, <2>3 DEF IInv, EditsOK, JobCoherent, Idle, Announced
<1>3. ASSUME SetRegionCompact
      PROVE  IInv'
  <2>1. /\ Idle /\ changes < MaxChanges /\ changes' = changes + 1 /\ firstLine' = 0
        /\ ring' = EmptyRing(lrSize) /\ invalidLine' = 0 /\ shown' = None
        /\ UNCHANGED <<text, docLines, unannounced, grammar, mapper, lineCount, backParse,
                       wStart, wSize, lrSize, pred, job>>
    BY <1>3 DEF SetRegionCompact, remapLRS, hostVars, windowVars
  <2>2. TypeOK'
    BY <2>1 DEF IInv, TypeOK, LineStarts, Lines, EmptyRing
  <2>3. StrongCoherent'
    BY <2>1 DEF IInv, StrongCoherent, Lines
  <2>. QED
    BY <2>1, <2>2, <2>3 DEF IInv, EditsOK, JobCoherent, Idle, Announced
<1>4. ASSUME NEW n \in BackParses, SetBackParse(n)
      PROVE  IInv'
  <2>1. /\ Idle /\ backParse' = n /\ shown' = None
        /\ UNCHANGED <<text, docLines, unannounced, changes, grammar, mapper, lineCount,
                       invalidLine, wStart, wSize, firstLine, ring, lrSize, pred, job>>
    BY <1>4 DEF SetBackParse, hostVars, windowVars, ringVars
  <2>2. TypeOK'
    BY <2>1 DEF IInv, TypeOK, LineStarts, Lines
  <2>. QED
    BY <2>1, <2>2 DEF IInv, EditsOK, StrongCoherent, JobCoherent, Untouched, Predicted, Idle,
                      Announced
<1>. QED
  BY <1>1, <1>2, <1>3, <1>4 DEF Configure

LEMMA WindowStep ==
  ASSUME IInv,
         \/ \E s \in Lines, n \in WindowSizes : VisibleTextEvent(s, n)
         \/ \E n \in LineStarts : LineCountEvent(n)
  PROVE  IInv'
<1>1. ASSUME NEW s \in Lines, NEW n \in WindowSizes, VisibleTextEvent(s, n)
      PROVE  IInv'
  <2>1. /\ Idle /\ wStart' = s /\ wSize' = n /\ shown' = None
        /\ UNCHANGED <<text, docLines, unannounced, changes, grammar, mapper, lineCount,
                       invalidLine, backParse, firstLine, ring, lrSize, pred, job>>
    BY <1>1 DEF VisibleTextEvent, hostVars, ringVars
  <2>2. TypeOK'
    BY <2>1 DEF IInv, TypeOK, LineStarts, Lines
  <2>. QED
    BY <2>1, <2>2 DEF IInv, EditsOK, StrongCoherent, JobCoherent, Untouched, Predicted, Idle,
                      Announced
<1>2. ASSUME NEW n \in LineStarts, LineCountEvent(n)
      PROVE  IInv'
  <2>1. /\ Idle /\ lineCount' = n /\ shown' = None
        /\ UNCHANGED <<text, docLines, unannounced, changes, grammar, mapper, backParse,
                       invalidLine, wStart, wSize, firstLine, ring, lrSize, pred, job>>
    BY <1>2 DEF LineCountEvent, hostVars, windowVars, ringVars
  <2>2. TypeOK'
    BY <2>1 DEF IInv, TypeOK, LineStarts, Lines
  <2>. QED
    BY <2>1, <2>2 DEF IInv, EditsOK, StrongCoherent, JobCoherent, Untouched, Predicted, Idle,
                      Announced
<1>. QED
  BY <1>1, <1>2

(* The host's edit of a line leaves the predictions of all others; an      *)
(* insertion or deletion those of the lines above.                         *)
LEMMA EditStep ==
  ASSUME IInv, Host
  PROVE  IInv'
<1>. USE DEF Lines, LineStarts
<1>1. ASSUME NEW kind \in {"line", "text"}, NEW at \in Lines, Edit(kind, at),
             text' \in [Lines -> Contents], docLines' \in 1 .. MaxLines,
             \A l \in Lines : l < at \/ (kind = "line" /\ l # at) => text'[l] = text[l]
      PROVE  IInv'
  <2>1. /\ Idle /\ unannounced = Announced /\ changes < MaxChanges
        /\ changes' = changes + 1 /\ unannounced' = [edit |-> kind, at |-> at]
        /\ shown' = None
        /\ UNCHANGED <<grammar, mapper, lineCount, invalidLine, backParse, wStart, wSize,
                       firstLine, ring, lrSize, pred, job>>
    BY <1>1 DEF Edit, windowVars, ringVars
  <2>2. TypeOK'
    <3>1. unannounced' \in Edits
      BY <2>1 DEF Edits
    <3>. QED
      BY <1>1, <2>1, <3>1 DEF IInv, TypeOK
  <2>3. EditsOK'
    BY <1>1, <2>1 DEF EditsOK
  <2>4. StrongCoherent'
    <3>1. grammar # NoGrammar => \A l \in Lines : l < invalidLine => Predicted(l)
      BY <2>1 DEF IInv, StrongCoherent, Untouched, Announced
    <3>2. ASSUME NEW l \in Lines, Untouched(l)', Predicted(l)
          PROVE  Predicted(l)'
      BY <1>1, <2>1, <3>2 DEF Untouched, Predicted
    <3>. QED
      BY <2>1, <3>1, <3>2 DEF IInv, StrongCoherent
  <2>. QED
    BY <2>1, <2>2, <2>3, <2>4 DEF IInv, JobCoherent, Idle
<1>2. ASSUME NEW l \in Lines, NEW c \in Contents, ReplaceLine(l, c)
      PROVE  IInv'
  <2>1. /\ Edit("line", l) /\ docLines' = docLines
        /\ text' = [text EXCEPT ![l] = c]
    BY <1>2 DEF ReplaceLine
  <2>2. /\ text' \in [Lines -> Contents] /\ docLines' \in 1 .. MaxLines
        /\ \A k \in Lines : k # l => text'[k] = text[k]
    BY <2>1 DEF IInv, TypeOK
  <2>. QED
    BY <1>1, <2>1, <2>2
<1>3. ASSUME NEW l \in Lines, NEW c \in Contents, InsertLine(l, c)
      PROVE  IInv'
  <2>1. /\ Edit("text", l) /\ docLines' = docLines + 1 /\ docLines < MaxLines
        /\ text' = [i \in Lines |-> IF i < l THEN text[i] ELSE IF i = l THEN c ELSE text[i - 1]]
    BY <1>3 DEF InsertLine
  <2>2. /\ text' \in [Lines -> Contents] /\ docLines' \in 1 .. MaxLines
        /\ \A k \in Lines : k < l => text'[k] = text[k]
    BY <2>1 DEF IInv, TypeOK
  <2>. QED
    BY <1>1, <2>1, <2>2
<1>4. ASSUME NEW l \in Lines, DeleteLine(l)
      PROVE  IInv'
  <2>1. /\ Edit("text", l) /\ docLines' = docLines - 1 /\ docLines > 1
        /\ text' = [i \in Lines |-> IF i < l \/ i = MaxLines - 1 THEN text[i] ELSE text[i + 1]]
    BY <1>4 DEF DeleteLine
  <2>2. /\ text' \in [Lines -> Contents] /\ docLines' \in 1 .. MaxLines
        /\ \A k \in Lines : k < l => text'[k] = text[k]
    BY <2>1 DEF IInv, TypeOK
  <2>. QED
    BY <1>1, <2>1, <2>2
<1>. QED
  BY <1>2, <1>3, <1>4 DEF Host

-----------------------------------------------------------------------------
(* The invariance theorems.                                                *)

LEMMA IInvInit == Init => IInv
<1>. SUFFICES ASSUME Init PROVE IInv
  OBVIOUS
<1>. USE DEF Init
<1>1. TypeOK
  <2>1. lrSize \in Nat \ {0}
    BY DEF regionBufferLines, regionWindow
  <2>2. ring \in [0 .. lrSize - 1 -> Regions \cup {None}]
    BY DEF EmptyRing
  <2>3. unannounced \in Edits /\ job \in Jobs
    BY DEF Announced, Edits, NoJob, Jobs, NotAsked, LineStarts
  <2>. QED
    BY <2>1, <2>2, <2>3 DEF TypeOK, Lines, LineStarts
<1>2. EditsOK /\ StrongCoherent /\ JobCoherent
  BY DEF EditsOK, StrongCoherent, JobCoherent, Idle, NoJob, Lines, LineStarts
<1>. QED
  BY <1>1, <1>2 DEF IInv

LEMMA IInvNext == IInv /\ [Next]_vars => IInv'
<1>. SUFFICES ASSUME IInv, [Next]_vars PROVE IInv'
  OBVIOUS
<1>1. CASE Host
  BY <1>1, EditStep
<1>2. CASE Announce
  BY <1>2, ModifyEventStep, ModifyLineEventStep, WindowStep DEF Announce
<1>3. CASE Configure
  BY <1>3, ConfigureStep
<1>4. CASE View
  <2>1. ASSUME NEW l \in Asked, GetLineRegions(l) \/ Validate(l, TRUE)
        PROVE  IInv'
    <3>1. l \in -1 .. MaxLines
      BY DEF Asked
    <3>2. CASE GetLineRegions(l)
      BY <3>1, <3>2, GetLineRegionsStep
    <3>3. CASE Validate(l, TRUE)
      <4>1. Ready /\ Rebuild(l, NotAsked) /\ NotAsked \in NotAsked .. MaxLines
        BY <3>3 DEF Validate, NotAsked
      <4>. QED
        BY <3>1, <4>1, RebuildStep
    <3>. QED
      BY <2>1, <3>2, <3>3
  <2>2. ASSUME NEW l \in -1 .. MaxLines, Validate(l, FALSE)
        PROVE  IInv'
    <3>1. l \in Int
      OBVIOUS
    <3>. QED
      BY <2>2, <3>1, ValidateStep
  <2>3. CASE IdleJob
    <3>1. invalidLine + IdleLines \in Int
      BY DEF IInv, TypeOK, LineStarts
    <3>. QED
      BY <2>3, <3>1, ValidateStep DEF IdleJob
  <2>. QED
    BY <1>4, <2>1, <2>2, <2>3, WindowStep DEF View
<1>5. CASE Parser
  BY <1>5, ParseLineStep, EndParseStep DEF Parser
<1>6. CASE UNCHANGED vars
  <2>1. UNCHANGED <<text, docLines, unannounced, changes, grammar, mapper, lineCount,
                    invalidLine, backParse, wStart, wSize, firstLine, ring, lrSize, pred,
                    job, shown>>
    BY <1>6 DEF vars, hostVars, windowVars, ringVars
  <2>2. TypeOK'
    BY <2>1 DEF IInv, TypeOK
  <2>. QED
    BY <2>1, <2>2 DEF IInv, EditsOK, StrongCoherent, JobCoherent, Untouched, Predicted, Idle,
                      Announced
<1>. QED
  BY <1>1, <1>2, <1>3, <1>4, <1>5, <1>6 DEF Next

THEOREM Invariance == Spec => []IInv
BY IInvInit, IInvNext, PTL DEF Spec

(* Every variable of the editor has its type, whatever the host does.      *)
THEOREM TypeCorrect == Spec => []TypeOK
<1>1. IInv => TypeOK
  BY DEF IInv
<1>. QED
  BY <1>1, Invariance, PTL

(* The parse cache agrees with the text for every line taken for valid,    *)
(* whatever the grammar, the length of the text and the order of edits,    *)
(* background parses, scrolls and reconfigurations.                        *)
THEOREM CacheCorrect == Spec => []CacheCoherent
<1>1. IInv => CacheCoherent
  <2>. SUFFICES ASSUME IInv, grammar # NoGrammar, NEW l \in Lines, l < Known
                PROVE  Predicted(l)
    BY DEF CacheCoherent, IInv, StrongCoherent
  <2>1. invalidLine \in Int /\ unannounced.at \in Int /\ l \in Int
    BY DEF IInv, TypeOK, Edits, LineStarts, Lines
  <2>2. l < invalidLine /\ l < unannounced.at
    BY <2>1 DEF Known, Smaller
  <2>. QED
    BY <2>2 DEF IInv, StrongCoherent, Untouched
<1>. QED
  BY <1>1, Invariance, PTL

-----------------------------------------------------------------------------
(* What validate parses keeps the valid part: with nothing to parse it is  *)
(* left alone, or, when there is no file type, one line longer.            *)
LEMMA StartParseKeeps ==
  ASSUME invalidLine \in Nat, NEW plan, NEW asked, StartParse(plan, asked),
         plan.mode = "update" => plan.from = invalidLine
  PROVE  invalidLine' >= invalidLine
BY DEF StartParse

(* A parse of the text, wherever the host looks and however many lines the *)
(* background call takes, never takes back a line that was valid: it goes  *)
(* on from the first invalid line or does not touch the cache.             *)
THEOREM Monotone == Spec => LookingKeepsValid
<1>1. IInv /\ [Next]_vars => [View \/ Parser => invalidLine' >= invalidLine]_vars
  <2>. SUFFICES ASSUME IInv, View \/ Parser PROVE invalidLine' >= invalidLine
    OBVIOUS
  <2>1. TypeOK /\ invalidLine \in Nat
    BY DEF IInv, TypeOK, LineStarts
  <2>2. ASSUME NEW lno \in -1 .. MaxLines, NEW asked, Ready, Rebuild(lno, asked)
        PROVE  invalidLine' >= invalidLine
    <3>1. lineCount \in Nat \ {0}
      BY <2>1, <2>2 DEF Ready, TypeOK
    <3>2. Plan(lno).mode = "update" => Plan(lno).from = invalidLine
      BY <2>1, <3>1, PlanType
    <3>. QED
      BY <2>1, <2>2, <3>2, StartParseKeeps DEF Rebuild
  <2>3. ASSUME NEW lno, Validate(lno, FALSE)
        PROVE  invalidLine' >= invalidLine
    <3>1. StartParse(CachePlan(lno), NotAsked) /\ CachePlan(lno).from = invalidLine
      BY <2>3 DEF Validate, CachePlan
    <3>. QED
      BY <2>1, <3>1, StartParseKeeps
  <2>4. ASSUME NEW lno \in Asked, GetLineRegions(lno) \/ Validate(lno, TRUE)
        PROVE  invalidLine' >= invalidLine
    <3>1. lno \in -1 .. MaxLines
      BY DEF Asked
    <3>. QED
      BY <2>1, <2>2, <2>4, <3>1 DEF GetLineRegions, Validate
  <2>5. CASE View
    <3>1. CASE \E s \in Lines, n \in WindowSizes : VisibleTextEvent(s, n)
      BY <2>1, <3>1 DEF VisibleTextEvent
    <3>2. CASE \E l \in Asked : GetLineRegions(l) \/ Validate(l, TRUE)
      BY <2>4, <3>2
    <3>3. CASE (\E l \in -1 .. MaxLines : Validate(l, FALSE)) \/ IdleJob
      BY <2>3, <3>3 DEF IdleJob
    <3>. QED
      BY <2>5, <3>1, <3>2, <3>3 DEF View
  <2>6. CASE Parser
    <3>1. CASE ParseLine
      BY <2>1, <3>1 DEF ParseLine
    <3>2. CASE EndParse
      <4>1. job.mode = "update" => invalidLine <= job.stop
        BY <3>2 DEF IInv, JobCoherent, EndParse
      <4>2. job.stop \in Nat
        BY <2>1 DEF TypeOK, Jobs, LineStarts
      <4>. QED
        BY <2>1, <3>2, <4>1, <4>2 DEF EndParse, stopLine
    <3>. QED
      BY <2>6, <3>1, <3>2 DEF Parser
  <2>. QED
    BY <2>5, <2>6
<1>. QED
  BY <1>1, Invariance, PTL DEF Spec, LookingKeepsValid

-----------------------------------------------------------------------------
(* The editor implements LineStacks.                                       *)

KnownOK ==
  /\ KnownLines \in LineStarts
  /\ grammar # NoGrammar => \A l \in Lines : l < KnownLines => Predicted(l)
  /\ KnownStacks \in [0 .. KnownLines -> States]

LEMMA KnownRange == IInv => KnownOK
<1>. SUFFICES ASSUME IInv PROVE KnownOK
  OBVIOUS
<1>1. invalidLine \in LineStarts /\ unannounced.at \in LineStarts
  BY DEF IInv, TypeOK, Edits
<1>2. KnownLines \in LineStarts
  BY <1>1 DEF KnownLines, Known, Smaller, LineStarts
<1>3. ASSUME grammar # NoGrammar, NEW l \in Lines, l < KnownLines
      PROVE  Predicted(l)
  <2>1. l < invalidLine /\ l < unannounced.at
    BY <1>1, <1>3 DEF KnownLines, Known, Smaller, LineStarts, Lines
  <2>. QED
    BY <1>3, <2>1 DEF IInv, StrongCoherent, Untouched
<1>4. KnownStacks \in [0 .. KnownLines -> States]
  BY <1>2 DEF KnownStacks, IInv, TypeOK, LineStarts
<1>. QED
  BY <1>2, <1>3, <1>4 DEF KnownOK

LEMMA KnownRangeNext == IInv' => KnownOK'
BY KnownRange, PTL

(* The known prefix of one state against that of the next: where the two   *)
(* caches agree, a longer one is a Learn step and a shorter one a Forget.  *)
LEMMA LearnOrForget ==
  ASSUME IInv, IInv', UNCHANGED <<text, grammar>>,
         \A l \in LineStarts : l <= KnownLines => pred'[l] = pred[l]
  PROVE  Incremental!Learn \/ Incremental!Forget
<1>1. KnownLines \in LineStarts /\ KnownLines' \in LineStarts
  BY KnownRange, KnownRangeNext DEF KnownOK
<1>2. CASE KnownLines' <= KnownLines
  <2>1. KnownStacks' = Incremental!Prefix(KnownLines')
    BY <1>1, <1>2 DEF KnownStacks, Incremental!Prefix, LineStarts
  <2>2. KnownLines' \in DOMAIN KnownStacks
    BY <1>1, <1>2 DEF KnownStacks, LineStarts
  <2>. QED
    BY <2>1, <2>2 DEF Incremental!Forget
<1>3. CASE KnownLines < KnownLines'
  <2>. DEFINE n == KnownLines'
  <2>1. grammar # NoGrammar
    BY <1>1, <1>3 DEF KnownLines, LineStarts
  <2>2. KnownStacks' \in [0 .. n -> States] /\ DOMAIN KnownStacks = 0 .. KnownLines
    BY KnownRange, KnownRangeNext DEF KnownOK
  <2>3. \A l \in 0 .. KnownLines : KnownStacks'[l] = KnownStacks[l]
    BY <1>1, <1>3 DEF KnownStacks, LineStarts
  <2>4. \A l \in (0 .. n) \ (0 .. KnownLines) :
          KnownStacks'[l] = Scan[grammar][<<KnownStacks'[l - 1], text[l - 1]>>]
    <3>1. \A l \in Lines : l < n => Predicted(l)'
      BY <2>1, KnownRangeNext DEF KnownOK
    <3>. SUFFICES ASSUME NEW l \in (0 .. n) \ (0 .. KnownLines)
                  PROVE  KnownStacks'[l] = Scan[grammar][<<KnownStacks'[l - 1], text[l - 1]>>]
      OBVIOUS
    <3>2. l - 1 \in Lines /\ l - 1 < n /\ l - 1 \in 0 .. n /\ (l - 1) + 1 = l
      BY <1>1 DEF Lines, LineStarts
    <3>3. KnownStacks'[l] = pred'[l] /\ KnownStacks'[l - 1] = pred'[l - 1]
      BY <1>1, <3>2 DEF KnownStacks, LineStarts
    <3>4. \A k \in Lines : k < n => pred'[k + 1] = Scan[grammar][<<pred'[k], text[k]>>]
      BY <3>1 DEF Predicted
    <3>. QED
      BY <3>2, <3>3, <3>4
  <2>5. n \in Incremental!LineStarts /\ 0 .. KnownLines \subseteq 0 .. n
    BY <1>1, <1>3 DEF Incremental!LineStarts, LineStarts
  <2>. HIDE DEF n
  <2>. QED
    BY <2>1, <2>2, <2>3, <2>4, <2>5 DEF Incremental!Learn
<1>. QED
  BY <1>1, <1>2, <1>3 DEF LineStarts

(* An edit above the known part, or in it: what is above stays known.      *)
LEMMA EditIsChange ==
  ASSUME IInv, IInv', Host
  PROVE  Incremental!Change
<1>1. PICK kind \in {"line", "text"}, at \in Lines :
        /\ Edit(kind, at)
        /\ \A l \in Lines : l < at => text'[l] = text[l]
  <2>1. ASSUME NEW l \in Lines, NEW c \in Contents, ReplaceLine(l, c)
        PROVE  Edit("line", l) /\ \A k \in Lines : k < l => text'[k] = text[k]
    BY <2>1 DEF ReplaceLine, IInv, TypeOK, Lines
  <2>2. ASSUME NEW l \in Lines, NEW c \in Contents, InsertLine(l, c)
        PROVE  Edit("text", l) /\ \A k \in Lines : k < l => text'[k] = text[k]
    BY <2>2 DEF InsertLine, Lines
  <2>3. ASSUME NEW l \in Lines, DeleteLine(l)
        PROVE  Edit("text", l) /\ \A k \in Lines : k < l => text'[k] = text[k]
    BY <2>3 DEF DeleteLine, Lines
  <2>. QED
    BY <2>1, <2>2, <2>3 DEF Host
<1>2. /\ unannounced = Announced /\ unannounced' = [edit |-> kind, at |-> at]
      /\ grammar' = grammar /\ invalidLine' = invalidLine /\ pred' = pred
  BY <1>1 DEF Edit
<1>3. /\ invalidLine \in LineStarts /\ unannounced.at \in LineStarts
      /\ KnownLines \in LineStarts /\ KnownLines' \in LineStarts
  BY KnownRange, KnownRangeNext DEF KnownOK, IInv, TypeOK, Edits
<1>4. KnownLines' <= KnownLines /\ (KnownLines' <= at \/ KnownLines' = 0)
  BY <1>1, <1>2, <1>3 DEF KnownLines, Known, Smaller, Announced, LineStarts, Lines
<1>5. KnownLines' \in 0 .. KnownLines /\ \A l \in 0 .. KnownLines' - 1 : text'[l] = text[l]
  BY <1>1, <1>3, <1>4 DEF LineStarts, Lines
<1>6. KnownStacks' = Incremental!Prefix(KnownLines') /\ KnownLines' \in DOMAIN KnownStacks
  BY <1>2, <1>3, <1>5 DEF KnownStacks, Incremental!Prefix, LineStarts
<1>7. text' \in Incremental!Texts
  BY DEF IInv, TypeOK, Incremental!Texts, Lines
<1>. QED
  BY <1>2, <1>5, <1>6, <1>7 DEF Incremental!Change

LEMMA InitIsInit == Init => Incremental!Init
<1>. SUFFICES ASSUME Init PROVE Incremental!Init
  OBVIOUS
<1>1. text \in Incremental!Texts
  BY DEF Init, Incremental!Texts
<1>2. KnownStacks = Incremental!Nothing
  BY DEF Init, KnownStacks, KnownLines, Incremental!Nothing, LineStarts
<1>. QED
  BY <1>1, <1>2 DEF Incremental!Init, Init

(* What an action may do to the parser's cache as seen from outside.       *)
LEMMA StepIsStep ==
  IInv /\ IInv' /\ [Next]_vars => [Incremental!Next]_(Incremental!absVars)
<1>. SUFFICES ASSUME IInv, IInv', [Next]_vars
              PROVE  [Incremental!Next]_(Incremental!absVars)
  OBVIOUS
<1>1. ASSUME UNCHANGED <<text, grammar>>,
             \A l \in LineStarts : l <= KnownLines => pred'[l] = pred[l]
      PROVE  Incremental!Next
  BY <1>1, LearnOrForget DEF Incremental!Next
<1>2. ASSUME UNCHANGED <<text, grammar, pred>>
      PROVE  Incremental!Next
  BY <1>1, <1>2
<1>3. CASE Host
  BY <1>3, EditIsChange DEF Incremental!Next
<1>4. CASE Announce
  BY <1>2, <1>4 DEF Announce, ModifyEvent, ModifyLineEvent, LineCountEvent, hostVars
<1>5. CASE Configure
  <2>1. ASSUME NEW g \in Grammars \cup {NoGrammar}, SetFileType(g)
        PROVE  Incremental!Next
    <3>1. /\ grammar' = g /\ text' = text /\ invalidLine' = 0
          /\ pred' = [l \in LineStarts |-> Root]
      BY <2>1 DEF SetFileType, hostVars
    <3>2. unannounced'.at \in LineStarts
      BY DEF IInv, TypeOK, Edits
    <3>3. KnownLines' = 0
      BY <3>1, <3>2 DEF KnownLines, Known, Smaller, LineStarts
    <3>4. KnownStacks' = Incremental!Nothing
      BY <3>1, <3>3 DEF KnownStacks, Incremental!Nothing, LineStarts
    <3>. QED
      BY <3>1, <3>4 DEF Incremental!Next, Incremental!Retype
  <2>2. ASSUME SetRegionCompact \/ (\E m \in Mappers : SetRegionMapper(m))
                 \/ (\E n \in BackParses : SetBackParse(n))
        PROVE  Incremental!Next
    BY <1>2, <2>2 DEF SetRegionCompact, SetRegionMapper, SetBackParse, hostVars
  <2>. QED
    BY <1>5, <2>1, <2>2 DEF Configure
<1>6. CASE View
  <2>1. ASSUME NEW l, GetLineRegions(l) \/ Validate(l, TRUE) \/ Validate(l, FALSE)
        PROVE  UNCHANGED <<text, grammar, pred>>
    BY <2>1 DEF GetLineRegions, Validate, Rebuild, hostVars
  <2>2. ASSUME NEW s, NEW n, VisibleTextEvent(s, n)
        PROVE  UNCHANGED <<text, grammar, pred>>
    BY <2>2 DEF VisibleTextEvent, hostVars
  <2>. QED
    BY <1>2, <1>6, <2>1, <2>2 DEF View, IdleJob
<1>7. CASE ParseLine
  <2>1. job \in Jobs /\ pred \in [LineStarts -> States] /\ job.line < job.stop
    BY <1>7 DEF IInv, TypeOK, ParseLine
  <2>2. job.mode = "update" => KnownLines <= job.line
    <3>1. job.mode = "update" => invalidLine <= job.line
      BY <1>7 DEF IInv, JobCoherent, ParseLine
    <3>2. job.line \in LineStarts /\ invalidLine \in LineStarts /\ unannounced.at \in LineStarts
      BY <2>1 DEF Jobs, IInv, TypeOK, Edits
    <3>. QED
      BY <3>1, <3>2 DEF KnownLines, Known, Smaller, LineStarts
  <2>3. /\ UNCHANGED <<text, grammar>>
        /\ \A l \in LineStarts : l # job.line + 1 \/ job.mode # "update" => pred'[l] = pred[l]
    BY <1>7, <2>1 DEF ParseLine, hostVars
  <2>4. \A l \in LineStarts : l <= KnownLines => l # job.line + 1 \/ job.mode # "update"
    BY <2>1, <2>2, KnownRange DEF KnownOK, Jobs, LineStarts
  <2>. QED
    BY <1>1, <2>3, <2>4
<1>8. CASE EndParse
  <2>1. job.mode = "update" => KnownLines <= job.stop
    <3>1. job.mode = "update" => invalidLine <= job.stop
      BY <1>8 DEF IInv, JobCoherent, EndParse
    <3>2. job.stop \in LineStarts /\ invalidLine \in LineStarts /\ unannounced.at \in LineStarts
      BY DEF Jobs, IInv, TypeOK, Edits
    <3>. QED
      BY <3>1, <3>2 DEF KnownLines, Known, Smaller, LineStarts
  <2>2. /\ UNCHANGED <<text, grammar>>
        /\ \A l \in LineStarts : l <= job.stop \/ job.mode # "update" => pred'[l] = pred[l]
    BY <1>8 DEF EndParse, hostVars
  <2>3. \A l \in LineStarts : l <= KnownLines => l <= job.stop \/ job.mode # "update"
    <3>1. job.stop \in LineStarts
      BY DEF Jobs, IInv, TypeOK
    <3>. QED
      BY <2>1, <3>1, KnownRange DEF KnownOK, LineStarts
  <2>. QED
    BY <1>1, <2>2, <2>3
<1>9. CASE UNCHANGED vars
  BY <1>2, <1>9 DEF vars, hostVars
<1>. QED
  BY <1>3, <1>4, <1>5, <1>6, <1>7, <1>8, <1>9 DEF Next, Parser

(* The editor implements LineStacks: at no step does it take a line for    *)
(* valid that was not scanned from the text it then has, and none survives *)
(* an edit above it.                                                       *)
THEOREM Refinement == Spec => IsIncrementalParse
<1>1. Init => Incremental!Init
  BY InitIsInit
<1>2. IInv /\ IInv' /\ [Next]_vars => [Incremental!Next]_(Incremental!absVars)
  BY StepIsStep
<1>. QED
  BY <1>1, <1>2, Invariance, PTL DEF Spec, IsIncrementalParse, Incremental!Spec

-----------------------------------------------------------------------------
(* The ring of coloured lines.                                             *)

(* The lines validate keeps coloured, and what it means that one is.       *)
InCover(l) == firstLine <= l /\ l < firstLine + regionCoverLines(wSize)
Right(l)   == LineRegionsOf(l) = Colored(l, pred[l])

(* Of one size are the windows and, from the first, the ring.              *)
Sized == wSize = DefaultWindow /\ lrSize = regionBufferLines(DefaultWindow)

(* The lines the cache will answer for once the edit is announced.         *)
Kept(l) == l < invalidLine /\ Untouched(l)

(* They are lines of the text, also as the editor counts them.             *)
Within ==
  \A l \in Lines : l < invalidLine /\ (l < unannounced.at \/ unannounced.edit = "line") =>
    l < lineCount /\ l < docLines

(* RingFresh, said of the stacks of the cache and made inductive: with the *)
(* lines a line edit has left alone.                                       *)
RestRight == (Idle /\ grammar # NoGrammar) => \A l \in Lines : InCover(l) /\ Kept(l) => Right(l)

(* While a parse runs: an update has coloured what it has passed; a read   *)
(* leaves what it is not going to colour, and carries the stacks of the    *)
(* cache as far as they are valid.                                         *)
JobRight ==
  ~Idle =>
    /\ lineCount = docLines /\ job.stop <= lineCount
    /\ job.mode = "update" => \A l \in Lines : InCover(l) /\ l < job.line => Right(l)
    /\ job.mode = "read" =>
         /\ job.line <= invalidLine => job.state = pred[job.line]
         /\ \A l \in Lines :
              InCover(l) /\ l < invalidLine /\ (l < job.line \/ l >= job.stop) => Right(l)

(* The inductive invariant of the ring.                                    *)
RingInv == IInv /\ Sized /\ Within /\ RestRight /\ JobRight

(* A host whose window keeps its size (see RingFresh).                     *)
OneSize == WindowSizes \subseteq {DefaultWindow}

-----------------------------------------------------------------------------
(* A remainder that takes one subtraction at most.                         *)
LEMMA Remainder ==
  ASSUME NEW n \in Nat \ {0}, NEW x \in Nat, x < 2 * n
  PROVE  x % n = IF x < n THEN x ELSE x - n
<1>1. CASE x < n
  BY <1>1
<1>2. CASE n <= x
  BY <1>2
<1>. QED
  BY <1>1, <1>2

(* Two lines the ring serves have slots of their own.                      *)
LEMMA SlotsDiffer ==
  ASSUME NEW f \in Nat, NEW n \in Nat \ {0}, NEW l \in Nat, NEW m \in Nat,
         f <= l, l < f + n, f <= m, m < f + n, l # m
  PROVE  ((f % n) + l - f) % n # ((f % n) + m - f) % n
<1>. DEFINE a == f % n
            x == a + l - f
            y == a + m - f
<1>1. a \in 0 .. n - 1
  OBVIOUS
<1>. HIDE DEF a
<1>2. /\ x \in Nat /\ x < 2 * n /\ y \in Nat /\ y < 2 * n
      /\ x # y /\ x - y < n /\ y - x < n
  BY <1>1
<1>. HIDE DEF x, y
<1>3. x % n = IF x < n THEN x ELSE x - n
  BY <1>2, Remainder
<1>4. y % n = IF y < n THEN y ELSE y - n
  BY <1>2, Remainder
<1>5. x % n # y % n
  BY <1>2, <1>3, <1>4
<1>. QED
  BY <1>5 DEF x, y, a

(* Division by a positive number, in a form a step can cite.              *)
LEMMA DivMod ==
  ASSUME NEW n \in Nat \ {0}, NEW x \in Nat
  PROVE x \div n \in Nat /\ x % n \in 0 .. n - 1 /\ x = n * (x \div n) + (x % n)
<1>1. x \div n \in Nat
  OBVIOUS
<1>2. x % n \in 0 .. n - 1
  OBVIOUS
<1>3. x = n * (x \div n) + (x % n)
  OBVIOUS
<1>. QED
  BY <1>1, <1>2, <1>3

(* A remainder is unique.                                                  *)
LEMMA OneRemainder ==
  ASSUME NEW n \in Nat \ {0}, NEW p \in Int, NEW q \in Int,
         NEW r \in 0 .. n - 1, NEW s \in 0 .. n - 1,
         n * p + r = n * q + s
  PROVE r = s
<1>1. n * (p - q) = s - r
  OBVIOUS
<1>2. p - q >= 1 => n * (p - q) >= n
  OBVIOUS
<1>3. p - q <= -1 => n * (p - q) <= -n
  OBVIOUS
<1>. DEFINE d == p - q
            e == n * d
<1>4. /\ d \in Int /\ e \in Int /\ e = s - r
      /\ d >= 1 => e >= n
      /\ d <= -1 => e <= -n
      /\ d = 0 => e = 0
  BY <1>1, <1>2, <1>3
<1>. HIDE DEF d, e
<1>. QED
  BY <1>4

(* The slot of a line does not depend on where the ring begins.            *)
LEMMA SlotFixed ==
  ASSUME NEW n \in Nat \ {0}, NEW h \in Nat, NEW l \in Nat, h <= l
  PROVE  ((h % n) + l - h) % n = l % n
<1>. DEFINE q == h \div n
            x == (h % n) + l - h
            t == h % n
<1>0. q \in Nat /\ t \in 0 .. n - 1 /\ h = n * q + t /\ x = t + l - h
  BY DivMod
<1>. HIDE DEF t, q, x
<1>1. x \in Nat /\ x = l - n * q /\ q \in Nat
  <2>1. n * q \in Int
    BY <1>0
  <2>. QED
    BY <1>0, <2>1
<1>2. x = n * (x \div n) + (x % n) /\ x \div n \in Nat /\ x % n \in 0 .. n - 1
  BY <1>1, DivMod
<1>3. l = n * (l \div n) + (l % n) /\ l \div n \in Nat /\ l % n \in 0 .. n - 1
  BY DivMod
<1>. DEFINE a == x \div n
            b == l \div n
            r == x % n
            s == l % n
<1>4. /\ a \in Nat /\ r \in 0 .. n - 1 /\ x = n * a + r
      /\ b \in Nat /\ s \in 0 .. n - 1 /\ l = n * b + s
  BY <1>2, <1>3
<1>. HIDE DEF a, b, r, s
<1>5. a + q \in Int /\ n * (a + q) + r = n * b + s
  BY <1>1, <1>4
<1>. DEFINE c == a + q
<1>7. c \in Int /\ n * c + r = n * b + s
  BY <1>5
<1>. HIDE DEF c
<1>6. r = s
  BY <1>4, <1>7, OneRemainder
<1>. QED
  BY <1>6 DEF r, s, x, t

(* One line is coloured, and what that does to what is served.             *)
Paints(l, s) == UNCHANGED <<firstLine, lrSize>> /\ ring' = RingAfter(l, s)
Painted(l, s) ==
  \A m \in Lines : checkLine(m) =>
    LineRegionsOf(m)' = IF m = l THEN Colored(l, s) ELSE LineRegionsOf(m)

(* What is coloured is served for its line, and for no other.              *)
LEMMA ColourLine ==
  ASSUME TypeOK, NEW s, NEW l \in Lines, Paints(l, s)
  PROVE  Painted(l, s)
<1>0. firstLine' = firstLine /\ lrSize' = lrSize /\ ring' = RingAfter(l, s)
  BY DEF Paints
<1>1. /\ firstLine \in Nat /\ lrSize \in Nat \ {0} /\ l \in Nat
      /\ DOMAIN ring = 0 .. lrSize - 1
  BY DEF TypeOK, Lines
<1>2. \A m \in Lines : m \in Nat /\ getLineIndex(m) \in 0 .. lrSize - 1
  BY <1>1, SlotRange DEF getLineIndex, Lines
<1>3. \A m \in Lines : getLineIndex(m)' = getLineIndex(m) /\ (checkLine(m)' <=> checkLine(m))
  BY <1>0 DEF getLineIndex, checkLine
<1>4. CASE checkLine(l)
  <2>1. ring' = [ring EXCEPT ![getLineIndex(l)] = Colored(l, s)]
    BY <1>0, <1>4 DEF RingAfter
  <2>2. ring'[getLineIndex(l)] = Colored(l, s)
    BY <1>1, <1>2, <2>1
  <2>3. LineRegionsOf(l)' = Colored(l, s)
    BY <1>3, <1>4, <2>2 DEF LineRegionsOf
  <2>4. ASSUME NEW m \in Lines, checkLine(m), m # l
        PROVE  LineRegionsOf(m)' = LineRegionsOf(m)
    <3>1. getLineIndex(m) # getLineIndex(l)
      BY <1>1, <1>2, <1>4, <2>4, SlotsDiffer DEF checkLine, getLineIndex
    <3>2. ring'[getLineIndex(m)] = ring[getLineIndex(m)]
      BY <1>1, <1>2, <2>1, <3>1
    <3>. QED
      BY <1>3, <2>4, <3>2 DEF LineRegionsOf
  <2>. QED
    BY <2>3, <2>4 DEF Painted
<1>5. CASE ~checkLine(l)
  <2>1. ring' = ring
    BY <1>0, <1>5 DEF RingAfter
  <2>. QED
    BY <1>3, <1>5, <2>1 DEF Painted, LineRegionsOf
<1>. QED
  BY <1>4, <1>5

(* The cover is within the ring.                                           *)
LEMMA CoverInRing ==
  ASSUME TypeOK, Sized, NEW l \in Lines, InCover(l)
  PROVE  checkLine(l)
<1>1. wSize \in Nat \ {0} /\ firstLine \in Nat /\ l \in Nat /\ lrSize = 3 * wSize
  BY DEF TypeOK, Sized, Lines, regionBufferLines, regionWindow
<1>2. regionCoverLines(wSize) = 2 * wSize
  BY <1>1 DEF regionCoverLines, regionWindow
<1>. QED
  BY <1>1, <1>2 DEF InCover, checkLine

(* Where validate puts the cover, and that it parses all of it that the    *)
(* ring does not serve already: the whole, or, moved up by one window, one *)
(* window and a line.                                                      *)
LEMMA PlanPlace ==
  ASSUME TypeOK, Sized, lineCount \in Nat \ {0}, NEW lno \in -1 .. MaxLines
  PROVE  /\ ~Plan(lno).grow /\ Plan(lno).size = lrSize
         /\ Plan(lno).first <= Plan(lno).top
         /\ Plan(lno).top + wSize <= Plan(lno).first + 2 * wSize
         /\ Plan(lno).mode = "read" => Plan(lno).from < invalidLine
         /\ lno \in 0 .. lineCount - 1 /\ wStart <= lno /\ lno <= wStart + wSize
              => Plan(lno).top = wStart
         /\ \/ /\ Plan(lno).first = firstLine
               /\ Plan(lno).mode = "read" => Plan(lno).to <= Plan(lno).from
               /\ Plan(lno).to \in {lineCount, firstLine + 2 * wSize, wStart + wSize}
            \/ /\ Plan(lno).mode = "update" => invalidLine <= Plan(lno).first
               /\ Plan(lno).mode = "read" => Plan(lno).from = Plan(lno).first
               /\ \/ Plan(lno).to = lineCount
                  \/ Plan(lno).to = Plan(lno).first + 2 * wSize
                  \/ /\ Plan(lno).to = Plan(lno).first + wSize + 1
                     /\ firstLine = Plan(lno).first + wSize
<1> DEFINE line   == IF lno = -1 \/ lno > lineCount THEN lineCount - 1 ELSE lno
           w      == regionWindow(wSize)
           cover  == regionCoverLines(wSize)
           grow   == lrSize < cover
           top    == IF line < wStart \/ line > wStart + wSize THEN line ELSE wStart
           move   == grow \/ top < firstLine \/ top + wSize > firstLine + cover
           first  == IF move THEN (top \div w) * w ELSE firstLine
           oneUp  == ~grow /\ firstLine - first = w
           from   == IF move THEN first ELSE wStart + wSize
           to     == IF move THEN first + cover - (IF oneUp THEN w - 1 ELSE 0)
                     ELSE IF invalidLine = 0 THEN firstLine + cover ELSE wStart + wSize
           update == (~move /\ invalidLine <= to) \/ invalidLine <= from
<1>1. Plan(lno) =
        [top |-> top, grow |-> grow,
         size |-> IF grow THEN regionBufferLines(wSize) ELSE lrSize,
         first |-> first, from |-> IF update THEN invalidLine ELSE from,
         to |-> Smaller(to, lineCount), mode |-> IF update THEN "update" ELSE "read"]
  BY DEF Plan
<1>2. /\ lineCount \in Nat /\ lineCount <= MaxLines /\ invalidLine \in Nat
      /\ wStart \in Nat /\ wStart <= MaxLines /\ wSize \in Nat \ {0}
      /\ lrSize = 3 * wSize /\ firstLine \in Nat
  BY DEF TypeOK, LineStarts, Sized, regionBufferLines, regionWindow
<1>3. line \in Nat
  BY <1>2
<1>4. w = wSize /\ cover = 2 * wSize /\ ~grow
  BY <1>2 DEF regionWindow, regionCoverLines, regionBufferLines
<1>5. /\ top \in Nat
      /\ lno \in 0 .. lineCount - 1 /\ wStart <= lno /\ lno <= wStart + wSize => top = wStart
  BY <1>2, <1>3
<1>. HIDE DEF line, w, cover, grow, top
<1>6. (top \div wSize) * wSize \in Nat /\ (top \div wSize) * wSize <= top
      /\ top < (top \div wSize) * wSize + wSize
  <2>1. top = (top \div wSize) * wSize + (top % wSize) /\ top % wSize \in 0 .. wSize - 1
        /\ top \div wSize \in Nat
    BY <1>2, <1>5
  <2>2. \A x, y \in Nat : x * y \in Nat
    OBVIOUS
  <2>3. (top \div wSize) * wSize \in Nat
    BY <1>2, <2>1, <2>2
  <2>. QED
    BY <1>2, <1>5, <2>1, <2>3
<1>7. first \in Nat /\ first <= top /\ top + wSize <= first + 2 * wSize
  <2>1. CASE move
    BY <1>2, <1>4, <1>5, <1>6, <2>1
  <2>2. CASE ~move
    BY <1>2, <1>4, <1>5, <2>2
  <2>. QED
    BY <2>1, <2>2
<1>8. move => from = first
  OBVIOUS
<1>9. ~move => first = firstLine
  OBVIOUS
<1>10. move => \/ to = first + 2 * wSize
               \/ to = first + wSize + 1 /\ firstLine = first + wSize
  <2>. HIDE DEF first, move
  <2>. QED
    BY <1>2, <1>4, <1>7
<1>11. /\ ~move /\ invalidLine = 0 => update
       /\ ~move /\ invalidLine # 0 => to = from
       /\ ~move => to \in {firstLine + 2 * wSize, wStart + wSize}
  BY <1>2, <1>4
<1>12. /\ update /\ move => invalidLine <= first
       /\ ~update => from < invalidLine
  <2>1. from \in Nat
    <3>. HIDE DEF first
    <3>. QED
      BY <1>2, <1>7
  <2>2. update /\ move => invalidLine <= from
    BY <1>8
  <2>. QED
    BY <1>2, <1>8, <2>1, <2>2
<1>13. to \in Int /\ Smaller(to, lineCount) <= to
       /\ (Smaller(to, lineCount) = to \/ Smaller(to, lineCount) = lineCount)
  <2>1. to \in Int
    <3>. HIDE DEF first, move, oneUp
    <3>. QED
      BY <1>2, <1>4, <1>7
  <2>. QED
    BY <1>2, <2>1 DEF Smaller
<1>. HIDE DEF move, first, oneUp, from, to, update
<1>. DEFINE p == Plan(lno)
<1>14. /\ p.top = top /\ p.grow = grow /\ p.size = lrSize /\ p.first = first
       /\ p.from = (IF update THEN invalidLine ELSE from)
       /\ p.to = Smaller(to, lineCount)
       /\ p.mode = (IF update THEN "update" ELSE "read")
  BY <1>1, <1>4
<1>. HIDE DEF p
<1>15. p.mode = "read" => ~update /\ p.from = from
  BY <1>14
<1>16. p.mode = "update" => update
  BY <1>14
<1>17. p.mode = "read" => p.from < invalidLine
  BY <1>12, <1>15
<1>18. CASE ~move
  <2>1. p.mode = "read" => p.to <= p.from
    BY <1>11, <1>13, <1>14, <1>15, <1>18
  <2>2. p.first = firstLine
    BY <1>9, <1>14, <1>18
  <2>3. p.to \in {lineCount, firstLine + 2 * wSize, wStart + wSize}
    BY <1>11, <1>13, <1>14, <1>18
  <2>. QED
    BY <1>4, <1>5, <1>7, <1>14, <1>17, <2>1, <2>2, <2>3 DEF p
<1>19. CASE move
  <2>1. p.mode = "update" => invalidLine <= p.first
    BY <1>12, <1>14, <1>16, <1>19
  <2>2. p.mode = "read" => p.from = p.first
    BY <1>8, <1>14, <1>15, <1>19
  <2>3. \/ p.to = lineCount
        \/ p.to = p.first + 2 * wSize
        \/ p.to = p.first + wSize + 1 /\ firstLine = p.first + wSize
    BY <1>10, <1>13, <1>14, <1>19
  <2>. QED
    BY <1>4, <1>5, <1>7, <1>14, <1>17, <2>1, <2>2, <2>3 DEF p
<1>. QED
  BY <1>18, <1>19

-----------------------------------------------------------------------------
(* A line stays right while nothing it depends on changes.                 *)
LEMMA RightSame ==
  ASSUME NEW l, Right(l), UNCHANGED <<firstLine, lrSize, ring, grammar, mapper>>,
         text'[l] = text[l], pred'[l] = pred[l]
  PROVE  Right(l)'
BY DEF Right, LineRegionsOf, checkLine, getLineIndex, Colored

(* At rest every valid line is kept.                                       *)
LEMMA KeptReady ==
  ASSUME TypeOK, Ready, NEW l \in Lines, l < invalidLine
  PROVE  Kept(l)
BY DEF TypeOK, Ready, Announced, Kept, Untouched, Lines

(* At rest every valid line is a line of the text.                         *)
LEMMA ReadyWithin ==
  ASSUME RingInv, Ready, NEW l \in Lines, l < invalidLine
  PROVE  l < lineCount
BY DEF RingInv, Within, Ready, Announced, Lines

(* StartParse keeps the invariant if the lines of the new cover are right  *)
(* or about to be parsed.                                                  *)
LEMMA RingStart ==
  ASSUME RingInv, IInv', Ready, NEW plan, plan.from \in Nat, plan.to \in Int, plan.to <= lineCount,
         plan.mode \in {"read", "update"},
         plan.mode = "update" => plan.from = invalidLine,
         plan.mode = "read" => plan.from < invalidLine,
         NEW asked, StartParse(plan, asked),
         UNCHANGED <<hostVars, changes, grammar, mapper, lineCount, backParse, wSize, pred,
                     lrSize>>,
         grammar # NoGrammar =>
           \A l \in Lines : InCover(l)' /\ l < invalidLine =>
              \/ Right(l)'
              \/ plan.mode = "read" /\ plan.from <= l /\ l < plan.to
  PROVE  RingInv'
<1>1. /\ UNCHANGED <<text, docLines, unannounced>> /\ Idle /\ unannounced = Announced
      /\ lineCount = docLines /\ TypeOK /\ lineCount \in Nat /\ invalidLine \in Nat
  BY DEF hostVars, Ready, RingInv, IInv, TypeOK, LineStarts
<1>2. Sized'
  BY DEF RingInv, Sized
<1>3. CASE plan.from < plan.to /\ grammar # NoGrammar
  <2>1. /\ job' = [mode |-> plan.mode, line |-> plan.from, stop |-> plan.to,
                   state |-> pred[plan.from], asked |-> asked]
        /\ invalidLine' = invalidLine
    BY <1>3 DEF StartParse
  <2>2. /\ job'.mode = plan.mode /\ job'.line = plan.from /\ job'.stop = plan.to
        /\ job'.state = pred[plan.from]
    BY <2>1
  <2>3. Within'
    BY <1>1, <2>1 DEF RingInv, Within, Kept, Untouched
  <2>4. ~Idle'
    BY <2>2 DEF Idle
  <2>5. RestRight'
    BY <2>4 DEF RestRight
  <2>6. \A l \in Lines : l \in Int
    BY DEF Lines
  <2>7. JobRight'
    BY <1>1, <1>3, <2>1, <2>2, <2>4, <2>6 DEF JobRight
  <2>. QED
    BY <1>2, <2>3, <2>5, <2>7 DEF RingInv
<1>4. CASE ~(plan.from < plan.to /\ grammar # NoGrammar)
  <2>1. /\ invalidLine' = (IF plan.from < plan.to /\ plan.mode = "update"
                           THEN plan.from + 1 ELSE invalidLine)
        /\ job' = job
        /\ grammar = NoGrammar \/ ~(plan.from < plan.to)
    BY <1>4 DEF StartParse
  <2>2. Idle' /\ JobRight'
    BY <1>1, <2>1 DEF Idle, JobRight
  <2>3. \A l \in Lines : l \in Int
    BY DEF Lines
  <2>4. RestRight'
    <3>1. CASE grammar = NoGrammar
      BY <3>1 DEF RestRight
    <3>2. CASE grammar # NoGrammar
      <4>1. ~(plan.from < plan.to) /\ invalidLine' = invalidLine
        BY <2>1, <3>2
      <4>2. \A l \in Lines : InCover(l)' /\ l < invalidLine => Right(l)'
        BY <2>3, <3>2, <4>1
      <4>. QED
        BY <4>1, <4>2 DEF RestRight, Kept
    <3>. QED
      BY <3>1, <3>2
  <2>5. Within'
    <3>1. \A l \in Lines : l < invalidLine => l < lineCount
      BY ReadyWithin
    <3>2. \A l \in Lines : l < invalidLine' => l < lineCount
      BY <1>1, <2>1, <2>3, <3>1
    <3>. QED
      BY <1>1, <3>2 DEF Within, Kept
  <2>. QED
    BY <1>2, <2>2, <2>4, <2>5 DEF RingInv
<1>. QED
  BY <1>3, <1>4

(* validate with rebuildRegions, getLineRegions.                           *)
LEMMA RingRebuild ==
  ASSUME RingInv, Ready, NEW lno \in -1 .. MaxLines, NEW asked \in NotAsked .. MaxLines,
         Rebuild(lno, asked)
  PROVE  RingInv'
<1>. DEFINE plan == Plan(lno)
<1>1. TypeOK /\ Sized /\ lineCount \in Nat \ {0} /\ IInv
  BY DEF RingInv, IInv, Ready, TypeOK
<1>2. /\ plan.from \in Nat /\ plan.to \in Int /\ plan.to <= lineCount
      /\ plan.mode \in {"read", "update"}
      /\ plan.mode = "update" => plan.from = invalidLine
  BY <1>1, PlanType
<1>3. /\ ~plan.grow /\ plan.size = lrSize
      /\ plan.mode = "read" => plan.from < invalidLine
      /\ \/ /\ plan.first = firstLine
            /\ plan.mode = "read" => plan.to <= plan.from
         \/ /\ plan.mode = "update" => invalidLine <= plan.first
            /\ plan.mode = "read" => plan.from = plan.first
            /\ \/ plan.to = lineCount
               \/ plan.to = plan.first + 2 * wSize
               \/ /\ plan.to = plan.first + wSize + 1
                  /\ firstLine = plan.first + wSize
  BY <1>1, PlanPlace
<1>4. plan.first \in Nat
  BY <1>1, PlanType
<1>5. /\ lrSize' = plan.size /\ firstLine' = plan.first
      /\ ring' = IF plan.grow THEN EmptyRing(plan.size) ELSE ring
      /\ StartParse(plan, asked)
      /\ UNCHANGED <<hostVars, changes, grammar, mapper, lineCount, backParse, wSize, pred>>
  BY DEF Rebuild
<1>6. IInv'
  BY <1>1, RebuildStep
<1>. HIDE DEF plan
<1>7. lrSize' = lrSize /\ ring' = ring /\ UNCHANGED <<text, grammar, mapper, pred, wSize>>
  BY <1>3, <1>5 DEF hostVars
<1>8. /\ wSize \in Nat \ {0} /\ lrSize = 3 * wSize /\ regionCoverLines(wSize) = 2 * wSize
      /\ firstLine \in Nat /\ invalidLine \in Nat
  BY <1>1 DEF Sized, regionBufferLines, regionWindow, regionCoverLines, TypeOK, LineStarts
<1>9. \A l \in Lines : l \in Nat /\ (InCover(l)' <=> plan.first <= l /\ l < plan.first + 2 * wSize)
                                 /\ (InCover(l) <=> firstLine <= l /\ l < firstLine + 2 * wSize)
  BY <1>5, <1>8 DEF InCover, Lines, regionCoverLines
<1>10. ASSUME grammar # NoGrammar, NEW l \in Lines, InCover(l)', InCover(l), l < invalidLine
       PROVE  Right(l)'
  <2>1. Right(l)
    BY <1>1, <1>10, KeptReady DEF RingInv, RestRight, Ready
  <2>2. /\ firstLine <= l /\ l < firstLine + lrSize /\ plan.first <= l /\ l < plan.first + lrSize
        /\ l \in Nat
    BY <1>4, <1>8, <1>9, <1>10
  <2>3. checkLine(l) /\ checkLine(l)'
    BY <1>5, <1>7, <2>2 DEF checkLine
  <2>4. getLineIndex(l)' = getLineIndex(l)
    <3>1. getLineIndex(l) = l % lrSize
      BY <1>8, <2>2, SlotFixed DEF getLineIndex
    <3>. DEFINE first == plan.first
    <3>2. first \in Nat /\ first <= l /\ lrSize \in Nat \ {0} /\ firstLine' = first
      BY <1>4, <1>5, <1>8, <2>2
    <3>. HIDE DEF first
    <3>3. ((first % lrSize) + l - first) % lrSize = l % lrSize
      BY <2>2, <3>2, SlotFixed
    <3>. QED
      BY <1>7, <3>1, <3>2, <3>3 DEF getLineIndex
  <2>. QED
    BY <1>7, <2>1, <2>3, <2>4 DEF Right, LineRegionsOf, Colored
<1>11. ASSUME grammar # NoGrammar, NEW l \in Lines, InCover(l)', l < invalidLine
       PROVE  \/ Right(l)'
              \/ plan.mode = "read" /\ plan.from <= l /\ l < plan.to
  <2>1. l \in Nat /\ l < lineCount
    BY <1>9, <1>11, ReadyWithin
  <2>2. CASE InCover(l)
    BY <1>10, <1>11, <2>2
  <2>3. CASE ~InCover(l)
    <3>1. plan.first # firstLine
      BY <1>9, <1>11, <2>3
    <3>2. plan.mode = "read"
      BY <1>2, <1>3, <1>4, <1>8, <1>9, <1>11, <2>1, <3>1
    <3>3. plan.from <= l /\ l < plan.to
      BY <1>2, <1>3, <1>4, <1>8, <1>9, <1>11, <2>1, <2>3, <3>1, <3>2
    <3>. QED
      BY <3>2, <3>3
  <2>. QED
    BY <2>2, <2>3
<1>. QED
  BY <1>2, <1>3, <1>5, <1>6, <1>7, <1>11, RingStart

(* validate without, and idleJob.                                          *)
LEMMA RingValidate ==
  ASSUME RingInv, NEW lno \in Int, Validate(lno, FALSE)
  PROVE  RingInv'
<1>1. TypeOK /\ lineCount \in Nat /\ Ready /\ IInv
  BY DEF RingInv, IInv, Validate, TypeOK, LineStarts
<1>. DEFINE plan == CachePlan(lno)
<1>2. /\ plan.from = invalidLine /\ plan.mode = "update"
      /\ plan.to \in Int /\ plan.to <= lineCount
  BY <1>1 DEF CachePlan, Smaller
<1>3. /\ StartParse(plan, NotAsked)
      /\ UNCHANGED <<hostVars, changes, grammar, mapper, lineCount, backParse,
                     wStart, wSize, firstLine, ring, lrSize, pred>>
  BY DEF Validate, windowVars, ringVars
<1>4. IInv'
  BY <1>1, ValidateStep
<1>. HIDE DEF plan
<1>5. plan.from \in Nat
  BY <1>1, <1>2 DEF TypeOK, LineStarts
<1>6. ASSUME grammar # NoGrammar, NEW l \in Lines, InCover(l)', l < invalidLine
      PROVE  Right(l)'
  <2>1. InCover(l)
    BY <1>3, <1>6 DEF InCover
  <2>2. Right(l)
    BY <1>1, <1>6, <2>1, KeptReady DEF RingInv, RestRight, Ready
  <2>. QED
    BY <1>3, <2>2, RightSame DEF hostVars
<1>. QED
  BY <1>1, <1>2, <1>3, <1>4, <1>5, <1>6, RingStart

(* A line is parsed.                                                       *)
LEMMA RingParseLine ==
  ASSUME RingInv, ParseLine
  PROVE  RingInv'
<1>. DEFINE next == Scan[grammar][<<job.state, text[job.line]>>]
<1>1. /\ ~Idle /\ job.line < job.stop
      /\ ring' = RingAfter(job.line, job.state)
      /\ job' = [job EXCEPT !.line = @ + 1, !.state = next]
      /\ pred' = IF job.mode = "update" THEN [pred EXCEPT ![job.line + 1] = next] ELSE pred
      /\ UNCHANGED <<text, docLines, unannounced, changes, grammar, mapper, lineCount,
                     invalidLine, backParse, wStart, wSize, firstLine, lrSize, shown>>
  BY DEF ParseLine, hostVars, windowVars
<1>2. /\ IInv /\ TypeOK /\ Sized /\ job \in Jobs /\ unannounced = Announced
      /\ grammar # NoGrammar
  BY <1>1 DEF RingInv, IInv, TypeOK, JobCoherent
<1>3. IInv'
  BY <1>2, ParseLineStep
<1>4. Sized' /\ Within'
  BY <1>1 DEF RingInv, Sized, Within, Kept, Untouched
<1>5. /\ job.line \in Lines /\ job.stop \in LineStarts /\ job.mode \in {"read", "update"}
      /\ invalidLine \in Nat
  <2>1. job.line \in LineStarts /\ job.stop \in LineStarts
    BY <1>2 DEF Jobs
  <2>2. job.mode \in {"read", "update"} /\ invalidLine \in Nat
    BY <1>1, <1>2 DEF Jobs, Idle, TypeOK, LineStarts
  <2>. QED
    BY <1>1, <2>1, <2>2 DEF Lines, LineStarts
<1>6. /\ job'.mode = job.mode /\ job'.line = job.line + 1 /\ job'.stop = job.stop
      /\ job'.state = next /\ ~Idle'
  BY <1>1, <1>2 DEF Jobs, Idle
<1>7. RestRight'
  BY <1>6 DEF RestRight
<1>8. \A m \in Lines : checkLine(m) =>
        LineRegionsOf(m)' = IF m = job.line THEN Colored(m, job.state) ELSE LineRegionsOf(m)
  <2>1. Paints(job.line, job.state)
    BY <1>1 DEF Paints
  <2>2. Painted(job.line, job.state)
    BY <1>2, <1>5, <2>1, ColourLine
  <2>. QED
    BY <2>2 DEF Painted
<1>9. \A l \in Lines : /\ InCover(l)' <=> InCover(l)
                       /\ InCover(l) => checkLine(l)
                       /\ l \in Nat
  BY <1>1, <1>2, CoverInRing DEF InCover, Lines
<1>11. /\ lineCount = docLines /\ job.stop <= lineCount
       /\ job.mode = "update" => \A l \in Lines : InCover(l) /\ l < job.line => Right(l)
       /\ job.mode = "read" =>
            /\ job.line <= invalidLine => job.state = pred[job.line]
            /\ \A l \in Lines :
                 InCover(l) /\ l < invalidLine /\ (l < job.line \/ l >= job.stop) => Right(l)
  BY <1>1 DEF RingInv, JobRight
<1>12. CASE job.mode = "update"
  <2>1. job.state = pred[job.line]
    BY <1>1, <1>2, <1>12 DEF IInv, JobCoherent
  <2>2. \A l \in Lines : l <= job.line => pred'[l] = pred[l]
    <3>1. /\ pred' = [pred EXCEPT ![job.line + 1] = next] /\ pred \in [LineStarts -> States]
          /\ job.line \in Nat
      BY <1>1, <1>2, <1>5, <1>12 DEF TypeOK, Lines
    <3>2. \A l \in Lines : l <= job.line => l \in LineStarts /\ l # job.line + 1
      BY <1>9, <3>1 DEF Lines, LineStarts
    <3>. QED
      BY <3>1, <3>2
  <2>3. ASSUME NEW l \in Lines, InCover(l), l < job.line
        PROVE  Right(l)'
    <3>1. LineRegionsOf(l)' = LineRegionsOf(l) /\ pred'[l] = pred[l] /\ Right(l)
      BY <1>5, <1>8, <1>9, <1>11, <1>12, <2>2, <2>3 DEF Lines
    <3>. QED
      BY <1>1, <3>1 DEF Right, Colored
  <2>4. ASSUME NEW l \in Lines, InCover(l), l = job.line
        PROVE  Right(l)'
    <3>1. LineRegionsOf(l)' = Colored(l, pred[l]) /\ pred'[l] = pred[l]
      BY <1>5, <1>8, <1>9, <2>1, <2>2, <2>4 DEF Lines
    <3>. QED
      BY <1>1, <3>1 DEF Right, Colored
  <2>5. JobRight'
    BY <1>1, <1>5, <1>6, <1>9, <1>11, <1>12, <2>3, <2>4 DEF JobRight, Lines
  <2>. QED
    BY <1>3, <1>4, <1>7, <2>5 DEF RingInv
<1>13. CASE job.mode = "read"
  <2>1. pred' = pred
    BY <1>1, <1>13
  <2>2. job.line < invalidLine => job.state = pred[job.line] /\ next = pred[job.line + 1]
    <3>. SUFFICES ASSUME job.line < invalidLine
                  PROVE  job.state = pred[job.line] /\ next = pred[job.line + 1]
      OBVIOUS
    <3>1. job.state = pred[job.line]
      BY <1>5, <1>11, <1>13 DEF Lines
    <3>2. Predicted(job.line)
      BY <1>2, <1>5 DEF IInv, StrongCoherent, Untouched, Announced, Lines
    <3>. QED
      BY <3>1, <3>2 DEF Predicted
  <2>3. ASSUME NEW l \in Lines, InCover(l), l < invalidLine, l < job.line \/ l >= job.stop
        PROVE  Right(l)'
    <3>1. LineRegionsOf(l)' = LineRegionsOf(l) /\ Right(l)
      BY <1>1, <1>5, <1>8, <1>9, <1>11, <1>13, <2>3 DEF Lines, LineStarts
    <3>. QED
      BY <1>1, <2>1, <3>1 DEF Right, Colored
  <2>4. ASSUME NEW l \in Lines, InCover(l), l < invalidLine, l = job.line
        PROVE  Right(l)'
    <3>1. LineRegionsOf(l)' = Colored(l, pred[l])
      BY <1>8, <1>9, <2>2, <2>4
    <3>. QED
      BY <1>1, <2>1, <3>1 DEF Right, Colored
  <2>5. job'.line <= invalidLine' => job'.state = pred'[job'.line]
    BY <1>1, <1>5, <1>6, <2>1, <2>2 DEF Lines
  <2>6. ASSUME NEW l \in Lines, InCover(l)', l < invalidLine', l < job'.line \/ l >= job'.stop
        PROVE  Right(l)'
    BY <1>1, <1>5, <1>6, <1>9, <2>3, <2>4, <2>6 DEF Lines
  <2>7. JobRight'
    BY <1>1, <1>6, <1>11, <1>13, <2>5, <2>6 DEF JobRight
  <2>. QED
    BY <1>3, <1>4, <1>7, <2>7 DEF RingInv
<1>. QED
  BY <1>5, <1>12, <1>13

(* A parse ends.                                                           *)
LEMMA RingEndParse ==
  ASSUME RingInv, EndParse
  PROVE  RingInv'
<1>1. /\ ~Idle /\ job.line = job.stop
      /\ IF job.mode = "update"
         THEN /\ pred' = [l \in LineStarts |-> IF l <= job.stop THEN pred[l] ELSE Root]
              /\ invalidLine' = stopLine(job.stop) + 1
         ELSE UNCHANGED <<pred, invalidLine>>
      /\ job' = NoJob
      /\ UNCHANGED <<text, docLines, unannounced, changes, grammar, mapper, lineCount,
                     backParse, wStart, wSize, firstLine, lrSize, ring>>
  BY DEF EndParse, hostVars, windowVars, ringVars
<1>2. /\ IInv /\ TypeOK /\ unannounced = Announced /\ job \in Jobs
      /\ lineCount = docLines /\ job.stop <= lineCount /\ lineCount \in Nat
  BY <1>1 DEF RingInv, IInv, TypeOK, JobCoherent, JobRight, LineStarts
<1>3. IInv'
  BY <1>2, EndParseStep
<1>4. Sized' /\ JobRight'
  BY <1>1 DEF RingInv, Sized, JobRight, NoJob, Idle
<1>5. \A l \in Lines : l \in Nat /\ (InCover(l)' <=> InCover(l))
  BY <1>1 DEF InCover, Lines
<1>6. job.stop \in Nat /\ invalidLine \in Nat /\ job.mode \in {"read", "update"}
  BY <1>1, <1>2 DEF Jobs, LineStarts, Idle, TypeOK
<1>7. CASE job.mode = "update"
  <2>1. invalidLine' = job.stop
    BY <1>1, <1>6, <1>7 DEF stopLine
  <2>2. Within'
    BY <1>1, <1>2, <1>5, <1>6, <2>1 DEF Within, Kept
  <2>3. ASSUME NEW l \in Lines, InCover(l), l < job.stop
        PROVE  Right(l)'
    <3>1. Right(l)
      BY <1>1, <1>7, <2>3 DEF RingInv, JobRight
    <3>2. pred'[l] = pred[l]
      BY <1>1, <1>5, <1>6, <1>7, <2>3 DEF Lines, LineStarts
    <3>. QED
      BY <1>1, <3>1, <3>2, RightSame
  <2>4. RestRight'
    BY <1>5, <2>1, <2>3 DEF RestRight, Kept
  <2>. QED
    BY <1>3, <1>4, <2>2, <2>4 DEF RingInv
<1>8. CASE job.mode = "read"
  <2>1. pred' = pred /\ invalidLine' = invalidLine
    BY <1>1, <1>8
  <2>2. Within'
    BY <1>1, <2>1 DEF RingInv, Within, Kept, Untouched
  <2>3. ASSUME NEW l \in Lines, InCover(l), l < invalidLine
        PROVE  Right(l)'
    <3>1. Right(l)
      BY <1>1, <1>5, <1>6, <1>8, <2>3 DEF RingInv, JobRight
    <3>. QED
      BY <1>1, <2>1, <3>1, RightSame
  <2>4. RestRight'
    BY <1>5, <2>1, <2>3 DEF RestRight, Kept
  <2>. QED
    BY <1>3, <1>4, <2>2, <2>4 DEF RingInv
<1>. QED
  BY <1>6, <1>7, <1>8

(* A call that ends at rest: what it leaves valid must be coloured.        *)
LEMMA RingRest ==
  ASSUME RingInv, IInv', Idle', Sized', Within',
         \A l \in Lines : Kept(l)' /\ grammar' # NoGrammar /\ InCover(l)' => Right(l)'
  PROVE  RingInv'
BY DEF RingInv, RestRight, JobRight

(* An edit of the text is announced.                                       *)
LEMMA RingModifyEvent ==
  ASSUME RingInv, NEW topLine \in Lines, ModifyEvent(topLine)
  PROVE  RingInv'
<1>1. /\ Idle /\ topLine <= unannounced.at
      /\ invalidLine' = Smaller(invalidLine, topLine)
      /\ unannounced' = Announced
      /\ UNCHANGED <<text, docLines, grammar, mapper, lineCount, backParse,
                     wStart, wSize, firstLine, ring, lrSize, pred, job>>
  BY DEF ModifyEvent, windowVars, ringVars
<1>2. IInv /\ IInv' /\ Idle'
  BY <1>1, ModifyEventStep DEF RingInv, Idle
<1>3. ASSUME NEW l \in Lines, Kept(l)'
      PROVE  Kept(l)
  <2>1. unannounced.at \in Int /\ invalidLine \in Int /\ topLine \in Int /\ l \in Int
    BY <1>2 DEF IInv, TypeOK, Edits, LineStarts, Lines
  <2>2. l < invalidLine /\ l < topLine
    BY <1>1, <1>3, <2>1 DEF Kept, Smaller
  <2>. QED
    BY <1>1, <2>1, <2>2 DEF Kept, Untouched
<1>4. Within'
  <2>1. /\ unannounced.at \in Int /\ invalidLine \in Int /\ topLine \in Int
        /\ \A l \in Lines : l \in Int
    BY <1>2 DEF IInv, TypeOK, Edits, LineStarts, Lines
  <2>2. \A l \in Lines : l < invalidLine' => l < invalidLine /\ l < unannounced.at
    BY <1>1, <2>1 DEF Smaller
  <2>. QED
    BY <1>1, <2>2 DEF RingInv, Within
<1>5. ASSUME NEW l \in Lines, Kept(l)', grammar' # NoGrammar, InCover(l)'
      PROVE  Right(l)'
  <2>1. Right(l)
    BY <1>1, <1>3, <1>5 DEF RingInv, RestRight, InCover
  <2>. QED
    BY <1>1, <2>1, RightSame
<1>6. Sized'
  BY <1>1 DEF RingInv, Sized
<1>. QED
  BY <1>2, <1>4, <1>5, <1>6, RingRest

(* An edit of one line is announced: the line is coloured anew, and those  *)
(* below it are still right if it leaves the same blocks open.             *)
LEMMA RingModifyLineEvent ==
  ASSUME RingInv, NEW line \in Lines, ModifyLineEvent(line)
  PROVE  RingInv'
<1>1. /\ Idle /\ unannounced.edit = "line" /\ line = unannounced.at
      /\ unannounced' = Announced
      /\ UNCHANGED <<text, docLines, changes, grammar, mapper, lineCount, backParse,
                     wStart, wSize, firstLine, lrSize, pred, job>>
      /\ IF invalidLine > line
         THEN /\ invalidLine' = IF TryParseLine(line) THEN invalidLine ELSE line
              /\ ring' = IF grammar # NoGrammar THEN RingAfter(line, pred[line]) ELSE ring
         ELSE UNCHANGED <<invalidLine, ring>>
  BY DEF ModifyLineEvent, windowVars
<1>2. IInv /\ TypeOK /\ IInv' /\ Idle' /\ Sized'
  BY <1>1, ModifyLineEventStep DEF RingInv, IInv, Sized, Idle
<1>3. /\ unannounced.at \in Int /\ invalidLine \in Int /\ line \in Int
      /\ \A l \in Lines : l \in Int
      /\ lineCount \in Int /\ docLines \in Int
  BY <1>1, <1>2 DEF TypeOK, Edits, LineStarts, Lines
<1>4. ASSUME NEW l \in Lines, Kept(l)', l # line
      PROVE  Kept(l)
  BY <1>1, <1>3, <1>4 DEF Kept, Untouched
<1>6. Within'
  BY <1>1, <1>3 DEF RingInv, Within
<1>7. ASSUME NEW l \in Lines, Kept(l)', grammar' # NoGrammar, InCover(l)'
      PROVE  Right(l)'
  <2>1. InCover(l) /\ grammar # NoGrammar
    BY <1>1, <1>7 DEF InCover
  <2>2. checkLine(l)
    BY <1>2, <2>1, CoverInRing DEF RingInv
  <2>3. CASE invalidLine > line
    <3>1. Paints(line, pred[line])
      BY <1>1, <2>1, <2>3 DEF Paints
    <3>2. Painted(line, pred[line])
      BY <1>2, <3>1, ColourLine
    <3>3. CASE l = line
      <4>1. LineRegionsOf(l)' = Colored(l, pred[l])
        BY <2>2, <3>2, <3>3 DEF Painted
      <4>. QED
        BY <1>1, <4>1 DEF Right, Colored
    <3>4. CASE l # line
      <4>1. LineRegionsOf(l)' = LineRegionsOf(l)
        BY <2>2, <3>2, <3>4 DEF Painted
      <4>2. Right(l)
        BY <1>1, <1>4, <1>7, <2>1, <3>4 DEF RingInv, RestRight
      <4>. QED
        BY <1>1, <4>1, <4>2 DEF Right, Colored
    <3>. QED
      BY <3>3, <3>4
  <2>4. CASE ~(invalidLine > line)
    <3>1. invalidLine' = invalidLine /\ ring' = ring
      BY <1>1, <2>4
    <3>2. l # line
      BY <1>3, <1>7, <2>4, <3>1 DEF Kept
    <3>3. Right(l)
      BY <1>1, <1>4, <1>7, <2>1, <3>2 DEF RingInv, RestRight
    <3>. QED
      BY <1>1, <3>1, <3>3, RightSame
  <2>. QED
    BY <2>3, <2>4
<1>. QED
  BY <1>2, <1>6, <1>7, RingRest

(* Configuration: nothing is valid any more.                               *)
LEMMA RingConfigure ==
  ASSUME RingInv, Configure
  PROVE  RingInv'
<1>1. IInv /\ IInv'
  BY ConfigureStep DEF RingInv
<1>2. ASSUME Idle, UNCHANGED <<wSize, lrSize, job>>, invalidLine' = 0
      PROVE  RingInv'
  <2>1. \A l \in Lines : ~(l < invalidLine')
    BY <1>2 DEF Lines
  <2>2. Within' /\ \A l \in Lines : ~Kept(l)'
    BY <2>1 DEF Within, Kept
  <2>3. Sized' /\ Idle'
    BY <1>2 DEF RingInv, Sized, Idle
  <2>. QED
    BY <1>1, <2>2, <2>3, RingRest
<1>3. ASSUME NEW g \in Grammars \cup {NoGrammar}, SetFileType(g)
      PROVE  RingInv'
  BY <1>2, <1>3 DEF SetFileType, windowVars, ringVars
<1>4. ASSUME NEW m \in Mappers, SetRegionMapper(m)
      PROVE  RingInv'
  BY <1>2, <1>4 DEF SetRegionMapper, remapLRS, windowVars
<1>5. ASSUME SetRegionCompact
      PROVE  RingInv'
  BY <1>2, <1>5 DEF SetRegionCompact, remapLRS, windowVars
<1>6. ASSUME NEW n \in BackParses, SetBackParse(n)
      PROVE  RingInv'
  <2>1. /\ Idle
        /\ UNCHANGED <<text, docLines, unannounced, grammar, mapper, lineCount,
                       invalidLine, wStart, wSize, firstLine, ring, lrSize, pred, job>>
    BY <1>6 DEF SetBackParse, hostVars, windowVars, ringVars
  <2>2. Sized' /\ Within' /\ Idle'
    BY <2>1 DEF RingInv, Sized, Within, Idle
  <2>3. ASSUME NEW l \in Lines, Kept(l)', grammar' # NoGrammar, InCover(l)'
        PROVE  Right(l)'
    <3>1. Right(l)
      BY <2>1, <2>3 DEF RingInv, RestRight, Kept, Untouched, InCover
    <3>. QED
      BY <2>1, <3>1, RightSame
  <2>. QED
    BY <1>1, <2>2, <2>3, RingRest
<1>. QED
  BY <1>3, <1>4, <1>5, <1>6 DEF Configure

(* The window moves; the number of lines becomes known.                    *)
LEMMA RingWindow ==
  ASSUME RingInv, OneSize,
         \/ \E s \in Lines, n \in WindowSizes : VisibleTextEvent(s, n)
         \/ \E n \in LineStarts : LineCountEvent(n)
  PROVE  RingInv'
<1>1. IInv /\ IInv' /\ TypeOK
  BY WindowStep DEF RingInv, IInv
<1>2. /\ Idle
      /\ UNCHANGED <<text, docLines, unannounced, grammar, mapper, wSize,
                     invalidLine, firstLine, ring, lrSize, pred, job>>
      /\ lineCount' = lineCount \/ lineCount' = docLines
  BY DEF VisibleTextEvent, LineCountEvent, hostVars, windowVars, ringVars, OneSize, RingInv, Sized
<1>3. Sized' /\ Idle'
  BY <1>2 DEF RingInv, Sized, Idle
<1>4. Within'
  BY <1>2 DEF RingInv, Within
<1>5. ASSUME NEW l \in Lines, Kept(l)', grammar' # NoGrammar, InCover(l)'
      PROVE  Right(l)'
  <2>1. Right(l)
    BY <1>2, <1>5 DEF RingInv, RestRight, Kept, Untouched, InCover
  <2>. QED
    BY <1>2, <2>1, RightSame
<1>. QED
  BY <1>1, <1>3, <1>4, <1>5, RingRest

(* The host edits its text.                                                *)
LEMMA RingEdit ==
  ASSUME RingInv, Host
  PROVE  RingInv'
<1>1. IInv /\ IInv' /\ TypeOK
  BY EditStep DEF RingInv, IInv
<1>2. ASSUME NEW kind \in {"line", "text"}, NEW at \in Lines, Edit(kind, at),
             docLines' >= docLines \/ (kind = "text" /\ docLines' >= at),
             \A l \in Lines : l < at \/ (kind = "line" /\ l # at) => text'[l] = text[l]
      PROVE  RingInv'
  <2>1. /\ Idle /\ unannounced = Announced
        /\ unannounced' = [edit |-> kind, at |-> at]
        /\ UNCHANGED <<grammar, mapper, lineCount, invalidLine, backParse, wStart, wSize,
                       firstLine, ring, lrSize, pred, job>>
    BY <1>2 DEF Edit, windowVars, ringVars
  <2>2. /\ docLines \in Int /\ docLines' \in Int /\ lineCount \in Int /\ invalidLine \in Int
        /\ \A l \in Lines : l \in Int
    BY <1>1 DEF IInv, TypeOK, LineStarts, Lines
  <2>3. \A l \in Lines : l < invalidLine => l < lineCount /\ l < docLines
    BY <2>1 DEF RingInv, Within, Announced, Lines
  <2>4. Within'
    <3>1. \A l \in Lines : l < invalidLine /\ (l < at \/ kind = "line") => l < docLines'
      BY <1>2, <2>2, <2>3
    <3>. QED
      BY <2>1, <2>3, <3>1 DEF Within
  <2>5. Sized' /\ Idle'
    BY <2>1 DEF RingInv, Sized, Idle
  <2>6. ASSUME NEW l \in Lines, Kept(l)', grammar' # NoGrammar, InCover(l)'
        PROVE  Right(l)'
    <3>1. l < invalidLine /\ text'[l] = text[l]
      BY <1>2, <2>1, <2>6 DEF Kept, Untouched
    <3>2. Kept(l)
      BY <2>1, <3>1 DEF Kept, Untouched, Announced, Lines
    <3>3. Right(l)
      BY <2>1, <2>6, <3>2 DEF RingInv, RestRight, InCover
    <3>. QED
      BY <2>1, <3>1, <3>3, RightSame
  <2>. QED
    BY <1>1, <2>4, <2>5, <2>6, RingRest
<1>3. ASSUME NEW l \in Lines, NEW c \in Contents, ReplaceLine(l, c)
      PROVE  RingInv'
  <2>1. Edit("line", l) /\ docLines' = docLines /\ text' = [text EXCEPT ![l] = c]
    BY <1>3 DEF ReplaceLine
  <2>2. \A k \in Lines : k # l => text'[k] = text[k]
    BY <1>1, <2>1 DEF TypeOK
  <2>3. docLines' >= docLines
    BY <1>1, <2>1 DEF TypeOK
  <2>. QED
    BY <1>2, <2>1, <2>2, <2>3 DEF Lines
<1>4. ASSUME NEW l \in Lines, NEW c \in Contents, InsertLine(l, c)
      PROVE  RingInv'
  <2>1. /\ Edit("text", l) /\ docLines' = docLines + 1
        /\ text' = [i \in Lines |-> IF i < l THEN text[i] ELSE IF i = l THEN c ELSE text[i - 1]]
    BY <1>4 DEF InsertLine
  <2>2. docLines' >= docLines /\ \A k \in Lines : k < l => text'[k] = text[k]
    BY <1>1, <2>1 DEF TypeOK
  <2>. QED
    BY <1>2, <2>1, <2>2
<1>5. ASSUME NEW l \in Lines, DeleteLine(l)
      PROVE  RingInv'
  <2>1. /\ Edit("text", l) /\ docLines' = docLines - 1 /\ l < docLines
        /\ text' = [i \in Lines |-> IF i < l \/ i = MaxLines - 1 THEN text[i] ELSE text[i + 1]]
    BY <1>5 DEF DeleteLine
  <2>2. docLines' >= l /\ \A k \in Lines : k < l => text'[k] = text[k]
    BY <1>1, <2>1 DEF TypeOK, Lines
  <2>. QED
    BY <1>2, <2>1, <2>2
<1>. QED
  BY <1>3, <1>4, <1>5 DEF Host

(* Nothing is valid at first.                                              *)
LEMMA RingInvInit == Init => RingInv
<1>. SUFFICES ASSUME Init PROVE RingInv
  OBVIOUS
<1>1. IInv
  BY IInvInit
<1>2. Sized /\ Within /\ RestRight /\ JobRight
  BY DEF Init, Sized, Within, RestRight, JobRight, Idle, NoJob, Lines
<1>. QED
  BY <1>1, <1>2 DEF RingInv

(* Whatever line is asked for.                                             *)
LEMMA RingAsked ==
  ASSUME RingInv, NEW l \in -1 .. MaxLines, GetLineRegions(l) \/ Validate(l, TRUE)
  PROVE  RingInv'
<1>1. l \in -1 .. MaxLines /\ l \in NotAsked .. MaxLines /\ NotAsked \in NotAsked .. MaxLines
  BY DEF NotAsked
<1>2. CASE Ready /\ (Rebuild(l, l) \/ Rebuild(l, NotAsked))
  BY <1>1, <1>2, RingRebuild
<1>3. CASE GetLineRegions(l) /\ ~Rebuild(l, l)
  <2>1. /\ Ready
        /\ UNCHANGED <<text, docLines, unannounced, grammar, mapper, lineCount,
                       invalidLine, wStart, wSize, firstLine, ring, lrSize, pred, job>>
    BY <1>3 DEF GetLineRegions, hostVars, windowVars, ringVars
  <2>2. IInv'
    BY <1>1, <1>3, GetLineRegionsStep DEF RingInv
  <2>3. Sized' /\ Within' /\ Idle'
    BY <2>1 DEF RingInv, Sized, Within, Ready, Idle
  <2>4. ASSUME NEW m \in Lines, Kept(m)', grammar' # NoGrammar, InCover(m)'
        PROVE  Right(m)'
    <3>1. Right(m)
      BY <2>1, <2>4 DEF RingInv, RestRight, Kept, Untouched, InCover, Ready
    <3>. QED
      BY <2>1, <3>1, RightSame
  <2>. QED
    BY <2>2, <2>3, <2>4, RingRest
<1>. QED
  BY <1>2, <1>3 DEF GetLineRegions, Validate

(* Nothing it says anything of changes.                                    *)
LEMMA RingSame ==
  ASSUME RingInv, IInv',
         UNCHANGED <<text, docLines, unannounced, grammar, mapper, lineCount,
                     invalidLine, wStart, wSize, firstLine, ring, lrSize, pred, job>>
  PROVE  RingInv'
<1>1. \A l \in Lines : Right(l) => Right(l)'
  BY RightSame
<1>2. \A l \in Lines : (InCover(l)' <=> InCover(l)) /\ (Kept(l)' <=> Kept(l))
  BY DEF InCover, Kept, Untouched
<1>3. Sized' /\ Within'
  BY DEF RingInv, Sized, Within
<1>4. RestRight' /\ JobRight'
  BY <1>1, <1>2 DEF RingInv, RestRight, JobRight, Idle
<1>. QED
  BY <1>3, <1>4 DEF RingInv

(* Every step keeps the invariant.                                         *)
LEMMA RingInvNext == ASSUME OneSize PROVE RingInv /\ [Next]_vars => RingInv'
<1>. SUFFICES ASSUME RingInv, [Next]_vars PROVE RingInv'
  OBVIOUS
<1>1. CASE Host
  BY <1>1, RingEdit
<1>2. CASE Announce
  BY <1>2, RingModifyEvent, RingModifyLineEvent, RingWindow DEF Announce
<1>3. CASE Configure
  BY <1>3, RingConfigure
<1>4. CASE View
  <2>1. ASSUME NEW l \in Asked, GetLineRegions(l) \/ Validate(l, TRUE)
        PROVE  RingInv'
    <3>1. l \in -1 .. MaxLines
      BY DEF Asked
    <3>. QED
      BY <2>1, <3>1, RingAsked
  <2>2. ASSUME NEW l \in -1 .. MaxLines, Validate(l, FALSE)
        PROVE  RingInv'
    <3>1. l \in Int
      OBVIOUS
    <3>. QED
      BY <2>2, <3>1, RingValidate
  <2>3. CASE IdleJob
    <3>1. invalidLine + IdleLines \in Int
      BY DEF RingInv, IInv, TypeOK, LineStarts
    <3>. QED
      BY <2>3, <3>1, RingValidate DEF IdleJob
  <2>. QED
    BY <1>4, <2>1, <2>2, <2>3, RingWindow DEF View
<1>5. CASE Parser
  BY <1>5, RingParseLine, RingEndParse DEF Parser
<1>6. CASE UNCHANGED vars
  <2>1. UNCHANGED <<text, docLines, unannounced, grammar, mapper, lineCount,
                    invalidLine, wStart, wSize, firstLine, ring, lrSize, pred, job>>
    BY <1>6 DEF vars, hostVars, windowVars, ringVars
  <2>2. IInv'
    BY <1>6, IInvNext DEF RingInv
  <2>. QED
    BY <2>1, <2>2, RingSame
<1>. QED
  BY <1>1, <1>2, <1>3, <1>4, <1>5, <1>6 DEF Next

(* A table filled from the top of a text down.                             *)
IsTable(f, g, t, n) ==
  f = [l \in 0 .. n |-> IF l = 0 THEN Root ELSE Scan[g][<<f[l - 1], t[l - 1]>>]]

(* A table filled from the line above, however long.                       *)
LEMMA TableExists ==
  ASSUME NEW g, NEW t, NEW M \in Nat
  PROVE  \E f : IsTable(f, g, t, M)
<1>. DEFINE Table(n, f) ==
              f = [l \in 0 .. n |-> IF l = 0 THEN Root ELSE Scan[g][<<f[l - 1], t[l - 1]>>]]
            S == {n \in Nat : \E f : Table(n, f)}
<1>1. 0 \in S
  <2>. DEFINE f == [l \in 0 .. 0 |-> Root]
  <2>1. Table(0, f)
    OBVIOUS
  <2>. QED
    BY <2>1
<1>2. ASSUME NEW n \in Nat, n \in S
      PROVE  n + 1 \in S
  <2>1. PICK f : Table(n, f)
    BY <1>2
  <2>. DEFINE h == [l \in 0 .. n + 1 |-> IF l = n + 1 THEN Scan[g][<<f[n], t[n]>>] ELSE f[l]]
  <2>2. \A l \in 0 .. n : h[l] = f[l]
    OBVIOUS
  <2>3. \A l \in 0 .. n : f[l] = IF l = 0 THEN Root ELSE Scan[g][<<f[l - 1], t[l - 1]>>]
    BY <2>1
  <2>4. h[n + 1] = Scan[g][<<f[n], t[n]>>]
    OBVIOUS
  <2>5. \A l \in 0 .. n + 1 : h[l] = IF l = 0 THEN Root ELSE Scan[g][<<h[l - 1], t[l - 1]>>]
    <3>. SUFFICES ASSUME NEW l \in 0 .. n + 1
                  PROVE  h[l] = IF l = 0 THEN Root ELSE Scan[g][<<h[l - 1], t[l - 1]>>]
      OBVIOUS
    <3>. HIDE DEF h
    <3>1. CASE l = n + 1
      <4>1. l - 1 = n /\ n \in 0 .. n /\ l # 0
        BY <3>1
      <4>. QED
        BY <2>2, <2>4, <3>1, <4>1
    <3>2. CASE l = 0
      <4>1. l \in 0 .. n
        BY <3>2
      <4>. QED
        BY <2>2, <2>3, <3>2, <4>1
    <3>3. CASE l # 0 /\ l # n + 1
      <4>1. l \in 0 .. n /\ l - 1 \in 0 .. n
        BY <3>3
      <4>. QED
        BY <2>2, <2>3, <3>3, <4>1
    <3>. QED
      BY <3>1, <3>2, <3>3
  <2>6. h = [l \in 0 .. n + 1 |-> h[l]]
    OBVIOUS
  <2>7. Table(n + 1, h)
    <3>. HIDE DEF h
    <3>. QED
      BY <2>5, <2>6
  <2>8. \E k : Table(n + 1, k)
    <3>. HIDE DEF Table, h
    <3>. QED
      BY <2>7
  <2>9. n + 1 \in Nat
    OBVIOUS
  <2>. HIDE DEF Table
  <2>. QED
    BY <2>8, <2>9
<1>. HIDE DEF S
<1>3. Nat \subseteq S
  BY <1>1, <1>2, SetInduction
<1>. QED
  BY <1>3 DEF S, IsTable

(* TrueState is what its definition says.                                  *)
LEMMA TrueStateIs ==
  TrueState = [l \in LineStarts |-> IF l = 0 THEN Root
                                    ELSE Scan[grammar][<<TrueState[l - 1], text[l - 1]>>]]
<1>1. PICK f : IsTable(f, grammar, text, MaxLines)
  BY TableExists
<1>2. f = [l \in LineStarts |-> IF l = 0 THEN Root ELSE Scan[grammar][<<f[l - 1], text[l - 1]>>]]
  BY <1>1 DEF IsTable, LineStarts
<1>3. \E h : h = [l \in LineStarts |-> IF l = 0 THEN Root
                                         ELSE Scan[grammar][<<h[l - 1], text[l - 1]>>]]
  BY <1>2
<1>. QED
  BY <1>3 DEF TrueState

(* The same, a line at a time.                                             *)
LEMMA TrueStateNext ==
  /\ TrueState[0] = Root
  /\ \A l \in Lines : TrueState[l + 1] = Scan[grammar][<<TrueState[l], text[l]>>]
<1>1. \A l \in Lines : l + 1 \in LineStarts /\ l + 1 # 0 /\ (l + 1) - 1 = l
  BY DEF Lines, LineStarts
<1>2. 0 \in LineStarts
  BY DEF LineStarts
<1>. DEFINE ts == TrueState
<1>3. ts = [l \in LineStarts |-> IF l = 0 THEN Root ELSE Scan[grammar][<<ts[l - 1], text[l - 1]>>]]
  BY TrueStateIs
<1>. HIDE DEF ts
<1>4. ts[0] = Root
  BY <1>2, <1>3
<1>5. ASSUME NEW l \in Lines PROVE ts[l + 1] = Scan[grammar][<<ts[l], text[l]>>]
  <2>. DEFINE m == l + 1
  <2>1. m \in LineStarts /\ m # 0 /\ m - 1 = l
    BY <1>1
  <2>. HIDE DEF m
  <2>2. ts[m] = Scan[grammar][<<ts[m - 1], text[m - 1]>>]
    BY <1>3, <2>1
  <2>. QED
    BY <2>1, <2>2 DEF m
<1>. QED
  BY <1>4, <1>5 DEF ts

(* Where the cache's predictions hold, it has the stacks of a parse of the *)
(* whole text.                                                             *)
LEMMA PredictedTrue ==
  ASSUME pred[0] = Root, NEW k \in LineStarts, \A l \in Lines : l < k => Predicted(l)
  PROVE  \A l \in 0 .. k : pred[l] = TrueState[l]
<1>. DEFINE S == {n \in Nat : n <= k => pred[n] = TrueState[n]}
<1>0. k \in Nat /\ k <= MaxLines
  BY DEF LineStarts
<1>1. 0 \in S
  BY TrueStateNext
<1>2. ASSUME NEW n \in Nat, n \in S
      PROVE  n + 1 \in S
  <2>. SUFFICES ASSUME n + 1 <= k
                PROVE  pred[n + 1] = TrueState[n + 1]
    OBVIOUS
  <2>1. n \in Lines /\ n < k
    BY <1>0 DEF Lines
  <2>2. pred[n + 1] = Scan[grammar][<<pred[n], text[n]>>]
    BY <2>1 DEF Predicted
  <2>3. pred[n] = TrueState[n]
    BY <1>2, <2>1, <1>0
  <2>4. TrueState[n + 1] = Scan[grammar][<<TrueState[n], text[n]>>]
    BY <2>1, TrueStateNext
  <2>. QED
    BY <2>2, <2>3, <2>4
<1>. HIDE DEF S
<1>3. Nat \subseteq S
  BY <1>1, <1>2, SetInduction
<1>. QED
  BY <1>0, <1>3 DEF S

(* The cache has the stacks of a parse of the whole text for every line    *)
(* known.                                                                  *)
LEMMA KnownTrue ==
  ASSUME IInv, grammar # NoGrammar
  PROVE  /\ Known \in LineStarts /\ Known <= invalidLine /\ Known <= unannounced.at
         /\ \A l \in 0 .. Known : pred[l] = TrueState[l]
<1>1. /\ Known \in LineStarts /\ Known <= invalidLine /\ Known <= unannounced.at
      /\ \A l \in Lines : l < Known => l < invalidLine /\ l < unannounced.at
  BY DEF IInv, TypeOK, Edits, LineStarts, Lines, Known, Smaller
<1>2. pred[0] = Root /\ \A l \in Lines : l < Known => Predicted(l)
  BY <1>1 DEF IInv, StrongCoherent, Untouched
<1>3. \A l \in 0 .. Known : pred[l] = TrueState[l]
  BY <1>1, <1>2, PredictedTrue
<1>. QED
  BY <1>1, <1>3

(* What the invariant has to show.                                         *)
LEMMA RightIsFresh == RingInv => RingFresh
<1>. SUFFICES ASSUME RingInv, grammar # NoGrammar, Idle,
                     NEW l \in firstLine .. firstLine + regionCoverLines(wSize) - 1,
                     l < Known, l < lineCount, l < docLines
              PROVE  LineRegionsOf(l) = Fresh(l)
  BY DEF RingFresh
<1>1. IInv /\ TypeOK
  BY DEF RingInv, IInv
<1>2. /\ Known \in LineStarts /\ Known <= invalidLine /\ Known <= unannounced.at
      /\ \A m \in 0 .. Known : pred[m] = TrueState[m]
  BY <1>1, KnownTrue
<1>3. /\ firstLine \in Nat /\ lineCount \in LineStarts /\ invalidLine \in Nat
      /\ unannounced.at \in Nat /\ regionCoverLines(wSize) \in Nat
  BY <1>1 DEF TypeOK, Edits, LineStarts, regionCoverLines, regionWindow
<1>4. l \in Lines /\ InCover(l) /\ Kept(l) /\ l \in 0 .. Known
  BY <1>2, <1>3 DEF Lines, LineStarts, InCover, Kept, Untouched
<1>5. LineRegionsOf(l) = Colored(l, pred[l])
  BY <1>4 DEF RingInv, RestRight, Right
<1>. QED
  BY <1>2, <1>4, <1>5 DEF Fresh

(* The coloured lines of the cover that are valid are what the text, the   *)
(* file type and the mapping give, for every host whose window keeps its   *)
(* size: however it scrolls, edits, remaps and lets the editor parse.      *)
THEOREM CoverIsFresh == ASSUME OneSize PROVE Spec => []RingFresh
<1>1. RingInv /\ [Next]_vars => RingInv'
  BY RingInvNext
<1>. QED
  BY <1>1, RingInvInit, RightIsFresh, PTL DEF Spec

-----------------------------------------------------------------------------
(* A host that asks for the lines of its window and for the one below it.  *)
Near == OneSize /\ Reach \in {0, 1}

(* The window is within the cover.                                         *)
Placed == firstLine <= wStart /\ wStart + wSize <= firstLine + regionCoverLines(wSize)
(* The lines ShownFresh is about.                                          *)
Wanted(l) ==
  /\ wStart <= l /\ l < wStart + wSize /\ l < lineCount
  /\ l <= firstLine + regionWindow(wSize)

(* While a parse runs: it carries the stacks of a parse of the whole text, *)
(* also where a read goes on below the valid part, and reaches the line it *)
(* was asked for.                                                          *)
JobTrue ==
  ~Idle =>
    /\ shown = None
    /\ job.state = TrueState[job.line]
    /\ job.mode = "read" =>
         \A l \in Lines : InCover(l) /\ l < job.line => LineRegionsOf(l) = Fresh(l)
    /\ job.asked # NotAsked => Placed /\ (Wanted(job.asked) => job.asked < job.stop)

(* The inductive invariant of what getLineRegions returns.                 *)
ShownInv == RingInv /\ JobTrue /\ ShownFresh

(* A call that returns nothing.                                            *)
LEMMA NothingShown ==
  ASSUME RingInv', Idle', shown' = None
  PROVE  ShownInv'
BY DEF ShownInv, JobTrue, ShownFresh

(* What is served of the valid part of the window.                         *)
WindowFresh ==
  \A a \in Int :
    /\ Ready /\ grammar # NoGrammar /\ Placed
    /\ wStart <= a /\ a < wStart + wSize /\ a < lineCount /\ a < invalidLine
    => LineRegionsOf(a) = Fresh(a)

(* It is what a parse of the whole text gives.                             *)
LEMMA WindowIsFresh == RingInv => WindowFresh
<1>. SUFFICES ASSUME RingInv, NEW a \in Int, Ready, grammar # NoGrammar, Placed,
                     wStart <= a, a < wStart + wSize, a < lineCount, a < invalidLine
              PROVE  LineRegionsOf(a) = Fresh(a)
  BY DEF WindowFresh
<1>1. RingFresh /\ IInv /\ TypeOK
  BY RightIsFresh DEF RingInv, IInv
<1>2. /\ firstLine \in Nat /\ wStart \in Nat /\ wSize \in Nat /\ lineCount \in LineStarts
      /\ invalidLine \in LineStarts
  BY <1>1 DEF TypeOK, LineStarts
<1>3. regionCoverLines(wSize) \in Nat
  BY <1>2 DEF regionCoverLines, regionWindow
<1>4. a \in firstLine .. firstLine + regionCoverLines(wSize) - 1
  BY <1>2, <1>3 DEF Placed
<1>5. a < Known
  BY <1>2 DEF Known, Announced, Smaller, LineStarts, Ready
<1>. QED
  BY <1>1, <1>4, <1>5 DEF RingFresh, Ready

(* The same after a step.                                                  *)
LEMMA NextWindowIsFresh == RingInv' => WindowFresh'
BY WindowIsFresh, PTL

(* What StartParse does to what is shown.                                  *)
LEMMA ShownStart ==
  ASSUME RingInv, RingInv', Ready, NEW plan, plan.from \in Nat, plan.to \in Int,
         plan.to <= lineCount,
         plan.mode \in {"read", "update"}, plan.from <= invalidLine,
         NEW asked \in NotAsked .. MaxLines, StartParse(plan, asked),
         UNCHANGED <<hostVars, grammar, mapper, lineCount, wSize, pred>>,
         plan.mode = "read" /\ plan.from < plan.to => plan.from = firstLine',
         asked # NotAsked => Placed' /\ (Wanted(asked)' => asked < plan.to)
  PROVE  ShownInv'
<1>1. /\ UNCHANGED <<text, docLines, unannounced>> /\ Idle /\ unannounced = Announced
      /\ lineCount = docLines /\ TypeOK /\ lineCount \in LineStarts /\ invalidLine \in LineStarts
      /\ IInv /\ asked \in Int
  <2>1. TypeOK /\ IInv
    BY DEF RingInv, IInv
  <2>2. lineCount \in LineStarts /\ invalidLine \in LineStarts
    BY <2>1 DEF TypeOK
  <2>3. asked \in Int
    BY DEF NotAsked
  <2>. QED
    BY <2>1, <2>2, <2>3 DEF hostVars, Ready
<1>2. CASE plan.from < plan.to /\ grammar # NoGrammar
  <2>1. /\ job' = [mode |-> plan.mode, line |-> plan.from, stop |-> plan.to,
                   state |-> pred[plan.from], asked |-> asked]
        /\ shown' = None
    BY <1>2 DEF StartParse
  <2>2. /\ job'.mode = plan.mode /\ job'.line = plan.from /\ job'.stop = plan.to
        /\ job'.state = pred[plan.from] /\ job'.asked = asked
    BY <2>1
  <2>3. pred[plan.from] = TrueState[plan.from]
    <3>1. Known = invalidLine
      BY <1>1 DEF Known, Smaller, Announced, LineStarts
    <3>2. \A l \in 0 .. invalidLine : pred[l] = TrueState[l]
      BY <1>1, <1>2, <3>1, KnownTrue
    <3>. QED
      BY <1>1, <3>2 DEF LineStarts
  <2>4. TrueState' = TrueState
    BY <1>1 DEF TrueState
  <2>5. \A l \in Lines : ~(plan.mode = "read" /\ InCover(l)' /\ l < plan.from)
    BY <1>2 DEF InCover, Lines
  <2>6. JobTrue'
    BY <2>1, <2>2, <2>3, <2>4, <2>5 DEF JobTrue
  <2>7. ShownFresh'
    BY <2>1 DEF ShownFresh
  <2>. QED
    BY <2>6, <2>7 DEF ShownInv
<1>3. CASE ~(plan.from < plan.to /\ grammar # NoGrammar)
  <2>1. /\ shown' = Returned(asked, LineRegionsOf(asked)')
        /\ job' = job
        /\ grammar # NoGrammar => ~(plan.from < plan.to) /\ invalidLine' = invalidLine
    BY <1>3 DEF StartParse
  <2>2. Idle' /\ JobTrue'
    BY <1>1, <2>1 DEF Idle, JobTrue
  <2>3. Ready'
    BY <1>1, <2>2 DEF Ready
  <2>4. CASE asked = NotAsked \/ grammar = NoGrammar
    BY <1>1, <2>1, <2>2, <2>4 DEF ShownInv, ShownFresh, Returned
  <2>5. CASE asked # NotAsked /\ grammar # NoGrammar
    <3>1. shown' = [line |-> asked, regions |-> LineRegionsOf(asked)']
      BY <2>1, <2>5 DEF Returned
    <3>2. shown'.line = asked /\ shown'.regions = LineRegionsOf(asked)'
      BY <3>1
    <3>3. Wanted(asked)' => asked < invalidLine'
      BY <1>1, <2>1, <2>5 DEF LineStarts
    <3>4. ASSUME wStart' <= asked,
                 asked < IF wStart' + wSize' < lineCount' THEN wStart' + wSize' ELSE lineCount',
                 asked < invalidLine' \/ asked <= (firstLine + regionWindow(wSize))'
          PROVE  LineRegionsOf(asked)' = Fresh(asked)'
      <4>1. TypeOK'
        BY DEF RingInv, IInv
      <4>0. wStart' \in Nat /\ wSize' \in Nat /\ lineCount' \in Nat
        BY <4>1 DEF TypeOK, LineStarts
      <4>2. asked < wStart' + wSize' /\ asked < lineCount'
        <5>. DEFINE end == wStart' + wSize'
                    count == lineCount'
        <5>1. /\ end \in Int /\ count \in Int /\ asked \in Int
              /\ asked < IF end < count THEN end ELSE count
          <6>1. end \in Int
            BY <4>0
          <6>2. count \in Int
            BY <4>0
          <6>3. asked \in Int
            BY <1>1
          <6>4. asked < IF end < count THEN end ELSE count
            BY <3>4
          <6>. QED
            BY <6>1, <6>2, <6>3, <6>4
        <5>. HIDE DEF end, count
        <5>2. asked < end /\ asked < count
          BY <5>1
        <5>. QED
          BY <5>2 DEF end, count
      <4>3. asked < invalidLine'
        BY <3>3, <3>4, <4>2 DEF Wanted
      <4>4. WindowFresh'
        BY NextWindowIsFresh
      <4>. QED
        BY <1>1, <2>3, <2>5, <3>4, <4>2, <4>3, <4>4 DEF WindowFresh
    <3>5. ShownFresh'
      BY <3>2, <3>4 DEF ShownFresh, Smaller
    <3>. QED
      BY <2>2, <3>5 DEF ShownInv
  <2>. QED
    BY <2>4, <2>5
<1>. QED
  BY <1>2, <1>3

(* validate with rebuildRegions, getLineRegions: the parse begins at the   *)
(* cover or at the first invalid line, and reaches the line asked for.     *)
LEMMA ShownRebuild ==
  ASSUME RingInv, Ready, Reach \in {0, 1}, NEW lno \in Asked, NEW asked \in {NotAsked, lno},
         Rebuild(lno, asked)
  PROVE  ShownInv'
<1>. DEFINE plan == Plan(lno)
<1>1. /\ TypeOK /\ Sized /\ lineCount \in Nat \ {0} /\ IInv
      /\ lno \in -1 .. MaxLines /\ asked \in NotAsked .. MaxLines
  BY DEF RingInv, IInv, Ready, TypeOK, Asked, NotAsked
<1>2. /\ plan.from \in Nat /\ plan.to \in Int /\ plan.to <= lineCount
      /\ plan.mode \in {"read", "update"}
      /\ plan.mode = "update" => plan.from = invalidLine
      /\ plan.top \in Nat /\ plan.first \in Nat
  BY <1>1, PlanType DEF LineStarts
<1>3. /\ plan.first <= plan.top
      /\ plan.top + wSize <= plan.first + 2 * wSize
      /\ plan.mode = "read" => plan.from < invalidLine
      /\ lno \in 0 .. lineCount - 1 /\ wStart <= lno /\ lno <= wStart + wSize => plan.top = wStart
      /\ \/ /\ plan.first = firstLine
            /\ plan.mode = "read" => plan.to <= plan.from
            /\ plan.to \in {lineCount, firstLine + 2 * wSize, wStart + wSize}
         \/ /\ plan.mode = "update" => invalidLine <= plan.first
            /\ plan.mode = "read" => plan.from = plan.first
            /\ \/ plan.to = lineCount
               \/ plan.to = plan.first + 2 * wSize
               \/ /\ plan.to = plan.first + wSize + 1
                  /\ firstLine = plan.first + wSize
  BY <1>1, PlanPlace
<1>4. /\ wStart' = plan.top /\ firstLine' = plan.first
      /\ StartParse(plan, asked)
      /\ UNCHANGED <<hostVars, changes, grammar, mapper, lineCount, backParse, wSize, pred>>
  BY DEF Rebuild
<1>5. RingInv'
  BY <1>1, RingRebuild
<1>. HIDE DEF plan
<1>6. /\ wSize \in Nat \ {0} /\ wSize' = wSize /\ wStart \in Nat /\ invalidLine \in Nat
      /\ firstLine \in Nat
  BY <1>1, <1>4 DEF Sized, TypeOK, LineStarts
<1>7. /\ regionCoverLines(wSize)' = 2 * wSize /\ regionWindow(wSize)' = wSize
  BY <1>6 DEF regionCoverLines, regionWindow
<1>8. Placed'
  BY <1>3, <1>4, <1>6, <1>7 DEF Placed
<1>9. ASSUME asked # NotAsked, Wanted(asked)'
      PROVE  asked < plan.to
  <2>1. asked = lno /\ lno < wStart + wSize + 1 /\ lno < wStart + wSize + Reach
    BY <1>6, <1>9 DEF Asked
  <2>2. /\ plan.top <= lno /\ lno < plan.top + wSize /\ lno < lineCount
        /\ lno <= plan.first + wSize
    BY <1>4, <1>6, <1>7, <1>9, <2>1 DEF Wanted
  <2>3. lno \in Nat /\ lno \in 0 .. lineCount - 1
    BY <1>1, <1>2, <2>2
  <2>4. lno < wStart + wSize
    BY <1>1, <1>3, <1>6, <2>1, <2>2, <2>3
  <2>. QED
    BY <1>1, <1>2, <1>3, <1>6, <2>1, <2>2, <2>3, <2>4
<1>10. plan.from <= invalidLine
  BY <1>2, <1>3, <1>6
<1>11. plan.mode = "read" /\ plan.from < plan.to => plan.from = firstLine'
  BY <1>2, <1>3, <1>4
<1>. QED
  BY <1>1, <1>2, <1>4, <1>5, <1>8, <1>9, <1>10, <1>11, ShownStart

(* A line is parsed.                                                       *)
LEMMA ShownParseLine ==
  ASSUME ShownInv, ParseLine
  PROVE  ShownInv'
<1>. DEFINE next == Scan[grammar][<<job.state, text[job.line]>>]
<1>1. /\ ~Idle /\ job.line < job.stop
      /\ ring' = RingAfter(job.line, job.state)
      /\ job' = [job EXCEPT !.line = @ + 1, !.state = next]
      /\ UNCHANGED <<text, docLines, unannounced, changes, grammar, mapper, lineCount,
                     invalidLine, backParse, wStart, wSize, firstLine, lrSize, shown>>
  BY DEF ParseLine, hostVars, windowVars
<1>2. /\ RingInv /\ IInv /\ TypeOK /\ Sized /\ job \in Jobs /\ RingInv'
  BY RingParseLine DEF ShownInv, RingInv, IInv, TypeOK
<1>3. job.line \in Lines /\ job.stop \in LineStarts
  BY <1>1, <1>2 DEF Jobs, Lines, LineStarts
<1>4. /\ job'.mode = job.mode /\ job'.line = job.line + 1 /\ job'.stop = job.stop
      /\ job'.state = next /\ job'.asked = job.asked
  BY <1>2, <1>1 DEF Jobs
<1>5. /\ shown = None
      /\ job.state = TrueState[job.line]
      /\ job.mode = "read" =>
           \A l \in Lines : InCover(l) /\ l < job.line => LineRegionsOf(l) = Fresh(l)
      /\ job.asked # NotAsked => Placed /\ (Wanted(job.asked) => job.asked < job.stop)
  BY <1>1 DEF ShownInv, JobTrue
<1>6. TrueState' = TrueState
  BY <1>1 DEF TrueState
<1>7. next = TrueState[job.line + 1]
  BY <1>3, <1>5, TrueStateNext
<1>8. \A m \in Lines : checkLine(m) =>
        LineRegionsOf(m)' = IF m = job.line THEN Colored(m, job.state) ELSE LineRegionsOf(m)
  <2>1. Paints(job.line, job.state)
    BY <1>1 DEF Paints
  <2>2. Painted(job.line, job.state)
    BY <1>2, <1>3, <2>1, ColourLine
  <2>. QED
    BY <2>2 DEF Painted
<1>9. \A l \in Lines : /\ InCover(l)' <=> InCover(l)
                       /\ InCover(l) => checkLine(l)
                       /\ l \in Nat
  BY <1>1, <1>2, CoverInRing DEF InCover, Lines
<1>10. \A l \in Lines : Fresh(l)' = Fresh(l)
  BY <1>1, <1>6 DEF Fresh, Colored
<1>11. ASSUME job.mode = "read", NEW l \in Lines, InCover(l), l < job.line + 1
       PROVE  LineRegionsOf(l)' = Fresh(l)'
  <2>1. CASE l = job.line
    <3>1. LineRegionsOf(l)' = Colored(l, TrueState[l])
      BY <1>5, <1>8, <1>9, <1>11, <2>1
    <3>. QED
      BY <1>10, <3>1 DEF Fresh
  <2>2. CASE l # job.line
    <3>1. l < job.line
      BY <1>3, <1>9, <1>11, <2>2 DEF Lines
    <3>2. LineRegionsOf(l)' = LineRegionsOf(l) /\ LineRegionsOf(l) = Fresh(l)
      BY <1>5, <1>8, <1>9, <1>11, <2>2, <3>1
    <3>. QED
      BY <1>10, <3>2
  <2>. QED
    BY <2>1, <2>2
<1>12. (Placed <=> Placed') /\ (Wanted(job.asked) <=> Wanted(job.asked)')
  BY <1>1, <1>4 DEF Placed, Wanted
<1>14. JobTrue'
  BY <1>1, <1>4, <1>5, <1>6, <1>7, <1>9, <1>11, <1>12 DEF JobTrue
<1>15. ShownFresh'
  BY <1>1, <1>5 DEF ShownFresh
<1>. QED
  BY <1>2, <1>14, <1>15 DEF ShownInv

(* A parse ends, and getLineRegions returns.                               *)
LEMMA ShownEndParse ==
  ASSUME ShownInv, EndParse
  PROVE  ShownInv'
<1>1. /\ ~Idle /\ job.line = job.stop
      /\ job.mode = "update" => invalidLine' = stopLine(job.stop) + 1
      /\ shown' = Returned(job.asked, LineRegionsOf(job.asked))
      /\ job' = NoJob
      /\ UNCHANGED <<text, docLines, unannounced, changes, grammar, mapper, lineCount,
                     backParse, wStart, wSize, firstLine, lrSize, ring>>
  BY DEF EndParse, hostVars, windowVars, ringVars
<1>2. /\ RingInv /\ IInv /\ TypeOK /\ RingInv' /\ Idle'
      /\ unannounced = Announced /\ lineCount = docLines /\ grammar # NoGrammar
  BY <1>1, RingEndParse DEF ShownInv, RingInv, IInv, TypeOK, JobCoherent, JobRight, Idle, NoJob
<1>3. CASE job.asked = NotAsked
  BY <1>1, <1>2, <1>3, NothingShown DEF Returned
<1>4. CASE job.asked # NotAsked
  <2>0. PICK a \in NotAsked .. MaxLines : a = job.asked
    <3>1. job \in Jobs
      BY <1>2 DEF TypeOK
    <3>. QED
      BY <3>1 DEF Jobs
  <2>1. /\ job.stop \in Nat /\ a \in Int /\ job.mode \in {"read", "update"}
        /\ lineCount \in Nat /\ lineCount <= MaxLines /\ wStart \in Nat /\ wSize \in Nat
        /\ firstLine \in Nat
    <3>1. job \in Jobs /\ lineCount \in LineStarts /\ wStart \in LineStarts
      BY <1>2 DEF TypeOK
    <3>2. job.stop \in Nat /\ job.mode \in {"read", "update"}
      BY <1>1, <3>1 DEF Jobs, LineStarts, Idle
    <3>4. wSize \in Nat /\ firstLine \in Nat
      BY <1>2 DEF TypeOK
    <3>. QED
      BY <3>1, <3>2, <3>4 DEF LineStarts, NotAsked
  <2>2. /\ Placed /\ (Wanted(a) => a < job.stop)
        /\ job.mode = "read" =>
             \A l \in Lines : InCover(l) /\ l < job.line => LineRegionsOf(l) = Fresh(l)
    BY <1>1, <1>4, <2>0 DEF ShownInv, JobTrue
  <2>3. shown' = [line |-> a, regions |-> LineRegionsOf(a)]
    BY <1>1, <1>4, <2>0 DEF Returned
  <2>4. shown'.line = a /\ shown'.regions = LineRegionsOf(a)
    BY <2>3
  <2>5. /\ LineRegionsOf(a)' = LineRegionsOf(a) /\ Fresh(a)' = Fresh(a)
        /\ Placed' /\ Ready'
    <3>1. TrueState' = TrueState
      BY <1>1 DEF TrueState
    <3>2. LineRegionsOf(a)' = LineRegionsOf(a)
      BY <1>1 DEF LineRegionsOf, checkLine, getLineIndex
    <3>3. Fresh(a)' = Fresh(a)
      BY <1>1, <3>1 DEF Fresh, Colored
    <3>4. Placed'
      BY <1>1, <2>2 DEF Placed
    <3>5. Ready'
      BY <1>1, <1>2 DEF Ready
    <3>. QED
      BY <3>2, <3>3, <3>4, <3>5
  <2>6. ASSUME wStart <= a,
               a < IF wStart + wSize < lineCount THEN wStart + wSize ELSE lineCount,
               a < invalidLine' \/ a <= firstLine + regionWindow(wSize)
        PROVE  LineRegionsOf(a) = Fresh(a)
    <3>1. a < wStart + wSize /\ a < lineCount
      BY <2>1, <2>6
    <3>2. CASE a < invalidLine'
      <4>1. WindowFresh'
        BY <1>2, NextWindowIsFresh
      <4>2. /\ wStart' <= a /\ a < wStart' + wSize' /\ a < lineCount' /\ a \in Int
            /\ grammar' # NoGrammar
        BY <1>1, <1>2, <2>1, <2>6, <3>1
      <4>3. LineRegionsOf(a)' = Fresh(a)'
        BY <2>5, <3>2, <4>1, <4>2 DEF WindowFresh
      <4>. QED
        BY <2>5, <4>3
    <3>3. CASE ~(a < invalidLine')
      <4>1. a < job.stop
        BY <2>2, <2>6, <3>1, <3>3 DEF Wanted
      <4>2. job.mode = "read"
        BY <1>1, <2>1, <3>3, <4>1 DEF stopLine
      <4>3. regionCoverLines(wSize) \in Int
        BY <2>1 DEF regionCoverLines, regionWindow
      <4>4. a \in Lines /\ InCover(a)
        BY <2>1, <2>2, <2>6, <3>1, <4>3 DEF Lines, InCover, Placed
      <4>. QED
        BY <1>1, <2>2, <4>1, <4>2, <4>4
    <3>. QED
      BY <3>2, <3>3
  <2>7. ShownFresh'
    <3>. SUFFICES ASSUME wStart' <= a,
                         a < IF wStart' + wSize' < lineCount' THEN wStart' + wSize' ELSE lineCount',
                         a < invalidLine' \/ a <= firstLine' + regionWindow(wSize)'
                  PROVE  shown'.regions = Fresh(a)'
      BY <2>4 DEF ShownFresh, Smaller
    <3>1. wStart' = wStart /\ wSize' = wSize /\ lineCount' = lineCount /\ firstLine' = firstLine
      BY <1>1
    <3>2. regionWindow(wSize)' = regionWindow(wSize)
      BY <3>1 DEF regionWindow
    <3>. QED
      BY <2>4, <2>5, <2>6, <3>1, <3>2
  <2>8. JobTrue'
    BY <1>2 DEF JobTrue
  <2>. QED
    BY <1>2, <2>7, <2>8 DEF ShownInv
<1>. QED
  BY <1>3, <1>4

(* Nothing was asked at first.                                             *)
LEMMA ShownInvInit == Init => ShownInv
BY RingInvInit DEF ShownInv, JobTrue, ShownFresh, Init, NoJob, Idle

(* Every step keeps the invariant.                                         *)
LEMMA ShownInvNext == ASSUME Near PROVE ShownInv /\ [Next]_vars => ShownInv'
<1>. SUFFICES ASSUME ShownInv, [Next]_vars PROVE ShownInv'
  OBVIOUS
<1>1. RingInv /\ RingInv' /\ OneSize /\ Reach \in {0, 1}
  BY RingInvNext DEF ShownInv, Near
<1>2. CASE Host \/ Announce \/ Configure
  <2>1. Idle' /\ shown' = None
    <3>1. CASE Host
      BY <3>1 DEF Host, ReplaceLine, InsertLine, DeleteLine, Edit, Idle
    <3>2. CASE Announce
      BY <3>2 DEF Announce, ModifyEvent, ModifyLineEvent, LineCountEvent, Idle
    <3>3. CASE Configure
      BY <3>3 DEF Configure, SetFileType, SetRegionMapper, SetRegionCompact, SetBackParse, Idle
    <3>. QED
      BY <1>2, <3>1, <3>2, <3>3
  <2>. QED
    BY <1>1, <2>1, NothingShown
<1>3. CASE View
  <2>1. ASSUME NEW s \in Lines, NEW n \in WindowSizes, VisibleTextEvent(s, n)
        PROVE  ShownInv'
    BY <1>1, <2>1, NothingShown DEF VisibleTextEvent, Idle
  <2>2. ASSUME NEW l \in Asked, Ready, Rebuild(l, l) \/ Rebuild(l, NotAsked)
        PROVE  ShownInv'
    BY <1>1, <2>2, ShownRebuild
  <2>3. ASSUME NEW l \in Asked, GetLineRegions(l), ~Rebuild(l, l)
        PROVE  ShownInv'
    <3>1. /\ Ready /\ backParse > 0 /\ l - invalidLine > backParse
          /\ shown' = [line |-> l, regions |-> None]
          /\ UNCHANGED <<job, backParse, invalidLine>>
      BY <2>3 DEF GetLineRegions, Returned, Asked, NotAsked
    <3>2. shown'.line = l /\ shown'.regions = None
      BY <3>1
    <3>. QED
      BY <1>1, <3>1, <3>2 DEF ShownInv, ShownFresh, JobTrue, Ready, Idle
  <2>4. ASSUME NEW l \in Int, Validate(l, FALSE)
        PROVE  ShownInv'
    <3>. DEFINE plan == CachePlan(l)
    <3>1. /\ StartParse(plan, NotAsked) /\ Ready
          /\ UNCHANGED <<hostVars, grammar, mapper, lineCount, wSize, pred>>
      BY <2>4 DEF Validate, windowVars
    <3>2. lineCount \in Nat /\ invalidLine \in Nat
      BY <1>1 DEF RingInv, IInv, TypeOK, LineStarts
    <3>3. /\ plan.from = invalidLine /\ plan.mode = "update"
          /\ plan.to \in Int /\ plan.to <= lineCount
      BY <3>2 DEF CachePlan, Smaller
    <3>. HIDE DEF plan
    <3>4. NotAsked \in NotAsked .. MaxLines
      BY DEF NotAsked
    <3>. QED
      BY <1>1, <3>1, <3>2, <3>3, <3>4, ShownStart
  <2>5. CASE IdleJob
    <3>1. invalidLine + IdleLines \in Int
      BY <1>1 DEF RingInv, IInv, TypeOK, LineStarts
    <3>. QED
      BY <2>4, <2>5, <3>1 DEF IdleJob
  <2>. QED
    BY <1>3, <2>1, <2>2, <2>3, <2>4, <2>5 DEF View, GetLineRegions, Validate
<1>4. CASE Parser
  BY <1>4, ShownParseLine, ShownEndParse DEF Parser
<1>5. CASE UNCHANGED vars
  <2>1. UNCHANGED <<text, docLines, unannounced, grammar, mapper, lineCount, backParse,
                    invalidLine, wStart, wSize, firstLine, ring, lrSize, pred, job, shown>>
    BY <1>5 DEF vars, hostVars, windowVars, ringVars
  <2>2. TrueState' = TrueState
    BY <2>1 DEF TrueState
  <2>3. \A l : /\ Fresh(l)' = Fresh(l) /\ LineRegionsOf(l)' = LineRegionsOf(l)
               /\ InCover(l)' <=> InCover(l)
               /\ Wanted(l)' <=> Wanted(l)
    BY <2>1, <2>2 DEF Fresh, Colored, LineRegionsOf, checkLine, getLineIndex, InCover, Wanted
  <2>4. (Placed' <=> Placed) /\ (Idle' <=> Idle)
    BY <2>1 DEF Placed, Idle
  <2>5. JobTrue'
    BY <2>1, <2>2, <2>3, <2>4 DEF ShownInv, JobTrue
  <2>6. ShownFresh'
    BY <2>1, <2>3 DEF ShownInv, ShownFresh
  <2>. QED
    BY <1>1, <2>5, <2>6 DEF ShownInv
<1>. QED
  BY <1>2, <1>3, <1>4, <1>5 DEF Next

(* What getLineRegions returns for a line of the window is what a parse of *)
(* the whole text gives it, but for the part validate leaves to its next   *)
(* call, for every host that asks no further than a line below its window. *)
THEOREM ShownIsFresh == ASSUME Near PROVE Spec => []ShownFresh
<1>1. ShownInv /\ [Next]_vars => ShownInv'
  BY ShownInvNext
<1>2. ShownInv => ShownFresh
  BY DEF ShownInv
<1>. QED
  BY <1>1, <1>2, ShownInvInit, PTL DEF Spec

=============================================================================
