------------------------------ MODULE Chunking ------------------------------
(***************************************************************************)
(* From a document to the chunks that are indexed (chunking/): the         *)
(* document is cut into sections by a scan that depends on its kind, and   *)
(* every section into windows.                                             *)
(*                                                                         *)
(* A line of a document has its number, its length and what the scans look *)
(* for in it.  Indentation is left out: strip() removes blank lines at     *)
(* both ends and the last newline.                                         *)
(***************************************************************************)
EXTENDS ChunkWindows, SequencesExt

CONSTANTS
    Documents,      \* [type, lines, nl, decls]
    DocMax,         \* documentation_max_chars
    CodeMax,        \* code_max_chars
    StructMax,      \* structured_max_chars
    MinContext      \* 200, the shortest context that stands for a class

Types == {"markdown", "yaml", "turtle", "json", "python", "java", "other"}
Kinds == {"text", "blank", "ticks", "tildes", "key", "prefix", "stop"}
Declarations ==
    [name : Nat \ {0}, first : Nat, last : Nat, class : BOOLEAN, method : Nat]

\* Whatever a line may be, it may be cut off anywhere but before its start.
ASSUME CutAssumption ==
    /\ Lines \subseteq [no : Nat \ {0}, kind : Kinds, level : Nat, chars : Nat \ {0}, blank : BOOLEAN]
    /\ \A l \in Lines : \A k \in 1 .. l.chars : [l EXCEPT !.chars = k] \in Lines

\* Lines are numbered, a blank one is nothing else, and a declaration begins on
\* a line that is not blank.
ASSUME DocumentsAssumption ==
    \A d \in Documents :
        /\ d.type \in Types /\ d.nl \in BOOLEAN
        /\ d.lines \in Seq(Lines)
        /\ \A i \in DOMAIN d.lines :
            /\ d.lines[i].no = i
            /\ d.lines[i].blank => d.lines[i].kind = "blank" /\ d.lines[i].level = 0
        /\ d.decls \in Seq(Declarations)
        /\ \A k \in DOMAIN d.decls :
            /\ d.decls[k].first \in DOMAIN d.lines /\ ~d.lines[d.decls[k].first].blank
            /\ d.decls[k].last \in d.decls[k].first .. Len(d.lines)
            /\ d.decls[k].method # 0 => d.decls[k].method - 1 <= d.decls[k].last

ASSUME BudgetAssumption == {DocMax, CodeMax, StructMax} \subseteq Nat \ {0} /\ MinContext \in Nat

VARIABLES
    doc,        \* the document being chunked
    sections,   \* what is left to be split
    chunks,     \* the result
    phase       \* "scan", "next", "split", "done", or "failed" by an exception

chunkVars == <<windowVars, doc, sections, chunks, phase>>

None == 0
NoText == [lines |-> <<>>, nl |-> TRUE]

-----------------------------------------------------------------------------
(* Texts.                                                                  *)

Between(first, last) == SubSeq(doc.lines, first, last)
Whole(ls) == [lines |-> ls, nl |-> doc.nl]
Numbers(ls) == {ls[i].no : i \in DOMAIN ls}

\* str.strip()
Stripped(ls) ==
    LET full == {i \in DOMAIN ls : ~ls[i].blank}
    IN  [lines |-> IF full = {} THEN <<>> ELSE SubSeq(ls, Min(full), Max(full)), nl |-> FALSE]

\* The characters up to each line.
CharsUpto(ls) ==
    LET upto[i \in 0 .. Len(ls)] == IF i = 0 THEN 0 ELSE upto[i - 1] + ls[i].chars
    IN  upto
Chars(ls) == CharsUpto(ls)[Len(ls)]

\* len(text)
Length(t) == Chars(t.lines) - (IF t.nl \/ t.lines = <<>> THEN 0 ELSE 1)

\* text[:max]: the newline may be cut off, or the end of a line.
CutTo(ls, max) ==
    LET upto == CharsUpto(ls)
        kept == Max({i \in 0 .. Len(ls) : upto[i] <= max})
    IN  IF upto[kept] = max \/ kept = Len(ls)
        THEN [lines |-> SubSeq(ls, 1, kept), nl |-> TRUE]
        ELSE [lines |-> Append(SubSeq(ls, 1, kept), [ls[kept + 1] EXCEPT !.chars = max + 1 - upto[kept]]),
              nl |-> FALSE]

\* The members of a set of line numbers up to n, in order, as a scan collects them.
InOrder(S, n) ==
    LET found[i \in 0 .. n] ==
            IF i = 0 THEN <<>> ELSE IF i \in S THEN Append(found[i - 1], i) ELSE found[i - 1]
    IN  found[n]

\* A section to be split.  path: the headings it belongs to; prefix: lines put
\* in front of every chunk; first: the start its chunks claim instead of their
\* own; whole: the end of a section that is not split.
Section(t, begin, max, lap) ==
    [text |-> t, start |-> begin, limit |-> max, overlap |-> lap, kind |-> "text",
     symbol |-> None, path |-> <<>>, prefix |-> <<>>, first |-> None, whole |-> None, part |-> 1]

-----------------------------------------------------------------------------
(* MarkdownChunker.                                                        *)

\* The fence that is open after line i: only its own token closes it.
Fence[i \in 0 .. Len(doc.lines)] ==
    IF i = 0 THEN "none"
    ELSE LET was == Fence[i - 1]
             kind == doc.lines[i].kind
         IN  IF kind \notin {"ticks", "tildes"} THEN was
             ELSE IF was = "none" THEN kind
             ELSE IF was = kind THEN "none" ELSE was

Headings == InOrder({i \in DOMAIN doc.lines : doc.lines[i].level > 0 /\ Fence[i - 1] = "none"}, Len(doc.lines))
LevelOf(i) == doc.lines[i].level

\* What is left of heading_stack for a heading of some level: those of the same
\* or a deeper level are popped from its top.
BugPopped(stack, level) == SubSeq(stack, 1, Max({0} \cup {j \in DOMAIN stack : LevelOf(stack[j]) <= level}))
Popped(stack, level) == SubSeq(stack, 1, Max({0} \cup {j \in DOMAIN stack : LevelOf(stack[j]) < level}))

HeadingStack[k \in 0 .. Len(Headings)] ==
    IF k = 0 THEN <<>>
    ELSE Append(Popped(HeadingStack[k - 1], LevelOf(Headings[k])), Headings[k])

\* The text before the first heading is stripped but said to start at line 1.
Intro ==
    LET ls == Between(1, Headings[1] - 1)
    IN  IF Stripped(ls).lines = <<>> THEN <<>> ELSE <<Section(Stripped(ls), 1, DocMax, 3)>>

HeadingSection(k) ==
    LET next == IF k < Len(Headings) THEN Headings[k + 1] ELSE Len(doc.lines) + 1
    IN  [Section(Stripped(Between(Headings[k], next - 1)), Headings[k], DocMax, 3)
            EXCEPT !.path = HeadingStack[k]]

MarkdownSections ==
    IF Headings = <<>>
    THEN <<Section(Whole(doc.lines), 1, DocMax, 3)>>
    ELSE Intro \o [k \in DOMAIN Headings |-> HeadingSection(k)]

-----------------------------------------------------------------------------
(* StructuredChunker.                                                      *)

Blocks == <<Section(Whole(doc.lines), 1, StructMax, 2)>>

\* _chunk_yaml: from each top-level key to the next.
Keys == InOrder({i \in DOMAIN doc.lines : doc.lines[i].kind = "key"}, Len(doc.lines))
YamlSection(k) ==
    LET next == IF k < Len(Keys) THEN Keys[k + 1] ELSE Len(doc.lines) + 1
    IN  [Section(Stripped(Between(Keys[k], next - 1)), Keys[k], StructMax, 2) EXCEPT !.symbol = Keys[k]]
YamlSections == IF Keys = <<>> THEN Blocks ELSE [k \in DOMAIN Keys |-> YamlSection(k)]

\* _chunk_turtle: its locals after a number of lines.
TurtleStart == [prefix |-> <<>>, first |-> None, statement |-> <<>>, part |-> 1, found |-> <<>>]

\* len(f"{prefix_context}\n\n{statement}")
ContextLength(prefix, t) == Length(t) + (IF prefix = <<>> THEN 0 ELSE Chars(prefix) + 1)

\* A complete statement: one chunk with the prefixes, or split without them.
Statement(scan, last) ==
    LET t == Stripped(scan.statement)
        section == [Section(t, scan.statement[1].no, StructMax, 2) EXCEPT
                        !.prefix = scan.prefix, !.first = scan.first]
    IN  IF ContextLength(scan.prefix, t) <= StructMax
        THEN [scan EXCEPT !.found = Append(@, [section EXCEPT !.whole = last, !.part = scan.part, !.symbol = section.start]),
                          !.part = @ + 1, !.statement = <<>>]
        ELSE [scan EXCEPT !.found = Append(@, section), !.statement = <<>>]

ScanTurtle(scan, l) ==
    IF l.blank THEN scan
    ELSE IF l.kind = "prefix"
    THEN [scan EXCEPT !.prefix = Append(@, l), !.first = IF @ = None THEN l.no ELSE @]
    ELSE LET longer == [scan EXCEPT !.statement = Append(@, l)]
         IN  IF l.kind = "stop" THEN Statement(longer, l.no) ELSE longer

\* What follows the last statement is one chunk whatever its size.
BugTrailing(scan) == <<>>
Trailing(scan) ==
    IF scan.statement = <<>> THEN <<>>
    ELSE <<[Section(Stripped(scan.statement), scan.statement[1].no, StructMax, 2) EXCEPT
                !.prefix = scan.prefix, !.first = scan.first, !.whole = Len(doc.lines)]>>

\* The scan after each line.
Scanned[i \in 0 .. Len(doc.lines)] ==
    IF i = 0 THEN TurtleStart ELSE ScanTurtle(Scanned[i - 1], doc.lines[i])

TurtleSections ==
    LET scan == Scanned[Len(doc.lines)]
        all == scan.found \o Trailing(scan)
    IN  IF all = <<>> THEN Blocks ELSE all

-----------------------------------------------------------------------------
(* CodeChunker and SmartChunker.                                           *)

\* _python_class_context_text: a class that is too long is represented by what
\* precedes its first method, or by its beginning.
ClassText(d) ==
    LET upto == IF d.method = None THEN d.last
                ELSE IF d.method - 1 > d.first THEN d.method - 1 ELSE d.first
        context == Stripped(Between(d.first, upto))
    IN  IF Length(context) < MinContext THEN CutTo(Between(d.first, d.last), CodeMax)
        ELSE IF Length(context) <= CodeMax THEN context ELSE CutTo(context.lines, CodeMax)

DeclaredText(d) ==
    LET ls == Between(d.first, d.last)
        t == [lines |-> ls, nl |-> d.last < Len(doc.lines) \/ doc.nl]
    IN  IF d.class /\ Length(t) > CodeMax THEN ClassText(d) ELSE t

\* One section per declaration ast.walk finds, nested ones included.
PythonSections ==
    [k \in DOMAIN doc.decls |->
        [Section(DeclaredText(doc.decls[k]), doc.decls[k].first, CodeMax, 4) EXCEPT
            !.kind = "code", !.symbol = doc.decls[k].name]]

Undivided(max, lap) == <<Section(Whole(doc.lines), 1, max, lap)>>

\* SmartChunker.chunk: code in the other supported languages is split by lines,
\* and so is a Python file without declarations, or that does not parse.
SectionsOf ==
    CASE doc.type = "markdown" -> MarkdownSections
      [] doc.type = "yaml" -> YamlSections
      [] doc.type = "turtle" -> TurtleSections
      [] doc.type = "json" -> Blocks
      [] doc.type = "python" /\ doc.decls # <<>> -> PythonSections
      [] doc.type = "python" /\ doc.decls = <<>> -> Undivided(CodeMax, 4)
      [] doc.type = "java" -> Undivided(CodeMax, 4)
      [] doc.type = "other" -> Undivided(DocMax, 3)

-----------------------------------------------------------------------------
(* make_chunk, and the loop over sections and ranges.                      *)

\* What is hashed: equal lines in different places have equal text.
TextOf(ls) == [i \in DOMAIN ls |-> <<ls[i].kind, ls[i].level, ls[i].chars>>]

MakeChunk(section, ls, first, last, n) ==
    [kind |-> section.kind, path |-> section.path, symbol |-> section.symbol,
     prefix |-> Numbers(section.prefix), lines |-> Numbers(Stripped(ls).lines),
     text |-> TextOf(section.prefix \o Stripped(ls).lines),
     start |-> IF section.first = None THEN first ELSE section.first,
     end |-> last, part |-> n]

\* The identity a chunk's id is the hash of.
BugChunkId(c) == <<c.kind, c.symbol, c.text>>
ChunkId(c) == <<c.kind, c.start, c.end, c.symbol, c.part, c.text>>

\* CodeChunker._deduplicate, after sorting; the order tells nothing here.
DedupKey(c) == <<c.start, c.end, c.symbol, c.text>>
Deduplicated(cs) ==
    IF doc.type = "python"
    THEN LET kept == InOrder({i \in DOMAIN cs : \A j \in 1 .. i - 1 : DedupKey(cs[j]) # DedupKey(cs[i])}, Len(cs))
         IN  [i \in DOMAIN kept |-> cs[kept[i]]]
    ELSE cs

ChunkInit ==
    /\ doc \in Documents
    /\ sections = <<>>
    /\ chunks = <<>>
    /\ phase = "scan"
    /\ Called(NoText, 1, 1, 0)

\* The document is cut into sections.
Scan ==
    /\ phase = "scan"
    /\ sections' = SectionsOf
    /\ phase' = "next"
    /\ UNCHANGED <<windowVars, doc, chunks>>

\* The chunks of a section are added, unless KnowledgeChunk refuses one of them
\* because its range ends before it starts: the ValueError ends the call.
Add(made) ==
    IF \E i \in DOMAIN made : made[i].end < made[i].start
    THEN phase' = "failed" /\ UNCHANGED <<sections, chunks>>
    ELSE chunks' = chunks \o made /\ sections' = Tail(sections) /\ phase' = "next"

\* A section that is not split becomes a chunk.
TakeWhole ==
    /\ phase = "next" /\ sections # <<>> /\ Head(sections).whole # None
    /\ LET s == Head(sections)
       IN  Add(<<MakeChunk(s, s.text.lines, s.start, s.whole, s.part)>>)
    /\ UNCHANGED <<windowVars, doc>>

\* split_text_by_lines is called for the next section ...
CallSplit ==
    /\ phase = "next" /\ sections # <<>> /\ Head(sections).whole = None
    /\ text' = Head(sections).text /\ start' = Head(sections).start
    /\ limit' = Head(sections).limit /\ overlap' = Head(sections).overlap
    /\ cursor' = 0 /\ end' = 0 /\ chars' = 0 /\ ranges' = <<>> /\ returned' = FALSE
    /\ phase' = "split"
    /\ UNCHANGED <<doc, sections, chunks>>

SplitStep ==
    /\ phase = "split"
    /\ Split
    /\ UNCHANGED <<doc, sections, chunks, phase>>

\* ... and a chunk made of every range it returns.
Collect ==
    /\ phase = "split" /\ returned
    /\ Add([i \in DOMAIN ranges |->
            MakeChunk(Head(sections), SubSeq(text.lines, ranges[i].from + 1, ranges[i].to),
                      ranges[i].start, ranges[i].end, ranges[i].part)])
    /\ UNCHANGED <<windowVars, doc>>

Finish ==
    /\ phase = "next" /\ sections = <<>>
    /\ chunks' = Deduplicated(chunks)
    /\ phase' = "done"
    /\ UNCHANGED <<windowVars, doc, sections>>

ChunkNext == Scan \/ TakeWhole \/ CallSplit \/ SplitStep \/ Collect \/ Finish

ChunkSpec == ChunkInit /\ [][ChunkNext]_chunkVars

-----------------------------------------------------------------------------
(* Properties.                                                             *)

Statements == {i \in DOMAIN doc.lines : ~doc.lines[i].blank /\ doc.lines[i].kind # "prefix"}

\* The lines of a document that must be found in some chunk: all but blank
\* ones, what precedes the first key of a YAML file, prefixes declared after
\* the last statement, and, of Python, what no function is made of.
Indexed ==
    {i \in DOMAIN doc.lines :
        /\ ~doc.lines[i].blank
        /\ doc.type = "yaml" /\ Keys # <<>> => i >= Keys[1]
        /\ doc.type = "turtle" /\ Statements # {} => i <= Max(Statements)
        /\ doc.type = "python" /\ doc.decls # <<>> =>
            \E k \in DOMAIN doc.decls :
                ~doc.decls[k].class /\ i \in doc.decls[k].first .. doc.decls[k].last}

\* No line that should be found is lost between sections, windows and strips.
NothingLost ==
    phase = "done" => Indexed \subseteq UNION {chunks[i].lines \cup chunks[i].prefix : i \in DOMAIN chunks}

\* Two chunks of a document never have the same id when it is done, or the
\* later one would take the earlier one's place in the index.  Until then the
\* windows of nested functions of one name may meet, part for part.
IdsDistinct ==
    phase = "done" => \A i, j \in DOMAIN chunks : i # j => ChunkId(chunks[i]) # ChunkId(chunks[j])

\* A Turtle statement, as the scan sees it, in which the file's first prefix is
\* declared: a chunk starts at that prefix, wherever its statement does.
LatePrefix(first, last) ==
    \E i \in first + 1 .. last :
        /\ doc.lines[i].kind = "prefix"
        /\ \A j \in 1 .. i - 1 : doc.lines[j].kind # "prefix"
        /\ \A j \in first .. i - 1 : doc.lines[j].kind # "stop"

\* The chunks whose line numbers are shifted: the intro of a Markdown file
\* that begins with blank lines, and a Turtle statement with a late prefix, or
\* cut into windows with blank lines or prefixes inside, which the scan drops.
Shifted(c) ==
    \/ doc.type = "markdown" /\ doc.lines[1].blank /\ c.path = <<>> /\ Headings # <<>>
    \/ /\ doc.type = "turtle"
       /\ \/ LatePrefix(Min(c.lines), Len(doc.lines))
          \/ /\ c.symbol = None
             /\ \E i \in 1 .. Max(c.lines) : doc.lines[i].blank \/ doc.lines[i].kind = "prefix"

\* A heading's ancestors: those before it that no heading in between has closed.
Ancestors(h) ==
    {i \in 1 .. h : /\ i \in Range(Headings)
                    /\ \A j \in i + 1 .. h : j \in Range(Headings) => LevelOf(j) > LevelOf(i)}

\* A chunk can be traced: its lines are among those it claims, which exceed
\* the document by one at most, and its path lists the headings it is under.
\* Only a late prefix makes a document fail.
Traceable ==
    /\ phase = "failed" =>
        doc.type = "turtle" /\ \E i \in DOMAIN doc.lines : ~doc.lines[i].blank /\ LatePrefix(i, Len(doc.lines))
    /\ \A k \in DOMAIN chunks :
        LET c == chunks[k] IN
        /\ c.start \in DOMAIN doc.lines /\ c.end \in c.start .. Len(doc.lines) + 1
        /\ Shifted(c) \/ c.lines \subseteq c.start .. c.end
        /\ doc.type = "markdown" =>
            Range(c.path) = LET above == {i \in Range(Headings) : i <= Min(c.lines)}
                            IN  IF above = {} THEN {} ELSE Ancestors(Max(above))

=============================================================================
