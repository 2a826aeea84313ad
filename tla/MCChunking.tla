---------------------------- MODULE MCChunking ----------------------------
(* The instance of Chunking for TLC: every small document of each kind.    *)
EXTENDS Chunking

CONSTANT MaxLines

Line(k, l, n) ==
    [kind |-> k, level |-> l, chars |-> n, blank |-> k = "blank"]
Blank == Line("blank", 0, 1)
Short == Line("text", 0, 2)
Long == Line("text", 0, 6)

Numbered(ls) == [i \in DOMAIN ls |-> [no |-> i] @@ ls[i]]

\* Whatever a document's lines may be.
MCLines ==
    [no : 1 .. MaxLines, kind : {"text", "blank", "ticks", "tildes", "key", "prefix", "stop"},
     level : 0 .. 2, chars : 1 .. 6, blank : BOOLEAN]

\* A document whose last line has no newline does not end in a blank one.
Docs(type, max, kinds, decls) ==
    {d \in {[type |-> type, lines |-> Numbered(ls), nl |-> nl, decls |-> decls] :
              ls \in UNION {[1 .. n -> kinds] : n \in 0 .. max}, nl \in BOOLEAN} :
        d.nl \/ (d.lines # <<>> /\ ~d.lines[Len(d.lines)].blank)}

Decl(name, first, last, class, method) ==
    [name |-> name, first |-> first, last |-> last, class |-> class, method |-> method]

\* A class with a method and a function nested in it, beside module code.
PythonDocs ==
    {d \in UNION {Docs("python", MaxLines, {Short, Long, Blank}, decls) :
            decls \in {<<>>,
                       <<Decl(1, 1, 4, TRUE, 3), Decl(2, 3, 4, FALSE, None)>>,
                       <<Decl(1, 2, 4, FALSE, None), Decl(2, 3, 3, FALSE, None)>>,
                       <<Decl(1, 1, 3, TRUE, None)>>}} :
        \A k \in DOMAIN d.decls :
            /\ d.decls[k].last \in DOMAIN d.lines
            /\ ~d.lines[d.decls[k].first].blank /\ ~d.lines[d.decls[k].last].blank}

MCDocuments ==
    UNION {
        Docs("markdown", MaxLines - 1,
             {Short, Long, Blank, Line("text", 1, 2), Line("text", 2, 3), Line("ticks", 0, 2), Line("tildes", 0, 2)}, <<>>),
        Docs("yaml", MaxLines - 1, {Short, Long, Blank, Line("key", 0, 2)}, <<>>),
        Docs("turtle", MaxLines - 1, {Short, Blank, Line("prefix", 0, 2), Line("stop", 0, 2), Line("stop", 0, 5)}, <<>>),
        Docs("json", MaxLines, {Short, Long, Blank}, <<>>),
        Docs("java", MaxLines - 1, {Short, Long, Blank}, <<>>),
        Docs("other", MaxLines - 1, {Short, Long, Blank}, <<>>),
        PythonDocs}

=============================================================================
