---------------------------- MODULE ChunkWindows ----------------------------
(***************************************************************************)
(* Splitting a text on line boundaries with a small overlap                *)
(* (split_text_by_lines in chunking/common.py).                            *)
(*                                                                         *)
(* A line is a record that says at least how many characters it has, its   *)
(* newline included, and whether it is blank.  A text is a sequence of     *)
(* lines; nl says whether the last one ends in a newline.                  *)
(***************************************************************************)
EXTENDS Integers, Sequences

CONSTANT Lines      \* the lines texts are made of

ASSUME LinesAssumption == \A l \in Lines : l.chars \in Nat \ {0} /\ l.blank \in BOOLEAN

VARIABLES
    text,       \* the argument text
    start,      \* the argument start_line
    limit,      \* the argument max_chars
    overlap,    \* the argument overlap_lines, negative ones cut to zero
    cursor,     \* lines before the current window
    end,        \* lines up to its end
    chars,      \* current_chars
    ranges,     \* what is returned: the TextRanges
    returned    \* whether the call has returned

windowVars == <<text, start, limit, overlap, cursor, end, chars, ranges, returned>>

N == Len(text.lines)

\* len(lines[i]): the last line may lack its newline.
Size(i) == text.lines[i].chars - (IF i = N /\ ~text.nl THEN 1 ELSE 0)

\* len(text) <= max_chars
LengthTo[i \in 0 .. N] == IF i = 0 THEN 0 ELSE LengthTo[i - 1] + Size(i)
Fits == LengthTo[N] <= limit

\* not "".join(lines[from:to]).strip()
AllBlank(from, to) == \A i \in from + 1 .. to : text.lines[i].blank

TextRanges == [from : Nat, to : Nat, start : Nat, end : Nat, part : Nat]
TextRange(from, to, first, last) ==
    [from |-> from, to |-> to, start |-> first, end |-> last, part |-> Len(ranges) + 1]

-----------------------------------------------------------------------------
Called(t, first, max, lap) ==
    /\ text = t /\ start = first /\ limit = max /\ overlap = lap
    /\ cursor = 0 /\ end = 0 /\ chars = 0
    /\ ranges = <<>>
    /\ returned = FALSE

SplitInit ==
    \E ls \in Seq(Lines), nl \in BOOLEAN, first \in Nat \ {0}, max \in Nat \ {0}, lap \in Nat :
        Called([lines |-> ls, nl |-> nl], first, max, lap)

\* A text without anything but white space has no range.
ReturnNothing ==
    /\ ~returned /\ ranges = <<>> /\ end = 0
    /\ AllBlank(0, N)
    /\ returned' = TRUE
    /\ UNCHANGED <<text, start, limit, overlap, cursor, end, chars, ranges>>

\* A text that fits is one range, as it stands: text.count("\n") + 1 lines,
\* one too many when it ends in a newline.
ReturnWhole ==
    /\ ~returned /\ ranges = <<>> /\ end = 0
    /\ ~AllBlank(0, N) /\ Fits
    /\ ranges' = <<TextRange(0, N, start, start + N - (IF text.nl THEN 0 ELSE 1))>>
    /\ returned' = TRUE
    /\ UNCHANGED <<text, start, limit, overlap, cursor, end, chars>>

\* The inner loop takes a line: the first one at any size.
BugTakes == end < N /\ chars < limit
Takes == end < N /\ (end > cursor => chars + Size(end + 1) <= limit)

TakeLine ==
    /\ ~returned /\ Takes
    /\ end' = end + 1
    /\ chars' = chars + Size(end + 1)
    /\ UNCHANGED <<text, start, limit, overlap, cursor, ranges, returned>>

\* max(cursor + 1, end - max(0, overlap_lines))
NextCursor == IF end - overlap > cursor THEN end - overlap ELSE cursor + 1

\* The window is complete: it is appended unless it is blank, and the next
\* one begins inside it.
CloseWindow ==
    /\ ~returned /\ ~Takes /\ end > cursor
    /\ ranges' = IF AllBlank(cursor, end) THEN ranges
                 ELSE Append(ranges, TextRange(cursor, end, start + cursor, start + end - 1))
    /\ IF end >= N
       THEN returned' = TRUE /\ UNCHANGED <<cursor, end, chars>>
       ELSE /\ cursor' = NextCursor
            /\ end' = NextCursor
            /\ chars' = 0
            /\ UNCHANGED returned
    /\ UNCHANGED <<text, start, limit, overlap>>

Split ==
    \/ ReturnNothing
    \/ ReturnWhole
    \/ ~AllBlank(0, N) /\ ~Fits /\ (TakeLine \/ CloseWindow)

SplitSpec == SplitInit /\ [][Split]_windowVars

-----------------------------------------------------------------------------
(* Properties.                                                             *)

WindowsTypeOK ==
    /\ text.lines \in Seq(Lines) /\ text.nl \in BOOLEAN
    /\ start \in Nat \ {0} /\ limit \in Nat \ {0} /\ overlap \in Nat
    /\ cursor \in 0 .. N /\ end \in cursor .. N
    /\ chars \in Nat
    /\ ranges \in Seq(TextRanges)
    /\ returned \in BOOLEAN

\* The windows advance and keep to the budget: each begins after the one
\* before it, shares at most the overlap with it, claims the lines it was cut
\* from, and while it grows exceeds the limit only by its first line.
WindowsAdvance ==
    /\ chars <= limit \/ end = cursor + 1
    /\ \A i \in DOMAIN ranges :
        /\ ranges[i].from < ranges[i].to /\ ranges[i].to <= N
        /\ ranges[i].part = i
        /\ ranges[i].start = start + ranges[i].from
        /\ ranges[i].end \in {start + ranges[i].to - 1, start + N}
    /\ \A i, j \in DOMAIN ranges : i < j =>
        /\ ranges[i].from < ranges[j].from
        /\ j = i + 1 => ranges[j].from >= ranges[i].to - overlap

\* Whatever has been passed over is in a window, unless it is blank; when the
\* call returns that is the whole text.
WindowsCover ==
    \A i \in 1 .. (IF returned THEN N ELSE cursor) :
        text.lines[i].blank \/ \E k \in DOMAIN ranges : ranges[k].from < i /\ i <= ranges[k].to

=============================================================================
