----------------------------- MODULE SqlSplitter -----------------------------
(***************************************************************************)
(* splitSQLStatements, which cuts a migration file into statements, against *)
(* the lexical structure that MySQL gives the same text.  A text is a       *)
(* sequence of characters; "nl" is a line break, "bs" a backslash, "x" any  *)
(* character without a meaning of its own.                                  *)
(***************************************************************************)
EXTENDS Integers, Sequences, FiniteSetsExt, SequencesExt

CONSTANTS
    Chars,   \* the characters of the texts that are tried
    MaxText  \* and their greatest length

VARIABLE content  \* the text of a file

Quotes == {"'", "dq", "bt"}
Blank == {" ", "nl"}

\* strings.TrimSpace.
Trim(s) ==
    LET ink == {i \in 1 .. Len(s) : s[i] \notin Blank}
    IN IF ink = {} THEN <<>> ELSE SubSeq(s, Min(ink), Max(ink))

\* The next rune, if there is one.
After(s, i) == IF i < Len(s) THEN s[i + 1] ELSE "none"

\* The statement collected so far is added if there is anything in it.
Emit(out, buf) == IF Trim(buf) = <<>> THEN out ELSE Append(out, Trim(buf))

-----------------------------------------------------------------------------
\* The loop's local state.  mode is "code", a quote, "line" or "block": the five
\* flags exclude one another.  skip stands for i++ in the body.
Start == [mode |-> "code", esc |-> FALSE, skip |-> FALSE, buf |-> <<>>, out |-> <<>>]

\* A quote opens or closes unless it is escaped.
Toggle(st, ch) ==
    CASE ch \notin Quotes \/ st.esc -> st.mode
      [] st.mode = ch -> "code"
      [] st.mode = "code" -> ch
      [] OTHER -> st.mode

\* Mutant of Write: a backslash always escapes what follows, escaped or not.
WriteEscapes(st, ch) ==
    LET mode == Toggle(st, ch)
    IN IF ch = ";" /\ mode = "code"
       THEN [st EXCEPT !.mode = mode, !.esc = FALSE, !.buf = <<>>, !.out = Emit(@, st.buf)]
       ELSE [st EXCEPT !.mode = mode, !.esc = (ch = "bs"), !.buf = Append(@, ch)]

\* A character outside comments.
Write(st, ch) ==
    LET mode == Toggle(st, ch)
    IN IF ch = ";" /\ mode = "code"
       THEN [st EXCEPT !.mode = mode, !.esc = FALSE, !.buf = <<>>, !.out = Emit(@, st.buf)]
       ELSE [st EXCEPT !.mode = mode, !.esc = (ch = "bs" /\ ~st.esc), !.buf = Append(@, ch)]

\* Mutant of Comments: "/*/" is a whole comment.
CommentsShort(st, ch, next) ==
    CASE ch = "-" /\ next = "-" -> [st EXCEPT !.mode = "line", !.skip = TRUE]
      [] ch = "#" -> [st EXCEPT !.mode = "line"]
      [] ch = "/" /\ next = "*" -> [st EXCEPT !.mode = "block"]
      [] OTHER -> Write(st, ch)

\* Outside strings a comment may begin.
Comments(st, ch, next) ==
    CASE ch = "-" /\ next = "-" -> [st EXCEPT !.mode = "line", !.skip = TRUE]
      [] ch = "#" -> [st EXCEPT !.mode = "line"]
      [] ch = "/" /\ next = "*" -> [st EXCEPT !.mode = "block", !.skip = TRUE]
      [] OTHER -> Write(st, ch)

\* One round of the loop for the characters ch and next.
Step(st, ch, next) ==
    IF st.skip THEN [st EXCEPT !.skip = FALSE]
    ELSE CASE st.mode = "line" -> [st EXCEPT !.mode = IF ch = "nl" THEN "code" ELSE @]
           [] st.mode = "block" -> IF ch = "*" /\ next = "/"
                                   THEN [st EXCEPT !.mode = "code", !.skip = TRUE] ELSE st
           [] st.mode = "code" -> Comments(st, ch, next)
           [] OTHER -> Write(st, ch)

splitSQLStatements(s) ==
    LET Round(st, i) == Step(st, s[i], After(s, i))
        end == FoldLeftDomain(Round, Start, s)
    IN Emit(end.out, end.buf)

-----------------------------------------------------------------------------
\* The reference.  A lexical element is a quoted string, a comment, or a character.

Kind(s, p) ==
    CASE s[p] \in Quotes -> "quoted"
      [] s[p] = "#" \/ (s[p] = "-" /\ After(s, p) = "-") -> "line"
      [] s[p] = "/" /\ After(s, p) = "*" -> "block"
      [] OTHER -> "char"

\* Whether the character at q of a string that begins at p is escaped: an odd number
\* of backslashes comes right before it.
Escaped(s, p, q) ==
    LET other == {p} \union {i \in p + 1 .. q - 1 : s[i] # "bs"}
    IN s[p] # "bt" /\ (q - 1 - Max(other)) % 2 = 1

\* Where the element that begins at p ends; an open one at the end of the text.
End(s, p) ==
    LET from(n) == p + n .. Len(s)
        ends == CASE Kind(s, p) = "quoted" -> {q \in from(1) : s[q] = s[p] /\ ~Escaped(s, p, q)}
                  [] Kind(s, p) = "line" -> {q \in from(1) : s[q] = "nl"}
                  [] Kind(s, p) = "block" -> {q \in from(3) : s[q] = "/" /\ s[q - 1] = "*"}
                  [] OTHER -> {p}
    IN IF ends = {} THEN Len(s) ELSE Min(ends)

\* Where the elements begin.
Begins(s) ==
    LET begin[p \in 1 .. Len(s) + 1] ==
            IF p > Len(s) THEN {} ELSE {p} \union begin[End(s, p) + 1]
    IN begin[1]

Comment(s, p) == Kind(s, p) \in {"line", "block"}

\* The statements: what is between semicolons that are elements, without comments.
Statements(s) ==
    LET Take(acc, p) ==
            CASE Comment(s, p) -> acc
              [] s[p] = ";" -> [buf |-> <<>>, out |-> Emit(acc.out, acc.buf)]
              [] OTHER -> [acc EXCEPT !.buf = @ \o SubSeq(s, p, End(s, p))]
        all == FoldLeft(Take, [buf |-> <<>>, out |-> <<>>], SetToSortSeq(Begins(s), <))
    IN Emit(all.out, all.buf)

\* Texts on which dropping a comment does not join what it separates, on which "--"
\* begins a comment in MySQL too, and with backslashes in strings only.
Admissible(s) ==
    \A p \in Begins(s) :
        /\ Comment(s, p) => p = 1 \/ s[p - 1] \in Blank \union {";"}
        /\ Kind(s, p) = "line" /\ s[p] = "-" => After(s, p + 1) \in Blank \union {"none"}
        /\ s[p] \in {"bs", "bt"} => \A q \in p .. End(s, p) : s[q] # "bs"

Texts == UNION {[1 .. n -> Chars] : n \in 0 .. MaxText}

\* On such texts the loop finds the statements that MySQL would: semicolons, quotes
\* and comment marks inside strings and comments, escaped or doubled quotes and
\* comments left open do not mislead it.
SplitsAsMySQL == Admissible(content) => splitSQLStatements(content) = Statements(content)
=============================================================================
