------------------------------ MODULE SrcStrip ------------------------------
(***************************************************************************)
(* core/srcstrip.py: how the source probes tell a call from a comment.     *)
(*                                                                         *)
(* A text is a sequence of tokens: a double quote, the start of a line     *)
(* comment, a newline, and the two ends of a key generation whose size is  *)
(* set by a later call:                                                    *)
(*                                                                         *)
(*     KeyPairGenerator.getInstance("RSA") ... .initialize(1024)           *)
(*     "get"                                   "init"                      *)
(*                                                                         *)
(* The regular expression for it spans everything in between, up to a      *)
(* window.                                                                 *)
(***************************************************************************)
EXTENDS Integers, Sequences, FiniteSets

Lexemes == {"quote", "slashes", "newline", "get", "init"}

\* The first position of a set of positions, or `otherwise'.
FirstOf(positions, otherwise) ==
  IF positions = {} THEN otherwise
  ELSE CHOOSE i \in positions : \A j \in positions : i <= j

\* Mutated: a string may go on over the end of its line.
FormEndMultiline(text, i) ==
  CASE text[i] = "slashes" ->
         FirstOf({j \in i..Len(text) : text[j] = "newline"}, Len(text) + 1)
    [] text[i] = "quote" ->
         FirstOf({j \in (i + 2)..(Len(text) + 1) : text[j - 1] = "quote"}, i)
    [] OTHER -> i

\* The position behind the comment or string that starts at i; i if none
\* does.  A quote that is not closed on its line is left as code.
FormEnd(text, i) ==
  CASE text[i] = "slashes" ->
         FirstOf({j \in i..Len(text) : text[j] = "newline"}, Len(text) + 1)
    [] text[i] = "quote" ->
         FirstOf({j \in (i + 1)..(Len(text) + 1) :
                    /\ \A k \in (i + 1)..(j - 1) : text[k] # "newline"
                    /\ text[j - 1] = "quote" /\ j - 1 > i}, i)
    [] OTHER -> i

\* pattern.finditer with the forms: the position behind the last one that
\* starts at i or before.  It goes on behind a form, so none starts in one.
Covered(text) ==
  LET covered[i \in 0..Len(text)] ==
        IF i = 0 THEN 1
        ELSE IF covered[i - 1] > i THEN covered[i - 1] ELSE FormEnd(text, i)
  IN covered

\* strip_noncode: the positions it blanks.
StripNoncode(text) == {i \in 1..Len(text) : Covered(text)[i] > i /\ text[i] # "newline"}

\* How many tokens the pattern's gap may span.
Window == 3

\* The end of the match that starts at i; 0 if there is none.
MatchEnd(text, i) ==
  IF text[i] = "get"
  THEN FirstOf({j \in (i + 1)..(i + 1 + Window) : j <= Len(text) /\ text[j] = "init"}, 0)
  ELSE 0

\* pattern.finditer over the whole text: leftmost, and none overlaps another.
\* Taken is the end of the last match that starts at i or before.
Taken(text) ==
  LET taken[i \in 0..Len(text)] ==
        IF i = 0 THEN 0
        ELSE IF taken[i - 1] >= i THEN taken[i - 1] ELSE MatchEnd(text, i)
  IN taken

FindIter(text) ==
  {<<i, MatchEnd(text, i)>> :
     i \in {j \in 1..Len(text) : Taken(text)[j - 1] < j /\ MatchEnd(text, j) # 0}}

\* Mutated: a match is kept only if all of it is code.
CodeFindIterWhole(text) ==
  {m \in FindIter(text) : (m[1]..m[2]) \intersect StripNoncode(text) = {}}

\* code_finditer: the matches whose start is not blanked.
CodeFindIter(text) == {m \in FindIter(text) : m[1] \notin StripNoncode(text)}

-----------------------------------------------------------------------------
(***************************************************************************)
(* What a reader of one line would say, for comparison.  Between the       *)
(* quotes of a pair is a string; a comment starts at a `//' that is not    *)
(* inside one and goes on to the end of the line.                          *)
(***************************************************************************)
SameLine(text, i, j) == \A k \in i..j : text[k] # "newline"

QuotesBefore(text, i) == {j \in 1..(i - 1) : text[j] = "quote" /\ SameLine(text, j, i)}
QuotesAfter(text, i) == {j \in (i + 1)..Len(text) : text[j] = "quote" /\ SameLine(text, i, j)}

Inside(text, i) == Cardinality(QuotesBefore(text, i)) % 2 = 1

InComment(text, i) ==
  \E k \in 1..i : /\ text[k] = "slashes" /\ SameLine(text, k, i)
                  /\ ~(Inside(text, k) /\ QuotesAfter(text, k) # {})

InString(text, i) ==
  /\ ~InComment(text, i)
  /\ IF text[i] = "quote" THEN Inside(text, i) \/ QuotesAfter(text, i) # {}
     ELSE Inside(text, i) /\ QuotesAfter(text, i) # {}

NonCode(text) ==
  {i \in 1..Len(text) : text[i] # "newline" /\ (InComment(text, i) \/ InString(text, i))}

\* The key generations that are code: an `init' with the nearest `get' that
\* belongs to it, both code, within the window.
RealCalls(text) ==
  {c \in (1..Len(text)) \X (1..Len(text)) :
     /\ c[1] < c[2] /\ c[2] <= c[1] + 1 + Window
     /\ text[c[1]] = "get" /\ text[c[2]] = "init"
     /\ {c[1], c[2]} \intersect NonCode(text) = {}
     /\ \A k \in (c[1] + 1)..(c[2] - 1) : text[k] \notin {"get", "init"}}
=============================================================================
