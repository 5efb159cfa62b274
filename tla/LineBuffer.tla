----------------------------- MODULE LineBuffer -----------------------------
(***************************************************************************)
(* What the keys of the chat prompt do to the line (type state and its     *)
(* methods, internal/lineedit/lineedit.go): the line, the cursor as the    *)
(* number of runes left of it, the place in the history and the line that  *)
(* was being typed before the history was browsed.                         *)
(***************************************************************************)
EXTENDS Integers, Sequences, SequencesExt

CONSTANTS
    MaxLine,          \* maxLineRunes
    MaxHistory,       \* maxHistory
    Room              \* the columns right of the prompt, 0 when the width is unknown

ASSUME BufferAssumption ==
    MaxLine \in Nat \ {0} /\ MaxHistory \in Nat \ {0} /\ Room \in Nat

Space   == " "
Newline == "nl"

NewLine(history) == [line |-> <<>>, cursor |-> 0, histPos |-> Len(history), stash |-> <<>>]

Before(st) == SubSeq(st.line, 1, st.cursor)
After(st)  == SubSeq(st.line, st.cursor + 1, Len(st.line))

-----------------------------------------------------------------------------
(* A line that is full takes no more: the excess is read and dropped.       *)
Insert(st, c) ==
    IF Len(st.line) >= MaxLine THEN st
    ELSE [st EXCEPT !.line = InsertAt(@, st.cursor + 1, c), !.cursor = @ + 1]

Backspace(st) ==
    IF st.cursor = 0 THEN st ELSE [st EXCEPT !.line = RemoveAt(@, st.cursor), !.cursor = @ - 1]

DeleteAt(st) ==
    IF st.cursor >= Len(st.line) THEN st ELSE [st EXCEPT !.line = RemoveAt(@, st.cursor + 1)]

Left(st)  == IF st.cursor > 0 THEN [st EXCEPT !.cursor = @ - 1] ELSE st
Right(st) == IF st.cursor < Len(st.line) THEN [st EXCEPT !.cursor = @ + 1] ELSE st
Home(st)  == [st EXCEPT !.cursor = 0]
End(st)   == [st EXCEPT !.cursor = Len(st.line)]

KillToStart(st) == [st EXCEPT !.line = After(st), !.cursor = 0]
KillToEnd(st)   == [st EXCEPT !.line = Before(st)]

(* Left of the cursor: first the spaces, then the word before them.         *)
WordStart(s) ==
    LET wordEnd == SelectLastInSeq(s, LAMBDA c : c # Space)
    IN  SelectLastInSeq(SubSeq(s, 1, wordEnd), LAMBDA c : c = Space)

KillWord(st) ==
    LET i == WordStart(Before(st)) IN
    [st EXCEPT !.line = SubSeq(@, 1, i) \o After(st), !.cursor = i]

-----------------------------------------------------------------------------
(* Up and Down.  The line being typed is put aside by the first step back.  *)
Show(st, text) == [st EXCEPT !.line = text, !.cursor = Len(text)]

StashAlways(st, history) ==                                   \* seeded defect
    IF st.histPos = 0 THEN st
    ELSE Show([st EXCEPT !.stash = st.line, !.histPos = @ - 1], history[st.histPos])

Older(st, history) ==
    IF st.histPos = 0 THEN st
    ELSE LET aside == IF st.histPos = Len(history) THEN [st EXCEPT !.stash = st.line] ELSE st
         IN  Show([aside EXCEPT !.histPos = @ - 1], history[st.histPos])

Newer(st, history) ==
    IF st.histPos >= Len(history) THEN st
    ELSE LET next == st.histPos + 1
         IN  Show([st EXCEPT !.histPos = next],
                  IF next = Len(history) THEN st.stash ELSE history[next + 1])

(* deliver: a blank line and a repeated one are not recorded.               *)
IsBlank(text) == \A i \in DOMAIN text : text[i] \in {Space, Newline}

Recorded(history, text) ==
    IF IsBlank(text) \/ (history # <<>> /\ Last(history) = text) THEN history
    ELSE LET all == Append(history, text)
             old == Len(all) - MaxHistory
         IN  IF old > 0 THEN SubSeq(all, old + 1, Len(all)) ELSE all

-----------------------------------------------------------------------------
(* key and edit: the keys that only change the line.  A key not listed, and *)
(* ^L, which redraws, leave it alone.                                       *)
Edit(st, k, history) ==
    CASE k \in {"^H", "^?"}         -> Backspace(st)
      [] k \in {"^D", "[3~"}        -> DeleteAt(st)
      [] k \in {"^A", "[H"}         -> Home(st)
      [] k \in {"^E", "[F"}         -> End(st)
      [] k \in {"^B", "[D"}         -> Left(st)
      [] k \in {"^F", "[C"}         -> Right(st)
      [] k = "^U"                   -> KillToStart(st)
      [] k = "^K"                   -> KillToEnd(st)
      [] k = "^W"                   -> KillWord(st)
      [] k \in {"^P", "[A"}         -> Older(st, history)
      [] k \in {"^N", "[B"}         -> Newer(st, history)
      [] k = "tab"                  -> Insert(st, Space)
      [] OTHER                      -> st

(* draw: the part of the line the one row shows, scrolled so far as the     *)
(* cursor asks.                                                             *)
Drawn(st) ==
    LET start == IF Room > 0 /\ Len(st.line) > Room /\ st.cursor > Room
                 THEN st.cursor - Room ELSE 0
        whole == Len(st.line)
    IN  [start |-> start,
         end   |-> IF Room > 0 /\ whole - start > Room THEN start + Room ELSE whole]
-----------------------------------------------------------------------------
(* The reference the keys are held against, what an operator means by them: *)
(* left and right are the text on either side of the cursor, draft the line *)
(* being typed, back the entries gone back in the history.  astray: the end *)
(* of a paste was taken for text, and what follows is not what it meant.    *)
Fresh == [left |-> <<>>, right |-> <<>>, draft |-> <<>>, back |-> 0, astray |-> FALSE]
Astray(z) == [z EXCEPT !.astray = TRUE]

FullLine(z) == Len(z.left) + Len(z.right) >= MaxLine
TypedIn(z, c) == IF FullLine(z) THEN z ELSE [z EXCEPT !.left = Append(@, c)]
Whole(z) == z.left \o z.right
Recall(z, back, history) ==
    LET kept == IF z.back = 0 THEN [z EXCEPT !.draft = Whole(z)] ELSE z
    IN  [kept EXCEPT !.back = back, !.right = <<>>,
                     !.left = IF back = 0 THEN kept.draft ELSE history[Len(history) + 1 - back]]
Tail1(s) == IF s = <<>> THEN s ELSE Tail(s)
Front1(s) == IF s = <<>> THEN s ELSE Front(s)

(* The shortest cut at or before the cursor that leaves no half word.       *)
WithoutWord(s) ==
    LET Cut(i) == /\ \E k \in i..Len(s) : /\ \A j \in i + 1..k : s[j] # Space
                                          /\ \A j \in k + 1..Len(s) : s[j] = Space
                  /\ i = 0 \/ s[i] = Space
        cuts == {i \in 0..Len(s) : Cut(i)}
    IN  SubSeq(s, 1, CHOOSE i \in cuts : \A j \in cuts : i <= j)

Meant(z, k, history) ==
    CASE k = "tab"                -> TypedIn(z, Space)
      [] k \in {"^H", "^?"}       -> [z EXCEPT !.left = Front1(@)]
      [] k \in {"^D", "[3~"}      -> [z EXCEPT !.right = Tail1(@)]
      [] k \in {"^A", "[H"}       -> [z EXCEPT !.left = <<>>, !.right = Whole(z)]
      [] k \in {"^E", "[F"}       -> [z EXCEPT !.left = Whole(z), !.right = <<>>]
      [] k \in {"^B", "[D"}       -> IF z.left = <<>> THEN z
                                     ELSE [z EXCEPT !.left = Front(@),
                                                    !.right = <<Last(z.left)>> \o @]
      [] k \in {"^F", "[C"}       -> IF z.right = <<>> THEN z
                                     ELSE [z EXCEPT !.left = Append(@, Head(z.right)),
                                                    !.right = Tail(@)]
      [] k = "^U"                 -> [z EXCEPT !.left = <<>>]
      [] k = "^K"                 -> [z EXCEPT !.right = <<>>]
      [] k = "^W"                 -> [z EXCEPT !.left = WithoutWord(@)]
      [] k \in {"^P", "[A"}       -> IF z.back = Len(history) THEN z
                                     ELSE Recall(z, z.back + 1, history)
      [] k \in {"^N", "[B"}       -> IF z.back = 0 THEN z
                                     ELSE Recall(z, z.back - 1, history)
      [] OTHER                    -> z
=============================================================================
