----------------------------- MODULE ChatPrompt -----------------------------
(***************************************************************************)
(* The prompt of a chat on a terminal (Editor in                           *)
(* internal/lineedit/lineedit.go; readEntry, readAsync and the input side  *)
(* of repl and finish, cmd/amele/main.go).  The REPL reads each line in a  *)
(* goroutine of its own, the reader, and abandons it when the session's    *)
(* context ends; the reader then goes on, blocked on the terminal or       *)
(* about to touch it, while the REPL closes the editor.                    *)
(*                                                                         *)
(* The terminal is cooked or raw, and sends pasted blocks bracketed or     *)
(* not.  A key is a token: an escape sequence is the key "esc" and then    *)
(* its name.                                                               *)
(***************************************************************************)
EXTENDS LineBuffer

CONSTANTS
    Chars,            \* the printable keys, Backslash among them or not
    ControlKeys,      \* the other keys that only change the line
    EscSequences,     \* what may follow "esc" as an escape sequence
    Histories,        \* the histories the session may have when it is looked at
    MaxKeys           \* bound: the keys pressed

Backslash == "\\"

(* What follows the escape of a paste's end marker, in one piece.           *)
EndMarker == "[201~"

(* What a line is made of: typed, or pasted as text.                        *)
Runes == Chars \cup {Space, Newline, "^C", "esc", EndMarker}

ASSUME PromptAssumption ==
    /\ MaxKeys \in Nat
    /\ \A h \in Histories : h \in Seq(Seq(Runes)) /\ Len(h) <= MaxHistory

VARIABLES
    terminal,         \* [raw, paste]: raw mode, bracketed paste
    restore, closed,  \* Editor.restore # nil, Editor.closed
    history,          \* Editor.history
    reader,           \* where the goroutine of readAsync is in ReadLine
    st, prev,         \* its editing state; the last rune of a paste
    answer,           \* [line, err]: what it returns
    repl,             \* where the REPL is
    entry, physical,  \* readEntry: the text gathered, and whether it has a line
    ctx, input,       \* the session's context; the terminal: open, ended or broken
    pressed,          \* auxiliary: the keys pressed so far
    meant             \* auxiliary: the line as the operator sees it (Meant)

editorVars  == <<terminal, restore, closed, history>>
readerVars  == <<reader, st, prev, answer>>
replVars    == <<repl, entry, physical>>
worldVars   == <<ctx, input, pressed>>
promptVars  == <<editorVars, readerVars, replVars, worldVars, meant>>

Line(text)  == [line |-> text, err |-> "none"]
Failed(err) == [line |-> <<>>, err |-> err]

PromptInit ==
    /\ terminal = [raw |-> FALSE, paste |-> FALSE]
    /\ restore = FALSE /\ closed = FALSE
    /\ history \in Histories
    /\ reader = "none" /\ st = NewLine(<<>>) /\ prev = "" /\ answer = Line(<<>>)
    /\ repl = "prompt" /\ entry = <<>> /\ physical = FALSE
    /\ ctx = "live" /\ input = "open" /\ pressed = 0
    /\ meant = Fresh
-----------------------------------------------------------------------------
(* ReadLine, on the reader.                                                 *)

EnterAnyway == TRUE                                           \* seeded defect
MayEnter == ~closed

(* enterRaw: nothing after Close; MakeRaw may fail.                         *)
EnterRaw ==
    /\ reader = "starting"
    /\ \/ /\ ~MayEnter
          /\ reader' = "returned" /\ answer' = Failed("closed")
          /\ UNCHANGED <<terminal, restore, st, meant>>
       \/ /\ MayEnter /\ ~restore
          /\ reader' = "returned" /\ answer' = Failed("raw")
          /\ UNCHANGED <<terminal, restore, st, meant>>
       \/ /\ MayEnter
          /\ terminal' = [raw |-> TRUE, paste |-> TRUE] /\ restore' = TRUE
          /\ reader' = "reading" /\ st' = NewLine(history) /\ meant' = Fresh
          /\ UNCHANGED answer
    /\ UNCHANGED <<closed, history, prev, replVars, worldVars>>

Midline == {"reading", "escape", "pasting", "pasteEscape"}

Press == pressed < MaxKeys /\ pressed' = pressed + 1 /\ input = "open"

(* The read is over, but for its two deferred calls.                        *)
Return(result) ==
    /\ reader' = "unbracketing" /\ answer' = result
    /\ st' = NewLine(<<>>) /\ meant' = Fresh

(* A key of its own, or one that ends or redirects the read (key).          *)
Submit == Return(Line(st.line)) /\ history' = Recorded(history, st.line)

Key(k) ==
    \/ k = "enter" /\ Submit
    \/ /\ k = "^C" /\ st.line = <<>>
       /\ Return(Failed("interrupt")) /\ UNCHANGED history
    \/ /\ k = "^C" /\ st.line # <<>>
       /\ st' = [NewLine(history) EXCEPT !.stash = st.stash] /\ meant' = Fresh
       /\ reader' = "reading" /\ UNCHANGED <<history, answer>>
    \/ /\ k = "^D" /\ st.line = <<>>
       /\ Return(Failed("eof")) /\ UNCHANGED history
    \/ /\ k = "esc" /\ reader' = "escape" /\ UNCHANGED <<st, history, answer, meant>>
    \/ /\ k \in Chars
       /\ st' = Insert(st, k) /\ meant' = TypedIn(meant, k)
       /\ reader' = "reading" /\ UNCHANGED <<history, answer>>
    \/ /\ k \in ControlKeys \/ (k = "^D" /\ st.line # <<>>)
       /\ st' = Edit(st, k, history) /\ meant' = Meant(meant, k, history)
       /\ reader' = "reading" /\ UNCHANGED <<history, answer>>

Keys == Chars \cup ControlKeys \cup {"enter", "^C", "^D", "esc"}

PressKey ==
    /\ reader = "reading" /\ Press
    /\ \E k \in Keys : Key(k)
    /\ UNCHANGED <<terminal, restore, closed, prev, replVars, ctx, input>>

(* escape: a sequence, known or not; any other key counts for itself.       *)
PressAfterEscape ==
    /\ reader = "escape" /\ Press
    /\ \/ /\ \E k \in Keys : Key(k)
          /\ UNCHANGED prev
       \/ /\ reader' = "pasting" /\ prev' = ""
          /\ UNCHANGED <<st, history, answer, meant>>
       \/ \E s \in EscSequences :
             /\ st' = Edit(st, s, history) /\ meant' = Meant(meant, s, history)
             /\ reader' = "reading" /\ UNCHANGED <<history, answer, prev>>
    /\ UNCHANGED <<terminal, restore, closed, replVars, ctx, input>>

(* paste: up to the end marker a key is text, but for an escape; the ends   *)
(* of line become one newline each.                                         *)
PasteRune(r) ==
    /\ reader' = "pasting" /\ prev' = r
    /\ IF r = "lf" /\ prev = "cr" THEN UNCHANGED <<st, meant>>
       ELSE LET c == IF r \in {"cr", "lf"} THEN Newline ELSE r
            IN  st' = Insert(st, c) /\ meant' = TypedIn(meant, c)
    /\ UNCHANGED <<history, answer>>

Pasted == Chars \cup {"cr", "lf", "^C"}

Paste ==
    /\ reader = "pasting" /\ Press
    /\ \/ \E r \in Pasted : PasteRune(r)
       \/ reader' = "pasteEscape" /\ UNCHANGED <<st, history, answer, prev, meant>>
    /\ UNCHANGED <<terminal, restore, closed, replVars, ctx, input>>

(* An escape of a paste is dropped, with the sequence it opens if it opens  *)
(* one, and the key behind it is text, an escape too.  So when a block ends *)
(* in an escape, the escape of its end marker is that text; when it ends in *)
(* an unfinished sequence, the sequence eats it.  Either way the rest of    *)
(* the marker is text and the paste goes on.                                *)
MissMarker ==
    /\ reader' = "pasting" /\ prev' = EndMarker
    /\ \/ /\ st' = Insert(Insert(st, "esc"), EndMarker)
          /\ meant' = Astray(TypedIn(TypedIn(meant, "esc"), EndMarker))
       \/ st' = Insert(st, EndMarker) /\ meant' = Astray(TypedIn(meant, EndMarker))
    /\ UNCHANGED <<history, answer>>

PasteAfterEscape ==
    /\ reader = "pasteEscape" /\ Press
    /\ \/ \E r \in Pasted \cup {"esc"} : PasteRune(r)
       \/ MissMarker
       \/ /\ reader' = "reading" /\ prev' = ""             \* the end marker
          /\ UNCHANGED <<st, history, answer, meant>>
       \/ /\ reader' = "pasting"                           \* another sequence
          /\ UNCHANGED <<st, history, answer, prev, meant>>
    /\ UNCHANGED <<terminal, restore, closed, replVars, ctx, input>>

(* The stream ends: a line that is complete but for its newline is          *)
(* delivered, one in the middle of a sequence or a paste is not; nor is any *)
(* when the terminal fails.                                                 *)
ReadEnds ==
    /\ reader \in Midline
    /\ \/ /\ input = "ended" /\ reader = "reading" /\ st.line # <<>>
          /\ Submit
       \/ /\ input = "ended" /\ (reader # "reading" \/ st.line = <<>>)
          /\ Return(Failed("eof")) /\ UNCHANGED history
       \/ /\ input = "broken"
          /\ Return(Failed("read")) /\ UNCHANGED history
    /\ UNCHANGED <<terminal, restore, closed, prev, replVars, worldVars>>

(* The deferred calls of ReadLine.                                          *)
DisablePaste ==
    /\ reader = "unbracketing"
    /\ terminal' = [terminal EXCEPT !.paste = FALSE] /\ reader' = "leaving"
    /\ UNCHANGED <<restore, closed, history, st, prev, answer, replVars, worldVars, meant>>

LeaveRaw ==
    /\ terminal' = IF restore THEN [terminal EXCEPT !.raw = FALSE] ELSE terminal
    /\ restore' = FALSE

ReadReturns ==
    /\ reader = "leaving" /\ LeaveRaw
    /\ reader' = "returned"
    /\ UNCHANGED <<closed, history, st, prev, answer, replVars, worldVars, meant>>

Reader == \/ EnterRaw \/ PressKey \/ PressAfterEscape \/ Paste \/ PasteAfterEscape
          \/ ReadEnds \/ DisablePaste \/ ReadReturns
-----------------------------------------------------------------------------
(* The REPL.                                                                *)

(* readAsync: the read gets a goroutine.                                    *)
StartRead ==
    /\ repl = "prompt"
    /\ repl' = "waiting" /\ reader' = "starting"
    /\ UNCHANGED <<editorVars, st, prev, answer, entry, physical, worldVars, meant>>

EndsInBackslash(s) ==
    /\ s # <<>> /\ Last(s) = Backslash
    /\ ~(Len(s) > 1 /\ s[Len(s) - 1] = Backslash)

Continued == answer.err = "none" /\ EndsInBackslash(answer.line)

Gathered ==
    LET text == IF Continued THEN Front(answer.line) ELSE answer.line
    IN  entry \o (IF physical THEN <<Newline>> ELSE <<>>) \o text

(* readEntry and repl: another line is asked for, an entry is sent, a blank *)
(* one costs nothing, and any error but the end of the input ends the chat. *)
TakeLine ==
    /\ repl = "waiting" /\ reader = "returned"
    /\ reader' = "none"
    /\ \/ /\ answer.err \notin {"none", "eof"}
          /\ repl' = "closing" /\ UNCHANGED <<entry, physical>>
       \/ /\ answer.err \in {"none", "eof"}
          /\ Continued /\ Len(Gathered) < MaxLine
          /\ repl' = "prompt" /\ entry' = Gathered /\ physical' = TRUE
       \/ /\ answer.err \in {"none", "eof"}
          /\ ~Continued \/ Len(Gathered) >= MaxLine
          /\ entry' = <<>> /\ physical' = FALSE
          /\ repl' = IF ~IsBlank(Gathered) THEN "sending"
                     ELSE IF answer.err = "eof" THEN "closing" ELSE "prompt"
    /\ UNCHANGED <<editorVars, st, prev, answer, worldVars, meant>>

(* readAsync: the context ends the wait, never the read.                    *)
NeverAbandons == FALSE                                        \* seeded defect
Abandons == ctx = "cancelled"

Abandon ==
    /\ repl = "waiting" /\ Abandons
    /\ repl' = "closing"
    /\ UNCHANGED <<editorVars, readerVars, entry, physical, worldVars, meant>>

(* nextTurn: the loop asks nobody once the context has ended.               *)
Send ==
    /\ repl = "sending"
    /\ repl' = IF ctx = "live" THEN "answering" ELSE "closing"
    /\ UNCHANGED <<editorVars, readerVars, entry, physical, worldVars, meant>>

(* The exchange ends: with an answer, or with an error that ends the chat.  *)
Answer ==
    /\ repl = "answering"
    /\ repl' \in {IF answer.err = "eof" THEN "closing" ELSE "prompt", "closing"}
    /\ UNCHANGED <<editorVars, readerVars, entry, physical, worldVars, meant>>

(* A permission question in the middle of it reads the same terminal, in    *)
(* the same goroutine as the REPL (newPrompter).                            *)
Ask ==
    /\ repl = "answering" /\ repl' = "asking"
    /\ UNCHANGED <<editorVars, readerVars, entry, physical, worldVars, meant>>
HumanAnswers ==
    /\ repl = "asking" /\ repl' = "answering"
    /\ UNCHANGED <<editorVars, readerVars, entry, physical, worldVars, meant>>

(* finish: Editor.Close, in the steps its lock leaves apart.                *)
CloseEditor ==
    /\ repl = "closing"
    /\ closed' = TRUE
    /\ repl' = IF restore THEN "unbracketing" ELSE "restoring"
    /\ UNCHANGED <<terminal, restore, history, readerVars, entry, physical, worldVars, meant>>
CloseUnbrackets ==
    /\ repl = "unbracketing"
    /\ terminal' = [terminal EXCEPT !.paste = FALSE] /\ repl' = "restoring"
    /\ UNCHANGED <<restore, closed, history, readerVars, entry, physical, worldVars, meant>>
CloseRestores ==
    /\ repl = "restoring" /\ LeaveRaw
    /\ repl' = "over"
    /\ UNCHANGED <<closed, history, readerVars, entry, physical, worldVars, meant>>

Repl == StartRead \/ TakeLine \/ Abandon \/ Send \/ CloseEditor \/ CloseUnbrackets \/ CloseRestores
-----------------------------------------------------------------------------
(* A signal, an inherited deadline; the terminal hangs up.                  *)
Cancel ==
    /\ ctx = "live" /\ ctx' = "cancelled"
    /\ UNCHANGED <<editorVars, readerVars, replVars, input, pressed, meant>>
HangUp ==
    /\ input = "open" /\ input' \in {"ended", "broken"}
    /\ UNCHANGED <<editorVars, readerVars, replVars, ctx, pressed, meant>>

PromptOver == repl = "over" /\ UNCHANGED promptVars

PromptNext == Reader \/ Repl \/ Answer \/ Ask \/ HumanAnswers \/ Cancel \/ HangUp \/ PromptOver

(* The runtime gets round to the REPL; nobody has to press a key, and the   *)
(* reader may never be scheduled again.                                     *)
PromptSpec == PromptInit /\ [][PromptNext]_promptVars /\ WF_promptVars(Repl)
-----------------------------------------------------------------------------
Positions == {"prompt", "waiting", "sending", "answering", "asking",
              "closing", "unbracketing", "restoring", "over"}
Stages == {"none", "starting", "reading", "escape", "pasting", "pasteEscape",
           "unbracketing", "leaving", "returned"}

(* What the terminal, its editor and the two that use it may look like. *)
PromptTypeOK ==
    /\ terminal \in [raw : BOOLEAN, paste : BOOLEAN]
    /\ restore \in BOOLEAN /\ closed \in BOOLEAN
    /\ reader \in Stages /\ repl \in Positions

(* Whoever else reads or writes the terminal finds it cooked, unbracketed   *)
(* and with no read of the editor's under way: the model's turn and its     *)
(* approval questions; and so, for good, does the shell once the editor is  *)
(* closed, whatever a read that was abandoned still does (Editor.Close).    *)
Cooked == ~terminal.raw /\ ~terminal.paste
TerminalIsHandedBack ==
    /\ repl \in {"prompt", "sending", "answering", "asking"} => Cooked /\ reader = "none"
    /\ repl = "over" => Cooked

(* Unless a paste has missed its end marker, the line and the cursor are    *)
(* what the keys and the pasted text meant, and the line that was being     *)
(* typed comes back from the history; in any case the row that is drawn     *)
(* holds the cursor (key, edit, escape, paste, older, newer, draw).         *)
EditsAreMeant ==
    reader \in Midline =>
        /\ ~meant.astray =>
              /\ Before(st) = meant.left /\ After(st) = meant.right
              /\ meant.back = Len(history) - st.histPos
              /\ meant.back > 0 => st.stash = meant.draft
        /\ st.cursor \in Drawn(st).start..Drawn(st).end
        /\ Room > 0 => Drawn(st).end - Drawn(st).start <= Room

(* A session whose context has ended while it waits for a line ends with    *)
(* the terminal restored, although nobody presses another key (readAsync).  *)
WaitIsInterruptible == repl = "waiting" /\ ctx = "cancelled" ~> repl = "over"
=============================================================================
