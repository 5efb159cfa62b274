-------------------------- MODULE ChatPromptProofs --------------------------
(***************************************************************************)
(* The terminal goes back, and the line is what its keys meant, whatever   *)
(* the keys, the bounds and the history are.                               *)
(*                                                                         *)
(* For the terminal the inductive invariant follows raw mode and bracketed *)
(* paste through the two places that end them - the deferred calls of a    *)
(* read and Close - and says which of the two still owes what.  For the    *)
(* line it says that the line is the two texts the operator sees on either *)
(* side of the cursor, and each key is shown to keep it so.                *)
(***************************************************************************)
EXTENDS ChatPrompt, TLAPS, SequenceTheorems

(* Raw mode is what there is to restore, and paste mode never outlives it.  *)
RawIsOwed == (terminal.raw <=> restore) /\ (terminal.paste => terminal.raw)

(* A read that has not begun or is over owes nothing; one that has switched *)
(* paste mode off owes only raw mode.                                       *)
ReaderOwes ==
    /\ reader \in {"none", "starting", "returned"} => ~terminal.raw
    /\ reader = "leaving" => ~terminal.paste

(* Only a REPL that waits, or has given up waiting, has a read under way.   *)
Closing == {"closing", "unbracketing", "restoring", "over"}
OneReader == repl \notin Closing \cup {"waiting"} => reader = "none"

(* Nothing becomes raw behind a closed editor.                              *)
CloseOwes ==
    /\ closed <=> repl \in {"unbracketing", "restoring", "over"}
    /\ repl = "restoring" => ~terminal.paste
    /\ repl = "over" => ~terminal.raw

PInv == PromptTypeOK /\ RawIsOwed /\ ReaderOwes /\ OneReader /\ CloseOwes

-----------------------------------------------------------------------------
(* The chat opens on a cooked terminal. *)
LEMMA InitPInv == PromptInit => PInv
<1> SUFFICES ASSUME PromptInit PROVE PInv
    OBVIOUS
<1>1. ~terminal.raw /\ ~terminal.paste /\ ~restore /\ ~closed
    BY DEF PromptInit
<1>2. reader = "none" /\ repl = "prompt"
    BY DEF PromptInit
<1>3. PromptTypeOK
    BY <1>2 DEF PromptInit, PromptTypeOK, Stages, Positions
<1>4. QED
    BY <1>1, <1>2, <1>3 DEF PInv, RawIsOwed, ReaderOwes, OneReader, CloseOwes, Closing

(* A key of its own moves the read on, or to its deferred calls, and leaves *)
(* the terminal alone.                                                      *)
LEMMA KeyMoves ==
    ASSUME NEW k, Key(k) PROVE reader' \in {"reading", "escape", "unbracketing"}
BY DEF Key, Submit, Return

(* What the reader does keeps the invariant. *)
LEMMA ReaderPInv == PInv /\ Reader => PInv'
<1> SUFFICES ASSUME PInv, Reader PROVE PInv'
    OBVIOUS
<1> USE DEF PInv, PromptTypeOK, RawIsOwed, ReaderOwes, OneReader, CloseOwes, Closing,
            Stages, Positions
<1>1. CASE EnterRaw
    <2>1. reader = "starting" /\ UNCHANGED <<closed, repl>>
        BY <1>1 DEF EnterRaw, replVars
    <2>2. CASE reader' = "returned" /\ UNCHANGED <<terminal, restore>>
        BY <2>1, <2>2
    <2>3. CASE /\ ~closed /\ reader' = "reading" /\ restore' = TRUE
               /\ terminal' = [raw |-> TRUE, paste |-> TRUE]
        <3>1. terminal'.raw /\ terminal'.paste /\ restore'
            BY <2>3
        <3>2. terminal' \in [raw : BOOLEAN, paste : BOOLEAN]
            BY <2>3
        <3>3. repl' \in {"waiting", "closing"}
            BY <2>1, <2>3
        <3>4. QED
            BY <2>1, <2>3, <3>1, <3>2, <3>3
    <2>4. QED
        BY <1>1, <2>2, <2>3 DEF EnterRaw, MayEnter
<1>2. CASE PressKey
    <2>1. reader' \in {"reading", "escape", "unbracketing"}
        BY <1>2, KeyMoves DEF PressKey
    <2>2. QED
        BY <1>2, <2>1 DEF PressKey, replVars
<1>3. CASE PressAfterEscape
    <2>1. reader' \in {"reading", "escape", "unbracketing", "pasting"}
        BY <1>3, KeyMoves DEF PressAfterEscape
    <2>2. QED
        BY <1>3, <2>1 DEF PressAfterEscape, replVars
<1>4. CASE Paste
    <2>1. reader' \in {"pasting", "pasteEscape"}
        BY <1>4 DEF Paste, PasteRune
    <2>2. QED
        BY <1>4, <2>1 DEF Paste, replVars
<1>5. CASE PasteAfterEscape
    <2>1. reader' \in {"pasting", "reading"}
        BY <1>5 DEF PasteAfterEscape, PasteRune, MissMarker
    <2>2. QED
        BY <1>5, <2>1 DEF PasteAfterEscape, replVars
<1>6. CASE ReadEnds
    <2>1. reader' = "unbracketing" /\ reader \in {"reading", "escape", "pasting", "pasteEscape"}
        BY <1>6 DEF ReadEnds, Submit, Return, Midline
    <2>2. QED
        BY <1>6, <2>1 DEF ReadEnds, replVars
<1>7. CASE DisablePaste
    BY <1>7 DEF DisablePaste, replVars
<1>8. CASE ReadReturns
    BY <1>8 DEF ReadReturns, LeaveRaw, replVars
<1>9. QED
    BY <1>1, <1>2, <1>3, <1>4, <1>5, <1>6, <1>7, <1>8 DEF Reader

(* What the REPL does keeps the invariant. *)
LEMMA ReplPInv == PInv /\ Repl => PInv'
<1> SUFFICES ASSUME PInv, Repl PROVE PInv'
    OBVIOUS
<1> USE DEF PInv, PromptTypeOK, RawIsOwed, ReaderOwes, OneReader, CloseOwes, Closing,
            Stages, Positions
<1>1. CASE StartRead
    BY <1>1 DEF StartRead, editorVars
<1>2. CASE TakeLine
    <2>1. repl' \in {"closing", "prompt", "sending"} /\ repl = "waiting" /\ reader' = "none"
        BY <1>2 DEF TakeLine
    <2>2. QED
        BY <1>2, <2>1 DEF TakeLine, editorVars
<1>3. CASE Abandon
    BY <1>3 DEF Abandon, editorVars, readerVars
<1>4. CASE Send
    BY <1>4 DEF Send, editorVars, readerVars
<1>5. CASE CloseEditor
    BY <1>5 DEF CloseEditor, readerVars
<1>6. CASE CloseUnbrackets
    BY <1>6 DEF CloseUnbrackets, readerVars
<1>7. CASE CloseRestores
    BY <1>7 DEF CloseRestores, LeaveRaw, readerVars
<1>8. QED
    BY <1>1, <1>2, <1>3, <1>4, <1>5, <1>6, <1>7 DEF Repl

(* Every step keeps the invariant. *)
LEMMA NextPInv == PInv /\ [PromptNext]_promptVars => PInv'
<1> SUFFICES ASSUME PInv, [PromptNext]_promptVars PROVE PInv'
    OBVIOUS
<1> USE DEF PInv, PromptTypeOK, RawIsOwed, ReaderOwes, OneReader, CloseOwes, Closing,
            Stages, Positions
<1>1. CASE Reader
    BY <1>1, ReaderPInv
<1>2. CASE Repl
    BY <1>2, ReplPInv
<1>3. CASE Answer
    <2>1. repl' \in {"closing", "prompt"}
        BY <1>3 DEF Answer
    <2>2. QED
        BY <1>3, <2>1 DEF Answer, editorVars, readerVars
<1>4. CASE Ask
    BY <1>4 DEF Ask, editorVars, readerVars
<1>5. CASE HumanAnswers
    BY <1>5 DEF HumanAnswers, editorVars, readerVars
<1>6. CASE Cancel
    BY <1>6 DEF Cancel, editorVars, readerVars, replVars
<1>7. CASE HangUp
    BY <1>7 DEF HangUp, editorVars, readerVars, replVars
<1>8. CASE PromptOver \/ UNCHANGED promptVars
    BY <1>8 DEF PromptOver, promptVars, editorVars, readerVars, replVars
<1>9. QED
    BY <1>1, <1>2, <1>3, <1>4, <1>5, <1>6, <1>7, <1>8 DEF PromptNext

(* Whoever else uses the terminal finds it cooked, unbracketed and with no  *)
(* read under way, and so does the shell once the editor is closed: for any *)
(* keys, any history and any moment at which a read is abandoned.           *)
THEOREM TerminalHandedBack == PromptSpec => []TerminalIsHandedBack
<1>1. PInv => TerminalIsHandedBack
    BY DEF PInv, PromptTypeOK, RawIsOwed, ReaderOwes, OneReader, CloseOwes, Closing, Stages,
           Positions, TerminalIsHandedBack, Cooked
<1>2. QED
    BY InitPInv, NextPInv, <1>1, PTL DEF PromptSpec

-----------------------------------------------------------------------------
(* The facts about sets of positions, which say nothing of what is folded.  *)
Places == INSTANCE FoldTheorems WITH Op <- Insert
-----------------------------------------------------------------------------
(* A line and its cursor are two texts, one on either side: the operations  *)
(* of the line are proved on the two texts.                                 *)
Shows(s, left, right) == s.line = left \o right /\ s.cursor = Len(left)

(* The two texts are what Before and After read off. *)
LEMMA ShowsSplits ==
    ASSUME NEW S, NEW left \in Seq(S), NEW right \in Seq(S), NEW s, Shows(s, left, right)
    PROVE  /\ s.line \in Seq(S) /\ s.cursor \in 0..Len(s.line)
           /\ Before(s) = left /\ After(s) = right
<1> DEFINE line == left \o right
           n == Len(left)
           m == Len(right)
<1>1. s.line = line /\ s.cursor = n
    BY DEF Shows
<1>2. /\ line \in Seq(S) /\ Len(line) = n + m /\ n \in Nat /\ m \in Nat
      /\ \A i \in 1..n : line[i] = left[i]
      /\ \A i \in 1..m : line[n + i] = right[i]
    BY ConcatProperties, LenProperties
<1> HIDE DEF line
<1>3. SubSeq(line, 1, n) = left
    <2>1. /\ SubSeq(line, 1, n) \in Seq(S) /\ Len(SubSeq(line, 1, n)) = n
          /\ \A i \in 1..n : SubSeq(line, 1, n)[i] = line[i]
        BY <1>2
    <2>2. QED
        BY <1>2, <2>1, SeqEqual
<1>4. SubSeq(line, n + 1, n + m) = right
    <2>1. /\ SubSeq(line, n + 1, n + m) \in Seq(S) /\ Len(SubSeq(line, n + 1, n + m)) = m
          /\ \A i \in 1..m : SubSeq(line, n + 1, n + m)[i] = line[n + i]
        BY <1>2
    <2>2. QED
        BY <1>2, <2>1, SeqEqual
<1>5. QED
    BY <1>1, <1>2, <1>3, <1>4 DEF Before, After

(* And they are all there is. *)
LEMMA SplitShows ==
    ASSUME NEW S, NEW s, s.line \in Seq(S), s.cursor \in 0..Len(s.line)
    PROVE  /\ Before(s) \in Seq(S) /\ After(s) \in Seq(S)
           /\ Shows(s, Before(s), After(s))
<1> DEFINE n == Len(s.line)
<1>1. n \in Nat /\ s.cursor \in 0..n /\ 1 \in 1..n + 1 /\ n \in s.cursor..n
    BY LenProperties
<1>2. \A i \in 1..n : s.line[i] \in S
    BY ElementOfSeq
<1>3. Before(s) \in Seq(S) /\ Len(Before(s)) = s.cursor
    BY <1>1, <1>2, SubSeqProperties DEF Before
<1>4. After(s) \in Seq(S)
    BY <1>1, <1>2, SubSeqProperties DEF After
<1>5. Before(s) \o After(s) = SubSeq(s.line, 1, n)
    <2>1. s.cursor \in 1 - 1..n
        BY <1>1
    <2>2. SubSeq(s.line, 1, s.cursor) \o SubSeq(s.line, s.cursor + 1, n) = SubSeq(s.line, 1, n)
        BY <1>1, <2>1, ConcatAdjacentSubSeq
    <2>3. QED
        BY <2>2 DEF Before, After
<1>6. QED
    BY <1>3, <1>4, <1>5, SubSeqFull DEF Shows

(* A cut within the left text is one of the line, and so is one within the  *)
(* right text.                                                              *)
LEMMA CutLeft ==
    ASSUME NEW S, NEW left \in Seq(S), NEW right \in Seq(S), NEW i \in 0..Len(left)
    PROVE  SubSeq(left \o right, 1, i) = SubSeq(left, 1, i)
<1>1. CASE i = 0
    BY <1>1, SubSeqEmpty
<1>2. CASE i # 0
    <2>1. 1 \in 1..Len(left) /\ i \in 1..Len(left)
        BY <1>2, LenProperties
    <2>2. QED
        BY <2>1, SubSeqOfConcat1
<1>3. QED
    BY <1>1, <1>2

LEMMA CutRight ==
    ASSUME NEW S, NEW left \in Seq(S), NEW right \in Seq(S), NEW i \in 0..Len(right)
    PROVE  SubSeq(left \o right, Len(left) + 1 + i, Len(left \o right))
               = SubSeq(right, 1 + i, Len(right))
<1> DEFINE n == Len(left)
           m == Len(right)
<1>1. n \in Nat /\ m \in Nat /\ Len(left \o right) = n + m
    BY LenProperties, ConcatProperties
<1>2. CASE i = m
    <2>1. /\ SubSeq(left \o right, n + 1 + i, n + m) = <<>>
          /\ SubSeq(right, 1 + i, m) = <<>>
        BY <1>1, <1>2, SubSeqEmpty
    <2>2. QED
        BY <1>1, <2>1
<1>3. CASE i # m
    <2>1. n + 1 + i \in n + 1..n + m /\ n + m \in n + 1..n + m
        BY <1>1, <1>3
    <2>2. SubSeq(left \o right, n + 1 + i, n + m)
              = SubSeq(right, n + 1 + i - n, n + m - n)
        BY <2>1, SubSeqOfConcat2
    <2>3. n + 1 + i - n = 1 + i /\ n + m - n = m
        BY <1>1
    <2>4. QED
        BY <1>1, <2>2, <2>3
<1>4. QED
    BY <1>2, <1>3

LEMMA FrontIs ==
    ASSUME NEW S, NEW s \in Seq(S), s # <<>>
    PROVE  /\ Len(s) \in Nat \ {0} /\ Front(s) \in Seq(S) /\ Len(Front(s)) = Len(s) - 1
           /\ Last(s) \in S /\ s = Front(s) \o <<Last(s)>>
<1>1. Len(s) \in Nat \ {0} /\ \A i \in 1..Len(s) : s[i] \in S
    BY EmptySeq, ElementOfSeq
<1>2. Front(s) \in Seq(S) /\ Len(Front(s)) = Len(s) - 1 /\ Last(s) \in S
    <2> DEFINE n == Len(s)
    <2>1. n - 1 \in Int /\ 1 \in Int /\ n \in 1..n /\ \A i \in 1..n - 1 : s[i] \in S
        BY <1>1
    <2>2. /\ SubSeq(s, 1, n - 1) \in Seq(S)
          /\ Len(SubSeq(s, 1, n - 1)) = IF 1 <= n - 1 THEN n - 1 - 1 + 1 ELSE 0
        BY <2>1, SubSeqProperties
    <2>3. Front(s) \in Seq(S) /\ Last(s) \in S
        BY <1>1, <2>1, <2>2 DEF Front, Last
    <2>4. Len(SubSeq(s, 1, n - 1)) = n - 1
        <3>1. n \in Nat \ {0}
            BY <1>1
        <3> HIDE DEF n
        <3>2. QED
            BY <2>2, <3>1
    <2>5. QED
        BY <2>3, <2>4 DEF Front
<1>3. s = Front(s) \o <<Last(s)>>
    <2>1. 1 \in 1..Len(s) /\ Len(s) \in 1..Len(s)
        BY <1>1
    <2>2. SubSeq(s, 1, Len(s)) = SubSeq(s, 1, Len(s) - 1) \o <<s[Len(s)]>>
        BY <2>1, SubSeqRecursiveSecond
    <2>3. QED
        BY <2>2, SubSeqFull DEF Front, Last
<1>4. QED
    BY <1>1, <1>2, <1>3

LEMMA TailIs ==
    ASSUME NEW S, NEW s \in Seq(S), s # <<>>
    PROVE  /\ Len(s) \in Nat \ {0} /\ Tail(s) \in Seq(S) /\ Len(Tail(s)) = Len(s) - 1
           /\ Head(s) \in S /\ s = <<Head(s)>> \o Tail(s)
           /\ Tail(s) = SubSeq(s, 2, Len(s))
<1>1. Len(s) \in Nat \ {0}
    BY EmptySeq
<1>2. Head(s) \in S /\ Tail(s) \in Seq(S) /\ Len(Tail(s)) = Len(s) - 1 /\ Head(s) = s[1]
    BY <1>1, HeadTailProperties
<1>3. Tail(s) = SubSeq(s, 2, Len(s))
    BY TailIsSubSeq
<1>4. s = <<Head(s)>> \o Tail(s)
    <2>1. 1 \in 1..Len(s) /\ Len(s) \in 1..Len(s) /\ 1 + 1 = 2
        BY <1>1
    <2>2. SubSeq(s, 1, Len(s)) = <<s[1]>> \o SubSeq(s, 2, Len(s))
        BY <2>1, SubSeqRecursiveFirst
    <2>3. QED
        BY <1>2, <1>3, <2>2, SubSeqFull
<1>5. QED
    BY <1>1, <1>2, <1>3, <1>4

(* What each operation of the line makes of the two texts. *)
LEMMA InsertBetween ==
    ASSUME NEW S, NEW left \in Seq(S), NEW right \in Seq(S), NEW e \in S
    PROVE  InsertAt(left \o right, Len(left) + 1, e) = Append(left, e) \o right
<1> DEFINE line == left \o right
           n == Len(left)
<1>1. n \in Nat /\ n \in 0..n /\ 0 \in 0..Len(right) /\ (n + 1) - 1 = n /\ n + 1 + 0 = n + 1 /\ 1 + 0 = 1
    BY LenProperties
<1>2. SubSeq(line, 1, n) = left
    BY <1>1, CutLeft, SubSeqFull
<1>3. SubSeq(line, n + 1, Len(line)) = right
    <2>1. SubSeq(line, n + 1 + 0, Len(line)) = SubSeq(right, 1 + 0, Len(right))
        BY <1>1, CutRight
    <2>2. QED
        BY <1>1, <2>1, SubSeqFull
<1>4. InsertAt(line, n + 1, e) = (left \o <<e>>) \o right
    <2> HIDE DEF line, n
    <2>1. InsertAt(line, n + 1, e)
              = SubSeq(line, 1, (n + 1) - 1) \o <<e>> \o SubSeq(line, n + 1, Len(line))
        BY <1>1 DEF InsertAt
    <2>2. QED
        BY <1>1, <1>2, <1>3, <2>1
<1>5. QED
    BY <1>4, AppendIsConcat

LEMMA RemoveBefore ==
    ASSUME NEW S, NEW left \in Seq(S), NEW right \in Seq(S), left # <<>>
    PROVE  RemoveAt(left \o right, Len(left)) = Front(left) \o right
<1> DEFINE line == left \o right
           n == Len(left)
<1>1. n \in Nat \ {0} /\ n - 1 \in 0..n /\ 0 \in 0..Len(right) /\ n + 1 + 0 = n + 1 /\ 1 + 0 = 1
    BY FrontIs, LenProperties
<1>2. SubSeq(line, 1, n - 1) = Front(left)
    BY <1>1, CutLeft DEF Front
<1>3. SubSeq(line, n + 1, Len(line)) = right
    <2>1. SubSeq(line, n + 1 + 0, Len(line)) = SubSeq(right, 1 + 0, Len(right))
        BY <1>1, CutRight
    <2>2. QED
        BY <1>1, <2>1, SubSeqFull
<1> HIDE DEF line, n
<1>4. RemoveAt(line, n) = Front(left) \o right
    BY <1>2, <1>3 DEF RemoveAt
<1>5. QED
    BY <1>4 DEF line, n

LEMMA RemoveAfter ==
    ASSUME NEW S, NEW left \in Seq(S), NEW right \in Seq(S), right # <<>>
    PROVE  RemoveAt(left \o right, Len(left) + 1) = left \o Tail(right)
<1> DEFINE line == left \o right
           n == Len(left)
<1>1. /\ n \in Nat /\ n \in 0..n /\ 1 \in 0..Len(right)
      /\ (n + 1) - 1 = n /\ n + 1 + 1 = (n + 1) + 1 /\ 1 + 1 = 2
    BY TailIs, LenProperties
<1>2. SubSeq(line, 1, n) = left
    BY <1>1, CutLeft, SubSeqFull
<1>3. SubSeq(line, n + 1 + 1, Len(line)) = Tail(right)
    <2>1. SubSeq(line, n + 1 + 1, Len(line)) = SubSeq(right, 1 + 1, Len(right))
        BY <1>1, CutRight
    <2>2. QED
        BY <1>1, <2>1, TailIs
<1> HIDE DEF line, n
<1>4. RemoveAt(line, n + 1) = left \o Tail(right)
    <2>1. RemoveAt(line, n + 1)
              = SubSeq(line, 1, (n + 1) - 1) \o SubSeq(line, (n + 1) + 1, Len(line))
        BY <1>1 DEF RemoveAt
    <2>2. QED
        BY <1>1, <1>2, <1>3, <2>1
<1>5. QED
    BY <1>4 DEF line, n

LEMMA OneLeft ==
    ASSUME NEW S, NEW left \in Seq(S), NEW right \in Seq(S), left # <<>>
    PROVE  /\ <<Last(left)>> \o right \in Seq(S)
           /\ left \o right = Front(left) \o (<<Last(left)>> \o right)
<1> DEFINE front == Front(left)
           last == <<Last(left)>>
<1>1. front \in Seq(S) /\ last \in Seq(S) /\ left = front \o last
    <2>1. Front(left) \in Seq(S) /\ Last(left) \in S /\ left = Front(left) \o <<Last(left)>>
        BY FrontIs
    <2>2. QED
        BY <2>1
<1>2. front \in Seq(S) /\ last \in Seq(S)
    BY <1>1
<1> HIDE DEF front, last
<1>3. (front \o last) \o right = front \o (last \o right)
    BY <1>2, ConcatAssociative, SMTT(20)
<1>4. last \o right \in Seq(S)
    BY <1>2, ConcatProperties
<1>5. QED
    BY <1>1, <1>3, <1>4 DEF front, last

LEMMA OneRight ==
    ASSUME NEW S, NEW left \in Seq(S), NEW right \in Seq(S), right # <<>>
    PROVE  left \o right = Append(left, Head(right)) \o Tail(right)
<1>1. Head(right) \in S /\ <<Head(right)>> \in Seq(S) /\ Tail(right) \in Seq(S)
      /\ right = <<Head(right)>> \o Tail(right)
    BY TailIs
<1>2. left \o (<<Head(right)>> \o Tail(right)) = (left \o <<Head(right)>>) \o Tail(right)
    BY <1>1, ConcatAssociative
<1>3. QED
    BY <1>1, <1>2, AppendIsConcat

(* The last position of a text that is in T, 0 if none is. *)
LastOf(s, T) == LET I == {i \in 1..Len(s) : s[i] \in T} IN IF I # {} THEN Max(I) ELSE 0

LEMMA LastOfIs ==
    ASSUME NEW S, NEW s \in Seq(S), NEW T
    PROVE  /\ LastOf(s, T) \in 0..Len(s)
           /\ LastOf(s, T) # 0 => s[LastOf(s, T)] \in T
           /\ \A j \in 1..Len(s) : j > LastOf(s, T) => s[j] \notin T
<1> DEFINE I == {i \in 1..Len(s) : s[i] \in T}
<1>1. Len(s) \in Nat
    BY LenProperties
<1>2. CASE I = {}
    BY <1>1, <1>2 DEF LastOf
<1>3. CASE I # {}
    <2>1. I \in Places!Upto(Len(s))
        BY DEF Places!Upto
    <2>2. Max(I) \in I /\ Max(I) \in 1..Len(s) /\ \A i \in I : i <= Max(I)
        <3> HIDE DEF I
        <3>1. QED
            BY <1>1, <1>3, <2>1, Places!MaxOf DEF Places!Largest, Max
    <2>3. LastOf(s, T) = Max(I)
        BY <1>3 DEF LastOf
    <2>4. \A j \in 1..Len(s) : s[j] \in T => j \in I
        OBVIOUS
    <2>5. s[Max(I)] \in T
        BY <2>2
    <2> HIDE DEF I
    <2>6. \A j \in 1..Len(s) : j > Max(I) => s[j] \notin T
        BY <1>1, <2>2, <2>4
    <2>7. QED
        BY <1>1, <2>2, <2>3, <2>5, <2>6
<1>4. QED
    BY <1>2, <1>3

(* The word the key takes is the shortest cut that leaves no half word. *)
LEMMA WordStartIs ==
    ASSUME NEW S, NEW s \in Seq(S)
    PROVE  /\ WordStart(s) \in 0..Len(s)
           /\ WithoutWord(s) = SubSeq(s, 1, WordStart(s))
<1> DEFINE n == Len(s)
           words == S \ {Space}
           e == LastOf(s, words)
           upto == SubSeq(s, 1, e)
           w == LastOf(upto, {Space})
           Cut(i) == /\ \E k \in i..Len(s) : /\ \A j \in i + 1..k : s[j] # Space
                                             /\ \A j \in k + 1..Len(s) : s[j] = Space
                     /\ i = 0 \/ s[i] = Space
           cuts == {i \in 0..Len(s) : Cut(i)}
<1>1. n \in Nat /\ \A i \in 1..n : s[i] \in S
    BY LenProperties, ElementOfSeq
<1>2. /\ e \in 0..n
      /\ e # 0 => s[e] # Space
      /\ \A j \in 1..n : j > e => s[j] = Space
    BY <1>1, LastOfIs
<1>3. SelectLastInSeq(s, LAMBDA c : c # Space) = e
    <2>1. {i \in 1..Len(s) : s[i] # Space} = {i \in 1..Len(s) : s[i] \in words}
        BY <1>1
    <2>2. QED
        BY <2>1 DEF SelectLastInSeq, LastOf
<1>4. WordStart(s) = w
    <2>1. {i \in 1..Len(upto) : upto[i] = Space} = {i \in 1..Len(upto) : upto[i] \in {Space}}
        OBVIOUS
    <2>2. SelectLastInSeq(upto, LAMBDA c : c = Space) = w
        BY <2>1 DEF SelectLastInSeq, LastOf
    <2> HIDE DEF e
    <2>3. QED
        BY <1>3, <2>2 DEF WordStart
<1> HIDE DEF e
<1>5. /\ upto \in Seq(S) /\ Len(upto) = e
      /\ \A i \in 1..e : upto[i] = s[i]
    BY <1>1, <1>2
<1>6. /\ w \in 0..e
      /\ w # 0 => s[w] = Space
      /\ \A j \in 1..e : j > w => s[j] # Space
    <2> HIDE DEF upto
    <2>1. /\ w \in 0..Len(upto)
          /\ w # 0 => upto[w] \in {Space}
          /\ \A j \in 1..Len(upto) : j > w => upto[j] \notin {Space}
        BY <1>5, LastOfIs
    <2> HIDE DEF w
    <2>2. QED
        BY <1>1, <1>2, <1>5, <2>1
<1> HIDE DEF w, upto
<1>7. w \in cuts
    <2>1. e \in w..n /\ w \in 0..n
        BY <1>1, <1>2, <1>6
    <2>2. \A j \in w + 1..e : s[j] # Space
        BY <1>1, <1>2, <1>6
    <2>3. \A j \in e + 1..n : s[j] = Space
        BY <1>1, <1>2
    <2>4. QED
        BY <1>6, <2>1, <2>2, <2>3
<1>8. ASSUME NEW i \in cuts PROVE w <= i
    <2>1. PICK k \in i..n : /\ \A j \in i + 1..k : s[j] # Space
                            /\ \A j \in k + 1..n : s[j] = Space
        OBVIOUS
    <2>2. SUFFICES ASSUME i < w PROVE FALSE
        BY <1>1, <1>2, <1>6
    <2>3. i \in 0..n /\ w \in i + 1..n /\ s[w] = Space /\ e \in 1..n /\ s[e] # Space /\ w <= e
        BY <1>1, <1>2, <1>6, <2>2
    <2> HIDE DEF cuts
    <2>4. k < w
        BY <1>1, <2>1, <2>3
    <2>5. e \in k + 1..n
        BY <1>1, <2>1, <2>3, <2>4
    <2>6. QED
        BY <2>1, <2>3, <2>5
<1>9. \A i \in cuts : i \in Int
    BY <1>1
<1> DEFINE m == CHOOSE i \in cuts : \A j \in cuts : i <= j
<1>10. WithoutWord(s) = SubSeq(s, 1, m)
    BY DEF WithoutWord
<1> HIDE DEF cuts
<1>11. m = w
    <2>1. m \in cuts /\ \A j \in cuts : m <= j
        BY <1>7, <1>8
    <2> HIDE DEF m
    <2>2. QED
        BY <1>7, <1>8, <1>9, <2>1
<1> HIDE DEF m
<1>12. QED
    BY <1>1, <1>2, <1>4, <1>6, <1>10, <1>11
-----------------------------------------------------------------------------
(* What the reader holds against what the operator means. *)
Text == Seq(Runes)
Buffers == [line : Text, cursor : Nat, histPos : Nat, stash : Text]
Intents == [left : Text, right : Text, draft : Text, back : Nat, astray : BOOLEAN]

Agrees(s, z, h) ==
    /\ s \in Buffers /\ z \in Intents
    /\ Shows(s, z.left, z.right)
    /\ s.histPos \in 0..Len(h) /\ z.back = Len(h) - s.histPos
    /\ z.back > 0 => s.stash = z.draft

(* A key that only changes the line: what becomes of either side. *)
Rewritten(s2, s, left, right) == s2 = [s EXCEPT !.line = left \o right, !.cursor = Len(left)]
Intended(z2, z, left, right) == z2 = [z EXCEPT !.left = left, !.right = right]

(* It leaves the rest as it was. *)
LEMMA Rewrites ==
    ASSUME NEW s, NEW z, NEW h, Agrees(s, z, h), NEW left \in Text, NEW right \in Text,
           NEW s2, Rewritten(s2, s, left, right), NEW z2, Intended(z2, z, left, right)
    PROVE  Agrees(s2, z2, h)
<1>1. left \o right \in Text /\ Len(left) \in Nat
    BY ConcatProperties, LenProperties DEF Text
<1>2. /\ s2 \in Buffers /\ s2.line = left \o right /\ s2.cursor = Len(left)
      /\ s2.histPos = s.histPos /\ s2.stash = s.stash
    BY <1>1 DEF Agrees, Buffers, Rewritten
<1>3. /\ z2 \in Intents /\ z2.left = left /\ z2.right = right
      /\ z2.draft = z.draft /\ z2.back = z.back
    BY DEF Agrees, Intents, Intended
<1>4. QED
    BY <1>2, <1>3 DEF Agrees, Shows

(* The two sides of a line, and what they weigh. *)
LEMMA Sides ==
    ASSUME NEW s, NEW z, NEW h, Agrees(s, z, h)
    PROVE  /\ z.left \in Text /\ z.right \in Text
           /\ s.line = z.left \o z.right /\ s.line \in Text
           /\ s.cursor = Len(z.left) /\ Len(z.left) \in Nat /\ Len(z.right) \in Nat
           /\ Len(s.line) = Len(z.left) + Len(z.right)
           /\ Before(s) = z.left /\ After(s) = z.right
<1>1. z.left \in Text /\ z.right \in Text /\ Shows(s, z.left, z.right)
    BY DEF Agrees, Intents
<1>2. Len(z.left) \in Nat /\ Len(z.right) \in Nat
    BY <1>1, LenProperties DEF Text
<1>3. z.left \o z.right \in Text /\ Len(z.left \o z.right) = Len(z.left) + Len(z.right)
    BY <1>1, ConcatProperties DEF Text
<1>4. Before(s) = z.left /\ After(s) = z.right
    BY <1>1, ShowsSplits DEF Text
<1>5. QED
    BY <1>1, <1>2, <1>3, <1>4 DEF Shows

(* Midline a rune. *)
LEMMA InsertAgrees ==
    ASSUME NEW s, NEW z, NEW h, Agrees(s, z, h), NEW c \in Runes
    PROVE  Agrees(Insert(s, c), TypedIn(z, c), h)
<1>1. /\ z.left \in Text /\ z.right \in Text
      /\ s.line = z.left \o z.right /\ s.cursor = Len(z.left) /\ Len(z.left) \in Nat
      /\ Len(s.line) = Len(z.left) + Len(z.right)
    BY Sides
<1>2. CASE Len(s.line) >= MaxLine
    BY <1>1, <1>2 DEF Insert, TypedIn, FullLine
<1>3. CASE ~(Len(s.line) >= MaxLine)
    <2> DEFINE left == Append(z.left, c)
               line == InsertAt(s.line, s.cursor + 1, c)
    <2>1. line = left \o z.right
        <3>1. InsertAt(z.left \o z.right, Len(z.left) + 1, c) = Append(z.left, c) \o z.right
            BY <1>1, InsertBetween DEF Text
        <3>2. QED
            BY <1>1, <3>1
    <2>2. left \in Text /\ Len(left) = s.cursor + 1
        BY <1>1, AppendProperties DEF Text
    <2>3. Rewritten(Insert(s, c), s, left, z.right)
        BY <1>3, <2>1, <2>2 DEF Insert, Agrees, Buffers, Rewritten
    <2>4. Intended(TypedIn(z, c), z, left, z.right)
        BY <1>1, <1>3 DEF TypedIn, FullLine, Agrees, Intents, Intended
    <2> HIDE DEF left, line
    <2>5. QED
        BY <1>1, <2>2, <2>3, <2>4, Rewrites
<1>4. QED
    BY <1>2, <1>3

(* Rubbing one out, on either side. *)
LEMMA BackspaceAgrees ==
    ASSUME NEW s, NEW z, NEW h, Agrees(s, z, h)
    PROVE  Agrees(Backspace(s), [z EXCEPT !.left = Front1(@)], h)
<1>1. /\ z.left \in Text /\ z.right \in Text
      /\ s.line = z.left \o z.right /\ s.cursor = Len(z.left) /\ Len(z.left) \in Nat
    BY Sides
<1>2. CASE z.left = <<>>
    <2>1. s.cursor = 0
        BY <1>1, <1>2
    <2>2. [z EXCEPT !.left = Front1(@)] = z
        BY <1>2 DEF Front1, Agrees, Intents
    <2>3. QED
        BY <2>1, <2>2 DEF Backspace
<1>3. CASE z.left # <<>>
    <2> DEFINE left == Front(z.left)
               line == RemoveAt(s.line, s.cursor)
    <2>1. left \in Text /\ Len(left) = s.cursor - 1 /\ s.cursor # 0
        BY <1>1, <1>3, FrontIs DEF Text
    <2>2. line = left \o z.right
        BY <1>1, <1>3, RemoveBefore DEF Text
    <2>3. Rewritten(Backspace(s), s, left, z.right)
        BY <2>1, <2>2 DEF Backspace, Agrees, Buffers, Rewritten
    <2>4. Intended([z EXCEPT !.left = Front1(@)], z, left, z.right)
        BY <1>3 DEF Front1, Agrees, Intents, Intended
    <2> HIDE DEF left, line
    <2>5. QED
        BY <1>1, <2>1, <2>3, <2>4, Rewrites
<1>4. QED
    BY <1>2, <1>3

LEMMA DeleteAgrees ==
    ASSUME NEW s, NEW z, NEW h, Agrees(s, z, h)
    PROVE  Agrees(DeleteAt(s), [z EXCEPT !.right = Tail1(@)], h)
<1>1. /\ z.left \in Text /\ z.right \in Text
      /\ s.line = z.left \o z.right /\ s.cursor = Len(z.left)
      /\ Len(z.left) \in Nat /\ Len(z.right) \in Nat
      /\ Len(s.line) = Len(z.left) + Len(z.right)
    BY Sides
<1>2. CASE z.right = <<>>
    <2>1. s.cursor >= Len(s.line)
        BY <1>1, <1>2
    <2>2. [z EXCEPT !.right = Tail1(@)] = z
        BY <1>2 DEF Tail1, Agrees, Intents
    <2>3. QED
        BY <2>1, <2>2 DEF DeleteAt
<1>3. CASE z.right # <<>>
    <2> DEFINE right == Tail(z.right)
               line == RemoveAt(s.line, s.cursor + 1)
    <2>1. right \in Text /\ ~(s.cursor >= Len(s.line))
        <3>1. right \in Text /\ Len(z.right) \in Nat \ {0}
            BY <1>1, <1>3, TailIs DEF Text
        <3> HIDE DEF right
        <3> DEFINE n == Len(z.left)
                   m == Len(z.right)
                   whole == Len(s.line)
        <3>2. n \in Nat /\ m \in Nat \ {0} /\ whole = n + m /\ s.cursor = n
            BY <1>1, <3>1
        <3> HIDE DEF n, m, whole
        <3>3. ~(s.cursor >= whole)
            BY <3>2
        <3>4. QED
            BY <3>1, <3>3 DEF whole
    <2>2. line = z.left \o right
        BY <1>1, <1>3, RemoveAfter DEF Text
    <2>3. Rewritten(DeleteAt(s), s, z.left, right)
        BY <1>1, <2>1, <2>2 DEF DeleteAt, Agrees, Buffers, Rewritten
    <2>4. Intended([z EXCEPT !.right = Tail1(@)], z, z.left, right)
        BY <1>3 DEF Tail1, Agrees, Intents, Intended
    <2> HIDE DEF right, line
    <2>5. QED
        BY <1>1, <2>1, <2>3, <2>4, Rewrites
<1>4. QED
    BY <1>2, <1>3

(* Moving along the line. *)
IntendLeft(z) == IF z.left = <<>> THEN z
                 ELSE [z EXCEPT !.left = Front(@), !.right = <<Last(z.left)>> \o @]
IntendRight(z) == IF z.right = <<>> THEN z
                  ELSE [z EXCEPT !.left = Append(@, Head(z.right)), !.right = Tail(@)]

LEMMA LeftAgrees ==
    ASSUME NEW s, NEW z, NEW h, Agrees(s, z, h) PROVE Agrees(Left(s), IntendLeft(z), h)
<1>1. /\ z.left \in Text /\ z.right \in Text
      /\ s.line = z.left \o z.right /\ s.cursor = Len(z.left) /\ Len(z.left) \in Nat
    BY Sides
<1>2. CASE z.left = <<>>
    BY <1>1, <1>2 DEF Left, IntendLeft
<1>3. CASE z.left # <<>>
    <2> DEFINE left == Front(z.left)
               right == <<Last(z.left)>> \o z.right
    <2>1. left \in Text /\ Len(left) = s.cursor - 1 /\ s.cursor > 0
        <3>1. /\ Len(z.left) \in Nat \ {0} /\ left \in Text /\ Len(left) = Len(z.left) - 1
            BY <1>1, <1>3, FrontIs DEF Text
        <3> HIDE DEF left
        <3>2. s.cursor \in Nat \ {0}
            BY <1>1, <3>1
        <3>3. QED
            BY <1>1, <3>1, <3>2
    <2>2. right \in Text /\ s.line = left \o right
        BY <1>1, <1>3, OneLeft DEF Text
    <2>3. Rewritten(Left(s), s, left, right)
        BY <2>1, <2>2 DEF Left, Agrees, Buffers, Rewritten
    <2>4. Intended(IntendLeft(z), z, left, right)
        BY <1>3 DEF IntendLeft, Agrees, Intents, Intended
    <2> HIDE DEF left, right
    <2>5. QED
        BY <2>1, <2>2, <2>3, <2>4, Rewrites
<1>4. QED
    BY <1>2, <1>3

LEMMA RightAgrees ==
    ASSUME NEW s, NEW z, NEW h, Agrees(s, z, h) PROVE Agrees(Right(s), IntendRight(z), h)
<1>1. /\ z.left \in Text /\ z.right \in Text
      /\ s.line = z.left \o z.right /\ s.cursor = Len(z.left)
      /\ Len(z.left) \in Nat /\ Len(z.right) \in Nat
      /\ Len(s.line) = Len(z.left) + Len(z.right)
    BY Sides
<1>2. CASE z.right = <<>>
    BY <1>1, <1>2 DEF Right, IntendRight
<1>3. CASE z.right # <<>>
    <2> DEFINE left == Append(z.left, Head(z.right))
               right == Tail(z.right)
    <2>1. right \in Text /\ Head(z.right) \in Runes /\ Len(z.right) \in Nat \ {0}
        BY <1>1, <1>3, TailIs DEF Text
    <2>2. left \in Text /\ Len(left) = s.cursor + 1
        BY <1>1, <2>1, AppendProperties DEF Text
    <2>3. s.line = left \o right
        BY <1>1, <1>3, OneRight DEF Text
    <2> HIDE DEF left, right
    <2>4. s.cursor < Len(s.line)
        <3> DEFINE n == Len(z.left)
                   m == Len(z.right)
                   whole == Len(s.line)
        <3>1. n \in Nat /\ m \in Nat \ {0} /\ whole = n + m /\ s.cursor = n
            BY <1>1, <2>1
        <3> HIDE DEF n, m, whole
        <3>2. s.cursor < whole
            BY <3>1
        <3>3. QED
            BY <3>2 DEF whole
    <2>5. Rewritten(Right(s), s, left, right)
        BY <2>2, <2>3, <2>4 DEF Right, Agrees, Buffers, Rewritten
    <2>6. Intended(IntendRight(z), z, left, right)
        BY <1>3 DEF IntendRight, Agrees, Intents, Intended, left, right
    <2>7. QED
        BY <2>1, <2>2, <2>5, <2>6, Rewrites
<1>4. QED
    BY <1>2, <1>3

LEMMA HomeEndAgree ==
    ASSUME NEW s, NEW z, NEW h, Agrees(s, z, h)
    PROVE  /\ Agrees(Home(s), [z EXCEPT !.left = <<>>, !.right = Whole(z)], h)
           /\ Agrees(End(s), [z EXCEPT !.left = Whole(z), !.right = <<>>], h)
<1>1. s.line = Whole(z) /\ s.line \in Text /\ <<>> \in Text /\ Len(<<>>) = 0
    BY Sides, EmptySeq DEF Whole, Text
<1>2. <<>> \o s.line = s.line /\ s.line \o <<>> = s.line
    BY <1>1, ConcatEmptySeq DEF Text
<1>3. Agrees(Home(s), [z EXCEPT !.left = <<>>, !.right = Whole(z)], h)
    <2>1. Rewritten(Home(s), s, <<>>, s.line)
        BY <1>1, <1>2 DEF Home, Agrees, Buffers, Rewritten
    <2>2. Intended([z EXCEPT !.left = <<>>, !.right = Whole(z)], z, <<>>, s.line)
        BY <1>1 DEF Intended
    <2>3. QED
        BY <1>1, <2>1, <2>2, Rewrites
<1>4. Agrees(End(s), [z EXCEPT !.left = Whole(z), !.right = <<>>], h)
    <2>1. Rewritten(End(s), s, s.line, <<>>)
        BY <1>1, <1>2 DEF End, Agrees, Buffers, Rewritten
    <2>2. Intended([z EXCEPT !.left = Whole(z), !.right = <<>>], z, s.line, <<>>)
        BY <1>1 DEF Intended
    <2>3. QED
        BY <1>1, <2>1, <2>2, Rewrites
<1>5. QED
    BY <1>3, <1>4

(* Taking one side away, or a word. *)
LEMMA KillAgrees ==
    ASSUME NEW s, NEW z, NEW h, Agrees(s, z, h)
    PROVE  /\ Agrees(KillToStart(s), [z EXCEPT !.left = <<>>], h)
           /\ Agrees(KillToEnd(s), [z EXCEPT !.right = <<>>], h)
           /\ Agrees(KillWord(s), [z EXCEPT !.left = WithoutWord(@)], h)
<1>1. /\ z.left \in Text /\ z.right \in Text /\ <<>> \in Text /\ Len(<<>>) = 0
      /\ s.line = z.left \o z.right /\ s.cursor = Len(z.left) /\ Len(z.left) \in Nat
      /\ Before(s) = z.left /\ After(s) = z.right
    BY Sides, EmptySeq DEF Text
<1>2. <<>> \o z.right = z.right /\ z.left \o <<>> = z.left
    BY <1>1, ConcatEmptySeq DEF Text
<1>3. Agrees(KillToStart(s), [z EXCEPT !.left = <<>>], h)
    <2>1. Rewritten(KillToStart(s), s, <<>>, z.right)
        BY <1>1, <1>2 DEF KillToStart, Agrees, Buffers, Rewritten
    <2>2. Intended([z EXCEPT !.left = <<>>], z, <<>>, z.right)
        BY DEF Intended, Agrees, Intents
    <2>3. QED
        BY <1>1, <2>1, <2>2, Rewrites
<1>4. Agrees(KillToEnd(s), [z EXCEPT !.right = <<>>], h)
    <2>1. Rewritten(KillToEnd(s), s, z.left, <<>>)
        BY <1>1, <1>2 DEF KillToEnd, Agrees, Buffers, Rewritten
    <2>2. Intended([z EXCEPT !.right = <<>>], z, z.left, <<>>)
        BY DEF Intended, Agrees, Intents
    <2>3. QED
        BY <1>1, <2>1, <2>2, Rewrites
<1>5. Agrees(KillWord(s), [z EXCEPT !.left = WithoutWord(@)], h)
    <2> DEFINE i == WordStart(z.left)
               left == WithoutWord(z.left)
    <2>1. i \in 0..Len(z.left) /\ left = SubSeq(z.left, 1, i)
        BY <1>1, WordStartIs DEF Text
    <2>2. SubSeq(s.line, 1, i) = left
        <3> HIDE DEF i, left
        <3>1. SubSeq(z.left \o z.right, 1, i) = SubSeq(z.left, 1, i)
            BY <1>1, <2>1, CutLeft DEF Text
        <3>2. QED
            BY <1>1, <2>1, <3>1
    <2> HIDE DEF left
    <2>3. left \in Text /\ Len(left) = i
        <3> HIDE DEF i
        <3>1. \A j \in 1..i : z.left[j] \in Runes
            BY <1>1, <2>1, ElementOfSeq DEF Text
        <3>2. QED
            BY <1>1, <2>1, <3>1, SubSeqProperties DEF Text
    <2>4. Rewritten(KillWord(s), s, left, z.right)
        BY <1>1, <2>2, <2>3 DEF KillWord, Agrees, Buffers, Rewritten
    <2>5. Intended([z EXCEPT !.left = WithoutWord(@)], z, left, z.right)
        BY DEF Intended, Agrees, Intents, left
    <2>6. QED
        BY <1>1, <2>3, <2>4, <2>5, Rewrites
<1>6. QED
    BY <1>3, <1>4, <1>5

(* Browsing the history.  The entry shown takes the whole line, the cursor  *)
(* at its end.                                                              *)
Shown(s2, s, p, text, aside) ==
    s2 = [s EXCEPT !.line = text, !.cursor = Len(text), !.histPos = p, !.stash = aside]
Recalled(z2, z, back, text, aside) ==
    z2 = [z EXCEPT !.back = back, !.left = text, !.right = <<>>, !.draft = aside]

LEMMA Recalls ==
    ASSUME NEW s, NEW z, NEW h, Agrees(s, z, h), Len(h) \in Nat,
           NEW p \in 0..Len(h), NEW text \in Text, NEW aside \in Text,
           NEW s2, Shown(s2, s, p, text, aside),
           NEW z2, Recalled(z2, z, Len(h) - p, text, aside)
    PROVE  Agrees(s2, z2, h)
<1>1. /\ <<>> \in Text /\ Len(text) \in Nat /\ text \o <<>> = text
      /\ p \in Nat /\ Len(h) - p \in Nat
    BY EmptySeq, LenProperties, ConcatEmptySeq DEF Text
<1>2. /\ s2 \in Buffers /\ s2.line = text /\ s2.cursor = Len(text)
      /\ s2.histPos = p /\ s2.stash = aside
    BY <1>1 DEF Agrees, Buffers, Shown
<1>3. /\ z2 \in Intents /\ z2.left = text /\ z2.right = <<>>
      /\ z2.draft = aside /\ z2.back = Len(h) - p
    BY <1>1 DEF Agrees, Intents, Recalled
<1>4. QED
    BY <1>1, <1>2, <1>3 DEF Agrees, Shows

IntendOlder(z, h) == IF z.back = Len(h) THEN z ELSE Recall(z, z.back + 1, h)
IntendNewer(z, h) == IF z.back = 0 THEN z ELSE Recall(z, z.back - 1, h)

LEMMA OlderAgrees ==
    ASSUME NEW h \in Seq(Text), NEW s, NEW z, Agrees(s, z, h)
    PROVE  Agrees(Older(s, h), IntendOlder(z, h), h)
<1> DEFINE n == Len(h)
           p == s.histPos
<1>1. /\ n \in Nat /\ p \in 0..n /\ z.back = n - p /\ s \in Buffers /\ z \in Intents
      /\ z.back > 0 => s.stash = z.draft
      /\ s.line = Whole(z) /\ s.line \in Text /\ s.stash \in Text
    BY Sides, LenProperties DEF Agrees, Buffers, Whole
<1>2. CASE p = 0
    BY <1>1, <1>2 DEF Older, IntendOlder
<1>3. CASE p # 0
    <2> DEFINE text == h[p]
               aside == IF p = n THEN s.line ELSE s.stash
    <2>1. p \in 1..n /\ p - 1 \in 0..n /\ text \in Text /\ aside \in Text
        BY <1>1, <1>3, ElementOfSeq
    <2>2. /\ z.back # n /\ z.back + 1 = n - (p - 1) /\ n + 1 - (z.back + 1) = p
          /\ z.back + 1 # 0 /\ (z.back = 0 <=> p = n)
        <3> DEFINE b == z.back
        <3>1. n \in Nat /\ p \in 1..n /\ b = n - p
            BY <1>1, <2>1
        <3> HIDE DEF n, p, b
        <3>2. /\ b # n /\ b + 1 = n - (p - 1) /\ n + 1 - (b + 1) = p
              /\ b + 1 # 0 /\ (b = 0 <=> p = n)
            BY <3>1
        <3>3. QED
            BY <3>2 DEF b
    <2>3. Shown(Older(s, h), s, p - 1, text, aside)
        BY <1>1, <1>3 DEF Older, Show, Buffers, Shown
    <2>4. Recalled(IntendOlder(z, h), z, n - (p - 1), text, aside)
        <3>1. IntendOlder(z, h) = Recall(z, z.back + 1, h)
            BY <2>2 DEF IntendOlder
        <3>2. Recall(z, z.back + 1, h) = [z EXCEPT !.back = z.back + 1, !.left = h[p],
                                                   !.right = <<>>, !.draft = aside]
            <4> DEFINE kept == IF z.back = 0 THEN [z EXCEPT !.draft = Whole(z)] ELSE z
            <4>1. kept = [z EXCEPT !.draft = aside]
                <5>1. CASE z.back = 0
                    BY <1>1, <2>2, <5>1
                <5>2. CASE z.back # 0
                    <6>1. z.back > 0 /\ aside = s.stash
                        BY <1>1, <2>2, <5>2 DEF Intents
                    <6>2. z.draft = aside
                        BY <1>1, <6>1
                    <6> HIDE DEF aside
                    <6>3. QED
                        BY <1>1, <5>2, <6>2 DEF Intents
                <5>3. QED
                    BY <5>1, <5>2
            <4>2. Recall(z, z.back + 1, h)
                      = [kept EXCEPT !.back = z.back + 1, !.right = <<>>,
                                     !.left = IF z.back + 1 = 0 THEN kept.draft
                                              ELSE h[n + 1 - (z.back + 1)]]
                BY DEF Recall
            <4>3. n + 1 - (z.back + 1) = p /\ z.back + 1 # 0
                BY <2>2
            <4> HIDE DEF kept, aside, n, p
            <4>4. Recall(z, z.back + 1, h)
                      = [kept EXCEPT !.back = z.back + 1, !.right = <<>>, !.left = h[p]]
                BY <4>2, <4>3
            <4>5. QED
                BY <1>1, <4>1, <4>4 DEF Intents
        <3> HIDE DEF aside, n, p
        <3>3. QED
            BY <2>2, <3>1, <3>2 DEF Recalled
    <2> HIDE DEF text, aside
    <2>5. QED
        BY <1>1, <2>1, <2>3, <2>4, Recalls
<1>4. QED
    BY <1>2, <1>3

LEMMA NewerAgrees ==
    ASSUME NEW h \in Seq(Text), NEW s, NEW z, Agrees(s, z, h)
    PROVE  Agrees(Newer(s, h), IntendNewer(z, h), h)
<1> DEFINE n == Len(h)
           p == s.histPos
<1>1. /\ n \in Nat /\ p \in 0..n /\ z.back = n - p /\ s \in Buffers /\ z \in Intents
      /\ z.back > 0 => s.stash = z.draft
      /\ s.stash \in Text
    BY LenProperties DEF Agrees, Buffers
<1>2. CASE p >= n
    BY <1>1, <1>2 DEF Newer, IntendNewer
<1>3. CASE ~(p >= n)
    <2> DEFINE text == IF p + 1 = n THEN s.stash ELSE h[(p + 1) + 1]
    <2>1. p + 1 \in 0..n /\ (p + 1 # n => (p + 1) + 1 \in 1..n)
        BY <1>1, <1>3
    <2>2. text \in Text
        BY <1>1, <2>1, ElementOfSeq
    <2>3. /\ z.back > 0 /\ z.back - 1 = n - (p + 1)
          /\ n + 1 - (z.back - 1) = (p + 1) + 1 /\ (z.back - 1 = 0 <=> p + 1 = n)
        <3> DEFINE b == z.back
        <3>1. n \in Nat /\ p \in 0..n - 1 /\ b = n - p
            BY <1>1, <1>3
        <3> HIDE DEF n, p, b
        <3>2. /\ b > 0 /\ b - 1 = n - (p + 1)
              /\ n + 1 - (b - 1) = (p + 1) + 1 /\ (b - 1 = 0 <=> p + 1 = n)
            BY <3>1
        <3>3. QED
            BY <3>2 DEF b
    <2>4. Shown(Newer(s, h), s, p + 1, text, s.stash)
        BY <1>1, <1>3 DEF Newer, Show, Buffers, Shown
    <2>5. Recalled(IntendNewer(z, h), z, n - (p + 1), text, s.stash)
        <3>1. z.back # 0 /\ z.draft = s.stash
            BY <1>1, <2>3
        <3>2. IntendNewer(z, h) = Recall(z, z.back - 1, h)
            BY <3>1 DEF IntendNewer
        <3>3. Recall(z, z.back - 1, h) = [z EXCEPT !.back = z.back - 1, !.left = text,
                                                   !.right = <<>>, !.draft = s.stash]
            <4>1. Recall(z, z.back - 1, h)
                      = [z EXCEPT !.back = z.back - 1, !.right = <<>>,
                                  !.left = IF z.back - 1 = 0 THEN z.draft
                                           ELSE h[n + 1 - (z.back - 1)]]
                BY <3>1 DEF Recall
            <4>2. text = IF z.back - 1 = 0 THEN z.draft ELSE h[n + 1 - (z.back - 1)]
                BY <2>3, <3>1
            <4> HIDE DEF text, n, p
            <4>3. Recall(z, z.back - 1, h)
                      = [z EXCEPT !.back = z.back - 1, !.right = <<>>, !.left = text]
                BY <4>1, <4>2
            <4>4. QED
                BY <1>1, <3>1, <4>3 DEF Intents
        <3> HIDE DEF text, n, p
        <3>4. QED
            BY <2>3, <3>2, <3>3 DEF Recalled
    <2> HIDE DEF text
    <2>6. QED
        BY <1>1, <2>1, <2>2, <2>4, <2>5, Recalls
<1>4. QED
    BY <1>2, <1>3

(* Every key does to the line what it means. *)
LEMMA EditAgrees ==
    ASSUME NEW h \in Seq(Text), NEW s, NEW z, Agrees(s, z, h), NEW k
    PROVE  Agrees(Edit(s, k, h), Meant(z, k, h), h)
<1>1. CASE k \in {"^H", "^?"}
    <2>1. Edit(s, k, h) = Backspace(s) /\ Meant(z, k, h) = [z EXCEPT !.left = Front1(@)]
        BY <1>1 DEF Edit, Meant
    <2>2. QED
        BY <2>1, BackspaceAgrees
<1>2. CASE k \in {"^D", "[3~"}
    <2>1. Edit(s, k, h) = DeleteAt(s) /\ Meant(z, k, h) = [z EXCEPT !.right = Tail1(@)]
        BY <1>2 DEF Edit, Meant
    <2>2. QED
        BY <2>1, DeleteAgrees
<1>3. CASE k \in {"^A", "[H"}
    <2>1. /\ Edit(s, k, h) = Home(s)
          /\ Meant(z, k, h) = [z EXCEPT !.left = <<>>, !.right = Whole(z)]
        BY <1>3 DEF Edit, Meant
    <2>2. QED
        BY <2>1, HomeEndAgree
<1>4. CASE k \in {"^E", "[F"}
    <2>1. /\ Edit(s, k, h) = End(s)
          /\ Meant(z, k, h) = [z EXCEPT !.left = Whole(z), !.right = <<>>]
        BY <1>4 DEF Edit, Meant
    <2>2. QED
        BY <2>1, HomeEndAgree
<1>5. CASE k \in {"^B", "[D"}
    <2>1. Edit(s, k, h) = Left(s) /\ Meant(z, k, h) = IntendLeft(z)
        BY <1>5 DEF Edit, Meant, IntendLeft
    <2>2. QED
        BY <2>1, LeftAgrees
<1>6. CASE k \in {"^F", "[C"}
    <2>1. Edit(s, k, h) = Right(s) /\ Meant(z, k, h) = IntendRight(z)
        BY <1>6 DEF Edit, Meant, IntendRight
    <2>2. QED
        BY <2>1, RightAgrees
<1>7. CASE k = "^U"
    <2>1. Edit(s, k, h) = KillToStart(s) /\ Meant(z, k, h) = [z EXCEPT !.left = <<>>]
        BY <1>7 DEF Edit, Meant
    <2>2. QED
        BY <2>1, KillAgrees
<1>8. CASE k = "^K"
    <2>1. Edit(s, k, h) = KillToEnd(s) /\ Meant(z, k, h) = [z EXCEPT !.right = <<>>]
        BY <1>8 DEF Edit, Meant
    <2>2. QED
        BY <2>1, KillAgrees
<1>9. CASE k = "^W"
    <2>1. Edit(s, k, h) = KillWord(s) /\ Meant(z, k, h) = [z EXCEPT !.left = WithoutWord(@)]
        BY <1>9 DEF Edit, Meant
    <2>2. QED
        BY <2>1, KillAgrees
<1>10. CASE k \in {"^P", "[A"}
    <2>1. Edit(s, k, h) = Older(s, h) /\ Meant(z, k, h) = IntendOlder(z, h)
        BY <1>10 DEF Edit, Meant, IntendOlder
    <2>2. QED
        BY <2>1, OlderAgrees
<1>11. CASE k \in {"^N", "[B"}
    <2>1. Edit(s, k, h) = Newer(s, h) /\ Meant(z, k, h) = IntendNewer(z, h)
        BY <1>11 DEF Edit, Meant, IntendNewer
    <2>2. QED
        BY <2>1, NewerAgrees
<1>12. CASE k = "tab"
    <2>1. Edit(s, k, h) = Insert(s, Space) /\ Meant(z, k, h) = TypedIn(z, Space)
        BY <1>12 DEF Edit, Meant
    <2>2. Space \in Runes
        BY DEF Runes
    <2>3. QED
        BY <2>1, <2>2, InsertAgrees
<1>13. CASE k \notin {"^H", "^?", "^D", "[3~", "^A", "[H", "^E", "[F", "^B", "[D", "^F", "[C",
                      "^U", "^K", "^W", "^P", "[A", "^N", "[B", "tab"}
    <2>1. Edit(s, k, h) = s /\ Meant(z, k, h) = z
        BY <1>13 DEF Edit, Meant
    <2>2. QED
        BY <2>1
<1>14. QED
    BY <1>1, <1>2, <1>3, <1>4, <1>5, <1>6, <1>7, <1>8, <1>9, <1>10, <1>11, <1>12, <1>13

(* A read opens on an empty line at the end of the history; what was put    *)
(* aside is of no consequence there.                                        *)
LEMMA OpensAgreed ==
    ASSUME NEW h \in Seq(Text), NEW s, NEW aside \in Text,
           s = [NewLine(h) EXCEPT !.stash = aside]
    PROVE  Agrees(s, Fresh, h)
<1>1. Len(h) \in Nat /\ <<>> \in Text /\ Len(<<>>) = 0 /\ <<>> \o <<>> = <<>>
    BY LenProperties, EmptySeq, ConcatEmptySeq DEF Text
<1>2. s = [line |-> <<>>, cursor |-> 0, histPos |-> Len(h), stash |-> aside]
    BY DEF NewLine
<1>3. s \in Buffers
    <2> DEFINE r == [line |-> <<>>, cursor |-> 0, histPos |-> Len(h), stash |-> aside]
    <2>1. r \in Buffers
        BY <1>1 DEF Buffers
    <2> HIDE DEF r
    <2>2. s = r
        BY <1>2 DEF r
    <2>3. QED
        BY <2>1, <2>2
<1>4. /\ Fresh \in Intents /\ Fresh.left = <<>> /\ Fresh.right = <<>>
      /\ Fresh.back = 0
    BY <1>1 DEF Fresh, Intents
<1>5. s.line = <<>> /\ s.cursor = 0 /\ s.histPos = Len(h)
    BY <1>2
<1>6. QED
    BY <1>1, <1>3, <1>4, <1>5 DEF Agrees, Shows

(* What a line leaves in the history is a line. *)
LEMMA RecordedType ==
    ASSUME NEW h \in Seq(Text), NEW text \in Text PROVE Recorded(h, text) \in Seq(Text)
<1> DEFINE all == Append(h, text)
           old == Len(all) - MaxHistory
<1>1. all \in Seq(Text) /\ Len(all) \in Nat /\ \A i \in 1..Len(all) : all[i] \in Text
    BY AppendProperties, LenProperties, ElementOfSeq
<1> HIDE DEF all
<1>2. CASE old > 0
    <2>1. old + 1 \in Int /\ \A i \in old + 1..Len(all) : all[i] \in Text
        BY <1>1, <1>2, BufferAssumption
    <2>2. SubSeq(all, old + 1, Len(all)) \in Seq(Text)
        BY <1>1, <2>1, SubSeqProperties
    <2>3. QED
        BY <2>2, <1>2 DEF Recorded, all
<1>3. CASE ~(old > 0)
    BY <1>1, <1>3 DEF Recorded, all
<1>4. QED
    BY <1>2, <1>3

(* While keys are read the line is what they meant. *)
EInv == /\ history \in Seq(Text)
        /\ reader \in Midline => Agrees(st, meant, history)

LEMMA KeyEInv ==
    ASSUME EInv, reader \in Midline, NEW k, Key(k) PROVE EInv'
<1>1. history \in Seq(Text) /\ Agrees(st, meant, history)
    BY DEF EInv
<1>2. st.line \in Text /\ st.stash \in Text
    BY <1>1 DEF Agrees, Buffers
<1>3. CASE Submit
    <2>1. history' \in Seq(Text) /\ reader' = "unbracketing"
        BY <1>1, <1>2, <1>3, RecordedType DEF Submit, Return
    <2>2. QED
        BY <2>1 DEF EInv, Midline
<1>4. CASE reader' = "unbracketing" /\ UNCHANGED history
    BY <1>1, <1>4 DEF EInv, Midline
<1>5. CASE /\ st' = [NewLine(history) EXCEPT !.stash = st.stash] /\ meant' = Fresh
           /\ UNCHANGED history
    <2>1. Agrees(st', meant', history)
        BY <1>1, <1>2, <1>5, OpensAgreed
    <2>2. QED
        BY <1>1, <1>5, <2>1 DEF EInv
<1>6. CASE UNCHANGED <<st, history, meant>>
    BY <1>1, <1>6 DEF EInv
<1>7. CASE k \in Chars /\ st' = Insert(st, k) /\ meant' = TypedIn(meant, k) /\ UNCHANGED history
    <2>1. k \in Runes
        BY <1>7 DEF Runes
    <2>2. QED
        BY <1>1, <1>7, <2>1, InsertAgrees DEF EInv
<1>8. CASE st' = Edit(st, k, history) /\ meant' = Meant(meant, k, history) /\ UNCHANGED history
    BY <1>1, <1>8, EditAgrees DEF EInv
<1>9. QED
    BY <1>3, <1>4, <1>5, <1>6, <1>7, <1>8 DEF Key, Return

LEMMA PasteEInv ==
    ASSUME EInv, reader \in Midline, NEW r \in Pasted \cup {"esc"}, PasteRune(r) PROVE EInv'
<1>1. history \in Seq(Text) /\ Agrees(st, meant, history) /\ UNCHANGED history
    BY DEF EInv, PasteRune
<1>2. CASE UNCHANGED <<st, meant>>
    BY <1>1, <1>2 DEF EInv
<1>3. CASE ~UNCHANGED <<st, meant>>
    <2>1. PICK c \in Runes : st' = Insert(st, c) /\ meant' = TypedIn(meant, c)
        BY <1>3 DEF PasteRune, Runes, Pasted
    <2>2. QED
        BY <1>1, <2>1, InsertAgrees DEF EInv
<1>4. QED
    BY <1>2, <1>3

(* An end marker that is missed is text like any other. *)
LEMMA AstrayAgrees ==
    ASSUME NEW s, NEW z, NEW h, Agrees(s, z, h) PROVE Agrees(s, Astray(z), h)
<1>1. /\ Astray(z) \in Intents /\ Astray(z).left = z.left /\ Astray(z).right = z.right
      /\ Astray(z).draft = z.draft /\ Astray(z).back = z.back
    BY DEF Astray, Agrees, Intents
<1>2. QED
    BY <1>1 DEF Agrees

LEMMA MissEInv == EInv /\ reader \in Midline /\ MissMarker => EInv'
<1> SUFFICES ASSUME EInv, reader \in Midline, MissMarker PROVE EInv'
    OBVIOUS
<1>1. history \in Seq(Text) /\ Agrees(st, meant, history) /\ UNCHANGED history
    BY DEF EInv, MissMarker
<1>2. "esc" \in Runes /\ EndMarker \in Runes
    BY DEF Runes
<1>3. PICK s, z : Agrees(s, z, history) /\ st' = Insert(s, EndMarker)
                                       /\ meant' = Astray(TypedIn(z, EndMarker))
    <2>1. Agrees(Insert(st, "esc"), TypedIn(meant, "esc"), history)
        BY <1>1, <1>2, InsertAgrees
    <2>2. QED
        BY <1>1, <2>1 DEF MissMarker
<1>4. Agrees(Insert(s, EndMarker), Astray(TypedIn(z, EndMarker)), history)
    BY <1>2, <1>3, InsertAgrees, AstrayAgrees
<1>5. QED
    BY <1>1, <1>3, <1>4 DEF EInv

(* Every step keeps the two in step. *)
LEMMA ReaderEInv == EInv /\ Reader => EInv'
<1> SUFFICES ASSUME EInv, Reader PROVE EInv'
    OBVIOUS
<1>1. CASE EnterRaw
    <2>1. history \in Seq(Text) /\ UNCHANGED history
        BY <1>1 DEF EInv, EnterRaw
    <2>2. CASE reader' = "returned"
        BY <2>1, <2>2 DEF EInv, Midline
    <2>3. CASE st' = NewLine(history) /\ meant' = Fresh
        <3>1. <<>> \in Text /\ NewLine(history) = [NewLine(history) EXCEPT !.stash = <<>>]
            BY DEF NewLine, Text
        <3>2. Agrees(st', meant', history)
            BY <2>1, <2>3, <3>1, OpensAgreed
        <3>3. QED
            BY <2>1, <3>2 DEF EInv
    <2>4. QED
        BY <1>1, <2>2, <2>3 DEF EnterRaw
<1>2. CASE PressKey
    BY <1>2, KeyEInv DEF PressKey, Midline
<1>3. CASE PressAfterEscape
    <2>1. history \in Seq(Text) /\ Agrees(st, meant, history) /\ reader \in Midline
        BY <1>3 DEF EInv, PressAfterEscape, Midline
    <2>2. CASE \E k \in Keys : Key(k)
        BY <2>1, <2>2, KeyEInv
    <2>3. CASE UNCHANGED <<st, history, meant>>
        BY <2>1, <2>3 DEF EInv
    <2>4. CASE \E s \in EscSequences : /\ st' = Edit(st, s, history)
                                       /\ meant' = Meant(meant, s, history)
                                       /\ UNCHANGED history
        BY <2>1, <2>4, EditAgrees DEF EInv
    <2>5. QED
        BY <1>3, <2>2, <2>3, <2>4 DEF PressAfterEscape
<1>4. CASE Paste
    <2>1. history \in Seq(Text) /\ Agrees(st, meant, history) /\ reader \in Midline
        BY <1>4 DEF EInv, Paste, Midline
    <2>2. CASE \E r \in Pasted : PasteRune(r)
        BY <2>1, <2>2, PasteEInv
    <2>3. CASE UNCHANGED <<st, history, meant>>
        BY <2>1, <2>3 DEF EInv
    <2>4. QED
        BY <1>4, <2>2, <2>3 DEF Paste
<1>5. CASE PasteAfterEscape
    <2>1. history \in Seq(Text) /\ Agrees(st, meant, history) /\ reader \in Midline
        BY <1>5 DEF EInv, PasteAfterEscape, Midline
    <2>2. CASE \E r \in Pasted \cup {"esc"} : PasteRune(r)
        BY <2>1, <2>2, PasteEInv
    <2>3. CASE MissMarker
        BY <2>1, <2>3, MissEInv
    <2>4. CASE UNCHANGED <<st, history, meant>>
        BY <2>1, <2>4 DEF EInv
    <2>5. QED
        BY <1>5, <2>2, <2>3, <2>4 DEF PasteAfterEscape
<1>6. CASE ReadEnds
    <2>1. history \in Seq(Text) /\ reader' = "unbracketing"
        BY <1>6 DEF EInv, ReadEnds, Submit, Return
    <2>2. CASE reader = "reading" /\ Submit
        <3>1. st.line \in Text
            BY <2>2 DEF EInv, Midline, Agrees, Buffers
        <3>2. QED
            BY <2>1, <2>2, <3>1, RecordedType DEF Submit, EInv, Midline
    <2>3. CASE UNCHANGED history
        BY <2>1, <2>3 DEF EInv, Midline
    <2>4. QED
        BY <1>6, <2>2, <2>3 DEF ReadEnds
<1>7. CASE DisablePaste
    BY <1>7 DEF DisablePaste, EInv, Midline
<1>8. CASE ReadReturns
    BY <1>8 DEF ReadReturns, EInv, Midline
<1>9. QED
    BY <1>1, <1>2, <1>3, <1>4, <1>5, <1>6, <1>7, <1>8 DEF Reader

LEMMA NextEInv == EInv /\ [PromptNext]_promptVars => EInv'
<1> SUFFICES ASSUME EInv, [PromptNext]_promptVars PROVE EInv'
    OBVIOUS
<1>1. CASE Reader
    BY <1>1, ReaderEInv
<1>2. CASE StartRead \/ TakeLine
    BY <1>2 DEF StartRead, TakeLine, editorVars, EInv, Midline
<1>3. CASE UNCHANGED <<history, reader, st, meant>>
    BY <1>3 DEF EInv
<1>4. QED
    BY <1>1, <1>2, <1>3 DEF PromptNext, Repl, Abandon, Send, CloseEditor, CloseUnbrackets,
       CloseRestores, Answer, Ask, HumanAnswers, Cancel, HangUp, PromptOver, promptVars,
       editorVars, readerVars, replVars

(* The row that is drawn holds the cursor, and no more than there is room for. *)
LEMMA DrawnHolds ==
    ASSUME NEW s, NEW z, NEW h, Agrees(s, z, h)
    PROVE  /\ s.cursor \in Drawn(s).start..Drawn(s).end
           /\ Room > 0 => Drawn(s).end - Drawn(s).start <= Room
<1> DEFINE n == Len(s.line)
           c == s.cursor
<1>1. n \in Nat /\ c \in 0..n /\ Room \in Nat
    <2>1. c \in Nat /\ n = c + Len(z.right) /\ Len(z.right) \in Nat
        BY Sides
    <2> HIDE DEF c, n
    <2>2. QED
        BY <2>1, BufferAssumption
<1> DEFINE start == IF Room > 0 /\ n > Room /\ c > Room THEN c - Room ELSE 0
           end == IF Room > 0 /\ n - start > Room THEN start + Room ELSE n
<1>2. Drawn(s) = [start |-> start, end |-> end]
    BY DEF Drawn
<1>3. Drawn(s).start = start /\ Drawn(s).end = end
    <2> HIDE DEF start, end
    <2>1. QED
        BY <1>2
<1> HIDE DEF n, c
<1>4. c \in start..end /\ (Room > 0 => end - start <= Room)
    BY <1>1
<1> HIDE DEF start, end
<1>5. QED
    BY <1>3, <1>4 DEF c

(* After any keys, in any order and number, typed or pasted, the line and   *)
(* the cursor are what they meant, as long as no paste has missed its end   *)
(* marker, the line put aside comes back from the history, and the cursor   *)
(* is on the row that is drawn, a paste that missed it or not.              *)
THEOREM EditsMeant == PromptSpec => []EditsAreMeant
<1>1. PromptInit => EInv
    <2> SUFFICES ASSUME PromptInit PROVE EInv
        OBVIOUS
    <2>1. history \in Seq(Text) /\ reader = "none"
        BY PromptAssumption DEF PromptInit, Text
    <2>2. QED
        BY <2>1 DEF EInv, Midline
<1>2. EInv => EditsAreMeant
    <2> SUFFICES ASSUME EInv, reader \in Midline
                 PROVE  /\ Before(st) = meant.left /\ After(st) = meant.right
                        /\ meant.back = Len(history) - st.histPos
                        /\ meant.back > 0 => st.stash = meant.draft
                        /\ st.cursor \in Drawn(st).start..Drawn(st).end
                        /\ Room > 0 => Drawn(st).end - Drawn(st).start <= Room
        BY DEF EditsAreMeant, Midline
    <2>1. Agrees(st, meant, history)
        BY DEF EInv
    <2>2. Before(st) = meant.left /\ After(st) = meant.right
        BY <2>1, Sides
    <2>3. /\ meant.back = Len(history) - st.histPos
          /\ meant.back > 0 => st.stash = meant.draft
        BY <2>1 DEF Agrees
    <2>4. /\ st.cursor \in Drawn(st).start..Drawn(st).end
          /\ Room > 0 => Drawn(st).end - Drawn(st).start <= Room
        BY <2>1, DrawnHolds
    <2>5. QED
        BY <2>2, <2>3, <2>4
<1>3. QED
    BY <1>1, <1>2, NextEInv, PTL DEF PromptSpec
=============================================================================
