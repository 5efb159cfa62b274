----------------------------- MODULE ToolGuards -----------------------------
(***************************************************************************)
(* The rules that decide whether a tool call may take effect, each beside  *)
(* a plain definition of what it should decide: glob patterns              *)
(* (internal/tools/shell.go), permission profiles (internal/perm), shell   *)
(* allow and deny lists, the paths of the file tools                       *)
(* (internal/tools/fs.go), the names and filters of the tools of MCP       *)
(* servers (internal/mcp/names.go), and the line that answers a question   *)
(* (cmd/amele/main.go).  A string is a sequence of symbols, a path one of  *)
(* components.                                                             *)
(***************************************************************************)
EXTENDS Naturals, Integers, FiniteSets, FiniteSetsExt, Sequences, SequencesExt, TLC

CONSTANTS
    Symbols,          \* what names, patterns, commands and paths are made of
    MaxToolNameLen,   \* what a provider accepts as a name
    MaxCleanedLen,    \* what is kept of a rewritten tool name
    Foreign           \* the symbols no provider accepts

Wild == "*"
Space == " "
LineEnds == {"CR", "LF"}
Text == Seq(Symbols)

ASSUME GuardsAssumption ==
    /\ {Wild, Space, "_"} \subseteq Symbols /\ {Wild, Space} \subseteq Foreign /\ "_" \notin Foreign
    /\ MaxToolNameLen \in Nat /\ MaxCleanedLen \in Nat /\ MaxToolNameLen >= 4

-----------------------------------------------------------------------------
(* GlobMatch: the parts between the stars; the first and the last anchored, *)
(* the others found left to right, each in what the one before has left.    *)
Extend(parts, c) == IF c = Wild THEN Append(parts, <<>>)
                    ELSE [parts EXCEPT ![Len(parts)] = Append(@, c)]
Split(pattern) == FoldLeft(Extend, << <<>> >>, pattern)

Drop(s, n) == SubSeq(s, n + 1, Len(s))
Found(part, s) == {i \in 0..Len(s) - Len(part) : SubSeq(s, i + 1, i + Len(part)) = part}

(* What is left of the one string behind the first occurrence of part: no   *)
(* string if there is none.                                                 *)
Skip(rests, part) == {Drop(r, Min(Found(part, r)) + Len(part)) : r \in {s \in rests : Found(part, s) # {}}}

GlobMatch(pattern, s) ==
    LET parts == Split(pattern)
        start == IF IsPrefix(parts[1], s) THEN {Drop(s, Len(parts[1]))} ELSE {}
        rests == FoldLeft(Skip, start, SubSeq(parts, 2, Len(parts) - 1))
    IN  IF Len(parts) = 1 THEN s = pattern
        ELSE \E r \in rests : IsSuffix(parts[Len(parts)], r)

(* What a pattern means: a star stands for any string, itself for the rest. *)
Behind(c, r) == IF c = Wild THEN {Drop(r, n) : n \in 0..Len(r)}
                ELSE IF r # <<>> /\ r[1] = c THEN {Tail(r)} ELSE {}
Take(rests, c) == UNION {Behind(c, r) : r \in rests}
Means(pattern, s) == <<>> \in FoldLeft(Take, {s}, pattern)

-----------------------------------------------------------------------------
(* policyFor: a literal entry, else the strictest pattern, else the default.*)
(* The entries come in the order of a Go map: any.                          *)
Policies == {"allow", "ask", "deny"}
Restrictiveness(p) == CASE p = "deny" -> 2 [] p = "ask" -> 1 [] OTHER -> 0
IsPattern(entry) == Wild \in ToSet(entry)

TakeLatest(best, p) == IF p = "none" THEN best ELSE p         \* seeded defect
Stricter(best, p) == IF best = "none" \/ Restrictiveness(p) > Restrictiveness(best) THEN p ELSE best

PolicyFor(name, default, rules, order) ==
    LET said == [i \in DOMAIN order |-> IF IsPattern(order[i]) /\ GlobMatch(order[i], name)
                                        THEN rules[order[i]] ELSE "none"]
        best == FoldLeft(Stricter, "none", said)
    IN  IF name \in DOMAIN rules THEN rules[name] ELSE IF best = "none" THEN default ELSE best

RuledBy(name, rules) == IF name \in DOMAIN rules THEN {name}
                        ELSE {e \in DOMAIN rules : IsPattern(e) /\ Means(e, name)}
Ruling(name, default, rules) ==
    LET said == {rules[e] : e \in RuledBy(name, rules)}
    IN  IF said = {} THEN default
        ELSE CHOOSE p \in said : \A q \in said : Restrictiveness(p) >= Restrictiveness(q)

-----------------------------------------------------------------------------
(* reject: line by line, trimmed, the empty ones not looked at.             *)
Ink(line) == {i \in DOMAIN line : line[i] # Space}
Trim(line) == IF Ink(line) = {} THEN <<>> ELSE SubSeq(line, Min(Ink(line)), Max(Ink(line)))
PolicyLines(command) ==
    LET trimmed == [i \in DOMAIN command |-> Trim(command[i])]
    IN  {trimmed[i] : i \in {k \in DOMAIN command : trimmed[k] # <<>>}}

MatchesAny(patterns, line) == \E pattern \in patterns : GlobMatch(pattern, line)
Rejects(command, allow, deny) ==
    LET lines == PolicyLines(command)
    IN  \/ \E line \in lines : MatchesAny(deny, line)
        \/ allow # {} /\ \E line \in lines : ~MatchesAny(allow, line)

(* However a line is indented, no pattern of deny means it.                 *)
Padded(line) == {SubSeq(line, i, j) : i \in 1..Len(line) + 1, j \in 0..Len(line)}
Bare(line) == CHOOSE t \in Padded(line) :
                  /\ t # <<>> => t[1] # Space /\ t[Len(t)] # Space
                  /\ Cardinality({i \in DOMAIN t : t[i] # Space}) = Cardinality(Ink(line))
Passes(command, allow, deny) ==
    \A i \in DOMAIN command : LET line == Bare(command[i]) IN
        line = <<>> \/ /\ ~\E pattern \in deny : Means(pattern, line)
                       /\ allow = {} \/ \E pattern \in allow : Means(pattern, line)

-----------------------------------------------------------------------------
(* clean: filepath.Clean, then neither absolute nor out of the workspace.   *)
Follow(done, c) == IF c = "." THEN done
                   ELSE IF c = ".." /\ done # <<>> /\ done[Len(done)] # ".."
                   THEN SubSeq(done, 1, Len(done) - 1)
                   ELSE Append(done, c)
Clean(path) == FoldLeft(Follow, <<>>, path)
Confined(path) == path # <<>> => /\ path[1] # "/"
                                 /\ Clean(path) # <<>> => Clean(path)[1] # ".."

(* Walking down the path never stands above the workspace.                  *)
Depth(path, n) == Cardinality({i \in 1..n : path[i] \notin {".", ".."}})
                  - Cardinality({i \in 1..n : path[i] = ".."})
StaysBelow(path) == \A n \in DOMAIN path : path[n] # "/" /\ Depth(path, n) >= 0

-----------------------------------------------------------------------------
(* Keep: by the name the server gave, and excluding wins.                   *)
Kept(original, include, exclude) ==
    ~MatchesAny(exclude, original) /\ (include = {} \/ MatchesAny(include, original))

(* EffectiveName: the plain join if a provider accepts it, else cleaned, cut*)
(* to what the ceiling leaves, and told apart by a hash of the original,    *)
(* here one symbol.                                                         *)
Separator == <<"_", "_">>
Joined(server, tool) == server \o Separator \o tool
Digest(tool) == <<"_", ToString(tool)>>
ValidName(name) == Len(name) \in 1..MaxToolNameLen /\ ToSet(name) \cap Foreign = {}
Cleaned(s) == [i \in DOMAIN s |-> IF s[i] \in Foreign THEN "_" ELSE s[i]]
CutTo(s, n) == SubSeq(s, 1, Min({n, Len(s)}))

Rewritten(server, tool) ==
    LET tail == Digest(tool)
        half == CutTo(Cleaned(server), MaxToolNameLen - Len(Separator) - Len(tail))
        budget == Min({MaxToolNameLen - Len(half) - Len(Separator) - Len(tail), MaxCleanedLen})
    IN  half \o Separator \o CutTo(Cleaned(tool), budget) \o tail

EffectiveName(server, tool) ==
    IF tool # <<>> /\ ValidName(Joined(server, tool)) THEN Joined(server, tool) ELSE Rewritten(server, tool)

-----------------------------------------------------------------------------
(* readTerminalLine: up to the first carriage return or line feed, whichever*)
(* the terminal sends; the end of the input ends the line as well.          *)
TerminalLine(typed) ==
    LET ends == {i \in DOMAIN typed : typed[i] \in LineEnds}
    IN  IF ends = {} THEN typed ELSE SubSeq(typed, 1, Min(ends) - 1)

Approves(typed) == Trim(TerminalLine(typed)) \in { <<"y">>, <<"y", "e", "s">> }
=============================================================================
