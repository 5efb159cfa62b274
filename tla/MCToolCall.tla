----------------------------- MODULE MCToolCall -----------------------------
EXTENDS ToolCall

(* The tools of a server g, rules for some of them, and its filters.  d is  *)
(* short enough for a provider, "." is not of its alphabet, and two tools   *)
(* differ only where their names are cut.                                   *)
Originals == {<<>>, <<"d">>, <<"x", "x">>, <<".">>, <<"x", "x", "x", "x">>, <<"x", "x", "x", "d">>}
Entries == {<<"g", "_", "_", "*">>, <<"*", "d">>, <<"g", "_", "_", "d">>, <<"g", "*", "_", "*">>}
Profiles == UNION {[entries -> Policies] : entries \in {e \in SUBSET Entries : Cardinality(e) <= 2}}
Mcp(original, rules, include, exclude, schema) ==
    [tool |-> "mcp", server |-> <<"g">>, original |-> original, rules |-> rules, default |-> "allow",
     include |-> include, exclude |-> exclude, schema |-> schema]
Filters == {{}} \cup {{p} : p \in {<<"*">>, <<"x", "*">>, <<"*", "d">>}}
McpCalls == {Mcp(o, r, {}, {}, FALSE) : o \in Originals, r \in Profiles}
            \cup {Mcp(o, <<>>, i, e, FALSE) : o \in Originals, i \in Filters, e \in Filters}
            \cup {Mcp(<<"d">>, <<>>, {}, {}, s) : s \in BOOLEAN}

Command(default, args, allowArgs) ==
    [tool |-> "subprocess", name |-> <<"a">>, rules |-> <<>>, default |-> default,
     args |-> args, allowArgs |-> allowArgs]
Commands == {Command(d, a, o) : d \in Policies, a \in BOOLEAN, o \in BOOLEAN}

(* Lines of r, m and blanks. *)
ShellLines == {<<>>, <<"r">>, <<" ", "r", "m">>, <<"r", "r">>, <<"m", " ", "r">>}
Patterns == {<<"r", "*">>, <<"*", "r">>, <<"r", "*", "r">>, <<"*", " ", "*">>}
Shell(command, allow, deny) ==
    [tool |-> "shell", name |-> <<"a">>, rules |-> <<>>, default |-> "allow",
     command |-> command, allow |-> allow, deny |-> deny]
Shells == {Shell(<<one, two>>, a, d) : one \in ShellLines, two \in ShellLines,
              a \in {{}} \cup {{p} : p \in Patterns}, d \in {{}} \cup {{p} : p \in Patterns}}

Components == {"..", ".", "a"}
Paths == UNION {[1..n -> Components] : n \in 0..4} \cup {<<"/", "a">>}
Files == {[tool |-> t, name |-> <<"a">>, rules |-> <<>>, default |-> "allow", path |-> p] :
              t \in FileTools, p \in Paths}

AllSetups == McpCalls \cup Commands \cup Shells \cup Files

(* Lines as a terminal sends them, the last cut off by the end of the input,*)
(* and nothing at all.                                                      *)
AllTyped == {<<"y", "CR", "LF">>, <<" ", "y", "e", "s", " ", "LF">>, <<"CR", "y", "CR">>, <<"n", "LF", "y">>,
             <<"y", " ", "x", "LF">>, <<"y">>, <<>>}

AllSymbols == {"g", "_", "*", "d", "x", ".", "a", "r", "m", " ", "..", "/", "y", "e", "s", "n", "CR", "LF"}
              \cup {ToString(o) : o \in Originals}

(* What a command does does not depend on what let it run, nor does what a  *)
(* server says: one of each tool is enough to see it. *)
Busy == {Command("allow", FALSE, FALSE), Shell(<< <<"r">>, <<>> >>, {}, {})}
        \cup {Mcp(<<"d">>, <<>>, {}, {}, s) : s \in BOOLEAN}
AllQuiet == AllSetups \ Busy
=============================================================================
