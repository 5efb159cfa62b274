---------------------------- MODULE MCOAuthLogin ----------------------------
EXTENDS OAuthLogin

CONSTANTS p1, p2, a, b

(* Two calls of one run, and a call of each of two.                         *)
OneRun == [c \in Calls |-> p1]
TwoRuns == [c \in Calls |-> IF c = a THEN p1 ELSE p2]
Either == {OneRun, TwoRuns}
OnlyOneRun == {OneRun}
MCMargin == [r \in Runs |-> 1]
=============================================================================
