--------------------------- MODULE ChatCallProofs ---------------------------
(***************************************************************************)
(* The answer says whether the provider held it to the schema, for every   *)
(* client, endpoint, number of attempts and order of the fallbacks.  The   *)
(* invariant says it of the body that is being sent: its flag tells        *)
(* whether the schema is still in it, and what may still be taken out is   *)
(* still in.                                                               *)
(*                                                                         *)
(* Then the stream: the sink is told the text of the answer, and a call    *)
(* that succeeds brings all of it, for every list of items, however many   *)
(* fragments each comes in.  The invariant says that the blocks the client *)
(* has put together are what was sent so far - all the texts joined and    *)
(* all the thoughts joined on every wire, one block for each item where an *)
(* index tells them apart, the calls in their order on the gemini wire -   *)
(* and that what comes without an index comes in order, so that each piece *)
(* belongs at the end of its kind.                                         *)
(***************************************************************************)
EXTENDS ChatCall, TLAPS, SequenceTheorems

BodyTypeOK ==
    /\ schema \in {"none", "mode", "native"} /\ dropped \in BOOLEAN
    /\ carries \subseteq Fields /\ strips \subseteq carries
SchemaWasAsked == "schema" \in carries => schema # "none"
FlagTellsTheBody == dropped <=> (schema = "mode" \/ (schema = "native" /\ "schema" \notin carries))

EInv == BodyTypeOK /\ SchemaWasAsked /\ FlagTellsTheBody

-----------------------------------------------------------------------------
(* A mode without a schema is told before anything is sent. *)
LEMMA InitEInv == Init => EInv
<1> SUFFICES ASSUME Init PROVE EInv
    OBVIOUS
<1>1. schema \in {"none", "mode", "native"} /\ (dropped <=> schema = "mode")
    BY DEF Init
<1>2. carries \subseteq Fields /\ strips \subseteq carries
    BY DEF Init, Stripped, Fields
<1>3. ("schema" \in carries) <=> CarriesSchema
    BY DEF Init, Stripped
<1>4. (schema = "native" => "schema" \in carries) /\ ("schema" \in carries => schema # "none")
    BY <1>3 DEF CarriesSchema
<1>5. dropped \in BOOLEAN
    BY DEF Init
<1>6. BodyTypeOK
    BY <1>1, <1>2, <1>5 DEF BodyTypeOK
<1>7. FlagTellsTheBody
    BY <1>1, <1>4 DEF FlagTellsTheBody
<1>8. QED
    BY <1>4, <1>6, <1>7 DEF EInv, SchemaWasAsked

(* What a fallback takes out was in, and taking out the schema sets the flag*)
LEMMA StripEInv ==
    ASSUME EInv, UNCHANGED schema, NEW N, NEW k \in FallbacksFor(N), Strip(k)
    PROVE  EInv'
<1> DEFINE field == Fallbacks[k]
<1>1. field \in {"schema", "stream"} /\ field \in carries
    BY DEF FallbacksFor, Fallbacks, EInv, BodyTypeOK, Fields
<1>2. /\ carries' = carries \ {field} /\ strips' = strips \ {field}
      /\ dropped' = (dropped \/ field = "schema")
    BY DEF Strip, Flag
<1> HIDE DEF field
<1>3. BodyTypeOK' /\ SchemaWasAsked'
    BY <1>2 DEF EInv, BodyTypeOK, SchemaWasAsked
<1>4. CASE field = "schema"
    <2>1. "schema" \notin carries' /\ schema # "none" /\ dropped'
        BY <1>1, <1>2, <1>4 DEF EInv, SchemaWasAsked
    <2>2. QED
        BY <1>3, <2>1 DEF EInv, BodyTypeOK, FlagTellsTheBody
<1>5. CASE field # "schema"
    <2>1. (("schema" \in carries') <=> ("schema" \in carries)) /\ (dropped' <=> dropped)
        BY <1>2, <1>5
    <2>2. QED
        BY <1>3, <2>1 DEF EInv, FlagTellsTheBody
<1>6. QED
    BY <1>4, <1>5

(* Everything else leaves the body as it is. *)
LEMMA NextEInv == EInv /\ [Next \/ Stopped]_vars => EInv'
<1> SUFFICES ASSUME EInv, [Next \/ Stopped]_vars PROVE EInv'
    OBVIOUS
<1>1. ASSUME UNCHANGED <<schema, body>> PROVE EInv'
    BY <1>1 DEF EInv, BodyTypeOK, SchemaWasAsked, FlagTellsTheBody, body
<1>2. CASE Refused
    <2>1. PICK N \in SUBSET (carries \cap refuses) \ {{}} :
              IF FallbacksFor(N) = {} THEN Fail
              ELSE Strip(CHOOSE k \in FallbacksFor(N) : \A j \in FallbacksFor(N) : k <= j)
        BY <1>2 DEF Refused
    <2>2. UNCHANGED schema
        BY <1>2 DEF Refused, asked
    <2>3. CASE FallbacksFor(N) = {}
        BY <1>1, <2>1, <2>2, <2>3 DEF Fail
    <2>4. CASE FallbacksFor(N) # {}
        <3>1. \E k \in FallbacksFor(N) : \A j \in FallbacksFor(N) : k <= j
            BY <2>4 DEF FallbacksFor, Fallbacks
        <3>2. QED
            BY <2>1, <2>2, <2>4, <3>1, StripEInv
    <2>5. QED
        BY <2>3, <2>4
<1>3. CASE Final \/ Transient \/ NextAttempt \/ OpenStream \/ Event
    BY <1>1, <1>3 DEF Final, Fail, Transient, Retry, NextAttempt, OpenStream, Event, asked
<1>4. CASE WholeBody
    BY <1>1, <1>4 DEF WholeBody, Answered, Fail, asked
<1>5. CASE EndStream
    BY <1>1, <1>5 DEF EndStream, Answered, CutShort, Fail, asked
<1>6. CASE Stopped \/ UNCHANGED vars
    BY <1>1, <1>6 DEF Stopped, vars, asked
<1>7. QED
    BY <1>2, <1>3, <1>4, <1>5, <1>6 DEF Next

(* openai.go:372: an answer that was not held to the schema by the provider *)
(* says so, and one that was does not, over every retry and fallback.       *)
THEOREM EnforcementTold == Spec => []EnforcementIsTold
<1>1. EInv => EnforcementIsTold
    <2> SUFFICES ASSUME EInv PROVE dropped = (schema # "none" /\ ~Enforced)
        BY DEF EnforcementIsTold
    <2>1. dropped <=> (schema # "none" /\ ~Enforced)
        BY DEF EInv, BodyTypeOK, FlagTellsTheBody, Enforced
    <2>2. QED
        BY <2>1 DEF EInv, BodyTypeOK
<1>2. QED
    BY <1>1, InitEInv, NextEInv, PTL DEF Spec

-----------------------------------------------------------------------------
(* What is put together of parts, one after the other. *)
Joining == INSTANCE FoldTheorems WITH Op <- Then

Cat(g, n) == Joined([k \in 1..n |-> g[k]])

(* Parts are joined one at a time. *)
LEMMA JoinedStep ==
    /\ Joined(<<>>) = <<>>
    /\ \A e, S : \A s \in Seq(S) : e \in S => Joined(Append(s, e)) = Joined(s) \o e
<1>1. \A s : Joined(s) = Joining!Fold(<<>>, s)
    BY DEF Joined, FoldLeft, Joining!Fold, MapThenFoldSet,
           Joining!MapThenFoldSet, Max, Joining!Largest
<1>2. \A a, b : Then(a, b) = a \o b
    BY DEF Then
<1>3. QED
    BY <1>1, <1>2, Joining!FoldEmpty, Joining!FoldAppend

(* The first parts, joined, and the next. *)
LEMMA CatStep ==
    ASSUME NEW S, NEW g, NEW n \in Nat, \A k \in 1..n : g[k] \in Seq(S)
    PROVE  /\ Cat(g, 0) = <<>>
           /\ \A m \in Nat : m + 1 <= n => Cat(g, m + 1) = Cat(g, m) \o g[m + 1]
<1>1. Cat(g, 0) = <<>>
    <2>1. [k \in 1..0 |-> g[k]] = <<>>
        OBVIOUS
    <2>2. QED
        BY <2>1, JoinedStep DEF Cat
<1>2. ASSUME NEW m \in Nat, m + 1 <= n PROVE Cat(g, m + 1) = Cat(g, m) \o g[m + 1]
    <2> DEFINE s == [k \in 1..m |-> g[k]]
               r == [k \in 1..m + 1 |-> g[k]]
    <2>1. s \in Seq(Seq(S)) /\ Len(s) = m /\ \A k \in 1..m : s[k] = g[k]
        BY <1>2
    <2>2. /\ r \in Seq(Seq(S)) /\ Len(r) = m + 1 /\ g[m + 1] \in Seq(S)
          /\ \A k \in 1..m + 1 : r[k] = g[k]
        BY <1>2
    <2>3. r = Append(s, g[m + 1])
        <3> HIDE DEF s, r
        <3>1. /\ Append(s, g[m + 1]) \in Seq(Seq(S)) /\ Len(Append(s, g[m + 1])) = m + 1
              /\ \A k \in 1..m : Append(s, g[m + 1])[k] = s[k]
              /\ Append(s, g[m + 1])[m + 1] = g[m + 1]
            BY <2>1, <2>2, AppendProperties
        <3>2. ASSUME NEW k \in 1..m + 1 PROVE r[k] = Append(s, g[m + 1])[k]
            <4>1. r[k] = g[k] /\ (k \in 1..m \/ k = m + 1)
                BY <2>2
            <4>2. CASE k \in 1..m
                BY <2>1, <3>1, <4>1, <4>2
            <4>3. CASE k = m + 1
                BY <3>1, <4>1, <4>3
            <4>4. QED
                BY <4>1, <4>2, <4>3
        <3>3. QED
            BY <2>2, <3>1, <3>2, SeqEqual
    <2>4. Joined(Append(s, g[m + 1])) = Joined(s) \o g[m + 1]
        <3> HIDE DEF s
        <3>1. QED
            BY <2>1, <2>2, JoinedStep
    <2>5. QED
        BY <2>3, <2>4 DEF Cat
<1>3. QED
    BY <1>1, <1>2

(* What is joined is of the fragments the parts are of. *)
LEMMA CatType ==
    ASSUME NEW S, NEW g, NEW n \in Nat, \A k \in 1..n : g[k] \in Seq(S)
    PROVE  \A m \in Nat : m <= n => Cat(g, m) \in Seq(S)
<1> DEFINE T == {m \in Nat : m <= n => Cat(g, m) \in Seq(S)}
<1>1. Cat(g, 0) = <<>> /\ \A m \in Nat : m + 1 <= n => Cat(g, m + 1) = Cat(g, m) \o g[m + 1]
    BY CatStep
<1>2. 0 \in T
    <2>1. <<>> \in Seq(S)
        BY EmptySeq
    <2>2. QED
        BY <1>1, <2>1
<1>3. ASSUME NEW m \in Nat, m \in T, m + 1 <= n PROVE Cat(g, m + 1) \in Seq(S)
    <2>1. Cat(g, m) \in Seq(S) /\ g[m + 1] \in Seq(S)
        BY <1>3
    <2>2. Cat(g, m) \o g[m + 1] \in Seq(S)
        BY <2>1, ConcatProperties
    <2>3. QED
        BY <1>1, <1>3, <2>2
<1>4. \A m \in Nat : m \in T => m + 1 \in T
    BY <1>3
<1> HIDE DEF T
<1>5. \A m \in Nat : m \in T
    BY <1>2, <1>4, Joining!NatInd
<1>6. QED
    BY <1>5 DEF T

(* Parts that are the same make the same. *)
LEMMA CatSame ==
    ASSUME NEW g, NEW h, NEW n \in Nat, \A k \in 1..n : g[k] = h[k] PROVE Cat(g, n) = Cat(h, n)
<1>1. [k \in 1..n |-> g[k]] = [k \in 1..n |-> h[k]]
    OBVIOUS
<1>2. QED
    BY <1>1 DEF Cat

(* Joining may be done in any grouping. *)
LEMMA Regroup ==
    ASSUME NEW S, NEW a \in Seq(S), NEW b \in Seq(S), NEW c \in Seq(S)
    PROVE  (a \o b) \o c = a \o (b \o c)
BY ConcatAssociative, SMTT(20)

(* What is added to a part that only empty ones follow is added to the whole. *)
AreParts(g, n, S) == \A k \in 1..n : g[k] \in Seq(S)
PartGrows(g, h, n, i, x) ==
    /\ h[i] = g[i] \o x
    /\ \A k \in 1..n : k # i => h[k] = g[k]
    /\ \A k \in 1..n : k > i => g[k] = <<>>

(* Then the whole takes it at its end. *)
LEMMA CatGrows ==
    ASSUME NEW S, NEW g, NEW h, NEW n \in Nat, AreParts(g, n, S),
           NEW i \in 1..n, NEW x \in Seq(S), PartGrows(g, h, n, i, x)
    PROVE  Cat(h, n) = Cat(g, n) \o x
<1>a. \A k \in 1..n : g[k] \in Seq(S)
    BY DEF AreParts
<1>b. h[i] = g[i] \o x
    BY DEF PartGrows
<1>c. \A k \in 1..n : k # i => h[k] = g[k]
    BY DEF PartGrows
<1>d. \A k \in 1..n : k > i => g[k] = <<>>
    BY DEF PartGrows
<1> DEFINE T == {m \in Nat : i <= m /\ m <= n => Cat(h, m) = Cat(g, m) \o x}
<1>0. \A k \in 1..n : h[k] \in Seq(S)
    <2>1. h[i] \in Seq(S)
        BY <1>a, <1>b, ConcatProperties
    <2>2. QED
        BY <1>a, <1>c, <2>1
<1>1. \A m \in Nat : m + 1 <= n => Cat(g, m + 1) = Cat(g, m) \o g[m + 1]
    BY <1>a, CatStep
<1>2. \A m \in Nat : m + 1 <= n => Cat(h, m + 1) = Cat(h, m) \o h[m + 1]
    BY <1>0, CatStep
<1>3. \A m \in Nat : m <= n => Cat(g, m) \in Seq(S)
    BY <1>a, CatType
<1>4. 0 \in T
    OBVIOUS
<1>5. ASSUME NEW m \in Nat, m \in T, i <= m + 1, m + 1 <= n PROVE Cat(h, m + 1) = Cat(g, m + 1) \o x
    <2>0. m <= n /\ m + 1 \in 1..n /\ Cat(g, m) \in Seq(S) /\ g[m + 1] \in Seq(S)
        BY <1>a, <1>3, <1>5
    <2>1. /\ Cat(g, m + 1) = Cat(g, m) \o g[m + 1]
          /\ Cat(h, m + 1) = Cat(h, m) \o h[m + 1]
        BY <1>1, <1>2, <1>5
    <2>2. CASE i = m + 1
        <3>1. Cat(h, m) = Cat(g, m)
            <4>1. \A k \in 1..m : h[k] = g[k]
                BY <1>c, <2>0, <2>2
            <4>2. QED
                BY <4>1, CatSame
        <3>2. (Cat(g, m) \o g[m + 1]) \o x = Cat(g, m) \o (g[m + 1] \o x)
            <4>1. \A a, b \in Seq(S) : (a \o b) \o x = a \o (b \o x)
                BY Regroup
            <4>2. QED
                BY <2>0, <4>1, Zenon
        <3>3. QED
            BY <1>b, <2>1, <2>2, <3>1, <3>2
    <2>3. CASE i # m + 1
        <3>1. i <= m /\ h[m + 1] = <<>> /\ g[m + 1] = <<>>
            BY <1>c, <1>d, <1>5, <2>0, <2>3
        <3>2. Cat(h, m) = Cat(g, m) \o x
            BY <1>5, <2>0, <3>1
        <3>3. Cat(g, m) \o x \in Seq(S)
            BY <2>0, ConcatProperties
        <3>4. (Cat(g, m) \o x) \o <<>> = Cat(g, m) \o x /\ Cat(g, m) \o <<>> = Cat(g, m)
            BY <2>0, <3>3, ConcatEmptySeq
        <3>5. QED
            BY <2>1, <3>1, <3>2, <3>4
    <2>4. QED
        BY <2>2, <2>3
<1>6. \A m \in Nat : m \in T => m + 1 \in T
    <2> SUFFICES ASSUME NEW m \in Nat, m \in T PROVE m + 1 \in T
        OBVIOUS
    <2>1. i <= m + 1 /\ m + 1 <= n => Cat(h, m + 1) = Cat(g, m + 1) \o x
        BY <1>5
    <2>2. QED
        BY <2>1
<1> HIDE DEF T
<1>7. n \in T
    BY <1>4, <1>6, Joining!NatInd
<1>8. QED
    BY <1>7 DEF T

(* Parts that are cut short make a prefix, when nothing follows the first   *)
(* that is.                                                                 *)
Begins(s, t) == IsPrefix(s, t)

(* A prefix stays one of what grows, and after the same beginning. *)
LEMMA BeginsAppend ==
    ASSUME NEW S, NEW s \in Seq(S), NEW t \in Seq(S), NEW u \in Seq(S)
    PROVE  /\ Begins(s, t) => Begins(s, t \o u)
           /\ Begins(t, u) => Begins(s \o t, s \o u)
           /\ Begins(s, s)
<1>1. /\ t \o u \in Seq(S) /\ Len(t \o u) = Len(t) + Len(u)
      /\ \A i \in 1..Len(t) : (t \o u)[i] = t[i]
    BY ConcatProperties, LenProperties
<1>2. Len(s) \in Nat /\ Len(t) \in Nat /\ Len(u) \in Nat
    BY LenProperties
<1>3. \A a, b \in Seq(S) : Begins(a, b) <=> /\ Len(a) <= Len(b)
                                            /\ \A i \in 1..Len(a) : a[i] = b[i]
    <2> SUFFICES ASSUME NEW a \in Seq(S), NEW b \in Seq(S)
                 PROVE  Begins(a, b) <=> Len(a) <= Len(b) /\ \A i \in 1..Len(a) : a[i] = b[i]
        OBVIOUS
    <2>1. Len(a) \in Nat /\ Len(b) \in Nat /\ SubSeq(a, 1, Len(a)) = a
        BY LenProperties, SubSeqFull
    <2>2. CASE Len(a) <= Len(b)
        <3>1. /\ SubSeq(b, 1, Len(a)) \in Seq(S) /\ Len(SubSeq(b, 1, Len(a))) = Len(a)
              /\ \A i \in 1..Len(a) : SubSeq(b, 1, Len(a))[i] = b[i]
            BY <2>1, <2>2
        <3>2. SubSeq(b, 1, Len(a)) = a <=> \A i \in 1..Len(a) : a[i] = b[i]
            BY <3>1, SeqEqual
        <3>3. QED
            BY <2>1, <2>2, <3>2 DEF Begins, IsPrefix
    <2>3. CASE ~(Len(a) <= Len(b))
        BY <2>3 DEF Begins, IsPrefix
    <2>4. QED
        BY <2>2, <2>3
<1>4. Begins(s, t) => Begins(s, t \o u)
    <2> DEFINE tu == t \o u
    <2>1. tu \in Seq(S) /\ Len(tu) = Len(t) + Len(u) /\ \A i \in 1..Len(t) : tu[i] = t[i]
        BY <1>1
    <2> HIDE DEF tu
    <2>2. Begins(s, tu) <=> Len(s) <= Len(tu) /\ \A i \in 1..Len(s) : s[i] = tu[i]
        BY <1>3, <2>1
    <2>3. Begins(s, t) <=> Len(s) <= Len(t) /\ \A i \in 1..Len(s) : s[i] = t[i]
        BY <1>3
    <2>4. Begins(s, t) => Begins(s, tu)
        BY <1>2, <2>1, <2>2, <2>3
    <2>5. QED
        BY <2>4 DEF tu
<1>5. Begins(t, u) => Begins(s \o t, s \o u)
    <2>1. /\ s \o t \in Seq(S) /\ Len(s \o t) = Len(s) + Len(t)
          /\ \A i \in 1..Len(s) + Len(t) : (s \o t)[i] = IF i <= Len(s) THEN s[i] ELSE t[i - Len(s)]
        BY ConcatProperties
    <2>2. /\ s \o u \in Seq(S) /\ Len(s \o u) = Len(s) + Len(u)
          /\ \A i \in 1..Len(s) + Len(u) : (s \o u)[i] = IF i <= Len(s) THEN s[i] ELSE u[i - Len(s)]
        BY ConcatProperties
    <2>3. ASSUME Begins(t, u), NEW i \in 1..Len(s) + Len(t) PROVE (s \o t)[i] = (s \o u)[i]
        <3>1. Len(t) <= Len(u) /\ \A j \in 1..Len(t) : t[j] = u[j]
            BY <1>3, <2>3
        <3>2. i \in 1..Len(s) + Len(u) /\ (~(i <= Len(s)) => i - Len(s) \in 1..Len(t))
            BY <1>2, <2>3, <3>1
        <3>3. QED
            BY <2>1, <2>2, <2>3, <3>1, <3>2
    <2> DEFINE st == s \o t
               su == s \o u
    <2>4. /\ st \in Seq(S) /\ Len(st) = Len(s) + Len(t)
          /\ su \in Seq(S) /\ Len(su) = Len(s) + Len(u)
          /\ Begins(t, u) => \A i \in 1..Len(s) + Len(t) : st[i] = su[i]
        BY <2>1, <2>2, <2>3
    <2> HIDE DEF st, su
    <2>5. Begins(st, su) <=> Len(st) <= Len(su) /\ \A i \in 1..Len(st) : st[i] = su[i]
        BY <1>3, <2>4
    <2>6. Begins(t, u) => Len(t) <= Len(u)
        BY <1>3
    <2>7. Begins(t, u) => Begins(st, su)
        BY <1>2, <2>4, <2>5, <2>6
    <2>8. QED
        BY <2>7 DEF st, su
<1>6. QED
    BY <1>2, <1>3, <1>4, <1>5

(* Then the whole of the parts cut short is a prefix of the whole. *)
LEMMA CatBegins ==
    ASSUME NEW S, NEW g, NEW h, NEW n \in Nat,
           \A k \in 1..n : g[k] \in Seq(S) /\ h[k] \in Seq(S) /\ Begins(g[k], h[k]),
           \A k, l \in 1..n : k < l /\ g[k] # h[k] => g[l] = <<>>
    PROVE  Begins(Cat(g, n), Cat(h, n))
<1> DEFINE T == {m \in Nat : m <= n => Begins(Cat(g, m), Cat(h, m))}
<1>1. /\ Cat(g, 0) = <<>> /\ Cat(h, 0) = <<>>
      /\ \A m \in Nat : m + 1 <= n => Cat(g, m + 1) = Cat(g, m) \o g[m + 1]
      /\ \A m \in Nat : m + 1 <= n => Cat(h, m + 1) = Cat(h, m) \o h[m + 1]
    BY CatStep
<1>2. \A m \in Nat : m <= n => Cat(g, m) \in Seq(S) /\ Cat(h, m) \in Seq(S)
    BY CatType
<1>3. 0 \in T
    BY <1>1, <1>2, BeginsAppend
<1>4. ASSUME NEW m \in Nat, m \in T, m + 1 <= n PROVE Begins(Cat(g, m + 1), Cat(h, m + 1))
    <2>1. /\ m <= n /\ m + 1 \in 1..n /\ Cat(g, m) \in Seq(S) /\ Cat(h, m) \in Seq(S)
          /\ g[m + 1] \in Seq(S) /\ h[m + 1] \in Seq(S) /\ Begins(g[m + 1], h[m + 1])
          /\ Begins(Cat(g, m), Cat(h, m))
        BY <1>2, <1>4
    <2>2. CASE \A k \in 1..m : g[k] = h[k]
        <3>1. Cat(g, m) = Cat(h, m)
            BY <2>2, CatSame
        <3>2. QED
            BY <1>1, <1>4, <2>1, <3>1, BeginsAppend
    <2>3. CASE \E k \in 1..m : g[k] # h[k]
        <3>1. g[m + 1] = <<>>
            BY <1>4, <2>3
        <3>2. Cat(g, m + 1) = Cat(g, m)
            BY <1>1, <1>4, <2>1, <3>1, ConcatEmptySeq
        <3>3. QED
            BY <1>1, <1>4, <2>1, <3>2, BeginsAppend
    <2>4. QED
        BY <2>2, <2>3
<1>5. \A m \in Nat : m \in T => m + 1 \in T
    BY <1>4
<1> HIDE DEF T
<1>6. n \in T
    BY <1>3, <1>5, Joining!NatInd
<1>7. QED
    BY <1>6 DEF T

(* Parts that are all empty make nothing. *)
LEMMA CatEmpty ==
    ASSUME NEW S, NEW g, NEW n \in Nat, \A k \in 1..n : g[k] = <<>> PROVE Cat(g, n) = <<>>
<1> DEFINE T == {m \in Nat : m <= n => Cat(g, m) = <<>>}
<1>0. <<>> \in Seq(S) /\ \A k \in 1..n : g[k] \in Seq(S)
    BY EmptySeq
<1>1. /\ Cat(g, 0) = <<>>
      /\ \A m \in Nat : m + 1 <= n => Cat(g, m + 1) = Cat(g, m) \o g[m + 1]
    BY <1>0, CatStep
<1>2. 0 \in T
    BY <1>1
<1>3. ASSUME NEW m \in Nat, m \in T, m + 1 <= n PROVE Cat(g, m + 1) = <<>>
    <2>1. Cat(g, m) = <<>> /\ g[m + 1] = <<>>
        BY <1>3
    <2>2. <<>> \o <<>> = <<>>
        BY <1>0, ConcatEmptySeq
    <2>3. QED
        BY <1>1, <1>3, <2>1, <2>2
<1>4. \A m \in Nat : m \in T => m + 1 \in T
    BY <1>3
<1> HIDE DEF T
<1>5. n \in T
    BY <1>2, <1>4, Joining!NatInd
<1>6. QED
    BY <1>5 DEF T

-----------------------------------------------------------------------------
(* The fragments of an item between two places. *)
Frag == Items \X (1..Frags)
Piece(i, from, to) == EventOf(i, from, to).frags

(* A piece, fragment by fragment. *)
LEMMA PieceAt ==
    ASSUME NEW i \in Items, NEW c \in 0..Frags, NEW d \in 0..Frags, c <= d
    PROVE  /\ Piece(i, c, d) \in Seq(Frag) /\ Len(Piece(i, c, d)) = d - c
           /\ \A k \in 1..d - c : Piece(i, c, d)[k] = <<i, c + k>>
<1> DEFINE m == d - c
           s == [k \in 1..m |-> <<i, c + k>>]
<1>1. Frags \in Nat /\ c \in Nat /\ d \in Nat /\ m \in Nat /\ c + m = d
    BY StreamAssumption
<1>2. Piece(i, c, d) = s
    BY DEF Piece, EventOf
<1> HIDE DEF m
<1>3. \A k \in 1..m : c + k \in 1..Frags
    BY <1>1
<1>4. \A k \in 1..m : <<i, c + k>> \in Frag
    BY <1>3 DEF Frag
<1>5. s \in Seq(Frag) /\ Len(s) = m /\ \A k \in 1..m : s[k] = <<i, c + k>>
    BY <1>1, <1>4
<1>6. QED
    BY <1>2, <1>5 DEF m

(* Two pieces that meet make one. *)
LEMMA Pieces ==
    ASSUME NEW i, NEW a, NEW b, i \in Items, a \in 0..Frags, b \in 0..Frags, a <= b
    PROVE  /\ Piece(i, a, b) \in Seq(Frag) /\ Len(Piece(i, a, b)) = b - a
           /\ Piece(i, 0, a) \o Piece(i, a, b) = Piece(i, 0, b)
<1> DEFINE x == Piece(i, 0, a)
           y == Piece(i, a, b)
           z == Piece(i, 0, b)
           xy == x \o y
           m == b - a
<1>1. /\ a \in Nat /\ b \in Nat /\ m \in Nat /\ a + m = b
      /\ 0 \in 0..Frags /\ 0 <= a /\ 0 <= b /\ a - 0 = a /\ b - 0 = b
      /\ \A k \in Nat : 0 + k = k
    BY StreamAssumption
<1>2. /\ x \in Seq(Frag) /\ Len(x) = a - 0 /\ \A k \in 1..a - 0 : x[k] = <<i, 0 + k>>
      /\ y \in Seq(Frag) /\ Len(y) = m /\ \A k \in 1..m : y[k] = <<i, a + k>>
      /\ z \in Seq(Frag) /\ Len(z) = b - 0 /\ \A k \in 1..b - 0 : z[k] = <<i, 0 + k>>
    BY <1>1, PieceAt
<1> HIDE DEF x, y, z, m
<1>3. /\ Len(x) = a /\ \A k \in 1..a : x[k] = <<i, k>>
      /\ Len(z) = b /\ \A k \in 1..b : z[k] = <<i, k>>
    <2>1. 1..a - 0 = 1..a /\ 1..b - 0 = 1..b
        BY <1>1
    <2>2. /\ \A k \in 1..a : x[k] = <<i, 0 + k>>
          /\ \A k \in 1..b : z[k] = <<i, 0 + k>>
        BY <1>2, <2>1
    <2>3. (\A k \in 1..a : 0 + k = k) /\ \A k \in 1..b : 0 + k = k
        BY <1>1
    <2>4. QED
        BY <1>1, <1>2, <2>2, <2>3
<1>4. /\ xy \in Seq(Frag) /\ Len(xy) = Len(x) + Len(y)
      /\ \A k \in 1..Len(x) + Len(y) : xy[k] = IF k <= Len(x) THEN x[k] ELSE y[k - Len(x)]
    BY <1>2, ConcatProperties
<1> HIDE DEF xy
<1>5. ASSUME NEW k \in 1..b PROVE xy[k] = z[k]
    <2>1. xy[k] = IF k <= a THEN x[k] ELSE y[k - a]
        BY <1>1, <1>2, <1>3, <1>4
    <2>2. CASE k <= a
        <3>1. k \in 1..a
            BY <1>1, <2>2
        <3>2. QED
            BY <1>3, <2>1, <2>2, <3>1
    <2>3. CASE ~(k <= a)
        <3>1. k - a \in 1..m /\ a + (k - a) = k
            BY <1>1, <2>3
        <3>2. y[k - a] = <<i, a + (k - a)>>
            BY <1>2, <3>1
        <3>3. QED
            BY <1>3, <2>1, <2>3, <3>1, <3>2
    <2>4. QED
        BY <2>2, <2>3
<1>6. Len(xy) = b
    BY <1>1, <1>2, <1>3, <1>4
<1>7. xy = z
    BY <1>2, <1>3, <1>4, <1>5, <1>6, SeqEqual
<1>8. QED
    BY <1>2, <1>7 DEF y, z, xy, m, x

(* A piece from the beginning to the beginning is empty. *)
LEMMA NoPiece == ASSUME NEW i PROVE Piece(i, 0, 0) = <<>>
BY DEF Piece, EventOf

(* What the blocks of a kind make, one after the other. *)
Block == [item : Items, frags : Seq(Frag)]
Made(blks, kind) == Joined(Parts(blks, kind))

(* The parts of a kind, block by block. *)
LEMMA PartsKnown ==
    ASSUME NEW blks \in Seq(Block), NEW kind
    PROVE  /\ Made(blks, kind) = Cat(Parts(blks, kind), Len(blks))
           /\ \A k \in 1..Len(blks) :
                 /\ Parts(blks, kind)[k] = IF Kinds[blks[k].item] = kind THEN blks[k].frags ELSE <<>>
                 /\ Parts(blks, kind)[k] \in Seq(Frag)
           /\ Made(blks, kind) \in Seq(Frag)
<1>0. DOMAIN blks = 1..Len(blks) /\ Len(blks) \in Nat /\ <<>> \in Seq(Frag)
    BY EmptySeq, LenProperties
<1>1. \A k \in 1..Len(blks) : blks[k].frags \in Seq(Frag)
    <2>1. \A k \in 1..Len(blks) : blks[k] \in Block
        BY ElementOfSeq
    <2>2. QED
        BY <2>1 DEF Block
<1>2. Parts(blks, kind) = [k \in 1..Len(blks) |-> IF Kinds[blks[k].item] = kind THEN blks[k].frags ELSE <<>>]
    BY <1>0 DEF Parts
<1>3. \A k \in 1..Len(blks) :
         /\ Parts(blks, kind)[k] = IF Kinds[blks[k].item] = kind THEN blks[k].frags ELSE <<>>
         /\ Parts(blks, kind)[k] \in Seq(Frag)
    BY <1>0, <1>1, <1>2
<1>4. Parts(blks, kind) = [k \in 1..Len(blks) |-> Parts(blks, kind)[k]]
    BY <1>2
<1>5. Made(blks, kind) = Cat(Parts(blks, kind), Len(blks))
    BY <1>4 DEF Made, Cat
<1>6. Cat(Parts(blks, kind), Len(blks)) \in Seq(Frag)
    <2> DEFINE g == Parts(blks, kind)
               n == Len(blks)
    <2>1. n \in Nat /\ n <= n /\ \A k \in 1..n : g[k] \in Seq(Frag)
        BY <1>0, <1>3
    <2> HIDE DEF g, n
    <2>2. Cat(g, n) \in Seq(Frag)
        BY <2>1, CatType
    <2>3. QED
        BY <2>2 DEF g, n
<1>7. QED
    BY <1>3, <1>5, <1>6

(* A block that takes more fragments. *)
Grown(c, b, k, x) ==
    /\ c \in Seq(Block) /\ Len(c) = Len(b)
    /\ c[k].item = b[k].item /\ c[k].frags = b[k].frags \o x
    /\ \A l \in 1..Len(b) : l # k => c[l] = b[l]

NothingAfter(b, k, kind) ==
    \A l \in 1..Len(b) : l > k /\ Kinds[b[k].item] = kind /\ Kinds[b[l].item] = kind => b[l].frags = <<>>

(* A block that takes more, with nothing of its kind after it: all of the   *)
(* kind, joined, takes it at the end.                                       *)
LEMMA MadeGrows ==
    ASSUME NEW b, NEW c, NEW k, NEW x, NEW kind,
           b \in Seq(Block), k \in 1..Len(b), x \in Seq(Frag), Grown(c, b, k, x), NothingAfter(b, k, kind)
    PROVE  /\ Kinds[b[k].item] = kind => Made(c, kind) = Made(b, kind) \o x
           /\ Kinds[b[k].item] # kind => Made(c, kind) = Made(b, kind)
<1> DEFINE g == Parts(b, kind)
           h == Parts(c, kind)
           n == Len(b)
<1>1. n \in Nat /\ Len(c) = n /\ c \in Seq(Block)
    BY LenProperties DEF Grown
<1>2. Made(b, kind) = Cat(g, n) /\ Made(c, kind) = Cat(h, n)
    BY <1>1, PartsKnown
<1>3. \A l \in 1..n : /\ g[l] \in Seq(Frag)
                      /\ g[l] = IF Kinds[b[l].item] = kind THEN b[l].frags ELSE <<>>
                      /\ h[l] = IF Kinds[c[l].item] = kind THEN c[l].frags ELSE <<>>
    BY <1>1, PartsKnown
<1> HIDE DEF g, h
<1>4. \A l \in 1..n : l # k => h[l] = g[l]
    BY <1>3 DEF Grown
<1>5. CASE Kinds[b[k].item] = kind
    <2>1. h[k] = g[k] \o x
        BY <1>3, <1>5 DEF Grown
    <2>2. \A l \in 1..n : l > k => g[l] = <<>>
        BY <1>3, <1>5 DEF NothingAfter
    <2> HIDE DEF n
    <2>3. Cat(h, n) = Cat(g, n) \o x
        <3>1. k \in 1..n
            BY DEF n
        <3>2. QED
            <4>1. AreParts(g, n, Frag)
                BY <1>3 DEF AreParts
            <4>2. PartGrows(g, h, n, k, x)
                BY <1>4, <2>1, <2>2 DEF PartGrows
            <4>3. QED
                BY <1>1, <3>1, <4>1, <4>2, CatGrows
    <2>4. QED
        BY <1>2, <1>5, <2>3
<1>6. CASE Kinds[b[k].item] # kind
    <2>1. \A l \in 1..n : h[l] = g[l]
        BY <1>3, <1>4, <1>6 DEF Grown
    <2>2. Cat(h, n) = Cat(g, n)
        BY <1>1, <2>1, CatSame
    <2>3. QED
        BY <1>2, <1>6, <2>2
<1>7. QED
    BY <1>5, <1>6

(* A new block at the end. *)
LEMMA MadeAdds ==
    ASSUME NEW b \in Seq(Block), NEW e \in Block, NEW kind
    PROVE  Made(Append(b, e), kind) = Made(b, kind) \o (IF Kinds[e.item] = kind THEN e.frags ELSE <<>>)
<1> DEFINE s == Parts(b, kind)
           last == IF Kinds[e.item] = kind THEN e.frags ELSE <<>>
<1>1. DOMAIN b = 1..Len(b) /\ Len(b) \in Nat /\ last \in Seq(Frag)
    BY EmptySeq, LenProperties DEF Block
<1>2. s \in Seq(Seq(Frag)) /\ Len(s) = Len(b)
    <2>1. s = [k \in 1..Len(b) |-> Parts(b, kind)[k]]
        BY <1>1 DEF Parts
    <2>2. \A k \in 1..Len(b) : Parts(b, kind)[k] \in Seq(Frag)
        BY PartsKnown
    <2> HIDE DEF s
    <2>3. QED
        BY <1>1, <2>1, <2>2
<1>3. Parts(Append(b, e), kind) = Append(s, last)
    <2>1. /\ Append(b, e) \in Seq(Block) /\ Len(Append(b, e)) = Len(b) + 1
          /\ \A k \in 1..Len(b) : Append(b, e)[k] = b[k]
          /\ Append(b, e)[Len(b) + 1] = e
        BY AppendProperties
    <2>2. Parts(Append(b, e), kind) = [k \in 1..Len(b) + 1 |-> Parts(Append(b, e), kind)[k]]
        BY <2>1 DEF Parts
    <2>3. \A k \in 1..Len(b) + 1 : Parts(Append(b, e), kind)[k] = IF k <= Len(b) THEN s[k] ELSE last
        <3> TAKE k \in 1..Len(b) + 1
        <3>1. Parts(Append(b, e), kind)[k] = IF Kinds[Append(b, e)[k].item] = kind
                                             THEN Append(b, e)[k].frags ELSE <<>>
            <4> DEFINE c == Append(b, e)
            <4>1. c \in Seq(Block) /\ k \in 1..Len(c)
                BY <2>1
            <4> HIDE DEF c
            <4>2. Parts(c, kind)[k] = IF Kinds[c[k].item] = kind THEN c[k].frags ELSE <<>>
                BY <4>1, PartsKnown
            <4>3. QED
                BY <4>2 DEF c
        <3>2. CASE k <= Len(b)
            <4>1. k \in 1..Len(b)
                BY <1>1, <3>2
            <4>2. s[k] = IF Kinds[b[k].item] = kind THEN b[k].frags ELSE <<>>
                BY <4>1, PartsKnown
            <4>3. QED
                BY <2>1, <3>1, <3>2, <4>1, <4>2
        <3>3. CASE ~(k <= Len(b))
            <4>1. k = Len(b) + 1
                BY <1>1, <3>3
            <4>2. QED
                BY <2>1, <3>1, <3>3, <4>1
        <3>4. QED
            BY <3>2, <3>3
    <2> HIDE DEF s, last
    <2>4. /\ Append(s, last) \in Seq(Seq(Frag)) /\ Len(Append(s, last)) = Len(b) + 1
          /\ \A k \in 1..Len(b) : Append(s, last)[k] = s[k]
          /\ Append(s, last)[Len(b) + 1] = last
        BY <1>1, <1>2, AppendProperties
    <2>5. Append(s, last) = [k \in 1..Len(b) + 1 |-> Append(s, last)[k]]
        <3> DEFINE r == Append(s, last)
        <3>1. r \in Seq(Seq(Frag)) /\ Len(r) = Len(b) + 1
            BY <2>4
        <3> HIDE DEF r
        <3>2. r = [k \in 1..Len(b) + 1 |-> r[k]]
            BY <3>1
        <3>3. QED
            BY <3>2 DEF r
    <2>6. \A k \in 1..Len(b) + 1 : Append(s, last)[k] = IF k <= Len(b) THEN s[k] ELSE last
        BY <1>1, <2>4
    <2>7. QED
        BY <2>2, <2>3, <2>5, <2>6
<1> HIDE DEF s, last
<1>4. Joined(Append(s, last)) = Joined(s) \o last
    BY <1>1, <1>2, JoinedStep
<1>5. QED
    BY <1>3, <1>4 DEF Made, s, last

-----------------------------------------------------------------------------
(* What the provider sent so far, as the blocks of a body. *)
Progress == [Items -> 0..Frags]
Sent(em) == [i \in Items |-> [item |-> i, frags |-> Piece(i, 0, em[i])]]
Done == [i \in Items |-> Frags]

(* An item of which more was sent. *)
Ahead(em, i, to) == [em EXCEPT ![i] = to]

(* The items are numbered from 1, and each has a fragment. *)
LEMMA ItemsAre == Items = 1..Len(Kinds) /\ Len(Kinds) \in Nat /\ Frags \in Nat /\ Frags > 0
BY StreamAssumption DEF Items

(* What was sent, item by item. *)
LEMMA SentKnown ==
    ASSUME NEW em \in Progress
    PROVE  /\ Sent(em) \in Seq(Block) /\ Len(Sent(em)) = Len(Kinds)
           /\ \A i \in Items : Sent(em)[i].item = i /\ Sent(em)[i].frags = Piece(i, 0, em[i])
<1>1. ASSUME NEW i \in Items PROVE [item |-> i, frags |-> Piece(i, 0, em[i])] \in Block
    <2>1. em[i] \in 0..Frags /\ 0 \in 0..Frags /\ 0 <= em[i]
        BY ItemsAre DEF Progress
    <2>2. Piece(i, 0, em[i]) \in Seq(Frag)
        BY <2>1, Pieces
    <2>3. QED
        BY <2>2 DEF Block
<1> DEFINE n == Len(Kinds)
           s == [i \in 1..n |-> [item |-> i, frags |-> Piece(i, 0, em[i])]]
<1>2. n \in Nat /\ Items = 1..n /\ Sent(em) = s
    BY ItemsAre DEF Sent
<1> HIDE DEF n
<1>3. s \in Seq(Block) /\ Len(s) = n
    BY <1>1, <1>2
<1>4. \A i \in Items : s[i].item = i /\ s[i].frags = Piece(i, 0, em[i])
    BY <1>2
<1>5. QED
    BY <1>2, <1>3, <1>4 DEF n

(* A body in one piece is all that can be sent. *)
LEMMA WholeIsSent == Done \in Progress /\ Whole = Sent(Done)
<1>1. Done \in Progress
    BY ItemsAre DEF Done, Progress
<1>2. \A i \in Items : EventOf(i, 0, Frags).frags = Piece(i, 0, Done[i])
    BY DEF Done, Piece
<1>3. QED
    BY <1>1, <1>2 DEF Whole, Sent

(* What was sent grows in one item. *)
LEMMA SentGrows ==
    ASSUME NEW em, NEW i, NEW to, em \in Progress, i \in Items, to \in 0..Frags, em[i] <= to
    PROVE  /\ Ahead(em, i, to) \in Progress
           /\ Piece(i, em[i], to) \in Seq(Frag)
           /\ Grown(Sent(Ahead(em, i, to)), Sent(em), i, Piece(i, em[i], to))
<1> DEFINE fm == Ahead(em, i, to)
           x == Piece(i, em[i], to)
<1>1. /\ fm \in Progress /\ em[i] \in 0..Frags /\ fm[i] = to
      /\ \A j \in Items : j # i => fm[j] = em[j]
    BY DEF Progress, Ahead
<1> HIDE DEF fm
<1>2. x \in Seq(Frag) /\ Piece(i, 0, em[i]) \o x = Piece(i, 0, to)
    BY <1>1, Pieces
<1>3. /\ Sent(fm) \in Seq(Block) /\ Len(Sent(fm)) = Len(Kinds)
      /\ \A j \in Items : Sent(fm)[j].item = j /\ Sent(fm)[j].frags = Piece(j, 0, fm[j])
    BY <1>1, SentKnown
<1>4. /\ Sent(em) \in Seq(Block) /\ Len(Sent(em)) = Len(Kinds)
      /\ \A j \in Items : Sent(em)[j].item = j /\ Sent(em)[j].frags = Piece(j, 0, em[j])
    BY SentKnown
<1>5. ASSUME NEW j \in Items, j # i PROVE Sent(fm)[j] = Sent(em)[j]
    BY <1>1, <1>5 DEF Sent
<1>6. Grown(Sent(fm), Sent(em), i, x)
    <2> HIDE DEF x
    <2>1. Sent(fm)[i].frags = Sent(em)[i].frags \o x
        BY <1>1, <1>2, <1>3, <1>4 DEF x
    <2>2. QED
        BY <1>3, <1>4, <1>5, <2>1, ItemsAre DEF Grown
<1>7. QED
    BY <1>1, <1>2, <1>6 DEF fm, x

-----------------------------------------------------------------------------
(* The items come in order, but for those an index tells apart. *)
InOrder(w, em) ==
    \A i, j \in Items : i < j /\ em[j] > 0 /\ ~Indexed(w, i, j) => em[i] = Frags

(* The item the next event may be of.                                       *)
Due(w, em, i) ==
    /\ em[i] < Frags
    /\ \A j \in Items : em[j] < Frags => i <= j \/ Indexed(w, i, j)

(* The next event keeps the order. *)
LEMMA OrderKept ==
    ASSUME NEW w, NEW em, NEW i, NEW to,
           em \in Progress, InOrder(w, em), i \in Items, Due(w, em, i), to \in 0..Frags
    PROVE  InOrder(w, Ahead(em, i, to))
<1> DEFINE fm == Ahead(em, i, to)
<1>1. /\ fm[i] = to /\ \A j \in Items : j # i => fm[j] = em[j]
      /\ \A j \in Items : em[j] \in 0..Frags
    BY DEF Progress, Ahead
<1> HIDE DEF fm
<1>2. \A j \in Items : j \in Nat
    BY ItemsAre
<1>3. SUFFICES ASSUME NEW j \in Items, NEW k \in Items, j < k, fm[k] > 0, ~Indexed(w, j, k)
               PROVE  fm[j] = Frags
    BY DEF InOrder, fm
<1>4. CASE k = i
    <2>1. ~Indexed(w, i, j) /\ ~(i <= j)
        BY <1>2, <1>3, <1>4 DEF Indexed
    <2>2. ~(em[j] < Frags)
        BY <2>1 DEF Due
    <2>3. j # i
        BY <1>2, <1>3, <1>4
    <2>4. QED
        BY <1>1, <2>2, <2>3, ItemsAre
<1>5. CASE k # i
    <2>1. em[j] = Frags
        BY <1>1, <1>3, <1>5 DEF InOrder
    <2>2. j # i
        BY <2>1, ItemsAre DEF Due
    <2>3. QED
        BY <1>1, <2>1, <2>2
<1>6. QED
    BY <1>4, <1>5

(* The texts, or the thoughts, that were sent, joined, grow at their end.   *)
LEMMA SentMadeGrows ==
    ASSUME NEW w, NEW em, NEW i, NEW to, NEW kind, em \in Progress, InOrder(w, em), i \in Items, Due(w, em, i),
           to \in 0..Frags, em[i] <= to, kind # "call"
    PROVE  /\ Kinds[i] = kind =>
                  Made(Sent(Ahead(em, i, to)), kind) = Made(Sent(em), kind) \o Piece(i, em[i], to)
           /\ Kinds[i] # kind => Made(Sent(Ahead(em, i, to)), kind) = Made(Sent(em), kind)
<1> DEFINE fm == Ahead(em, i, to)
           x == Piece(i, em[i], to)
           b == Sent(em)
           c == Sent(fm)
<1>1. x \in Seq(Frag) /\ Grown(c, b, i, x)
    BY SentGrows
<1>2. /\ b \in Seq(Block) /\ Len(b) = Len(Kinds) /\ 1..Len(b) = Items
      /\ \A j \in Items : b[j].item = j /\ b[j].frags = Piece(j, 0, em[j])
    BY SentKnown, ItemsAre
<1>3. ASSUME NEW l \in 1..Len(b), l > i, Kinds[b[i].item] = kind, Kinds[b[l].item] = kind
      PROVE  b[l].frags = <<>>
    <2>1. Kinds[i] = kind /\ Kinds[l] = kind /\ l \in Items /\ i < l
        BY <1>2, <1>3, ItemsAre
    <2>2. ~Indexed(w, i, l)
        BY <2>1 DEF Indexed
    <2>3. ~(em[l] > 0)
        BY <2>1, <2>2, ItemsAre DEF InOrder, Due
    <2>4. em[l] = 0
        BY <2>1, <2>3, ItemsAre DEF Progress
    <2>5. QED
        BY <1>2, <2>1, <2>4, NoPiece
<1> HIDE DEF b, c, x
<1>4. /\ Kinds[b[i].item] = kind => Made(c, kind) = Made(b, kind) \o x
      /\ Kinds[b[i].item] # kind => Made(c, kind) = Made(b, kind)
    <2>1. NothingAfter(b, i, kind)
        BY <1>3 DEF NothingAfter
    <2>2. b \in Seq(Block) /\ i \in 1..Len(b)
        BY <1>2
    <2>3. QED
        BY <1>1, <2>1, <2>2, MadeGrows
<1>5. QED
    BY <1>2, <1>4 DEF b, c, x

-----------------------------------------------------------------------------
(* On the wires with an index there is one block for each item that has     *)
(* begun, holding what was sent of it; blocks no index tells apart are in   *)
(* order, and those of the anthropic wire are all the items so far.         *)
OneEach(w, em, b) ==
    /\ \A i \in Items : em[i] > 0 => \E k \in 1..Len(b) : b[k].item = i
    /\ \A k \in 1..Len(b) : b[k].item \in Items
    /\ \A k \in 1..Len(b) : em[b[k].item] > 0 /\ b[k].frags = Piece(b[k].item, 0, em[b[k].item])
    /\ \A k, l \in 1..Len(b) : b[k].item = b[l].item => k = l
    /\ \A k, l \in 1..Len(b) : k < l => b[k].item < b[l].item \/ Indexed(w, b[k].item, b[l].item)
    /\ w = "anthropic" => \A k \in 1..Len(b) : b[k].item = k

(* An event of an item that has a block is added to it, and to no other     *)
(* (openai_stream.go:156, anthropic_stream.go).                             *)
LEMMA MergeGrows ==
    ASSUME NEW b, NEW e, NEW k, b \in Seq(Block), k \in 1..Len(b), b[k].item = e.item,
           \A l \in 1..Len(b) : b[l].item = e.item => l = k, e.frags \in Seq(Frag)
    PROVE  Grown(Merge(b, e), b, k, e.frags)
<1> DEFINE n == Len(b)
           d == [b[k] EXCEPT !.frags = @ \o e.frags]
           c == [l \in 1..n |-> IF l = k THEN d ELSE b[l]]
<1>1. n \in Nat /\ DOMAIN b = 1..n /\ k \in 1..n /\ \A l \in 1..n : b[l] \in Block
    BY ElementOfSeq, LenProperties
<1>2. Opened(b, e) = {k}
    BY <1>1 DEF Opened
<1>3. Merge(b, e) = c
    BY <1>1, <1>2 DEF Merge
<1>4. b[k] \in Block /\ b[k].item \in Items /\ b[k].frags \in Seq(Frag)
    BY <1>1 DEF Block
<1>5. d \in Block /\ d.item = b[k].item /\ d.frags = b[k].frags \o e.frags
    <2>1. b[k].frags \o e.frags \in Seq(Frag)
        BY <1>4, ConcatProperties
    <2>2. QED
        BY <1>4, <2>1 DEF Block
<1> HIDE DEF n, d
<1>6. c \in Seq(Block) /\ Len(c) = n
    BY <1>1, <1>5
<1>7. c[k] = d /\ \A l \in 1..n : l # k => c[l] = b[l]
    BY <1>1
<1> HIDE DEF c
<1>8. Grown(c, b, k, e.frags)
    BY <1>5, <1>6, <1>7 DEF Grown, n
<1>9. QED
    BY <1>3, <1>8

(* It leaves one block for each item. *)
LEMMA OneEachGrows ==
    ASSUME NEW w, NEW em, NEW b, NEW c, NEW k, NEW i, NEW to,
           em \in Progress, b \in Seq(Block), OneEach(w, em, b), k \in 1..Len(b), i \in Items, b[k].item = i,
           to \in 0..Frags, em[i] < to, Grown(c, b, k, Piece(i, em[i], to))
    PROVE  OneEach(w, Ahead(em, i, to), c)
<1> DEFINE fm == Ahead(em, i, to)
<1>1. /\ fm[i] = to /\ \A j \in Items : j # i => fm[j] = em[j]
      /\ \A j \in Items : em[j] \in 0..Frags
    BY DEF Progress, Ahead
<1> HIDE DEF fm
<1>2. /\ Len(c) = Len(b) /\ c[k].item = i /\ c[k].frags = b[k].frags \o Piece(i, em[i], to)
      /\ \A l \in 1..Len(b) : l # k => c[l] = b[l]
    BY DEF Grown
<1>3. \A l \in 1..Len(b) : c[l].item = b[l].item
    BY <1>2
<1>4. b[k].frags = Piece(i, 0, em[i]) /\ c[k].frags = Piece(i, 0, to)
    <2>1. b[k].frags = Piece(i, 0, em[i])
        BY DEF OneEach
    <2>2. em[i] \in 0..Frags /\ em[i] <= to
        BY <1>1, ItemsAre
    <2>3. QED
        BY <1>2, <2>1, <2>2, Pieces
<1>5. \A j \in Items : fm[j] > 0 => \E l \in 1..Len(c) : c[l].item = j
    <2> TAKE j \in Items
    <2>1. CASE j = i
        BY <1>2, <2>1
    <2>2. CASE j # i
        BY <1>1, <1>2, <1>3, <2>2 DEF OneEach
    <2>3. QED
        BY <2>1, <2>2
<1>6. \A l \in 1..Len(c) : c[l].item \in Items
    BY <1>2, <1>3 DEF OneEach
<1>7. \A l \in 1..Len(c) : fm[c[l].item] > 0 /\ c[l].frags = Piece(c[l].item, 0, fm[c[l].item])
    <2> TAKE l \in 1..Len(c)
    <2>1. CASE l = k
        <3>1. to > 0
            BY <1>1, ItemsAre
        <3>2. QED
            BY <1>1, <1>2, <1>4, <2>1, <3>1
    <2>2. CASE l # k
        <3>1. l \in 1..Len(b) /\ c[l] = b[l] /\ b[l].item # i /\ b[l].item \in Items
            BY <1>2, <2>2 DEF OneEach
        <3>2. fm[b[l].item] = em[b[l].item]
            BY <1>1, <3>1
        <3>3. QED
            BY <3>1, <3>2 DEF OneEach
    <2>3. QED
        BY <2>1, <2>2
<1>8. /\ \A l, m \in 1..Len(c) : c[l].item = c[m].item => l = m
      /\ \A l, m \in 1..Len(c) : l < m => c[l].item < c[m].item \/ Indexed(w, c[l].item, c[m].item)
      /\ w = "anthropic" => \A l \in 1..Len(c) : c[l].item = l
    BY <1>2, <1>3 DEF OneEach
<1>9. OneEach(w, fm, c)
    BY <1>5, <1>6, <1>7, <1>8 DEF OneEach
<1>10. QED
    BY <1>9 DEF fm

(* So does a new block. *)
LEMMA OneEachAdds ==
    ASSUME NEW w, NEW em, NEW b, NEW i, NEW to,
           em \in Progress, InOrder(w, em), b \in Seq(Block), OneEach(w, em, b), i \in Items, Due(w, em, i),
           w \in {"openai", "anthropic"},
           \A k \in 1..Len(b) : b[k].item # i, to \in 0..Frags, em[i] < to
    PROVE  OneEach(w, Ahead(em, i, to), Append(b, [item |-> i, frags |-> Piece(i, em[i], to)]))
<1> DEFINE fm == Ahead(em, i, to)
           e == [item |-> i, frags |-> Piece(i, em[i], to)]
           c == Append(b, e)
           n == Len(b)
<1>1. /\ fm[i] = to /\ \A j \in Items : j # i => fm[j] = em[j]
      /\ \A j \in Items : em[j] \in 0..Frags
    BY DEF Progress, Ahead
<1>2. em[i] = 0 /\ to > 0
    <2>1. ~(em[i] > 0)
        BY DEF OneEach
    <2>2. em[i] \in 0..Frags
        BY DEF Progress
    <2>3. QED
        BY <2>1, <2>2, ItemsAre
<1>3. e \in Block /\ e.item = i /\ e.frags = Piece(i, 0, to)
    <2>0. em[i] \in 0..Frags /\ em[i] <= to
        BY <1>1, ItemsAre
    <2>1. Piece(i, em[i], to) \in Seq(Frag)
        BY <2>0, Pieces
    <2>2. QED
        BY <1>2, <2>1 DEF Block
<1> HIDE DEF fm, e
<1>4. /\ n \in Nat /\ Len(c) = n + 1 /\ c[n + 1] = e
      /\ \A k \in 1..n : c[k] = b[k]
    BY <1>3, AppendProperties, LenProperties
<1> HIDE DEF c, n
<1>5. /\ \A j \in Items : em[j] > 0 => \E k \in 1..n : b[k].item = j
      /\ \A k \in 1..n : b[k].item \in Items /\ em[b[k].item] > 0 /\ b[k].frags = Piece(b[k].item, 0, em[b[k].item])
      /\ \A k \in 1..n : b[k].item # i
      /\ \A k, l \in 1..n : b[k].item = b[l].item => k = l
      /\ \A k, l \in 1..n : k < l => b[k].item < b[l].item \/ Indexed(w, b[k].item, b[l].item)
      /\ w = "anthropic" => \A k \in 1..n : b[k].item = k
    BY DEF OneEach, n
<1>6. \A k \in 1..n + 1 : k \in 1..n \/ k = n + 1
    BY <1>4
<1>7. 1..n \subseteq 1..n + 1 /\ n + 1 \in 1..n + 1
    BY <1>4
<1>8. \A j \in Items : fm[j] > 0 => \E l \in 1..Len(c) : c[l].item = j
    <2> TAKE j \in Items
    <2>1. CASE j = i
        BY <1>3, <1>4, <1>7, <2>1
    <2>2. CASE j # i
        BY <1>1, <1>4, <1>5, <1>7, <2>2
    <2>3. QED
        BY <2>1, <2>2
<1>9. \A l \in 1..Len(c) : c[l].item \in Items
    BY <1>3, <1>4, <1>5, <1>6
<1>10. \A l \in 1..Len(c) : fm[c[l].item] > 0 /\ c[l].frags = Piece(c[l].item, 0, fm[c[l].item])
    <2> TAKE l \in 1..Len(c)
    <2>1. CASE l = n + 1
        BY <1>1, <1>2, <1>3, <1>4, <2>1
    <2>2. CASE l \in 1..n
        <3>1. /\ b[l].item \in Items /\ b[l].item # i /\ em[b[l].item] > 0
              /\ b[l].frags = Piece(b[l].item, 0, em[b[l].item])
            BY <1>5, <2>2
        <3>2. c[l] = b[l]
            BY <1>4, <2>2
        <3>3. fm[b[l].item] = em[b[l].item]
            BY <1>1, <3>1
        <3>4. QED
            BY <3>1, <3>2, <3>3
    <2>3. QED
        BY <1>4, <1>6, <2>1, <2>2
<1>11. \A l, m \in 1..Len(c) : c[l].item = c[m].item => l = m
    BY <1>3, <1>4, <1>5, <1>6
<1>12. \A j \in Items : em[j] > 0 /\ j # i => j < i \/ Indexed(w, j, i)
    <2> SUFFICES ASSUME NEW j \in Items, em[j] > 0, j # i, ~(j < i), ~Indexed(w, j, i) PROVE FALSE
        OBVIOUS
    <2>1. i < j /\ ~Indexed(w, i, j)
        BY ItemsAre DEF Indexed
    <2>2. em[i] = Frags
        BY <2>1 DEF InOrder
    <2>3. QED
        BY <1>2, <2>2, ItemsAre
<1>13. \A l, m \in 1..Len(c) : l < m => c[l].item < c[m].item \/ Indexed(w, c[l].item, c[m].item)
    <2> SUFFICES ASSUME NEW l \in 1..n + 1, NEW m \in 1..n + 1, l < m
                 PROVE  c[l].item < c[m].item \/ Indexed(w, c[l].item, c[m].item)
        BY <1>4
    <2>1. l \in 1..n
        BY <1>4
    <2>2. CASE m \in 1..n
        BY <1>4, <1>5, <2>1, <2>2
    <2>3. CASE m = n + 1
        BY <1>3, <1>4, <1>5, <1>12, <2>1, <2>3
    <2>4. QED
        BY <1>6, <2>2, <2>3
<1>14. ASSUME w = "anthropic" PROVE \A l \in 1..Len(c) : c[l].item = l
    <2>1. \A k \in 1..n : b[k].item = k
        BY <1>5, <1>14
    <2>2. \A j \in Items : j < i => em[j] > 0
        <3>1. \A j \in Items : ~Indexed(w, i, j)
            BY <1>14 DEF Indexed
        <3>2. QED
            BY <1>1, <3>1, ItemsAre DEF Due
    <2>3. \A j \in Items : j < i => j \in 1..n
        BY <1>5, <2>1, <2>2
    <2>4. ~(i \in 1..n)
        BY <1>5, <2>1
    <2>5. i = n + 1
        BY <1>4, <2>3, <2>4, ItemsAre
    <2>6. QED
        BY <1>3, <1>4, <1>6, <2>1, <2>5
<1>15. OneEach(w, fm, c)
    BY <1>8, <1>9, <1>10, <1>11, <1>13, <1>14 DEF OneEach
<1>16. QED
    BY <1>15 DEF fm, c, e

(* When all was sent, they are the whole answer. *)
LEMMA OneEachIsWhole ==
    ASSUME NEW w, NEW em, NEW b, b \in Seq(Block), OneEach(w, em, b), w \in {"openai", "anthropic"},
           \A i \in Items : em[i] = Frags
    PROVE  InSlots(w, b) = Whole
<1>1. /\ DOMAIN b = 1..Len(b) /\ Len(b) \in Nat
      /\ \A k \in 1..Len(b) : b[k] \in Block
    BY ElementOfSeq, LenProperties
<1>2. \A i \in Items : \E k \in 1..Len(b) : b[k].item = i
    BY ItemsAre DEF OneEach
<1>3. ASSUME NEW k \in 1..Len(b) PROVE b[k] = Whole[b[k].item]
    <2>1. b[k].item \in Items /\ b[k].frags = Piece(b[k].item, 0, Frags)
        BY DEF OneEach
    <2>2. b[k] = [item |-> b[k].item, frags |-> b[k].frags]
        BY <1>1 DEF Block
    <2>3. Whole[b[k].item] = [item |-> b[k].item, frags |-> Piece(b[k].item, 0, Frags)]
        BY <2>1 DEF Whole, Piece
    <2>4. QED
        BY <2>1, <2>2, <2>3
<1>4. CASE w = "openai"
    <2>1. ASSUME NEW i \in Items PROVE BlockOf(b, i) = Whole[i]
        <3> DEFINE k == CHOOSE j \in DOMAIN b : b[j].item = i
        <3>1. k \in DOMAIN b /\ b[k].item = i
            BY <1>1, <1>2
        <3>2. BlockOf(b, i) = b[k]
            BY <3>1 DEF BlockOf
        <3> HIDE DEF k
        <3>3. QED
            BY <1>1, <1>3, <3>1, <3>2
    <2>2. InSlots(w, b) = [i \in Items |-> BlockOf(b, i)]
        BY <1>4 DEF InSlots
    <2>3. [i \in Items |-> BlockOf(b, i)] = [i \in Items |-> Whole[i]]
        BY <2>1
    <2>4. Whole = [i \in Items |-> Whole[i]]
        BY DEF Whole
    <2>5. QED
        BY <2>2, <2>3, <2>4
<1>5. CASE w = "anthropic"
    <2>1. \A k \in 1..Len(b) : b[k].item = k /\ k \in Items
        BY <1>5 DEF OneEach
    <2>2. \A i \in Items : i \in 1..Len(b)
        BY <1>2, <2>1
    <2>3. DOMAIN b = Items
        BY <1>1, <2>1, <2>2
    <2>4. \A k \in Items : b[k] = Whole[k]
        BY <1>3, <2>1, <2>2
    <2>5. b = [k \in DOMAIN b |-> b[k]]
        BY <1>1
    <2>6. Whole = [i \in Items |-> Whole[i]]
        BY DEF Whole
    <2>7. b = Whole
        BY <2>3, <2>4, <2>5, <2>6
    <2>8. QED
        BY <1>5, <2>7 DEF InSlots
<1>6. QED
    BY <1>4, <1>5

-----------------------------------------------------------------------------
(* On the gemini wire the blocks are the events; a call is whole in one.    *)
CallsSent(em) == [i \in Items |-> IF Kinds[i] = "call" /\ em[i] > 0 THEN <<Piece(i, 0, Frags)>> ELSE <<>>]
InTurn(em, b) ==
    /\ \A i \in Items : Kinds[i] = "call" => em[i] \in {0, Frags}
    /\ Joined(Calls(b)) = Cat(CallsSent(em), Len(Kinds))

(* The calls, block by block. *)
LEMMA CallsKnown ==
    ASSUME NEW b, b \in Seq(Block)
    PROVE  /\ Calls(b) \in Seq(Seq(Seq(Frag))) /\ Len(Calls(b)) = Len(b)
           /\ \A k \in 1..Len(b) :
                  Calls(b)[k] = IF Kinds[b[k].item] = "call" THEN <<b[k].frags>> ELSE <<>>
<1> DEFINE n == Len(b)
           s == [k \in 1..n |-> IF Kinds[b[k].item] = "call" THEN <<b[k].frags>> ELSE <<>>]
<1>1. n \in Nat /\ DOMAIN b = 1..n /\ \A k \in 1..n : b[k] \in Block
    BY ElementOfSeq, LenProperties
<1>2. Calls(b) = s
    BY <1>1 DEF Calls
<1>3. ASSUME NEW k \in 1..n
      PROVE  (IF Kinds[b[k].item] = "call" THEN <<b[k].frags>> ELSE <<>>) \in Seq(Seq(Frag))
    <2>1. b[k].frags \in Seq(Frag)
        BY <1>1 DEF Block
    <2>2. \A f \in Seq(Frag) : <<f>> \in Seq(Seq(Frag))
        OBVIOUS
    <2>3. QED
        BY <2>1, <2>2, EmptySeq
<1> HIDE DEF n
<1>4. s \in Seq(Seq(Seq(Frag))) /\ Len(s) = n
    BY <1>1, <1>3
<1>5. QED
    BY <1>2, <1>4 DEF n

(* A new block adds its call, if it is one. *)
LEMMA CallsAdds ==
    ASSUME NEW b, NEW e, b \in Seq(Block), e \in Block
    PROVE  Joined(Calls(Append(b, e)))
               = Joined(Calls(b)) \o (IF Kinds[e.item] = "call" THEN <<e.frags>> ELSE <<>>)
<1> DEFINE c == Append(b, e)
           n == Len(b)
           p == Calls(b)
           q == Calls(c)
<1>1. /\ n \in Nat /\ c \in Seq(Block) /\ Len(c) = n + 1 /\ c[n + 1] = e
      /\ \A k \in 1..n : c[k] = b[k]
    BY AppendProperties, LenProperties
<1> HIDE DEF c
<1>2. /\ p \in Seq(Seq(Seq(Frag))) /\ Len(p) = n
      /\ \A k \in 1..n : p[k] = IF Kinds[b[k].item] = "call" THEN <<b[k].frags>> ELSE <<>>
    BY CallsKnown
<1>3. /\ q \in Seq(Seq(Seq(Frag))) /\ Len(q) = n + 1
      /\ \A k \in 1..n + 1 : q[k] = IF Kinds[c[k].item] = "call" THEN <<c[k].frags>> ELSE <<>>
    BY <1>1, CallsKnown
<1> HIDE DEF n, p, q
<1> DEFINE v == IF Kinds[e.item] = "call" THEN <<e.frags>> ELSE <<>>
           r == Append(p, v)
<1>4. v \in Seq(Seq(Frag)) /\ q[n + 1] = v
    <2>1. q[n + 1] = v /\ n + 1 \in 1..Len(q)
        BY <1>1, <1>3
    <2>2. QED
        BY <1>3, <2>1, ElementOfSeq
<1> HIDE DEF v
<1>5. /\ r \in Seq(Seq(Seq(Frag))) /\ Len(r) = n + 1 /\ r[n + 1] = v
      /\ \A k \in 1..n : r[k] = p[k]
    BY <1>2, <1>4, AppendProperties
<1>6. Joined(r) = Joined(p) \o v
    BY <1>2, <1>4, JoinedStep
<1> HIDE DEF r
<1>7. ASSUME NEW k \in 1..n + 1 PROVE r[k] = q[k]
    <2>1. CASE k \in 1..n
        <3>1. c[k] = b[k]
            BY <1>1, <2>1
        <3>2. q[k] = IF Kinds[b[k].item] = "call" THEN <<b[k].frags>> ELSE <<>>
            BY <1>3, <3>1
        <3>3. p[k] = IF Kinds[b[k].item] = "call" THEN <<b[k].frags>> ELSE <<>>
            BY <1>2, <2>1
        <3>4. QED
            BY <1>5, <2>1, <3>2, <3>3
    <2>2. CASE k = n + 1
        BY <1>4, <1>5, <2>2
    <2>3. QED
        BY <1>1, <2>1, <2>2
<1>8. r = q
    BY <1>3, <1>5, <1>7, SeqEqual
<1>9. QED
    BY <1>6, <1>8 DEF q, c, p, v

(* The calls sent, item by item. *)
LEMMA CallsSentKnown ==
    ASSUME NEW em, em \in Progress
    PROVE  /\ \A i \in Items : CallsSent(em)[i] = IF Kinds[i] = "call" /\ em[i] > 0 THEN <<Piece(i, 0, Frags)>> ELSE <<>>
           /\ \A i \in Items : <<Piece(i, 0, Frags)>> \in Seq(Seq(Frag))
           /\ AreParts(CallsSent(em), Len(Kinds), Seq(Frag))
<1>1. \A i \in Items : CallsSent(em)[i] = IF Kinds[i] = "call" /\ em[i] > 0 THEN <<Piece(i, 0, Frags)>> ELSE <<>>
    BY DEF CallsSent
<1>2. \A i \in Items : <<Piece(i, 0, Frags)>> \in Seq(Seq(Frag))
    <2> SUFFICES ASSUME NEW i \in Items PROVE <<Piece(i, 0, Frags)>> \in Seq(Seq(Frag))
        OBVIOUS
    <2>1. 0 \in 0..Frags /\ Frags \in 0..Frags /\ 0 <= Frags
        BY ItemsAre
    <2>2. Piece(i, 0, Frags) \in Seq(Frag)
        BY <2>1, Pieces
    <2>3. \A f \in Seq(Frag) : <<f>> \in Seq(Seq(Frag))
        OBVIOUS
    <2>4. QED
        BY <2>2, <2>3
<1>3. AreParts(CallsSent(em), Len(Kinds), Seq(Frag))
    <2>1. <<>> \in Seq(Seq(Frag))
        BY EmptySeq
    <2>2. \A i \in Items : CallsSent(em)[i] \in Seq(Seq(Frag))
        BY <1>1, <1>2, <2>1
    <2>3. QED
        BY <2>2, ItemsAre DEF AreParts
<1>4. QED
    BY <1>1, <1>2, <1>3

(* An event of the gemini wire adds its call to those that were sent. *)
LEMMA InTurnAdds ==
    ASSUME NEW em, NEW b, NEW i, NEW to,
           em \in Progress, InOrder("gemini", em), b \in Seq(Block), InTurn(em, b),
           i \in Items, Due("gemini", em, i), to \in 0..Frags, em[i] < to, Kinds[i] = "call" => to = Frags
    PROVE  InTurn(Ahead(em, i, to), Append(b, [item |-> i, frags |-> Piece(i, em[i], to)]))
<1> DEFINE fm == Ahead(em, i, to)
           e == [item |-> i, frags |-> Piece(i, em[i], to)]
           c == Append(b, e)
           g == CallsSent(em)
           h == CallsSent(fm)
           n == Len(Kinds)
<1>1. /\ fm \in Progress /\ fm[i] = to /\ \A j \in Items : j # i => fm[j] = em[j]
      /\ \A j \in Items : em[j] \in 0..Frags
    BY DEF Progress, Ahead
<1>2. em[i] < Frags /\ em[i] \in 0..Frags /\ em[i] <= to /\ to > 0
    BY <1>1, ItemsAre DEF Due
<1>3. e \in Block /\ e.item = i /\ e.frags = Piece(i, em[i], to)
    <2>1. Piece(i, em[i], to) \in Seq(Frag)
        BY <1>2, Pieces
    <2>2. QED
        BY <2>1 DEF Block
<1> HIDE DEF fm, e
<1>4. Joined(Calls(c)) = Cat(g, n) \o (IF Kinds[i] = "call" THEN <<Piece(i, em[i], to)>> ELSE <<>>)
    BY <1>3, CallsAdds DEF InTurn
<1>5. \A j \in Items : Kinds[j] = "call" => fm[j] \in {0, Frags}
    BY <1>1 DEF InTurn
<1>6. /\ \A j \in Items : g[j] = IF Kinds[j] = "call" /\ em[j] > 0 THEN <<Piece(j, 0, Frags)>> ELSE <<>>
      /\ \A j \in Items : h[j] = IF Kinds[j] = "call" /\ fm[j] > 0 THEN <<Piece(j, 0, Frags)>> ELSE <<>>
      /\ AreParts(g, n, Seq(Frag)) /\ n \in Nat /\ Items = 1..n
      /\ <<Piece(i, 0, Frags)>> \in Seq(Seq(Frag))
    BY <1>1, CallsSentKnown, ItemsAre
<1>7. Cat(g, n) \in Seq(Seq(Frag))
    <2>1. n <= n /\ \A k \in 1..n : g[k] \in Seq(Seq(Frag))
        BY <1>6 DEF AreParts
    <2>2. QED
        BY <1>6, <2>1, CatType
<1> HIDE DEF g, h, n, c
<1>8. CASE Kinds[i] = "call"
    <2>1. em[i] = 0 /\ to = Frags
        BY <1>2, <1>8 DEF InTurn
    <2>2. g[i] = <<>> /\ h[i] = <<Piece(i, 0, Frags)>>
        <3>1. g[i] = IF em[i] > 0 THEN <<Piece(i, 0, Frags)>> ELSE <<>>
            BY <1>6, <1>8
        <3>2. h[i] = IF fm[i] > 0 THEN <<Piece(i, 0, Frags)>> ELSE <<>>
            BY <1>6, <1>8
        <3>3. ~(em[i] > 0) /\ fm[i] > 0
            BY <1>1, <1>2, <2>1
        <3>4. QED
            BY <3>1, <3>2, <3>3
    <2>3. h[i] = g[i] \o <<Piece(i, 0, Frags)>>
        BY <1>6, <2>2, ConcatEmptySeq
    <2>4. \A j \in 1..n : j # i => h[j] = g[j]
        BY <1>1, <1>6
    <2>5. ASSUME NEW j \in 1..n, j > i PROVE g[j] = <<>>
        <3>1. ~Indexed("gemini", i, j)
            BY DEF Indexed
        <3>2. ~(em[j] > 0)
            BY <1>2, <1>6, <2>5, <3>1, ItemsAre DEF InOrder
        <3>3. QED
            BY <1>6, <3>2
    <2>6. PartGrows(g, h, n, i, <<Piece(i, 0, Frags)>>)
        BY <2>3, <2>4, <2>5 DEF PartGrows
    <2>7. Cat(h, n) = Cat(g, n) \o <<Piece(i, 0, Frags)>>
        <3> DEFINE x == <<Piece(i, 0, Frags)>>
        <3>1. x \in Seq(Seq(Frag)) /\ i \in 1..n /\ PartGrows(g, h, n, i, x)
            BY <1>6, <2>6
        <3> HIDE DEF x
        <3>2. Cat(h, n) = Cat(g, n) \o x
            BY <1>6, <3>1, CatGrows
        <3>3. QED
            BY <3>2 DEF x
    <2>8. Joined(Calls(c)) = Cat(h, n)
        BY <1>4, <1>8, <2>1, <2>7
    <2>9. QED
        BY <1>5, <2>8 DEF InTurn, fm, c, h, n, e
<1>9. CASE Kinds[i] # "call"
    <2>1. \A j \in 1..n : h[j] = g[j]
        BY <1>1, <1>6, <1>9
    <2>2. Cat(h, n) = Cat(g, n)
        BY <1>6, <2>1, CatSame
    <2>3. Joined(Calls(c)) = Cat(h, n)
        BY <1>4, <1>7, <1>9, <2>2, ConcatEmptySeq
    <2>4. QED
        BY <1>5, <2>3 DEF InTurn, fm, c, h, n, e
<1>10. QED
    BY <1>8, <1>9

(* When all was sent, the calls are those of the whole answer. *)
LEMMA InTurnIsWhole ==
    ASSUME NEW em, NEW b, em \in Progress, InTurn(em, b), \A i \in Items : em[i] = Frags
    PROVE  Joined(Calls(b)) = Joined(Calls(Whole))
<1>1. /\ Items = 1..Len(Kinds) /\ Frags > 0
      /\ \A i \in Items : CallsSent(em)[i] = IF Kinds[i] = "call" /\ em[i] > 0 THEN <<Piece(i, 0, Frags)>> ELSE <<>>
    BY CallsSentKnown, ItemsAre
<1>2. \A i \in Items : Whole[i].item = i /\ Whole[i].frags = Piece(i, 0, Frags)
    BY DEF Whole, Piece
<1>3. DOMAIN Whole = Items
    BY DEF Whole
<1>4. Calls(Whole) = [i \in Items |-> IF Kinds[i] = "call" THEN <<Piece(i, 0, Frags)>> ELSE <<>>]
    BY <1>2, <1>3 DEF Calls
<1>5. \A i \in Items : CallsSent(em)[i] = IF Kinds[i] = "call" THEN <<Piece(i, 0, Frags)>> ELSE <<>>
    BY <1>1
<1>6. Calls(Whole) = [i \in 1..Len(Kinds) |-> CallsSent(em)[i]]
    BY <1>1, <1>4, <1>5
<1>7. QED
    BY <1>6 DEF InTurn, Cat

-----------------------------------------------------------------------------
(* What the client has put together is what was sent so far. *)
Assembled(w, em, b) ==
    /\ b \in Seq(Block)
    /\ \A kind \in {"text", "thought"} : Made(b, kind) = Made(Sent(em), kind)
    /\ w # "gemini" => OneEach(w, em, b)
    /\ w = "gemini" => InTurn(em, b)

Sends(w, em, e, i, to) ==
    /\ i \in Items /\ to \in 0..Frags /\ Due(w, em, i) /\ em[i] < to /\ em[i] <= to
    /\ w = "gemini" /\ Kinds[i] = "call" => to = Frags
    /\ e.item = i /\ e.frags = Piece(i, em[i], to)

After(em, e) == [em EXCEPT ![e.item] = @ + Len(e.frags)]

(* The next event brings the next piece of an item that is due. *)
LEMMA NextIsDue ==
    ASSUME NEW w, NEW em, NEW e, em \in Progress, e \in NextEvents(w, em)
    PROVE  \E i, to : Sends(w, em, e, i, to) /\ After(em, e) = Ahead(em, i, to)
<1>1. PICK i \in Current(w, em) :
          e = EventOf(i, em[i], IF w = "gemini" /\ Kinds[i] = "call" THEN Frags ELSE em[i] + 1)
    BY DEF NextEvents
<1> DEFINE to == IF w = "gemini" /\ Kinds[i] = "call" THEN Frags ELSE em[i] + 1
<1>2. i \in Items /\ em[i] < Frags /\ em[i] \in 0..Frags
    BY DEF Current, Unsent, Progress
<1>3. Due(w, em, i)
    BY <1>2 DEF Due, Current, Unsent
<1>4. to \in 0..Frags /\ em[i] < to /\ em[i] <= to
    BY <1>2, ItemsAre
<1>5. e = EventOf(i, em[i], to)
    BY <1>1
<1> HIDE DEF to
<1>6. e.item = i /\ e.frags = Piece(i, em[i], to)
    BY <1>5 DEF Piece, EventOf
<1>7. Len(e.frags) = to - em[i]
    BY <1>2, <1>4, <1>6, Pieces
<1>8. em[i] + Len(e.frags) = to
    BY <1>2, <1>4, <1>7, ItemsAre
<1>9. After(em, e) = Ahead(em, i, to)
    BY <1>2, <1>6, <1>8 DEF Ahead, After
<1>10. w = "gemini" /\ Kinds[i] = "call" => to = Frags
    BY DEF to
<1>11. QED
    BY <1>2, <1>3, <1>4, <1>6, <1>9, <1>10 DEF Sends

(* What was put together takes the piece at the end of its kind, wherever   *)
(* its block is.                                                            *)
LEMMA BlocksGrow ==
    ASSUME NEW w, NEW em, NEW b, NEW e, NEW i, NEW to,
           w \in Wires, em \in Progress, InOrder(w, em), Assembled(w, em, b), Sends(w, em, e, i, to)
    PROVE  /\ Apply(w, b, e) \in Seq(Block)
           /\ w # "gemini" => OneEach(w, Ahead(em, i, to), Apply(w, b, e))
           /\ w = "gemini" => InTurn(Ahead(em, i, to), Apply(w, b, e))
           /\ \A kind \in {"text", "thought"} :
                 /\ Kinds[i] = kind => Made(Apply(w, b, e), kind) = Made(b, kind) \o e.frags
                 /\ Kinds[i] # kind => Made(Apply(w, b, e), kind) = Made(b, kind)
<1>0. /\ i \in Items /\ to \in 0..Frags /\ Due(w, em, i) /\ em[i] < to /\ em[i] <= to
      /\ w = "gemini" /\ Kinds[i] = "call" => to = Frags
      /\ e.item = i /\ e.frags = Piece(i, em[i], to)
    BY DEF Sends
<1> DEFINE x == e.frags
           d == [item |-> i, frags |-> x]
           Kept(c) == \A kind \in {"text", "thought"} :
                         /\ Kinds[i] = kind => Made(c, kind) = Made(b, kind) \o x
                         /\ Kinds[i] # kind => Made(c, kind) = Made(b, kind)
<1>1. b \in Seq(Block) /\ DOMAIN b = 1..Len(b) /\ Len(b) \in Nat
    BY LenProperties DEF Assembled
<1>2. x \in Seq(Frag) /\ x = Piece(i, em[i], to)
    <2>1. em[i] \in 0..Frags
        BY <1>0 DEF Progress
    <2>2. QED
        BY <1>0, <2>1, Pieces
<1>3. d \in Block /\ d.item = i /\ d.frags = x /\ NewBlock(e) = d
    BY <1>0, <1>2 DEF Block, NewBlock
<1> HIDE DEF x, d
<1>4. Append(b, d) \in Seq(Block) /\ Kept(Append(b, d))
    <2>1. Append(b, d) \in Seq(Block)
        BY <1>1, <1>3, AppendProperties
    <2>2. \A kind : Made(b, kind) \in Seq(Frag)
        BY <1>1, PartsKnown
    <2>3. \A kind : Made(Append(b, d), kind) = Made(b, kind) \o (IF Kinds[i] = kind THEN x ELSE <<>>)
        BY <1>1, <1>3, MadeAdds
    <2>4. \A kind : Kinds[i] # kind => Made(Append(b, d), kind) = Made(b, kind)
        BY <2>2, <2>3, ConcatEmptySeq
    <2>5. QED
        BY <2>1, <2>3, <2>4
<1>5. CASE w = "gemini"
    <2>1. Apply(w, b, e) = Append(b, d)
        BY <1>3, <1>5 DEF Apply
    <2>2. InTurn(em, b)
        BY <1>5 DEF Assembled
    <2>3. d = [item |-> i, frags |-> Piece(i, em[i], to)]
        BY <1>2 DEF d
    <2>4. InTurn(Ahead(em, i, to), Append(b, d))
        BY <1>0, <1>1, <1>5, <2>2, <2>3, InTurnAdds
    <2>5. QED
        BY <1>4, <1>5, <2>1, <2>4 DEF x
<1>6. CASE w # "gemini" /\ \A k \in 1..Len(b) : b[k].item # i
    <2>1. Apply(w, b, e) = Append(b, d)
        <3>1. Opened(b, e) = {}
            BY <1>0, <1>1, <1>6 DEF Opened
        <3>2. QED
            BY <1>3, <1>6, <3>1 DEF Apply, Merge
    <2>2. OneEach(w, em, b) /\ w \in {"openai", "anthropic"}
        BY <1>6 DEF Assembled, Wires
    <2>3. d = [item |-> i, frags |-> Piece(i, em[i], to)]
        BY <1>2 DEF d
    <2>4. OneEach(w, Ahead(em, i, to), Append(b, d))
        BY <1>0, <1>1, <1>6, <2>2, <2>3, OneEachAdds
    <2>5. QED
        BY <1>4, <1>6, <2>1, <2>4 DEF x
<1>7. CASE w # "gemini" /\ \E k \in 1..Len(b) : b[k].item = i
    <2>1. PICK k \in 1..Len(b) : b[k].item = i
        BY <1>7
    <2>2. OneEach(w, em, b)
        BY <1>7 DEF Assembled
    <2>3. \A l \in 1..Len(b) : b[l].item = e.item => l = k
        BY <1>0, <2>1, <2>2 DEF OneEach
    <2> DEFINE c == Apply(w, b, e)
    <2>4. c = Merge(b, e)
        BY <1>7 DEF Apply
    <2>5. Grown(c, b, k, x)
        BY <1>0, <1>1, <1>2, <2>1, <2>3, <2>4, MergeGrows DEF x
    <2> HIDE DEF c
    <2>6. c \in Seq(Block)
        BY <2>5 DEF Grown
    <2>7. OneEach(w, Ahead(em, i, to), c)
        BY <1>0, <1>1, <1>2, <2>1, <2>2, <2>5, OneEachGrows
    <2>8. ASSUME NEW kind, kind # "call" PROVE NothingAfter(b, k, kind)
        <3> SUFFICES ASSUME NEW l \in 1..Len(b), l > k, Kinds[b[k].item] = kind, Kinds[b[l].item] = kind
                     PROVE  FALSE
            BY DEF NothingAfter
        <3>1. b[l].item \in Items /\ em[b[l].item] > 0 /\ k < l
            BY <1>1, <2>2 DEF OneEach
        <3>2. ~Indexed(w, b[k].item, b[l].item)
            BY <2>8 DEF Indexed
        <3>3. b[k].item < b[l].item
            BY <2>2, <3>1, <3>2 DEF OneEach
        <3>4. em[i] = Frags
            <4>1. i \in Items /\ i < b[l].item /\ ~Indexed(w, i, b[l].item)
                BY <1>0, <2>1, <3>2, <3>3
            <4>2. QED
                BY <3>1, <4>1 DEF InOrder
        <3>5. QED
            BY <1>0, <3>4, ItemsAre DEF Due
    <2>9. Kept(c)
        <3> SUFFICES ASSUME NEW kind \in {"text", "thought"}
                     PROVE  /\ Kinds[i] = kind => Made(c, kind) = Made(b, kind) \o x
                            /\ Kinds[i] # kind => Made(c, kind) = Made(b, kind)
            OBVIOUS
        <3>1. NothingAfter(b, k, kind)
            BY <2>8
        <3>2. QED
            <4>1. b \in Seq(Block) /\ k \in 1..Len(b) /\ x \in Seq(Frag)
                BY <1>1, <1>2
            <4>2. /\ Kinds[b[k].item] = kind => Made(c, kind) = Made(b, kind) \o x
                  /\ Kinds[b[k].item] # kind => Made(c, kind) = Made(b, kind)
                BY <2>5, <3>1, <4>1, MadeGrows
            <4>3. QED
                BY <2>1, <4>2
    <2>10. QED
        BY <1>7, <2>6, <2>7, <2>9 DEF x, c
<1>8. QED
    BY <1>5, <1>6, <1>7

(* After an event, what was put together is again what was sent. *)
LEMMA EventAssembles ==
    ASSUME NEW w, NEW em, NEW b, NEW e,
           w \in Wires, em \in Progress, InOrder(w, em), Assembled(w, em, b), e \in NextEvents(w, em)
    PROVE  /\ After(em, e) \in Progress /\ InOrder(w, After(em, e))
           /\ Assembled(w, After(em, e), Apply(w, b, e))
           /\ e.item \in Unsent(em)
           /\ Kinds[e.item] = "text" => Made(Sent(After(em, e)), "text") = Made(Sent(em), "text") \o e.frags
           /\ Kinds[e.item] # "text" => Made(Sent(After(em, e)), "text") = Made(Sent(em), "text")
<1>1. PICK i, to : Sends(w, em, e, i, to) /\ After(em, e) = Ahead(em, i, to)
    BY NextIsDue
<1> DEFINE fm == Ahead(em, i, to)
<1>2. /\ i \in Items /\ to \in 0..Frags /\ Due(w, em, i) /\ em[i] <= to
      /\ e.item = i /\ e.frags = Piece(i, em[i], to)
    BY <1>1 DEF Sends
<1>3. fm \in Progress
    BY <1>1, <1>2, SentGrows
<1>4. InOrder(w, fm)
    BY <1>2, OrderKept
<1>5. \A kind \in {"text", "thought"} :
         /\ Kinds[i] = kind => Made(Sent(fm), kind) = Made(Sent(em), kind) \o e.frags
         /\ Kinds[i] # kind => Made(Sent(fm), kind) = Made(Sent(em), kind)
    <2> TAKE kind \in {"text", "thought"}
    <2>1. kind # "call"
        OBVIOUS
    <2>2. QED
        BY <1>1, <1>2, <2>1, SentMadeGrows
<1>6. /\ Apply(w, b, e) \in Seq(Block)
      /\ w # "gemini" => OneEach(w, fm, Apply(w, b, e))
      /\ w = "gemini" => InTurn(fm, Apply(w, b, e))
      /\ \A kind \in {"text", "thought"} :
            /\ Kinds[i] = kind => Made(Apply(w, b, e), kind) = Made(b, kind) \o e.frags
            /\ Kinds[i] # kind => Made(Apply(w, b, e), kind) = Made(b, kind)
    BY <1>1, BlocksGrow
<1>7. \A kind \in {"text", "thought"} : Made(Apply(w, b, e), kind) = Made(Sent(fm), kind)
    BY <1>5, <1>6 DEF Assembled
<1>8. Assembled(w, fm, Apply(w, b, e))
    BY <1>6, <1>7 DEF Assembled
<1>9. i \in Unsent(em)
    BY <1>2 DEF Due, Unsent
<1>10. QED
    BY <1>1, <1>2, <1>3, <1>4, <1>5, <1>8, <1>9

-----------------------------------------------------------------------------
Nothing == [i \in Items |-> 0]

(* Before the first event, nothing is what was sent. *)
LEMMA NothingSent ==
    ASSUME NEW w
    PROVE  /\ Nothing \in Progress /\ InOrder(w, Nothing) /\ Assembled(w, Nothing, <<>>)
           /\ Made(Sent(Nothing), "text") = <<>>
<1>1. Nothing \in Progress /\ \A i \in Items : Nothing[i] = 0
    BY ItemsAre DEF Nothing, Progress
<1>2. InOrder(w, Nothing)
    BY <1>1 DEF InOrder
<1>3. <<>> \in Seq(Block) /\ Len(<<>>) = 0 /\ DOMAIN <<>> = {} /\ 1..0 = {}
    BY EmptySeq
<1>4. \A kind : Made(<<>>, kind) = <<>>
    <2> SUFFICES ASSUME NEW kind PROVE Made(<<>>, kind) = <<>>
        OBVIOUS
    <2>1. Parts(<<>>, kind) = <<>>
        BY <1>3 DEF Parts
    <2>2. QED
        BY <2>1, JoinedStep DEF Made
<1>5. \A kind : Made(Sent(Nothing), kind) = <<>>
    <2> SUFFICES ASSUME NEW kind PROVE Made(Sent(Nothing), kind) = <<>>
        OBVIOUS
    <2> DEFINE s == Sent(Nothing)
               g == Parts(s, kind)
               n == Len(Kinds)
    <2>1. /\ s \in Seq(Block) /\ Len(s) = n
          /\ \A i \in Items : s[i].frags = Piece(i, 0, Nothing[i])
        BY <1>1, SentKnown
    <2>2. \A i \in Items : s[i].frags = <<>>
        BY <1>1, <2>1, NoPiece
    <2>3. n \in Nat /\ Items = 1..n
        BY ItemsAre
    <2> HIDE DEF s
    <2>4. /\ Made(s, kind) = Cat(g, n)
          /\ \A k \in 1..n : g[k] = IF Kinds[s[k].item] = kind THEN s[k].frags ELSE <<>>
        BY <2>1, PartsKnown
    <2> HIDE DEF n, g
    <2>5. \A k \in 1..n : g[k] = <<>>
        BY <2>2, <2>3, <2>4
    <2>6. Cat(g, n) = <<>>
        BY <2>3, <2>5, CatEmpty
    <2>7. QED
        BY <2>4, <2>6 DEF s
<1>6. OneEach(w, Nothing, <<>>)
    BY <1>1, <1>3 DEF OneEach
<1>7. InTurn(Nothing, <<>>)
    <2> DEFINE g == CallsSent(Nothing)
               n == Len(Kinds)
    <2>1. Calls(<<>>) = <<>>
        BY <1>3 DEF Calls
    <2>2. n \in Nat /\ Items = 1..n
        BY ItemsAre
    <2>3. \A i \in Items : g[i] = <<>>
        <3>1. \A i \in Items : g[i] = IF Kinds[i] = "call" /\ Nothing[i] > 0 THEN <<Piece(i, 0, Frags)>> ELSE <<>>
            BY <1>1, CallsSentKnown
        <3> HIDE DEF g
        <3>2. \A i \in Items : ~(Nothing[i] > 0)
            BY <1>1
        <3>3. QED
            BY <3>1, <3>2
    <2> HIDE DEF g, n
    <2>4. Cat(g, n) = <<>>
        BY <2>2, <2>3, CatEmpty
    <2>5. Joined(Calls(<<>>)) = Cat(g, n)
        BY <2>1, <2>4, JoinedStep
    <2>6. QED
        BY <1>1, <2>5 DEF InTurn, g, n
<1>8. Assembled(w, Nothing, <<>>)
    BY <1>3, <1>4, <1>5, <1>6, <1>7 DEF Assembled
<1>9. QED
    BY <1>1, <1>2, <1>5, <1>8

(* When no item is left to send, the whole was sent. *)
LEMMA AllIsSent ==
    ASSUME NEW em, em \in Progress, Unsent(em) = {}
    PROVE  Sent(em) = Whole /\ \A i \in Items : em[i] = Frags
<1>1. \A i \in Items : em[i] = Frags
    <2>1. \A i \in Items : ~(em[i] < Frags)
        BY DEF Unsent
    <2>2. QED
        BY <2>1, ItemsAre DEF Progress
<1>2. Sent(em) = Whole
    BY <1>1 DEF Sent, Whole, Piece
<1>3. QED
    BY <1>1, <1>2

(* A body in one piece fills its slots. *)
LEMMA WholeInSlots == ASSUME NEW w PROVE InSlots(w, Whole) = Whole
<1>1. DOMAIN Whole = Items /\ \A i \in Items : Whole[i].item = i
    BY DEF Whole
<1>2. ASSUME NEW i \in Items PROVE BlockOf(Whole, i) = Whole[i]
    <2> DEFINE k == CHOOSE j \in DOMAIN Whole : Whole[j].item = i
    <2>1. k \in DOMAIN Whole /\ Whole[k].item = i
        BY <1>1
    <2>2. BlockOf(Whole, i) = Whole[k]
        BY <2>1 DEF BlockOf
    <2> HIDE DEF k
    <2>3. k = i
        BY <1>1, <2>1
    <2>4. QED
        BY <2>2, <2>3
<1>3. [i \in Items |-> BlockOf(Whole, i)] = [i \in Items |-> Whole[i]]
    BY <1>2
<1>4. Whole = [i \in Items |-> Whole[i]]
    BY DEF Whole
<1>5. QED
    BY <1>3, <1>4 DEF InSlots

(* A stream that came to its end decodes to the answer in one piece. *)
LEMMA AssembledIsWhole ==
    ASSUME NEW w, NEW em, NEW b, w \in Wires, em \in Progress, Assembled(w, em, b), Unsent(em) = {}
    PROVE  Decode(w, b) = WholeAnswer(w)
<1>1. Sent(em) = Whole /\ \A i \in Items : em[i] = Frags
    BY AllIsSent
<1>2. b \in Seq(Block) /\ Made(b, "text") = Made(Whole, "text") /\ Made(b, "thought") = Made(Whole, "thought")
    BY <1>1 DEF Assembled
<1>3. Joined(Calls(InSlots(w, b))) = Joined(Calls(InSlots(w, Whole)))
    <2>1. CASE w = "gemini"
        <3>1. InSlots(w, b) = b /\ InTurn(em, b)
            BY <2>1 DEF InSlots, Assembled
        <3>2. QED
            BY <1>1, <3>1, InTurnIsWhole, WholeInSlots
    <2>2. CASE w # "gemini"
        <3>1. w \in {"openai", "anthropic"} /\ OneEach(w, em, b)
            BY <2>2 DEF Wires, Assembled
        <3>2. InSlots(w, b) = Whole
            BY <1>1, <1>2, <3>1, OneEachIsWhole
        <3>3. QED
            BY <3>2, WholeInSlots
    <2>3. QED
        BY <2>1, <2>2
<1>4. QED
    BY <1>2, <1>3 DEF Decode, WholeAnswer, Made

WholeText == Made(Whole, "text")

(* The text is the same on every wire. *)
LEMMA WholeTextTold ==
    /\ \A w : WholeAnswer(w).text = WholeText
    /\ WholeText \in Seq(Frag)
<1>1. \A w : WholeAnswer(w).text = WholeText
    BY DEF WholeAnswer, Decode, WholeText, Made
<1>2. Whole \in Seq(Block)
    BY WholeIsSent, SentKnown
<1>3. QED
    BY <1>1, <1>2, PartsKnown DEF WholeText

(* The text sent so far is a prefix of the whole. *)
LEMMA TextBegins ==
    ASSUME NEW w, NEW em, em \in Progress, InOrder(w, em)
    PROVE  Begins(Made(Sent(em), "text"), WholeText)
<1> DEFINE s == Sent(em)
           g == Parts(s, "text")
           h == Parts(Whole, "text")
           n == Len(Kinds)
<1>1. /\ s \in Seq(Block) /\ Len(s) = n
      /\ \A i \in Items : s[i].item = i /\ s[i].frags = Piece(i, 0, em[i])
    BY SentKnown
<1>2. /\ Whole \in Seq(Block) /\ Len(Whole) = n
      /\ \A i \in Items : Whole[i].item = i /\ Whole[i].frags = Piece(i, 0, Frags)
    BY WholeIsSent, SentKnown DEF Done
<1>3. n \in Nat /\ Items = 1..n /\ \A i \in Items : em[i] \in 0..Frags /\ em[i] <= Frags
    BY ItemsAre DEF Progress
<1> HIDE DEF s
<1>4. /\ Made(s, "text") = Cat(g, n)
      /\ \A k \in 1..n : g[k] \in Seq(Frag) /\ g[k] = IF Kinds[s[k].item] = "text" THEN s[k].frags ELSE <<>>
    BY <1>1, PartsKnown
<1>5. /\ Made(Whole, "text") = Cat(h, n)
      /\ \A k \in 1..n : h[k] \in Seq(Frag) /\ h[k] = IF Kinds[Whole[k].item] = "text" THEN Whole[k].frags ELSE <<>>
    BY <1>2, PartsKnown
<1> HIDE DEF g, h, n
<1>6. \A k \in 1..n : g[k] = IF Kinds[k] = "text" THEN Piece(k, 0, em[k]) ELSE <<>>
    BY <1>1, <1>3, <1>4
<1>7. \A k \in 1..n : h[k] = IF Kinds[k] = "text" THEN Piece(k, 0, Frags) ELSE <<>>
    BY <1>2, <1>3, <1>5
<1>8. ASSUME NEW k \in 1..n PROVE Begins(g[k], h[k])
    <2>1. CASE Kinds[k] = "text"
        <3> DEFINE x == Piece(k, 0, em[k])
                   y == Piece(k, em[k], Frags)
        <3>1. k \in Items /\ em[k] \in 0..Frags /\ Frags \in 0..Frags /\ em[k] <= Frags /\ 0 \in 0..Frags /\ 0 <= em[k]
            BY <1>3, ItemsAre
        <3>2. x \in Seq(Frag) /\ y \in Seq(Frag) /\ x \o y = Piece(k, 0, Frags)
            BY <3>1, Pieces
        <3> HIDE DEF x, y
        <3>3. Begins(x, x \o y)
            BY <3>2, BeginsAppend
        <3>4. QED
            BY <1>6, <1>7, <2>1, <3>2, <3>3 DEF x
    <2>2. CASE Kinds[k] # "text"
        <3>1. g[k] = <<>> /\ h[k] = <<>>
            BY <1>6, <1>7, <2>2
        <3>2. QED
            BY <3>1, EmptySeq, BeginsAppend
    <2>3. QED
        BY <2>1, <2>2
<1>9. ASSUME NEW k \in 1..n, NEW l \in 1..n, k < l, g[k] # h[k] PROVE g[l] = <<>>
    <2>1. Kinds[k] = "text" /\ em[k] # Frags
        BY <1>6, <1>7, <1>9
    <2>2. CASE Kinds[l] = "text"
        <3>1. ~Indexed(w, k, l)
            BY <2>1, <2>2 DEF Indexed
        <3>2. ~(em[l] > 0)
            BY <1>3, <1>9, <2>1, <3>1 DEF InOrder
        <3>3. em[l] = 0
            BY <1>3, <3>2, ItemsAre
        <3>4. QED
            BY <1>6, <2>2, <3>3, NoPiece
    <2>3. CASE Kinds[l] # "text"
        BY <1>6, <2>3
    <2>4. QED
        BY <2>2, <2>3
<1>10. Begins(Cat(g, n), Cat(h, n))
    <2>1. \A k \in 1..n : g[k] \in Seq(Frag) /\ h[k] \in Seq(Frag) /\ Begins(g[k], h[k])
        BY <1>4, <1>5, <1>8
    <2>2. \A k, l \in 1..n : k < l /\ g[k] # h[k] => g[l] = <<>>
        BY <1>9
    <2>3. QED
        BY <1>3, <2>1, <2>2, CatBegins
<1>11. QED
    BY <1>4, <1>5, <1>10 DEF s, WholeText

-----------------------------------------------------------------------------
(* What the sink was told is the text sent so far, until the answer is      *)
(* given; what was put together is what was sent; and the end is sent last. *)
Given ==
    /\ told = IF sink THEN WholeText ELSE <<>>
    /\ answer.text = WholeText
    /\ answer.thought = WholeAnswer(wire).thought /\ answer.calls = WholeAnswer(wire).calls
    /\ (answer.finish \in CutReasons) = Unfinished(reason)

SInv ==
    /\ wire \in Wires /\ sink \in BOOLEAN /\ tail \in Nat /\ emitted \in Progress
    /\ InOrder(wire, emitted) /\ Assembled(wire, emitted, blocks)
    /\ tail > 0 => Unsent(emitted) = {}
    /\ pc \in {"send", "backoff"} => emitted = Nothing /\ blocks = <<>> /\ tail = 0
    /\ "stream" \in carries \/ pc = "stream" => sink
    /\ pc # "answered" => told = Made(Sent(emitted), "text")
    /\ pc = "answered" => Given

(* A call begins with nothing sent and nothing told. *)
LEMMA InitSInv == Init => SInv
<1> SUFFICES ASSUME Init PROVE SInv
    OBVIOUS
<1>1. wire \in Wires /\ sink \in BOOLEAN /\ tail = 0 /\ emitted = Nothing /\ blocks = <<>> /\ told = <<>> /\ pc = "send"
    BY DEF Init, Nothing
<1>2. "stream" \in carries => sink
    BY DEF Init, Stripped
<1>3. /\ Nothing \in Progress /\ InOrder(wire, Nothing) /\ Assembled(wire, Nothing, <<>>)
      /\ Made(Sent(Nothing), "text") = <<>>
    BY NothingSent
<1>4. QED
    BY <1>1, <1>2, <1>3 DEF SInv

(* An answer that was broken off says so in the words of the openai wire    *)
(* (MapStopReason, MapGeminiFinishReason).                                  *)
LEMMA FinishTold ==
    ASSUME wire \in Wires, NEW r \in Reasons(wire), Finish(wire, r) # "failure"
    PROVE  (Finish(wire, r) \in CutReasons) = Unfinished(r)
<1>1. CASE wire = "openai"
    BY <1>1 DEF Reasons, Finish, CutReasons, Unfinished
<1>2. CASE wire = "anthropic"
    BY <1>2 DEF Reasons, Finish, CutReasons, Unfinished, MapStopReason
<1>3. CASE wire = "gemini"
    <2>1. r \in {"STOP", "", "MAX_TOKENS", "SAFETY", "RECITATION"}
        BY <1>3 DEF Reasons, Finish, MapGeminiFinishReason
    <2>2. Finish(wire, r) = MapGeminiFinishReason(r)
        BY <1>3 DEF Finish
    <2>3. CASE r \in {"STOP", ""}
        <3>1. Finish(wire, r) \in {"stop", ""}
            BY <2>2, <2>3 DEF MapGeminiFinishReason
        <3>2. Finish(wire, r) \notin CutReasons /\ ~Unfinished(r)
            BY <2>3, <3>1 DEF CutReasons, Unfinished
        <3>3. QED
            BY <3>2 DEF Unfinished
    <2>4. CASE r \in {"MAX_TOKENS", "SAFETY", "RECITATION"}
        <3>1. Finish(wire, r) \in {"length", "content_filter"}
            BY <2>2, <2>4 DEF MapGeminiFinishReason
        <3>2. Finish(wire, r) \in CutReasons /\ Unfinished(r)
            BY <2>4, <3>1 DEF CutReasons, Unfinished
        <3>3. QED
            BY <3>2 DEF Unfinished
    <2>5. QED
        BY <2>1, <2>3, <2>4
<1>4. QED
    BY <1>1, <1>2, <1>3 DEF Wires

(* An answer is given as it was read, or refused for its reason. *)
LEMMA AnsweredGives ==
    ASSUME wire \in Wires, NEW r \in Reasons(wire), NEW d, d = WholeAnswer(wire), Answered(d, r)
    PROVE  /\ carries' = carries
           /\ pc' \in {"failed", "answered"}
           /\ pc' = "answered" =>
                 /\ answer'.text = WholeText /\ answer'.thought = WholeAnswer(wire).thought
                 /\ answer'.calls = WholeAnswer(wire).calls
                 /\ (answer'.finish \in CutReasons) = Unfinished(reason')
<1>1. CASE Finish(wire, r) = "failure"
    BY <1>1 DEF Answered, Fail, body
<1>2. CASE Finish(wire, r) # "failure"
    <2>1. /\ reason' = r /\ carries' = carries /\ pc' = "answered"
          /\ answer' = [text |-> d.text, thought |-> d.thought, calls |-> d.calls, finish |-> Finish(wire, r)]
        BY <1>2 DEF Answered, body
    <2>2. (Finish(wire, r) \in CutReasons) = Unfinished(r)
        BY <1>2, FinishTold
    <2>3. d.text = WholeText
        BY WholeTextTold
    <2>4. /\ answer'.text = d.text /\ answer'.thought = d.thought /\ answer'.calls = d.calls
          /\ answer'.finish = Finish(wire, r)
        BY <2>1
    <2>5. QED
        BY <2>1, <2>2, <2>3, <2>4
<1>3. QED
    BY <1>1, <1>2

(* Every step of a call keeps it. *)
LEMMA NextSInv == SInv /\ [Next \/ Stopped]_vars => SInv'
<1> SUFFICES ASSUME SInv, [Next \/ Stopped]_vars PROVE SInv'
    OBVIOUS
<1> DEFINE Same == UNCHANGED <<wire, sink, emitted, tail, blocks, told>>
<1>s. /\ wire \in Wires /\ sink \in BOOLEAN /\ tail \in Nat /\ emitted \in Progress
      /\ InOrder(wire, emitted) /\ Assembled(wire, emitted, blocks)
      /\ tail > 0 => Unsent(emitted) = {}
      /\ pc \in {"send", "backoff"} => emitted = Nothing /\ blocks = <<>> /\ tail = 0
      /\ "stream" \in carries \/ pc = "stream" => sink
      /\ pc # "answered" => told = Made(Sent(emitted), "text")
    BY DEF SInv
<1>k. ASSUME Same, pc # "answered", pc' # "answered",
             pc' \in {"send", "backoff"} => pc \in {"send", "backoff"},
             "stream" \in carries' \/ pc' = "stream" => sink
      PROVE  SInv'
    BY <1>s, <1>k DEF SInv
<1>1. CASE Refused
    <2>1. Same /\ pc = "send"
        BY <1>1 DEF Refused, asked, stream
    <2>2. (pc' = "failed" /\ carries' = carries) \/ (pc' = pc /\ carries' \subseteq carries)
        BY <1>1 DEF Refused, Fail, Strip, body
    <2>3. QED
        BY <1>s, <1>k, <2>1, <2>2
<1>2. CASE Final
    BY <1>2, <1>s, <1>k DEF Final, Fail, asked, stream, body
<1>3. CASE Transient
    <2>1. /\ pc = "send" /\ pc' \in {"backoff", "failed"} /\ UNCHANGED <<wire, sink, carries, told>>
          /\ emitted' = Nothing /\ tail' = 0 /\ blocks' = <<>>
        BY <1>3 DEF Transient, Retry, asked, body, Nothing
    <2>2. Same
        BY <1>s, <2>1
    <2>3. QED
        BY <1>s, <1>k, <2>1, <2>2
<1>4. CASE NextAttempt
    BY <1>4, <1>s, <1>k DEF NextAttempt, asked, stream, body
<1>5. CASE WholeBody
    <2>1. PICK r \in Reasons(wire) :
             /\ Answered(WholeAnswer(wire), r)
             /\ told' = IF sink /\ pc' = "answered" THEN told \o WholeAnswer(wire).text ELSE told
        BY <1>5 DEF WholeBody
    <2>2. UNCHANGED <<wire, sink, emitted, tail, blocks>> /\ pc = "send"
        BY <1>5 DEF WholeBody, asked, stream
    <2>3. /\ carries' = carries
          /\ pc' \in {"failed", "answered"}
          /\ pc' = "answered" =>
                 /\ answer'.text = WholeText /\ answer'.thought = WholeAnswer(wire).thought
                 /\ answer'.calls = WholeAnswer(wire).calls
                 /\ (answer'.finish \in CutReasons) = Unfinished(reason')
        BY <1>s, <2>1, AnsweredGives
    <2>4. told = <<>>
        BY <1>s, <2>2, NothingSent
    <2>5. <<>> \o WholeText = WholeText
        BY WholeTextTold, ConcatEmptySeq
    <2>6. told' = IF sink /\ pc' = "answered" THEN WholeText ELSE <<>>
        BY <2>1, <2>4, <2>5, WholeTextTold
    <2>7. CASE pc' = "failed"
        <3>1. Same
            BY <2>2, <2>4, <2>6, <2>7
        <3>2. QED
            BY <1>s, <1>k, <2>2, <2>3, <2>7, <3>1
    <2>8. CASE pc' = "answered"
        <3>1. Given'
            BY <2>2, <2>3, <2>6, <2>8 DEF Given
        <3>2. QED
            BY <1>s, <2>2, <2>3, <2>8, <3>1 DEF SInv
    <2>9. QED
        BY <2>3, <2>7, <2>8
<1>6. CASE OpenStream
    BY <1>6, <1>s, <1>k DEF OpenStream, asked, stream, body
<1>7. CASE Event
    <2>1. pc = "stream" /\ UNCHANGED <<wire, sink, pc, carries>>
        BY <1>7 DEF Event, asked, body
    <2>2. ASSUME NEW e \in NextEvents(wire, emitted), blocks' = Apply(wire, blocks, e),
                 emitted' = [emitted EXCEPT ![e.item] = @ + Len(e.frags)],
                 told' = IF Kinds[e.item] = "text" THEN told \o e.frags ELSE told, tail' = tail
          PROVE  SInv'
        <3>1. emitted' = After(emitted, e)
            BY <2>2 DEF After
        <3>2. /\ After(emitted, e) \in Progress /\ InOrder(wire, After(emitted, e))
              /\ Assembled(wire, After(emitted, e), Apply(wire, blocks, e))
              /\ e.item \in Unsent(emitted)
              /\ Kinds[e.item] = "text" => Made(Sent(After(emitted, e)), "text") = Made(Sent(emitted), "text") \o e.frags
              /\ Kinds[e.item] # "text" => Made(Sent(After(emitted, e)), "text") = Made(Sent(emitted), "text")
            BY <1>s, <2>2, EventAssembles
        <3>3. emitted' \in Progress /\ InOrder(wire, emitted') /\ Assembled(wire, emitted', blocks')
            BY <2>2, <3>1, <3>2
        <3>4. told' = Made(Sent(emitted'), "text")
            BY <1>s, <2>1, <2>2, <3>1, <3>2
        <3>5. tail' = 0
            BY <1>s, <2>2, <3>2
        <3>6. QED
            BY <1>s, <2>1, <3>3, <3>4, <3>5 DEF SInv
    <2>3. ASSUME Unsent(emitted) = {}, tail' = tail + 1, UNCHANGED <<emitted, blocks, told>>
          PROVE  SInv'
        BY <1>s, <2>1, <2>3 DEF SInv
    <2>4. QED
        BY <1>7, <2>2, <2>3 DEF Event
<1>8. CASE EndStream
    <2>1. pc = "stream"
        BY <1>8 DEF EndStream
    <2>2. CASE Complete(wire, tail)
        <3>1. PICK r \in Reasons(wire) : Answered(Decode(wire, blocks), r) /\ Same
            BY <1>8, <2>2 DEF EndStream, asked, stream
        <3>2. tail > 0
            BY <1>s, <2>2 DEF Complete, EndEvents
        <3>3. Unsent(emitted) = {}
            BY <1>s, <3>2
        <3>4. Decode(wire, blocks) = WholeAnswer(wire)
            BY <1>s, <3>3, AssembledIsWhole
        <3>5. /\ carries' = carries
              /\ pc' \in {"failed", "answered"}
              /\ pc' = "answered" =>
                     /\ answer'.text = WholeText /\ answer'.thought = WholeAnswer(wire).thought
                     /\ answer'.calls = WholeAnswer(wire).calls
                     /\ (answer'.finish \in CutReasons) = Unfinished(reason')
            BY <1>s, <3>1, <3>4, AnsweredGives
        <3>6. told = WholeText /\ sink
            BY <1>s, <2>1, <3>3, AllIsSent DEF WholeText
        <3>7. CASE pc' = "failed"
            BY <1>s, <1>k, <2>1, <3>1, <3>5, <3>7
        <3>8. CASE pc' = "answered"
            <4>1. Given'
                BY <3>1, <3>5, <3>6, <3>8 DEF Given
            <4>2. QED
                BY <1>s, <3>1, <3>5, <3>8, <4>1 DEF SInv
        <3>9. QED
            BY <3>5, <3>7, <3>8
    <2>3. CASE ~Complete(wire, tail)
        <3>1. CutShort
            BY <1>8, <2>3 DEF EndStream
        <3>2. QED
            BY <1>s, <1>k, <2>1, <3>1 DEF CutShort, Fail, asked, stream, body
    <2>4. QED
        BY <2>2, <2>3
<1>9. CASE UNCHANGED vars
    BY <1>9 DEF SInv, Given, vars, asked, body, stream, received
<1>10. QED
    BY <1>1, <1>2, <1>3, <1>4, <1>5, <1>6, <1>7, <1>8, <1>9 DEF Next, Stopped

(* What was sent is a prefix of the whole. *)
LEMMA SInvTells == SInv => SinkTellsTheAnswer
<1> SUFFICES ASSUME SInv PROVE SinkTellsTheAnswer
    OBVIOUS
<1>1. WholeAnswer(wire).text = WholeText /\ WholeText \in Seq(Frag)
    BY WholeTextTold
<1>2. CASE pc # "answered"
    <2>1. Begins(told, WholeText)
        BY <1>2, TextBegins DEF SInv
    <2>2. QED
        BY <1>1, <1>2, <2>1 DEF SinkTellsTheAnswer, Begins
<1>3. CASE pc = "answered"
    <2>1. told = (IF sink THEN WholeText ELSE <<>>) /\ answer.text = WholeText
        BY <1>3 DEF SInv, Given
    <2>2. Begins(WholeText, WholeText) /\ Begins(<<>>, WholeText)
        <3>1. Begins(<<>>, <<>>)
            BY EmptySeq, BeginsAppend
        <3>2. <<>> \in Seq(Frag) /\ <<>> \o WholeText = WholeText
            BY <1>1, EmptySeq, ConcatEmptySeq
        <3>3. Begins(<<>>, <<>> \o WholeText)
            BY <1>1, <3>1, <3>2, BeginsAppend
        <3>4. QED
            BY <1>1, <3>2, <3>3, BeginsAppend
    <2>3. QED
        BY <1>1, <1>3, <2>1, <2>2 DEF SinkTellsTheAnswer, Begins
<1>4. QED
    BY <1>2, <1>3

(* An answer that was given is whole. *)
LEMMA SInvWhole == SInv => AnswerIsWhole
<1> SUFFICES ASSUME SInv, pc = "answered"
             PROVE  /\ \A part \in {"text", "thought", "calls"} : answer[part] = WholeAnswer(wire)[part]
                    /\ (answer.finish \in CutReasons) = Unfinished(reason)
    BY DEF AnswerIsWhole
<1>1. Given
    BY DEF SInv
<1>2. WholeAnswer(wire).text = WholeText
    BY WholeTextTold
<1>3. QED
    BY <1>1, <1>2 DEF Given

(* openai.go:330, for every answer, wire, endpoint and number of attempts:  *)
(* whatever was refused, retried or cut, the sink is told a prefix of the   *)
(* text while it arrives and exactly the answer's text when the call        *)
(* succeeds.                                                                *)
THEOREM SinkTold == Spec => []SinkTellsTheAnswer
<1>1. QED
    BY InitSInv, NextSInv, SInvTells, PTL DEF Spec

(* openai_stream.go:105, gemini.go:1148: a call that succeeds brings the    *)
(* whole answer, however its events alternated, and says of one that the    *)
(* provider broke off that it is not all.                                   *)
THEOREM WholeAnswerGiven == Spec => []AnswerIsWhole
<1>1. QED
    BY InitSInv, NextSInv, SInvWhole, PTL DEF Spec
=============================================================================
