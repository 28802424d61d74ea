----------------------------- MODULE RoutingGate -----------------------------
(***************************************************************************)
(* packages/cli/src/fleet-routing.ts: the gated runs-on expression of an   *)
(* enrolled job, and the YAML scalar it is read from.                      *)
(*                                                                         *)
(* A guard is a sequence of tokens: parentheses, the operators, a quote    *)
(* and the atoms "O" (the exact owner clause), "W" (the exact workflow_ref *)
(* clause) and "x" (any other comparison). The state is the text under     *)
(* test: a guard, typed token by token around a kernel, or a scalar typed  *)
(* character by character.                                                 *)
(***************************************************************************)
EXTENDS Integers, Sequences, SequencesExt

CONSTANTS MaxTyped, MaxScalar       \* bounds: tokens typed, characters typed

VARIABLES text, kind, typed
vars == <<text, kind, typed>>

Tokens == {"(", ")", "||", "&&", "'", "O", "W", "x"}
Owner == <<"O">>
WorkflowRef == <<"W">>
-----------------------------------------------------------------------------
(***************************************************************************)
(* topLevelConjuncts and the guard half of parseGatedRunsOn.               *)
(***************************************************************************)
Quotes(g, n) == Len(SelectSeq(SubSeq(g, 1, n), LAMBDA t : t = "'"))

\* A position inside a quoted literal, its quotes included, is masked: '' in
\* a literal closes and reopens it, so parity decides.
Masked(g, i) == g[i] = "'" \/ Quotes(g, i) % 2 = 1

\* Parentheses opened and not closed up to position n.
Depth(g, n) ==
    FoldLeft(LAMBDA d, i : d + (IF Masked(g, i) THEN 0 ELSE IF g[i] = "(" THEN 1 ELSE IF g[i] = ")" THEN -1 ELSE 0),
             0, [i \in 1..n |-> i])

TopLevel(g, token) == {i \in 1..Len(g) : g[i] = token /\ ~Masked(g, i) /\ Depth(g, i) = 0}

Balanced(g) ==
    /\ Quotes(g, Len(g)) % 2 = 0
    /\ \A i \in 1..Len(g) : Depth(g, i) >= 0
    /\ Depth(g, Len(g)) = 0

RefusedDisjunction(g) == TopLevel(g, "||") # {}

\* The slices between top-level &&.
TopLevelConjuncts(g) ==
    LET cuts == TopLevel(g, "&&") \cup {0, Len(g) + 1}
    IN  {SubSeq(g, p[1] + 1, p[2] - 1) : p \in {c \in cuts \X cuts :
            c[1] < c[2] /\ \A m \in cuts : ~(c[1] < m /\ m < c[2])}}

ParseGuard(g) ==
    /\ Balanced(g) /\ ~RefusedDisjunction(g)
    /\ Owner \in TopLevelConjuncts(g) /\ WorkflowRef \in TopLevelConjuncts(g)

\* renderGatedRunsOn: the generated guard.
RenderedGuard == <<"O", "&&", "(", "x", "||", "(", "x", "&&", "x", ")", ")", "&&", "W">>
-----------------------------------------------------------------------------
(***************************************************************************)
(* What GitHub makes of a guard, by its grammar: the set of truth values a *)
(* text derives under a valuation of the atoms (empty when it derives      *)
(* none). A quoted literal is one more atom, "'".                          *)
(***************************************************************************)
Readings(g, v) ==
    LET values[level \in {"primary", "and", "or"}, i, j \in 1..Len(g)] ==
          CASE level = "and" ->
                 values["primary", i, j] \cup
                 UNION {{a /\ b : a \in values["primary", i, k - 1], b \in values["and", k + 1, j]} :
                           k \in {k \in (i + 1)..(j - 1) : g[k] = "&&"}}
            [] level = "or" ->
                 values["and", i, j] \cup
                 UNION {{a \/ b : a \in values["and", i, k - 1], b \in values["or", k + 1, j]} :
                           k \in {k \in (i + 1)..(j - 1) : g[k] = "||"}}
            [] i = j /\ g[i] \in {"O", "W", "x"} -> {v[g[i]]}
            [] i < j /\ g[i] = "'" /\ g[j] = "'" /\ \A k \in (i + 1)..(j - 1) : g[k] # "'" -> {v["'"]}
            [] i + 1 < j /\ g[i] = "(" /\ g[j] = ")" -> values["or", i + 1, j - 1]
            [] OTHER -> {}
    IN  values
AndValues(g, v) == IF g = <<>> THEN {} ELSE Readings(g, v)["and", 1, Len(g)]
OrValues(g, v) == IF g = <<>> THEN {} ELSE Readings(g, v)["or", 1, Len(g)]

Valuations == [{"O", "W", "x", "'"} -> BOOLEAN]
-----------------------------------------------------------------------------
(***************************************************************************)
(* yamlScalar. "h" stands for the two characters ` #`, "a" for any other.  *)
(***************************************************************************)
Characters == {"'", "\"", "\\", "h", "a"}
Refused == <<"refused">>
Pair(c, s, i) == i < Len(s) /\ s[i] = c /\ s[i + 1] = c

\* Replaces each doubled quote by the sequence r, from the left.
ReplaceDoubled(s, r) ==
    LET rest[i \in 1..Len(s) + 1] ==
          IF i > Len(s) THEN <<>>
          ELSE IF Pair("'", s, i) THEN r \o rest[i + 2]
          ELSE <<s[i]>> \o rest[i + 1]
    IN  rest[1]

\* Undoes \" and \\; Refused on any other escape and on a bare quote.
Unescape(s) ==
    LET rest[i \in 1..Len(s) + 1] ==
          IF i > Len(s) THEN <<>>
          ELSE IF s[i] = "\\" THEN
               IF i < Len(s) /\ s[i + 1] \in {"\"", "\\"} /\ rest[i + 2] # Refused
               THEN <<s[i + 1]>> \o rest[i + 2] ELSE Refused
          ELSE IF s[i] = "\"" \/ rest[i + 1] = Refused THEN Refused
          ELSE <<s[i]>> \o rest[i + 1]
    IN  rest[1]

Body(s) == SubSeq(s, 2, Len(s) - 1)
Wrapped(s, q) == Len(s) >= 2 /\ s[1] = q /\ s[Len(s)] = q

YamlScalar(s) ==
    CASE Wrapped(s, "'") ->
            IF Contains(ReplaceDoubled(Body(s), <<>>), "'") THEN Refused ELSE ReplaceDoubled(Body(s), <<"'">>)
      [] Wrapped(s, "\"") -> Unescape(Body(s))
      [] Contains(s, "h") -> Refused
      [] OTHER -> s

\* How YAML writes a value quoted.
SingleQuoted(v) == <<"'">> \o FlattenSeq([i \in DOMAIN v |-> IF v[i] = "'" THEN <<"'", "'">> ELSE <<v[i]>>]) \o <<"'">>
DoubleQuoted(v) == <<"\"">> \o FlattenSeq([i \in DOMAIN v |-> IF v[i] \in {"\"", "\\"} THEN <<"\\", v[i]>> ELSE <<v[i]>>]) \o <<"\"">>
-----------------------------------------------------------------------------
Init ==
    /\ typed = 0
    /\ \/ kind = "guard" /\ text \in {<<>>, <<"O", "&&", "W">>}
       \/ kind = "scalar" /\ text = <<>>

TypeToken ==
    /\ kind = "guard" /\ typed < MaxTyped
    /\ \E t \in Tokens : text' = Append(text, t) \/ text' = <<t>> \o text
    /\ typed' = typed + 1 /\ UNCHANGED kind

TypeCharacter ==
    /\ kind = "scalar" /\ typed < MaxScalar
    /\ \E c \in Characters : text' = Append(text, c)
    /\ typed' = typed + 1 /\ UNCHANGED kind

Next == TypeToken \/ TypeCharacter
Spec == Init /\ [][Next]_vars
-----------------------------------------------------------------------------
\* "Only the owner's own runs may reach the Cirujano label" and "the guard must
\* pin" the workflow (fleet-routing.ts): whatever parseGatedRunsOn accepts, a
\* run for which GitHub finds the guard true satisfies both clauses.
AcceptedGuardPins ==
    (kind = "guard" /\ ParseGuard(text)) =>
       \A v \in Valuations : TRUE \in OrValues(text, v) => v["O"] /\ v["W"]

\* "The guard may be stricter than the generated one": any conjunction GitHub
\* can read may be added to the generated guard, and the result is accepted.
StricterGuardAccepted ==
    (kind = "guard" /\ \A v \in Valuations : AndValues(text, v) # {}) =>
       ParseGuard(RenderedGuard \o <<"&&">> \o text)

\* A quoted scalar is read as the value YAML wrote it for, and nothing that
\* looks quoted is read as another value's quotation (yamlScalar).
ScalarReadsBack ==
    kind = "scalar" =>
       /\ YamlScalar(SingleQuoted(text)) = text
       /\ YamlScalar(DoubleQuoted(text)) = text
       /\ (Wrapped(text, "'") /\ YamlScalar(text) # Refused) => SingleQuoted(YamlScalar(text)) = text

\* "Anything YAML would reject or cut short (a stray quote ...) is refused":
\* a scalar that opens a quote and does not close it is not returned.
StrayQuoteRefused ==
    (kind = "scalar" /\ text # <<>> /\ text[1] \in {"'", "\""} /\ ~Wrapped(text, text[1])) => YamlScalar(text) = Refused
=============================================================================
