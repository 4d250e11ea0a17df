--------------------------- MODULE PortablePatterns ---------------------------
(***************************************************************************)
(* The pattern subset every engine that reads a contract agrees on, held   *)
(* three times: by the parser of the Rust producer (schema/pattern.rs), by *)
(* that of the Java one (schema/PortablePattern.java), and by the words of *)
(* FORMAT.md (Portable patterns), which both are to implement.             *)
(*                                                                         *)
(* A pattern is a sequence of characters; a character is a string, and the *)
(* four digits of a \uXXXX are one.  A parser maps a position to the set   *)
(* of the one position it ends at, the empty set where it refuses.         *)
(***************************************************************************)
EXTENDS Naturals, Sequences, FiniteSets

CONSTANTS
    Code,           \* character -> its place in the order of characters
    Digits,         \* [width, value] of the characters that are digits
    Hex,            \* the four digits of a \u -> the code they name
    Surrogates,     \* codes that are half of a character
    MaxRepeat,      \* the largest count a repetition may name
    MaxCount,       \* bound: where a count saturates
    MaxGroups,      \* bound: how deep groups may nest
    MaxLength       \* bound: the longest pattern accepted

Syntax == {"^", "$", "\\", ".", "*", "+", "?", "(", ")", "[", "]", "{", "}", "|"}
Controls == {"t", "n", "r", "f"}
Repeats == {"*", "+", "?", "{"}
Plane == 65535

End == "end of pattern"

\* Parser::peek, beyond the end too.
Peek(p, i) == IF i \in DOMAIN p THEN p[i] ELSE End

Eat(p, i, c) == IF Peek(p, i) = c THEN {i + 1} ELSE {}

\* saturating_mul and saturating_add; Math.min in Java.
Shift(n, c) ==
    LET sum == n * Digits[c].width + Digits[c].value
    IN  IF sum > MaxCount THEN MaxCount ELSE sum

-----------------------------------------------------------------------------
(* schema/pattern.rs                                                       *)

\* count, over the digits from i on.
CountFrom(p, i) ==
    LET last == CHOOSE j \in (i - 1)..Len(p) :
                    /\ \A k \in i..j : p[k] \in DOMAIN Digits
                    /\ Peek(p, j + 1) \notin DOMAIN Digits
        value[k \in (i - 1)..last] ==
            IF k < i THEN 0 ELSE Shift(value[k - 1], p[k])
    IN  IF last < i \/ value[last] > MaxRepeat THEN {}
        ELSE {[at |-> last + 1, value |-> value[last]]}

\* The `{` of a counted repetition just consumed.
Counted(p, i) ==
    UNION {IF Peek(p, least.at) # "," THEN Eat(p, least.at, "}")
           ELSE IF Peek(p, least.at + 1) = "}" THEN {least.at + 2}
           ELSE UNION {IF most.value < least.value THEN {} ELSE Eat(p, most.at, "}") :
                          most \in CountFrom(p, least.at + 1)} :
              least \in CountFrom(p, i)}

\* repetition: none, one, and not one more.
Repetition(p, i) ==
    CASE Peek(p, i) \notin Repeats -> {i}
      [] Peek(p, i) = "{" -> {j \in Counted(p, i + 1) : Peek(p, j) \notin Repeats}
      [] OTHER            -> {j \in {i + 1} : Peek(p, j) \notin Repeats}

\* escape, its `\` just consumed: where it ends, and the character it is.
Escape(p, i, inClass) ==
    LET c == Peek(p, i)
    IN  CASE c \in Syntax \cup Controls     -> {[at |-> i + 1, code |-> Code[c]]}
          [] c = "-" /\ inClass             -> {[at |-> i + 1, code |-> Code[c]]}
          [] c = "u" /\ Peek(p, i + 1) \in DOMAIN Hex ->
                 {[at |-> i + 2, code |-> n] : n \in {Hex[p[i + 1]]} \ Surrogates}
          [] OTHER                          -> {}

NoSetDifference(p, i) == ~(Peek(p, i) = "-" /\ Peek(p, i + 1) = "-")

\* class_member, of one that is not the closing `]`.
ClassMember(p, i, first) ==
    LET c == Peek(p, i)
        plain == {[at |-> i + 1, code |-> Code[c]]}
    IN  CASE c \in {End, "[", "]"} -> {}
          [] c = "\\" -> Escape(p, i + 1, TRUE)
          [] c = "-"  -> IF first \/ Peek(p, i + 1) = "]" THEN plain ELSE {}
          [] c \in {"&", "~", "|"} /\ Peek(p, i + 1) = c -> {}
          [] OTHER    -> {m \in plain : m.code <= Plane}

\* A member, and the range it may open.
ClassRange(p, i, first) ==
    UNION {CASE ~NoSetDifference(p, low.at) -> {}
             [] Peek(p, low.at) = "-" /\ Peek(p, low.at + 1) \notin {"]", End} ->
                    IF ~NoSetDifference(p, low.at + 1) THEN {}
                    ELSE {m.at : m \in {high \in ClassMember(p, low.at + 1, FALSE) :
                                           high.code >= low.code}}
             [] OTHER -> {low.at} : low \in ClassMember(p, i, first)}

RECURSIVE Members(_, _, _)
Members(p, i, first) ==
    CASE ~NoSetDifference(p, i)             -> {}
      [] Peek(p, i) = "]"                   -> IF first THEN {} ELSE {i + 1}
      [] OTHER -> UNION {Members(p, j, FALSE) : j \in ClassRange(p, i, first)}

\* class, its `[` just consumed.
Class(p, i) == Members(p, IF Peek(p, i) = "^" THEN i + 1 ELSE i, TRUE)

RECURSIVE Alternation(_, _, _)

\* group, its `(` just consumed: `(?:` or nothing may follow.
Group(p, i, depth) ==
    LET from == CASE Peek(p, i) # "?" -> {i}
                  [] Peek(p, i) = "?" /\ Peek(p, i + 1) = ":" -> {i + 2}
                  [] OTHER -> {}
    IN  IF depth >= MaxGroups THEN {}
        ELSE UNION {Eat(p, j, ")") : j \in UNION {Alternation(p, k, depth + 1) : k \in from}}

Atom(p, i, depth) ==
    LET c == Peek(p, i)
    IN  CASE c = "("  -> Group(p, i + 1, depth)
          [] c = "["  -> Class(p, i + 1)
          [] c = "\\" -> {e.at : e \in Escape(p, i + 1, FALSE)}
          [] c \in {".", "*", "+", "?", "{", "]", "}"} -> {}
          [] OTHER    -> {j \in {i + 1} : Code[c] <= Plane}

RECURSIVE Sequence(_, _, _)
Sequence(p, i, depth) ==
    CASE Peek(p, i) \in {"|", ")", End} -> {i}
      [] Peek(p, i) \in {"^", "$"} ->
             IF Peek(p, i + 1) \in Repeats THEN {} ELSE Sequence(p, i + 1, depth)
      [] OTHER -> UNION {Sequence(p, k, depth) :
                            k \in UNION {Repetition(p, j) : j \in Atom(p, i, depth)}}

Alternation(p, i, depth) ==
    UNION {IF Peek(p, j) = "|" THEN Alternation(p, j + 1, depth) ELSE {j} :
              j \in Sequence(p, i, depth)}

\* check: not empty, not too long, and read to its end.
Check(p) ==
    /\ Len(p) \in 1..MaxLength
    /\ Alternation(p, 1, 0) = {Len(p) + 1}

-----------------------------------------------------------------------------
(* PortablePattern.java                                                    *)

\* count: capped, not saturated.
JCount(p, i) ==
    LET run == {j \in i..Len(p) : \A k \in i..j : p[k] \in DOMAIN Digits}
        value[k \in {i - 1} \cup run] ==
            IF k < i THEN 0 ELSE Shift(value[k - 1], p[k])
        last == i - 1 + Cardinality(run)
    IN  {[at |-> last + 1, value |-> v] :
            v \in {w \in {value[last]} : run # {} /\ w <= MaxRepeat}}

\* counted: -1 where there is no upper count.
JCounted(p, i) ==
    LET upper(least) == IF Peek(p, least.at) # "," THEN {least}
                        ELSE IF Peek(p, least.at + 1) = "}"
                             THEN {[at |-> least.at + 1, value |-> MaxRepeat]}
                             ELSE JCount(p, least.at + 1)
    IN  UNION {UNION {Eat(p, most.at, "}") :
                         most \in {m \in upper(least) : m.value >= least.value}} :
                  least \in JCount(p, i)}

JRepetition(p, i) ==
    LET ends == IF Peek(p, i) = "{" THEN JCounted(p, i + 1) ELSE {i + 1}
    IN  IF Peek(p, i) \notin Repeats THEN {i}
        ELSE {j \in ends : Peek(p, j) \notin Repeats}

JEscape(p, i, inClass) ==
    LET c == Peek(p, i)
        single == Syntax \cup Controls \cup (IF inClass THEN {"-"} ELSE {})
        named == IF c = "u" THEN {Peek(p, i + 1)} \cap DOMAIN Hex ELSE {}
    IN  {[at |-> i + 1, code |-> Code[x]] : x \in {c} \cap single}
        \cup {[at |-> i + 2, code |-> Hex[x]] : x \in {y \in named : Hex[y] \notin Surrogates}}

\* classMember, closing, dash and literal.
JClassMember(p, i, first) ==
    LET c == Peek(p, i)
        refused == \/ c \in {End, "[", "]"}
                   \/ c = "-" /\ ~first /\ Peek(p, i + 1) # "]"
                   \/ c \in {"&", "~", "|"} /\ Peek(p, i + 1) = c
                   \/ c \in DOMAIN Code /\ Code[c] > Plane
    IN  CASE c = "\\" -> JEscape(p, i + 1, TRUE)
          [] refused  -> {}
          [] OTHER    -> {[at |-> i + 1, code |-> Code[c]]}

RECURSIVE JMembers(_, _, _)
JMembers(p, i, first) ==
    LET difference(j) == Peek(p, j) = "-" /\ Peek(p, j + 1) = "-"
        ranged(low) == Peek(p, low.at) = "-" /\ Peek(p, low.at + 1) \notin {"]", End}
        highs(low) == {h \in JClassMember(p, low.at + 1, FALSE) : h.code >= low.code}
        ends(low) == CASE difference(low.at) -> {}
                       [] ~ranged(low) -> {low.at}
                       [] difference(low.at + 1) -> {}
                       [] OTHER -> {h.at : h \in highs(low)}
    IN  CASE difference(i) -> {}
          [] Peek(p, i) = "]" -> IF first THEN {} ELSE {i + 1}
          [] OTHER -> UNION {UNION {JMembers(p, j, FALSE) : j \in ends(low)} :
                                low \in JClassMember(p, i, first)}

JClass(p, i) == UNION {JMembers(p, j, TRUE) : j \in {i + Cardinality(Eat(p, i, "^"))}}

RECURSIVE JAlternation(_, _, _)

JGroup(p, i, depth) ==
    LET opened == IF Peek(p, i) # "?" THEN {i}
                  ELSE {j + 1 : j \in {k \in Eat(p, i, "?") : Peek(p, k) = ":"}}
        inside == {j \in opened : depth < MaxGroups}
    IN  UNION {UNION {Eat(p, k, ")") : k \in JAlternation(p, j, depth + 1)} : j \in inside}

JAtom(p, i, depth) ==
    CASE p[i] = "("  -> JGroup(p, i + 1, depth)
      [] p[i] = "["  -> JClass(p, i + 1)
      [] p[i] = "\\" -> {e.at : e \in JEscape(p, i + 1, FALSE)}
      [] OTHER -> {i + 1 : x \in {c \in {p[i]} : c \notin Syntax /\ Code[c] <= Plane}}

RECURSIVE JSequence(_, _, _)
JSequence(p, i, depth) ==
    CASE Peek(p, i) \in {"|", ")", End} -> {i}
      [] Peek(p, i) \in {"^", "$"} ->
             UNION {JSequence(p, j, depth) : j \in {k \in {i + 1} : Peek(p, k) \notin Repeats}}
      [] OTHER -> UNION {UNION {JSequence(p, k, depth) : k \in JRepetition(p, j)} :
                            j \in JAtom(p, i, depth)}

JAlternation(p, i, depth) ==
    LET ends == JSequence(p, i, depth)
    IN  {j \in ends : Peek(p, j) # "|"}
        \cup UNION {JAlternation(p, j + 1, depth) : j \in {k \in ends : Peek(p, k) = "|"}}

\* refusal, where there is none.
JAccepts(p) ==
    /\ p # <<>> /\ Len(p) <= MaxLength
    /\ \E j \in JAlternation(p, 1, 0) : Peek(p, j) = End

\* forJava: the `$` it spells `\z`, those outside a class and not escaped.
ForJava(p) ==
    LET step(s, c) ==
            CASE s.escaped             -> [s EXCEPT !.escaped = FALSE]
              [] c = "\\"              -> [s EXCEPT !.escaped = TRUE]
              [] s.class /\ c = "]"    -> [s EXCEPT !.class = FALSE]
              [] ~s.class /\ c = "["   -> [s EXCEPT !.class = TRUE]
              [] OTHER                 -> s
        state[i \in 0..Len(p)] ==
            IF i = 0 THEN [escaped |-> FALSE, class |-> FALSE] ELSE step(state[i - 1], p[i])
    IN  {i \in DOMAIN p : p[i] = "$" /\ state[i - 1] = [escaped |-> FALSE, class |-> FALSE]}

-----------------------------------------------------------------------------
(* The subset as FORMAT.md states it: what a text may be cut into.         *)

Upto(q, k) == SubSeq(q, 1, k)
After(q, k) == SubSeq(q, k + 1, Len(q))
Inside(q) == SubSeq(q, 2, Len(q) - 1)
Between(q, open, close) == Len(q) >= 2 /\ q[1] = open /\ q[Len(q)] = close

IsNumber(q) == q # <<>> /\ \A i \in DOMAIN q : q[i] \in DOMAIN Digits

Number(q) ==
    LET value[i \in 0..Len(q)] ==
            IF i = 0 THEN 0 ELSE Shift(value[i - 1], q[i])
    IN  value[Len(q)]

IsCount(q) == IsNumber(q) /\ Number(q) <= MaxRepeat

IsRepetition(q) ==
    \/ q \in {<<"?">>, <<"*">>, <<"+">>}
    \/ /\ Between(q, "{", "}")
       /\ LET n == Inside(q)
          IN  \/ IsCount(n)
              \/ \E k \in DOMAIN n :
                    /\ n[k] = "," /\ IsCount(Upto(n, k - 1))
                    /\ \/ k = Len(n)
                       \/ IsCount(After(n, k)) /\ Number(Upto(n, k - 1)) <= Number(After(n, k))

EscapeCodes(q, extra) ==
    CASE Len(q) = 2 /\ q[1] = "\\" /\ q[2] \in Syntax \cup Controls \cup extra -> {Code[q[2]]}
      [] Len(q) = 3 /\ q[1] = "\\" /\ q[2] = "u" /\ q[3] \in DOMAIN Hex ->
             {Hex[q[3]]} \ Surrogates
      [] OTHER -> {}

\* One character of a class: its code, and itself where it is not escaped.
MemberCodes(q) ==
    IF Len(q) = 1 /\ q[1] \notin {"\\", "[", "]"}
    THEN {[code |-> Code[q[1]], plain |-> q[1]] : x \in {y \in {1} : Code[q[1]] <= Plane}}
    ELSE {[code |-> n, plain |-> ""] : n \in EscapeCodes(q, {"-"})}

\* The characters of a class, one after the other.
RECURSIVE Cut(_)
Cut(q) ==
    IF q = <<>> THEN {<<>>}
    ELSE UNION {UNION {{<<m>> \o rest : rest \in Cut(After(q, k))} :
                          m \in MemberCodes(Upto(q, k))} : k \in 1..(IF Len(q) < 3 THEN Len(q) ELSE 3)}

IsDash(m) == m.plain = "-"

\* Characters and ascending ranges; a literal `-` stands first or last.
RECURSIVE AreMembers(_, _)
AreMembers(ms, first) ==
    \/ ms = <<>>
    \/ (IsDash(ms[1]) => first \/ Len(ms) = 1) /\ AreMembers(Tail(ms), FALSE)
    \/ /\ Len(ms) >= 3 /\ IsDash(ms[2]) /\ ms[1].code <= ms[3].code
       /\ (IsDash(ms[1]) => first) /\ (IsDash(ms[3]) => Len(ms) = 3)
       /\ AreMembers(After(ms, 3), FALSE)

NoSetOperation(ms) ==
    \A i \in 1..(Len(ms) - 1) :
        ~(ms[i].plain \in {"-", "&", "~", "|"} /\ ms[i].plain = ms[i + 1].plain)

IsClass(q) ==
    /\ Between(q, "[", "]")
    /\ LET body == IF Len(q) > 2 /\ q[2] = "^" THEN After(Inside(q), 1) ELSE Inside(q)
       IN  body # <<>> /\ \E ms \in Cut(body) : NoSetOperation(ms) /\ AreMembers(ms, TRUE)

RECURSIVE IsAlternation(_, _)

IsAtom(q, depth) ==
    \/ Len(q) = 1 /\ q[1] \notin Syntax /\ Code[q[1]] <= Plane
    \/ EscapeCodes(q, {}) # {}
    \/ IsClass(q)
    \/ /\ Between(q, "(", ")") /\ depth > 0
       /\ \/ IsAlternation(Inside(q), depth - 1)
          \/ Len(q) > 3 /\ q[2] = "?" /\ q[3] = ":"
             /\ IsAlternation(SubSeq(q, 4, Len(q) - 1), depth - 1)

IsPiece(q, depth) ==
    \/ q \in {<<"^">>, <<"$">>}
    \/ IsAtom(q, depth)
    \/ \E k \in 1..(Len(q) - 1) : IsRepetition(After(q, k)) /\ IsAtom(Upto(q, k), depth)

RECURSIVE IsSequence(_, _)
IsSequence(q, depth) ==
    q = <<>> \/ \E k \in DOMAIN q : IsPiece(Upto(q, k), depth) /\ IsSequence(After(q, k), depth)

IsAlternation(q, depth) ==
    \/ IsSequence(q, depth)
    \/ \E k \in DOMAIN q : /\ q[k] = "|" /\ IsSequence(Upto(q, k - 1), depth)
                           /\ IsAlternation(After(q, k), depth)

Portably(q) == Len(q) \in 1..MaxLength /\ IsAlternation(q, MaxGroups)

\* Where `$` means the end: an opening parenthesis in its place is left open.
EndAnchors(p) == {i \in DOMAIN p : p[i] = "$" /\ ~Check([p EXCEPT ![i] = "("])}

\* Both parsers accept the patterns the format describes and no other, and what
\* Java hands its own engine differs at the anchors alone.
ReadAlike(p) ==
    /\ Check(p) <=> Portably(p)
    /\ JAccepts(p) <=> Portably(p)
    /\ Check(p) => ForJava(p) = EndAnchors(p)
=============================================================================
