------------------------------ MODULE LoPattern ------------------------------
(***************************************************************************)
(* lo_pattern_match (pattern_match.c): does a string match an OSC address  *)
(* pattern?  A string is a sequence of characters, as their codes.  The    *)
(* code walks through both with pointers: a place is what a pointer points *)
(* to, that of the terminating zero is one more than the length.  What the *)
(* code finds from a place of the pattern on is the set of the places of   *)
(* the string from which on it matches.                                    *)
(*                                                                         *)
(* The state machine writes a pattern, token by token, and a string.       *)
(***************************************************************************)
EXTENDS Integers, Sequences, FiniteSets, SequencesExt

CONSTANTS
    Alphabet,       \* characters of strings
    Sets,           \* sets in brackets: [negated, ranges], each [from, to]
    Braces,         \* lists in braces: sequences of alternatives
    MaxTokens, MaxChars     \* bounds

VARIABLES
    tokens,     \* the pattern, as the tokens it is made of
    str         \* the string

patternVars == <<tokens, str>>

Star == 42
Question == 63
Negate == 33
Minus == 45
OpenSet == 91
CloseSet == 93
OpenBrace == 123
CloseBrace == 125
ListComma == 44
Special == {Star, Question, OpenSet, OpenBrace}

\* Patterns that are well formed: no range ends in a character that ends ranges or
\* sets, and no list is empty or has an empty alternative.
ASSUME PatternAssumption ==
    /\ Alphabet \subseteq Nat
    /\ \A set \in Sets :
          /\ set.negated \in BOOLEAN
          /\ set.ranges \in Seq([from : Nat \ {Minus, CloseSet}, to : Nat \ {Minus, CloseSet}])
          /\ set.ranges # <<>> /\ \A k \in DOMAIN set.ranges : set.ranges[k].from <= set.ranges[k].to
          /\ ~ set.negated => set.ranges[1].from # Negate
    /\ \A list \in Braces :
          /\ list \in Seq(Seq(Nat \ {ListComma, CloseBrace}))
          /\ list # <<>> /\ \A k \in DOMAIN list : list[k] # <<>>

\* The first place from j on with one of the characters, or that of the zero.
Find(text, j, cs) == Min({k \in j .. Len(text) : text[k] \in cs} \cup {Len(text) + 1})

-----------------------------------------------------------------------------
(* What the pattern says *)

\* A token matches a piece of the string.
Piece(token, s) ==
    CASE token.is = "char" -> s = <<token.char>>
      [] token.is = "any" -> Len(s) = 1
      [] token.is = "many" -> TRUE
      [] token.is = "set" -> Len(s) = 1 /\
            (token.negated # \E k \in DOMAIN token.ranges :
                                s[1] \in token.ranges[k].from .. token.ranges[k].to)
      [] token.is = "brace" -> \E k \in DOMAIN token.list : s = token.list[k]

\* The places where a piece may begin that is followed by one of the next.
Begins(token, s, next) ==
    {i \in 1 .. Len(s) + 1 : \E k \in next : k >= i /\ Piece(token, SubSeq(s, i, k - 1))}

\* A string matches a pattern if it can be cut into pieces that match its tokens.
Matches(ts, s) ==
    LET fits[t \in 1 .. Len(ts) + 1] ==
            IF t > Len(ts) THEN {Len(s) + 1} ELSE Begins(ts[t], s, fits[t + 1])
    IN  1 \in fits[1]

\* A pattern as it is written.
RangeText(r) == IF r.from = r.to THEN <<r.from>> ELSE <<r.from, Minus, r.to>>
RangesText(ranges) == FlattenSeq([k \in DOMAIN ranges |-> RangeText(ranges[k])])
ListText(list) ==
    FlattenSeq([k \in DOMAIN list |-> IF k = 1 THEN list[1] ELSE <<ListComma>> \o list[k]])

Written(token) ==
    CASE token.is = "char" -> <<token.char>>
      [] token.is = "any" -> <<Question>>
      [] token.is = "many" -> <<Star>>
      [] token.is = "set" -> <<OpenSet>> \o (IF token.negated THEN <<Negate>> ELSE <<>>)
                                \o RangesText(token.ranges) \o <<CloseSet>>
      [] token.is = "brace" -> <<OpenBrace>> \o ListText(token.list) \o <<CloseBrace>>

PatternText(ts) == FlattenSeq([i \in DOMAIN ts |-> Written(ts[i])])

-----------------------------------------------------------------------------
(* What the code does *)

\* What a turn of the loop over a set has found when the loop ends.
NoEnd == [ends |-> FALSE, found |-> FALSE, at |-> 0]
End(found, at) == [ends |-> TRUE, found |-> found, at |-> at]

\* A turn of the loop looks at two characters from q on, or three if the second
\* is a hyphen; the next one begins with the last of them.
ReadTwo(c, p, q, read) ==
    LET range == p[q + 1] = Minus
        next == IF range THEN q + 2 ELSE q + 1
        found == IF p[next] = CloseSet THEN IF range THEN c >= p[q] ELSE c = p[q]
              ELSE c = p[q] \/ c = p[next] \/ (range /\ p[q] < c /\ c < p[next])
    IN  IF next > Len(p) THEN NoEnd
        ELSE IF found \/ p[next] = CloseSet THEN End(found, next) ELSE read[next]

\* Whether the set from j on has c, and where the reading of it ends.
InSet(c, p, j) ==
    LET read[q \in 1 .. Len(p) + 1] ==
            IF q >= Len(p) THEN NoEnd ELSE ReadTwo(c, p, q, read)
    IN  read[j]

\* The first place from j on without a star.
SkipStars(p, j) == Min({k \in j .. Len(p) : p[k] # Star} \cup {Len(p) + 1})

\* Seeded bug: the star takes the first rest of the string that may match.
StarFirst(s, p, j, match) ==
    LET k == SkipStars(p, j)
    IN  {i \in 1 .. Len(s) + 1 :
            k > Len(p) \/ LET m == Find(s, i, {p[k]}) IN m <= Len(s) /\ m \in match[k]}

\* A star before j: later stars are skipped, then the string up to the next
\* character of the pattern, and every rest of the string that is not empty is tried.
MatchStar(s, p, j, match) ==
    LET k == SkipStars(p, j)
        free == p[k] \in {Question, OpenSet, OpenBrace}
        later == match[k]
    IN  {i \in 1 .. Len(s) + 1 :
            k > Len(p) \/ \E m \in i .. Len(s) : /\ free \/ p[k] \in {s[l] : l \in i .. m}
                                               /\ m \in later}

\* A set from j on, at each place of the string.
MatchSet(s, p, j, match) ==
    LET negate == j <= Len(p) /\ p[j] = Negate
        set(i) == InSet(s[i], p, IF negate THEN j + 1 ELSE j)
        close(i) == Find(p, set(i).at, {CloseSet})
    IN  {i \in 1 .. Len(s) : /\ set(i).ends /\ set(i).found # negate
                             /\ close(i) <= Len(p) /\ i + 1 \in match[close(i) + 1]}

\* The list in braces from q on, with the string at one of the places that are the
\* value: place is where it was at the beginning of the list and remainder what
\* follows the list.  After an alternative that matched but whose remainder does
\* not, a comma is skipped that was read already.
Alternatives(s, place, p, q, remainder, match, alt) ==
    LET stop == Find(p, q + 1, {ListComma, CloseBrace})
        again == stop <= Len(p) /\ p[stop] = ListComma /\ place \in alt[stop + 1]
        on == alt[q + 1]
    IN  CASE q > Len(p) -> {}
          [] q <= Len(p) /\ p[q] = ListComma ->
                {a \in 1 .. Len(s) + 1 : a \in match[remainder] \/ (q < Len(p) /\ place \in alt[q + 2])}
          [] q <= Len(p) /\ p[q] = CloseBrace -> match[q + 1]
          [] q <= Len(p) /\ p[q] \notin {ListComma, CloseBrace} ->
                {a \in 1 .. Len(s) + 1 :
                    IF a <= Len(s) /\ p[q] = s[a]
                    THEN (a < Len(s) \/ remainder > Len(p)) /\ a + 1 \in on
                    ELSE again}

MatchList(s, place, p, j, remainder, match) ==
    LET alt[q \in j .. Len(p) + 1] == Alternatives(s, place, p, q, remainder, match, alt)
    IN  place \in alt[j]

\* A list in braces from j on, at each place of the string.
MatchBrace(s, p, j, match) ==
    LET close == Find(p, j, {CloseBrace})
    IN  {i \in 1 .. Len(s) : close <= Len(p) /\ MatchList(s, i, p, j, close + 1, match)}

MatchFrom(s, p, j, match) ==
    LET next == match[j + 1] IN
    CASE j > Len(p) -> {Len(s) + 1}
      [] j <= Len(p) /\ p[j] = Star -> MatchStar(s, p, j + 1, match)
      [] j <= Len(p) /\ p[j] = Question -> {i \in 1 .. Len(s) : i + 1 \in next}
      [] j <= Len(p) /\ p[j] = OpenSet -> MatchSet(s, p, j + 1, match)
      [] j <= Len(p) /\ p[j] = OpenBrace -> MatchBrace(s, p, j + 1, match)
      [] j <= Len(p) /\ p[j] \notin Special -> {i \in 1 .. Len(s) : s[i] = p[j] /\ i + 1 \in next}

lo_pattern_match(s, p) ==
    LET match[j \in 1 .. Len(p) + 1] == MatchFrom(s, p, j, match) IN 1 \in match[1]

-----------------------------------------------------------------------------
Char(c) == [is |-> "char", char |-> c]
Token == {Char(c) : c \in Alphabet \ Special} \cup {[is |-> "any"], [is |-> "many"]}
         \cup {[is |-> "set", negated |-> s.negated, ranges |-> s.ranges] : s \in Sets}
         \cup {[is |-> "brace", list |-> l] : l \in Braces}

PatternInit == tokens = <<>> /\ str = <<>>

PatternNext ==
    \/ /\ str = <<>> /\ Len(tokens) < MaxTokens
       /\ \E t \in Token : tokens' = Append(tokens, t)
       /\ UNCHANGED str
    \/ /\ tokens # <<>> /\ Len(str) < MaxChars
       /\ \E c \in Alphabet : str' = Append(str, c)
       /\ UNCHANGED tokens

PatternSpec == PatternInit /\ [][PatternNext]_patternVars

-----------------------------------------------------------------------------
\* A list in braces is read right when it ends the pattern and its alternatives
\* are equally long.
Simple(ts) ==
    \A i \in DOMAIN ts : ts[i].is = "brace" =>
        /\ i = Len(ts)
        /\ \A j, k \in DOMAIN ts[i].list : Len(ts[i].list[j]) = Len(ts[i].list[k])

\* The code finds a match exactly when the string can be cut into pieces that
\* match the pattern's tokens, wherever stars and sets stand: if it has no list in
\* braces but at its end, with alternatives of one length.  (Another list may
\* hide a match, and even make one up.)
PatternAgrees ==
    Simple(tokens) => (lo_pattern_match(str, PatternText(tokens)) <=> Matches(tokens, str))
=============================================================================
