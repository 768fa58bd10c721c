---------------------------------- MODULE Json ----------------------------------
(***************************************************************************)
(* What JSON.parse finds in a text: whether it is an object, and the       *)
(* members of that object.  It is what the scanner of the director is      *)
(* compared with.                                                          *)
(*                                                                         *)
(* Of the characters there are those that are treated differently; "high"  *)
(* and "low" are the halves of a surrogate pair.                           *)
(***************************************************************************)
EXTENDS Integers, Sequences, TLC

Blank == {"space", "newline"}
Digit == {"0", "1", "8"}
Hex == Digit \cup {"A", "c", "d", "e", "f"}
Escapes == {"\"", "\\", "n", "r", "t", "f"}
Other == [kind |-> "other"]
Null == [kind |-> "null"]
Letters == [true |-> <<"t", "r", "u", "e">>, false |-> <<"f", "a", "l", "s", "e">>,
            null |-> <<"n", "u", "l", "l">>]

\* What the four digits of an escape stand for.
Unit(hex) ==
    IF hex[1] = "d" /\ hex[2] \in {"8", "A"} THEN "high"
    ELSE IF hex[1] = "d" /\ hex[2] \notin Digit THEN "low" ELSE "unit"

(***************************************************************************)
(* Positions are those of the first character of something; 0 is none, and *)
(* nothing is there.                                                       *)
(***************************************************************************)
At(w, i) == IF i \in DOMAIN w THEN w[i] ELSE "end"
Position(w) == 0..(Len(w) + 8)

\* From each position: behind blanks, and behind digits.
Skip(w) == LET skip[i \in Position(w)] == IF At(w, i) \in Blank THEN skip[i + 1] ELSE i IN skip
Run(w) == LET run[i \in Position(w)] == IF At(w, i) \in Digit THEN run[i + 1] ELSE i IN run

\* How many characters make one unit of a string; 0 if they make none.
Width(w, i) ==
    CASE At(w, i) \in {"newline", "end"} -> 0
      [] At(w, i) = "\\" /\ At(w, i + 1) \in Escapes -> 2
      [] At(w, i) = "\\" /\ At(w, i + 1) = "u" ->
            IF \A k \in 2..5 : At(w, i + k) \in Hex THEN 6 ELSE 0
      [] At(w, i) = "\\" /\ At(w, i + 1) \notin Escapes \cup {"u"} -> 0
      [] OTHER -> 1
UnitAt(w, i) ==
    CASE Width(w, i) = 1 -> w[i]
      [] Width(w, i) = 2 -> w[i + 1]
      [] Width(w, i) = 6 -> Unit(SubSeq(w, i + 2, i + 5))

\* From each position inside a string: its units and what is behind it.
Prefixed(unit, rest) == [rest EXCEPT !.units = <<unit>> \o @]
Strings(w) ==
    LET string[i \in Position(w)] ==
            CASE At(w, i) = "\"" -> [units |-> <<>>, end |-> i + 1]
              [] At(w, i) # "\"" /\ Width(w, i) = 0 -> [units |-> <<>>, end |-> 0]
              [] OTHER -> Prefixed(UnitAt(w, i), string[i + Width(w, i)])
    IN  string

Tables(w) == [text |-> w, skip |-> Skip(w), run |-> Run(w), string |-> Strings(w)]

\* Numbers and literals.
Digits(t, i) == IF t.run[i] > i THEN t.run[i] ELSE 0
Whole(t, i) == IF At(t.text, i) = "0" THEN i + 1 ELSE Digits(t, i)
Signed(t, i) == Whole(t, IF At(t.text, i) = "-" THEN i + 1 ELSE i)
Fraction(t, i) == IF At(t.text, i) = "." THEN Digits(t, i + 1) ELSE i
Exponent(t, i) ==
    IF At(t.text, i) = "e" THEN Digits(t, IF At(t.text, i + 1) = "-" THEN i + 2 ELSE i + 1) ELSE i
Number(t, i) == Exponent(t, Fraction(t, Signed(t, i)))

Literal(w, i) ==
    LET fits == {x \in DOMAIN Letters :
                    \A k \in DOMAIN Letters[x] : At(w, i + k - 1) = Letters[x][k]}
    IN  IF fits = {} THEN 0 ELSE i + Len(Letters[CHOOSE x \in fits : TRUE])

\* The value of the member at i.
AfterColon(t, i) == IF At(t.text, i) = ":" THEN t.skip[i + 1] ELSE 0
ValueOf(t, i) ==
    IF At(t.text, i) = "\"" THEN AfterColon(t, t.skip[t.string[i + 1].end]) ELSE 0

Closing == ("{" :> "}") @@ ("[" :> "]")
Opened(t, end, bracket, i) ==
    IF At(t.text, i) = Closing[bracket] THEN i + 1 ELSE end[<<bracket, i>>]
Continued(t, end, bracket, i) ==
    CASE At(t.text, i) = Closing[bracket] -> i + 1
      [] At(t.text, i) = "," -> end[<<bracket, t.skip[i + 1]>>]
      [] OTHER -> 0

\* What is behind a value, or behind the rest of an object or an array.
Extent(t, end, kind, i) ==
    CASE kind = "{" -> Continued(t, end, kind, t.skip[end[<<"value", ValueOf(t, i)>>]])
      [] kind = "[" -> Continued(t, end, kind, t.skip[end[<<"value", i>>]])
      [] kind = "value" /\ At(t.text, i) \in {"{", "["} ->
            Opened(t, end, At(t.text, i), t.skip[i + 1])
      [] kind = "value" /\ At(t.text, i) = "\"" -> t.string[i + 1].end
      [] kind = "value" /\ At(t.text, i) \in Digit \cup {"-"} -> Number(t, i)
      [] OTHER -> Literal(t.text, i)
Ends(t) ==
    LET end[x \in {"value", "{", "["} \X Position(t.text)] == Extent(t, end, x[1], x[2])
    IN  end

\* The members of an object from i on.
Member(t, i) ==
    [key |-> t.string[i + 1].units,
     value |-> CASE At(t.text, ValueOf(t, i)) = "\"" ->
                      [kind |-> "string", value |-> t.string[ValueOf(t, i) + 1].units]
                 [] At(t.text, ValueOf(t, i)) = "n" -> Null
                 [] OTHER -> Other]
Members(t, end) ==
    LET members[i \in Position(t.text)] ==
            IF At(t.text, i) # "\"" THEN <<>>
            ELSE <<Member(t, i)>>
                 \o members[t.skip[t.skip[end[<<"value", ValueOf(t, i)>>]] + 1]]
    IN  members

Parsed(t, end, start) ==
    IF At(t.text, start) = "{" /\ t.skip[end[<<"value", start>>]] = Len(t.text) + 1
    THEN [valid |-> TRUE, members |-> Members(t, end)[t.skip[start + 1]]]
    ELSE [valid |-> FALSE, members |-> <<>>]
ParsedFrom(t) == Parsed(t, Ends(t), t.skip[1])
JsonOf(w) == ParsedFrom(Tables(w))
=================================================================================
