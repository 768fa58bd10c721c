------------------------------ MODULE IntentScanner ------------------------------
(***************************************************************************)
(* The scanner of the director (director/src/stream.ts): the output of the *)
(* language model is a JSON object that is read character by character,    *)
(* cut into chunks anywhere, so that its text can be spoken before the     *)
(* object is complete.                                                     *)
(*                                                                         *)
(* The scanner is compared with Json, which looks at the whole text at     *)
(* once.  The keys action, replyTo and text are the characters A, R, T.    *)
(***************************************************************************)
EXTENDS Json, SequencesExt

CONSTANT Text    \* the outputs of the model

VARIABLES
    output,  \* the whole text
    read,    \* how many of its characters have been pushed
    scan,    \* the fields of IntentScanner
    heard    \* the deltas of the text, one after the other

vars == <<output, read, scan, heard>>

Captured == {<<"A">>, <<"R">>}   \* action, replyTo
Streamed == <<"T">>              \* text
Absent == "absent"

(***************************************************************************)
(* The scanner                                                             *)
(***************************************************************************)
NoToken == [kind |-> "none"]
Stop(s) == [s EXCEPT !.stopped = TRUE]
TopLevel(s) == Len(s.stack) = 1
Expecting(s, what) == [s EXCEPT !.stack[Len(s.stack)].expect = what]

Capture(s, value) ==
    IF TopLevel(s) /\ s.key \in Captured THEN [s EXCEPT !.fields[s.key] = value] ELSE s

\* Mutant of Released: what is decoded goes out.
ReleasedAll(s, final) == s.pending

\* The text that goes out; half a pair waits for the other, unless the string has ended.
Released(s, final) ==
    IF ~final /\ s.pending # <<>> /\ Last(s.pending) = "high" THEN Front(s.pending) ELSE s.pending
Flushed(s, final) ==
    [s EXCEPT !.pending = SubSeq(@, Len(Released(s, final)) + 1, Len(@))]

Push(s, frame) == [s EXCEPT !.stack = Append(@, frame)]
Close(s) == [s EXCEPT !.stack = Front(@), !.done = Len(s.stack) = 1]
StartString(s, role) ==
    [s EXCEPT !.token = [kind |-> "string", role |-> role, escape |-> "none",
                         hex |-> <<>>, value |-> <<>>]]

StartValue(s, c) ==
    CASE c = "\"" /\ TopLevel(s) /\ s.key = Streamed /\ s.text = "before" ->
            StartString([s EXCEPT !.text = "inside", !.told = s.fields], "text")
      [] c = "\"" /\ ~(TopLevel(s) /\ s.key = Streamed /\ s.text = "before") ->
            StartString(s, IF TopLevel(s) /\ s.key \in Captured THEN "capture" ELSE "skip")
      [] c = "{" -> Push(Capture(s, Other), [kind |-> "object", expect |-> "keyOrEnd"])
      [] c = "[" -> Push(Capture(s, Other), [kind |-> "array", expect |-> "valueOrEnd"])
      [] c \in Digit \cup {"-"} ->
            [Capture(s, Other) EXCEPT !.token =
                [kind |-> "number",
                 state |-> IF c = "-" THEN "minus" ELSE IF c = "0" THEN "zero" ELSE "int"]]
      [] c \in {"t", "f", "n"} ->
            LET word == CHOOSE w \in DOMAIN Letters : Letters[w][1] = c
            IN  [IF word = "null" THEN s ELSE Capture(s, Other) EXCEPT !.token =
                    [kind |-> "literal", word |-> word, matched |-> 1]]
      [] OTHER -> Stop(s)

\* Between strings, numbers and literals.
ObjectChar(s, c, expect) ==
    CASE expect \in {"keyOrEnd", "key"} /\ c = "\"" -> StartString(Expecting(s, "colon"), "key")
      [] expect = "keyOrEnd" /\ c = "}" -> Close(s)
      [] expect = "colon" /\ c = ":" -> Expecting(s, "value")
      [] expect = "value" -> StartValue(Expecting(s, "commaOrEnd"), c)
      [] expect = "commaOrEnd" /\ c = "," -> Expecting(s, "key")
      [] expect = "commaOrEnd" /\ c = "}" -> Close(s)
      [] OTHER -> Stop(s)

ArrayChar(s, c, expect) ==
    CASE expect = "valueOrEnd" /\ c = "]" -> Close(s)
      [] expect = "value" \/ (expect = "valueOrEnd" /\ c # "]") ->
            StartValue(Expecting(s, "commaOrEnd"), c)
      [] expect = "commaOrEnd" /\ c = "," -> Expecting(s, "value")
      [] expect = "commaOrEnd" /\ c = "]" -> Close(s)
      [] OTHER -> Stop(s)

Structural(s, c) ==
    CASE c \in Blank -> s
      [] c \notin Blank /\ s.done -> Stop(s)
      [] c \notin Blank /\ ~s.done /\ s.stack = <<>> ->
            IF c = "{" THEN Push(s, [kind |-> "object", expect |-> "keyOrEnd"]) ELSE Stop(s)
      [] OTHER -> LET frame == Last(s.stack)
                  IN  IF frame.kind = "object" THEN ObjectChar(s, c, frame.expect)
                      ELSE ArrayChar(s, c, frame.expect)

\* How a number goes on with a character: to one state or to none.
NumberMoves(state, c) ==
    CASE state = "minus" /\ c = "0" -> {"zero"}
      [] state = "minus" /\ c \in Digit \ {"0"} -> {"int"}
      [] state \in {"int", "frac"} /\ c \in Digit -> {state}
      [] state \in {"zero", "int"} /\ c = "." -> {"dot"}
      [] state \in {"zero", "int", "frac"} /\ c = "e" -> {"exp"}
      [] state = "dot" /\ c \in Digit -> {"frac"}
      [] state = "exp" /\ c = "-" -> {"expSign"}
      [] state \in {"exp", "expSign", "expDigits"} /\ c \in Digit -> {"expDigits"}
      [] OTHER -> {}

\* The character behind a number belongs to the container.
NumberChar(s, c) ==
    LET state == s.token.state
    IN  IF NumberMoves(state, c) # {}
        THEN [s EXCEPT !.token.state = CHOOSE next \in NumberMoves(state, c) : TRUE]
        ELSE IF state \in {"zero", "int", "frac", "expDigits"}
        THEN Structural([s EXCEPT !.token = NoToken], c)
        ELSE Stop(s)

LiteralChar(s, c) ==
    LET word == s.token.word  n == s.token.matched + 1
    IN  CASE c # Letters[word][n] -> Stop(s)
          [] c = Letters[word][n] /\ n < Len(Letters[word]) -> [s EXCEPT !.token.matched = n]
          [] OTHER -> LET t == [s EXCEPT !.token = NoToken]
                      IN  IF word = "null" THEN Capture(t, Null) ELSE t

EndString(s) ==
    LET t == [s EXCEPT !.token = NoToken]
        role == s.token.role
    IN  CASE role = "key" -> IF TopLevel(s) THEN [t EXCEPT !.key = s.token.value] ELSE t
          [] role = "capture" -> Capture(t, [kind |-> "string", value |-> s.token.value])
          [] role = "text" -> [Flushed(t, TRUE) EXCEPT !.text = "after"]
          [] role = "skip" -> t

Decoded(s, unit) ==
    LET t == [s EXCEPT !.token.escape = "none", !.token.hex = <<>>]
    IN  CASE s.token.role = "text" -> [t EXCEPT !.pending = Append(@, unit)]
          [] s.token.role \in {"key", "capture"} -> [t EXCEPT !.token.value = Append(@, unit)]
          [] s.token.role = "skip" -> t

StringChar(s, c) ==
    LET escape == s.token.escape
        hex == Append(s.token.hex, c)
    IN  CASE escape = "backslash" /\ c = "u" -> [s EXCEPT !.token.escape = "unicode"]
          [] escape = "backslash" /\ c \in Escapes -> Decoded(s, c)
          [] escape = "unicode" /\ c \in Hex ->
                IF Len(hex) < 4 THEN [s EXCEPT !.token.hex = hex] ELSE Decoded(s, Unit(hex))
          [] escape = "none" /\ c = "\\" -> [s EXCEPT !.token.escape = "backslash"]
          [] escape = "none" /\ c = "\"" -> EndString(s)
          [] escape = "none" /\ c \notin {"\\", "\"", "newline"} -> Decoded(s, c)
          [] OTHER -> Stop(s)

Step(s, c) ==
    CASE s.token.kind = "string" -> StringChar(s, c)
      [] s.token.kind = "literal" -> LiteralChar(s, c)
      [] s.token.kind = "number" -> NumberChar(s, c)
      [] s.token.kind = "none" -> Structural(s, c)

\* push(): the next character; the end of the string sends what was left of the text.
Read ==
    /\ read < Len(output) /\ ~scan.stopped
    /\ read' = read + 1
    /\ scan' = Step(scan, output[read'])
    /\ heard' = IF scan.text = "inside" /\ scan'.text = "after"
                THEN heard \o Released(scan, TRUE) ELSE heard
    /\ UNCHANGED output

\* The end of a chunk: push() hands over what it has decoded.
ChunkEnds ==
    /\ Released(scan, FALSE) # <<>>
    /\ heard' = heard \o Released(scan, FALSE)
    /\ scan' = Flushed(scan, FALSE)
    /\ UNCHANGED <<output, read>>

Fresh == [stack |-> <<>>, token |-> NoToken, stopped |-> FALSE, done |-> FALSE, key |-> <<>>,
          fields |-> [k \in Captured |-> Absent], told |-> [k \in Captured |-> Absent],
          text |-> "before", pending |-> <<>>]

Init == output \in Text /\ read = 0 /\ scan = Fresh /\ heard = <<>>
Next == Read \/ ChunkEnds
Spec == Init /\ [][Next]_vars

\* The last value of a key in the first members.
LastOf(members, k) ==
    LET at == {i \in DOMAIN members : members[i].key = k}
    IN  IF at = {} THEN Absent ELSE members[CHOOSE i \in at : \A j \in at : j <= i].value

(***************************************************************************)
(* Properties                                                              *)
(***************************************************************************)
\* When all is read, the scanner has found an object just when there is one, the last
\* value of each field, the first text, and the fields in front of that text, however
\* the output was cut.
ScanIsTrue ==
    read = Len(output) \/ scan.stopped =>
        LET json == JsonOf(output)
            texts == {i \in DOMAIN json.members :
                        json.members[i].key = Streamed /\ json.members[i].value.kind = "string"}
        IN  /\ json.valid <=> scan.done /\ ~scan.stopped
            /\ json.valid =>
                /\ \A k \in Captured : scan.fields[k] = LastOf(json.members, k)
                /\ IF texts = {} THEN scan.text = "before" /\ heard = <<>>
                   ELSE LET first == CHOOSE i \in texts : \A j \in texts : i <= j
                        IN  /\ scan.text = "after" /\ scan.pending = <<>>
                            /\ heard = json.members[first].value.value
                            /\ \A k \in Captured :
                                  scan.told[k] = LastOf(SubSeq(json.members, 1, first - 1), k)

\* No pair is cut in two between one delta and the next.
PairsAreKept ==
    [][heard' # heard /\ heard # <<>> =>
          ~(Last(heard) = "high" /\ heard'[Len(heard) + 1] = "low")]_vars

OutputIsScanned == []ScanIsTrue /\ PairsAreKept
=============================================================================
