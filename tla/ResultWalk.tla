----------------------------- MODULE ResultWalk -----------------------------
(***************************************************************************)
(* ResultText of internal/policy/results.go: the walk over the bytes of a  *)
(* tool result that collects its string values for scanning. It keeps its  *)
(* own stack instead of decoding JSON, so that a result cut off anywhere   *)
(* can still be read up to there.                                          *)
(*                                                                         *)
(* A document is a sequence of bytes. "a" and "/" stand for bytes of the   *)
(* base64 alphabet, "~" for one outside it, and an escape for the byte     *)
(* behind the backslash: which character it denotes is left out.           *)
(***************************************************************************)
EXTENDS Naturals, Sequences, SequencesExt

CONSTANT Base64MinLen   \* length from which a string may be taken for binary data

ASSUME ResultWalkAssumption == Base64MinLen \in Nat

Quote == "quote"
Backslash == "\\"
NewLine == "newline"

isBase64Char(c) == c \in {"a", "/"}

FirstBytes(s, n) == SubSeq(s, 1, Min({n, Len(s)}))

-----------------------------------------------------------------------------
(* readString from data[i] on: what was read so far, and when it ends where the
   closing quote is, or the end of data if the string is cut off. *)
RECURSIVE readString(_, _, _)
readString(data, i, read) ==
    IF i > Len(data) \/ data[i] = Quote THEN [read EXCEPT !.end = i]
    ELSE IF data[i] # Backslash
    THEN readString(data, i + 1,
             [read EXCEPT !.text = Append(@, data[i]), !.length = @ + 1,
                          !.base64ish = @ /\ isBase64Char(data[i])])
    ELSE IF i = Len(data) THEN [read EXCEPT !.end = i + 1, !.length = @ + 1]
    ELSE readString(data, i + 2,
             [read EXCEPT !.text = Append(@, data[i + 1]), !.length = @ + 1,
                          !.base64ish = @ /\ data[i + 1] = "/"])

StringAt(data, i) ==
    readString(data, i, [text |-> <<>>, length |-> 0, base64ish |-> TRUE, end |-> 0])

(* The walk has its position, its output, whether each open container is an
   object, and whether the next string of the innermost one is a key. *)
inObject(walk) == walk.stack # <<>> /\ Last(walk.stack)

Open(walk, object) ==
    [walk EXCEPT !.stack = Append(@, object), !.expectKey = object \/ @]

Close(walk) == [walk EXCEPT !.stack = IF @ = <<>> THEN @ ELSE Front(@)]


ReadValue(data, walk, budget) ==
    LET string == StringAt(data, walk.at + 1)
        key    == inObject(walk) /\ walk.expectKey
        binary == string.base64ish /\ string.length >= Base64MinLen
    IN  [walk EXCEPT !.at = string.end,
                     !.out = IF key \/ binary THEN @
                             ELSE @ \o FirstBytes(string.text, budget - Len(@)) \o <<NewLine>>]

Walked(data, walk, budget) ==
    CASE data[walk.at] = "{" -> Open(walk, TRUE)
      [] data[walk.at] = "[" -> Open(walk, FALSE)
      [] data[walk.at] \in {"}", "]"} -> Close(walk)
      [] data[walk.at] = "," -> [walk EXCEPT !.expectKey = inObject(walk)]
      [] data[walk.at] = ":" -> [walk EXCEPT !.expectKey = FALSE]
      [] data[walk.at] = Quote -> ReadValue(data, walk, budget)
      [] OTHER -> walk

RECURSIVE TextFrom(_, _, _)
TextFrom(data, walk, budget) ==
    IF walk.at > Len(data) \/ Len(walk.out) >= budget THEN FirstBytes(walk.out, budget)
    ELSE LET walked == Walked(data, walk, budget)
         IN  TextFrom(data, [walked EXCEPT !.at = @ + 1], budget)

ResultText(result, inspect, budget) ==
    TextFrom(FirstBytes(result, inspect),
             [at |-> 1, out |-> <<>>, stack |-> <<>>, expectKey |-> FALSE], budget)

-----------------------------------------------------------------------------
(* What it is meant to be. A value is a string, an array or an object; the
   fields of an object alternate keys and values. *)

Between(parts, separator) ==
    FoldLeft(LAMBDA s, p : IF s = <<>> THEN p ELSE s \o separator \o p, <<>>, parts)

StringBytes(s) ==
    <<Quote>> \o FlattenSeq([i \in DOMAIN s |->
                     IF s[i] \in {Quote, Backslash, "/"} THEN <<Backslash, s[i]>> ELSE <<s[i]>>])
              \o <<Quote>>

KeyBytes(value, i) ==
    IF value.type = "object" THEN StringBytes(value.keys[i]) \o <<":">> ELSE <<>>

RECURSIVE Bytes(_)
Bytes(value) ==
    LET fields == Between([i \in DOMAIN value.items |-> KeyBytes(value, i) \o Bytes(value.items[i])], <<",">>)
    IN  CASE value.type = "string" -> StringBytes(value.text)
          [] value.type = "array"  -> <<"[">> \o fields \o <<"]">>
          [] value.type = "object" -> <<"{">> \o fields \o <<"}">>

(* How many bytes of a container are in front of its item i. *)
Before(value, i) ==
    1 + Len(Between([j \in 1..i |-> KeyBytes(value, j) \o IF j < i THEN Bytes(value.items[j]) ELSE <<>>],
                    <<",">>))

Binary(s) == Len(s) >= Base64MinLen /\ \A i \in DOMAIN s : isBase64Char(s[i])

RECURSIVE Lines(_)
Lines(value) ==
    IF value.type = "string"
    THEN IF Binary(value.text) THEN <<>> ELSE value.text \o <<NewLine>>
    ELSE FlattenSeq([i \in DOMAIN value.items |-> Lines(value.items[i])])

(* What is to be read of a string if only n bytes of it are seen, from its
   quote on. All of it, or its beginning; nothing, if that is long and all
   base64. Half an escape has no text and still counts for the length. *)
StringSeen(s, n) ==
    LET Upto(k) == Len(StringBytes(FirstBytes(s, k))) - 1
        seen    == FirstBytes(s, Max({k \in 0..Len(s) : Upto(k) <= n}))
        half    == Len(seen) < Len(s) /\ Upto(Len(seen)) < n
        length  == Len(seen) + IF half THEN 1 ELSE 0
        binary  == length >= Base64MinLen /\ \A i \in DOMAIN seen : isBase64Char(seen[i])
    IN  IF n <= 0 \/ binary THEN <<>> ELSE seen \o <<NewLine>>

RECURSIVE Seen(_, _)
Seen(value, n) ==
    IF value.type = "string" THEN StringSeen(value.text, n)
    ELSE FlattenSeq([i \in DOMAIN value.items |->
             IF n > Before(value, i) THEN Seen(value.items[i], n - Before(value, i)) ELSE <<>>])

(* The text of a result is every string value of it and no key, a line each,
   without those that are long and all base64 (results.go:113-116); a budget
   cuts it short and changes nothing before the cut. Of a result cut off by the
   inspection limit, wherever the cut is, it is every string value until then
   and the beginning of the one that is cut off, however long that is, unless
   it looks like base64 up to the cut (results.go:122-127). *)
ResultTextIsComplete(value, inspect, budget) ==
    LET data == Bytes(value)
        text == ResultText(data, inspect, budget)
    IN  /\ inspect >= Len(data) => text = FirstBytes(Lines(value), budget)
        /\ text = FirstBytes(Seen(value, inspect), budget)
=============================================================================
