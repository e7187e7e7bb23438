------------------------------ MODULE Scanners ------------------------------
(***************************************************************************)
(* The searches of internal/policy: the poisoning heuristics on tool       *)
(* descriptions and schemas (poisoning.go) and the windowed search that    *)
(* stands in for a slow pattern on the text of a result (windows.go). They *)
(* are pure: each operator is the function of the same name.               *)
(***************************************************************************)
EXTENDS Naturals, Sequences, SequencesExt

CONSTANTS
    Gap,            \* longest text between the two words of a pattern
    Back, Forward   \* by rule: the reach of a window around a keyword

SlowRules == {"concealment", "instruction_override"}

(* By rule, the keyword that every match begins with or ends its first phrase
   with, as it is spelled in resultKeywords. *)
Keyword == [concealment |-> <<"n">>, instruction_override |-> <<"d", "s", "r">>]

(* A window has to hold the longest match from its keyword on: the keyword,
   the gap and the second word. *)
ASSUME ScannersAssumption ==
    /\ Gap \in Nat
    /\ {Back, Forward} \subseteq [SlowRules -> Nat]
    /\ \A rule \in SlowRules : Forward[rule] >= Len(Keyword[rule]) + Gap + 1

-----------------------------------------------------------------------------
(* Poisoning heuristics. A text is a sequence of words, a heuristic a phrase.
   A schema is the sequence of its values, each with the path of its keys. *)

schemaMetaKeys == {"$schema", "$id"}

schemaText(schema) ==
    LET kept == IF schema.valid
                THEN SelectSeq(schema.values, LAMBDA v : ToSet(v.path) \intersect schemaMetaKeys = {})
                ELSE schema.values
    IN  FlattenSeq([i \in DOMAIN kept |-> kept[i].path \o kept[i].text])

MatchesRule(phrase, text) ==
    \E i \in DOMAIN text : IsPrefix(phrase, SubSeq(text, i, Len(text)))

MutantScanJoined(tools, rules) ==
    FlattenSeq([t \in DOMAIN tools |->
        LET found == SelectSeq(rules, LAMBDA r :
                         MatchesRule(r, tools[t].description \o schemaText(tools[t].schema)))
        IN  [k \in DOMAIN found |-> [tool |-> t, rule |-> found[k]]]])

(* Description and schema apart, a rule once per tool. *)
Scan(tools, rules) ==
    FlattenSeq([t \in DOMAIN tools |->
        LET InDescription(r) == MatchesRule(r, tools[t].description)
            InSchemaOnly(r)  == ~InDescription(r) /\ MatchesRule(r, schemaText(tools[t].schema))
            found == SelectSeq(rules, InDescription) \o SelectSeq(rules, InSchemaOnly)
        IN  [k \in DOMAIN found |-> [tool |-> t, rule |-> found[k]]]])

(* A rule is reported once for each tool whose description, or whose schema
   without the meta keywords, contains it, and for no other: never for a phrase
   that only the two together form. *)
FindingsAreExact(tools, rules) ==
    LET findings == Scan(tools, rules)
    IN  /\ IsInjective(findings)
        /\ ToSet(findings) =
               {f \in [tool : DOMAIN tools, rule : ToSet(rules)] :
                   LET schema == tools[f.tool].schema
                       Visible(v) == schema.valid => \A k \in DOMAIN v.path : v.path[k] \notin schemaMetaKeys
                       words == FoldLeft(LAMBDA w, v : IF Visible(v) THEN w \o v.path \o v.text ELSE w,
                                         <<>>, schema.values)
                   IN  \E text \in {tools[f.tool].description, words} :
                           MatchesRule(f.rule, text)}

-----------------------------------------------------------------------------
(* The windowed search. The patterns are \b(d\s+n|n)\b[^.]{0,Gap}\bu\b for
   concealment and \b(dsr)\b[^.]{0,Gap}\bu for instruction_override, both
   (?i): a first phrase with a keyword in it, a bounded gap without punctuation
   and a second word, which the second rule does not end. "longs" stands for
   U+017F, which is no letter of ASCII and equals s if case is ignored. *)

Lowered == ("N" :> "n") @@ ("S" :> "s")
Folded  == Lowered @@ ("longs" :> "s")
Translated(text, table) ==
    [i \in DOMAIN text |-> IF text[i] \in DOMAIN table THEN table[text[i]] ELSE text[i]]

(* How the keywords are compared, and how the patterns are. *)
asciiLower(text) == Translated(text, Lowered)
ignoreCase(text) == Translated(text, Folded)

SpaceBytes == {" "}
WordBytes  == {"d", "n", "N", "r", "s", "S", "u"}

(* \b in front of text[i] *)
Boundary(text, i) ==
    (i > 1 /\ text[i - 1] \in WordBytes) # (i <= Len(text) /\ text[i] \in WordBytes)

(* The first phrase is text[i..k]. *)
FirstPhrase(rule, text, i, k) ==
    LET phrase == ignoreCase(SubSeq(text, i, k))
    IN  \/ phrase = Keyword[rule]
        \/ /\ rule = "concealment" /\ Len(phrase) > 2
           /\ Head(phrase) = "d" /\ Last(phrase) = "n"
           /\ \A x \in 2..Len(phrase) - 1 : phrase[x] \in SpaceBytes

MatchesBetween(rule, text, i, j) ==
    \E k \in i..j - 1 :
        /\ FirstPhrase(rule, text, i, k) /\ Boundary(text, k + 1)
        /\ j - k - 1 <= Gap /\ \A x \in k + 1..j - 1 : text[x] # "."
        /\ text[j] = "u"
        /\ \A x \in {i, j} : Boundary(text, x)
        /\ rule = "concealment" => Boundary(text, j + 1)

(* regexp.FindString: the leftmost match, as long as the gap allows *)
FindString(rule, text) ==
    LET from == {i \in DOMAIN text : \E j \in i..Len(text) : MatchesBetween(rule, text, i, j)}
    IN  IF from = {} THEN <<>>
        ELSE SubSeq(text, Min(from), Max({j \in DOMAIN text : MatchesBetween(rule, text, Min(from), j)}))

(* Where a run of characters of one class that ends in front of i begins. *)
RunStart(text, i, class) ==
    Min({s \in 1..i : \A x \in s..i - 1 : text[x] \in class})

RunEnd(text, i, class) ==
    Max({e \in i..Len(text) + 1 : \A x \in i..e - 1 : text[x] \in class})

MutantWindow(rule, text, at) ==
    [start |-> RunStart(text, Max({1, at - Back[rule]}), WordBytes),
     end   |-> RunEnd(text, Min({Len(text) + 1, at + Forward[rule]}), WordBytes)]

(* The characters text[start..end-1] *)
Window(rule, text, at) ==
    [start |-> RunStart(text, RunStart(text, Max({1, at - Back[rule]}), SpaceBytes), WordBytes),
     end   |-> RunEnd(text, Min({Len(text) + 1, at + Forward[rule]}), WordBytes)]

Merged(windows) ==
    LET Widen(ws, w) ==
            IF ws # <<>> /\ w.start <= Last(ws).end
            THEN [ws EXCEPT ![Len(ws)].end = Max({@, w.end})]
            ELSE Append(ws, w)
    IN  FoldLeft(Widen, <<>>, SetToSortSeq(windows, LAMBDA v, w :
                     v.start < w.start \/ (v.start = w.start /\ v.end < w.end)))

KeywordAt(rule, text, at) == IsPrefix(Keyword[rule], asciiLower(SubSeq(text, at, Len(text))))

find(rule, text) ==
    LET keywords == {at \in DOMAIN text : KeywordAt(rule, text, at)}
        windows  == Merged({Window(rule, text, at) : at \in keywords})
        found    == SelectSeq([i \in DOMAIN windows |->
                        FindString(rule, SubSeq(text, windows[i].start, windows[i].end - 1))],
                        LAMBDA m : m # <<>>)
    IN  IF found = <<>> THEN <<>> ELSE found[1]

(* "The answer is the same as running the pattern on the whole text"
   (windows.go:16-18): the match too, which is quoted in the alarm. The code
   breaks this where a keyword is spelled with a letter that only the pattern
   takes for one of ASCII. *)
WindowsMissNothing(rule, text) == find(rule, text) = FindString(rule, text)

(* What holds in its place: the answer is the same if every keyword is spelled
   in ASCII. Otherwise what is found is a match of the pattern in the whole
   text, and no match that has the keyword in ASCII leaves nothing found. *)
WindowsMissOnlyFoldedWords(rule, text) ==
    LET answer  == find(rule, text)
        matches == {b \in (DOMAIN text) \X (DOMAIN text) : MatchesBetween(rule, text, b[1], b[2])}
    IN  /\ "longs" \notin ToSet(text) => WindowsMissNothing(rule, text)
        /\ answer # <<>> => answer \in {SubSeq(text, b[1], b[2]) : b \in matches}
        /\ answer = <<>> => \A b \in matches : ~\E at \in b[1]..b[2] : KeywordAt(rule, text, at)
=============================================================================
