------------------------------- MODULE Policy -------------------------------
(***************************************************************************)
(* The decisions of internal/policy: the rules that allow or deny a tool   *)
(* call (rbac.go) and the engine that applies every check to an event      *)
(* (engine.go). Nothing here has state; what the detectors keep or find is *)
(* part of the event they are given.                                       *)
(*                                                                         *)
(* A text or pattern is a sequence of characters. A rule has a pattern for *)
(* clients and two sets of patterns for tools: of the lists of the code,   *)
(* only which pattern is quoted in a message depends on the order.         *)
(***************************************************************************)
EXTENDS Naturals, Sequences, SequencesExt

Star == "*"

Stars(pattern) == {i \in DOMAIN pattern : pattern[i] = Star}

(* The parts of a pattern with a star, as strings.Split gives them: what is in
   front of the first star, behind the last, and between one and the next. *)
Leading(pattern)  == SubSeq(pattern, 1, Min(Stars(pattern)) - 1)
Trailing(pattern) == SubSeq(pattern, Max(Stars(pattern)) + 1, Len(pattern))
Previous(pattern, i) == Max({j \in Stars(pattern) : j < i})
Between(pattern, i)  == SubSeq(pattern, Previous(pattern, i) + 1, i - 1)

DropFirst(s, n) == SubSeq(s, n + 1, Len(s))

Occurrences(part, s) ==
    {i \in 1..Len(s) - Len(part) + 1 : SubSeq(s, i, i + Len(part) - 1) = part}

(* What may be left of s behind the leftmost occurrences of the parts between
   stars, in order: at most one text, and none if a part is missing. *)
Behind(pattern, s) ==
    LET rests[i \in Stars(pattern)] ==
            IF i = Min(Stars(pattern)) THEN {s}
            ELSE LET part == Between(pattern, i)
                 IN  {DropFirst(r, Min(Occurrences(part, r)) + Len(part) - 1) :
                         r \in {t \in rests[Previous(pattern, i)] : Occurrences(part, t) # {}}}
    IN  rests[Max(Stars(pattern))]

MutantMatchOverlapping(pattern, s) ==
    IF Stars(pattern) = {} THEN pattern = s
    ELSE /\ IsPrefix(Leading(pattern), s)
         /\ IsSuffix(Trailing(pattern), s)
         /\ Behind(pattern, s) # {}

matchPattern(pattern, s) ==
    IF Stars(pattern) = {} THEN pattern = s
    ELSE LET rest  == DropFirst(s, Len(Leading(pattern)))
             inner == SubSeq(rest, 1, Len(rest) - Len(Trailing(pattern)))
         IN  \/ pattern = <<Star>>
             \/ /\ IsPrefix(Leading(pattern), s)
                /\ IsSuffix(Trailing(pattern), rest)
                /\ Behind(pattern, inner) # {}

ListedIn(patterns, tool) == \E p \in patterns : matchPattern(p, tool)

Decided(allowed, reason) == [allowed |-> allowed, reason |-> reason]

Check(rbac, client, tool) ==
    LET rules == {r \in ToSet(rbac.rules) : matchPattern(r.client, client)}
    IN  IF \E r \in rules : ListedIn(r.deny, tool) THEN Decided(FALSE, "denied by rule")
        ELSE IF \E r \in rules : ListedIn(r.allow, tool) THEN Decided(TRUE, "allowed by rule")
        ELSE IF \E r \in rules : r.allow # {} THEN Decided(FALSE, "not in the allow list")
        ELSE Decided(rbac.defaultAllow, "default policy")

ShadowMode(rbac) == rbac.defaultAllow /\ rbac.rules = <<>>

-----------------------------------------------------------------------------
(* The engine. An engine has its rules and the detectors that are switched
   on. An event carries what they would find in it: for a tool list whether it
   can be parsed, whether a tool changed and whether a text is suspect, for a
   result whether its text is suspect. *)

Pass == [allowed |-> TRUE, flags |-> {}]

Found(detector, evidence, engine, flag) ==
    IF detector \in engine.detectors /\ evidence THEN {flag} ELSE {}

checkRBAC(engine, ev) ==
    IF Check(engine.rbac, ev.client, ev.tool).allowed THEN Pass
    ELSE [allowed |-> FALSE, flags |-> {"rbac_denied"}]

inspectToolList(engine, ev) ==
    IF ~ev.parses THEN Pass
    ELSE [Pass EXCEPT !.flags = Found("rug_pull", ev.changed, engine, "rug_pull")
                                \union Found("poisoning", ev.suspect, engine, "poisoning_suspect")]

inspectToolResult(engine, ev) ==
    [Pass EXCEPT !.flags = Found("results", ev.suspect, engine, "result_injection_suspect")]

Evaluate(engine, ev) ==
    IF ev.direction = "response" /\ ev.method = "tools/list" THEN inspectToolList(engine, ev)
    ELSE IF ev.direction = "request" /\ ev.method = "tools/call" THEN checkRBAC(engine, ev)
    ELSE IF ev.direction = "response" /\ ev.method = "tools/call" THEN inspectToolResult(engine, ev)
    ELSE Pass

-----------------------------------------------------------------------------
(* What the documentation promises *)

(* A wildcard stands for any run of characters, and every other character for
   itself: the places of s from which the rest of s is something that
   pattern[i..] stands for. *)
StandsFor(pattern, s) ==
    LET from[i \in 1..Len(pattern) + 1] ==
            IF i > Len(pattern) THEN {Len(s) + 1}
            ELSE IF pattern[i] = Star THEN {j \in 1..Len(s) + 1 : \E k \in from[i + 1] : j <= k}
            ELSE {j \in 1..Len(s) : s[j] = pattern[i] /\ j + 1 \in from[i + 1]}
    IN  1 \in from[1]

(* The decision on a call is that of the four steps above type RBAC (rbac.go),
   with the patterns of all matching rules taken together, so that it depends
   neither on the order of rules nor on where their literals are looked for;
   and a policy that the banner calls shadow mode lets everything pass. *)
RulesDecide(rbac, client, tool) ==
    LET mine   == {r \in ToSet(rbac.rules) : StandsFor(r.client, client)}
        denies == UNION {r.deny : r \in mine}
        allows == UNION {r.allow : r \in mine}
        Names(patterns) == \E p \in patterns : StandsFor(p, tool)
    IN  /\ Check(rbac, client, tool).allowed <=>
               /\ ~Names(denies)
               /\ Names(allows) \/ (allows = {} /\ rbac.defaultAllow)
        /\ ShadowMode(rbac) => Check(rbac, client, tool).allowed

(* Evaluate refuses nothing but a tool call that the rules deny, and says so in
   a flag; every other flag is raised exactly when its detector is on and has
   evidence in a list that parses, or in a result. *)
EngineDecides(engine, ev) ==
    LET decision == Evaluate(engine, ev)
        call     == ev.direction = "request" /\ ev.method = "tools/call"
        list     == ev.direction = "response" /\ ev.method = "tools/list" /\ ev.parses
        Raised(flag) == flag \in decision.flags
    IN  /\ ~decision.allowed <=> "rbac_denied" \in decision.flags
        /\ ~decision.allowed => call /\ ~Check(engine.rbac, ev.client, ev.tool).allowed
        /\ Raised("rug_pull") <=> "rug_pull" \in engine.detectors /\ list /\ ev.changed
        /\ Raised("poisoning_suspect") <=> "poisoning" \in engine.detectors /\ list /\ ev.suspect
        /\ Raised("result_injection_suspect") <=>
               /\ "results" \in engine.detectors
               /\ ev.direction = "response" /\ ev.method = "tools/call" /\ ev.suspect
=============================================================================
