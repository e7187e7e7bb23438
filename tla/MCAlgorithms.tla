---------------------------- MODULE MCAlgorithms ----------------------------
(* The pure parts of the program on bounded inputs: each step puts one question
   to one of them, and the invariants compare the answer with what it should
   be. *)
EXTENDS Scanners, ResultWalk

D == INSTANCE SnapshotDiff
R == INSTANCE Policy
S == INSTANCE Startup
N == INSTANCE ServerName

VARIABLE asked

Nothing == [kind |-> "nothing"]

Init == asked = Nothing

Ready == asked = Nothing

Ask(question) == asked' = question

-----------------------------------------------------------------------------
Texts(letters, n) == SeqOf(letters, n)

Rules ==
    [client : {<<"*">>, <<"c">>}, allow : {{}, {<<"a">>}, {<<"a", "*">>, <<"b">>}},
     deny : {{}, {<<"b">>}, {<<"*", "b">>}}]

RuleSets == Texts(Rules, 2)

AskMatch ==
    Ready /\ \E p \in Texts({"a", "b", "*"}, 5), s \in Texts({"a", "b"}, 4) :
        Ask([kind |-> "rules", client |-> <<"c">>, tool |-> s,
             rbac |-> [defaultAllow |-> TRUE,
                       rules |-> <<[client |-> <<"*">>, allow |-> {p}, deny |-> {}]>>]])

AskRules ==
    Ready /\ \E rules \in RuleSets, default \in BOOLEAN, client \in {<<"c">>, <<>>},
       tool \in {<<"a">>, <<"b">>, <<"a", "b">>} :
        Ask([kind |-> "rules", client |-> client, tool |-> tool,
             rbac |-> [defaultAllow |-> default, rules |-> rules]])

Engines ==
    [rbac : {[defaultAllow |-> d, rules |-> r] :
                d \in BOOLEAN,
                r \in {<<>>, <<[client |-> <<"*">>, allow |-> {<<"a">>}, deny |-> {<<"b">>}]>>}},
     detectors : SUBSET {"rug_pull", "poisoning", "results"}]

Observed ==
    [direction : {"request", "response"}, method : {"tools/list", "tools/call", "other"},
     client : {<<"c">>}, tool : {<<"a">>, <<"b">>}, parses : BOOLEAN, changed : BOOLEAN, suspect : BOOLEAN]

AskEngine == Ready /\ \E engine \in Engines, ev \in Observed :
    Ask([kind |-> "engine", engine |-> engine, event |-> ev])

(* Rules decide as documented, and the engine refuses nothing else. *)
PolicyDecides ==
    /\ asked.kind = "rules" => R!RulesDecide(asked.rbac, asked.client, asked.tool)
    /\ asked.kind = "engine" => R!EngineDecides(asked.engine, asked.event)

-----------------------------------------------------------------------------
Words == {<<>>, <<"send">>, <<"url">>, <<"send", "url">>, <<"hide">>}

Schemas ==
    [valid : BOOLEAN,
     values : Texts([path : {<<>>, <<"$schema">>, <<"hide", "$id">>}, text : {<<>>, <<"url">>, <<"send">>}], 2)]

AskTools == Ready /\ \E d1, d2 \in Words, schema \in Schemas :
    Ask([kind |-> "tools",
         tools |-> <<[description |-> d1, schema |-> schema],
                     [description |-> d2, schema |-> [valid |-> TRUE, values |-> <<>>]]>>])

(* A window reaches as far as it has to and no further. *)
Reach == [concealment |-> 1, instruction_override |-> 1]
Enough == [rule \in SlowRules |-> Len(Keyword[rule]) + Gap + 1]

OverrideTexts ==
    {FlattenSeq(pieces) :
        pieces \in Texts({<<"d", "s", "r">>, <<"d", "S", "r">>, <<"d", "longs", "r">>,
                          <<"r">>, <<"u">>, <<" ">>, <<".">>}, 5)}

AskText ==
    Ready /\ \E rule \in SlowRules :
        \E text \in IF rule = "instruction_override" THEN OverrideTexts
                    ELSE Texts({"d", "n", "N", "u", " ", "."}, 5) \union Texts({"d", "n", "u", " "}, 8) :
            Ask([kind |-> "text", rule |-> rule, text |-> text])

Strings == {[type |-> "string", text |-> s] :
               s \in {<<>>, <<"a">>, <<"~">>, <<"a", "a">>, <<"a", "a", "~">>, <<Quote, "a">>, <<"/", "a">>}}

ObjectOf(keys, items) == [type |-> "object", keys |-> keys, items |-> items]
ArrayOf(items) == [type |-> "array", items |-> items]

Containers(values) ==
    {ArrayOf(items) : items \in Texts(values, 2)}
        \union {ObjectOf([i \in DOMAIN items |-> <<"a", "~">>], items) : items \in Texts(values, 2)}

SomeStrings == {[type |-> "string", text |-> s] : s \in {<<"~">>, <<"a", "a">>}}

Documents == Strings \union Containers(Strings) \union Containers(SomeStrings \union Containers({[type |-> "string", text |-> <<"~">>]}))

AskResult ==
    Ready /\ \E value \in Documents, inspect \in 0..24, budget \in {0, 1, 2, 3, 5, 20} :
        Ask([kind |-> "result", value |-> value, inspect |-> inspect, budget |-> budget])


-----------------------------------------------------------------------------
AskChunks == Ready /\ \E a, b \in Texts({"x", "y", "z"}, 4) : Ask([kind |-> "chunks", old |-> a, new |-> b])

Snapshots == [description : Texts({"a", ".", " ", D!NewLine}, 4), schema : {<<>>, <<"p">>}]

AskDiff ==
    Ready /\ \E old \in Snapshots :
        \E new \in {[description |-> <<>>, schema |-> <<>>], [old EXCEPT !.description = Reverse(@)],
                    [old EXCEPT !.schema = <<"p", "q">>],
                    [old EXCEPT !.description = SelectSeq(@, LAMBDA c : c # " ")]} :
            Ask([kind |-> "diff", old |-> old, new |-> new])

(* What `lock diff` shows is what changed. *)
DiffIsFaithful ==
    /\ asked.kind = "chunks" => D!DiffIsExact(asked.old, asked.new)
    /\ asked.kind = "diff" => D!DiffHidesNothing(asked.old, asked.new)

-----------------------------------------------------------------------------
Flags == [config : {"", "named"}, log : {S!NoPath, [tilde |-> FALSE, name |-> "mine"]}, server_name : {"", "mine"}]

NoFlags == [config |-> "", log |-> S!NoPath, server_name |-> ""]

(* Of home directory, store and log, at most one is wrong. *)
World(files, env, wrong) ==
    [files |-> files, env |-> env,
     home |-> wrong # "home", storeReads |-> wrong # "store", logOpens |-> wrong # "log"]

Wrongs == {"nothing", "home", "store", "log"}

File(keys) == [opens |-> TRUE, parses |-> TRUE, keys |-> keys]

Key(key, value) == key :> value

Choice(word) == [word : {word}, upper : BOOLEAN, padded : BOOLEAN]

OkRule == [client |-> <<"*">>, allow |-> {<<"a">>}, deny |-> {}]

(* Files that set the keys of one section or of none. *)
Contents ==
    {[x \in {} |-> x]}
    \union {Key("mode", m) : m \in {"", "stdio", "http", "other"}}
    \union {Key("rbac_default", w) @@ Key("rules", r) :
               w \in UNION {Choice(c) : c \in {"", "allow", "deny", "other"}},
               r \in {<<>>, <<OkRule>>, <<OkRule, [OkRule EXCEPT !.client = <<>>]>>, <<[OkRule EXCEPT !.allow = {}]>>}}
    \union {Key("rug_pull_detection", a) @@ Key("poisoning_heuristics", b) @@ Key("result_scanning", c)
                @@ Key("state_path", p) :
               a, b, c \in {"true", "false", "null"}, p \in {S!NoPath, [tilde |-> FALSE, name |-> "s"]}}
    \union {Key("jsonl_path", p) : p \in {S!NoPath, [tilde |-> FALSE, name |-> "l"]}}
    \union {Key("webhook_enabled", e) @@ Key("url", [scheme |-> s, host |-> h])
                @@ Key("format", f) @@ Key("send", d) :
               e \in BOOLEAN, s \in {"", "http", "ftp"}, h \in {"", "slack", "discord", "other"},
               f \in Choice("Slack") \union Choice("slack") \union Choice("generic") \union {S!Empty, S!Written("auto")},
               d \in Choice("all") \union {S!Empty, S!Written("flagged"), S!Written("some")}}
    \union {Key("hosted", h) : h \in {"disabled", "enabled"}}

Good == File(Key("rules", <<OkRule>>))
Bad  == {[Good EXCEPT !.opens = FALSE], [Good EXCEPT !.parses = FALSE]}

Command == <<<<"npx">>, <<"-y">>, <<"one">>>>

Start(flags, words, command, name, world) ==
    Ask([kind |-> "start", flags |-> flags, words |-> words, command |-> command, name |-> name, world |-> world])

AskLoad ==
    Ready /\ \E flags \in Flags, keys \in Contents, wrong \in Wrongs :
        Start(flags, Command, Command, "one",
              World([p \in {"named", "mcp-audit.yaml"} |-> File(keys)], "", wrong))

AskPlaces ==
    Ready /\ \E present \in SUBSET {"named", "env", "mcp-audit.yaml", "mcp-audit.yml", "~/.mcp-audit/config.yaml"},
       flags \in Flags, env \in {"", "env"}, wrong \in Wrongs, bad \in Bad :
        \E bads \in SUBSET present :
            Start(flags, Command, Command, "one",
                  World([p \in present |-> IF p \in bads THEN bad ELSE Good], env, wrong))

AskName ==
    Ready /\ \E name \in {"one", "two"} : \E command \in N!Launches(name), dashes \in {<<>>, <<<<"--">>>>} :
        Start(NoFlags, dashes \o command, command, name, World([x \in {} |-> x], "", "nothing"))

AskServe ==
    Ready /\ \E target \in {S!NoURL} \union [scheme : {"https", "ftp"}, host : {"", "host"}],
       flags \in Flags, keys \in Contents, wrong \in Wrongs :
        Ask([kind |-> "serve", flags |-> flags, target |-> target,
             world |-> World([p \in {"named", "mcp-audit.yaml"} |-> File(keys)], "", wrong)])

(* A process that starts runs what its user asked for. *)
StartsAsAsked ==
    /\ asked.kind = "start" =>
           S!StartsAsAsked(asked.flags, asked.words, asked.command, asked.name, asked.world)
    /\ asked.kind = "serve" => S!ServesAsAsked(asked.flags, asked.target, asked.world)

-----------------------------------------------------------------------------
Next ==
    \/ AskMatch
    \/ AskRules
    \/ AskEngine
    \/ AskTools
    \/ AskText
    \/ AskResult
    \/ AskChunks
    \/ AskDiff
    \/ AskLoad
    \/ AskPlaces
    \/ AskName
    \/ AskServe

Spec == Init /\ [][Next]_asked
=============================================================================
