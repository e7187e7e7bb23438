--------------------------- MODULE Configuration ---------------------------
(***************************************************************************)
(* config.yaml: internal/config/config.go. Where the file is looked for,   *)
(* how it is laid over the built-in defaults, and what is refused.         *)
(*                                                                         *)
(* What a user writes for a setting with a choice is a word, in lower case *)
(* or not and with white space around it or not. A path may begin with a   *)
(* tilde. A URL has a scheme and a host. A file has the keys it sets.      *)
(***************************************************************************)
EXTENDS Naturals, Sequences, SequencesExt

Written(word) == [word |-> word, upper |-> FALSE, padded |-> FALSE]
ToLower(w)    == [w EXCEPT !.upper = FALSE]
TrimSpace(w)  == [w EXCEPT !.padded = FALSE]
Folded(w)     == ToLower(TrimSpace(w))
Empty         == Written("")
OneOf(words)  == {Written(w) : w \in words}

NoPath == [tilde |-> FALSE, name |-> ""]
Home(name) == [tilde |-> TRUE, name |-> name]
NoURL == [scheme |-> "", host |-> ""]

Default ==
    [mode |-> "", rbac_default |-> Written("allow"), rules |-> <<>>,
     rug_pull_detection |-> "true", poisoning_heuristics |-> "true", result_scanning |-> "true",
     state_path |-> Home("state"), jsonl_path |-> Home("log"),
     webhook_enabled |-> FALSE, url |-> NoURL, format |-> Empty, send |-> Empty,
     hosted |-> "absent"]

(* A detector is on unless the file says false: a null is as good as nothing. *)
Enabled(switch) == switch # "false"

ResolvedFormat(cfg) ==
    IF Folded(cfg.format) \notin OneOf({"", "auto"}) THEN Folded(cfg.format).word
    ELSE IF cfg.url.host \in {"slack", "discord"} THEN cfg.url.host
    ELSE "generic"

ResolvedSend(cfg) ==
    IF Folded(cfg.send) # Empty THEN Folded(cfg.send).word
    ELSE IF ResolvedFormat(cfg) = "generic" THEN "all" ELSE "flagged"

-----------------------------------------------------------------------------
applyDefaults(cfg) ==
    [cfg EXCEPT !.rbac_default = IF @ = Empty THEN Default.rbac_default ELSE @,
                !.state_path   = IF @ = NoPath THEN Default.state_path ELSE @,
                !.jsonl_path   = IF @ = NoPath THEN Default.jsonl_path ELSE @]

RuleIsValid(rule) == rule.client # <<>> /\ (rule.allow # {} \/ rule.deny # {})

WebhookIsValid(cfg) ==
    /\ cfg.url # NoURL
    /\ cfg.url.scheme \in {"http", "https"}
    /\ Folded(cfg.format) \in OneOf({"", "auto", "generic", "slack", "discord"})
    /\ Folded(cfg.send) \in OneOf({"", "all", "flagged"})

MutantValidate(cfg) ==
    /\ cfg.mode \in {"", "stdio", "http"}
    /\ \A i \in DOMAIN cfg.rules : RuleIsValid(cfg.rules[i])
    /\ Enabled(cfg.rug_pull_detection) => cfg.state_path # NoPath
    /\ cfg.jsonl_path # NoPath
    /\ cfg.webhook_enabled => WebhookIsValid(cfg)
    /\ cfg.hosted # "enabled"

Validate(cfg) ==
    /\ cfg.mode \in {"", "stdio", "http"}
    /\ ToLower(cfg.rbac_default) \in OneOf({"allow", "deny"})
    /\ \A i \in DOMAIN cfg.rules : RuleIsValid(cfg.rules[i])
    /\ Enabled(cfg.rug_pull_detection) => cfg.state_path # NoPath
    /\ cfg.jsonl_path # NoPath
    /\ cfg.webhook_enabled => WebhookIsValid(cfg)
    /\ cfg.hosted # "enabled"

-----------------------------------------------------------------------------
(* The world a process starts in: the files there are, each with whether it
   can be opened, whether it can be parsed (a key that is not known is an
   error) and the keys it sets; MCP_AUDIT_CONFIG, "" if it is not set; whether
   the home directory is known, the fingerprint store readable and the log one
   that can be opened. *)

Failed(error) == [ok |-> FALSE, error |-> error]
Loaded(cfg, source) == [ok |-> TRUE, cfg |-> cfg, source |-> source]

loadFile(path, world) ==
    IF path \notin DOMAIN world.files THEN Failed("not found")
    ELSE LET file == world.files[path]
             cfg  == applyDefaults(file.keys @@ Default)
         IN  IF ~file.opens THEN Failed("cannot read")
             ELSE IF ~file.parses THEN Failed("cannot parse")
             ELSE IF ~Validate(cfg) THEN Failed("invalid")
             ELSE Loaded(cfg, path)

SearchPaths(world) ==
    (IF world.env # "" THEN <<world.env>> ELSE <<>>)
        \o <<"mcp-audit.yaml", "mcp-audit.yml">>
        \o (IF world.home THEN <<"~/.mcp-audit/config.yaml">> ELSE <<>>)

Load(path, world) ==
    LET found == SelectSeq(SearchPaths(world), LAMBDA p : p \in DOMAIN world.files)
    IN  IF path # "" THEN loadFile(path, world)
        ELSE IF found # <<>> THEN loadFile(found[1], world)
        ELSE Loaded(Default, "")

(* ExpandPath succeeds: what is made of the path is the file system's. *)
Expands(path, world) == path # NoPath /\ (path.tilde => world.home)
=============================================================================
