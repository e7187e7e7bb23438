------------------------------- MODULE Startup -------------------------------
(***************************************************************************)
(* How `mcp-audit run` and `mcp-audit serve` come to a running pipeline:   *)
(* the parts of cmdRun and cmdServe before the session, with loadConfig,   *)
(* newPipeline and splitAtDoubleDash (cmd/mcp-audit/main.go). It puts      *)
(* Configuration, ServerName and the rules of Policy together.             *)
(*                                                                         *)
(* What the flag package makes of the options is given: the command line   *)
(* is those options and the words behind them.                             *)
(***************************************************************************)
EXTENDS Configuration

N == INSTANCE ServerName
P == INSTANCE Policy

Usage       == [exit |-> 2]
Refused     == [exit |-> 1]

(* The words in front of the first "--" and those behind it. *)
splitAtDoubleDash(words) ==
    LET dashes == {i \in DOMAIN words : words[i] = <<"--">>}
    IN  IF dashes = {} THEN [before |-> words, after |-> <<>>]
        ELSE [before |-> SubSeq(words, 1, Min(dashes) - 1),
              after  |-> SubSeq(words, Min(dashes) + 1, Len(words))]

loadConfig(flags, world) ==
    LET loaded == Load(flags.config, world)
    IN  IF loaded.ok /\ flags.log # NoPath
        THEN [loaded EXCEPT !.cfg.jsonl_path = flags.log]
        ELSE loaded

(* NewRBAC: the default it arrives at, or none if it is neither. *)
defaultDecision(cfg) ==
    LET folded == Folded(cfg.rbac_default)
    IN  IF folded = Empty THEN "allow"
        ELSE IF folded \in OneOf({"allow", "deny"}) THEN folded.word ELSE "none"

(* NewRugPullDetector and NewJSONL succeed: the store is absent, empty or one
   that can be read, and the log can be opened for appending. *)
StatePath(cfg) == IF cfg.state_path = NoPath THEN Default.state_path ELSE cfg.state_path
StoreLoads(cfg, world) == Expands(StatePath(cfg), world) /\ world.storeReads
LogOpens(cfg, world)   == Expands(cfg.jsonl_path, world) /\ world.logOpens

(* newPipeline succeeds: the engine with its rules and its fingerprint store,
   the log, and the webhook if there is one. *)
Runnable(cfg, world) ==
    /\ defaultDecision(cfg) # "none"
    /\ Enabled(cfg.rug_pull_detection) => StoreLoads(cfg, world)
    /\ LogOpens(cfg, world)
    /\ cfg.webhook_enabled => cfg.url # NoURL

(* What runs: the server, the name it is pinned under, the rules, the
   detectors, the store that changes are detected against, where the log goes
   and what the webhook is sent. *)
newPipeline(cfg, server, command) ==
    [exit |-> 0, command |-> command, server |-> server,
     rbac |-> [defaultAllow |-> defaultDecision(cfg) = "allow", rules |-> cfg.rules],
     detectors |-> {d \in {"rug_pull_detection", "poisoning_heuristics", "result_scanning"} : Enabled(cfg[d])},
     store |-> IF Enabled(cfg.rug_pull_detection) THEN {StatePath(cfg)} ELSE {},
     log |-> cfg.jsonl_path,
     webhook |-> IF cfg.webhook_enabled THEN {[format |-> ResolvedFormat(cfg), send |-> ResolvedSend(cfg)]}
                 ELSE {}]

cmdRun(flags, words, world) ==
    LET split   == splitAtDoubleDash(words)
        command == IF split.after = <<>> THEN split.before ELSE split.after
        loaded  == loadConfig(flags, world)
        server  == IF flags.server_name # "" THEN <<flags.server_name>> ELSE N!deriveServerName(command)
    IN  IF command = <<>> THEN Usage
        ELSE IF ~loaded.ok THEN Refused
        ELSE IF ~Runnable(loaded.cfg, world) THEN Refused
        ELSE newPipeline(loaded.cfg, server, command)

(* httpproxy.New succeeds: url.Parse finds a scheme and a host. *)
Forwards(target) == target.scheme \in {"http", "https"} /\ target.host # ""

(* A server without a name is pinned under its URL. *)
cmdServe(flags, target, world) ==
    LET loaded == loadConfig(flags, world)
        server == IF flags.server_name # "" THEN <<flags.server_name>>
                  ELSE <<target.scheme, "://", target.host>>
    IN  IF target = NoURL THEN Usage
        ELSE IF ~loaded.ok THEN Refused
        ELSE IF ~Runnable(loaded.cfg, world) \/ ~Forwards(target) THEN Refused
        ELSE newPipeline(loaded.cfg, server, target)

-----------------------------------------------------------------------------
(* The file a run is configured by: the one that was named, or the first that
   is there, "" if there is none. *)
ChosenFile(flags, world) ==
    LET places  == SearchPaths(world)
        present == {i \in DOMAIN places : places[i] \in DOMAIN world.files}
    IN  IF flags.config # "" THEN flags.config
        ELSE IF present = {} THEN "" ELSE places[Min(present)]

(* A process that starts audits as its user asked: by the rules, detectors,
   store, log and webhook of the chosen file or, for what it does not set, the
   built-in ones, which block and ship nothing; only the log may be named on
   the command line. What a webhook is sent is by its host if the file leaves
   it open: chats get their own format and flagged events only. It never runs
   without its log, nor detects changes against a store it could not read. *)
AuditsAsAsked(run, flags, world) ==
    LET file   == ChosenFile(flags, world)
        exists == file \in DOMAIN world.files
        keys   == IF exists THEN world.files[file].keys ELSE [x \in {} |-> x]
        Asked(key, default) == IF key \in DOMAIN keys THEN keys[key] ELSE default
        Path(key, default)  == IF Asked(key, NoPath) = NoPath THEN default ELSE keys[key]
        host   == Asked("url", NoURL).host
        chat   == IF host \in {"slack", "discord"} THEN host ELSE "generic"
        format == IF Asked("format", Empty).word \in {"", "auto"} THEN chat ELSE keys["format"].word
        send   == IF Asked("send", Empty).word # "" THEN keys["send"].word
                  ELSE IF format = "generic" THEN "all" ELSE "flagged"
    IN  /\ exists \/ (file = "" /\ P!ShadowMode(run.rbac))
        /\ run.rbac.rules = Asked("rules", <<>>)
        /\ run.rbac.defaultAllow <=> Asked("rbac_default", Empty).word # "deny"
        /\ \A d \in {"rug_pull_detection", "poisoning_heuristics", "result_scanning"} :
               Asked(d, "true") # "false" <=> d \in run.detectors
        /\ run.store = IF "rug_pull_detection" \in run.detectors
                       THEN {Path("state_path", Home("state"))} ELSE {}
        /\ run.store # {} => world.storeReads
        /\ run.log = IF flags.log # NoPath THEN flags.log ELSE Path("jsonl_path", Home("log"))
        /\ world.logOpens
        /\ run.webhook = IF Asked("webhook_enabled", FALSE)
                         THEN {[format |-> format, send |-> send]} ELSE {}

(* It fronts the server of the command line, under a name of its own. *)
FrontsAsAsked(run, flags, command, name) ==
    /\ run.command = command
    /\ run.server = IF flags.server_name # "" THEN <<flags.server_name>> ELSE name

(* What a start needs and a machine may not have. *)
Lacks(world) == ~world.home \/ ~world.storeReads \/ ~world.logOpens

(* "Tolerate `mcp-audit run npx ...` without the separator" (main.go:140) does
   not hold of a command with a "--" of its own: the first one is then taken for
   the separator, and what stands in front of it is lost. *)
Separable(words) == words[1] = <<"--">> \/ \A i \in DOMAIN words : words[i] # <<"--">>

IsCutShort(words, command) ==
    \E i \in DOMAIN words : words[i] = <<"--">> /\ SubSeq(words, i, Len(words)) = <<<<"--">>>> \o command

(* A start that succeeds is as above. One that fails has no command, or a file
   that is missing, cannot be read or is invalid, or a machine that lacks what
   it needs: a file that Load accepts never fails in newPipeline for what it
   says. *)
StartsAsAsked(flags, words, command, name, world) ==
    LET run    == cmdRun(flags, words, world)
        loaded == loadConfig(flags, world)
    IN  /\ run.exit = 0 => AuditsAsAsked(run, flags, world)
        /\ run.exit = 0 =>
              IF Separable(words) THEN FrontsAsAsked(run, flags, command, <<name>>)
              ELSE IsCutShort(words, run.command)
        /\ loaded.ok /\ ~Lacks(world) => Runnable(loaded.cfg, world)
        /\ run.exit = 1 => ChosenFile(flags, world) # "" \/ Lacks(world)

(* The same of a proxy for HTTP, which may also have a target it cannot use. *)
ServesAsAsked(flags, target, world) ==
    LET run == cmdServe(flags, target, world)
        url == <<target.scheme, "://", target.host>>
    IN  /\ run.exit = 0 => /\ Forwards(target)
                          /\ AuditsAsAsked(run, flags, world) /\ FrontsAsAsked(run, flags, target, url)
        /\ run.exit = 1 => ChosenFile(flags, world) # "" \/ Lacks(world) \/ ~Forwards(target)
=============================================================================
