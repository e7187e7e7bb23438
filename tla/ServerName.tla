----------------------------- MODULE ServerName -----------------------------
(***************************************************************************)
(* How a stdio server gets the name under which its tools are pinned, when *)
(* the user gives none: cmd/mcp-audit/servername.go. Two servers that get  *)
(* one name share one set of fingerprints.                                 *)
(*                                                                         *)
(* An argument is a sequence of tokens: the runs of letters of which it is *)
(* made, the punctuation between them and a file extension. A flag is one  *)
(* token, and so is a marker such as "git+" or "://".                      *)
(***************************************************************************)
EXTENDS Naturals, Sequences, SequencesExt

packageRunners     == {"npx", "bunx", "pnpx", "uvx"}
scriptInterpreters == {"node", "python", "python3", "py", "deno", "bun"}
subcommandRunners  == [pnpm |-> "dlx", yarn |-> "dlx", npm |-> "exec", pipx |-> "run", bun |-> "x"]

(* The table of flags that take the next argument, without most of docker's. *)
flagsWithValue(launcher) ==
    CASE launcher \in {"npx", "exec"} -> {"-p", "--package", "-c", "--call"}
      [] launcher \in {"pnpx", "dlx"} -> {"-p", "--package", "-c"}
      [] launcher \in {"bunx", "x"}   -> {"-p", "--package"}
      [] launcher = "uvx"    -> {"--from", "--with", "--python", "-p", "--index"}
      [] launcher = "run"    -> {"--spec", "--python", "--pip-args"}
      [] launcher = "docker" -> {"-e", "--env", "-v", "-p", "--name"}
      [] launcher = "node"   -> {"-r", "--require", "--import", "--loader", "-e", "--eval"}
      [] launcher \in {"python", "python3", "py"} -> {"-W", "-X", "-c"}
      [] launcher = "deno"   -> {"--config", "-c", "--import-map"}
      [] launcher = "bun"    -> {"--cwd", "--config"}
      [] OTHER -> {}

(* The flags there are in the model: those above, and some without a value. *)
Flags == UNION {flagsWithValue(l) :
                   l \in packageRunners \union scriptInterpreters \union {"dlx", "exec", "run", "x", "docker"}}
         \union {"-y", "-m", "-q", "--allow-net", "--rm"}

Extensions == {".js", ".py", ".ts"}
Executables == {".exe", ".cmd", ".bat", ".ps1"}

-----------------------------------------------------------------------------
At(arg, token) == {i \in DOMAIN arg : arg[i] = token}

(* What is behind the last of some tokens of arg, and what is in front of the
   first: all of it if there is none. *)
AfterLast(arg, at)   == IF at = {} THEN arg ELSE SubSeq(arg, Max(at) + 1, Len(arg))
BeforeFirst(arg, at) == IF at = {} THEN arg ELSE SubSeq(arg, 1, Min(at) - 1)

programName(path) ==
    LET base == AfterLast(path, At(path, "/") \union At(path, "\\"))
    IN  SelectSeq(base, LAMBDA token : token \notin Executables)

IsFlag(arg) == arg # <<>> /\ arg[1] \in Flags

firstPositional(launcher, args) ==
    LET first[i \in 1..Len(args) + 2] ==
            IF i > Len(args) THEN <<>>
            ELSE IF args[i] = <<"--">> THEN IF i < Len(args) THEN args[i + 1] ELSE <<>>
            ELSE IF ~IsFlag(args[i]) THEN args[i]
            ELSE IF Len(args[i]) = 1 /\ args[i][1] \in flagsWithValue(launcher) THEN first[i + 2]
            ELSE first[i + 1]
    IN  first[1]

cleanPackage(spec) ==
    IF \E i \in DOMAIN spec : spec[i] \in {"://", "git+"}
    THEN AfterLast(SelectSeq(spec, LAMBDA token : token # ".git"), At(spec, "/") \union At(spec, "://"))
    ELSE LET versions   == At(spec, "@") \ {1}
             unversioned == IF versions = {} THEN spec ELSE SubSeq(spec, 1, Max(versions) - 1)
             specifiers == {i \in DOMAIN unversioned : unversioned[i] \in {"==", "<", ">", "~=", "["}} \ {1}
             plain      == BeforeFirst(unversioned, specifiers)
         IN  AfterLast(plain, At(plain, "/"))

cleanImage(ref) ==
    LET undigested == BeforeFirst(ref, At(ref, "@"))
        base       == AfterLast(undigested, At(undigested, "/"))
    IN  BeforeFirst(base, At(base, ":"))

(* filepath.Dir of a path that has a directory, and "." of one that has not *)
Dir(path) ==
    IF At(path, "/") = {} THEN <<".">> ELSE SubSeq(path, 1, Max(At(path, "/")) - 1)

Base(path) == AfterLast(path, At(path, "/"))

MutantScriptName(script) == SelectSeq(Base(script), LAMBDA token : token \notin Extensions)

scriptName(script) ==
    LET path  == ReplaceAll(script, "\\", "/")
        name  == SelectSeq(Base(path), LAMBDA token : token \notin Extensions)
        above == Dir(path)
        dir   == IF Base(above) \in {<<d>> : d \in {"dist", "build", "src", "lib", "bin", "out"}}
                 THEN Base(Dir(above)) ELSE Base(above)
    IN  IF name \in {<<n>> : n \in {"index", "main", "server", "app", "__main__", "cli", "mod"}}
           /\ dir \notin {<<>>, <<".">>}
        THEN dir ELSE name

-----------------------------------------------------------------------------

(* `python -m module`: the argument behind the first -m that has one. *)
moduleArgument(args) ==
    LET modules == {i \in 1..Len(args) - 1 : args[i] = <<"-m">>}
    IN  IF modules = {} THEN <<>> ELSE args[Min(modules) + 1]

interpreted(program, args) ==
    LET module == IF program \in {"python", "python3", "py"} THEN moduleArgument(args) ELSE <<>>
        script == firstPositional(program, args)
        verb   == {i \in DOMAIN args : args[i] = <<"run">>}
    IN  IF module # <<>> THEN module
        ELSE IF program \in {"bun", "deno"} /\ script = <<"run">>
        THEN scriptName(firstPositional(program, SubSeq(args, Min(verb) + 1, Len(args))))
        ELSE scriptName(script)

(* A command is the program and its arguments. *)
deriveServerName(command) ==
    LET fallback == programName(command[1])
        program  == IF Len(fallback) = 1 THEN fallback[1] ELSE "other"
        args     == Tail(command)
        verb     == /\ program \in DOMAIN subcommandRunners
                    /\ args # <<>> /\ args[1] = <<subcommandRunners[program]>>
        docker   == program = "docker" /\ args # <<>> /\ args[1] = <<"run">>
        name     == IF verb
                    THEN cleanPackage(firstPositional(subcommandRunners[program], Tail(args)))
                    ELSE IF docker THEN cleanImage(firstPositional("docker", Tail(args)))
                    ELSE IF program \in packageRunners THEN cleanPackage(firstPositional(program, args))
                    ELSE IF program \in scriptInterpreters THEN interpreted(program, args)
                    ELSE <<>>
    IN  IF command = <<>> THEN <<>> ELSE IF name = <<>> THEN fallback ELSE name

-----------------------------------------------------------------------------
(* How servers are launched: a program, perhaps with a verb, then options, then
   what it is to run and the arguments of that. The forms in which a package,
   an image and a script can be named are those of the comments and tests of
   servername.go. *)

Options(launcher) ==
    {<<>>, <<<<"-y">>>>, <<<<"--">>>>, <<<<"-q">>, <<"--">>>>}
        \union UNION {{<<<<f>>, <<"value">>>>, <<<<f, "=", "value">>, <<"-y">>>>} : f \in flagsWithValue(launcher)}

PackageSpecs(name) ==
    {<<name>>, <<"@", "scope", "/", name>>, <<"@", "scope", "/", name, "@", "1">>, <<name, "@", "1">>,
     <<name, "==", "1">>, <<name, "[", "extra">>, <<"git+", "https", "://", "host", "/", name, ".git">>}

ImageRefs(name) ==
    {<<name>>, <<name, ":", "latest">>, <<"host", ":", "5000", "/", "owner", "/", name, "@", "sha256", ":", "1">>}

ScriptPaths(name) ==
    {<<name, ".js">>, <<"dir", "/", name, ".py">>, <<"/", name, "/", "index", ".js">>,
     <<name, "/", "dist", "/", "main", ".js">>, <<"C", "\\", name, "\\", "src", "\\", "server", ".ts">>}

(* The programs with their verbs, the table of flags that goes with them, and
   what they can run to run the server of this name. *)
Launchers(name) ==
    {[words |-> <<<<p>>>>, table |-> p, targets |-> PackageSpecs(name)] : p \in packageRunners}
    \union {[words |-> <<<<p>>, <<subcommandRunners[p]>>>>, table |-> subcommandRunners[p],
             targets |-> PackageSpecs(name)] : p \in DOMAIN subcommandRunners}
    \union {[words |-> <<<<"docker">>, <<"run">>>>, table |-> "docker", targets |-> ImageRefs(name)]}
    \union {[words |-> <<<<p>>>>, table |-> p, targets |-> ScriptPaths(name)] : p \in scriptInterpreters}
    \union {[words |-> <<<<p>>, <<"run">>>>, table |-> p, targets |-> ScriptPaths(name)] :
               p \in {"bun", "deno"}}
    \union {[words |-> <<<<p>>, <<"-m">>>>, table |-> "", targets |-> {<<name>>}] :
               p \in {"python", "python3", "py"}}
    \union {[words |-> <<<<"C", "\\", "bin", "\\", "npx", ".cmd">>>>, table |-> "npx", targets |-> {<<name>>}]}

(* All launches that mean the server of this name. *)
Launches(name) ==
    UNION {{l.words \o options \o <<target>> \o arguments :
               options \in IF l.table = "" THEN {<<>>} ELSE Options(l.table),
               target \in l.targets, arguments \in {<<>>, <<<<"--">>, <<"other">>>>}} :
           l \in Launchers(name)}
=============================================================================
