-------------------------------- MODULE Startup --------------------------------
(***************************************************************************)
(* A run of the program from main() to its exit status: the command line,  *)
(* the configuration layers, the choice of front end, the headless request *)
(* and the dispatch of a command (src/main.c, src/cli/args.c,              *)
(* src/cli/commands.c, src/core/config.c, src/core/request_json.c).        *)
(*                                                                         *)
(* A token of a command line is a word, or one of the dashed tokens below: *)
(* a flag stands for its option "--debug" ... "--no-color".  A JSON        *)
(* document is the sequence of what its parser meets, in order.            *)
(***************************************************************************)
EXTENDS FiniteSets, FiniteSetsExt, ConfigFlags

CONSTANTS
  Inputs,    \* what a run may be given: [argv, file, env, tty_in, tty_out, request]
  MaxArgs    \* APP_MAX_COMMAND_ARGS

\* A member of a request is [command |-> c], [args |-> words], [flags |-> layer],
\* or [other |-> e] for a key that is skipped and how skipping its value ends.
Nothing == "nothing"
Members ==
  [command : Words] \cup [args : Seq(Words)] \cup [flags : Seq(Assignments)]
  \cup [other : {"NONE", "CONFIG_PARSE", "OUT_OF_RANGE", "MEMORY"}]

FileEnds == {"missing", "unreadable", "too_large", "malformed", "complete"}
RequestKinds == {"unreadable", "blank", "json"}

ASSUME StartupAssumption ==
  /\ MaxArgs \in Nat
  /\ Nothing \notin Words
  /\ Inputs \subseteq
       [argv : Seq(Words), file : [ends : FileEnds, entries : Seq(Assignments)],
        env : SUBSET Flags, tty_in : BOOLEAN, tty_out : BOOLEAN,
        request : [kind : RequestKinds, members : Seq(Members)]]

VARIABLES
  input,     \* the input of this run
  at,        \* the next step of main()
  front,     \* the front end main() chose
  flags,     \* config->flags
  config_file, command, args,
  level,     \* the log level
  said,      \* the format of the diagnostic written last
  ran,       \* what answered the run: a command, "help", "tui" or Nothing
  err        \* the exit status, "NONE" until main() returns

config == <<flags, config_file, command, args>>
vars == <<input, at, front, config, level, said, ran, err>>

Builtins == {"help", "version"}
\* Long are shaped "--name", which validation of a command takes for an option;
\* "-x" is an option to the program and a positional to a command.
Long == Flags \cup Builtins \cup {"config", "deep", "bogus"}
Dashed == Long \cup {"--", "-x"}

\* g_app_commands: how many positionals a command takes at most (none needs one).
Unbounded == -1
Commands == {"hello", "echo", "info", "doctor", "menu", "opencli"}
MaxPositionals(c) == CASE c = "hello" -> 1 [] c = "echo" -> Unbounded [] OTHER -> 0
CommandOptions(c) == IF c = "doctor" THEN {"deep"} ELSE {}

\* app_command_find. Mutant: any word names a command.
AnyWord(c) == c # Nothing
Registered(c) == c \in Commands

RequiresTerminal(c) == c = "menu"

Interactive == input.tty_in /\ input.tty_out
Json == flags["json"] /\ ~flags["plain"]
Format == IF Json THEN "json" ELSE "text"

-----------------------------------------------------------------------------
(* The command line (args.c)                                               *)

\* What the scans take the next token for, after one they took for taken: an
\* option, one token or two, up to the first word.
TakenAfter(taken, token) ==
  CASE taken = "value" -> "option"
    [] taken = "option" /\ token \in Dashed -> IF token = "config" THEN "value" ELSE "option"
    [] OTHER -> "rest"

\* What they take the token after the first n for.
Taken(argv) ==
  LET next[n \in 0..Len(argv)] == IF n = 0 THEN "option" ELSE TakenAfter(next[n - 1], argv[n])
  IN next

\* The positions they visit: the options, and the first word or the end.
Visited(argv) == {i \in 1..Len(argv) + 1 : Taken(argv)[i - 1] = "option"}

Options(argv) == {i \in Visited(argv) : i <= Len(argv) /\ argv[i] \in Dashed}

\* app_args_handle_immediate_exit
ImmediateExit(argv) ==
  \E i \in Options(argv) :
    /\ argv[i] \in Builtins
    /\ \A j \in Options(argv) : j < i => argv[j] # "--"

\* app_scan_global_args: the first option that is unknown or lacks its value.
ScanError(argv) ==
  LET wrong(i) == CASE argv[i] \in Flags -> "NONE"
                    [] argv[i] = "config" -> IF i = Len(argv) THEN "MISSING_ARG" ELSE "NONE"
                    [] OTHER -> "UNKNOWN_OPTION"
      found == {i \in Options(argv) : wrong(i) # "NONE"}
  IN IF found = {} THEN "NONE" ELSE wrong(Min(found))

ConfigPath(argv) ==
  LET found == {i \in Options(argv) : argv[i] = "config"}
  IN IF found = {} THEN Nothing ELSE argv[Max(found) + 1]

\* app_args_try_bool_flag
FlagLayer(argv) ==
  [i \in DOMAIN argv |->
     [flag |-> IF i \in Options(argv) THEN argv[i] ELSE NoFlag, value |-> TRUE]]

CommandIndex(argv) == Max(Visited(argv))

-----------------------------------------------------------------------------
(* A request on standard input (request_json.c)                            *)

NoRequest == [command |-> Nothing, args |-> <<>>, flags |-> NoRequestFlags, err |-> "NONE"]

Failed(req, e) == [req EXCEPT !.err = e]

\* app_request_parse_args_array: the limit is tested before each argument.
AddArgs(req, words) ==
  LET room == MaxArgs - Len(req.args)
  IN IF Len(words) <= room
       THEN [req EXCEPT !.args = @ \o words]
       ELSE Failed([req EXCEPT !.args = @ \o SubSeq(words, 1, room)], "OUT_OF_RANGE")

\* app_request_parse_flags_object: a request that fails is thrown away with what
\* it has recorded.
AddFlags(req, layer) ==
  IF \E i \in DOMAIN layer : layer[i].flag \notin Flags
    THEN Failed(req, "UNKNOWN_OPTION")
    ELSE [req EXCEPT !.flags = RecordAll(@, layer)]

Has(m, key) == key \in DOMAIN m

Member(req, m) ==
  IF req.err # "NONE" THEN req
  ELSE CASE Has(m, "command") -> [req EXCEPT !.command = m.command]
         [] Has(m, "args") -> AddArgs(req, m.args)
         [] Has(m, "flags") -> AddFlags(req, m.flags)
         [] Has(m, "other") -> Failed(req, m.other)

\* app_request_parse_json: the command may be absent or the empty string.
ParseRequest(members) ==
  LET parsed[n \in 0..Len(members)] ==
        IF n = 0 THEN NoRequest ELSE Member(parsed[n - 1], members[n])
      req == parsed[Len(members)]
  IN IF req.err = "NONE" /\ req.command \in {Nothing, ""} THEN Failed(req, "MISSING_ARG") ELSE req

-----------------------------------------------------------------------------
(* Validation of a command's arguments (main.c and commands.c)             *)

BeforeDelimiter(i) == \A j \in 1..i : args[j] # "--"

HelpAsked == \E i \in DOMAIN args : args[i] = "help" /\ BeforeDelimiter(i)

UnknownOptionGiven ==
  \E i \in DOMAIN args : args[i] \in Long \ CommandOptions(command) /\ BeforeDelimiter(i)

\* Every token but the first delimiter and the options before it.
Positionals ==
  {i \in DOMAIN args : \/ ~BeforeDelimiter(i) /\ ~ (args[i] = "--" /\ BeforeDelimiter(i - 1))
                       \/ args[i] \notin Long \cup {"--"} /\ BeforeDelimiter(i)}

TooManyPositionals ==
  /\ MaxPositionals(command) # Unbounded
  /\ Cardinality(Positionals) > MaxPositionals(command)

-----------------------------------------------------------------------------
(* main(), step by step                                                    *)

Init ==
  /\ input \in Inputs
  /\ at = "start"
  /\ front = Nothing
  /\ flags = NoFlags
  /\ config_file = Nothing
  /\ command = Nothing
  /\ args = <<>>
  /\ level = IF "debug" \in input.env THEN "DEBUG" ELSE "ERROR"   \* app_log_init
  /\ said = Nothing
  /\ ran = Nothing
  /\ err = "NONE"

Exit(status, format) ==
  /\ at' = "exit"
  /\ err' = status
  /\ said' = format

Go(step) ==
  /\ at' = step
  /\ UNCHANGED <<said, err>>

\* The immediate options answer before anything else is looked at.
Start ==
  /\ at = "start"
  /\ IF ImmediateExit(input.argv)
       THEN Exit("SUCCESS", said) /\ ran' = "help"
       ELSE Go("scan") /\ UNCHANGED ran
  /\ UNCHANGED <<input, front, config, level>>

\* app_args_find_config_path
FindConfigPath ==
  /\ at = "scan"
  /\ LET e == ScanError(input.argv)
     IN IF e = "NONE" THEN Go("file") ELSE Exit(e, "text")
  /\ UNCHANGED <<input, front, config, level, ran>>

\* app_config_load_file: values are staged, and committed only when the whole
\* document was read.  Without --config it is no error that no file is found;
\* a file that APP_CONFIG_PATH names and that cannot be opened is "unreadable".
FileError ==
  CASE input.file.ends = "missing" -> IF ConfigPath(input.argv) = Nothing THEN "NONE" ELSE "IO"
    [] input.file.ends = "unreadable" -> "IO"
    [] input.file.ends = "too_large" -> "OUT_OF_RANGE"
    [] input.file.ends = "malformed" -> "CONFIG_PARSE"
    [] OTHER -> "NONE"

\* Keys the program does not know are skipped.
FileLayer == IF input.file.ends = "complete" THEN input.file.entries ELSE <<>>

LoadFile ==
  /\ at = "file"
  /\ IF FileError # "NONE"
       THEN Exit(FileError, "text") /\ UNCHANGED <<flags, config_file>>
       ELSE /\ Go("env")
            /\ flags' = ApplyAll(flags, FileLayer)
            /\ config_file' = CASE input.file.ends = "missing" -> Nothing
                                [] ConfigPath(input.argv) = Nothing -> "discovered"
                                [] OTHER -> ConfigPath(input.argv)
  /\ UNCHANGED <<input, front, command, args, level, ran>>

LoadEnv ==
  /\ at = "env"
  /\ flags' = ApplyAll(flags, SetTrue(input.env))
  /\ Go(IF input.argv = <<>> THEN "defaults" ELSE "args")
  /\ UNCHANGED <<input, front, config_file, command, args, level, ran>>

\* Mutant: no limit.
NeverTooMany(given) == FALSE
TooManyWords(given) == Len(given) > MaxArgs

GivenArgs(argv) == SubSeq(argv, CommandIndex(argv) + 1, Len(argv))

\* app_parse_args: both scans of the same command line succeeded before.  The
\* words beyond the limit are refused without a word on stderr.
ParseArgs ==
  /\ at = "args"
  /\ flags' = ApplyAll(flags, FlagLayer(input.argv))
  /\ config_file' = IF ConfigPath(input.argv) = Nothing THEN config_file ELSE ConfigPath(input.argv)
  /\ IF CommandIndex(input.argv) > Len(input.argv)
       THEN Go("defaults") /\ UNCHANGED <<command, args>>
       ELSE LET given == GivenArgs(input.argv)
            IN /\ command' = input.argv[CommandIndex(input.argv)]
               /\ args' = IF TooManyWords(given) THEN SubSeq(given, 1, MaxArgs) ELSE given
               /\ IF TooManyWords(given) THEN Exit("OUT_OF_RANGE", said) ELSE Go("defaults")
  /\ UNCHANGED <<input, front, level, ran>>

\* Mutant: JSON whenever the output is no terminal.
DefaultedAlways(values) == IF ~input.tty_out THEN Apply(values, "json", TRUE) ELSE values

\* app_config_apply_output_defaults
Defaulted(values) ==
  IF ~input.tty_out /\ ~values["plain"] /\ ~values["json"]
    THEN Apply(values, "json", TRUE) ELSE values

\* The defaults, and the log level that main() sets from the flags.
OutputDefaults ==
  /\ at = "defaults"
  /\ flags' = Defaulted(flags)
  /\ level' = CASE flags["quiet"] -> "ERROR"
                [] flags["debug"] -> "DEBUG"
                [] flags["verbose"] -> "INFO"
                [] OTHER -> level
  /\ Go("front")
  /\ UNCHANGED <<input, front, config_file, command, args, ran>>

\* Mutant: plain text may be asked for.
ForceJsonUnlessPlain(values) == IF values["plain"] THEN values ELSE Apply(values, "json", TRUE)
ForceJson(values) == Apply(Apply(values, "plain", FALSE), "json", TRUE)

\* A bare invocation opens the TUI on a terminal, and reads a request elsewhere.
ChooseFrontEnd ==
  /\ at = "front"
  /\ \/ /\ input.argv # <<>>
        /\ front' = "command" /\ Go("dispatch") /\ UNCHANGED flags
     \/ /\ input.argv = <<>> /\ Interactive
        /\ front' = "tui" /\ UNCHANGED flags
        /\ IF Json THEN Exit("INVALID_ARG", "json") ELSE Go("tui")
     \/ /\ input.argv = <<>> /\ ~Interactive
        /\ front' = "headless" /\ flags' = ForceJson(flags) /\ Go("read")
  /\ UNCHANGED <<input, config_file, command, args, level, ran>>

\* The rest of app_run_headless_json up to the dispatch.
ReadRequest ==
  /\ at = "read"
  /\ LET req == ParseRequest(input.request.members)
         e == CASE input.tty_in -> "MISSING_ARG"
                [] input.request.kind = "unreadable" -> "IO"
                [] input.request.kind = "blank" -> "MISSING_ARG"
                [] OTHER -> req.err
     IN IF e # "NONE"
          THEN Exit(e, Format) /\ UNCHANGED <<flags, command, args>>
          ELSE /\ command' = req.command
               /\ args' = req.args
               /\ flags' = ForceJson(ApplyRequest(flags, req.flags))
               /\ Go("dispatch")
  /\ UNCHANGED <<input, front, config_file, level, ran>>

\* app_dispatch_configured_command up to the handler
Dispatch ==
  /\ at = "dispatch"
  /\ \/ /\ command = Nothing                                   \* concise help
        /\ ran' = "help" /\ Exit("INVALID_ARG", said)
     \/ /\ command # Nothing /\ ~Registered(command)
        /\ Exit("INVALID_COMMAND", Format) /\ UNCHANGED ran
     \/ /\ Registered(command) /\ HelpAsked
        /\ ran' = "help" /\ Exit("SUCCESS", said)
     \/ /\ Registered(command) /\ ~HelpAsked
        /\ IF RequiresTerminal(command) /\ ~Interactive THEN Exit("IO", Format)
           ELSE IF UnknownOptionGiven THEN Exit("UNKNOWN_OPTION", Format)
           ELSE IF TooManyPositionals THEN Exit("INVALID_ARG", Format)
           ELSE Go("handler")
        /\ UNCHANGED ran
  /\ UNCHANGED <<input, front, config, level>>

\* The handler of a command; echo builds its line in memory it may not get.
RunCommand ==
  /\ at = "handler"
  /\ \/ /\ command # "menu"
        /\ ran' = command
        /\ \/ Exit("SUCCESS", said)
           \/ command = "echo" /\ Exit("MEMORY", said)
     \/ /\ command = "menu" /\ Json                            \* app_cmd_menu
        /\ Exit("INVALID_ARG", Format) /\ UNCHANGED ran
     \/ /\ command = "menu" /\ ~Json
        /\ Go("tui") /\ UNCHANGED ran
  /\ UNCHANGED <<input, front, config, level>>

\* app_run_tui: a session that a signal ended is reported by its status alone.
QuietFailures == {"SUCCESS", "INTERRUPTED", "TERMINATED", "TUI_INIT"}   \* mutant
QuietResults == {"SUCCESS", "INTERRUPTED", "TERMINATED"}

RunTui ==
  /\ at = "tui"
  /\ ran' = "tui"
  /\ \E e \in QuietResults \cup {"OUT_OF_RANGE", "MEMORY", "TUI_INIT"} :
       Exit(e, IF e \in QuietResults THEN said ELSE Format)
  /\ UNCHANGED <<input, front, config, level>>

\* A copy that cannot be made ends the run where it was to be made.
OutOfMemory ==
  /\ \/ at \in {"start", "args"} /\ ~ImmediateExit(input.argv) /\ Exit("MEMORY", said)
     \/ at = "file" /\ FileError = "NONE" /\ Exit("MEMORY", "text")
     \/ at = "read" /\ ~input.tty_in /\ input.request.kind = "json" /\ Exit("MEMORY", Format)
  /\ UNCHANGED <<input, front, config, level, ran>>

Next ==
  \/ Start \/ FindConfigPath \/ LoadFile \/ LoadEnv \/ ParseArgs \/ OutputDefaults
  \/ ChooseFrontEnd \/ ReadRequest \/ Dispatch \/ RunCommand \/ RunTui \/ OutOfMemory

Spec == Init /\ [][Next]_vars

-----------------------------------------------------------------------------
(* Properties                                                              *)

\* The variables keep their types.
StartupTypeOK ==
  /\ flags \in [Flags -> BOOLEAN]
  /\ front \in {Nothing, "command", "tui", "headless"}
  /\ level \in {"ERROR", "INFO", "DEBUG"}
  /\ said \in {Nothing, "text", "json"}
  /\ ran \in Commands \cup {"help", "tui", Nothing}

\* However the layers disagree, two flags that exclude one another are never
\* both set (app_flag_apply, wherever flags are written).
FlagsExclusive == Exclusive(flags)

\* What a list of assignments means: a flag is set when some assignment sets it
\* and no later one clears it or sets a flag that excludes it.
LastWord(layer, f) ==
  \E i \in DOMAIN layer :
    /\ layer[i] = [flag |-> f, value |-> TRUE]
    /\ \A j \in i + 1..Len(layer) :
         /\ layer[j] # [flag |-> f, value |-> FALSE]
         /\ ~ (layer[j].value /\ f \in Excluded(layer[j].flag))

ProgramLayers == FileLayer \o SetTrue(input.env) \o FlagLayer(input.argv)

\* docs/CONTRACTS.md, "CLI args > environment > config file > defaults": the
\* flags a front end starts from are the last word of the layers in that order,
\* and JSON off a terminal unless a layer chose a format.
HigherLayersWin ==
  at = "front" \/ front = "command" =>
    \A f \in Flags :
      flags[f] <=> \/ LastWord(ProgramLayers, f)
                   \/ /\ f = "json" /\ ~input.tty_out
                      /\ ~LastWord(ProgramLayers, "plain")

\* What the members of a kind hold, one after the other.
Gathered(members, key) ==
  LET upto[n \in 0..Len(members)] ==
        IF n = 0 THEN <<>>
        ELSE upto[n - 1] \o (IF Has(members[n], key) THEN members[n][key] ELSE <<>>)
  IN upto[Len(members)]

DocumentFlags == Gathered(input.request.members, "flags")
DocumentArgs == Gathered(input.request.members, "args")

Distinct(layer) ==
  \A i, j \in DOMAIN layer : layer[i].flag = layer[j].flag => i = j

\* A request that names each flag once changes the flags as if its members were
\* applied in the order they are written, though they are collected first and
\* applied in table order; and the transport stays JSON.
RequestInDocumentOrder ==
  front = "headless" /\ command # Nothing /\ Distinct(DocumentFlags) =>
    \A f \in Flags :
      flags[f] <=> \/ f = "json"
                   \/ f # "plain" /\ LastWord(ProgramLayers \o DocumentFlags, f)

\* Whatever the configuration and the request ask for, a headless run reports
\* every error as JSON, and its command answers in JSON (docs/CONTRACTS.md,
\* "Parse and dispatch errors are written to stderr as JSON messages"); and the TUI,
\* which writes none, runs only on a terminal at both ends and never with JSON
\* selected, by either way in: a bare invocation or the menu command.
FormatKept ==
  /\ front = "headless" => said # "text" /\ Json
  /\ (at = "tui" \/ ran = "tui") => Interactive /\ ~flags["json"]

\* A handler sees all the arguments that were given, or does not run.
ArgumentsArriveWhole ==
  ran \in Commands =>
    /\ Len(args) <= MaxArgs
    /\ IF front = "command"
         THEN args = GivenArgs(input.argv)
         ELSE args = DocumentArgs

\* A run exits with success only when help, the TUI or a handler answered and
\* nothing was reported; a failure is reported, unless help was shown, a signal
\* ended the TUI, memory ran out or there were too many words.
ExitIsExplained ==
  at = "exit" =>
    IF err = "SUCCESS" THEN ran # Nothing /\ said = Nothing
    ELSE said # Nothing \/ ran = "help"
         \/ err \in {"INTERRUPTED", "TERMINATED", "MEMORY", "OUT_OF_RANGE"}
=============================================================================
