-------------------------------- MODULE CliTerm --------------------------------
(***************************************************************************)
(* Whether and how the command line is coloured                            *)
(* (src/cli/style/cli_term.c, cli_layout.c): every rendering decides from  *)
(* configuration, environment and stream whether to style, acquires the    *)
(* terminfo handle, resolves a colour profile and a light or dark theme -  *)
(* for which it may have to ask the terminal - and releases the handle.    *)
(* The answer to the question is kept for the process.                     *)
(*                                                                         *)
(* Unset environment variables have the value "unset".  The widths and the *)
(* force_* options of tests are left out.                                  *)
(***************************************************************************)
EXTENDS Osc11Query

CONSTANTS
  Environments,  \* see EnvironmentType
  Requests,      \* the renderings a process may ask for, see RequestType
  MaxRenders,    \* renderings per process (bounds the model)
  Light          \* the colours that app_color_is_light accepts

Forced == {"truecolor", "256", "16"}

EnvironmentType(e) ==
  /\ e.no_color \in BOOLEAN       \* NO_COLOR is set
  /\ e.color \in Forced \cup {"unset", "auto", "never", "other"}  \* APP_CLI_COLOR
  /\ e.test_profile \in Forced \cup {"unset", "none"}   \* APP_CLI_TEST_PROFILE
  /\ e.force_color \in BOOLEAN    \* FORCE_COLOR is set
  /\ e.dumb \in BOOLEAN           \* TERM=dumb
  /\ e.truecolor \in BOOLEAN      \* COLORTERM or TERM say so
  /\ e.entry \in BOOLEAN          \* setupterm finds a terminfo entry
  /\ e.colors \in {0, 8, 256}     \* and this number of colours in it
  /\ e.test_theme \in {"unset", "light", "dark", "auto"}  \* APP_CLI_TEST_THEME
  /\ e.theme \in {"unset", "light", "dark", "auto"}       \* APP_CLI_THEME
  /\ e.osc \in {"unset", "0", "1"}                        \* APP_CLI_OSC11
  /\ e.ci \in BOOLEAN             \* CI is set
  /\ e.test_bg \in {"unset", "light", "dark", "other"}    \* APP_CLI_TEST_BG
  /\ e.dev_tty \in BOOLEAN        \* /dev/tty can be opened

(***************************************************************************)
(* Who renders, on which kind of stream, and whether --plain, --no-color   *)
(* or --json were given.  --version and --help are answered before there   *)
(* is a configuration: their renderings get none.  The rest says what      *)
(* paragraph is written, from which column, with which indentation of the  *)
(* lines after the first, and ctx->width.                                  *)
(***************************************************************************)
RequestType(r) ==
  /\ r.kind \in {"version", "usage", "help", "error"}
  /\ r.plain \in BOOLEAN
  /\ r.is_tty \in BOOLEAN
  /\ r.start_col \in Nat /\ r.cont_indent \in Nat /\ r.width \in Nat

ASSUME TermAssumption ==
  /\ \A e \in Environments : EnvironmentType(e)
  /\ \A r \in Requests : RequestType(r)
  /\ MaxRenders \in Nat
  /\ Light \subseteq Colours

VARIABLES
  env,       \* the environment, fixed for the process
  request,   \* the rendering under way
  rpc,       \* "idle", "init", "detect", "query", "draw"
  handle,    \* the rendering holds a terminfo handle
  profile,   \* "none" or the colour profile
  theme,     \* "unset", "light" or "dark"
  probed,    \* the two statics of app_cli_term_detect_background
  cached,
  probes,    \* probes that ran to their end so far
  renders    \* renderings started so far

cacheVars == <<probed, cached, probes>>
renderVars == <<request, handle, profile, theme, renders>>
termVars == <<env, rpc, renderVars, cacheVars>>

NoRequest ==
  [kind |-> "error", plain |-> FALSE, is_tty |-> FALSE,
   text |-> <<>>, start_col |-> 0, cont_indent |-> 0, width |-> 0]

TermInit ==
  /\ QueryInit
  /\ env \in Environments
  /\ request = NoRequest /\ rpc = "idle"
  /\ handle = FALSE /\ profile = "none" /\ theme = "unset"
  /\ probed = FALSE /\ cached = "unknown" /\ probes = 0
  /\ renders = 0

\* What app_cli_hard_disabled sees of the flags.
ConfigPlain(r) == r.kind \in {"help", "error"} /\ r.plain

HardDisabled(r) ==
  ConfigPlain(r) \/ env.no_color \/ env.color = "never" \/ env.dumb

\* The forced profile: the test hook, then the public variable.
ForceProfile ==
  IF env.test_profile # "unset" THEN env.test_profile
  ELSE IF env.color \in {"auto", "never"} THEN "unset"
  ELSE env.color

Parsed(s) == IF s \in Forced THEN s ELSE "none"

\* Mutant: a forced profile is looked at first.
ForcedFirst(r) ==
  IF ForceProfile # "unset" THEN Parsed(ForceProfile) # "none"
  ELSE ~HardDisabled(r) /\ (env.force_color \/ r.is_tty)
Style(r) ==
  /\ ~HardDisabled(r)
  /\ IF ForceProfile # "unset" THEN Parsed(ForceProfile) # "none"
     ELSE env.force_color \/ r.is_tty

\* app_cli_backend_probe of the terminfo backend.
ColorCount == IF env.entry THEN env.colors ELSE 0

Profile ==
  IF ForceProfile # "unset" THEN Parsed(ForceProfile)
  ELSE IF env.truecolor THEN "truecolor"
  ELSE IF ColorCount >= 256 THEN "256"
  ELSE IF ColorCount >= 8 THEN "16"
  ELSE "none"

\* The theme that the environment forces, or "unset".
ForcedTheme ==
  LET t == IF env.test_theme # "unset" THEN env.test_theme ELSE env.theme
  IN  IF t \in {"light", "dark"} THEN t ELSE "unset"

Begin(r) ==
  /\ rpc = "idle" /\ renders < MaxRenders
  /\ request' = r /\ rpc' = "init" /\ renders' = renders + 1
  /\ UNCHANGED <<env, handle, profile, theme, cacheVars, oscVars>>

\* app_cli_term_init and the choice of the theme as far as it needs no probe.
\* The handle is taken before the profile is known and given back if that is
\* "none".
TermSetup ==
  /\ rpc = "init"
  /\ profile' = IF Style(request) THEN Profile ELSE "none"
  /\ handle' = (profile' # "none" /\ env.entry)
  /\ IF profile' = "none" THEN rpc' = "draw" /\ UNCHANGED theme
     ELSE IF ForcedTheme # "unset" THEN rpc' = "draw" /\ theme' = ForcedTheme
     ELSE rpc' = "detect" /\ UNCHANGED theme
  /\ UNCHANGED <<env, request, renders, cacheVars, oscVars>>

ThemeOf(background) == IF background = "light" THEN "light" ELSE "dark"

\* The gates that skip the probe without remembering anything.
Skipped ==
  \/ HardDisabled(request)
  \/ env.osc = "0"
  \/ env.ci /\ env.osc # "1"

\* What a probe that has run to its end leaves behind.
Commit(background) ==
  /\ probed' = TRUE /\ probes' = probes + 1
  /\ cached' = background
  /\ theme' = ThemeOf(background)
  /\ rpc' = "draw"

\* Mutant: a skip is remembered like a probe that found nothing.
SkipFrozen == /\ theme' = ThemeOf("unknown") /\ rpc' = "draw"
              /\ probed' = TRUE /\ UNCHANGED <<cached, probes>>
Skip == /\ theme' = ThemeOf("unknown") /\ rpc' = "draw"
        /\ UNCHANGED cacheVars

UseCache ==
  /\ rpc = "detect" /\ probed
  /\ theme' = ThemeOf(cached) /\ rpc' = "draw"
  /\ UNCHANGED <<env, request, handle, profile, renders, cacheVars, oscVars>>

SkipProbe ==
  /\ rpc = "detect" /\ ~probed
  /\ Skipped \/ (env.test_bg = "unset" /\ ~env.dev_tty)
  /\ Skip
  /\ UNCHANGED <<env, request, handle, profile, renders, oscVars>>

ProbeHook ==
  /\ rpc = "detect" /\ ~probed /\ ~Skipped
  /\ env.test_bg # "unset"
  /\ Commit(IF env.test_bg \in {"light", "dark"} THEN env.test_bg ELSE cached)
  /\ UNCHANGED <<env, request, handle, profile, renders, oscVars>>

Ask ==
  /\ rpc = "detect" /\ ~probed /\ ~Skipped
  /\ env.test_bg = "unset" /\ env.dev_tty
  /\ rpc' = "query" /\ StartQuery
  /\ UNCHANGED <<env, renderVars, cacheVars>>

Asking == rpc = "query" /\ Query /\ UNCHANGED termVars

Background == IF found \in Light THEN "light" ELSE "dark"
Answered ==
  /\ rpc = "query" /\ EndQuery
  /\ Commit(IF found = "none" THEN cached ELSE Background)
  /\ UNCHANGED <<env, request, handle, profile, renders>>

\* The rendering is written and the context released.
Deinit ==
  /\ handle' = FALSE /\ profile' = "none" /\ theme' = "unset"
  /\ rpc' = "idle" /\ request' = NoRequest

-----------------------------------------------------------------------------
(* The inductive invariant of the decision *)

\* Who asks, with which right, and what the answer left behind.  "wrap" and "drawn"
\* are places of the rendering.
TermInvariant ==
  /\ env \in Environments /\ request \in Requests \cup {NoRequest}
  /\ rpc \in {"idle", "init", "detect", "query", "draw", "wrap", "drawn"}
  /\ (rpc = "query") <=> (qpc # "idle")
  /\ profile \in Forced \cup {"none"} /\ theme \in {"unset", "light", "dark"}
  /\ handle \in BOOLEAN /\ (rpc = "idle" => ~handle)
  /\ rpc \in {"idle", "init"} => profile = "none"
  /\ HardDisabled(request) => profile = "none"
  /\ rpc \in {"detect", "query"} => profile # "none"
  /\ rpc = "query" => ~probed /\ ~Skipped /\ env.test_bg = "unset"
  /\ probed \in BOOLEAN /\ cached \in {"unknown", "light", "dark"}
  /\ probes = (IF probed THEN 1 ELSE 0)
  /\ ~probed => cached = "unknown"
  /\ probed => ~env.no_color /\ ~env.dumb /\ env.osc # "0"
  /\ (cached # "unknown" /\ env.test_bg = "unset") =>
       terminal \in Answers /\ cached = (IF terminal[4] \in Light THEN "light" ELSE "dark")
=============================================================================
