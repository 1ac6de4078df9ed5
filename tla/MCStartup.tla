------------------------------- MODULE MCStartup -------------------------------
(***************************************************************************)
(* Startup on every short command line, and on every short request.        *)
(***************************************************************************)
EXTENDS Startup

SmallWords == Dashed \cup Commands \cup {NoFlag, "word", "other", ""}

On(f) == [flag |-> f, value |-> TRUE]
Off(f) == [flag |-> f, value |-> FALSE]

File(ends, entries) == [ends |-> ends, entries |-> entries]
Request(kind, members) == [kind |-> kind, members |-> members]
NoInput == Request("unreadable", <<>>)

Make(argvs, files, envs, ttys_in, ttys_out, requests) ==
  [argv : argvs, file : files, env : envs,
   tty_in : ttys_in, tty_out : ttys_out, request : requests]

Strings(S, n) == UNION {[1..k -> S] : k \in 0..n}

\* Files whose entries meet the flags of the other layers, and files that fail.
Files ==
  {File("missing", <<>>),
   File("complete", <<On("debug"), On("quiet"), Off("json")>>),
   File("complete", <<On("plain"), On("verbose"), On("other")>>),
   File("complete", <<On("json"), Off("debug")>>)}
BadFiles ==
  {File("unreadable", <<>>), File("too_large", <<>>), File("malformed", <<On("debug")>>)}

SmallTokens == {"debug", "quiet", "plain", "config", "help", "--", "bogus", "hello", "echo"}
Tails == {"help", "deep", "--", "-x", "word"}

CommandLines ==
  Make(Strings(SmallTokens, 3), Files, {{}, {"debug", "no_color"}}, BOOLEAN, BOOLEAN, {NoInput})
  \cup Make({<<"json", c>> \o t : c \in Commands \cup {"word"}, t \in Strings(Tails, 3)},
            {File("missing", <<>>)}, {{}}, BOOLEAN, BOOLEAN, {NoInput})
  \cup Make({<<"menu">> \o t : t \in Strings(Tails, 1)}, Files, {{}}, BOOLEAN, BOOLEAN, {NoInput})
  \cup Make({<<>>, <<"config", "word", "echo">>, <<"echo">>}, BadFiles, {{}}, BOOLEAN, BOOLEAN, {NoInput})

SmallMembers ==
  {[command |-> c] : c \in {"echo", "hello", "menu", "word", ""}}
  \cup {[args |-> a] : a \in {<<"word">>, <<"--", "help">>, <<"word", "-x", "word">>}}
  \cup {[flags |-> l] :
          l \in {<<On("debug"), Off("verbose")>>, <<On("quiet"), On("plain")>>,
                 <<On("plain"), Off("json")>>, <<On("other")>>,
                 <<On("verbose"), Off("verbose"), On("debug")>>}}
  \cup {[other |-> e] : e \in {"NONE", "CONFIG_PARSE", "OUT_OF_RANGE"}}

Documents(n) == {Request("json", m) : m \in Strings(SmallMembers, n)}
NoDocuments == {NoInput, Request("blank", <<>>)}

\* Long documents off a terminal; short ones with every file and attachment.
Bare ==
  Make({<<>>}, {File("missing", <<>>), File("complete", <<On("debug"), On("plain")>>)},
       {{}, {"debug", "no_color"}}, {FALSE}, {FALSE}, Documents(3))
  \cup Make({<<>>}, Files, {{}}, {FALSE}, BOOLEAN, NoDocuments \cup Documents(2))
  \cup Make({<<>>}, Files, {{}}, BOOLEAN, BOOLEAN, {NoInput})

AllInputs == CommandLines \cup Bare
=============================================================================
