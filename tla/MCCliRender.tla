----------------------------- MODULE MCCliRender -----------------------------
(* All short paragraphs in the usual environment, and one paragraph in every *)
(* environment that differs from it in one variable, or in two.              *)
EXTENDS CliRender

Usual ==
  [no_color |-> FALSE, color |-> "unset", test_profile |-> "unset", force_color |-> FALSE,
   dumb |-> FALSE, truecolor |-> FALSE, entry |-> TRUE, colors |-> 256,
   test_theme |-> "unset", theme |-> "unset", osc |-> "unset", ci |-> FALSE,
   test_bg |-> "unset", dev_tty |-> TRUE]

Values(v) ==
  CASE v = "color" -> {"auto", "never", "16", "other"}
    [] v = "test_profile" -> {"none", "truecolor"}
    [] v = "colors" -> {0, 8}
    [] v \in {"theme", "test_theme"} -> {"light", "auto"}
    [] v = "osc" -> {"0", "1"}
    [] v = "test_bg" -> {"light", "dark", "other"}
    [] OTHER -> {~Usual[v]}

Changed(envs) == envs \cup UNION {{[e EXCEPT ![v] = x] : x \in Values(v)} : e \in envs, v \in DOMAIN Usual}

\* A few environments in which the terminal is asked, and all the others, which
\* are cheap.
MCEnvironments ==
  {Usual, [Usual EXCEPT !.force_color = TRUE], [Usual EXCEPT !.ci = TRUE, !.osc = "1"]}
    \cup {e \in Changed(Changed({Usual})) :
            \/ e.no_color \/ e.dumb \/ ~e.dev_tty \/ e.osc = "0" \/ (e.ci /\ e.osc # "1")
            \/ {e.theme, e.test_theme} \cap {"light", "dark"} # {} \/ e.test_bg # "unset"}

Request(kind, plain, is_tty, text, start, indent, width) ==
  [kind |-> kind, plain |-> plain, is_tty |-> is_tty, text |-> text,
   start_col |-> start, cont_indent |-> indent, width |-> width]

\* Three words, the second of which begins a line in six columns.
Three == <<"a", Space, "wide", "c", "c", Space, "a">>

MCVisits ==
  {Request("help", p, t, Three, 2, 2, 6) : p, t \in BOOLEAN}
    \cup {Request("version", TRUE, TRUE, <<>>, 0, 0, 6), Request("error", FALSE, TRUE, Three, 3, 3, 6)}

Symbols == {"a", Space, Newline, "mark", "wide", "c"}
Short == UNION {[1 .. n -> Symbols] : n \in 0 .. 4}
Longer == {<<"wide", "c", "c">> \o x \o <<"wide", "c", "c">> \o y : x, y \in
             {<<Space>>, <<Space, Space>>, <<Newline>>, <<"a">>, <<"bad">>,
              <<"rare", "c", "c", "c">>, <<"acc", "c">>, <<"ctl", Space>>,
              <<Space, "a", Space>>, <<Space, Newline, Space, "a">>}}

MCParagraphs ==
  {Request("help", FALSE, TRUE, t, i, 2, w) : t \in Short \cup Longer, i \in {2, 3}, w \in {5, 6}}

MCRequests == MCVisits \cup MCParagraphs
MCScenarios ==
  [e \in MCEnvironments |-> IF e = [Usual EXCEPT !.theme = "light"] THEN MCParagraphs ELSE MCVisits]
MCColours == {"white", "black"}
MCLight == {"white"}
MCTyped == {"key", "bel"}
=============================================================================
