------------------------------- MODULE MCJsonText -------------------------------
(***************************************************************************)
(* What the readers find: documents that are well formed or nearly so, and *)
(* everything one slip of the hand away from them - a symbol missing, one  *)
(* too many, one for another.                                              *)
(***************************************************************************)
EXTENDS JsonGrammar

Alphabet ==
  {"{", "}", "[", "]", ":", ",", Quote, "\\", "n", "sp", "LF", "ctl", "0", "1", "-", ".", "e",
   "true", "command", "args", "flags", "json", "a"}

Q(s) == <<Quote>> \o s \o <<Quote>>
Pair2(name, value) == Q(<<name>>) \o <<":">> \o value
Object(s) == <<"{">> \o s \o <<"}">>
Array(s) == <<"[">> \o s \o <<"]">>
Command == Pair2("command", Q(<<"a">>))

WellFormed == {
  <<>>, <<"sp">>, <<"{", "}">>, <<"{", "sp", "}", "LF">>,
  Object(Command),
  Object(Command \o <<",">> \o Command),
  Object(Pair2("command", Q(<<>>))),
  Object(Pair2("command", Q(<<"\\", "n", "\\", "\\", "a">>))),
  Object(Pair2("args", Array(Q(<<"a">>)))),
  Object(Pair2("args", Array(Q(<<"a">>) \o <<",">> \o Q(<<>>)))),
  \* more arguments than the limit, in one array and in two
  Object(Pair2("args", Array(Q(<<>>) \o <<",">> \o Q(<<>>) \o <<",">> \o Q(<<>>)))),
  Object(Pair2("args", Array(Q(<<"a">>))) \o <<",">>
         \o Pair2("args", Array(Q(<<>>) \o <<",">> \o Q(<<>>)))),
  Object(Pair2("args", Array(<<>>)) \o <<",">> \o Command),
  Object(Pair2("flags", Object(<<>>))),
  Object(Pair2("flags", Object(Pair2("json", <<"true">>)))),
  Object(Pair2("flags", Object(Pair2("json", <<"true">>) \o <<",">> \o Pair2("json", <<"false">>)))),
  Object(Pair2("a", <<"1">>)),
  Object(Pair2("a", <<"-", "1", "0", ".", "1", "e", "-", "1">>)),
  Object(Pair2("a", <<"0", ".", "0">>) \o <<",">> \o Pair2("json", <<"true">>)),
  Object(Pair2("a", <<"null", "sp">>)),
  Object(Pair2("json", <<"false">>)),
  Object(Pair2("a", Q(<<"sp", "\\", Quote>>))),
  \* keys as long as a key may be, and longer; an escape is one character
  Object(Q(<<"a", "a", "a">>) \o <<":", "1">>),
  Object(Q(<<"a", "\\", "n", "\\", "\\">>) \o <<":", "1">>),
  \* values that no reader knows, as deep as they may be, and deeper
  Object(Pair2("a", Array(<<"1", ",">> \o Object(Pair2("a", <<"1">>))))),
  Object(Pair2("a", Array(Array(<<>>)))),
  Object(Pair2("a", Array(Array(Array(<<"1">>))))),
  Object(Pair2("a", Object(Pair2("a", Object(Pair2("a", Object(<<>>))))))),
  Object(Pair2("a", Array(<<"null", ",">> \o Array(Object(<<>>)))))}

Deletions(d) == {SubSeq(d, 1, i - 1) \o SubSeq(d, i + 1, Len(d)) : i \in DOMAIN d}
Replacements(d) == {[d EXCEPT ![i] = c] : i \in DOMAIN d, c \in Alphabet}
Insertions(d) ==
  {SubSeq(d, 1, i - 1) \o <<c>> \o SubSeq(d, i, Len(d)) : i \in 1 .. Len(d) + 1, c \in Alphabet}

Texts(symbols, n) == UNION {[1 .. k -> symbols] : k \in 0 .. n}

\* Whatever has the shape of a number, as the value of a key.
Numbers == {Object(Pair2("a", n)) : n \in Texts({"0", "1", "-", ".", "e"}, 5)}

MCDocuments ==
  WellFormed \cup Numbers \cup UNION {Deletions(d) \cup Replacements(d) \cup Insertions(d) : d \in WellFormed}

\* Every argument of up to four symbols.
MCArguments == Texts({"a", Quote, "\\", "n", "LF", "ctl", "u2", "cont"}, 4)
=============================================================================
