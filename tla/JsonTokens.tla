------------------------------ MODULE JsonTokens ------------------------------
(***************************************************************************)
(* The tokens of RFC 8259 as far as the characters of JsonText go, and the *)
(* configuration files, said by the places in a text s where their parts   *)
(* begin: from i on, up to before j.  Nothing here looks at one character  *)
(* after the other.                                                        *)
(***************************************************************************)
EXTENDS JsonText, FiniteSets

\* In a text from i on the character at k is escaped: an odd number of backslashes
\* is before it.
Escaped(s, i, k) ==
  \E m \in i .. k - 1 :
    /\ \A n \in m .. k - 1 : s[n] = "\\"
    /\ m = i \/ s[m - 1] # "\\"
    /\ (k - m) % 2 = 1
InString(s, i, k) ==
  IF Escaped(s, i, k) THEN s[k] \in Escapes ELSE s[k] \notin Controls \cup {Quote}
StringIn(s, i, j) ==
  /\ i + 1 < j /\ s[i] = Quote /\ s[j - 1] = Quote
  /\ ~Escaped(s, i + 1, j - 1)
  /\ \A k \in i + 1 .. j - 2 : InString(s, i + 1, k)

\* The characters of a text from i up to before j; an escape is one.
CharactersIn(s, i, j) == Cardinality({k \in i .. j - 1 : ~Escaped(s, i, k)})

\* They spell the text t, one of its characters each.
Letter(s, k) == IF s[k] = "\\" THEN EscapeOf(s[k + 1]) ELSE s[k]
Spells(s, i, j, t) ==
  /\ Len(t) = CharactersIn(s, i, j)
  /\ \A k \in i .. j - 1 : ~Escaped(s, i, k) => t[CharactersIn(s, i, k) + 1] = Letter(s, k)

DigitsIn(s, i, j) == i < j /\ \A k \in i .. j - 1 : s[k] \in Digit

\* A whole number has no leading zero; a fraction and an exponent have a digit.
WholeIn(s, i, j) == DigitsIn(s, i, j) /\ (s[i] = "0" => j = i + 1)
FractionIn(s, i, j) == i = j \/ (s[i] = "." /\ DigitsIn(s, i + 1, j))
ExponentIn(s, i, j) ==
  \/ i = j
  \/ s[i] = "e" /\ (DigitsIn(s, i + 1, j) \/ (DigitsIn(s, i + 2, j) /\ s[i + 1] = "-"))
UnsignedIn(s, i, j) ==
  \E f, e \in i .. j :
    f <= e /\ WholeIn(s, i, f) /\ FractionIn(s, f, e) /\ ExponentIn(s, e, j)
NumberIn(s, i, j) ==
  i < j /\ UnsignedIn(s, IF s[i] = "-" THEN i + 1 ELSE i, j)

BlankIn(s, i, j) == \A k \in i .. j - 1 : s[k] \in Spaces
OneOf(s, i, j, symbols) == j = i + 1 /\ s[i] \in symbols
ScalarIn(s, i, j) == StringIn(s, i, j) \/ NumberIn(s, i, j) \/ OneOf(s, i, j, Literals)

\* The value of a flag is true or false, that of a name nobody knows is any scalar; a
\* name that is spelled with escapes is none of the flags.
ConfigValueIn(s, flag, i, j) ==
  IF flag THEN OneOf(s, i, j, {"true", "false"}) ELSE ScalarIn(s, i, j)
ConfigMemberIn(s, i, j) ==
  \E k \in i + 1 .. j :
    /\ StringIn(s, i, k) /\ CharactersIn(s, i + 1, k - 1) < KeySize
    /\ \E c \in k .. j - 2 :
         /\ BlankIn(s, k, c) /\ s[c] = ":"
         /\ \E v \in c + 1 .. j - 1 :
              /\ BlankIn(s, c + 1, v)
              /\ ConfigValueIn(s, k = i + 3 /\ s[i + 1] \in Flag, v, j)
MemberUpTo(s, i, c) == \E j \in i + 1 .. c : ConfigMemberIn(s, i, j) /\ BlankIn(s, j, c)

Opening == "{"
Comma == ","
Closing == "}"

\* The places where a member of the object whose brace is at o begins: behind the
\* brace, and behind the comma after a member that begins at such a place.
QuoteBehind(s, c, k) == c < k /\ s[k] = Quote /\ BlankIn(s, c + 1, k)
Places(s) == {k \in DOMAIN s : \E c \in DOMAIN s : s[c] \in {Opening, Comma} /\ QuoteBehind(s, c, k)}
Begins(s, o, S) ==
  \A k \in Places(s) :
    \/ QuoteBehind(s, o, k)
    \/ \E i \in S : \E c \in i + 1 .. k : s[c] = Comma /\ QuoteBehind(s, c, k) /\ MemberUpTo(s, i, c)
    => k \in S
MemberBegins(s, o, i) == \A S \in SUBSET Places(s) : Begins(s, o, S) => i \in S

ConfigIn(s) ==
  \/ BlankIn(s, 1, Len(s) + 1)
  \/ \E o, c \in DOMAIN s :
       /\ o < c /\ s[o] = Opening /\ s[c] = Closing
       /\ BlankIn(s, 1, o) /\ BlankIn(s, c + 1, Len(s) + 1)
       /\ BlankIn(s, o + 1, c) \/ \E i \in Places(s) : MemberUpTo(s, i, c) /\ MemberBegins(s, o, i)

\* A reader that looks at one character at a time accepts exactly the configuration
\* files of the grammar, to their last character.
ConfigsAcceptTheGrammar ==
  (mode = "config" /\ result.err # "none") => (result.err = "ok" <=> ConfigIn(doc))
===============================================================================
