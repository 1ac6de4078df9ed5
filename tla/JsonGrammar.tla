------------------------------ MODULE JsonGrammar ------------------------------
(***************************************************************************)
(* What the readers of JsonText accept, said another way: a grammar, by    *)
(* decomposition - what a text must consist of, whatever the order in      *)
(* which a reader looks at it.  (RFC 8259, with the limits of the two      *)
(* readers.)                                                               *)
(***************************************************************************)
EXTENDS JsonTokens, SequencesExt

Blank(s) == \A i \in DOMAIN s : s[i] \in Spaces
Trim(s) ==
  IF Blank(s) THEN <<>>
  ELSE LET black == {i \in DOMAIN s : s[i] \notin Spaces}
       IN  SubSeq(s, CHOOSE i \in black : \A j \in black : i <= j,
                     CHOOSE i \in black : \A j \in black : j <= i)
Inner(s) == SubSeq(s, 2, Len(s) - 1)
Enclosed(s, open, close) == Len(s) >= 2 /\ s[1] = open /\ Last(s) = close
Before(s, k) == Trim(SubSeq(s, 1, k - 1))
After(s, k) == Trim(SubSeq(s, k + 1, Len(s)))

IsString(s) == StringIn(s, 1, Len(s) + 1)
IsStringUpTo(s, n) == IsString(s) /\ CharactersIn(s, 2, Len(s)) <= n
IsNumber(s) == NumberIn(s, 1, Len(s) + 1)
IsScalar(s) == IsString(s) \/ IsNumber(s) \/ s \in {<<l>> : l \in Literals}

\* At most n parts.
Separated(s, P(_), n) ==
  LET RECURSIVE UpTo(_, _)
      UpTo(t, m) ==
        /\ m > 0
        /\ \/ P(Trim(t))
           \/ \E k \in DOMAIN t :
                t[k] = "," /\ P(Before(t, k)) /\ UpTo(SubSeq(t, k + 1, Len(t)), m - 1)
  IN  UpTo(s, n)
List(s, open, close, P(_), n) ==
  Enclosed(s, open, close) /\ (Blank(Inner(s)) \/ Separated(Inner(s), P, n))

\* Containers may nest as deep as the two counting functions allow: each level
\* counts twice but the first.
NestLimit == (MaxDepth + 1) \div 2

RECURSIVE IsValue(_, _)
IsValue(s, levels) ==
  LET Element(e) == IsValue(e, levels - 1)
      Pair(e) == \E k \in DOMAIN e :
                   e[k] = ":" /\ IsString(Before(e, k)) /\ IsValue(After(e, k), levels - 1)
  IN  \/ IsScalar(s)
      \/ levels > 0 /\ (List(s, "[", "]", Element, Len(s)) \/ List(s, "{", "}", Pair, Len(s)))

Named(s, name) == s = <<Quote, name, Quote>>
IsBool(s) == s \in {<<"true">>, <<"false">>}
IsFlag(e) ==
  \E k \in DOMAIN e :
    e[k] = ":" /\ (\E f \in Flag : Named(Before(e, k), f)) /\ IsBool(After(e, k))
\* A key that is spelled with escapes is none of the names: these decode to
\* characters that no name contains.
IsRequestMember(e, n) ==
  \E k \in DOMAIN e :
    LET key == Before(e, k)
        value == After(e, k)
    IN  /\ e[k] = ":" /\ IsString(key)
        /\ CASE Named(key, "command") -> IsString(value)
             [] Named(key, "args") -> List(value, "[", "]", IsString, n)
             [] Named(key, "flags") -> List(value, "{", "}", IsFlag, Len(value))
             [] OTHER -> IsValue(value, NestLimit)
\* A repeated "args" adds to the arguments, so that all of them share the limit n.
RECURSIVE AreRequestMembers(_, _)
AreRequestMembers(s, n) ==
  \/ IsRequestMember(Trim(s), n)
  \/ \E k \in DOMAIN s, m \in 0 .. n :
       /\ s[k] = "," /\ IsRequestMember(Before(s, k), m)
       /\ AreRequestMembers(SubSeq(s, k + 1, Len(s)), n - m)
IsRequest(s) ==
  LET t == Trim(s)
  IN  Enclosed(t, "{", "}") /\ (Blank(Inner(t)) \/ AreRequestMembers(Inner(t), MaxArgs))

IsConfigMember(e) ==
  \E k \in DOMAIN e :
    LET key == Before(e, k)
        value == After(e, k)
    IN  /\ e[k] = ":" /\ IsStringUpTo(key, KeySize - 1)
        /\ IF \E f \in Flag : Named(key, f) THEN IsBool(value) ELSE IsScalar(value)
IsConfig(s) == Blank(s) \/ List(Trim(s), "{", "}", IsConfigMember, Len(s))

\* A reader that looks at one character at a time accepts exactly the documents of
\* the grammar: no prefix, no trailing comma, no leading zero, no level too deep -
\* and a request without a command only to report that.
ReadersAcceptTheGrammar ==
  /\ (mode = "request" /\ result.err # "none") =>
       (result.err \in {"ok", "missing"} <=> IsRequest(doc))
  /\ (mode = "config" /\ result.err # "none") => (result.err = "ok" <=> IsConfig(doc))
  /\ ConfigsAcceptTheGrammar
==============================================================================
