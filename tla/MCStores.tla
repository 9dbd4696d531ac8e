------------------------------ MODULE MCStores ------------------------------
(* One run over the parts that keep and convert data.  A behaviour exercises   *)
(* one part, so that their states add up and do not multiply.                  *)
EXTENDS Config, Json, MCDict, Acl, InputLine

VARIABLE part

-----------------------------------------------------------------------------
(* Configuration files.                                                       *)

L(k) == [t |-> k]
Sec(s) == [t |-> "section", section |-> s]
Set(n, v) == [t |-> "set", name |-> n, text |-> <<v>>]
Inc(f, o) == [t |-> "include", file |-> f, optional |-> o]

\* A file with every kind of line, one whose includes nest and loop, one with a
\* mandatory include that is missing, and a short one.
FullFile ==
    <<Set(<<"k">>, <<"z">>), Sec(<<"general">>), Set(<<"k">>, <<"a">>), Inc("extra", TRUE),
      L("note"), L("open"), Set(<<"k">>, <<"c">>), L("close"),
      Set(<<"theme", "x">>, <<"\\", "B", "\\", "\\">>),
      Sec(<<"server", "s">>), Set(<<"url">>, <<"u", "v", " ", "w", "x", "y">>), Inc("gone", TRUE),
      Set(<<"port">>, <<"7">>), Sec(<<"serial", "n">>), Set(<<"path">>, <<"p">>),
      Sec(<<"modules">>), Set(<<"m.so">>, <<"o">>)>>
ExtraFile == <<Sec(<<"general">>), Set(<<"k">>, <<"b">>), Inc("extra", TRUE), Set(<<"e">>, <<"e">>),
               Inc("locked", TRUE), Sec(<<"unknown">>), Set(<<"q">>, <<"q">>)>>
ShortFile == <<Sec(<<"general">>), Set(<<"k">>, <<"d">>), Sec(<<"theme", "t">>), Set(<<"x">>, <<"x">>),
               Sec(<<"serial">>), Set(<<"r">>, <<"r">>)>>
FatalFile == <<Sec(<<"general">>), Set(<<"k">>, <<"f">>), Inc("gone", FALSE)>>

DiskUsed == [p \in {"main", "extra", "locked"} |->
               CASE p = "main" -> FullFile [] p = "extra" -> ExtraFile [] OTHER -> <<>>]
EditsUsed == {ShortFile, FatalFile}
K(n) == <<"", <<n>>>>
DefaultsUsed == [k \in {K("k"), K("b")} |-> IF k = K("b") THEN <<"false">> ELSE <<"d">>]
KindsUsed == [k \in {K("k"), K("b"), K("u")} |->
                IF k = K("b") THEN "bool" ELSE IF k = K("u") THEN "uint" ELSE "string"]
RequestsUsed == {<<K("b"), <<"yes">>>>, <<K("b"), <<"maybe">>>>, <<K("u"), <<"0", "0", "7">>>>,
                 <<K("k"), <<"l", " ", "o", " ", "n", "g">>>>}
BackupsUsed == <<"old1", "old2">>
Listened == {K("k"), <<"server", <<"s", "url">>>>}

-----------------------------------------------------------------------------
(* Values with the bounds of every type among them, and texts that refer to   *)
(* themselves and to each other.                                              *)

NumbersOf(type) ==
    CASE type \in IntegralTypes -> {n \in {-16, -5, -4, -1, 0, 3, 4, 7, 8, 15, 16, 31} : n \in RangeOf(type)}
      [] type = "char" -> {-2, -1, 1}
      [] type = "bool" -> {0, 1}
      [] OTHER -> {-33, -9, -8, -1, 0, 1, 7, 15, 32, 63, 64}
ValuesUsed ==
    UNION {{[type |-> ty, n |-> n] : n \in NumbersOf(ty)} :
              ty \in IntegralTypes \cup FloatTypes \cup {"char", "bool"}}
    \cup {[type |-> "str", word |-> "num", n |-> n] : n \in {-40, -17, -16, -5, -1, 0, 1, 3, 4, 8, 15, 16, 31, 32}}
    \cup {[type |-> "str", word |-> w, n |-> 0] : w \in {"yes", "no", "word"}}
    \cup {[type |-> "str", word |-> "letter", n |-> n] : n \in {-2, 1}}
    \cup {[type |-> "null", n |-> 0]}
DefaultsRead == {0, -1}
TextsUsed == [k \in {"K", "L", "M"} |->
                CASE k = "K" -> <<"a", "L", "K">> [] k = "L" -> <<"b", "?">> [] OTHER -> <<"c", "M", "L">>]

-----------------------------------------------------------------------------
(* JSON texts: one corpus rich in scalars, one deep in brackets.              *)

Mark(c) == [t |-> c]
Str(u) == [t |-> "string", units |-> u]
Num(n) == [t |-> "integer", n |-> n]
Marks == {Mark("{"), Mark("}"), Mark("["), Mark("]"), Mark(","), Mark(":")}
CorporaUsed ==
    {[max |-> 7,
      tokens |-> Marks \cup
        {Str(<<"a">>), Str(<<"a", "b">>), Str(<<"b">>), Str(<<"\\n">>), Str(<<"\\uD800", "\\uDC00">>),
         Str(<<"\\uD800">>), Num(17), Num(40), [t |-> "fraction", n |-> 4],
         [t |-> "literal", value |-> [type |-> "null", n |-> 0]], Mark("junk")}],
     [max |-> 10, tokens |-> Marks \cup {Str(<<"a">>), Str(<<"a", "[0]">>), Num(2)}]}

-----------------------------------------------------------------------------
(* Access lists: IPv4 addresses of two bits, IPv6 addresses of four, and       *)
(* selectors of every form, some refused.                                     *)

PrefixUsed == <<1, 1>>
SelectorsUsed ==
    {<<All>>, <<Word("u")>>, <<At, Word("g")>>, <<Word("u"), At, All>>,
     <<Word("v"), At, NetOf(4, <<1, 0>>, 1)>>, <<At, Word("g"), At, NetOf(6, <<1, 1, 1, 0>>, 3)>>,
     <<Net(4, <<1, 1>>)>>, <<NetOf(4, <<0, 0>>, 0)>>, <<NetOf(6, <<0, 0, 0, 0>>, 0)>>,
     <<NetOf(6, <<1, 1, 1, 0>>, 4)>>, <<NetOf(6, <<1, 1, 0, 0>>, 1)>>, <<NetOf(4, <<1, 0>>, 3)>>,
     <<At>>, <<Word("u"), At>>, <<Word("u"), At, At, All>>, <<Numeric>>, <<Word("u"), Blanks>>, <<>>}
HostsUsed ==
    {[family |-> 4, bits |-> <<1, 0>>], [family |-> 6, bits |-> <<1, 1, 1, 0>>],
     [family |-> 6, bits |-> <<1, 0, 1, 0>>], [family |-> 6, bits |-> <<1, 1, 1, 1>>]}
MembersUsed == [x \in {"u", "v"} |-> IF x = "u" THEN {"g"} ELSE {}]

-----------------------------------------------------------------------------
(* The terminal: messages of one row and of two; words to complete.           *)

MessagesUsed == {<<1>>, <<5>>}
OffersUsed == {<<<<120, 120>>>>, <<<<120, 121, 120>>, <<120, 121, 121>>>>, <<<<120, 121, 120, 121>>>>}

-----------------------------------------------------------------------------
fileVars     == <<configVars, readVars, jsonVars, dictVars>>
terminalVars == <<screenVars, inputVars>>
vars         == <<fileVars, aclVars, terminalVars, part>>

\* The parts a behaviour does not exercise stay in one initial state.
Resting(p, choice, any) == part # p => choice = CHOOSE x \in any : TRUE

Init ==
    /\ part \in {"config", "values", "json", "dict", "acl", "windows", "input"}
    /\ ConfigStart
    /\ ReadStart /\ Resting("values", stored, StoredValues)
    /\ JsonStart /\ Resting("json", corpus, Corpora)
    /\ DictStart /\ Resting("dict", use, Workloads)
    /\ AclStart /\ Resting("acl", host, Hosts) /\ Resting("acl", user, Users)
    /\ WindowsStart /\ InputStart

Next ==
    /\ \/ /\ part = "config" /\ ConfigNext
          /\ UNCHANGED <<readVars, jsonVars, dictVars, aclVars, terminalVars>>
       \/ /\ part = "values" /\ ReadNext
          /\ UNCHANGED <<configVars, jsonVars, dictVars, aclVars, terminalVars>>
       \/ /\ part = "json" /\ JsonNext
          /\ UNCHANGED <<configVars, readVars, dictVars, aclVars, terminalVars>>
       \/ /\ part = "dict" /\ DictNext
          /\ UNCHANGED <<configVars, readVars, jsonVars, aclVars, terminalVars>>
       \/ /\ part = "acl" /\ AclNext
          /\ UNCHANGED <<fileVars, terminalVars>>
       \/ /\ part = "windows" /\ WindowsNext
          /\ UNCHANGED <<fileVars, aclVars, inputVars>>
       \/ /\ part = "input" /\ InputNext
          /\ UNCHANGED <<fileVars, aclVars>>
    /\ UNCHANGED part

Spec == Init /\ [][Next]_vars
=============================================================================
