-------------------------------- MODULE Json --------------------------------
(***************************************************************************)
(* json.c: json2dict(), which reads one JSON text into a flat dictionary   *)
(* of dotted paths, and dict2json(), which writes a dictionary as nested   *)
(* objects.                                                                *)
(*                                                                         *)
(* A text is a sequence of tokens; white space is left out.  A string is a *)
(* sequence of units, a unit a character or an escape.  A path is the      *)
(* sequence of its parts; an index such as "[0]" is a part, and follows    *)
(* the part before it without a dot, as path_append() has it.  A key with  *)
(* a dot in it is two parts.                                               *)
(***************************************************************************)
EXTENDS DictValues

CONSTANTS Corpora,       \* kinds of texts: their tokens and their greatest length
          MaxDepth       \* JSON_MAX_DEPTH

VARIABLES corpus,        \* the kind of text that is read
          input,         \* the tokens read so far
          nesting,       \* activations of json_parse_obj() and json_parse_array()
          want,          \* what the innermost one looks for
          path,          \* the path of the value it looks for
          parsed,        \* the dictionary
          outcome,       \* "reading", "failed", or "done"
          rest,          \* tokens of a written text still to be read again
          original       \* the dictionary that was written

jsonVars == <<corpus, input, nesting, want, path, parsed, outcome, rest, original>>

-----------------------------------------------------------------------------
(* Strings.                                                                *)

\* json_unescape() of one string: the characters, as a set, empty on failure.
\* A high surrogate takes the low one that must follow it; NUL is refused.
Unescaped(units) ==
    LET from[i \in Nat] ==
            IF i > Len(units) THEN {<<>>}
            ELSE CASE units[i] \in {"raw-control", "\\?", "\\u0000", "\\uDC00"} -> {}
                   [] units[i] = "\\uD800" ->
                        IF i < Len(units) /\ units[i + 1] = "\\uDC00"
                        THEN {<<"wide">> \o s : s \in from[i + 2]} ELSE {}
                   [] units[i] \in {"\\n", "\\u000a"} -> {<<"newline">> \o s : s \in from[i + 1]}
                   [] OTHER -> {<<units[i]>> \o s : s \in from[i + 1]}
    IN from[1]

\* Mutant: control characters are written as they are.
EscapedRaw(chars) == [i \in DOMAIN chars |-> IF chars[i] = "newline" THEN "raw-control" ELSE chars[i]]

\* json_escape().
Escaped(chars) == [i \in DOMAIN chars |-> IF chars[i] = "newline" THEN "\\n" ELSE chars[i]]

\* json_parse_value() on an integer: the narrowest type that holds it.
NumberValue(n) ==
    CASE n \in Signed(IntMax) -> {[type |-> "int", n |-> n]}
      [] n \in Signed(LongMax) \ Signed(IntMax) -> {[type |-> "long", n |-> n]}
      [] n \in Unsigned(LongMax) \ Signed(LongMax) -> {[type |-> "ulong", n |-> n]}
      [] OTHER -> {}

\* The value of a scalar token, as a set.
ScalarValue(t) ==
    CASE t.t = "string" -> {[type |-> "str", word |-> s] : s \in Unescaped(t.units)}
      [] t.t = "integer" -> NumberValue(t.n)
      [] t.t = "fraction" -> {[type |-> "double", n |-> t.n]}
      [] t.t = "literal" -> {t.value}
      [] OTHER -> {}

Scalar(t) == t.t \in {"string", "integer", "fraction", "literal", "junk"}

-----------------------------------------------------------------------------
(* json2dict(), a step for each token.                                     *)

JsonStart ==
    /\ corpus \in Corpora
    /\ input = <<>> /\ nesting = <<>> /\ want = "value" /\ path = <<>>
    /\ parsed = <<>> /\ outcome = "reading"
    /\ rest = <<>> /\ original = <<>>

Inner     == Last(nesting)
Replace(f) == Append(Front(nesting), f)
Fails     == outcome' = "failed" /\ UNCHANGED <<nesting, want, path, parsed>>

\* json_parse_value() goes no deeper than the limit and stores nothing twice.
MayHold(p) == Len(nesting) <= MaxDepth /\ p \notin DOMAIN parsed

TakeScalar(t, at) ==
    IF MayHold(at) /\ ScalarValue(t) # {}
    THEN /\ parsed' = (at :> CHOOSE v \in ScalarValue(t) : TRUE) @@ parsed
         /\ want' = "more"
         /\ UNCHANGED <<nesting, path, outcome>>
    ELSE Fails

Opening(kind, at) ==
    IF MayHold(at)
    THEN /\ nesting' = Append(nesting, [kind |-> kind, path |-> at, index |-> 0, keys |-> {}])
         /\ want' = IF kind = "object" THEN "first key" ELSE "first item"
         /\ UNCHANGED <<path, parsed, outcome>>
    ELSE Fails

Value(t, at) ==
    CASE t.t = "{" -> Opening("object", at)
      [] t.t = "[" -> Opening("array", at)
      [] Scalar(t) -> TakeScalar(t, at)
      [] OTHER -> Fails

\* A key of an object: each may come once.
TakeKey(t) ==
    IF t.t = "string" /\ Unescaped(t.units) # {} /\ Unescaped(t.units) \cap Inner.keys = {}
    THEN /\ nesting' = Replace([Inner EXCEPT !.keys = @ \cup Unescaped(t.units)])
         /\ path' = Inner.path \o CHOOSE k \in Unescaped(t.units) : TRUE
         /\ want' = "colon"
         /\ UNCHANGED <<parsed, outcome>>
    ELSE Fails

Closing ==
    /\ nesting' = Front(nesting)
    /\ want' = "more"
    /\ UNCHANGED <<path, parsed, outcome>>

IndexPart   == <<"[0]", "[1]", "[2]", "[3]", "[4]", "[5]", "[6]">>
ItemPath(f) == Append(f.path, IndexPart[f.index + 1])

\* After a comma: the next key, or the value at the next index.
NextItem ==
    IF Inner.kind = "object"
    THEN want' = "key" /\ UNCHANGED <<nesting, path, parsed, outcome>>
    ELSE LET f == [Inner EXCEPT !.index = @ + 1] IN
         /\ nesting' = Replace(f)
         /\ path' = ItemPath(f)
         /\ want' = "value"
         /\ UNCHANGED <<parsed, outcome>>

\* Mutant: a closing bracket may follow a comma.
EndsCommaToo(kind, w) == w \in {kind, "more", "key", "value"}

\* Where the bracket that closes an object or an array may stand.
Ends(kind, w) == w \in {kind, "more"}

\* What the code does with a token, by what it looks for.
Took(t) ==
    IF nesting # <<>> /\ (\/ t.t = "}" /\ Inner.kind = "object" /\ Ends("first key", want)
                          \/ t.t = "]" /\ Inner.kind = "array" /\ Ends("first item", want))
    THEN Closing
    ELSE CASE want = "value" -> Value(t, path)
           [] want = "first item" -> Value(t, ItemPath(Inner))
           [] want \in {"first key", "key"} -> TakeKey(t)
           [] want = "colon" /\ t.t = ":" -> want' = "value" /\ UNCHANGED <<nesting, path, parsed, outcome>>
           [] want = "more" /\ nesting # <<>> /\ t.t = "," -> NextItem
           [] OTHER -> Fails

ReadToken(t) ==
    /\ outcome = "reading"
    /\ rest = <<>> /\ original = <<>>
    /\ Len(input) < corpus.max
    /\ input' = Append(input, t)
    /\ Took(t)
    /\ UNCHANGED <<corpus, rest, original>>

\* The end of the text: nothing may follow the one value.
Whole == nesting = <<>> /\ want = "more"

ReadEnd ==
    /\ outcome = "reading"
    /\ rest = <<>>
    /\ outcome' = IF Whole THEN "done" ELSE "failed"
    /\ UNCHANGED <<corpus, input, nesting, want, path, parsed, rest, original>>

-----------------------------------------------------------------------------
(* dict2json(), and the text it writes read again.                         *)

\* The tokens of a path between its dots: an index stays with what it indexes.
Groups(p) ==
    FoldLeft(LAMBDA gs, part : IF part \in ToSet(IndexPart) /\ gs # <<>>
                               THEN Append(Front(gs), Append(Last(gs), part))
                               ELSE Append(gs, <<part>>),
             <<>>, p)

\* json_insert(): a value as its JSON token; "%.17g" writes a whole number as one.
TokenOf(v) ==
    CASE v.type = "str" -> [t |-> "string", units |-> Escaped(v.word)]
      [] v.type \in IntegralTypes -> [t |-> "integer", n |-> v.n]
      [] v.type = "double" -> IF v.n % 2 = 0 THEN [t |-> "integer", n |-> v.n \div 2]
                              ELSE [t |-> "fraction", n |-> v.n]
      [] OTHER -> [t |-> "literal", value |-> v]

\* dump_json() of the node at g: an object of its children.  A value at a node
\* that has children is not written.
Dumped(d) ==
    LET paths == {Groups(p) : p \in DOMAIN d}
        nodes == UNION {{SubSeq(g, 1, n) : n \in 0 .. Len(g)} : g \in paths}
        dump[g \in nodes] ==
            LET children == {h \in nodes : Len(h) = Len(g) + 1 /\ IsPrefix(g, h)}
                leaf(h)  == \A k \in nodes : k # h => ~IsPrefix(h, k)
                member(h) ==
                    <<[t |-> "string", units |-> Escaped(Last(h))], [t |-> ":"]>> \o
                    (IF leaf(h) THEN <<TokenOf(d[CHOOSE p \in DOMAIN d : Groups(p) = h])>> ELSE dump[h])
                order == SetToSeq(children)
            IN <<[t |-> "{"]>> \o
               FlattenSeq([i \in 1 .. Len(order) |->
                    (IF i = 1 THEN <<>> ELSE <<[t |-> ","]>>) \o member(order[i])]) \o <<[t |-> "}"]>>
    IN dump[<<>>]

Dict2Json ==
    /\ outcome = "done" /\ original = <<>> /\ parsed # <<>>
    /\ original' = parsed
    /\ rest' = Dumped(parsed)
    /\ nesting' = <<>> /\ want' = "value" /\ path' = <<>>
    /\ parsed' = <<>> /\ outcome' = "reading"
    /\ UNCHANGED <<corpus, input>>

ReadAgain ==
    /\ outcome = "reading"
    /\ rest # <<>>
    /\ Took(Head(rest))
    /\ rest' = Tail(rest)
    /\ UNCHANGED <<corpus, input, original>>

JsonNext ==
    \/ \E t \in corpus.tokens : ReadToken(t)
    \/ ReadEnd
    \/ Dict2Json
    \/ ReadAgain

-----------------------------------------------------------------------------
\* Types: brackets no deeper than the limit and one.
JsonTypeOK ==
    /\ Len(nesting) <= MaxDepth + 1
    /\ want \in {"value", "first key", "key", "colon", "first item", "more"}
    /\ outcome \in {"reading", "failed", "done"}
    /\ Len(input) <= corpus.max

\* The grammar: the readings of a text as one value, as the members of an object
\* and as the items of an array from index k on.  A reading lists the values with
\* their paths in order, the containers as {}, and has the keys of its members and
\* the depth of its brackets.
RECURSIVE Readings(_, _, _)
Readings(kind, s, k) ==
    LET put(p, r)  == [i \in 1 .. Len(r) |-> [r[i] EXCEPT !.path = p \o @]]
        boxed(r)   == [list |-> <<[path |-> <<>>, value |-> {}]>> \o r.list, keys |-> {},
                       deep |-> IF r.list = <<>> THEN 0 ELSE r.deep + 1]
        nothing    == [list |-> <<>>, keys |-> {}, deep |-> 0]
        first(m)   == SubSeq(s, 1, m - 1)
        others(m)  == SubSeq(s, m + 1, Len(s))
        commas     == {m \in 1 .. Len(s) : s[m].t = ","}
        both(a, b) == [list |-> a.list \o b.list, keys |-> a.keys \cup b.keys,
                       deep |-> IF a.deep > b.deep THEN a.deep ELSE b.deep]
        member(t)  == IF Len(t) < 3 THEN {} ELSE IF t[1].t # "string" \/ t[2].t # ":" THEN {}
                      ELSE {[list |-> put(key, r.list), keys |-> {key}, deep |-> r.deep] :
                                key \in Unescaped(t[1].units), r \in Readings("value", SubSeq(t, 3, Len(t)), 0)}
        item(t)    == {[list |-> put(<<IndexPart[k + 1]>>, r.list), keys |-> {}, deep |-> r.deep] :
                                r \in Readings("value", t, 0)}
        inner      == SubSeq(s, 2, Len(s) - 1)
    IN
    IF s = <<>> THEN {} ELSE
    CASE kind = "value" /\ Len(s) = 1 ->
            IF Scalar(s[1]) THEN {[nothing EXCEPT !.list = <<[path |-> <<>>, value |-> {v}]>>] : v \in ScalarValue(s[1])}
            ELSE {}
      [] kind = "value" /\ Head(s).t = "{" /\ Last(s).t = "}" ->
            {boxed(r) : r \in IF inner = <<>> THEN {nothing} ELSE Readings("members", inner, 0)}
      [] kind = "value" /\ Head(s).t = "[" /\ Last(s).t = "]" ->
            {boxed(r) : r \in IF inner = <<>> THEN {nothing} ELSE Readings("items", inner, 0)}
      [] kind = "members" ->
            member(s) \cup UNION {{both(a, b) : a \in member(first(m)),
                                                b \in {b \in Readings("members", others(m), 0) :
                                                        member(first(m)) # {} /\ \A a \in member(first(m)) : a.keys \cap b.keys = {}}} :
                                   m \in commas}
      [] kind = "items" ->
            item(s) \cup UNION {{both(a, b) : a \in item(first(m)), b \in Readings("items", others(m), k + 1)} :
                                 m \in commas}
      [] OTHER -> {}

\* The texts json2dict() takes: one value, no deeper than the limit, in which
\* nothing comes at a path that already has a scalar.
Grammatical(s) ==
    {r \in Readings("value", s, 0) :
        /\ r.deep <= MaxDepth
        /\ \A i \in 1 .. Len(r.list), j \in 1 .. Len(r.list) :
              i < j /\ r.list[i].path = r.list[j].path => r.list[i].value = {}}

\* json2dict() takes the texts of the grammar and no others, trailing tokens,
\* commas before a bracket, repeated keys and colliding paths refused, and every
\* scalar is under its path.
ReadsTheGrammar ==
    original = <<>> =>
        LET rs == Grammatical(input) IN
        /\ outcome = "done" <=> (rs # {} /\ outcome # "reading")
        /\ outcome = "done" =>
              \A r \in rs : parsed = [p \in {e.path : e \in {e \in ToSet(r.list) : e.value # {}}} |->
                                        CHOOSE v \in UNION {e.value : e \in {e \in ToSet(r.list) : e.path = p}} : TRUE]

\* Numbers compare by value: 2.0 is written 2.
Same(v, w) == v = w \/ (v.type = "double" /\ w.type # "str" /\ w.type # "null" /\ w.type # "bool" /\ v.n = 2 * w.n)

\* A dictionary whose keys are all named, none with more parts than brackets may
\* nest and none continuing another, comes back as it was from the text dict2json() makes of it.
WrittenReadsBack ==
    LET groups == {Groups(p) : p \in DOMAIN original}
        clear  == \A g \in groups : Len(g) \in 1 .. MaxDepth /\ \A h \in groups : g # h => ~IsPrefix(g, h)
    IN original # <<>> /\ clear =>
        /\ outcome # "failed"
        /\ outcome = "done" =>
             /\ DOMAIN parsed = DOMAIN original
             /\ \A p \in DOMAIN parsed : Same(original[p], parsed[p])
=============================================================================
