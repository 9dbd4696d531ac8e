-------------------------------- MODULE Acl --------------------------------
(***************************************************************************)
(* The access lists of acl.c: selectors are parsed into rules, a subject is *)
(* whoever asks, of whom the address or the identity may still be unknown,  *)
(* and the first rule that matches decides.                                 *)
(*                                                                         *)
(* Addresses are short bit sequences: an IPv6 address is MappedPrefix, the  *)
(* block ::ffff:0:0/96, followed by an IPv4 address, or any other bits of   *)
(* the same length.  A selector is a sequence of tokens, split at '@'.      *)
(***************************************************************************)
EXTENDS Integers, Sequences, SequencesExt

CONSTANTS MappedPrefix,  \* the bits of ::ffff:0:0/96
          HostBits,      \* the length of an IPv4 address
          Selectors,     \* selectors rules are made of
          Hosts,         \* addresses people come from: [family, bits]
          Users,         \* user names
          GroupsOf,      \* of each user, the groups in_group() says yes to
          MaxRules

At      == [t |-> "at"]            \* '@'
All     == [t |-> "all"]           \* "all" or "*"
Word(w) == [t |-> "word", w |-> w] \* neither an address nor numeric
Numeric == [t |-> "numeric"]       \* dotted, all numeric, no address
Blanks  == [t |-> "blanks"]        \* a blank or '='
Net(f, b)      == [t |-> "net", family |-> f, bits |-> b, slash |-> FALSE, prefix |-> 0]
NetOf(f, b, p) == [t |-> "net", family |-> f, bits |-> b, slash |-> TRUE, prefix |-> p]

PrefixBits == Len(MappedPrefix)
Width(family) == IF family = 4 THEN HostBits ELSE PrefixBits + HostBits

\* A network as inet_pton() and strtoul() read it, a name, and what follows an '@'.
IsNet(x)   == /\ x.t = "net" /\ x.family \in {4, 6} /\ x.prefix \in Nat
              /\ x.bits \in Seq({0, 1}) /\ Len(x.bits) = Width(x.family)
IsWord(x)  == x.t = "word" /\ x = Word(x.w)
IsPlace(x) == x = All \/ IsNet(x)

\* Selectors that name users and groups by words; every form acl_rule_parse() takes.
Formed(s) ==
    \/ Len(s) = 1 /\ (IsPlace(s[1]) \/ IsWord(s[1]))
    \/ Len(s) = 2 /\ s[1] = At /\ IsWord(s[2])
    \/ Len(s) = 3 /\ IsWord(s[1]) /\ s[2] = At /\ IsPlace(s[3])
    \/ Len(s) = 4 /\ s[1] = At /\ IsWord(s[2]) /\ s[3] = At /\ IsPlace(s[4])

VARIABLES rules,     \* the list, in order
          texts,     \* history: the selectors the rules were parsed from
          host, user, \* who asks
          hostKnown, userKnown, \* what is known of him so far
          settled    \* history: the verdicts that were not deferred

aclVars == <<rules, texts, host, user, hostKnown, userKnown, settled>>

-----------------------------------------------------------------------------
\* mapped().
IsMapped(bits) == IsPrefix(MappedPrefix, bits)

NoNetwork == [family |-> 0, bits |-> <<>>, prefix |-> 0]
NoRule   == [ok |-> FALSE]

\* A network inside the mapped block becomes an IPv4 network.
Normalised(n) ==
    IF n.family = 6 /\ IsMapped(n.bits) /\ n.prefix >= PrefixBits
    THEN [family |-> 4, bits |-> SubSeq(n.bits, PrefixBits + 1, Len(n.bits)),
          prefix |-> n.prefix - PrefixBits]
    ELSE n

\* network_parse(): of one token.
NetworkParse(s) ==
    CASE s = <<All>> -> [ok |-> TRUE, net |-> NoNetwork]
      [] Len(s) = 1 /\ s[1].t = "net" ->
            LET prefix == IF s[1].slash THEN s[1].prefix ELSE Width(s[1].family) IN
            IF prefix > Width(s[1].family) THEN NoRule
            ELSE [ok |-> TRUE, net |-> Normalised([family |-> s[1].family, bits |-> s[1].bits,
                                                   prefix |-> prefix])]
      [] OTHER -> NoRule

\* acl_rule_parse(): what stands before the last '@', unless that one only marks a
\* group, and what stands after it.
LastAt(s)  == SelectLastInSubSeq(s, 1, Len(s), LAMBDA x : x = At)
IsSplit(s) == LastAt(s) > 1
IsAlone(s) == Len(s) = 1 /\ s[1].t \in {"all", "net"}
PrincipalIn(s) == IF IsSplit(s) THEN SubSeq(s, 1, LastAt(s) - 1)
                  ELSE IF IsAlone(s) THEN <<>> ELSE s
IsGroup(s) == PrincipalIn(s) # <<>> /\ PrincipalIn(s)[1] = At
NamedIn(s) == IF IsGroup(s) THEN Tail(PrincipalIn(s)) ELSE PrincipalIn(s)
PlaceIn(s) == IF IsSplit(s) THEN NetworkParse(SubSeq(s, LastAt(s) + 1, Len(s)))
              ELSE IF IsAlone(s) THEN NetworkParse(s) ELSE [ok |-> TRUE, net |-> NoNetwork]

\* A rule, or a selector refused.
RuleParse(allow, s) ==
    IF \/ s = <<>> \/ Blanks \in Range(s)
       \/ s = <<Numeric>>
       \/ ~IsAlone(s) /\ (NamedIn(s) = <<>> \/ At \in Range(NamedIn(s)))
       \/ ~PlaceIn(s).ok
    THEN NoRule
    ELSE [ok |-> TRUE,
          rule |-> [allow |-> allow, net |-> PlaceIn(s).net, principal |-> NamedIn(s),
                    kind |-> IF IsAlone(s) THEN "any" ELSE IF IsGroup(s) THEN "group" ELSE "user"]]

ASSUME AclAssumption ==
    /\ HostBits \in Nat /\ MaxRules \in Nat /\ MappedPrefix \in Seq({0, 1})
    /\ \A h \in Hosts : /\ h.family \in {4, 6} /\ h.bits \in Seq({0, 1})
                        /\ Len(h.bits) = Width(h.family)
    /\ \A s \in Selectors : s \in Seq(Range(s)) /\ (Formed(s) \/ ~RuleParse(TRUE, s).ok)

\* The address acl_subject_init() keeps.
AddressOf(h) ==
    IF h.family = 6 /\ IsMapped(h.bits)
    THEN [family |-> 4, bits |-> SubSeq(h.bits, PrefixBits + 1, Len(h.bits))]
    ELSE h

Unknown == [family |-> 0, bits |-> <<>>]

\* The subject as far as it is known.
Subject(h, u, knowsHost, knowsUser) ==
    [address |-> IF knowsHost THEN AddressOf(h) ELSE Unknown, user |-> u, known |-> knowsUser]

\* Mutant: a rule for a user is passed over while the user is unknown.
UndecidedSkipped == "no match"

\* What a rule for a user or a group says while the user is unknown.
Undecided == "defer"

\* A known address outside the network of a rule.
Elsewhere(r, s) ==
    /\ r.net.family # 0 /\ s.address.family # 0
    /\ \/ r.net.family # s.address.family
       \/ SubSeq(r.net.bits, 1, r.net.prefix) # SubSeq(s.address.bits, 1, r.net.prefix)

\* A known user the rule does not name.
SomeoneElse(r, s) ==
    \/ r.kind = "user" /\ r.principal # <<Word(s.user)>>
    \/ r.kind = "group" /\ r.principal \notin {<<Word(g)>> : g \in GroupsOf[s.user]}

\* acl_rule_match().
RuleMatch(r, s) ==
    IF Elsewhere(r, s) THEN "no match"
    ELSE IF r.kind # "any" /\ ~s.known THEN Undecided
    ELSE IF SomeoneElse(r, s) THEN "no match"
    ELSE IF r.net.family # 0 /\ s.address.family = 0 THEN "defer"
    ELSE IF r.allow THEN "allow" ELSE "deny"

\* acl_check().
Check(rs, s) ==
    LET i == SelectInSeq(rs, LAMBDA r : RuleMatch(r, s) # "no match")
    IN IF i = 0 THEN "deny" ELSE RuleMatch(rs[i], s)

-----------------------------------------------------------------------------
AclStart ==
    /\ rules = <<>> /\ texts = <<>>
    /\ host \in Hosts /\ user \in Users
    /\ hostKnown = FALSE /\ userKnown = FALSE
    /\ settled = {}

\* A caller adds a rule; a refused selector is not added.
AddRule(allow, s) ==
    LET result == RuleParse(allow, s) IN
    /\ settled = {} /\ ~hostKnown /\ ~userKnown
    /\ Len(rules) < MaxRules
    /\ result.ok
    /\ rules' = Append(rules, result.rule)
    /\ texts' = Append(texts, [allow |-> allow, selector |-> s])
    /\ UNCHANGED <<host, user, hostKnown, userKnown, settled>>

\* The address arrives with the connection, the name with the login, in either order.
LearnHost ==
    /\ ~hostKnown /\ hostKnown' = TRUE
    /\ UNCHANGED <<rules, texts, host, user, userKnown, settled>>
LearnUser ==
    /\ ~userKnown /\ userKnown' = TRUE
    /\ UNCHANGED <<rules, texts, host, user, hostKnown, settled>>

\* The caller asks with what is known, and asks again when told to wait.
Ask ==
    LET verdict == Check(rules, Subject(host, user, hostKnown, userKnown)) IN
    /\ verdict # "defer"
    /\ settled' = settled \cup {verdict}
    /\ UNCHANGED <<rules, texts, host, user, hostKnown, userKnown>>

AclNext ==
    \/ \E allow \in BOOLEAN, s \in Selectors : AddRule(allow, s)
    \/ LearnHost \/ LearnUser \/ Ask

AclSpec == AclStart /\ [][AclNext]_aclVars

-----------------------------------------------------------------------------
\* What a selector says, read without parsing it into a rule: hosts compared as
\* IPv6 addresses, IPv4 ones inside the mapped block.
Wide(family, bits) == IF family = 4 THEN MappedPrefix \o bits ELSE bits
Covers(n, h) ==
    LET prefix == IF n.slash THEN n.prefix ELSE Width(n.family)
        wide   == IF n.family = 4 THEN prefix + PrefixBits ELSE prefix
        who    == Wide(h.family, h.bits)
    IN /\ SubSeq(Wide(n.family, n.bits), 1, wide) = SubSeq(who, 1, wide)
       /\ wide < PrefixBits => ~IsMapped(who)
Says(s, h, u) ==
    /\ \A i \in DOMAIN s : s[i].t = "net" => Covers(s[i], h)
    /\ \A i \in DOMAIN s : s[i].t = "word" =>
          s[i].w \in (IF i > 1 /\ s[i - 1] = At THEN GroupsOf[u] ELSE {u})
MeantVerdict ==
    LET i == SelectInSeq(texts, LAMBDA x : Says(x.selector, host, user))
    IN IF i = 0 \/ ~texts[i].allow THEN "deny" ELSE "allow"

\* A verdict given before everything is known, and every later one, is the verdict
\* of the first selector in the list that speaks of this host and this user,
\* however the address is written ("DEFER is never authorization", acl.h:43-44).
VerdictsStand == settled \subseteq {MeantVerdict}
=============================================================================
