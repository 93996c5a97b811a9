-------------------------- MODULE MCContentPolicy --------------------------
EXTENDS ContentPolicy
CONSTANTS a1, a2, g1, g2

Rule(action, priority, scopes) == [action |-> action, priority |-> priority, scopes |-> scopes]
MCRules ==
    [language |-> Rule("warn", 150, {"input", "output"}), email |-> Rule("mask", 100, Scopes),
     phone |-> Rule("mask", 180, {"output", "memory_write"}), token |-> Rule("block", 200, Scopes),
     breach |-> Rule("escalate", 50, {"output"})]

Text(size, persist, spans) ==
    [size |-> size, persist |-> persist,
     spans |-> [r \in DOMAIN MCRules |-> IF r \in DOMAIN spans THEN spans[r] ELSE {}]]

\* One finding; a span inside another, one that touches it, one apart; an empty span; a
\* token among others.
MCTexts ==
    [one |-> Text(3, FALSE, [email |-> {<<1, 2>>}]),
     many |-> Text(6, FALSE, [email |-> {<<0, 3>>, <<5, 6>>}, phone |-> {<<1, 2>>, <<3, 4>>}, language |-> {<<1, 2>>}]),
     empty |-> Text(4, TRUE, [phone |-> {<<0, 0>>, <<2, 2>>}, email |-> {<<2, 3>>}, language |-> {<<0, 4>>}]),
     token |-> Text(4, TRUE, [token |-> {<<2, 4>>}, email |-> {<<0, 1>>}, breach |-> {<<0, 4>>}])]

Enforcing(version, on) == [version |-> version, mode |-> "enforce", on |-> on]
Off == [version |-> 1, mode |-> "off", on |-> {"email"}]

\* Saves beside each other and beside two gateways; a new installation; one whose servers
\* crash; and every policy on every text for every purpose.
MCSetups ==
    {[first |-> Enforcing(1, {"email"}), saved |-> {Enforcing(1, {"token"}), Enforcing(3, {"email", "token"})},
      texts |-> {"token"}, scopes |-> {"input"}, requests |-> 2, judgements |-> 3, crashes |-> 0],
     [first |-> Nothing, saved |-> {Enforcing(1, {"token"})},
      texts |-> {"token"}, scopes |-> {"input"}, requests |-> 2, judgements |-> 1, crashes |-> 0],
     [first |-> Enforcing(1, {"email"}), saved |-> {Off},
      texts |-> {"token"}, scopes |-> {"input"}, requests |-> 2, judgements |-> 2, crashes |-> 1]}
    \cup [first : [version : {1}, mode : Modes, on : SUBSET DOMAIN MCRules], saved : {{}},
          texts : {DOMAIN MCTexts}, scopes : {Scopes}, requests : {0}, judgements : {1}, crashes : {0}]
Symmetry == {[x \in {a1, a2, g1, g2} |-> IF x \in {p, q} THEN (IF x = p THEN q ELSE p) ELSE x] :
               <<p, q>> \in {<<a1, a1>>, <<a1, a2>>, <<g1, g2>>}}
            \cup {[x \in {a1, a2, g1, g2} |-> CASE x = a1 -> a2 [] x = a2 -> a1 [] x = g1 -> g2 [] OTHER -> g1]}
============================================================================
