----------------------------- MODULE MCChannels -----------------------------
EXTENDS Channels
CONSTANTS s1, s2

Said(s, dir, men) == [from |-> s, direct |-> dir, mention |-> men, album |-> FALSE, subject |-> TRUE]
Part(s) == [Said(s, FALSE, FALSE) EXCEPT !.album = TRUE]
Mail(s, sub) == [Said(s, TRUE, FALSE) EXCEPT !.subject = sub]

Base == [kind |-> "telegram", mail |-> <<>>, lists |-> {{s1}, {s1, s2}}, policy |-> "mention",
         rooms |-> FALSE, dm |-> {s1}, cap |-> 1, markSeen |-> TRUE, auto |-> TRUE, halts |-> 1, turns |-> 3]

MCSetups ==
    {[Base EXCEPT !.mail = <<Part(s1), Part(s1), Said(s2, FALSE, FALSE), Said(s1, TRUE, FALSE)>>],
     [Base EXCEPT !.mail = <<Said(s1, TRUE, FALSE), Part(s2), Part(s2), Part(s2)>>],
     [Base EXCEPT !.kind = "discord",
                  !.mail = <<Said(s1, FALSE, TRUE), Said(s2, FALSE, FALSE), Said(s2, TRUE, FALSE)>>],
     [Base EXCEPT !.kind = "whatsapp", !.mail = <<Said(s1, TRUE, FALSE), Said(s2, FALSE, FALSE)>>]}
    \cup {[Base EXCEPT !.kind = "slack", !.lists = {{s1}}, !.policy = p, !.rooms = (p = "allowlist"),
                       !.dm = IF p = "mention" THEN {} ELSE {s1},
                       !.mail = <<Said(s1, FALSE, TRUE), Said(s2, FALSE, FALSE), Said(s1, TRUE, TRUE)>>] :
             p \in {"open", "mention", "allowlist"}}
    \cup {[Base EXCEPT !.kind = "email", !.mail = <<Mail(s1, TRUE), Mail(s2, FALSE)>>],
           [Base EXCEPT !.kind = "email", !.cap = 2, !.lists = {{s1}}, !.turns = 1, !.halts = 0,
                       !.mail = <<Mail(s1, TRUE), Mail(s2, FALSE), Mail(s1, FALSE)>>],
           [Base EXCEPT !.kind = "email", !.markSeen = FALSE, !.auto = FALSE,
                       !.mail = <<Mail(s1, TRUE), Mail(s2, FALSE)>>]}
============================================================================
