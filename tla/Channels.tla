------------------------------ MODULE Channels ------------------------------
(***************************************************************************)
(* One chat channel between its platform and the bus: Telegram (polling),  *)
(* Discord and WhatsApp (a socket that reconnects), Slack (socket mode) or *)
(* email (an IMAP mailbox).  A handler may wait for the network: it takes  *)
(* an event in one action and finishes it in another, and the allow list,  *)
(* the other handlers, replies and the end of the process come in between. *)
(* Messages are the positions of setup.mail, in the order they are sent.   *)
(***************************************************************************)
EXTENDS Integers, Sequences, FiniteSets, Functions

CONSTANTS
    Senders,
    Setups,  \* deployments; see Setup
    None

Kinds == {"telegram", "discord", "whatsapp", "slack", "email"}
Message == [from : Senders, direct : BOOLEAN, mention : BOOLEAN, album : BOOLEAN, subject : BOOLEAN]

\* lists: the values allow_from takes; policy, rooms, dm: the policy of groups, whether the
\* group is in group_allow_from, and whom direct messages are taken from; cap: the bound on
\* remembered ids; halts: a bound on the ends of the process; turns: a bound on the turns
\* published when a fetch starts (unmarked mails come again and again).
Setup == [kind : Kinds, mail : Seq(Message), lists : SUBSET SUBSET Senders,
          policy : {"open", "mention", "allowlist"}, rooms : BOOLEAN, dm : SUBSET Senders,
          cap : Nat \ {0}, markSeen : BOOLEAN, auto : BOOLEAN, halts : Nat, turns : Nat]

ASSUME ChannelsAssumption == Setups \subseteq Setup

VARIABLES
    setup,      \* the deployment; it does not change
    arrived,    \* messages sent so far
    offered,    \* events <<message, type>> the platform holds for the channel
    seen,       \* mails with the flag \Seen
    allow,      \* allow_from of the channel's configuration
    link,       \* "off": no process; "down": it reconnects; "up"
    bot,        \* _bot_user_id is known
    connected,  \* _connected (WhatsApp)
    hand,       \* events whose handler waits for the network
    typing,     \* chats with a typing loop
    album,      \* per sender: parts of a media group waiting for the flush
    known,      \* _processed_message_ids (WhatsApp), in the order added
    uids,       \* _processed_uids (email)
    todo, got,  \* the fetch in progress: mails to read, mails read
    subjects,   \* senders in _last_subject_by_chat
    published,  \* what went on the bus: sequences of messages
    open,       \* published turns without a final answer
    sent,       \* turns with an answer that left
    requests,   \* senders with an access request
    halts,
    denied, ignored, dropped, missed,  \* history: messages refused, not meant for the bot, lost
                                       \* by the channel, lost by the platform
    forgotten,  \* history: ids evicted from known or uids, or lost with the process
    again,      \* history: messages offered again, or offered while the bot's id was unknown,
                \* and mails a fetch passed over
    unmarked    \* history: mails the server refused to mark as seen

platform == <<arrived, offered, seen>>
session == <<link, bot, connected>>
handlers == <<hand, album>>
mailbox == <<uids, todo, got, subjects>>
bus == <<published, requests, denied>>
replies == <<open, sent>>
fates == <<ignored, dropped, missed>>
vars == <<setup, platform, allow, session, handlers, typing, known, mailbox, bus, replies, fates,
          halts, forgotten, again, unmarked>>

----------------------------------------------------------------------------
Is(k) == setup.kind = k
M(i) == setup.mail[i]

\* A direct chat is named by its sender, the group by None.
Chat(i) == IF M(i).direct THEN M(i).from ELSE None

\* Slack sends a mention in a channel as two events.
Events(i) ==
    {<<i, "message">>} \cup
    IF Is("slack") /\ M(i).mention /\ ~M(i).direct THEN {<<i, "app_mention">>} ELSE {}

Ids(events) == {e[1] : e \in events}

\* The event repeats one of type app_mention.
Twin(e) == Is("slack") /\ bot /\ e[2] = "message" /\ M(e[1]).mention

\* Refused by the channel's own check, which leaves no access request.
Barred(i) ==
    \/ M(i).direct /\ M(i).from \notin setup.dm
    \/ ~M(i).direct /\ setup.policy = "allowlist" /\ ~setup.rooms

\* In a group and not said to the bot.
Overheard(i) == ~M(i).direct /\ setup.policy = "mention" /\ ~M(i).mention

\* Whether the bot learns its own id: Slack's auth_test may fail, Discord says READY first.
BotKnown == IF Is("slack") THEN BOOLEAN ELSE {TRUE}

Reconnects == setup.kind \in {"discord", "whatsapp"}

\* _handle_message: one message (or album) to the bus, or an access request.
Handle(is) ==
    \/ /\ M(is[1]).from \in allow
       /\ published' = Append(published, is)
       /\ open' = open \cup {Len(published')}
       /\ UNCHANGED <<requests, denied, sent>>
    \/ /\ M(is[1]).from \notin allow
       /\ requests' = requests \cup {M(is[1]).from}
       /\ denied' = denied \cup Range(is)
       /\ UNCHANGED <<published, replies>>

Init ==
    /\ setup \in Setups /\ allow \in setup.lists
    /\ arrived = 0 /\ offered = {} /\ seen = {}
    /\ link = "off" /\ bot = FALSE /\ connected = FALSE
    /\ hand = {} /\ typing = {} /\ album = [s \in Senders |-> <<>>] /\ known = <<>>
    /\ uids = {} /\ todo = {} /\ got = <<>> /\ subjects = {}
    /\ published = <<>> /\ open = {} /\ sent = {} /\ requests = {} /\ halts = 0
    /\ denied = {} /\ ignored = {} /\ dropped = {} /\ missed = {} /\ forgotten = {} /\ again = {} /\ unmarked = {}

----------------------------------------------------------------------------
\* The platform.

\* A server keeps mail and Telegram updates; the others send to a socket or to nobody.
Arrive ==
    LET i == arrived + 1 IN
    /\ i <= Len(setup.mail)
    /\ arrived' = i
    /\ IF Is("email") THEN UNCHANGED <<offered, missed>>
       ELSE IF Is("telegram") \/ link = "up" THEN offered' = offered \cup Events(i) /\ UNCHANGED missed
       ELSE UNCHANGED offered /\ missed' = missed \cup {i}
    /\ UNCHANGED <<setup, seen, allow, session, handlers, typing, known, mailbox, bus, replies,
                   ignored, dropped, halts, forgotten, again, unmarked>>

\* The bridge repeats a message; Slack an event whose acknowledgement it missed.
Redeliver ==
    /\ link = "up" /\ setup.kind \in {"whatsapp", "slack"}
    /\ \E i \in (1..arrived) \ again :
         /\ \E e \in Events(i) : offered' = offered \cup {e}
         /\ again' = again \cup {i}
    /\ UNCHANGED <<setup, arrived, seen, allow, session, handlers, typing, known, mailbox, bus,
                   replies, fates, halts, forgotten, unmarked>>

\* Telegram drops the pending updates.
Connect ==
    /\ link # "up" /\ link' = "up"
    /\ bot' \in BotKnown
    /\ connected' = TRUE
    /\ IF Is("telegram") THEN offered' = {} /\ missed' = missed \cup Ids(offered)
       ELSE UNCHANGED <<offered, missed>>
    /\ UNCHANGED <<setup, arrived, seen, allow, handlers, typing, known, mailbox, bus, replies,
                   ignored, dropped, halts, forgotten, again, unmarked>>

\* The socket closes; after a normal close _connected stays.
Disconnect ==
    /\ link = "up" /\ hand = {} /\ Reconnects
    /\ link' = "down" /\ connected' \in {FALSE, connected}
    /\ offered' = {} /\ missed' = missed \cup Ids(offered)
    /\ UNCHANGED <<setup, arrived, seen, allow, bot, handlers, typing, known, mailbox, bus, replies,
                   ignored, dropped, halts, forgotten, again, unmarked>>

\* A status message of the bridge.
Status ==
    /\ Is("whatsapp") /\ link = "up"
    /\ connected' = ~connected
    /\ UNCHANGED <<setup, platform, allow, link, bot, handlers, typing, known, mailbox, bus, replies,
                   fates, halts, forgotten, again, unmarked>>

\* The process ends, and all the channel remembers with it.
Halt ==
    /\ link # "off" /\ halts < setup.halts
    /\ link' = "off" /\ bot' = FALSE /\ connected' = FALSE /\ halts' = halts + 1
    /\ dropped' = dropped \cup Ids(hand) \cup Range(got) \cup UNION {Range(album[s]) : s \in Senders}
    /\ IF Is("telegram") THEN UNCHANGED <<offered, missed>>
       ELSE offered' = {} /\ missed' = missed \cup Ids(offered)
    /\ hand' = {} /\ album' = [s \in Senders |-> <<>>] /\ typing' = {}
    /\ forgotten' = forgotten \cup Range(known) \cup uids /\ known' = <<>> /\ uids' = {}
    /\ todo' = {} /\ got' = <<>> /\ subjects' = {} /\ open' = {}
    /\ UNCHANGED <<setup, arrived, seen, allow, bus, sent, ignored, again, unmarked>>

\* apply_runtime_channel_allowlists, after the allow list was edited.
Reload ==
    /\ allow' \in setup.lists \ {allow}
    /\ UNCHANGED <<setup, platform, session, handlers, typing, known, mailbox, bus, replies, fates,
                   halts, forgotten, again, unmarked>>

----------------------------------------------------------------------------
\* Messages from a socket or from polling.

\* Telegram and Discord handle one message after the other.  Discord looks at the list
\* and at the group policy before the attachments are fetched.
TakeNext ==
    /\ link = "up" /\ hand = {} /\ setup.kind \in {"telegram", "discord"}
    /\ \E e \in offered :
         /\ \A f \in offered : e[1] <= f[1]
         /\ offered' = offered \ {e}
         /\ \/ /\ Is("discord") /\ M(e[1]).from \notin allow
               /\ denied' = denied \cup {e[1]}
               /\ UNCHANGED <<hand, ignored>>
            \/ /\ Is("discord") /\ M(e[1]).from \in allow /\ Overheard(e[1])
               /\ ignored' = ignored \cup {e[1]}
               /\ UNCHANGED <<hand, denied>>
            \/ /\ Is("discord") => M(e[1]).from \in allow /\ ~Overheard(e[1])
               /\ hand' = {e}
               /\ UNCHANGED <<ignored, denied>>
    /\ UNCHANGED <<setup, arrived, seen, allow, session, album, typing, known, mailbox, published,
                   requests, replies, dropped, missed, halts, forgotten, again, unmarked>>

\* Slack's handlers run beside each other; each acknowledges its event first.
TakeSlack ==
    /\ link = "up" /\ Is("slack")
    /\ \E e \in offered :
         /\ offered' = offered \ {e}
         /\ again' = IF bot THEN again ELSE again \cup {e[1]}
         /\ \/ /\ Twin(e)
               /\ ignored' = IF M(e[1]).direct THEN ignored \cup {e[1]} ELSE ignored
               /\ UNCHANGED <<hand, denied>>
            \/ /\ ~Twin(e) /\ Barred(e[1])
               /\ denied' = denied \cup {e[1]}
               /\ UNCHANGED <<hand, ignored>>
            \/ /\ ~Twin(e) /\ ~Barred(e[1])
               /\ IF e[2] = "message" /\ ~M(e[1]).direct /\ setup.policy = "mention"
                  THEN ignored' = ignored \cup {e[1]} /\ UNCHANGED hand
                  ELSE hand' = hand \cup {e} /\ UNCHANGED ignored
               /\ UNCHANGED denied
    /\ UNCHANGED <<setup, arrived, seen, allow, session, album, typing, known, mailbox, published,
                   requests, replies, dropped, missed, halts, forgotten, unmarked>>

Starts(i) == typing' = IF setup.kind \in {"telegram", "discord"} THEN typing \cup {Chat(i)} ELSE typing

\* The handler goes on after its downloads and reactions: to the bus, typing first.
Finish ==
    /\ \E e \in hand :
         /\ ~(Is("telegram") /\ M(e[1]).album)
         /\ hand' = hand \ {e}
         /\ Starts(e[1])
         /\ Handle(<<e[1]>>)
    /\ UNCHANGED <<setup, platform, allow, session, album, known, mailbox, fates, halts, forgotten, again, unmarked>>

\* Mutant of AddPart: every part starts the buffer anew.
AddPart_Anew ==
    /\ \E e \in hand :
         /\ Is("telegram") /\ M(e[1]).album
         /\ hand' = hand \ {e}
         /\ typing' = typing \cup {Chat(e[1])}
         /\ album' = [album EXCEPT ![M(e[1]).from] = <<e[1]>>]
    /\ UNCHANGED <<setup, platform, allow, session, known, mailbox, bus, replies, fates, halts,
                   forgotten, again, unmarked>>

\* A part of a media group joins the buffer; the first starts the typing and the flush.
AddPart ==
    /\ \E e \in hand :
         LET s == M(e[1]).from IN
         /\ Is("telegram") /\ M(e[1]).album
         /\ hand' = hand \ {e}
         /\ typing' = IF album[s] = <<>> THEN typing \cup {Chat(e[1])} ELSE typing
         /\ album' = [album EXCEPT ![s] = Append(@, e[1])]
    /\ UNCHANGED <<setup, platform, allow, session, known, mailbox, bus, replies, fates, halts,
                   forgotten, again, unmarked>>

\* _flush_media_group, some time after the first part.
FlushAlbum ==
    /\ \E s \in Senders :
         /\ album[s] # <<>>
         /\ Handle(album[s])
         /\ album' = [album EXCEPT ![s] = <<>>]
    /\ UNCHANGED <<setup, platform, allow, session, hand, typing, known, mailbox, fates, halts,
                   forgotten, again, unmarked>>

\* Mutant of Evict: one id too many stays.
Evict_Late(ids) == IF Len(ids) > setup.cap + 1 THEN Tail(ids) ELSE ids

Evict(ids) == IF Len(ids) > setup.cap THEN Tail(ids) ELSE ids

\* A message from the bridge is handled without a wait.
TakeBridged ==
    /\ Is("whatsapp") /\ link = "up"
    /\ \E e \in offered :
         /\ offered' = offered \ {e}
         /\ \/ /\ e[1] \in Range(known)
               /\ UNCHANGED <<known, forgotten, bus, replies>>
            \/ /\ e[1] \notin Range(known)
               /\ known' = Evict(Append(known, e[1]))
               /\ forgotten' = forgotten \cup (Range(known) \ Range(known'))
               /\ Handle(<<e[1]>>)
    /\ UNCHANGED <<setup, arrived, seen, allow, session, handlers, typing, mailbox, fates, halts, again, unmarked>>

----------------------------------------------------------------------------
\* Email: a thread reads the unseen mails, then the loop handles them.

Search ==
    /\ Is("email") /\ link = "up" /\ todo = {} /\ got = <<>> /\ Len(published) < setup.turns
    /\ todo' = 1..arrived \ seen
    /\ todo' # {}
    /\ UNCHANGED <<setup, platform, allow, session, handlers, typing, known, uids, got, subjects, bus,
                   replies, fates, halts, forgotten, again, unmarked>>

\* Mails are read in the order of the search.
NextMail(i) == i \in todo /\ \A j \in todo : i <= j

\* When over the cap, an arbitrary half is forgotten.
Halved(ids) ==
    IF Cardinality(ids) <= setup.cap THEN {ids}
    ELSE {kept \in SUBSET ids : Cardinality(kept) = Cardinality(ids) - Cardinality(ids) \div 2}

Remember(i) ==
    /\ uids' \in Halved(uids \cup {i})
    /\ forgotten' = forgotten \cup ((uids \cup {i}) \ uids')

\* The answer of client.store is not looked at: the server may say no.
MarkSeen(i) ==
    \/ /\ seen' = IF setup.markSeen THEN seen \cup {i} ELSE seen
       /\ UNCHANGED unmarked
    \/ /\ setup.markSeen
       /\ unmarked' = unmarked \cup {i}
       /\ UNCHANGED seen

\* Mutant of FetchOne: the uid is not looked up.
FetchOne_Again ==
    /\ \E i \in todo :
       /\ NextMail(i) /\ todo' = todo \ {i}
       /\ got' = Append(got, i)
       /\ uids' \in Halved(uids \cup {i})
       /\ forgotten' = forgotten \cup (uids \ uids')
       /\ MarkSeen(i)
    /\ UNCHANGED <<setup, arrived, offered, allow, session, handlers, typing, known, subjects, bus, replies,
                   fates, halts, again>>

\* One mail is read, remembered and marked, or passed over when the server does not return it.
FetchOne ==
    /\ \E i \in todo :
       /\ NextMail(i) /\ todo' = todo \ {i}
       /\ \/ /\ again' = again \cup {i}
             /\ UNCHANGED <<got, uids, forgotten, seen, unmarked>>
          \/ /\ i \in uids
             /\ UNCHANGED <<got, uids, forgotten, seen, again, unmarked>>
          \/ /\ i \notin uids
             /\ got' = Append(got, i)
             /\ Remember(i)
             /\ MarkSeen(i)
             /\ UNCHANGED again
    /\ UNCHANGED <<setup, arrived, offered, allow, session, handlers, typing, known, subjects, bus, replies,
                   fates, halts>>

\* The server fails, before a fetch or before the mark: what was read is lost.
FetchFail ==
    /\ todo # {}
    /\ todo' = {} /\ got' = <<>>
    /\ \/ dropped' = dropped \cup Range(got) /\ UNCHANGED <<uids, forgotten>>
       \/ \E i \in todo :
            /\ NextMail(i) /\ setup.markSeen /\ i \notin uids
            /\ dropped' = dropped \cup Range(got) \cup {i}
            /\ Remember(i)
    /\ UNCHANGED <<setup, platform, allow, session, handlers, typing, known, subjects, bus, replies, ignored,
                   missed, halts, again, unmarked>>

\* Mutant of Deliver: the mails are handled from the last to the first.
Deliver_Last ==
    /\ todo = {} /\ got # <<>>
    /\ got' = SubSeq(got, 1, Len(got) - 1)
    /\ LET i == got[Len(got)] IN
       /\ subjects' = IF M(i).subject THEN subjects \cup {M(i).from} ELSE subjects
       /\ Handle(<<i>>)
    /\ UNCHANGED <<setup, platform, allow, session, handlers, typing, known, uids, todo, fates, halts,
                   forgotten, again, unmarked>>

Deliver ==
    /\ todo = {} /\ got # <<>>
    /\ got' = Tail(got)
    /\ subjects' = IF M(got[1]).subject THEN subjects \cup {M(got[1]).from} ELSE subjects
    /\ Handle(<<got[1]>>)
    /\ UNCHANGED <<setup, platform, allow, session, handlers, typing, known, uids, todo, fates, halts,
                   forgotten, again, unmarked>>

----------------------------------------------------------------------------
\* Replies.

\* Mutant of Stops: any message of Discord and Telegram but the final one stops the typing.
Stops_Late(final) == setup.kind \in {"telegram", "discord"} /\ ~final

\* Telegram stops typing at the final answer, Discord at any message.
Stops(final) == Is("discord") \/ (Is("telegram") /\ final)

\* The channel drops the message without an attempt.
Withheld(s) ==
    \/ Is("whatsapp") /\ (link # "up" \/ ~connected)
    \/ Is("email") /\ ~setup.auto /\ s \in subjects

\* A progress message or the final answer of a turn; the attempt may fail, nobody retries.
Send ==
    /\ link # "off"
    /\ \E k \in open, final \in BOOLEAN :
         LET i == published[k][1] IN
         /\ typing' = IF Stops(final) THEN typing \ {Chat(i)} ELSE typing
         /\ open' = IF final THEN open \ {k} ELSE open
         /\ sent' \in IF Withheld(M(i).from) THEN {sent} ELSE {sent, sent \cup {k}}
    /\ UNCHANGED <<setup, platform, allow, session, handlers, known, mailbox, bus, fates, halts,
                   forgotten, again, unmarked>>

Next ==
    \/ Arrive \/ Redeliver \/ Connect \/ Disconnect \/ Status \/ Halt \/ Reload
    \/ TakeNext \/ TakeSlack \/ Finish \/ AddPart \/ FlushAlbum \/ TakeBridged
    \/ Search \/ FetchOne \/ FetchFail \/ Deliver \/ Send

Spec == Init /\ [][Next]_vars

----------------------------------------------------------------------------
TypeOK ==
    /\ setup \in Setups /\ allow \in setup.lists
    /\ arrived \in 0..Len(setup.mail) /\ offered \subseteq UNION {Events(i) : i \in 1..arrived}
    /\ link \in {"off", "down", "up"} /\ {bot, connected} \subseteq BOOLEAN
    /\ hand \subseteq UNION {Events(i) : i \in 1..arrived} /\ typing \subseteq Senders \cup {None}
    /\ album \in [Senders -> Seq(1..arrived)]
    /\ known \in Seq(1..arrived) /\ Len(known) <= setup.cap
    /\ got \in Seq(1..arrived) /\ todo \cup uids \subseteq 1..arrived
    /\ subjects \subseteq Senders /\ requests \subseteq Senders
    /\ published \in Seq(Seq(1..arrived) \ {<<>>}) /\ open \cup sent \subseteq DOMAIN published
    /\ seen \cup denied \cup ignored \cup dropped \cup missed \cup forgotten \cup again \cup unmarked
         \subseteq 1..arrived

\* A message reaches the bus at most once.  What can repeat one: a WhatsApp message whose id
\* has been forgotten, a mail whose uid has been forgotten when mails are not marked as seen or
\* the server has refused the mark, and on Slack an event sent again, or a mention while the bot does not know its own id.
AtMostOnce ==
    \A i \in 1..arrived :
        \/ Cardinality({k \in DOMAIN published : i \in Range(published[k])}) <= 1
        \/ Is("whatsapp") /\ i \in forgotten
        \/ Is("email") /\ (setup.markSeen => i \in unmarked) /\ i \in forgotten
        \/ Is("slack") /\ i \in again

\* No message disappears: it waits, was published, was refused or passed over, or it was lost in
\* one of the known ways (the link was down, the process ended, a fetch failed).
Accounted ==
    \A i \in 1..arrived :
        \/ i \in Ids(offered) \cup Ids(hand) \cup Range(got) \cup UNION {Range(album[s]) : s \in Senders}
        \/ Is("email") /\ i \notin seen \cup uids
        \/ \E k \in DOMAIN published : i \in Range(published[k])
        \/ i \in denied \cup ignored \cup dropped \cup missed

\* A chat shows the bot as typing only while a turn of it is unanswered or an album of it waits,
\* or because a message of it was refused after the typing had started: nothing stops it then.
TypingHasReason ==
    \A c \in typing :
        \/ \E k \in open : Chat(published[k][1]) = c
        \/ \E s \in Senders : album[s] # <<>> /\ Chat(album[s][1]) = c
        \/ \E i \in denied : Chat(i) = c

\* Telegram, Discord and email publish in the order the platform delivers; only an album, whose
\* parts wait in the buffer, is overtaken, and of the mails only one that was forgotten or that a
\* fetch passed over.
InOrder ==
    setup.kind \in {"telegram", "discord", "email"} =>
        \A k, l \in DOMAIN published :
            k < l => \/ published[k][1] < published[l][1]
                     \/ M(published[l][1]).album
                     \/ published[l][1] \in forgotten \cup again

\* With auto_reply_enabled = false inbound email is read but no automatic reply is sent
\* (config/schema.py).  The code tells a reply by a remembered subject.
NoAutoReply == Is("email") /\ ~setup.auto => sent = {}
============================================================================
