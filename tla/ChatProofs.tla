----------------------------- MODULE ChatProofs -----------------------------
(***************************************************************************)
(* Proofs about the two ends of a chat: a channel between its platform and *)
(* the bus (Channels), and the chat that the tools of a turn act on        *)
(* (TurnContext).  The two modules share no name, so that a theorem can be *)
(* stated of either specification.                                         *)
(*                                                                         *)
(* Of Channels: the types; where a message can be (Places); then, for each *)
(* invariant, what it rests on: Reckoned for Accounted, Single and Guarded *)
(* for AtMostOnce, Queued and InTurn for InOrder.  Of TurnContext: its own *)
(* inductive invariant TurnIInv, action by action.                         *)
(***************************************************************************)
EXTENDS Channels, TurnContext, SequenceTheorems, FiniteSetTheorems, TLAPS

\* The types, part by part.
Setting ==
    /\ setup \in Setups /\ setup \in Setup /\ allow \in setup.lists /\ arrived \in 0..Len(setup.mail)
    /\ link \in {"off", "down", "up"} /\ bot \in BOOLEAN /\ connected \in BOOLEAN
Waiting ==
    /\ \A e \in offered \cup hand : e[1] \in 1..arrived /\ e \in Events(e[1])
    /\ album \in [Senders -> Seq(1..arrived)] /\ typing \subseteq Senders \cup {None}
Memory == known \in Seq(1..arrived) /\ Len(known) <= setup.cap /\ uids \subseteq 1..arrived
Fetching == todo \subseteq 1..arrived /\ got \in Seq(1..arrived) /\ subjects \subseteq Senders
OnBus ==
    /\ published \in Seq(Seq(1..arrived) \ {<<>>}) /\ open \subseteq DOMAIN published /\ sent \subseteq DOMAIN published
    /\ requests \subseteq Senders
Fates == seen \cup denied \cup ignored \cup dropped \cup missed \cup forgotten \cup again \cup unmarked
         \subseteq 1..arrived

Types == Setting /\ Waiting /\ Memory /\ Fetching /\ OnBus /\ Fates

\* The parts of albums that wait for the flush.
Parts == UNION {Range(album[s]) : s \in Senders}

\* What is in a sequence is at one of its places.
LEMMA RangeIn ==
  ASSUME NEW S, NEW s \in Seq(S)
  PROVE  Range(s) \subseteq S /\ \A x : x \in Range(s) <=> \E n \in DOMAIN s : s[n] = x
  BY LenProperties, ElementOfSeq DEF Range

\* A sequence stays one over a larger set.
LEMMA Widen ==
  ASSUME NEW S, NEW T, S \subseteq T
  PROVE  Seq(S) \subseteq Seq(T)
  BY SeqMonotonic

\* What Append leaves and adds.
LEMMA Appended ==
  ASSUME NEW S, NEW s \in Seq(S), NEW x \in S
  PROVE  /\ Append(s, x) \in Seq(S) /\ Append(s, x) # <<>>
         /\ DOMAIN Append(s, x) = DOMAIN s \cup {Len(s) + 1} /\ Len(s) + 1 \notin DOMAIN s
         /\ \A n \in DOMAIN s : Append(s, x)[n] = s[n] /\ n < Len(s) + 1
         /\ Append(s, x)[Len(s) + 1] = x
         /\ Len(Append(s, x)) = Len(s) + 1 /\ Len(s) \in Nat
         /\ Range(Append(s, x)) = Range(s) \cup {x}
         /\ s # <<>> => Append(s, x)[1] = s[1]
         /\ s = <<>> => Append(s, x)[1] = x
  <1>1. Append(s, x) \in Seq(S) /\ Len(Append(s, x)) = Len(s) + 1 /\ Len(s) \in Nat
    BY AppendProperties, LenProperties
  <1>2. DOMAIN s = 1..Len(s) /\ DOMAIN Append(s, x) = 1..Len(s) + 1
    BY <1>1, LenProperties
  <1>3. (\A n \in DOMAIN s : Append(s, x)[n] = s[n]) /\ Append(s, x)[Len(s) + 1] = x
    BY <1>2, AppendProperties
  <1>4. Append(s, x) # <<>>
    BY <1>1, AppendProperties
  <1>5. Range(Append(s, x)) = Range(s) \cup {x}
    BY <1>1, <1>2, <1>3 DEF Range
  <1>6. /\ s # <<>> => Append(s, x)[1] = s[1]
        /\ s = <<>> => Append(s, x)[1] = x
    <2>1. s # <<>> => 1 \in DOMAIN s
      BY <1>1, <1>2, EmptySeq
    <2> QED
      BY <1>1, <1>3, <2>1
  <1> QED
    BY <1>1, <1>2, <1>3, <1>4, <1>5, <1>6

\* The rest of a sequence: its elements, one place further to the front.
LEMMA Rest ==
  ASSUME NEW S, NEW s \in Seq(S), s # <<>>
  PROVE  /\ Tail(s) \in Seq(S) /\ Len(Tail(s)) = Len(s) - 1 /\ Len(s) \in Nat /\ Len(s) > 0
         /\ s[1] \in S /\ 1 \in DOMAIN s
         /\ \A n \in DOMAIN Tail(s) : n + 1 \in DOMAIN s /\ n \in Nat /\ n > 0 /\ Tail(s)[n] = s[n + 1]
         /\ \A n \in DOMAIN s : n = 1 \/ (n - 1 \in DOMAIN Tail(s) /\ n > 1)
         /\ Range(s) = {s[1]} \cup Range(Tail(s))
  <1>1. Tail(s) \in Seq(S) /\ Len(Tail(s)) = Len(s) - 1 /\ \A n \in 1..Len(Tail(s)) : Tail(s)[n] = s[n + 1]
    BY HeadTailProperties
  <1>2. Len(s) \in Nat /\ Len(s) > 0 /\ DOMAIN s = 1..Len(s) /\ DOMAIN Tail(s) = 1..Len(s) - 1
    BY <1>1, EmptySeq, LenProperties
  <1>3. \A n \in DOMAIN Tail(s) : n + 1 \in DOMAIN s /\ n \in Nat /\ n > 0 /\ Tail(s)[n] = s[n + 1]
    BY <1>1, <1>2
  <1>4. \A n \in DOMAIN s : n = 1 \/ (n - 1 \in DOMAIN Tail(s) /\ n > 1)
    BY <1>2
  <1>5. Range(s) = {s[1]} \cup Range(Tail(s))
    <2>1. ASSUME NEW n \in DOMAIN s PROVE s[n] \in {s[1]} \cup Range(Tail(s))
      <3>1. n > 1 => Tail(s)[n - 1] = s[n]
        BY <1>2, <1>3, <1>4
      <3> QED
        BY <1>4, <3>1 DEF Range
    <2>2. 1 \in DOMAIN s
      BY <1>2
    <2> QED
      BY <1>3, <2>1, <2>2 DEF Range
  <1> QED
    BY <1>1, <1>2, <1>3, <1>4, <1>5, ElementOfSeq

\* What an event is made of.
LEMMA EventsOf ==
  ASSUME NEW i, NEW e \in Events(i)
  PROVE  e[1] = i /\ e[2] \in {"message", "app_mention"} /\ e = <<e[1], e[2]>>
  BY DEF Events

\* The parts make up the type invariant.
LEMMA TypesTypeOK == Types => TypeOK
  <1> SUFFICES ASSUME Types PROVE TypeOK
    OBVIOUS
  <1>1. offered \cup hand \subseteq UNION {Events(i) : i \in 1..arrived}
    BY DEF Types, Waiting
  <1> QED
    BY <1>1 DEF Types, Setting, Waiting, Memory, Fetching, OnBus, Fates, TypeOK

\* What a message of the deployment is.
LEMMA Mails ==
  ASSUME Types
  PROVE  /\ Len(setup.mail) \in Nat /\ arrived \in 0..Len(setup.mail) /\ arrived \in Nat
         /\ \A i \in 1..Len(setup.mail) : M(i) \in Message
         /\ \A i \in 1..arrived : M(i) \in Message
         /\ setup.cap \in Nat /\ setup.cap > 0 /\ setup.lists \subseteq SUBSET Senders /\ allow \subseteq Senders
  <1>1. setup.mail \in Seq(Message)
    BY DEF Types, Setting, Setup
  <1>2. Len(setup.mail) \in Nat /\ \A i \in 1..Len(setup.mail) : M(i) \in Message
    BY <1>1, LenProperties, ElementOfSeq DEF M
  <1> QED
    BY <1>2 DEF Types, Setting, Setup

\* Messages and their events depend on the deployment only.
LEMMA SameEvents == setup' = setup => \A i : Events(i)' = Events(i) /\ M(i)' = M(i) /\ Chat(i)' = Chat(i)
  BY DEF Events, Is, M, Chat

\* A step without an arrival.
LEMMA SameWidth ==
  ASSUME Types, UNCHANGED <<setup, arrived>>
  PROVE  /\ UNCHANGED <<offered, hand, album, typing>> => Waiting'
         /\ UNCHANGED <<known, uids>> => Memory'
         /\ UNCHANGED <<todo, got, subjects>> => Fetching'
         /\ UNCHANGED <<published, open, sent, requests>> => OnBus'
         /\ UNCHANGED <<link, bot, connected, allow>> => Setting'
         /\ UNCHANGED <<seen, denied, ignored, dropped, missed, forgotten, again, unmarked>> => Fates'
  BY SameEvents DEF Types, Setting, Waiting, Memory, Fetching, OnBus, Fates

\* What happens to a message that is handled, or to an album.
LEMMA Handled ==
  ASSUME Types, NEW is \in Seq(1..arrived), is # <<>>, Handle(is), UNCHANGED <<setup, arrived>>
  PROVE  /\ OnBus' /\ denied' \subseteq 1..arrived
         /\ \/ /\ published' = Append(published, is) /\ open' = open \cup {Len(published) + 1}
               /\ UNCHANGED <<requests, denied, sent>>
            \/ /\ denied' = denied \cup Range(is) /\ UNCHANGED <<published, open, sent>>
  <1>1. is[1] \in 1..arrived /\ M(is[1]).from \in Senders
    BY Rest, Mails DEF Message
  <1>2. published \in Seq(Seq(1..arrived) \ {<<>>}) /\ is \in Seq(1..arrived) \ {<<>>}
    BY DEF Types, OnBus
  <1>3. CASE M(is[1]).from \in allow /\ published' = Append(published, is) /\ open' = open \cup {Len(published')}
             /\ UNCHANGED <<requests, denied, sent>>
    <2>1. Len(published') = Len(published) + 1 /\ published' \in Seq(Seq(1..arrived) \ {<<>>})
          /\ DOMAIN published' = DOMAIN published \cup {Len(published) + 1}
      BY <1>2, <1>3, Appended
    <2> QED
      BY <1>3, <2>1 DEF Types, OnBus, Fates
  <1>4. CASE /\ requests' = requests \cup {M(is[1]).from}
             /\ denied' = denied \cup Range(is)
             /\ UNCHANGED <<published, open, sent>>
    <2>1. Range(is) \subseteq 1..arrived
      BY RangeIn
    <2> QED
      BY <1>1, <1>4, <2>1 DEF Types, OnBus, Fates
  <1> QED
    BY <1>3, <1>4 DEF Handle, replies

\* Types: the platform gets a message.
LEMMA Arriving ==
  ASSUME Types, Arrive
  PROVE  Types'
  <1>1. arrived' = arrived + 1 /\ arrived' \in 1..Len(setup.mail) /\ arrived \in Nat /\ UNCHANGED setup
    BY Mails DEF Arrive
  <1>2. Seq(1..arrived) \subseteq Seq(1..arrived') /\ Seq(Seq(1..arrived) \ {<<>>}) \subseteq Seq(Seq(1..arrived') \ {<<>>})
    <2>1. 1..arrived \subseteq 1..arrived'
      BY <1>1
    <2>2. Seq(1..arrived) \subseteq Seq(1..arrived')
      BY <2>1, Widen
    <2>3. Seq(1..arrived) \ {<<>>} \subseteq Seq(1..arrived') \ {<<>>}
      BY <2>2
    <2> QED
      BY <2>2, <2>3, Widen
  <1>3. Setting'
    BY <1>1 DEF Arrive, Types, Setting, session
  <1>4. Waiting'
    <2>1. \A e \in offered' : e \in offered \/ e \in Events(arrived')
      BY DEF Arrive
    <2>2. UNCHANGED <<hand, album, typing>>
      BY DEF Arrive, handlers
    <2> QED
      BY <1>1, <1>2, <2>1, <2>2, EventsOf, SameEvents DEF Types, Waiting
  <1>5. Memory' /\ Fetching'
    BY <1>1, <1>2 DEF Arrive, mailbox, Types, Memory, Fetching
  <1>6. OnBus'
    BY <1>1, <1>2 DEF Arrive, bus, replies, Types, OnBus
  <1>7. Fates'
    BY <1>1 DEF Arrive, bus, Types, Fates
  <1> QED
    BY <1>3, <1>4, <1>5, <1>6, <1>7 DEF Types

\* Types: steps of the link, the bridge and the platform.
LEMMA Linking ==
  ASSUME Types, Redeliver \/ Connect \/ Disconnect \/ Status \/ Reload
  PROVE  Types'
  <1>1. UNCHANGED <<setup, arrived, hand, album, typing, known, uids, todo, got, subjects, published, open, sent, requests>>
    BY DEF Redeliver, Connect, Disconnect, Status, Reload, platform, session, handlers, mailbox, bus, replies
  <1>2. Setting'
    BY <1>1, Mails DEF Redeliver, Connect, Disconnect, Status, Reload, session, Types, Setting, BotKnown
  <1>3. Waiting'
    <2>1. \A e \in offered' : e \in offered \/ \E i \in 1..arrived : e \in Events(i)
      BY DEF Redeliver, Connect, Disconnect, Status, Reload, platform
    <2> QED
      BY <1>1, <2>1, EventsOf, SameEvents DEF Types, Waiting
  <1>4. Fates'
    <2>1. Ids(offered) \subseteq 1..arrived
      BY DEF Types, Waiting, Ids
    <2>2. /\ UNCHANGED <<seen, unmarked, denied, ignored, dropped, forgotten>>
          /\ missed' \subseteq missed \cup Ids(offered) /\ again' \subseteq again \cup 1..arrived
      BY DEF Redeliver, Connect, Disconnect, Status, Reload, platform, bus, fates
    <2> QED
      BY <1>1, <2>1, <2>2 DEF Types, Fates
  <1> QED
    BY <1>1, <1>2, <1>3, <1>4, SameWidth DEF Types

\* Types: the process ends.
LEMMA Halting ==
  ASSUME Types, Halt
  PROVE  Types'
  <1>1. UNCHANGED <<setup, arrived, allow, seen, unmarked, published, requests, denied, sent, ignored, again>>
    BY DEF Halt, bus
  <1>2. Setting'
    BY <1>1 DEF Halt, Types, Setting
  <1>3. Waiting'
    <2>1. offered' \subseteq offered /\ hand' = {} /\ typing' = {} /\ album' = [s \in Senders |-> <<>>]
      BY DEF Halt
    <2> QED
      BY <1>1, <2>1, SameEvents DEF Types, Waiting
  <1>4. Memory' /\ Fetching'
    <2>1. <<>> \in Seq(1..arrived) /\ Len(<<>>) = 0
      BY EmptySeq
    <2>2. known' = <<>> /\ uids' = {} /\ todo' = {} /\ got' = <<>> /\ subjects' = {}
      BY DEF Halt
    <2> QED
      BY <1>1, <2>1, <2>2, Mails DEF Memory, Fetching
  <1>5. OnBus'
    BY <1>1 DEF Halt, Types, OnBus
  <1>6. Fates'
    <2>1. /\ Ids(offered) \subseteq 1..arrived /\ Ids(hand) \subseteq 1..arrived
      BY DEF Types, Waiting, Ids
    <2>2. \A s \in Senders : Range(album[s]) \subseteq 1..arrived
      BY RangeIn DEF Types, Waiting
    <2>3. Range(got) \subseteq 1..arrived /\ Range(known) \subseteq 1..arrived /\ uids \subseteq 1..arrived
      BY RangeIn DEF Types, Memory, Fetching
    <2>4. missed' \subseteq missed \cup Ids(offered)
      BY DEF Halt
    <2>5. forgotten' = forgotten \cup Range(known) \cup uids
      BY DEF Halt
    <2>6. dropped' = dropped \cup Ids(hand) \cup Range(got) \cup Parts
      BY DEF Halt, Parts
    <2>7. dropped' \subseteq 1..arrived /\ forgotten' \subseteq 1..arrived /\ missed' \subseteq 1..arrived
      <3>1. dropped \cup forgotten \cup missed \subseteq 1..arrived
        BY DEF Types, Fates
      <3>2. Parts \subseteq 1..arrived
        BY <2>2 DEF Parts
      <3>4. missed' \subseteq 1..arrived
        BY <2>1, <2>4, <3>1
      <3>5. forgotten' \subseteq 1..arrived
        BY <2>3, <2>5, <3>1
      <3>6. dropped' \subseteq 1..arrived
        BY <2>1, <2>3, <2>6, <3>1, <3>2
      <3> QED
        BY <3>4, <3>5, <3>6
    <2> QED
      BY <1>1, <2>7 DEF Types, Fates
  <1> QED
    BY <1>2, <1>3, <1>4, <1>5, <1>6 DEF Types

\* Types: an event is taken.
LEMMA Taking ==
  ASSUME Types, TakeNext \/ TakeSlack
  PROVE  Types'
  <1>1. /\ UNCHANGED <<setup, arrived, seen, unmarked, allow, link, bot, connected, album, typing, known, uids, todo, got, subjects>>
        /\ UNCHANGED <<published, requests, open, sent, dropped, missed, forgotten>>
    BY DEF TakeNext, TakeSlack, session, mailbox, replies
  <1>2. PICK e \in offered : /\ offered' \subseteq offered /\ hand' \subseteq hand \cup {e}
                             /\ denied' \subseteq denied \cup {e[1]} /\ ignored' \subseteq ignored \cup {e[1]}
                             /\ again' \subseteq again \cup {e[1]}
    BY DEF TakeNext, TakeSlack
  <1>3. Waiting'
    BY <1>1, <1>2, SameEvents DEF Types, Waiting
  <1>4. Fates'
    BY <1>1, <1>2 DEF Types, Waiting, Fates
  <1> QED
    BY <1>1, <1>3, <1>4, SameWidth DEF Types

\* A message in hand can be handled.
LEMMA InHand ==
  ASSUME Types, NEW e \in hand \cup offered
  PROVE  /\ e[1] \in 1..arrived /\ <<e[1]>> \in Seq(1..arrived) /\ <<e[1]>> # <<>> /\ <<e[1]>>[1] = e[1]
         /\ Range(<<e[1]>>) = {e[1]} /\ M(e[1]) \in Message /\ Chat(e[1]) \in Senders \cup {None}
         /\ DOMAIN <<e[1]>> = {1}
  <1>1. e[1] \in 1..arrived /\ M(e[1]) \in Message
    BY Mails DEF Types, Waiting
  <1>2. DOMAIN <<e[1]>> = {1}
    OBVIOUS
  <1> QED
    BY <1>1, <1>2 DEF Range, Chat, Message

\* Types: a handler goes on after its wait, or a bridged message is handled.
LEMMA Finishing ==
  ASSUME Types, Finish \/ AddPart \/ TakeBridged
  PROVE  Types'
  <1>1. UNCHANGED <<setup, arrived, seen, unmarked, allow, link, bot, connected, uids, todo, got, subjects, ignored, dropped, missed, again>>
    BY DEF Finish, AddPart, TakeBridged, platform, session, mailbox, fates
  <1>2. CASE Finish
    <2>1. PICK e \in hand : hand' = hand \ {e} /\ Starts(e[1]) /\ Handle(<<e[1]>>)
      BY <1>2 DEF Finish
    <2>2. OnBus' /\ denied' \subseteq 1..arrived
      BY <1>1, <2>1, InHand, Handled
    <2>3. UNCHANGED <<offered, album, known, forgotten>>
      BY <1>2 DEF Finish, platform
    <2>4. Waiting'
      BY <1>1, <2>1, <2>3, InHand, SameEvents DEF Types, Waiting, Starts
    <2>5. Fates'
      BY <1>1, <2>2, <2>3 DEF Types, Fates
    <2> QED
      BY <1>1, <2>2, <2>3, <2>4, <2>5, SameWidth DEF Types
  <1>3. CASE AddPart
    <2>1. PICK e \in hand : /\ hand' = hand \ {e} /\ typing' \in {typing, typing \cup {Chat(e[1])}}
                            /\ album' = [album EXCEPT ![M(e[1]).from] = Append(@, e[1])]
      BY <1>3 DEF AddPart
    <2>2. UNCHANGED <<offered, known, forgotten, published, open, sent, requests, denied>>
      BY <1>3 DEF AddPart, platform, bus, replies
    <2>3. Append(album[M(e[1]).from], e[1]) \in Seq(1..arrived)
      BY InHand, Appended DEF Types, Waiting, Message
    <2>4. album' \in [Senders -> Seq(1..arrived)] /\ typing' \subseteq Senders \cup {None}
      BY <2>1, <2>3, InHand DEF Types, Waiting
    <2>5. Waiting'
      BY <1>1, <2>1, <2>2, <2>4, SameEvents DEF Types, Waiting
    <2> QED
      BY <1>1, <2>2, <2>5, SameWidth DEF Types
  <1>4. CASE TakeBridged
    <2>1. UNCHANGED <<hand, album, typing>> /\ offered' \subseteq offered
      BY <1>4 DEF TakeBridged, handlers
    <2>2. Waiting'
      BY <1>1, <2>1, SameEvents DEF Types, Waiting
    <2>3. CASE UNCHANGED <<known, forgotten, published, open, sent, requests, denied>>
      BY <1>1, <2>2, <2>3, SameWidth DEF Types
    <2>4. CASE \E e \in offered : /\ known' = Evict(Append(known, e[1])) /\ Handle(<<e[1]>>)
                                  /\ forgotten' = forgotten \cup (Range(known) \ Range(known'))
      <3>1. PICK e \in offered : /\ known' = Evict(Append(known, e[1])) /\ Handle(<<e[1]>>)
                                 /\ forgotten' = forgotten \cup (Range(known) \ Range(known'))
        BY <2>4
      <3>2. OnBus' /\ denied' \subseteq 1..arrived
        BY <1>1, <3>1, InHand, Handled
      <3>3. known' \in Seq(1..arrived) /\ Len(known') <= setup.cap
        <4>1. e[1] \in 1..arrived /\ known \in Seq(1..arrived) /\ Len(known) <= setup.cap
          BY InHand DEF Types, Memory
        <4>2. /\ Append(known, e[1]) \in Seq(1..arrived) /\ Append(known, e[1]) # <<>>
              /\ Len(Append(known, e[1])) = Len(known) + 1 /\ Len(known) \in Nat
          BY <4>1, Appended
        <4> DEFINE q == Append(known, e[1])
        <4>3. Tail(q) \in Seq(1..arrived) /\ Len(Tail(q)) = Len(q) - 1
          BY <4>2, Rest
        <4>4. known' = IF Len(q) > setup.cap THEN Tail(q) ELSE q
          BY <3>1 DEF Evict
        <4> HIDE DEF q
        <4>5. q \in Seq(1..arrived) /\ Len(q) = Len(known) + 1
          BY <4>2 DEF q
        <4>6. CASE Len(q) > setup.cap
          <5>1. known' = Tail(q) /\ Len(known') = Len(known)
            BY <4>2, <4>3, <4>4, <4>5, <4>6
          <5> QED
            BY <4>1, <4>3, <5>1
        <4>7. CASE ~(Len(q) > setup.cap)
          <5>1. known' = q
            BY <4>4, <4>7
          <5>2. Len(q) \in Nat /\ setup.cap \in Nat
            BY <4>2, <4>5, Mails
          <5> QED
            BY <4>5, <4>7, <5>1, <5>2
        <4> QED
          BY <4>6, <4>7
      <3>4. Memory'
        BY <1>1, <3>3 DEF Types, Memory
      <3>5. Range(known) \subseteq 1..arrived
        BY RangeIn DEF Types, Memory
      <3>6. Fates'
        BY <1>1, <3>1, <3>2, <3>5 DEF Types, Fates
      <3> QED
        BY <1>1, <2>2, <3>2, <3>4, <3>6, SameWidth DEF Types
    <2> QED
      BY <1>4, <2>3, <2>4 DEF TakeBridged, bus, replies
  <1> QED
    BY <1>2, <1>3, <1>4

\* Types: an album is flushed.
LEMMA Flushing ==
  ASSUME Types, FlushAlbum
  PROVE  Types'
  <1>1. /\ UNCHANGED <<setup, arrived, offered, seen, unmarked, allow, link, bot, connected, hand, typing, known, uids, todo, got, subjects>>
        /\ UNCHANGED <<ignored, dropped, missed, forgotten, again>>
    BY DEF FlushAlbum, platform, session, mailbox, fates
  <1>2. PICK s \in Senders : album[s] # <<>> /\ Handle(album[s]) /\ album' = [album EXCEPT ![s] = <<>>]
    BY DEF FlushAlbum
  <1>3. OnBus' /\ denied' \subseteq 1..arrived
    BY <1>1, <1>2, Handled DEF Types, Waiting
  <1>4. Waiting'
    <2>1. <<>> \in Seq(1..arrived)
      BY EmptySeq
    <2> QED
      BY <1>1, <1>2, <2>1, SameEvents DEF Types, Waiting
  <1>5. Fates'
    BY <1>1, <1>3 DEF Types, Fates
  <1> QED
    BY <1>1, <1>3, <1>4, <1>5, SameWidth DEF Types

\* The uids that Remember drops are counted as forgotten.
LEMMA Remembering ==
  ASSUME Types, NEW i \in 1..arrived, Remember(i)
  PROVE  /\ uids' \subseteq uids \cup {i} /\ uids' \subseteq 1..arrived
         /\ forgotten' = forgotten \cup ((uids \cup {i}) \ uids') /\ forgotten' \subseteq 1..arrived
  <1>1. uids' \subseteq uids \cup {i} /\ forgotten' = forgotten \cup ((uids \cup {i}) \ uids')
    BY DEF Remember, Halved
  <1> QED
    BY <1>1 DEF Types, Memory, Fates

\* Types: a fetch.
LEMMA Reading ==
  ASSUME Types, Search \/ FetchOne \/ FetchFail
  PROVE  Types'
  <1>1. /\ UNCHANGED <<setup, arrived, offered, allow, link, bot, connected, hand, album, typing, known, subjects>>
        /\ UNCHANGED <<published, open, sent, requests, denied, ignored, missed>>
    BY DEF Search, FetchOne, FetchFail, platform, session, handlers, bus, replies, fates
  <1>2. CASE Search
    <2>1. todo' \subseteq 1..arrived /\ UNCHANGED <<uids, got, seen, unmarked, dropped, forgotten, again>>
      BY <1>2 DEF Search, platform, fates
    <2>2. Fetching'
      BY <1>1, <2>1 DEF Types, Fetching
    <2> QED
      BY <1>1, <2>1, <2>2, SameWidth DEF Types
  <1>3. CASE FetchOne
    <2>1. PICK i \in todo : /\ todo' = todo \ {i}
                            /\ again' \in {again, again \cup {i}} /\ unmarked' \in {unmarked, unmarked \cup {i}}
                            /\ \/ UNCHANGED <<got, uids, forgotten, seen, unmarked>>
                               \/ got' = Append(got, i) /\ Remember(i) /\ seen' \in {seen, seen \cup {i}}
      BY <1>3 DEF FetchOne, MarkSeen
    <2>2. i \in 1..arrived /\ Append(got, i) \in Seq(1..arrived) /\ UNCHANGED dropped
      BY <1>3, Appended DEF FetchOne, fates, Types, Fetching
    <2>3. Memory' /\ Fetching' /\ Fates'
      BY <1>1, <2>1, <2>2, Remembering DEF Types, Memory, Fetching, Fates
    <2> QED
      BY <1>1, <2>3, SameWidth DEF Types
  <1>4. CASE FetchFail
    <2>1. Range(got) \subseteq 1..arrived /\ <<>> \in Seq(1..arrived)
      BY RangeIn, EmptySeq DEF Types, Fetching
    <2>2. \/ dropped' = dropped \cup Range(got) /\ UNCHANGED <<uids, forgotten>>
          \/ \E i \in todo : Remember(i) /\ dropped' = dropped \cup Range(got) \cup {i}
      BY <1>4 DEF FetchFail
    <2>3. todo' = {} /\ got' = <<>> /\ UNCHANGED <<seen, unmarked, again>>
      BY <1>4 DEF FetchFail, platform
    <2>4. todo \subseteq 1..arrived
      BY DEF Types, Fetching
    <2>5. uids' \subseteq 1..arrived /\ forgotten' \subseteq 1..arrived /\ dropped' \subseteq 1..arrived
      <3>1. uids \cup forgotten \cup dropped \subseteq 1..arrived
        BY DEF Types, Memory, Fates
      <3>2. \A i \in todo : Remember(i) => uids' \subseteq 1..arrived /\ forgotten' \subseteq 1..arrived
        BY <2>4, Remembering
      <3> QED
        BY <2>1, <2>2, <2>4, <3>1, <3>2
    <2>6. Memory' /\ Fetching' /\ Fates'
      BY <1>1, <2>1, <2>3, <2>5 DEF Types, Memory, Fetching, Fates
    <2> QED
      BY <1>1, <2>6, SameWidth DEF Types
  <1> QED
    BY <1>2, <1>3, <1>4

\* Types: mails are handled and replies sent.
LEMMA Replying ==
  ASSUME Types, Deliver \/ Send
  PROVE  Types'
  <1>1. /\ UNCHANGED <<setup, arrived, offered, seen, unmarked, allow, link, bot, connected, hand, album, known, uids, todo>>
        /\ UNCHANGED <<ignored, dropped, missed, forgotten, again>>
    BY DEF Deliver, Send, platform, session, handlers, mailbox, fates
  <1>2. CASE Deliver
    <2>1. got # <<>> /\ got' = Tail(got) /\ Handle(<<got[1]>>) /\ UNCHANGED typing
          /\ subjects' \in {subjects, subjects \cup {M(got[1]).from}}
      BY <1>2 DEF Deliver
    <2>2. got[1] \in 1..arrived /\ got' \in Seq(1..arrived) /\ <<got[1]>> \in Seq(1..arrived) /\ <<got[1]>> # <<>>
      <3>1. got \in Seq(1..arrived)
        BY DEF Types, Fetching
      <3>2. got[1] \in 1..arrived /\ Tail(got) \in Seq(1..arrived)
        BY <2>1, <3>1, Rest
      <3> QED
        BY <2>1, <3>2
    <2>3. OnBus' /\ denied' \subseteq 1..arrived
      BY <1>1, <2>1, <2>2, Handled
    <2>4. Fetching' /\ Fates'
      <3>1. M(got[1]).from \in Senders
        BY <2>2, Mails DEF Message
      <3> QED
        BY <1>1, <2>1, <2>2, <2>3, <3>1 DEF Types, Fetching, Fates
    <2> QED
      BY <1>1, <2>1, <2>3, <2>4, SameWidth DEF Types
  <1>3. CASE Send
    <2>1. typing' \subseteq typing /\ open' \subseteq open /\ (\E k \in open : sent' \subseteq sent \cup {k})
          /\ UNCHANGED <<got, subjects, published, requests, denied>>
      BY <1>3 DEF Send, mailbox, bus
    <2>2. Waiting' /\ OnBus'
      BY <1>1, <2>1, SameEvents DEF Types, Waiting, OnBus
    <2> QED
      BY <1>1, <2>1, <2>2, SameWidth DEF Types
  <1> QED
    BY <1>2, <1>3

\* The types hold at first.
LEMMA InitTypes == Init /\ Setups \subseteq Setup => Types
  <1> SUFFICES ASSUME Init, Setups \subseteq Setup PROVE Types
    OBVIOUS
  <1>1. setup \in Setup /\ Len(setup.mail) \in Nat /\ setup.cap \in Nat
    BY LenProperties DEF Init, Setup
  <1>2. <<>> \in Seq(1..arrived) /\ <<>> \in Seq(Seq(1..arrived) \ {<<>>}) /\ Len(<<>>) = 0
    BY EmptySeq
  <1>3. Setting /\ Fates
    <2>1. arrived = 0 /\ 0 \in 0..Len(setup.mail)
      BY <1>1 DEF Init
    <2> QED
      BY <1>1, <2>1 DEF Init, Setting, Fates
  <1>4. Waiting
    BY <1>2 DEF Init, Waiting
  <1>5. Memory /\ Fetching /\ OnBus
    BY <1>1, <1>2 DEF Init, Memory, Fetching, OnBus
  <1> QED
    BY <1>3, <1>4, <1>5 DEF Types

\* Every step keeps the types.
LEMMA NextTypes == Types /\ [Next]_vars => Types'
  <1> SUFFICES ASSUME Types, [Next]_vars PROVE Types'
    OBVIOUS
  <1>1. CASE Next
    BY <1>1, Arriving, Linking, Halting, Taking, Finishing, Flushing, Reading, Replying DEF Next
  <1>2. CASE UNCHANGED vars
    <2>1. /\ UNCHANGED <<setup, arrived, offered, hand, album, typing, known, uids, todo, got, subjects, published, open, sent, requests>>
          /\ UNCHANGED <<link, bot, connected, allow, seen, unmarked, denied, ignored, dropped, missed, forgotten, again>>
      BY <1>2 DEF vars, platform, session, handlers, mailbox, bus, replies, fates
    <2> QED
      BY <2>1, SameWidth DEF Types
  <1> QED
    BY <1>1, <1>2

----------------------------------------------------------------------------
\* The message is on the bus.
Out(i) == \E k \in DOMAIN published : i \in Range(published[k])

\* The one event of a message that is not passed over as a repetition.
Main(i) == IF Is("slack") /\ M(i).mention /\ ~M(i).direct THEN <<i, "app_mention">> ELSE <<i, "message">>

\* What a channel of another kind does not have; parts wait under their sender.
Places ==
    /\ setup.kind \notin {"telegram", "discord", "slack"} => hand = {}
    /\ setup.kind \notin {"telegram", "discord"} => typing = {}
    /\ ~Is("telegram") => album = [s \in Senders |-> <<>>]
    /\ ~Is("email") => todo = {} /\ got = <<>> /\ uids = {}
    /\ Is("email") => offered = {}
    /\ setup.kind \in {"telegram", "discord"} => again = {}
    /\ \A s \in Senders : \A i \in Range(album[s]) : M(i).from = s

\* Append adds one element.
LEMMA RangeAppended ==
  ASSUME NEW q \in Seq(1..arrived), NEW i \in 1..arrived
  PROVE  Range(Append(q, i)) = Range(q) \cup {i}
  <1> DEFINE S == 1..arrived
  <1>1. q \in Seq(S) /\ i \in S
    OBVIOUS
  <1> HIDE DEF S
  <1> QED
    BY <1>1, Appended

\* Tail loses one element, the first.
LEMMA RangeTail ==
  ASSUME NEW q \in Seq(1..arrived), q # <<>>
  PROVE  Range(q) = {q[1]} \cup Range(Tail(q))
  <1> DEFINE S == 1..arrived
  <1>1. q \in Seq(S)
    OBVIOUS
  <1> HIDE DEF S
  <1> QED
    BY <1>1, Rest

\* While the deployment stays, so do the operators that read it.
LEMMA Same ==
  ASSUME UNCHANGED setup
  PROVE  \A i : /\ Main(i)' = Main(i) /\ M(i)' = M(i) /\ Chat(i)' = Chat(i) /\ Events(i)' = Events(i)
                /\ (Is(i)' <=> Is(i))
  BY DEF Main, M, Chat, Events, Is

\* What is published and buffered depends on the two variables only.
LEMMA Still ==
  /\ published' = published => \A i : Out(i)' <=> Out(i)
  /\ album' = album => Parts' = Parts
  BY DEF Out, Parts

\* A message has its main event, and but for Slack no other.
LEMMA Mained ==
  ASSUME Types, NEW i \in 1..arrived
  PROVE  /\ Main(i) \in Events(i) /\ Main(i)[1] = i
         /\ ~Is("slack") => \A e \in Events(i) : e = Main(i)
  BY DEF Main, Events

\* The buffered parts are messages, each in the buffer of a sender.
LEMMA InParts ==
  ASSUME Types
  PROVE  /\ Parts \subseteq 1..arrived
         /\ \A i : i \in Parts <=> \E s \in Senders : i \in Range(album[s])
         /\ \A s \in Senders : album[s] # <<>> => album[s][1] \in Range(album[s])
         /\ (\A s \in Senders : album[s] = <<>>) => Parts = {}
  <1>1. \A s \in Senders : album[s] \in Seq(1..arrived)
    BY DEF Types, Waiting
  <1>2. \A s \in Senders : Range(album[s]) \subseteq 1..arrived
    BY <1>1, RangeIn
  <1>3. \A s \in Senders : album[s] # <<>> => album[s][1] \in Range(album[s])
    BY <1>1, Rest
  <1>4. Range(<<>>) = {}
    BY DEF Range
  <1> QED
    BY <1>2, <1>3, <1>4 DEF Parts

\* What went on the bus stays there, and at most one turn joins it.
LEMMA Grown ==
  ASSUME Types, NEW is \in Seq(1..arrived), is # <<>>, Handle(is), UNCHANGED <<setup, arrived>>
  PROVE  \/ /\ DOMAIN published' = DOMAIN published \cup {Len(published) + 1}
            /\ Len(published) + 1 \notin DOMAIN published /\ published'[Len(published) + 1] = is
            /\ \A k \in DOMAIN published : published'[k] = published[k] /\ k < Len(published) + 1
            /\ open' = open \cup {Len(published) + 1} /\ denied' = denied
            /\ \A i : Out(i)' <=> Out(i) \/ i \in Range(is)
         \/ /\ UNCHANGED <<published, open>> /\ denied' = denied \cup Range(is)
            /\ \A i : Out(i)' <=> Out(i)
  <1>1. published \in Seq(Seq(1..arrived) \ {<<>>}) /\ is \in Seq(1..arrived) \ {<<>>}
    BY DEF Types, OnBus
  <1>2. CASE /\ published' = Append(published, is) /\ open' = open \cup {Len(published) + 1}
             /\ UNCHANGED <<requests, denied, sent>>
    <2>1. /\ DOMAIN published' = DOMAIN published \cup {Len(published) + 1}
          /\ Len(published) + 1 \notin DOMAIN published /\ published'[Len(published) + 1] = is
          /\ \A k \in DOMAIN published : published'[k] = published[k] /\ k < Len(published) + 1
      BY <1>1, <1>2, Appended
    <2>2. \A i : Out(i)' <=> Out(i) \/ i \in Range(is)
      BY <2>1 DEF Out
    <2> QED
      BY <1>2, <2>1, <2>2
  <1>3. CASE denied' = denied \cup Range(is) /\ UNCHANGED <<published, open, sent>>
    BY <1>3, Still
  <1> QED
    BY <1>2, <1>3, Handled

\* Every step keeps messages in places that the channel has.
LEMMA PlacesKept == Types /\ Places /\ [Next]_vars => Places'
  <1> SUFFICES ASSUME Types, Places, [Next]_vars PROVE Places'
    OBVIOUS
  <1>0. CASE UNCHANGED vars
    BY <1>0, Same DEF vars, platform, handlers, mailbox, Places
  <1>1. CASE Next
    <2>1. UNCHANGED setup
      BY <1>1 DEF Next, Arrive, Redeliver, Connect, Disconnect, Status, Halt, Reload, TakeNext, TakeSlack,
                  Finish, AddPart, FlushAlbum, TakeBridged, Search, FetchOne, FetchFail, Deliver, Send
    <2>2. setup.kind \notin {"telegram", "discord", "slack"} => hand' = {}
      BY <1>1 DEF Next, Arrive, Redeliver, Connect, Disconnect, Status, Halt, Reload, TakeNext, TakeSlack,
                  Finish, AddPart, FlushAlbum, TakeBridged, Search, FetchOne, FetchFail, Deliver, Send,
                  handlers, Places, Is
    <2>3. setup.kind \notin {"telegram", "discord"} => typing' = {}
      BY <1>1 DEF Next, Arrive, Redeliver, Connect, Disconnect, Status, Halt, Reload, TakeNext, TakeSlack,
                  Finish, AddPart, FlushAlbum, TakeBridged, Search, FetchOne, FetchFail, Deliver, Send,
                  Places, Is, Starts
    <2>4. (~Is("email") => todo' = {} /\ got' = <<>> /\ uids' = {}) /\ (Is("email") => offered' = {})
      BY <1>1 DEF Next, Arrive, Redeliver, Connect, Disconnect, Status, Halt, Reload, TakeNext, TakeSlack,
                  Finish, AddPart, FlushAlbum, TakeBridged, Search, FetchOne, FetchFail, Deliver, Send,
                  platform, mailbox, Places, Is, Reconnects
    <2>5. setup.kind \in {"telegram", "discord"} => again' = {}
      BY <1>1 DEF Next, Arrive, Redeliver, Connect, Disconnect, Status, Halt, Reload, TakeNext, TakeSlack,
                  Finish, AddPart, FlushAlbum, TakeBridged, Search, FetchOne, FetchFail, Deliver, Send,
                  Places, Is
    <2>6. /\ ~Is("telegram") => album' = [s \in Senders |-> <<>>]
          /\ \A s \in Senders : \A i \in Range(album'[s]) : M(i).from = s
      <3>1. Range(<<>>) = {}
        BY DEF Range
      <3>2. CASE UNCHANGED album
        BY <3>2 DEF Places
      <3>3. CASE Halt
        BY <3>1, <3>3 DEF Halt
      <3>4. CASE AddPart
        <4>1. PICK e \in hand : /\ Is("telegram")
                                /\ album' = [album EXCEPT ![M(e[1]).from] = Append(@, e[1])]
          BY <3>4 DEF AddPart
        <4>2. /\ e[1] \in 1..arrived /\ M(e[1]).from \in Senders /\ album[M(e[1]).from] \in Seq(1..arrived)
              /\ album \in [Senders -> Seq(1..arrived)]
          BY InHand DEF Message, Types, Waiting
        <4>3. Range(Append(album[M(e[1]).from], e[1])) = Range(album[M(e[1]).from]) \cup {e[1]}
          BY <4>2, RangeAppended
        <4>4. \A s \in Senders : \A i \in Range(album'[s]) : i \in Range(album[s]) \/ (i = e[1] /\ s = M(e[1]).from)
          <5>1. \A s \in Senders : s # M(e[1]).from => album'[s] = album[s]
            BY <4>1, <4>2
          <5>2. Range(album'[M(e[1]).from]) = Range(album[M(e[1]).from]) \cup {e[1]}
            BY <4>1, <4>2, <4>3
          <5> QED
            BY <5>1, <5>2
        <4> QED
          BY <4>1, <4>4 DEF Places
      <3>5. CASE FlushAlbum
        <4>1. PICK s \in Senders : album[s] # <<>> /\ album' = [album EXCEPT ![s] = <<>>]
          BY <3>5 DEF FlushAlbum
        <4> QED
          BY <3>1, <4>1 DEF Places, Types, Waiting
      <3> QED
        BY <1>1, <3>2, <3>3, <3>4, <3>5
           DEF Next, Arrive, Redeliver, Connect, Disconnect, Status, Reload, TakeNext, TakeSlack,
               Finish, TakeBridged, Search, FetchOne, FetchFail, Deliver, Send, handlers
    <2> QED
      BY <2>1, <2>2, <2>3, <2>4, <2>5, <2>6, Same DEF Places
  <1> QED
    BY <1>0, <1>1

----------------------------------------------------------------------------
\* Why a chat shows the bot as typing.
Reason(c) ==
    \/ \E k \in open : Chat(published[k][1]) = c
    \/ \E s \in Senders : album[s] # <<>> /\ Chat(album[s][1]) = c
    \/ \E i \in denied : Chat(i) = c

\* Every step keeps a reason for each typing loop.
LEMMA TypingKept == Types /\ Places /\ TypingHasReason /\ [Next]_vars => TypingHasReason'
  <1> SUFFICES ASSUME Types, Places, TypingHasReason, [Next]_vars PROVE TypingHasReason'
    OBVIOUS
  <1>1. \A c \in typing : Reason(c)
    BY DEF TypingHasReason, Reason
  <1>2. ASSUME \A c \in typing' : Reason(c)'
        PROVE  TypingHasReason'
    BY <1>2 DEF TypingHasReason, Reason
  <1>3. open \subseteq DOMAIN published
    BY DEF Types, OnBus
  <1>4. CASE UNCHANGED <<setup, typing, album, published, open>> /\ denied \subseteq denied'
    <2>1. ASSUME NEW c, Reason(c) PROVE Reason(c)'
      BY <1>4, <2>1, Same DEF Reason
    <2> QED
      BY <1>1, <1>2, <1>4, <2>1
  <1>5. CASE typing' = {}
    BY <1>2, <1>5
  <1>6. CASE Finish
    <2>1. PICK e \in hand : Starts(e[1]) /\ Handle(<<e[1]>>)
      BY <1>6 DEF Finish
    <2>2. UNCHANGED <<setup, arrived, album>>
      BY <1>6 DEF Finish, platform
    <2>3. /\ e[1] \in 1..arrived /\ <<e[1]>> \in Seq(1..arrived) /\ <<e[1]>> # <<>> /\ <<e[1]>>[1] = e[1]
          /\ Range(<<e[1]>>) = {e[1]}
      BY InHand
    <2>4. \/ /\ Len(published) + 1 \notin DOMAIN published /\ published'[Len(published) + 1] = <<e[1]>>
             /\ \A k \in DOMAIN published : published'[k] = published[k]
             /\ open' = open \cup {Len(published) + 1} /\ denied' = denied
          \/ /\ UNCHANGED <<published, open>> /\ denied' = denied \cup {e[1]}
      BY <2>1, <2>2, <2>3, Grown
    <2>5. ASSUME NEW c, c = Chat(e[1]) PROVE Reason(c)'
      BY <2>2, <2>3, <2>4, <2>5, Same DEF Reason
    <2>6. ASSUME NEW c, Reason(c) PROVE Reason(c)'
      <3>1. CASE \E k \in open : Chat(published[k][1]) = c
        BY <1>3, <2>2, <2>4, <3>1, Same DEF Reason
      <3>2. CASE ~\E k \in open : Chat(published[k][1]) = c
        BY <2>2, <2>4, <2>6, <3>2, Same DEF Reason
      <3> QED
        BY <3>1, <3>2
    <2>7. typing' \subseteq typing \cup {Chat(e[1])}
      BY <2>1 DEF Starts
    <2> QED
      BY <1>1, <1>2, <2>5, <2>6, <2>7
  <1>7. CASE AddPart
    <2>1. PICK e \in hand, s \in Senders :
             /\ typing' = IF album[s] = <<>> THEN typing \cup {Chat(e[1])} ELSE typing
             /\ album' = [album EXCEPT ![s] = Append(@, e[1])]
      BY <1>7, InHand DEF AddPart, Message
    <2>2. UNCHANGED <<setup, published, open, denied>>
      BY <1>7 DEF AddPart, bus, replies
    <2>3. e[1] \in 1..arrived /\ album[s] \in Seq(1..arrived) /\ album \in [Senders -> Seq(1..arrived)]
      BY InHand DEF Types, Waiting
    <2>4. /\ Append(album[s], e[1]) # <<>>
          /\ album[s] # <<>> => Append(album[s], e[1])[1] = album[s][1]
          /\ album[s] = <<>> => Append(album[s], e[1])[1] = e[1]
      BY <2>3, Appended
    <2>5. /\ album'[s] # <<>>
          /\ album[s] # <<>> => album'[s][1] = album[s][1]
          /\ album[s] = <<>> => album'[s][1] = e[1]
          /\ \A r \in Senders : r # s => album'[r] = album[r]
      BY <2>1, <2>3, <2>4
    <2>6. ASSUME NEW c, Reason(c) PROVE Reason(c)'
      <3>1. CASE \E r \in Senders : album[r] # <<>> /\ Chat(album[r][1]) = c
        <4>1. PICK r \in Senders : album[r] # <<>> /\ Chat(album[r][1]) = c
          BY <3>1
        <4>2. album'[r] # <<>> /\ album'[r][1] = album[r][1]
          BY <2>5, <4>1
        <4> QED
          BY <2>2, <4>1, <4>2, Same DEF Reason
      <3>2. CASE ~\E r \in Senders : album[r] # <<>> /\ Chat(album[r][1]) = c
        BY <2>2, <2>6, <3>2, Same DEF Reason
      <3> QED
        BY <3>1, <3>2
    <2>7. ASSUME NEW c, c = Chat(e[1]), album[s] = <<>> PROVE Reason(c)'
      BY <2>2, <2>5, <2>7, Same DEF Reason
    <2>8. typing' \subseteq typing \/ (album[s] = <<>> /\ typing' = typing \cup {Chat(e[1])})
      BY <2>1
    <2> QED
      BY <1>1, <1>2, <2>6, <2>7, <2>8
  <1>8. CASE FlushAlbum
    <2>1. PICK s \in Senders : album[s] # <<>> /\ Handle(album[s]) /\ album' = [album EXCEPT ![s] = <<>>]
      BY <1>8 DEF FlushAlbum
    <2>2. UNCHANGED <<setup, arrived, typing>>
      BY <1>8 DEF FlushAlbum, platform
    <2>3. album[s] \in Seq(1..arrived) /\ album[s][1] \in Range(album[s]) /\ album \in [Senders -> Seq(1..arrived)]
      BY <2>1, InParts DEF Types, Waiting
    <2>4. \/ /\ Len(published) + 1 \notin DOMAIN published /\ published'[Len(published) + 1] = album[s]
             /\ \A k \in DOMAIN published : published'[k] = published[k]
             /\ open' = open \cup {Len(published) + 1} /\ denied' = denied
          \/ /\ UNCHANGED <<published, open>> /\ denied' = denied \cup Range(album[s])
      BY <2>1, <2>2, <2>3, Grown
    <2>5. ASSUME NEW c, c = Chat(album[s][1]) PROVE Reason(c)'
      BY <2>2, <2>3, <2>4, <2>5, Same DEF Reason
    <2>6. \A r \in Senders : r # s => album'[r] = album[r]
      BY <2>1, <2>3
    <2>7. ASSUME NEW c, Reason(c) PROVE Reason(c)'
      <3>1. CASE \E k \in open : Chat(published[k][1]) = c
        BY <1>3, <2>2, <2>4, <3>1, Same DEF Reason
      <3>2. CASE \E r \in Senders : album[r] # <<>> /\ Chat(album[r][1]) = c
        <4>1. PICK r \in Senders : album[r] # <<>> /\ Chat(album[r][1]) = c
          BY <3>2
        <4>2. CASE r = s
          BY <2>5, <4>1, <4>2
        <4>3. CASE r # s
          BY <2>2, <2>6, <4>1, <4>3, Same DEF Reason
        <4> QED
          BY <4>2, <4>3
      <3>3. CASE \E i \in denied : Chat(i) = c
        BY <2>2, <2>4, <3>3, Same DEF Reason
      <3> QED
        BY <2>7, <3>1, <3>2, <3>3 DEF Reason
    <2> QED
      BY <1>1, <1>2, <2>2, <2>7
  <1>9. CASE Send
    <2>1. PICK k \in open, final \in BOOLEAN :
            /\ typing' = IF Stops(final) THEN typing \ {Chat(published[k][1])} ELSE typing
            /\ open' = IF final THEN open \ {k} ELSE open
      BY <1>9 DEF Send
    <2>2. UNCHANGED <<setup, album, published, denied>>
      BY <1>9 DEF Send, handlers, bus
    <2>3. ASSUME NEW c \in typing' PROVE Reason(c)'
      <3>1. c \in typing /\ Reason(c) /\ typing # {}
        BY <1>1, <2>1, <2>3
      <3>2. Stops(final) => c # Chat(published[k][1])
        BY <2>1, <2>3
      <3>3. final => Stops(final)
        BY <3>1 DEF Places, Stops, Is
      <3>4. CASE \E l \in open : Chat(published[l][1]) = c
        <4>1. PICK l \in open : Chat(published[l][1]) = c
          BY <3>4
        <4>2. l \in open'
          BY <2>1, <3>2, <3>3, <4>1
        <4> QED
          BY <2>2, <4>1, <4>2, Same DEF Reason
      <3>5. CASE ~\E l \in open : Chat(published[l][1]) = c
        BY <2>2, <3>1, <3>5, Same DEF Reason
      <3> QED
        BY <3>4, <3>5
    <2> QED
      BY <1>2, <2>3
  <1>10. CASE TakeBridged \/ Deliver
    <2>1. typing = {} /\ UNCHANGED typing
      BY <1>10 DEF TakeBridged, Deliver, Places, Is
    <2> QED
      BY <1>5, <2>1
  <1>11. CASE Halt
    BY <1>5, <1>11 DEF Halt
  <1>12. CASE \/ UNCHANGED vars \/ Arrive \/ Redeliver \/ Connect \/ Disconnect \/ Status \/ Reload
              \/ TakeNext \/ TakeSlack \/ Search \/ FetchOne \/ FetchFail
    <2>1. UNCHANGED <<setup, typing, album, published, open>>
      BY <1>12 DEF vars, Arrive, Redeliver, Connect, Disconnect, Status, Reload, TakeNext, TakeSlack, Search,
                   FetchOne, FetchFail, handlers, bus, replies
    <2>2. denied \subseteq denied'
      BY <1>12 DEF vars, Arrive, Redeliver, Connect, Disconnect, Status, Reload, TakeNext, TakeSlack, Search,
                   FetchOne, FetchFail, bus
    <2> QED
      BY <1>4, <2>1, <2>2
  <1> QED
    BY <1>6, <1>7, <1>8, <1>9, <1>10, <1>11, <1>12 DEF Next

----------------------------------------------------------------------------
\* Where a message is: its event waits, or what became of it is known.
Settled(i) ==
    \/ Main(i) \in offered \cup hand
    \/ i \in Range(got) \/ i \in Parts
    \/ Is("email") /\ i \notin seen \cup uids
    \/ Out(i)
    \/ i \in denied \cup ignored \cup dropped \cup missed

Reckoned ==
    /\ \A i \in 1..arrived : Settled(i)
    /\ \A i \in Range(known) : Out(i) \/ i \in denied

\* A message that is reckoned with is accounted for.
LEMMA ReckonedAccounted == Types /\ Reckoned => Accounted
  <1> SUFFICES ASSUME Types, Reckoned PROVE Accounted
    OBVIOUS
  <1>1. \A i \in 1..arrived : Main(i)[1] = i
    BY Mained
  <1>2. \A i \in 1..arrived : Main(i) \in offered \cup hand => i \in Ids(offered) \cup Ids(hand)
    BY <1>1 DEF Ids
  <1> QED
    BY <1>2 DEF Reckoned, Settled, Accounted, Parts, Out

\* Nothing but arrivals and events offered again.
LEMMA Quiet ==
  ASSUME Types, Reckoned, offered \subseteq offered',
         UNCHANGED <<setup, arrived, hand, album, got, seen, unmarked, uids, known, published, denied, ignored, dropped, missed>>
  PROVE  Reckoned'
  BY Same, Still DEF Reckoned, Settled

\* Steps of the link and the platform lose no message from the account.
LEMMA ReckonedLinks ==
  ASSUME Types, Places, Reckoned, Arrive \/ Redeliver \/ Connect \/ Disconnect \/ Status \/ Reload \/ Search \/ Send
  PROVE  Reckoned'
  <1>1. UNCHANGED <<setup, hand, album, got, seen, unmarked, uids, known, published, denied, ignored, dropped>>
    BY DEF Arrive, Redeliver, Connect, Disconnect, Status, Reload, Search, Send, platform, handlers, mailbox, bus, fates
  <1>2. CASE Arrive
    <2>1. /\ arrived' = arrived + 1 /\ arrived \in Nat /\ offered \subseteq offered' /\ missed \subseteq missed'
          /\ Is("email") \/ Events(arrived + 1) \subseteq offered' \/ arrived + 1 \in missed'
      BY <1>2, Mails DEF Arrive
    <2>2. \A i \in 1..arrived : Settled(i)'
      BY <1>1, <2>1, Same, Still DEF Reckoned, Settled
    <2>3. Main(arrived + 1) \in Events(arrived + 1)
      BY DEF Main, Events
    <2>4. arrived + 1 \notin seen \cup uids
      BY <2>1 DEF Types, Fates, Memory
    <2>5. ASSUME NEW i, i = arrived + 1 PROVE Settled(i)'
      BY <1>1, <2>1, <2>3, <2>4, <2>5, Same DEF Settled
    <2>6. \A i \in 1..arrived' : i \in 1..arrived \/ i = arrived + 1
      BY <2>1
    <2> QED
      BY <1>1, <2>2, <2>5, <2>6, Still DEF Reckoned
  <1>3. CASE Redeliver \/ Status \/ Reload \/ Search \/ Send
    <2>1. offered \subseteq offered' /\ UNCHANGED <<arrived, missed>>
      BY <1>3 DEF Redeliver, Status, Reload, Search, Send, platform, fates
    <2> QED
      BY <1>1, <2>1, Quiet
  <1>4. CASE Connect \/ Disconnect
    <2>1. /\ arrived' = arrived
          /\ \/ UNCHANGED <<offered, missed>>
             \/ offered' = {} /\ missed' = missed \cup Ids(offered)
      BY <1>4 DEF Connect, Disconnect
    <2>2. \A i \in 1..arrived : Main(i) \in offered => i \in Ids(offered)
      BY Mained DEF Ids
    <2> QED
      BY <1>1, <2>1, <2>2, Same, Still DEF Reckoned, Settled
  <1> QED
    BY <1>2, <1>3, <1>4

\* The end of the process counts what it loses.
LEMMA ReckonedHalt ==
  ASSUME Types, Places, Reckoned, Halt
  PROVE  Reckoned'
  <1>1. UNCHANGED <<setup, arrived, seen, unmarked, published, denied, ignored>> /\ uids' = {}
    BY DEF Halt, bus
  <1>2. /\ dropped' = dropped \cup Ids(hand) \cup Range(got) \cup Parts
        /\ UNCHANGED <<offered, missed>> \/ (offered' = {} /\ missed' = missed \cup Ids(offered))
    BY DEF Halt, Parts
  <1>3. \A i \in 1..arrived : /\ Main(i) \in offered => i \in Ids(offered)
                              /\ Main(i) \in hand => i \in Ids(hand)
    BY Mained DEF Ids
  <1>4. Range(known') = {}
    BY DEF Halt, Range
  <1>5. ASSUME NEW i \in 1..arrived PROVE Settled(i)'
    BY <1>1, <1>2, <1>3, Same, Still DEF Reckoned, Settled
  <1> QED
    BY <1>1, <1>4, <1>5 DEF Reckoned

\* A taken event is in hand, refused or ignored.
LEMMA ReckonedTakes ==
  ASSUME Types, Places, Reckoned, TakeNext \/ TakeSlack
  PROVE  Reckoned'
  <1>1. /\ UNCHANGED <<setup, arrived, album, got, seen, unmarked, uids, known, published, dropped, missed>>
        /\ hand \subseteq hand' /\ denied \subseteq denied' /\ ignored \subseteq ignored'
    BY DEF TakeNext, TakeSlack, mailbox
  <1>2. PICK e \in offered : /\ offered' = offered \ {e}
                             /\ e = Main(e[1]) => e \in hand' \/ e[1] \in denied' \cup ignored'
    <2>1. CASE TakeNext
      BY <2>1 DEF TakeNext
    <2>2. CASE TakeSlack
      BY <2>2 DEF TakeSlack, Twin, Main
    <2> QED
      BY <2>1, <2>2
  <1>3. \A i \in 1..arrived : Main(i)[1] = i
    BY Mained
  <1>4. ASSUME NEW i \in 1..arrived PROVE Settled(i)'
    <2>1. CASE Main(i) = e
      BY <1>1, <1>2, <1>3, <2>1, Same DEF Settled
    <2>2. CASE Main(i) # e
      BY <1>1, <1>2, <2>2, Same, Still DEF Reckoned, Settled
    <2> QED
      BY <2>1, <2>2
  <1> QED
    BY <1>1, <1>4, Still DEF Reckoned

\* A handler publishes, refuses or buffers what it had in hand.
LEMMA ReckonedHands ==
  ASSUME Types, Places, Reckoned, Finish \/ AddPart
  PROVE  Reckoned'
  <1>1. UNCHANGED <<setup, arrived, offered, got, seen, unmarked, uids, known, ignored, dropped, missed>>
    BY DEF Finish, AddPart, platform, mailbox, fates
  <1>2. PICK e \in hand : /\ hand' = hand \ {e} /\ Parts \subseteq Parts' /\ denied \subseteq denied'
                          /\ \A i : Out(i) => Out(i)'
                          /\ \A i : i = e[1] => Out(i)' \/ i \in denied' \/ i \in Parts'
    <2>1. CASE Finish
      <3>1. PICK e \in hand : hand' = hand \ {e} /\ Handle(<<e[1]>>)
        BY <2>1 DEF Finish
      <3>2. UNCHANGED album
        BY <2>1 DEF Finish
      <3>3. <<e[1]>> \in Seq(1..arrived) /\ <<e[1]>> # <<>> /\ Range(<<e[1]>>) = {e[1]}
        BY InHand
      <3>4. \/ denied' = denied /\ \A i : Out(i)' <=> Out(i) \/ i = e[1]
            \/ denied' = denied \cup {e[1]} /\ \A i : Out(i)' <=> Out(i)
        BY <1>1, <3>1, <3>3, Grown
      <3> QED
        BY <3>1, <3>2, <3>4, Still
    <2>2. CASE AddPart
      <3>1. PICK e \in hand, s \in Senders :
               hand' = hand \ {e} /\ album' = [album EXCEPT ![s] = Append(@, e[1])]
        BY <2>2, InHand DEF AddPart, Message
      <3>2. UNCHANGED <<published, denied>>
        BY <2>2 DEF AddPart, bus
      <3>3. e[1] \in 1..arrived /\ album[s] \in Seq(1..arrived) /\ album \in [Senders -> Seq(1..arrived)]
        BY InHand DEF Types, Waiting
      <3>4. Range(album'[s]) = Range(album[s]) \cup {e[1]} /\ \A r \in Senders : r # s => album'[r] = album[r]
        BY <3>1, <3>3, RangeAppended
      <3>5. Parts' = Parts \cup {e[1]}
        BY <3>4 DEF Parts
      <3> QED
        BY <3>1, <3>2, <3>5, Still
    <2> QED
      BY <2>1, <2>2
  <1>3. \A i \in 1..arrived : Main(i)[1] = i
    BY Mained
  <1>4. ASSUME NEW i \in 1..arrived PROVE Settled(i)'
    <2>1. CASE Main(i) = e
      BY <1>2, <1>3, <2>1 DEF Settled
    <2>2. CASE Main(i) # e
      BY <1>1, <1>2, <2>2, Same DEF Reckoned, Settled
    <2> QED
      BY <2>1, <2>2
  <1> QED
    BY <1>1, <1>2, <1>4 DEF Reckoned

\* A flush publishes or refuses all the parts.
LEMMA ReckonedFlush ==
  ASSUME Types, Places, Reckoned, FlushAlbum
  PROVE  Reckoned'
  <1>1. UNCHANGED <<setup, arrived, offered, hand, got, seen, unmarked, uids, known, ignored, dropped, missed>>
    BY DEF FlushAlbum, platform, mailbox, fates
  <1>2. PICK s \in Senders : album[s] # <<>> /\ Handle(album[s]) /\ album' = [album EXCEPT ![s] = <<>>]
    BY DEF FlushAlbum
  <1>3. album[s] \in Seq(1..arrived) /\ album \in [Senders -> Seq(1..arrived)]
    BY DEF Types, Waiting
  <1>4. \/ denied' = denied /\ \A i : Out(i)' <=> Out(i) \/ i \in Range(album[s])
        \/ denied' = denied \cup Range(album[s]) /\ \A i : Out(i)' <=> Out(i)
    BY <1>1, <1>2, <1>3, Grown
  <1>5. \A i \in Parts : i \in Parts' \/ i \in Range(album[s])
    <2>1. \A r \in Senders : r # s => album'[r] = album[r]
      BY <1>2, <1>3
    <2> QED
      BY <2>1 DEF Parts
  <1> QED
    BY <1>1, <1>4, <1>5, Same DEF Reckoned, Settled

\* A bridged message is published, refused or was handled before.
LEMMA ReckonedBridged ==
  ASSUME Types, Places, Reckoned, TakeBridged
  PROVE  Reckoned'
  <1>1. UNCHANGED <<setup, arrived, hand, album, got, seen, unmarked, uids, ignored, dropped, missed>> /\ Is("whatsapp")
    BY DEF TakeBridged, handlers, mailbox, fates
  <1>2. PICK e \in offered : /\ offered' = offered \ {e}
                             /\ \/ e[1] \in Range(known) /\ UNCHANGED <<known, published, denied>>
                                \/ known' = Evict(Append(known, e[1])) /\ Handle(<<e[1]>>)
    BY DEF TakeBridged, bus
  <1>3. e[1] \in 1..arrived /\ <<e[1]>> \in Seq(1..arrived) /\ <<e[1]>> # <<>> /\ Range(<<e[1]>>) = {e[1]}
    BY InHand
  <1>4. /\ \A i : Out(i) => Out(i)'
        /\ denied \subseteq denied'
        /\ \A i \in Range(known) \cup Range(known') \cup {e[1]} : Out(i)' \/ i \in denied'
    <2>1. CASE e[1] \in Range(known) /\ UNCHANGED <<known, published, denied>>
      BY <2>1, Still DEF Reckoned
    <2>2. CASE known' = Evict(Append(known, e[1])) /\ Handle(<<e[1]>>)
      <3>1. \/ denied' = denied /\ \A i : Out(i)' <=> Out(i) \/ i = e[1]
            \/ denied' = denied \cup {e[1]} /\ \A i : Out(i)' <=> Out(i)
        BY <1>1, <1>3, <2>2, Grown
      <3>2. Range(known') \subseteq Range(known) \cup {e[1]}
        <4>1. known \in Seq(1..arrived)
          BY DEF Types, Memory
        <4>2. /\ Append(known, e[1]) \in Seq(1..arrived) /\ Append(known, e[1]) # <<>>
              /\ Range(Append(known, e[1])) = Range(known) \cup {e[1]}
          <5>1. Append(known, e[1]) \in Seq(1..arrived) /\ Append(known, e[1]) # <<>>
            BY <1>3, <4>1, Appended
          <5> QED
            BY <1>3, <4>1, <5>1, RangeAppended
        <4>3. Range(Tail(Append(known, e[1]))) \subseteq Range(Append(known, e[1]))
          BY <4>2, RangeTail
        <4>4. known' = Append(known, e[1]) \/ known' = Tail(Append(known, e[1]))
          BY <2>2 DEF Evict
        <4>5. CASE known' = Append(known, e[1])
          BY <4>2, <4>5
        <4>6. CASE known' = Tail(Append(known, e[1]))
          BY <4>2, <4>3, <4>6
        <4> QED
          BY <4>4, <4>5, <4>6
      <3> QED
        BY <3>1, <3>2 DEF Reckoned
    <2> QED
      BY <1>2, <2>1, <2>2
  <1>5. \A i \in 1..arrived : Main(i)[1] = i
    BY Mained
  <1>6. ASSUME NEW i \in 1..arrived PROVE Settled(i)'
    <2>1. CASE Main(i) = e
      BY <1>4, <1>5, <2>1 DEF Settled
    <2>2. CASE Main(i) # e
      BY <1>1, <1>2, <1>4, <2>2, Same, Still DEF Reckoned, Settled
    <2> QED
      BY <2>1, <2>2
  <1> QED
    BY <1>1, <1>4, <1>6 DEF Reckoned

\* Mails are read, passed over, lost with a fetch or handled.
LEMMA ReckonedMail ==
  ASSUME Types, Places, Reckoned, FetchOne \/ FetchFail \/ Deliver
  PROVE  Reckoned'
  <1>1. UNCHANGED <<setup, arrived, offered, hand, album, known, ignored, missed>>
    BY DEF FetchOne, FetchFail, Deliver, platform, handlers, fates
  <1>2. CASE FetchOne
    <2>1. UNCHANGED <<published, denied, dropped>>
      BY <1>2 DEF FetchOne, bus, fates
    <2>2. PICK i \in todo : \/ UNCHANGED <<got, uids, seen, unmarked>>
                            \/ got' = Append(got, i) /\ Remember(i) /\ seen' \in {seen, seen \cup {i}}
      BY <1>2 DEF FetchOne, MarkSeen
    <2>3. i \in 1..arrived /\ got \in Seq(1..arrived)
      BY DEF Types, Fetching
    <2>4. CASE UNCHANGED <<got, uids, seen, unmarked>>
      BY <1>1, <2>1, <2>4, Quiet
    <2>5. CASE got' = Append(got, i) /\ Remember(i) /\ seen' \in {seen, seen \cup {i}}
      <3>1. Range(got') = Range(got) \cup {i} /\ uids' \subseteq uids \cup {i}
        BY <2>3, <2>5, RangeAppended, Remembering
      <3> QED
        BY <1>1, <2>1, <2>5, <3>1, Same, Still DEF Reckoned, Settled
    <2> QED
      BY <2>2, <2>4, <2>5
  <1>3. CASE FetchFail
    <2>1. UNCHANGED <<published, denied, seen, unmarked>> /\ Range(got) \subseteq dropped' /\ dropped \subseteq dropped'
      BY <1>3 DEF FetchFail, bus, platform
    <2>2. UNCHANGED uids \/ \E i \in todo : uids' \subseteq uids \cup {i} /\ i \in dropped'
      BY <1>3 DEF FetchFail, Remember, Halved
    <2> QED
      BY <1>1, <2>1, <2>2, Same, Still DEF Reckoned, Settled
  <1>4. CASE Deliver
    <2>1. got # <<>> /\ got' = Tail(got) /\ Handle(<<got[1]>>) /\ UNCHANGED <<seen, unmarked, uids, dropped>>
      BY <1>4 DEF Deliver, platform, fates
    <2>2. got \in Seq(1..arrived)
      BY DEF Types, Fetching
    <2>3. got[1] \in 1..arrived /\ Range(got) = {got[1]} \cup Range(got')
      BY <2>1, <2>2, Rest, RangeTail
    <2>4. <<got[1]>> \in Seq(1..arrived) /\ <<got[1]>> # <<>> /\ Range(<<got[1]>>) = {got[1]}
      BY <2>3 DEF Range
    <2>5. \/ denied' = denied /\ \A i : Out(i)' <=> Out(i) \/ i = got[1]
          \/ denied' = denied \cup {got[1]} /\ \A i : Out(i)' <=> Out(i)
      BY <1>1, <2>1, <2>4, Grown
    <2> QED
      BY <1>1, <2>1, <2>3, <2>5, Same, Still DEF Reckoned, Settled
  <1> QED
    BY <1>2, <1>3, <1>4

\* Every step keeps the account.
LEMMA ReckonedKept == Types /\ Places /\ Reckoned /\ [Next]_vars => Reckoned'
  <1> SUFFICES ASSUME Types, Places, Reckoned, [Next]_vars PROVE Reckoned'
    OBVIOUS
  <1>1. CASE UNCHANGED vars
    BY <1>1, Quiet DEF vars, platform, handlers, mailbox, bus, fates
  <1> QED
    BY <1>1, ReckonedLinks, ReckonedHalt, ReckonedTakes, ReckonedHands, ReckonedFlush, ReckonedBridged, ReckonedMail DEF Next

----------------------------------------------------------------------------
\* The messages AtMostOnce says nothing of.
Excused(i) ==
    \/ Is("whatsapp") /\ i \in forgotten
    \/ Is("email") /\ (setup.markSeen => i \in unmarked) /\ i \in forgotten
    \/ Is("slack") /\ i \in again

\* A message that waits has not been published, and waits in one place.
Alone(i) ==
    /\ \A k, l \in DOMAIN published : i \in Range(published[k]) /\ i \in Range(published[l]) => k = l
    /\ i \in Parts => ~Out(i)
    /\ \A e \in hand : e[1] = i => e = Main(i) /\ i \notin Parts /\ ~Out(i)
    /\ ~Is("whatsapp") /\ Main(i) \in offered => Main(i) \notin hand /\ i \notin Parts /\ ~Out(i)
    /\ i \in Range(got) => ~Out(i)
    /\ \A a, b \in DOMAIN got : got[a] = i /\ got[b] = i => a = b

Single == \A i \in 1..arrived : Excused(i) \/ Alone(i)

\* What keeps a message from being taken again.
Barrier(i) ==
    /\ Is("whatsapp") /\ Out(i) => i \in Range(known) \cup forgotten
    /\ Is("email") /\ (Out(i) \/ i \in Range(got)) =>
         \/ setup.markSeen /\ i \in seen
         \/ (setup.markSeen => i \in unmarked) /\ i \in uids \cup forgotten

Guarded ==
    /\ \A i \in 1..arrived : Barrier(i)
    /\ setup.markSeen => todo \cap seen = {}

\* A message that is published alone is published at most once.
LEMMA SingleAtMostOnce == Types /\ Single => AtMostOnce
  <1> SUFFICES ASSUME Types, Single, NEW i \in 1..arrived, ~Excused(i)
               PROVE  Cardinality({k \in DOMAIN published : i \in Range(published[k])}) <= 1
    BY DEF AtMostOnce, Excused
  <1> DEFINE at == {k \in DOMAIN published : i \in Range(published[k])}
  <1>1. \A k, l \in at : k = l
    BY DEF Single, Alone
  <1>2. CASE at = {}
    BY <1>2, FS_EmptySet
  <1>3. CASE at # {}
    <2>1. PICK k \in at : at = {k}
      BY <1>1, <1>3
    <2>2. Cardinality({k}) = 1
      BY FS_Singleton
    <2> QED
      BY <2>1, <2>2
  <1> QED
    BY <1>2, <1>3

\* Excuses are never taken back.
LEMMA Excuses ==
  ASSUME UNCHANGED setup, forgotten \subseteq forgotten', again \subseteq again', unmarked \subseteq unmarked'
  PROVE  \A i : Excused(i) => Excused(i)'
  BY Same DEF Excused

\* Messages only leave the places where they wait.
LEMMA Leaving ==
  ASSUME Types, Single, UNCHANGED <<setup, arrived, published>>, forgotten \subseteq forgotten', again \subseteq again',
         unmarked \subseteq unmarked', Parts' \subseteq Parts, hand' \subseteq hand, offered' \subseteq offered, got' \in {got, <<>>}
  PROVE  Single'
  <1>1. Range(<<>>) = {} /\ DOMAIN <<>> = {}
    BY DEF Range
  <1>2. \A i : Out(i)' <=> Out(i)
    BY Still
  <1>3. ASSUME NEW i, Alone(i) PROVE Alone(i)'
    BY <1>1, <1>2, <1>3, Same DEF Alone
  <1> QED
    BY <1>3, Excuses DEF Single

\* Steps of the link, replies and the configuration publish nothing.
LEMMA SingleLinks ==
  ASSUME Types, Places, Single, Guarded,
         Connect \/ Disconnect \/ Status \/ Reload \/ Search \/ Send \/ Halt \/ FetchFail
  PROVE  Single' /\ Guarded'
  <1>1. UNCHANGED <<setup, arrived, seen, published, again, unmarked>>
    BY DEF Connect, Disconnect, Status, Reload, Search, Send, Halt, FetchFail, platform, bus
  <1>2. hand' \in {hand, {}} /\ offered' \in {offered, {}} /\ got' \in {got, <<>>}
    BY DEF Connect, Disconnect, Status, Reload, Search, Send, Halt, FetchFail, platform, handlers, mailbox
  <1>3. Parts' \subseteq Parts
    <2>1. CASE Halt
      <3>1. \A s \in Senders : album'[s] = <<>>
        BY <2>1 DEF Halt
      <3>2. Range(<<>>) = {}
        BY DEF Range
      <3> QED
        BY <3>1, <3>2 DEF Parts
    <2>2. CASE ~Halt
      BY <2>2, Still DEF Connect, Disconnect, Status, Reload, Search, Send, FetchFail, handlers
    <2> QED
      BY <2>1, <2>2
  <1>4. /\ Range(known) \cup forgotten \subseteq Range(known') \cup forgotten' /\ forgotten \subseteq forgotten'
        /\ uids \cup forgotten \subseteq uids' \cup forgotten'
    BY DEF Connect, Disconnect, Status, Reload, Search, Send, Halt, FetchFail, Remember, mailbox
  <1>5. Single'
    BY <1>1, <1>2, <1>3, <1>4, Leaving
  <1>6. Guarded'
    <2>1. setup.markSeen => todo' \cap seen' = {}
      BY <1>1 DEF Connect, Disconnect, Status, Reload, Search, Send, Halt, FetchFail, mailbox, Guarded
    <2>2. Range(<<>>) = {}
      BY DEF Range
    <2>3. \A i \in 1..arrived : Barrier(i)'
      BY <1>1, <1>2, <1>4, <2>2, Same, Still DEF Guarded, Barrier
    <2> QED
      BY <1>1, <2>1, <2>3 DEF Guarded
  <1> QED
    BY <1>5, <1>6

\* A message that arrives, or arrives again, has its barrier.
LEMMA SingleArrives ==
  ASSUME Types, Places, Single, Guarded, Arrive \/ Redeliver
  PROVE  Single' /\ Guarded'
  <1>1. /\ UNCHANGED <<setup, seen, unmarked, published, hand, album, known, uids, todo, got, forgotten>>
        /\ again \subseteq again'
    BY DEF Arrive, Redeliver, platform, bus, handlers, mailbox
  <1>2. \A i : Out(i)' <=> Out(i)
    BY <1>1, Still
  <1>3. arrived \in Nat
    BY Mails
  <1>4. CASE Arrive
    <2>1. arrived' = arrived + 1 /\ offered' \in {offered, offered \cup Events(arrived + 1)}
      BY <1>4 DEF Arrive
    <2>2. \A i \in 1..arrived : Main(i) \in offered' => Main(i) \in offered
      BY <1>3, <2>1, Mained, EventsOf
    <2>3. \A i \in 1..arrived : Excused(i)' \/ Alone(i)'
      <3>1. ASSUME NEW i \in 1..arrived, Alone(i) PROVE Alone(i)'
        BY <1>1, <1>2, <2>2, <3>1, Same, Still DEF Alone
      <3> QED
        BY <1>1, <3>1, Excuses DEF Single
    <2>4. ASSUME NEW i, i = arrived + 1 PROVE Alone(i)' /\ Barrier(i)'
      <3>1. ~Out(i)
        <4>1. ASSUME NEW k \in DOMAIN published PROVE Range(published[k]) \subseteq 1..arrived
          <5>1. published[k] \in Seq(1..arrived)
            BY ElementOfSeq DEF Types, OnBus
          <5> QED
            BY <5>1, RangeIn
        <4> QED
          BY <1>3, <2>4, <4>1 DEF Out
      <3>2. i \notin Parts
        BY <1>3, <2>4, InParts
      <3>3. i \notin Range(got) /\ \A a \in DOMAIN got : got[a] # i
        <4>1. got \in Seq(1..arrived)
          BY DEF Types, Fetching
        <4>2. Range(got) \subseteq 1..arrived
          BY <4>1, RangeIn
        <4>3. i \notin 1..arrived
          BY <1>3, <2>4
        <4>4. \A a \in DOMAIN got : got[a] \in Range(got)
          BY DEF Range
        <4> QED
          BY <4>2, <4>3, <4>4
      <3>4. \A e \in hand : e[1] # i
        BY <1>3, <2>4 DEF Types, Waiting
      <3>5. Main(i)[1] = i
        BY DEF Main
      <3>6. \A k \in DOMAIN published : i \notin Range(published[k])
        BY <3>1 DEF Out
      <3> QED
        BY <1>1, <1>2, <3>1, <3>2, <3>3, <3>4, <3>5, <3>6, Same, Still DEF Alone, Barrier
    <2>5. \A i \in 1..arrived' : i \in 1..arrived \/ i = arrived + 1
      BY <1>3, <2>1
    <2>6. \A i \in 1..arrived : Barrier(i)'
      BY <1>1, <1>2, Same DEF Guarded, Barrier
    <2> QED
      BY <1>1, <2>3, <2>4, <2>5, <2>6 DEF Single, Guarded
  <1>5. CASE Redeliver
    <2>1. PICK i \in 1..arrived : /\ \E e \in Events(i) : offered' = offered \cup {e}
                                  /\ again' = again \cup {i} /\ setup.kind \in {"whatsapp", "slack"}
      BY <1>5 DEF Redeliver
    <2>2. arrived' = arrived
      BY <1>5 DEF Redeliver
    <2>3. ASSUME NEW j \in 1..arrived PROVE Excused(j)' \/ Alone(j)'
      <3>1. CASE Excused(j)
        BY <1>1, <3>1, Excuses
      <3>2. CASE Is("slack") /\ j = i
        BY <1>1, <2>1, <3>2, Same DEF Excused
      <3>3. CASE Alone(j) /\ ~(Is("slack") /\ j = i)
        <4>1. ~Is("whatsapp") /\ Main(j) \in offered' => Main(j) \in offered
          BY <2>1, <3>3, Mained, EventsOf DEF Is
        <4> QED
          BY <1>1, <1>2, <3>3, <4>1, Same, Still DEF Alone
      <3> QED
        BY <3>1, <3>2, <3>3 DEF Single
    <2> QED
      BY <1>1, <1>2, <2>2, <2>3, Same DEF Single, Guarded, Barrier
  <1> QED
    BY <1>4, <1>5

\* An event that is taken leaves the platform.
LEMMA SingleTakes ==
  ASSUME Types, Places, Single, Guarded, TakeNext \/ TakeSlack
  PROVE  Single' /\ Guarded'
  <1>1. /\ UNCHANGED <<setup, arrived, seen, unmarked, published, album, known, uids, todo, got, forgotten>>
        /\ again \subseteq again'
    BY DEF TakeNext, TakeSlack, mailbox
  <1>2. \A i : Out(i)' <=> Out(i)
    BY <1>1, Still
  <1>3. PICK e \in offered : /\ offered' = offered \ {e}
                             /\ hand' = hand \/ (hand' = hand \cup {e} /\ (e = Main(e[1]) \/ Excused(e[1])'))
    <2>1. CASE TakeNext
      <3>1. PICK e \in offered : offered' = offered \ {e} /\ hand' \in {hand, {e}} /\ hand = {}
        BY <2>1 DEF TakeNext
      <3>2. e \in Events(e[1]) /\ ~Is("slack") /\ e[1] \in 1..arrived
        BY <2>1 DEF TakeNext, Is, Types, Waiting
      <3> QED
        BY <3>1, <3>2, Mained
    <2>2. CASE TakeSlack
      <3>1. PICK e \in offered : /\ offered' = offered \ {e}
                                 /\ again' = IF bot THEN again ELSE again \cup {e[1]}
                                 /\ hand' = hand \/ (hand' = hand \cup {e} /\ ~Twin(e))
        BY <2>2 DEF TakeSlack
      <3>2. e \in Events(e[1]) /\ Is("slack")
        BY <2>2 DEF TakeSlack, Types, Waiting
      <3>3. bot /\ ~Twin(e) => e = Main(e[1])
        BY <3>2 DEF Twin, Main, Events
      <3>4. ~bot => Excused(e[1])'
        BY <1>1, <3>1, <3>2, Same DEF Excused
      <3> QED
        BY <3>1, <3>3, <3>4 DEF Types, Setting
    <2> QED
      BY <2>1, <2>2
  <1>4. ~Is("whatsapp")
    BY DEF TakeNext, TakeSlack, Is
  <1>5. \A i \in 1..arrived : Main(i)[1] = i
    BY Mained
  <1>6. ASSUME NEW i \in 1..arrived, ~Excused(i)', Alone(i) PROVE Alone(i)'
    BY <1>1, <1>2, <1>3, <1>4, <1>5, <1>6, Same, Still DEF Alone
  <1> QED
    BY <1>1, <1>2, <1>6, Excuses, Same DEF Single, Guarded, Barrier

----------------------------------------------------------------------------
\* What becomes of one message, or of one album, that nobody else waits with.
LEMMA Publishing ==
  ASSUME Types, Single, NEW is \in Seq(1..arrived), is # <<>>, Handle(is), UNCHANGED <<setup, arrived>>,
         NEW i \in 1..arrived, i \in Range(is) => ~Out(i), Alone(i)
  PROVE  /\ \A k, l \in DOMAIN published' : i \in Range(published'[k]) /\ i \in Range(published'[l]) => k = l
         /\ Out(i)' => Out(i) \/ i \in Range(is)
  <1>1. CASE UNCHANGED published
    BY <1>1, Still DEF Alone
  <1>2. CASE /\ DOMAIN published' = DOMAIN published \cup {Len(published) + 1}
             /\ Len(published) + 1 \notin DOMAIN published /\ published'[Len(published) + 1] = is
             /\ \A k \in DOMAIN published : published'[k] = published[k]
             /\ Out(i)' <=> Out(i) \/ i \in Range(is)
    <2>1. i \in Range(is) => \A k \in DOMAIN published : i \notin Range(published[k])
      BY DEF Out
    <2> QED
      BY <1>2, <2>1 DEF Alone
  <1> QED
    BY <1>1, <1>2, Grown

\* A handler publishes what nobody published before, and no longer has it.
LEMMA SingleHands ==
  ASSUME Types, Places, Single, Guarded, Finish \/ AddPart
  PROVE  Single' /\ Guarded'
  <1>1. UNCHANGED <<setup, arrived, offered, got, seen, unmarked, uids, known, todo, forgotten, again>>
    BY DEF Finish, AddPart, platform, mailbox
  <1>2. /\ got = <<>> /\ Range(<<>>) = {} /\ setup.kind \in {"telegram", "discord", "slack"}
        /\ ~Is("email") /\ ~Is("whatsapp")
    <2>1. hand # {}
      BY DEF Finish, AddPart
    <2>2. setup.kind \in {"telegram", "discord", "slack"} /\ ~Is("email") /\ ~Is("whatsapp")
      BY <2>1 DEF Places, Is
    <2> QED
      BY <2>2 DEF Places, Range
  <1>3. \A i \in 1..arrived : Main(i)[1] = i
    BY Mained
  <1>4. Guarded'
    BY <1>1, <1>2, Same DEF Guarded, Barrier
  <1>5. CASE Finish
    <2>1. PICK e \in hand : hand' = hand \ {e} /\ Handle(<<e[1]>>)
      BY <1>5 DEF Finish
    <2>2. Parts' = Parts
      BY <1>5, Still DEF Finish
    <2>3. e[1] \in 1..arrived /\ <<e[1]>> \in Seq(1..arrived) /\ <<e[1]>> # <<>> /\ Range(<<e[1]>>) = {e[1]}
      BY InHand
    <2>4. ASSUME NEW i \in 1..arrived, Alone(i) PROVE Alone(i)'
      <3>1. i = e[1] => e = Main(i) /\ i \notin Parts /\ ~Out(i) /\ Main(i) \notin offered
        BY <1>2, <2>4 DEF Alone
      <3>2. /\ \A k, l \in DOMAIN published' : i \in Range(published'[k]) /\ i \in Range(published'[l]) => k = l
            /\ Out(i)' => Out(i) \/ i = e[1]
        BY <1>1, <2>1, <2>3, <2>4, <3>1, Publishing
      <3>3. CASE i = e[1]
        <4>1. \A f \in hand' : f[1] # i
          BY <2>1, <2>4, <3>1, <3>3 DEF Alone
        <4> QED
          BY <1>1, <1>2, <2>2, <3>1, <3>2, <3>3, <4>1, Same DEF Alone
      <3>4. CASE i # e[1]
        <4>1. Main(i) # e
          BY <1>3, <3>4
        <4> QED
          BY <1>1, <1>2, <2>1, <2>2, <2>4, <3>2, <3>4, <4>1, Same DEF Alone
      <3> QED
        BY <3>3, <3>4
    <2> QED
      BY <1>1, <1>4, <2>4, Excuses DEF Single
  <1>6. CASE AddPart
    <2>1. PICK e \in hand, s \in Senders :
             hand' = hand \ {e} /\ album' = [album EXCEPT ![s] = Append(@, e[1])]
      BY <1>6, InHand DEF AddPart, Message
    <2>2. \A i : Out(i)' <=> Out(i)
      BY <1>6, Still DEF AddPart, bus
    <2>3. e[1] \in 1..arrived /\ album[s] \in Seq(1..arrived) /\ album \in [Senders -> Seq(1..arrived)]
      BY InHand DEF Types, Waiting
    <2>4. Parts' = Parts \cup {e[1]}
      <3>1. Range(album'[s]) = Range(album[s]) \cup {e[1]} /\ \A r \in Senders : r # s => album'[r] = album[r]
        BY <2>1, <2>3, RangeAppended
      <3> QED
        BY <3>1 DEF Parts
    <2>5. UNCHANGED published
      BY <1>6 DEF AddPart, bus
    <2>6. ASSUME NEW i \in 1..arrived, Alone(i) PROVE Alone(i)'
      <3>1. i = e[1] => e = Main(i) /\ i \notin Parts /\ ~Out(i) /\ Main(i) \notin offered
        BY <1>2, <2>6 DEF Alone
      <3>2. CASE i = e[1]
        <4>1. \A f \in hand' : f[1] # i
          BY <2>1, <2>6, <3>1, <3>2 DEF Alone
        <4> QED
          BY <1>1, <1>2, <2>2, <2>5, <2>6, <3>1, <3>2, <4>1, Same DEF Alone
      <3>3. CASE i # e[1]
        <4>1. Main(i) # e
          BY <1>3, <3>3
        <4> QED
          BY <1>1, <1>2, <2>1, <2>2, <2>4, <2>5, <2>6, <3>3, <4>1, Same DEF Alone
      <3> QED
        BY <3>2, <3>3
    <2> QED
      BY <1>1, <1>4, <2>6, Excuses DEF Single
  <1> QED
    BY <1>5, <1>6

\* A flush publishes parts that nobody published before.
LEMMA SingleFlush ==
  ASSUME Types, Places, Single, Guarded, FlushAlbum
  PROVE  Single' /\ Guarded'
  <1>1. UNCHANGED <<setup, arrived, offered, hand, got, seen, unmarked, uids, known, todo, forgotten, again>>
    BY DEF FlushAlbum, platform, mailbox
  <1>2. PICK s \in Senders : album[s] # <<>> /\ Handle(album[s]) /\ album' = [album EXCEPT ![s] = <<>>]
    BY DEF FlushAlbum
  <1>3. Is("telegram") /\ got = <<>> /\ ~Is("email") /\ ~Is("whatsapp") /\ Range(<<>>) = {}
    BY <1>2 DEF Places, Is, Range
  <1>4. album[s] \in Seq(1..arrived) /\ album \in [Senders -> Seq(1..arrived)]
    BY DEF Types, Waiting
  <1>5. \A i \in Range(album[s]) : i \in Parts /\ i \notin Parts'
    <2>1. \A r \in Senders : r # s => album'[r] = album[r]
      BY <1>2, <1>4
    <2>2. album'[s] = <<>>
      BY <1>2, <1>4
    <2>3. \A r \in Senders : r # s => \A i \in Range(album[s]) : i \notin Range(album[r])
      BY DEF Places
    <2> QED
      BY <1>3, <2>1, <2>2, <2>3 DEF Parts
  <1>6. Parts' \subseteq Parts
    BY <1>2, <1>3, <1>4 DEF Parts
  <1>7. ASSUME NEW i \in 1..arrived, Alone(i) PROVE Alone(i)'
    <2>1. i \in Range(album[s]) => i \in Parts /\ ~Out(i)
      BY <1>5, <1>7 DEF Alone
    <2>2. /\ \A k, l \in DOMAIN published' : i \in Range(published'[k]) /\ i \in Range(published'[l]) => k = l
          /\ Out(i)' => Out(i) \/ i \in Range(album[s])
      BY <1>1, <1>2, <1>4, <1>7, <2>1, Publishing
    <2>3. CASE i \in Range(album[s])
      BY <1>1, <1>3, <1>5, <1>7, <2>2, <2>3, Same DEF Alone
    <2>4. CASE i \notin Range(album[s])
      BY <1>1, <1>3, <1>6, <1>7, <2>2, <2>4, Same DEF Alone
    <2> QED
      BY <2>3, <2>4
  <1> QED
    BY <1>1, <1>3, <1>7, Excuses, Same DEF Single, Guarded, Barrier

\* An id is remembered when it is added; what makes room for it is forgotten.
LEMMA Evicted ==
  ASSUME Types, NEW i \in 1..arrived, known' = Evict(Append(known, i)),
         forgotten' = forgotten \cup (Range(known) \ Range(known'))
  PROVE  i \in Range(known') /\ Range(known) \subseteq Range(known') \cup forgotten'
  <1>1. known \in Seq(1..arrived) /\ setup.cap \in Nat /\ setup.cap > 0
    BY Mails DEF Types, Memory
  <1>2. /\ Append(known, i) \in Seq(1..arrived) /\ Append(known, i) # <<>>
        /\ DOMAIN Append(known, i) = DOMAIN known \cup {Len(known) + 1}
        /\ Append(known, i)[Len(known) + 1] = i /\ Len(Append(known, i)) = Len(known) + 1 /\ Len(known) \in Nat
    BY <1>1, Appended
  <1>3. CASE known' = Append(known, i)
    BY <1>2, <1>3 DEF Range
  <1>4. CASE known' = Tail(Append(known, i)) /\ Len(known) + 1 > setup.cap
    <2> DEFINE q == Append(known, i)
    <2>1. Len(known) + 1 \in DOMAIN q /\ Len(known) + 1 # 1 /\ q \in Seq(1..arrived) /\ q # <<>>
      BY <1>1, <1>2, <1>4
    <2> HIDE DEF q
    <2>2. Len(known) \in DOMAIN Tail(q)
      <3>1. Len(known) + 1 - 1 \in DOMAIN Tail(q)
        BY <2>1, Rest
      <3> QED
        BY <1>2, <3>1
    <2>3. Tail(q)[Len(known)] = q[Len(known) + 1]
      BY <2>1, <2>2, Rest
    <2>4. known' = Tail(q) /\ q[Len(known) + 1] = i
      BY <1>2, <1>4 DEF q
    <2> QED
      BY <2>2, <2>3, <2>4 DEF Range
  <1>5. known' = Append(known, i) \/ (known' = Tail(Append(known, i)) /\ Len(known) + 1 > setup.cap)
    BY <1>2 DEF Evict
  <1> QED
    BY <1>3, <1>4, <1>5

\* A bridged message is remembered with its publication, or its id was forgotten.
LEMMA SingleBridged ==
  ASSUME Types, Places, Single, Guarded, TakeBridged
  PROVE  Single' /\ Guarded'
  <1>1. UNCHANGED <<setup, arrived, hand, album, got, seen, unmarked, uids, todo, again>> /\ Is("whatsapp") /\ ~Is("email")
    BY DEF TakeBridged, handlers, mailbox, Is
  <1>2. PICK e \in offered : /\ offered' = offered \ {e}
                             /\ \/ UNCHANGED <<known, forgotten, published>>
                                \/ /\ known' = Evict(Append(known, e[1])) /\ Handle(<<e[1]>>)
                                   /\ e[1] \notin Range(known)
                                   /\ forgotten' = forgotten \cup (Range(known) \ Range(known'))
    BY DEF TakeBridged, bus
  <1>3. e[1] \in 1..arrived /\ <<e[1]>> \in Seq(1..arrived) /\ <<e[1]>> # <<>> /\ Range(<<e[1]>>) = {e[1]}
    BY InHand
  <1>4. Parts = {} /\ hand = {} /\ got = <<>> /\ Parts' = Parts /\ Range(<<>>) = {}
    <2>1. \A s \in Senders : album[s] = <<>>
      BY <1>1 DEF Places, Is
    <2> QED
      BY <1>1, <2>1, InParts, Still DEF Places, Is, Range
  <1>5. CASE UNCHANGED <<known, forgotten, published>>
    <2>1. Single'
      BY <1>1, <1>2, <1>4, <1>5, Leaving
    <2> QED
      BY <1>1, <1>5, <2>1, Same, Still DEF Guarded, Barrier
  <1>6. CASE /\ known' = Evict(Append(known, e[1])) /\ Handle(<<e[1]>>) /\ e[1] \notin Range(known)
             /\ forgotten' = forgotten \cup (Range(known) \ Range(known'))
    <2>1. e[1] \in Range(known') /\ Range(known) \subseteq Range(known') \cup forgotten'
      BY <1>3, <1>6, Evicted
    <2>2. \A i : Out(i)' => Out(i) \/ i = e[1]
      BY <1>1, <1>3, <1>6, Grown
    <2>3. Guarded'
      BY <1>1, <1>6, <2>1, <2>2, Same DEF Guarded, Barrier
    <2>4. ASSUME NEW i \in 1..arrived, Alone(i), ~Excused(i) PROVE Alone(i)'
      <3>1. i = e[1] => ~Out(i)
        BY <1>1, <1>6, <2>4 DEF Guarded, Barrier, Excused
      <3>2. /\ \A k, l \in DOMAIN published' : i \in Range(published'[k]) /\ i \in Range(published'[l]) => k = l
        BY <1>1, <1>3, <1>6, <2>4, <3>1, Publishing
      <3> QED
        BY <1>1, <1>4, <3>2, Same DEF Alone
    <2>5. forgotten \subseteq forgotten'
      BY <1>6
    <2> QED
      BY <1>1, <2>3, <2>4, <2>5, Excuses DEF Single
  <1> QED
    BY <1>2, <1>5, <1>6

\* A mail is fetched again only if it was forgotten.
LEMMA SingleFetch ==
  ASSUME Types, Places, Single, Guarded, FetchOne
  PROVE  Single' /\ Guarded'
  <1>1. UNCHANGED <<setup, arrived, offered, hand, album, known, published>>
    BY DEF FetchOne, handlers, bus
  <1>2. PICK i \in todo : /\ todo' = todo \ {i} /\ again \subseteq again'
                          /\ \/ UNCHANGED <<got, uids, forgotten, seen, unmarked>>
                             \/ i \notin uids /\ got' = Append(got, i) /\ Remember(i) /\ MarkSeen(i)
    BY DEF FetchOne
  <1>3. i \in 1..arrived /\ got \in Seq(1..arrived) /\ Is("email") /\ ~Is("whatsapp") /\ ~Is("slack")
    BY DEF Types, Fetching, Places, Is
  <1>4. CASE UNCHANGED <<got, uids, forgotten, seen, unmarked>>
    <2>1. Single'
      BY <1>1, <1>2, <1>4, Leaving, Still
    <2> QED
      BY <1>1, <1>2, <1>4, <2>1, Same, Still DEF Guarded, Barrier
  <1>5. CASE i \notin uids /\ got' = Append(got, i) /\ Remember(i) /\ MarkSeen(i)
    <2>0. /\ seen \subseteq seen' /\ seen' \subseteq seen \cup {i} /\ unmarked \subseteq unmarked'
          /\ setup.markSeen => i \in seen' \cup unmarked'
      BY <1>5 DEF MarkSeen
    <2>1. /\ forgotten \subseteq forgotten' /\ uids \cup {i} \subseteq uids' \cup forgotten'
          /\ Range(got') = Range(got) \cup {i}
      BY <1>3, <1>5, Remembering, RangeAppended
    <2>2. \A j : Out(j)' <=> Out(j)
      BY <1>1, Still
    <2>3. Guarded'
      <3>1. \A j \in 1..arrived : Barrier(j)'
        <4>1. ASSUME NEW j \in 1..arrived, Out(j) \/ j \in Range(got) PROVE Barrier(j)'
          BY <1>1, <1>3, <2>0, <2>1, <4>1, Same DEF Guarded, Barrier
        <4>2. (setup.markSeen /\ i \in seen') \/ ((setup.markSeen => i \in unmarked') /\ i \in uids' \cup forgotten')
          BY <2>0, <2>1
        <4>3. Barrier(i)'
          BY <1>1, <1>3, <4>2, Same DEF Barrier
        <4>4. \A j : Out(j)' \/ j \in Range(got') => Out(j) \/ j \in Range(got) \/ j = i
          BY <2>1, <2>2
        <4> QED
          BY <1>1, <1>3, <4>1, <4>3, <4>4, Same DEF Barrier
      <3>2. setup.markSeen => todo' \cap seen' = {}
        BY <1>2, <2>0 DEF Guarded
      <3> QED
        BY <1>1, <3>1, <3>2 DEF Guarded
    <2>4. ASSUME NEW j \in 1..arrived, Alone(j), ~Excused(j)' PROVE Alone(j)'
      <3>1. j = i => ~Out(i) /\ i \notin Range(got)
        <4>1. j = i /\ (setup.markSeen => i \in unmarked) => i \notin forgotten
          BY <1>1, <1>3, <2>0, <2>1, <2>4, Same DEF Excused
        <4>2. setup.markSeen => i \notin seen
          BY DEF Guarded
        <4> QED
          BY <1>3, <1>5, <4>1, <4>2 DEF Guarded, Barrier
      <3>2. /\ DOMAIN got' = DOMAIN got \cup {Len(got) + 1} /\ Len(got) + 1 \notin DOMAIN got
            /\ \A n \in DOMAIN got : got'[n] = got[n]
            /\ got'[Len(got) + 1] = i
        BY <1>3, <1>5, Appended
      <3>3. \A a \in DOMAIN got : got[a] \in Range(got)
        BY DEF Range
      <3>4. \A a, b \in DOMAIN got' : got'[a] = j /\ got'[b] = j => a = b
        BY <2>4, <3>1, <3>2, <3>3 DEF Alone
      <3>5. j \in Range(got') => ~Out(j)
        BY <2>1, <2>4, <3>1 DEF Alone
      <3> QED
        BY <1>1, <2>2, <2>4, <3>4, <3>5, Same, Still DEF Alone
    <2> QED
      BY <1>1, <1>2, <2>0, <2>1, <2>3, <2>4, Excuses DEF Single
  <1> QED
    BY <1>2, <1>4, <1>5

\* A mail that is handled has left the fetch.
LEMMA SingleDeliver ==
  ASSUME Types, Places, Single, Guarded, Deliver
  PROVE  Single' /\ Guarded'
  <1>1. UNCHANGED <<setup, arrived, offered, hand, album, known, seen, unmarked, uids, todo, forgotten, again>>
    BY DEF Deliver, platform, handlers
  <1>2. got # <<>> /\ got' = Tail(got) /\ Handle(<<got[1]>>)
    BY DEF Deliver
  <1>3. Is("email") /\ ~Is("whatsapp") /\ hand = {} /\ offered = {} /\ Parts' = Parts
    BY <1>1, <1>2, Still DEF Places, Is
  <1>4. got \in Seq(1..arrived)
    BY DEF Types, Fetching
  <1>5. /\ got[1] \in 1..arrived /\ 1 \in DOMAIN got
        /\ \A n \in DOMAIN got' : n + 1 \in DOMAIN got /\ n \in Nat /\ n > 0 /\ got'[n] = got[n + 1]
    BY <1>2, <1>4, Rest
  <1>6. Range(got) = {got[1]} \cup Range(got')
    BY <1>2, <1>4, RangeTail
  <1>7. <<got[1]>> \in Seq(1..arrived) /\ <<got[1]>> # <<>> /\ Range(<<got[1]>>) = {got[1]}
    BY <1>5 DEF Range
  <1>8. ASSUME NEW j \in 1..arrived, Alone(j) PROVE Alone(j)'
    <2>1. j = got[1] => ~Out(j)
      BY <1>6, <1>8 DEF Alone
    <2>2. /\ \A k, l \in DOMAIN published' : j \in Range(published'[k]) /\ j \in Range(published'[l]) => k = l
          /\ Out(j)' => Out(j) \/ j = got[1]
      BY <1>1, <1>2, <1>7, <1>8, <2>1, Publishing
    <2>3. j = got[1] => j \notin Range(got') /\ \A n \in DOMAIN got' : got'[n] # j
      <3>1. j = got[1] => \A n \in DOMAIN got' : got'[n] # j
        BY <1>5, <1>8 DEF Alone
      <3> QED
        BY <3>1 DEF Range
    <2>4. \A a, b \in DOMAIN got' : got'[a] = j /\ got'[b] = j => a = b
      BY <1>5, <1>8 DEF Alone
    <2>5. j \in Range(got') => ~Out(j)'
      BY <1>6, <1>8, <2>2, <2>3 DEF Alone
    <2>6. j \in Parts => ~Out(j)' 
      <3>1. Parts = {}
        <4>1. \A s \in Senders : album[s] = <<>>
          BY <1>3 DEF Places, Is
        <4> QED
          BY <4>1, InParts
      <3> QED
        BY <3>1
    <2> QED
      BY <1>1, <1>3, <2>2, <2>4, <2>5, <2>6, Same DEF Alone
  <1>9. \A j : Out(j)' \/ j \in Range(got') => Out(j) \/ j \in Range(got)
    BY <1>1, <1>2, <1>6, <1>7, Grown
  <1> QED
    BY <1>1, <1>3, <1>8, <1>9, Excuses, Same DEF Single, Guarded, Barrier

\* Every step keeps messages apart and guarded.
LEMMA SingleKept == Types /\ Places /\ Single /\ Guarded /\ [Next]_vars => Single' /\ Guarded'
  <1> SUFFICES ASSUME Types, Places, Single, Guarded, [Next]_vars PROVE Single' /\ Guarded'
    OBVIOUS
  <1>1. CASE UNCHANGED vars
    <2>1. UNCHANGED <<setup, arrived, seen, unmarked, offered, hand, album, known, uids, todo, got, published, forgotten, again>>
      BY <1>1 DEF vars, platform, handlers, mailbox, bus
    <2>2. Single'
      BY <2>1, Leaving, Still
    <2> QED
      BY <2>1, <2>2, Same, Still DEF Guarded, Barrier
  <1> QED
    BY <1>1, SingleLinks, SingleArrives, SingleTakes, SingleHands, SingleFlush, SingleBridged, SingleFetch,
       SingleDeliver DEF Next

----------------------------------------------------------------------------
\* Telegram and Discord: handled before in hand before waiting; only albums wait for more.
Queued ==
    setup.kind \in {"telegram", "discord"} =>
        /\ \A e, f \in hand : e = f
        /\ \A e \in hand, f \in offered : e[1] < f[1]
        /\ \A e \in hand \cup offered : /\ \A k \in DOMAIN published : published[k][1] < e[1]
                                        /\ \A i \in Parts : i < e[1]
        /\ \A i \in Parts : M(i).album

\* Mails that were read or passed over, and those of them that were not lost since.
Touched == uids \cup forgotten \cup again
Kept == {published[k][1] : k \in DOMAIN published} \cup Range(got)

\* Email: mails are read from the first to the last.
InTurn ==
    Is("email") =>
        /\ seen \subseteq Touched /\ Kept \subseteq uids \cup forgotten
        /\ \A j \in todo, i \in 1..arrived : i < j => i \in todo \cup Touched
        /\ \A j \in Kept, i \in 1..arrived : i < j => i \in Touched
        /\ \A a, b \in DOMAIN got : a < b => got[a] < got[b] \/ got[b] \in forgotten \cup again
        /\ \A k \in DOMAIN published, b \in DOMAIN got :
             published[k][1] < got[b] \/ got[b] \in forgotten \cup again

\* The first message of what was published.
LEMMA Heads ==
  ASSUME Types
  PROVE  \A k \in DOMAIN published : published[k][1] \in 1..arrived
  <1> SUFFICES ASSUME NEW k \in DOMAIN published PROVE published[k][1] \in 1..arrived
    OBVIOUS
  <1>1. published[k] \in Seq(1..arrived) /\ published[k] # <<>>
    BY ElementOfSeq DEF Types, OnBus
  <1> QED
    BY <1>1, Rest

\* Less in hand or in the buffers is still in order.
LEMMA QueuedLess ==
  ASSUME Queued, UNCHANGED <<setup, published>>, Parts' \subseteq Parts, hand' \subseteq hand, offered' \subseteq offered
  PROVE  Queued'
  BY Same DEF Queued

\* No step changes the deployment.
LEMMA SetupStays == [Next]_vars => UNCHANGED setup
  BY DEF Next, vars, Arrive, Redeliver, Connect, Disconnect, Status, Halt, Reload, TakeNext, TakeSlack,
         Finish, AddPart, FlushAlbum, TakeBridged, Search, FetchOne, FetchFail, Deliver, Send

\* Every step keeps what waits behind what was published.
LEMMA QueuedKept == Types /\ Places /\ Queued /\ [Next]_vars => Queued'
  <1> SUFFICES ASSUME Types, Places, Queued, [Next]_vars PROVE Queued'
    OBVIOUS
  <1>0. UNCHANGED setup
    BY SetupStays
  <1> SUFFICES ASSUME setup.kind \in {"telegram", "discord"} PROVE Queued'
    BY <1>0 DEF Queued
  <1> USE <1>0
  <1>1. ~Is("slack") /\ ~Is("whatsapp") /\ ~Is("email") /\ todo = {} /\ got = <<>> /\ arrived \in Nat
    BY Mails DEF Is, Places
  <1>2. CASE UNCHANGED vars \/ Connect \/ Disconnect \/ Reload \/ Send \/ Halt
    <2>1. published' = published /\ hand' \in {hand, {}} /\ offered' \in {offered, {}}
      BY <1>2 DEF vars, Connect, Disconnect, Reload, Send, Halt, platform, handlers, bus
    <2>2. Parts' \subseteq Parts
      <3>1. CASE Halt
        <4>1. \A s \in Senders : album'[s] = <<>>
          BY <3>1 DEF Halt
        <4>2. Range(<<>>) = {}
          BY DEF Range
        <4> QED
          BY <4>1, <4>2 DEF Parts
      <3>2. CASE ~Halt
        BY <1>2, <3>2, Still DEF vars, Connect, Disconnect, Reload, Send, handlers
      <3> QED
        BY <3>1, <3>2
    <2> QED
      BY <2>1, <2>2, QueuedLess
  <1>3. CASE Arrive
    <2>1. UNCHANGED <<published, hand, album>> /\ \A f \in offered' : f \in offered \/ f[1] = arrived + 1
      BY <1>3, EventsOf DEF Arrive, bus, handlers
    <2>2. /\ \A k \in DOMAIN published : published[k][1] < arrived + 1
          /\ \A i \in Parts : i < arrived + 1
          /\ \A e \in hand : e[1] < arrived + 1
      <3>1. \A i \in 1..arrived : i < arrived + 1
        BY <1>1
      <3>2. \A e \in hand : e[1] \in 1..arrived
        BY DEF Types, Waiting
      <3> QED
        BY <3>1, <3>2, Heads, InParts
    <2> QED
      BY <2>1, <2>2, Same, Still DEF Queued
  <1>4. CASE TakeNext
    <2>1. UNCHANGED <<published, album>> /\ hand = {}
      BY <1>4 DEF TakeNext
    <2>2. PICK e \in offered : /\ \A f \in offered : e[1] <= f[1]
                               /\ offered' = offered \ {e} /\ hand' \in {{}, {e}}
      BY <1>4, <2>1 DEF TakeNext
    <2>3. ASSUME NEW f \in offered' PROVE e[1] < f[1]
      <3>1. e \in Events(e[1]) /\ f \in Events(f[1]) /\ e[1] \in 1..arrived /\ f[1] \in 1..arrived
        BY <2>2 DEF Types, Waiting
      <3>2. e[1] # f[1]
        BY <1>1, <2>2, <3>1, Mained
      <3> QED
        BY <2>2, <3>1, <3>2
    <2> QED
      BY <2>1, <2>2, <2>3, Same, Still DEF Queued
  <1>5. CASE Finish
    <2>1. PICK e \in hand : hand' = hand \ {e} /\ Handle(<<e[1]>>)
      BY <1>5 DEF Finish
    <2>2. UNCHANGED <<arrived, offered, album>> /\ hand' = {}
      BY <1>5, <2>1 DEF Finish, platform, Queued
    <2>3. <<e[1]>> \in Seq(1..arrived) /\ <<e[1]>> # <<>> /\ <<e[1]>>[1] = e[1]
      BY InHand
    <2>4. \A k \in DOMAIN published' : (k \in DOMAIN published /\ published'[k][1] = published[k][1]) \/ published'[k][1] = e[1]
      BY <2>1, <2>2, <2>3, Grown
    <2> QED
      BY <2>1, <2>2, <2>4, Same, Still DEF Queued
  <1>6. CASE AddPart
    <2>1. PICK e \in hand, s \in Senders :
             /\ hand' = hand \ {e} /\ album' = [album EXCEPT ![s] = Append(@, e[1])] /\ M(e[1]).album
      BY <1>6, InHand DEF AddPart, Message
    <2>2. UNCHANGED <<arrived, offered, published>> /\ hand' = {}
      BY <1>6, <2>1 DEF AddPart, platform, bus, Queued
    <2>3. e[1] \in 1..arrived /\ album[s] \in Seq(1..arrived) /\ album \in [Senders -> Seq(1..arrived)]
      BY InHand DEF Types, Waiting
    <2>4. Parts' = Parts \cup {e[1]}
      <3>1. Range(album'[s]) = Range(album[s]) \cup {e[1]} /\ \A r \in Senders : r # s => album'[r] = album[r]
        BY <2>1, <2>3, RangeAppended
      <3> QED
        BY <3>1 DEF Parts
    <2> QED
      BY <2>1, <2>2, <2>4, Same DEF Queued
  <1>7. CASE FlushAlbum
    <2>1. PICK s \in Senders : album[s] # <<>> /\ Handle(album[s]) /\ album' = [album EXCEPT ![s] = <<>>]
      BY <1>7 DEF FlushAlbum
    <2>2. UNCHANGED <<arrived, offered, hand>>
      BY <1>7 DEF FlushAlbum, platform
    <2>3. /\ album[s] \in Seq(1..arrived) /\ album \in [Senders -> Seq(1..arrived)] /\ Range(<<>>) = {}
          /\ album[s][1] \in Parts
      BY <2>1, InParts DEF Types, Waiting, Range
    <2>4. \A k \in DOMAIN published' : (k \in DOMAIN published /\ published'[k][1] = published[k][1])
                                       \/ published'[k][1] = album[s][1]
      BY <2>1, <2>2, <2>3, Grown
    <2>5. Parts' \subseteq Parts
      BY <2>1, <2>3 DEF Parts
    <2> QED
      BY <2>2, <2>3, <2>4, <2>5, Same DEF Queued
  <1> QED
    BY <1>1, <1>2, <1>3, <1>4, <1>5, <1>6, <1>7
       DEF Next, Redeliver, Status, TakeSlack, TakeBridged, Search, FetchOne, FetchFail, Deliver, Is

\* A fetch that loses its mails is still in order.
LEMMA InTurnLess ==
  ASSUME InTurn, UNCHANGED <<setup, arrived, seen, unmarked, published>>, got' \in {got, <<>>}, todo' \in {todo, {}},
         forgotten \subseteq forgotten', again \subseteq again', uids \cup forgotten \subseteq uids' \cup forgotten'
  PROVE  InTurn'
  <1>1. Range(<<>>) = {} /\ DOMAIN <<>> = {}
    BY DEF Range
  <1>2. Kept' \subseteq Kept
    BY <1>1 DEF Kept
  <1>3. Touched \subseteq Touched'
    BY DEF Touched
  <1> QED
    BY <1>1, <1>2, <1>3, Same DEF InTurn

\* Every step keeps mails in the order of the mailbox.
LEMMA InTurnKept == Types /\ Places /\ InTurn /\ [Next]_vars => InTurn'
  <1> SUFFICES ASSUME Types, Places, InTurn, [Next]_vars PROVE InTurn'
    OBVIOUS
  <1>0. UNCHANGED setup
    BY SetupStays
  <1> SUFFICES ASSUME Is("email") PROVE InTurn'
    BY <1>0, Same DEF InTurn
  <1> USE <1>0
  <1>1. /\ setup.kind = "email" /\ hand = {} /\ offered = {} /\ album = [s \in Senders |-> <<>>] /\ arrived \in Nat
        /\ got \in Seq(1..arrived) /\ todo \subseteq 1..arrived
    BY Mails DEF Is, Places, Types, Fetching
  <1>2. CASE UNCHANGED vars \/ Connect \/ Reload \/ Send \/ Halt \/ FetchFail
    <2>1. UNCHANGED <<arrived, seen, unmarked, published, again>> /\ got' \in {got, <<>>} /\ todo' \in {todo, {}}
      BY <1>2 DEF vars, Connect, Reload, Send, Halt, FetchFail, platform, bus, mailbox
    <2>2. forgotten \subseteq forgotten' /\ uids \cup forgotten \subseteq uids' \cup forgotten'
      BY <1>2 DEF vars, Connect, Reload, Send, Halt, FetchFail, Remember, mailbox
    <2> QED
      BY <2>1, <2>2, InTurnLess
  <1>3. CASE Arrive
    <2>1. UNCHANGED <<seen, unmarked, published, again, got, todo, uids, forgotten>> /\ arrived' = arrived + 1
      BY <1>1, <1>3 DEF Arrive, bus, mailbox, Is
    <2>2. Touched' = Touched /\ Kept' = Kept
      BY <2>1 DEF Touched, Kept
    <2>3. Kept \subseteq 1..arrived
      <3>1. Range(got) \subseteq 1..arrived
        BY <1>1, RangeIn
      <3> QED
        BY <3>1, Heads DEF Kept
    <2>4. \A j \in 1..arrived, i \in 1..arrived' : i < j => i \in 1..arrived
      BY <1>1, <2>1
    <2> QED
      BY <1>1, <2>1, <2>2, <2>3, <2>4, Same DEF InTurn
  <1>4. CASE Search
    <2>1. UNCHANGED <<arrived, seen, unmarked, published, again, got, uids, forgotten>> /\ todo' = 1..arrived \ seen
      BY <1>4 DEF Search, platform, bus
    <2>2. Touched' = Touched /\ Kept' = Kept
      BY <2>1 DEF Touched, Kept
    <2> QED
      BY <2>1, <2>2, Same DEF InTurn
  <1>5. CASE FetchOne
    <2>1. UNCHANGED <<arrived, published>>
      BY <1>5 DEF FetchOne, bus
    <2>2. PICK i \in todo : /\ NextMail(i) /\ todo' = todo \ {i} /\ again \subseteq again'
                            /\ \/ (i \in again' \/ i \in uids) /\ UNCHANGED <<got, uids, forgotten, seen, unmarked>>
                               \/ /\ i \notin uids /\ got' = Append(got, i) /\ Remember(i)
                                  /\ seen' \in {seen, seen \cup {i}}
      BY <1>5 DEF FetchOne, MarkSeen
    <2>3. i \in 1..arrived
      BY <1>1
    <2>4. /\ forgotten \subseteq forgotten' /\ uids \cup forgotten \subseteq uids' \cup forgotten'
          /\ Touched \cup {i} \subseteq Touched'
      BY <2>2 DEF Remember, Touched
    <2>5. \A j \in todo', n \in 1..arrived : n < j => n \in todo' \cup Touched'
      BY <2>2, <2>4 DEF InTurn
    <2>6. \A n \in 1..arrived : n < i => n \in Touched'
      <3>1. \A n \in 1..arrived : n < i => n \notin todo
        BY <1>1, <2>2, <2>3 DEF NextMail
      <3> QED
        BY <2>4, <3>1 DEF InTurn
    <2>7. CASE UNCHANGED <<got, uids, forgotten, seen, unmarked>>
      <3>1. Kept' = Kept
        BY <2>1, <2>7 DEF Kept
      <3> QED
        BY <2>1, <2>2, <2>4, <2>5, <2>7, <3>1, Same DEF InTurn
    <2>8. CASE i \notin uids /\ got' = Append(got, i) /\ Remember(i) /\ seen' \in {seen, seen \cup {i}}
      <3>1. /\ DOMAIN got' = DOMAIN got \cup {Len(got) + 1} /\ \A n \in DOMAIN got : got'[n] = got[n] /\ n < Len(got) + 1
            /\ got'[Len(got) + 1] = i /\ Len(got) \in Nat
        BY <1>1, <2>3, <2>8, Appended
      <3>2. DOMAIN got \subseteq Nat
        BY <1>1, LenProperties
      <3>3. Range(got') = Range(got) \cup {i}
        BY <1>1, <2>3, <2>8, RangeAppended
      <3>4. Kept' = Kept \cup {i}
        BY <2>1, <3>3 DEF Kept
      <3>5. i \in uids' \cup forgotten'
        BY <2>3, <2>8, Remembering
      <3>6. i \in forgotten' \cup again' \/ \A j \in Kept : j < i
        <4>1. SUFFICES ASSUME i \notin forgotten' \cup again', NEW j \in Kept, ~(j < i) PROVE FALSE
          OBVIOUS
        <4>2. j \in uids \cup forgotten /\ i \notin Touched
          BY <2>2, <2>4, <2>8, <4>1 DEF InTurn, Touched
        <4>3. j # i
          BY <4>2 DEF Touched
        <4>4. j \in 1..arrived
          BY <4>2 DEF Types, Memory, Fates
        <4>5. i < j
          BY <2>3, <4>1, <4>3, <4>4
        <4> QED
          BY <2>3, <4>1, <4>2, <4>5 DEF InTurn
      <3>7. \A k \in DOMAIN published : published[k][1] \in Kept
        BY DEF Kept
      <3>8. \A n \in DOMAIN got : got[n] \in Kept
        BY DEF Kept, Range
      <3>9. \A a, b \in DOMAIN got' : a < b => got'[a] < got'[b] \/ got'[b] \in forgotten' \cup again'
        <4>1. SUFFICES ASSUME NEW a \in DOMAIN got', NEW b \in DOMAIN got', a < b
                       PROVE  got'[a] < got'[b] \/ got'[b] \in forgotten' \cup again'
          OBVIOUS
        <4>2. a \in DOMAIN got
          BY <3>1, <3>2, <4>1
        <4>3. CASE b \in DOMAIN got
          BY <2>2, <2>4, <3>1, <4>1, <4>2, <4>3 DEF InTurn
        <4>4. CASE b = Len(got) + 1
          BY <3>1, <3>6, <3>8, <4>2, <4>4
        <4> QED
          BY <3>1, <4>3, <4>4
      <3>10. \A k \in DOMAIN published, b \in DOMAIN got' :
               published[k][1] < got'[b] \/ got'[b] \in forgotten' \cup again'
        BY <2>2, <2>4, <3>1, <3>6, <3>7 DEF InTurn
      <3>11. seen' \subseteq Touched' /\ Kept' \subseteq uids' \cup forgotten'
        BY <2>4, <2>8, <3>4, <3>5 DEF InTurn
      <3>12. \A j \in Kept', n \in 1..arrived : n < j => n \in Touched'
        BY <2>4, <2>6, <3>4 DEF InTurn
      <3> QED
        BY <2>1, <2>5, <3>9, <3>10, <3>11, <3>12 DEF InTurn
    <2> QED
      BY <2>2, <2>7, <2>8
  <1>6. CASE Deliver
    <2>1. /\ UNCHANGED <<arrived, seen, unmarked, again, todo, uids, forgotten>>
          /\ got # <<>> /\ got' = Tail(got) /\ Handle(<<got[1]>>)
      BY <1>6 DEF Deliver, platform
    <2>2. /\ got[1] \in 1..arrived /\ 1 \in DOMAIN got
          /\ \A n \in DOMAIN got' : n + 1 \in DOMAIN got /\ n \in Nat /\ n > 0 /\ got'[n] = got[n + 1]
      BY <1>1, <2>1, Rest
    <2>3. Range(got) = {got[1]} \cup Range(got')
      BY <1>1, <2>1, RangeTail
    <2>4. <<got[1]>> \in Seq(1..arrived) /\ <<got[1]>> # <<>> /\ <<got[1]>>[1] = got[1]
      BY <2>2
    <2>5. \A k \in DOMAIN published' : (k \in DOMAIN published /\ published'[k][1] = published[k][1]) \/ published'[k][1] = got[1]
      BY <2>1, <2>4, Grown
    <2>6. Kept' \subseteq Kept /\ Touched' = Touched
      BY <2>1, <2>3, <2>5 DEF Kept, Touched
    <2>7. \A a, b \in DOMAIN got' : a < b => got'[a] < got'[b] \/ got'[b] \in forgotten' \cup again'
      BY <2>1, <2>2 DEF InTurn
    <2>8. \A b \in DOMAIN got' : got[1] < got'[b] \/ got'[b] \in forgotten' \cup again'
      BY <2>1, <2>2 DEF InTurn
    <2>9. \A k \in DOMAIN published, b \in DOMAIN got' :
            published[k][1] < got'[b] \/ got'[b] \in forgotten' \cup again'
      BY <2>1, <2>2 DEF InTurn
    <2>10. \A k \in DOMAIN published', b \in DOMAIN got' :
            published'[k][1] < got'[b] \/ got'[b] \in forgotten' \cup again'
      BY <2>5, <2>8, <2>9
    <2> QED
      BY <2>1, <2>6, <2>7, <2>10 DEF InTurn
  <1>7. ~FlushAlbum
    BY <1>1 DEF FlushAlbum
  <1> QED
    BY <1>1, <1>2, <1>3, <1>4, <1>5, <1>6, <1>7
       DEF Next, Redeliver, Disconnect, Reconnects, Status, TakeNext, TakeSlack, Finish, AddPart, TakeBridged, Is

\* Every step keeps the order on the bus.
LEMMA InOrderKept == Types /\ Places /\ Queued /\ InTurn /\ InOrder /\ [Next]_vars => InOrder'
  <1> SUFFICES ASSUME Types, Places, Queued, InTurn, InOrder, [Next]_vars PROVE InOrder'
    OBVIOUS
  <1>1. UNCHANGED setup /\ forgotten \subseteq forgotten' /\ again \subseteq again'
    BY DEF Next, vars, Arrive, Redeliver, Connect, Disconnect, Status, Halt, Reload, TakeNext, TakeSlack,
           Finish, AddPart, FlushAlbum, TakeBridged, Search, FetchOne, FetchFail, Deliver, Send, Remember
  <1>2. CASE UNCHANGED published
    BY <1>1, <1>2, Same DEF InOrder
  <1>3. ASSUME NEW is \in Seq(1..arrived), is # <<>>, Handle(is), UNCHANGED arrived,
               setup.kind \in {"telegram", "discord", "email"} =>
                 \A k \in DOMAIN published : \/ published[k][1] < is[1] \/ M(is[1]).album
                                             \/ is[1] \in forgotten \cup again
        PROVE  InOrder'
    <2>1. CASE UNCHANGED published
      BY <1>2, <2>1
    <2>2. CASE /\ DOMAIN published' = DOMAIN published \cup {Len(published) + 1}
               /\ published'[Len(published) + 1] = is
               /\ \A k \in DOMAIN published : published'[k] = published[k] /\ k < Len(published) + 1
      <3>1. DOMAIN published \subseteq Nat /\ Len(published) \in Nat
        BY LenProperties DEF Types, OnBus
      <3>2. SUFFICES ASSUME setup.kind \in {"telegram", "discord", "email"}, NEW k \in DOMAIN published',
                            NEW l \in DOMAIN published', k < l
                     PROVE  \/ published'[k][1] < published'[l][1] \/ M(published'[l][1]).album
                            \/ published'[l][1] \in forgotten \cup again
        BY <1>1 DEF InOrder, M
      <3>3. k \in DOMAIN published
        BY <2>2, <3>1, <3>2
      <3>4. CASE l \in DOMAIN published
        BY <2>2, <3>2, <3>3, <3>4 DEF InOrder
      <3>5. CASE l = Len(published) + 1
        BY <1>3, <2>2, <3>2, <3>3, <3>5
      <3> QED
        BY <2>2, <3>4, <3>5
    <2> QED
      BY <1>1, <1>3, <2>1, <2>2, Grown
  <1>4. CASE Finish
    <2>1. PICK e \in hand : Handle(<<e[1]>>)
      BY <1>4 DEF Finish
    <2>2. <<e[1]>> \in Seq(1..arrived) /\ <<e[1]>> # <<>> /\ <<e[1]>>[1] = e[1]
      BY InHand
    <2>3. setup.kind \in {"telegram", "discord", "email"} => \A k \in DOMAIN published : published[k][1] < e[1]
      <3>1. hand # {}
        OBVIOUS
      <3> QED
        BY <3>1 DEF Queued, Places
    <2>4. UNCHANGED arrived
      BY <1>4 DEF Finish, platform
    <2> QED
      BY <1>3, <2>1, <2>2, <2>3, <2>4
  <1>5. CASE FlushAlbum
    <2>1. PICK s \in Senders : album[s] # <<>> /\ Handle(album[s])
      BY <1>5 DEF FlushAlbum
    <2>2. album[s] \in Seq(1..arrived) /\ album[s][1] \in Parts
      BY <2>1, InParts DEF Types, Waiting
    <2>3. setup.kind = "telegram"
      BY <2>1 DEF Places, Is
    <2>4. UNCHANGED arrived
      BY <1>5 DEF FlushAlbum, platform
    <2> QED
      BY <1>3, <2>1, <2>2, <2>3, <2>4 DEF Queued
  <1>6. CASE TakeBridged
    <2>1. UNCHANGED published \/ \E e \in offered : Handle(<<e[1]>>)
      BY <1>6 DEF TakeBridged, bus
    <2>2. setup.kind = "whatsapp" /\ UNCHANGED arrived
      BY <1>6 DEF TakeBridged, Is
    <2>3. \A e \in offered : <<e[1]>> \in Seq(1..arrived) /\ <<e[1]>> # <<>>
      BY InHand
    <2> QED
      BY <1>2, <1>3, <2>1, <2>2, <2>3
  <1>7. CASE Deliver
    <2>1. got # <<>> /\ Handle(<<got[1]>>) /\ UNCHANGED arrived
      BY <1>7 DEF Deliver, platform
    <2>2. got \in Seq(1..arrived)
      BY DEF Types, Fetching
    <2>3. got[1] \in 1..arrived /\ 1 \in DOMAIN got
      BY <2>1, <2>2, Rest
    <2>4. <<got[1]>> \in Seq(1..arrived) /\ <<got[1]>> # <<>> /\ <<got[1]>>[1] = got[1]
      BY <2>3
    <2>5. Is("email")
      BY <2>1 DEF Places
    <2>6. \A k \in DOMAIN published : published[k][1] < got[1] \/ got[1] \in forgotten \cup again
      BY <2>3, <2>5 DEF InTurn
    <2> QED
      BY <1>3, <2>1, <2>4, <2>6
  <1>8. CASE \/ UNCHANGED vars \/ Arrive \/ Redeliver \/ Connect \/ Disconnect \/ Status \/ Halt \/ Reload
             \/ TakeNext \/ TakeSlack \/ AddPart \/ Search \/ FetchOne \/ FetchFail \/ Send
    BY <1>2, <1>8 DEF vars, Arrive, Redeliver, Connect, Disconnect, Status, Halt, Reload, TakeNext, TakeSlack,
           AddPart, Search, FetchOne, FetchFail, Send, bus
  <1> QED
    BY <1>4, <1>5, <1>6, <1>7, <1>8 DEF Next

----------------------------------------------------------------------------
\* What holds at every moment of a channel.
ChatIInv ==
    /\ Types /\ Places /\ TypingHasReason /\ Reckoned /\ Single /\ Guarded
    /\ Queued /\ InTurn /\ InOrder

\* The first half of the invariant holds at first.
LEMMA InitParts == Init => Types /\ Places /\ TypingHasReason /\ Reckoned
  <1> SUFFICES ASSUME Init PROVE Types /\ Places /\ TypingHasReason /\ Reckoned
    OBVIOUS
  <1>1. Types
    BY InitTypes, ChannelsAssumption
  <1>2. Range(<<>>) = {} /\ DOMAIN <<>> = {} /\ 1..0 = {}
    BY DEF Range
  <1>3. Parts = {}
    BY <1>2 DEF Init, Parts
  <1>4. Places
    BY <1>2, <1>3 DEF Init, Places
  <1>5. TypingHasReason
    BY DEF Init, TypingHasReason
  <1>6. Reckoned
    BY <1>2 DEF Init, Reckoned
  <1> QED
    BY <1>1, <1>4, <1>5, <1>6

\* The second half of it holds at first.
LEMMA InitOrders == Init => Single /\ Guarded /\ Queued /\ InTurn /\ InOrder
  <1> SUFFICES ASSUME Init PROVE Single /\ Guarded /\ Queued /\ InTurn /\ InOrder
    OBVIOUS
  <1>1. Range(<<>>) = {} /\ DOMAIN <<>> = {} /\ 1..0 = {}
    BY DEF Range
  <1>2. Parts = {}
    BY <1>1 DEF Init, Parts
  <1>3. Single
    BY <1>1 DEF Init, Single
  <1>4. Guarded
    BY <1>1 DEF Init, Guarded
  <1>5. Queued
    BY <1>1, <1>2 DEF Init, Queued
  <1>6. InTurn
    BY <1>1 DEF Init, InTurn, Kept
  <1>7. InOrder
    BY <1>1 DEF Init, InOrder
  <1> QED
    BY <1>3, <1>4, <1>5, <1>6, <1>7

\* A channel keeps its invariant.
LEMMA ChatInvariance == Spec => []ChatIInv
  <1>1. Init => ChatIInv
    BY InitParts, InitOrders DEF ChatIInv
  <1>2. ChatIInv /\ [Next]_vars => ChatIInv'
    <2>1. ChatIInv /\ [Next]_vars => Types' /\ Places' /\ TypingHasReason' /\ Reckoned'
      BY NextTypes, PlacesKept, TypingKept, ReckonedKept DEF ChatIInv
    <2>2. ChatIInv /\ [Next]_vars => Single' /\ Guarded' /\ Queued' /\ InTurn' /\ InOrder'
      BY SingleKept, QueuedKept, InTurnKept, InOrderKept DEF ChatIInv
    <2> QED
      BY <2>1, <2>2 DEF ChatIInv
  <1> QED
    BY <1>1, <1>2, PTL DEF Spec

\* What a channel holds always names messages that were sent, and its memories of ids keep to
\* their bounds, whatever the platform repeats and wherever the process ends.
THEOREM ChatTypeCorrect == Spec => []TypeOK
  <1>1. ChatIInv => TypeOK
    BY TypesTypeOK DEF ChatIInv
  <1> QED
    BY <1>1, ChatInvariance, PTL

\* A message reaches the bus at most once, in one turn or in one album, but for the known
\* exceptions: WhatsApp and unmarked mails whose id was forgotten, and Slack's repeats.
THEOREM TurnsOnce == Spec => []AtMostOnce
  <1>1. ChatIInv => AtMostOnce
    BY SingleAtMostOnce DEF ChatIInv
  <1> QED
    BY <1>1, ChatInvariance, PTL

\* Every message that was sent waits somewhere, was published, refused or passed over, or was
\* lost with the link, the process or a failed fetch.
THEOREM NothingDisappears == Spec => []Accounted
  <1>1. ChatIInv => Accounted
    BY ReckonedAccounted DEF ChatIInv
  <1> QED
    BY <1>1, ChatInvariance, PTL

\* A chat shows the bot as typing only while one of its turns is unanswered or one of its albums
\* waits, or for a message that was refused after the typing had started.
THEOREM TypingIsJustified == Spec => []TypingHasReason
  <1>1. ChatIInv => TypingHasReason
    BY DEF ChatIInv
  <1> QED
    BY <1>1, ChatInvariance, PTL

\* Telegram, Discord and email publish in the order the platform delivers, albums and the mails
\* that were forgotten or passed over excepted.
THEOREM FirstInOrder == Spec => []InOrder
  <1>1. ChatIInv => InOrder
    BY DEF ChatIInv
  <1> QED
    BY <1>1, ChatInvariance, PTL

----------------------------------------------------------------------------
USE NobodyAssumption

\* What a turn said to its own chat does not change with what others do.
LEMMA OthersToldSame ==
    ASSUME NEW t \in Turns, NEW r \in Turns, r # t, turn'[r] = turn[r],
           \/ effects' = effects
           \/ \E c, way, x : effects' = effects \cup {Effect(t, c, way, x)}
    PROVE  \A text : Told(r, text)' <=> Told(r, text)
<1> SUFFICES ASSUME NEW text, NEW way PROVE
      (Effect(r, turn[r].chat, way, text) \in effects') <=> (Effect(r, turn[r].chat, way, text) \in effects)
  BY DEF Told, Effect
<1> QED
  BY DEF Effect

\* Nothing said, nothing changed.
LEMMA QuietToldSame ==
    ASSUME NEW r \in Turns, turn'[r].chat = turn[r].chat, effects' = effects
    PROVE  \A text : Told(r, text)' <=> Told(r, text)
BY DEF Told, Effect

\* What a turn told its chat is only ever added to.
LEMMA ToldGrows ==
    ASSUME NEW r \in Turns, turn'[r].chat = turn[r].chat, effects \subseteq effects'
    PROVE  \A text : Told(r, text) => Told(r, text)'
BY DEF Told, Effect

\* The invariant of turns holds at first.
LEMMA InitTurn == TurnInit => TurnIInv
<1> SUFFICES ASSUME TurnInit PROVE TurnIInv
  OBVIOUS
<1>1. TurnTypes
  BY DEF TurnInit, TurnTypes, HolderRuns, ATurn, AnEffect, TurnKinds, LockedKinds, DirectKinds, Texts, Ways, ByContext, Running
<1>2. Begun
  BY DEF TurnInit, Begun
<1>3. Apart
  BY DEF TurnInit, Apart, Running
<1>4. OwnContext
  BY DEF TurnInit, OwnContext, Running
<1>5. OwnRecord
  BY DEF TurnInit, OwnRecord, Running, Told, Texts
<1>6. StaysHome
  BY DEF TurnInit, StaysHome, ByContext
<1>7. WithheldIsHeard
  BY DEF TurnInit, WithheldIsHeard, HeardFrom, Told
<1>8. NoSecondAnswer
  BY DEF TurnInit, NoSecondAnswer, Told
<1> QED
  BY <1>1, <1>2, <1>3, <1>4, <1>5, <1>6, <1>7, <1>8 DEF TurnIInv

----------------------------------------------------------------------------
\* A turn that begins keeps the invariant.
LEMMA BeginKeeps ==
    ASSUME TurnIInv, NEW t \in Turns, NEW k \in TurnKinds, NEW c \in Chats, Begin(t, k, c)
    PROVE  TurnIInv'
<1> USE DEF TurnIInv
<1>1. /\ t \notin Running
      /\ turn' = [turn EXCEPT ![t] = [kind |-> k, chat |-> c, stage |-> "running"]]
      /\ target' = c
      /\ effects' = effects /\ withheld' = withheld
      /\ overlapped' = overlapped \cup MeetingOf(t, k)
  BY DEF Begin, Running
<1>2. Running' = Running \cup {t} /\ turn'[t] = [kind |-> k, chat |-> c, stage |-> "running"]
  BY <1>1 DEF Running, TurnTypes, ATurn
<1>3. \A r \in Turns : r # t => turn'[r] = turn[r]
  BY <1>1 DEF TurnTypes
<1>4. \A r \in Turns : \A text : r # t => (Told(r, text)' <=> Told(r, text))
  BY <1>1, <1>3, QuietToldSame
<1>5. \A e \in effects : e.turn \in Turns /\ e.turn # t
  BY DEF Begun, TurnTypes, AnEffect, Begin
<1>6. \A text : ~Told(t, text)'
  BY <1>1, <1>5 DEF Told, Effect
<1>7. \A r \in Running : r \notin overlapped' => FALSE
  <2> SUFFICES ASSUME NEW r \in Running, r \notin MeetingOf(t, k) PROVE FALSE
    BY <1>1
  <2>1. k \in LockedKinds /\ turn[r].kind \notin DirectKinds
    BY DEF MeetingOf, TurnKinds
  <2>2. turn[r].kind \in LockedKinds
    BY <2>1 DEF TurnTypes, Running, TurnKinds
  <2>3. holder = Nobody
    BY <2>1 DEF Begin, TakeLock
  <2> QED
    BY <2>2, <2>3 DEF TurnTypes, HolderRuns
<1>8. TurnTypes'
  <2>1. turn' \in [Turns -> ATurn]
    BY <1>1 DEF TurnTypes, ATurn
  <2>2. \A r \in Turns : turn'[r].stage # "unused" => turn'[r].kind \in TurnKinds /\ turn'[r].chat \in Chats
    BY <1>2, <1>3 DEF TurnTypes
  <2>3. overlapped' \subseteq Turns
    BY <1>1 DEF MeetingOf, Running, TurnTypes
  <2>4. sentInTurn' \in BOOLEAN /\ last' \in Texts \cup {Nobody} /\ holder' \in Turns \cup {Nobody}
    BY DEF Begin, StartTurn, TakeLock, tool, TurnTypes
  <2>5. HolderRuns'
    <3>1. CASE k \in LockedKinds
      BY <3>1, <1>2, <1>3, <1>1 DEF Begin, TakeLock, HolderRuns, TurnTypes, Running
    <3>2. CASE k \notin LockedKinds
      <4>1. {r \in Running : turn[r].kind \in LockedKinds}' = {r \in Running : turn[r].kind \in LockedKinds}
        BY <3>2, <1>1, <1>2, <1>3 DEF Running
      <4> QED
        BY <3>2, <4>1 DEF Begin, TakeLock, HolderRuns, TurnTypes
    <3> QED
      BY <3>1, <3>2
  <2> QED
    BY <2>1, <2>2, <2>3, <2>4, <2>5, <1>1 DEF TurnTypes
<1>9. Begun'
  BY <1>1, <1>2, <1>3, <1>5 DEF Begun, Begin, TurnTypes
<1>10. Apart' /\ OwnContext'
  <2>1. \A r, q \in Running' : r # q => r \in overlapped'
    <3> SUFFICES ASSUME NEW r \in Running', NEW q \in Running', r # q, r \notin overlapped' PROVE FALSE
      OBVIOUS
    <3>1. r = t /\ q \in Running
      BY <1>2, <1>7
    <3>2. q \in MeetingOf(t, k) \/ q \in overlapped
      BY <3>1, <1>1, <1>7
    <3>3. MeetingOf(t, k) = {}
      BY <3>1, <1>1 DEF MeetingOf
    <3> QED
      BY <3>1, <3>3, <1>2, <1>7, <1>1 DEF MeetingOf, Apart, TurnTypes, HolderRuns, Begin, TakeLock, TurnKinds, Running
  <2> QED
    BY <2>1, <1>1, <1>2, <1>7 DEF Apart, OwnContext
<1>11. OwnRecord'
  BY <1>1, <1>2, <1>6, <1>7 DEF OwnRecord, Begin, StartTurn
<1>12. StaysHome'
  BY <1>1, <1>3, <1>5 DEF StaysHome
<1>13. WithheldIsHeard'
  BY <1>1, <1>3, <1>4 DEF WithheldIsHeard, HeardFrom, Begun, Begin, TurnTypes
<1>14. NoSecondAnswer'
  <2> SUFFICES ASSUME NEW r \in Turns \ overlapped', turn'[r].kind = "user",
                      Effect(r, turn'[r].chat, "reply", "answer") \in effects', Told(r, "answer")'
               PROVE  Told(r, "progress")'
    BY DEF NoSecondAnswer
  <2> QED
    BY <1>1, <1>3, <1>4, <1>6 DEF NoSecondAnswer
<1> QED
  BY <1>8, <1>9, <1>10, <1>11, <1>12, <1>13, <1>14

\* So does one that is refused.
LEMMA RefuseKeeps ==
    ASSUME TurnIInv, NEW t \in Turns, NEW k \in TurnKinds, NEW c \in Chats, Refuse(t, k, c)
    PROVE  TurnIInv'
<1> USE DEF TurnIInv
<1> DEFINE way == IF k = "heartbeat" THEN "notify" ELSE "reply"
<1>1. /\ turn' = [turn EXCEPT ![t] = [kind |-> k, chat |-> c, stage |-> "ended"]]
      /\ UNCHANGED <<holder, target, sentInTurn, last, overlapped>>
      /\ turn[t].stage = "unused"
  BY DEF Refuse, tool
<1>2. \/ effects' = effects /\ withheld' = withheld \cup {t} /\ k # "user"
      \/ effects' = effects \cup {Effect(t, c, way, "answer")} /\ withheld' = withheld
  BY DEF Refuse, Withhold, Reply, Act, DirectKinds
<1>3. Running' = Running /\ turn'[t] = [kind |-> k, chat |-> c, stage |-> "ended"]
  BY <1>1 DEF Running, TurnTypes
<1>4. \A r \in Turns : r # t => turn'[r] = turn[r]
  BY <1>1 DEF TurnTypes
<1>5. \A r \in Turns : \A text : r # t => (Told(r, text)' <=> Told(r, text))
  BY <1>2, <1>4, OthersToldSame
<1>6. \A e \in effects : e.turn \in Turns /\ e.turn # t
  BY <1>1 DEF Begun, TurnTypes, AnEffect
<1>7. \A text : ~Told(t, text)'
  BY <1>2, <1>6 DEF Told, Effect
<1>8. TurnTypes'
  <2>1. turn' \in [Turns -> ATurn]
    BY <1>1 DEF TurnTypes, ATurn
  <2>2. \A r \in Turns : turn'[r].stage # "unused" => turn'[r].kind \in TurnKinds /\ turn'[r].chat \in Chats
    BY <1>3, <1>4 DEF TurnTypes
  <2>3. effects' \subseteq AnEffect
    BY <1>2 DEF TurnTypes, AnEffect, Effect, Ways, Texts
  <2>4. HolderRuns'
    BY <1>1, <1>3, <1>4 DEF TurnTypes, HolderRuns, Running
  <2> QED
    BY <2>1, <2>2, <2>3, <2>4, <1>1, <1>2 DEF TurnTypes
<1>9. Begun'
  BY <1>2, <1>3, <1>4, <1>6 DEF Begun, Effect, TurnTypes
<1>10. Apart' /\ OwnContext'
  BY <1>1, <1>3, <1>4 DEF Apart, OwnContext, Running
<1>11. OwnRecord'
  BY <1>1, <1>3, <1>4, <1>5 DEF OwnRecord, Running
<1>12. StaysHome'
  BY <1>1, <1>2, <1>4, <1>6 DEF StaysHome, Effect, ByContext
<1>13. WithheldIsHeard'
  <2> SUFFICES ASSUME NEW r \in withheld' \ overlapped', turn'[r].kind = "user"
               PROVE  HeardFrom(r)'
    BY DEF WithheldIsHeard
  <2>1. r # t /\ r \in withheld
    BY <1>1, <1>2, <1>3 DEF Begun
  <2> QED
    BY <2>1, <1>1, <1>4, <1>5 DEF WithheldIsHeard, HeardFrom, TurnTypes
<1>14. NoSecondAnswer'
  <2> SUFFICES ASSUME NEW r \in Turns \ overlapped', turn'[r].kind = "user",
                      Effect(r, turn'[r].chat, "reply", "answer") \in effects', Told(r, "answer")'
               PROVE  Told(r, "progress")'
    BY DEF NoSecondAnswer
  <2>1. r # t
    BY <1>7
  <2>2. Effect(r, turn[r].chat, "reply", "answer") \in effects
    BY <2>1, <1>2, <1>4 DEF Effect
  <2> QED
    BY <2>1, <2>2, <1>1, <1>4, <1>5 DEF NoSecondAnswer
<1> QED
  BY <1>8, <1>9, <1>10, <1>11, <1>12, <1>13, <1>14

\* The calls of tools: what they have in common, and what the message tool notes.
LEMMA CallKeeps ==
    ASSUME TurnIInv, NEW t \in Running, NEW to \in Chats, NEW way \in ByContext \cup {"explicit"},
           NEW text \in Texts \cup {Nobody},
           Act(t, to, way, text), way # "explicit" => to = target,
           way \in {"tool", "explicit"} => text \in Texts,
           IF way \in {"tool", "explicit"} /\ to = target THEN sentInTurn' = TRUE /\ last' = text ELSE UNCHANGED tool,
           UNCHANGED <<turn, holder, target, withheld, overlapped>>
    PROVE  TurnIInv'
<1> USE DEF TurnIInv
<1>1. effects' = effects \cup {Effect(t, to, way, text)} /\ t \in Turns
  BY DEF Act, Running
<1>2. Running' = Running
  BY DEF Running
<1>3. \A r \in Turns : \A x : r # t => (Told(r, x)' <=> Told(r, x))
  BY <1>1, OthersToldSame
<1>4. \A x : Told(t, x) => Told(t, x)'
  BY <1>1, ToldGrows
<1>5. TurnTypes'
  <2>1. effects' \subseteq AnEffect
    BY <1>1 DEF TurnTypes, AnEffect, Effect, Ways
  <2>2. sentInTurn' \in BOOLEAN /\ last' \in Texts \cup {Nobody}
    BY DEF TurnTypes, tool
  <2>3. HolderRuns'
    BY <1>2 DEF TurnTypes, HolderRuns
  <2> QED
    BY <2>1, <2>2, <2>3 DEF TurnTypes
<1>6. Begun'
  BY <1>1 DEF Begun, Effect, ByContext, Running
<1>7. Apart' /\ OwnContext'
  BY <1>2 DEF Apart, OwnContext
<1>8. OwnRecord'
  <2> SUFFICES ASSUME NEW r \in Running \ overlapped, turn[r].kind = "user"
               PROVE  /\ sentInTurn' => last' \in Texts /\ Told(r, last)'
                      /\ Told(r, "answer")' => sentInTurn'
    BY <1>2 DEF OwnRecord
  <2>1. r = t
    BY DEF Apart
  <2>2. target = turn[t].chat
    BY <2>1 DEF OwnContext
  <2>3. CASE way \in {"tool", "explicit"} /\ to = target
    BY <2>1, <2>2, <2>3, <1>1 DEF Told
  <2>4. CASE ~(way \in {"tool", "explicit"} /\ to = target)
    <3>1. Told(t, "answer")' => Told(t, "answer")
      BY <2>2, <2>4, <1>1 DEF Told, Effect
    <3> QED
      BY <2>1, <2>4, <3>1, <1>4 DEF OwnRecord, tool
  <2> QED
    BY <2>3, <2>4
<1>9. StaysHome'
  BY <1>1 DEF StaysHome, OwnContext, Effect, ByContext
<1>10. WithheldIsHeard'
  BY <1>1, <1>3, <1>4 DEF WithheldIsHeard, HeardFrom, TurnTypes
<1>11. NoSecondAnswer'
  <2> SUFFICES ASSUME NEW r \in Turns \ overlapped, turn[r].kind = "user",
                      Effect(r, turn[r].chat, "reply", "answer") \in effects', Told(r, "answer")'
               PROVE  Told(r, "progress")'
    BY DEF NoSecondAnswer
  <2>1. Effect(r, turn[r].chat, "reply", "answer") \in effects
    BY <1>1 DEF Effect, ByContext
  <2>2. turn[r].stage = "ended"
    BY <2>1 DEF Begun, Effect
  <2>3. r # t
    BY <2>2 DEF Running
  <2> QED
    BY <2>1, <2>3, <1>3 DEF NoSecondAnswer
<1> QED
  BY <1>5, <1>6, <1>7, <1>8, <1>9, <1>10, <1>11

\* The ends of turns: what they have in common.  A user turn withholds its reply
\* only after it sent something, and replies only if its last message was no answer.
LEMMA EndKeeps ==
    ASSUME TurnIInv, NEW t \in Running, EndTurn(t), UNCHANGED <<target, tool, overlapped>>,
           \/ effects' = effects /\ withheld' = withheld
           \/ Withhold(t) /\ (turn[t].kind = "user" => sentInTurn)
           \/ \E to \in Chats, way \in {"reply", "notify", "error"}, text \in Texts \cup {Nobody} :
                /\ Act(t, to, way, text) /\ withheld' = withheld
                /\ turn[t].kind = "user" /\ way = "reply" => (sentInTurn => last # "answer")
    PROVE  TurnIInv'
<1> USE DEF TurnIInv
<1>1. /\ t \in Turns
      /\ turn' = [turn EXCEPT ![t].stage = "ended"]
      /\ holder' = IF holder = t THEN Nobody ELSE holder
      /\ UNCHANGED <<target, sentInTurn, last, overlapped>>
  BY DEF Running, EndTurn, Release, tool
<1>2. Running' = Running \ {t} /\ turn'[t].stage = "ended"
  BY <1>1 DEF Running, TurnTypes, ATurn
<1>3. \A r \in Turns : /\ r # t => turn'[r] = turn[r]
                       /\ turn'[r].kind = turn[r].kind /\ turn'[r].chat = turn[r].chat
  BY <1>1 DEF TurnTypes, ATurn
<1>4. \/ effects' = effects
      \/ \E to \in Chats, way \in {"reply", "notify", "error"}, text \in Texts \cup {Nobody} :
           effects' = effects \cup {Effect(t, to, way, text)}
  BY DEF Withhold, Act
<1>5. \A r \in Turns : \A x : Told(r, x)' <=> Told(r, x)
  <2> SUFFICES ASSUME NEW r \in Turns, NEW x, NEW w \in {"tool", "explicit"}
               PROVE  (Effect(r, turn[r].chat, w, x) \in effects') <=> (Effect(r, turn[r].chat, w, x) \in effects)
    BY <1>3 DEF Told
  <2> QED
    BY <1>4 DEF Effect
<1>6. withheld' = withheld \/ (withheld' = withheld \cup {t} /\ (turn[t].kind = "user" => sentInTurn))
  BY DEF Withhold
<1>7. TurnTypes'
  <2>1. turn' \in [Turns -> ATurn]
    BY <1>1 DEF TurnTypes, ATurn
  <2>2. \A r \in Turns : turn'[r].stage # "unused" => turn'[r].kind \in TurnKinds /\ turn'[r].chat \in Chats
    BY <1>3 DEF TurnTypes, Running
  <2>3. effects' \subseteq AnEffect
    BY <1>1, <1>4 DEF TurnTypes, AnEffect, Effect, Ways
  <2>4. HolderRuns'
    BY <1>1, <1>2, <1>3 DEF TurnTypes, HolderRuns, Running
  <2> QED
    BY <2>1, <2>2, <2>3, <2>4, <1>1, <1>6 DEF TurnTypes
<1>8. Begun'
  <2>1. \A r \in Turns : /\ turn[r].stage # "unused" => turn'[r].stage # "unused"
                         /\ turn[r].stage = "ended" => turn'[r].stage = "ended"
    BY <1>2, <1>3
  <2>2. \A e \in effects' : e \in effects \/ e.turn = t
    BY <1>4 DEF Effect
  <2> QED
    BY <2>1, <2>2, <1>1, <1>2, <1>6 DEF Begun, TurnTypes, AnEffect
<1>9. Apart' /\ OwnContext'
  BY <1>1, <1>2, <1>3 DEF Apart, OwnContext, Running
<1>10. OwnRecord'
  BY <1>1, <1>2, <1>3, <1>5 DEF OwnRecord, Running
<1>11. StaysHome'
  <2>1. \A e \in effects' : e \in effects \/ e.way \notin ByContext
    BY <1>4 DEF Effect, ByContext
  <2> QED
    BY <2>1, <1>1, <1>3 DEF StaysHome, TurnTypes, AnEffect
<1>12. WithheldIsHeard'
  <2> SUFFICES ASSUME NEW r \in withheld' \ overlapped', turn'[r].kind = "user"
               PROVE  HeardFrom(r)'
    BY DEF WithheldIsHeard
  <2>1. r \in Turns /\ turn[r].kind = "user"
    BY <1>1, <1>3, <1>6 DEF TurnTypes
  <2>2. HeardFrom(r)
    BY <2>1, <1>1, <1>6 DEF WithheldIsHeard, OwnRecord, HeardFrom
  <2> QED
    BY <2>1, <2>2, <1>5 DEF HeardFrom
<1>13. NoSecondAnswer'
  <2> SUFFICES ASSUME NEW r \in Turns \ overlapped, turn[r].kind = "user",
                      Effect(r, turn[r].chat, "reply", "answer") \in effects', Told(r, "answer")
               PROVE  Told(r, "progress")
    BY <1>1, <1>3, <1>5 DEF NoSecondAnswer
  <2>1. CASE Effect(r, turn[r].chat, "reply", "answer") \in effects
    BY <2>1 DEF NoSecondAnswer
  <2>2. CASE Effect(r, turn[r].chat, "reply", "answer") \notin effects
    <3>1. r = t /\ (sentInTurn => last # "answer")
      BY <2>2 DEF Effect, Act, Withhold
    <3>2. sentInTurn /\ last \in Texts /\ Told(t, last)
      BY <3>1 DEF OwnRecord
    <3> QED
      BY <3>1, <3>2 DEF Texts
  <2> QED
    BY <2>1, <2>2
<1> QED
  BY <1>7, <1>8, <1>9, <1>10, <1>11, <1>12, <1>13

----------------------------------------------------------------------------
\* Every step keeps the invariant of turns.
LEMMA TurnKept == TurnIInv /\ [TurnNext]_turnVars => TurnIInv'
<1> SUFFICES ASSUME TurnIInv, [TurnNext]_turnVars PROVE TurnIInv'
  OBVIOUS
<1>1. CASE UNCHANGED turnVars
  BY <1>1 DEF turnVars, tool, TurnIInv, TurnTypes, HolderRuns, Begun, Apart, OwnContext, OwnRecord,
              StaysHome, WithheldIsHeard, NoSecondAnswer, HeardFrom, Told, Running
<1>2. ASSUME NEW t \in Turns, NEW k \in TurnKinds, NEW c \in Chats, Begin(t, k, c)
      PROVE  TurnIInv'
  BY <1>2, BeginKeeps
<1>3. ASSUME NEW t \in Turns, NEW k \in TurnKinds, NEW c \in Chats, Refuse(t, k, c)
      PROVE  TurnIInv'
  BY <1>3, RefuseKeeps
<1>4. ASSUME NEW t \in Turns, NEW to \in Chats \cup {Nobody}, NEW text \in Texts, Say(t, to, text)
      PROVE  TurnIInv'
  <2> DEFINE dest == IF to = Nobody THEN target ELSE to
             way == IF to = Nobody THEN "tool" ELSE "explicit"
  <2>1. t \in Running /\ dest \in Chats
    BY <1>4 DEF Say, MayCall, Running, TurnIInv, OwnContext
  <2>2. /\ Act(t, dest, way, text)
        /\ IF way \in {"tool", "explicit"} /\ dest = target THEN sentInTurn' = TRUE /\ last' = text ELSE UNCHANGED tool
        /\ UNCHANGED <<turn, holder, target, withheld, overlapped>>
    BY <1>4 DEF Say, MarkSent
  <2> QED
    BY <2>1, <2>2, CallKeeps DEF ByContext
<1>5. ASSUME NEW t \in Turns, SpawnSub(t) \/ AddJob(t)
      PROVE  TurnIInv'
  <2>1. t \in Running /\ target \in Chats
    BY <1>5 DEF SpawnSub, AddJob, MayCall, Running, TurnIInv, OwnContext
  <2>2. PICK way \in {"spawn", "job"} : Act(t, target, way, Nobody)
    BY <1>5 DEF SpawnSub, AddJob
  <2>3. UNCHANGED <<turn, holder, target, tool, withheld, overlapped>>
    BY <1>5 DEF SpawnSub, AddJob
  <2> QED
    BY <2>1, <2>2, <2>3, CallKeeps DEF ByContext
<1>6. ASSUME NEW t \in Turns, NEW same \in BOOLEAN, EndUser(t, same)
      PROVE  TurnIInv'
  <2>1. t \in Running /\ turn[t].chat \in Chats
    BY <1>6 DEF EndUser, TurnIInv, TurnTypes, Running
  <2> QED
    BY <2>1, <1>6, EndKeeps DEF EndUser, Needless, Reply, Texts
<1>7. ASSUME NEW t \in Turns, NEW same \in BOOLEAN, NEW deliver \in BOOLEAN, NEW to \in Chats \cup {Nobody},
             EndSystem(t) \/ EndCron(t, deliver) \/ EndHeartbeat(t, same, to)
      PROVE  TurnIInv'
  <2>1. t \in Running /\ turn[t].chat \in Chats /\ turn[t].kind # "user"
    BY <1>7 DEF EndSystem, EndCron, EndHeartbeat, TurnIInv, TurnTypes, Running
  <2>2. EndTurn(t) /\ UNCHANGED <<target, tool, overlapped>>
    BY <1>7 DEF EndSystem, EndCron, EndHeartbeat
  <2>3. \/ Withhold(t)
        \/ \E c \in Chats, way \in {"reply", "notify"} : Reply(t, c, way)
    BY <1>7, <2>1 DEF EndSystem, EndCron, EndHeartbeat
  <2> QED
    BY <2>1, <2>2, <2>3, EndKeeps DEF Reply, Texts
<1>8. ASSUME NEW t \in Turns, NEW told \in BOOLEAN, Abort(t, told)
      PROVE  TurnIInv'
  <2>1. t \in Running /\ turn[t].chat \in Chats
    BY <1>8 DEF Abort, TurnIInv, TurnTypes, Running
  <2> QED
    BY <2>1, <1>8, EndKeeps DEF Abort
<1> QED
  BY <1>1, <1>2, <1>3, <1>4, <1>5, <1>6, <1>7, <1>8 DEF TurnNext

----------------------------------------------------------------------------
\* Turns keep their invariant.
LEMMA TurnInvariance == TurnSpec => []TurnIInv
BY InitTurn, TurnKept, PTL DEF TurnSpec

\* The shared context keeps its shape, and the processing lock is held by the one
\* message's turn that runs (AgentLoop._dispatch).
THEOREM TurnTypeCorrect == TurnSpec => []TurnTypes
<1>1. TurnIInv => TurnTypes
  BY DEF TurnIInv
<1> QED
  BY <1>1, TurnInvariance, PTL

\* Tools that take their chat from the shared context act on the chat of the turn
\* that calls them, unless a turn outside the lock ran at the same time.
THEOREM LockProtectsContext == TurnSpec => []StaysHome
<1>1. TurnIInv => StaysHome
  BY DEF TurnIInv
<1> QED
  BY <1>1, TurnInvariance, PTL

\* A user turn whose reply is suppressed has sent its user a message, unless a
\* turn outside the lock ran at the same time.
THEOREM NobodyLeftUnheard == TurnSpec => []WithheldIsHeard
<1>1. TurnIInv => WithheldIsHeard
  BY DEF TurnIInv
<1> QED
  BY <1>1, TurnInvariance, PTL

\* A user turn that answered with the message tool does not answer again, unless
\* notes of progress were sent too or a turn outside the lock ran at the same time.
THEOREM NobodyToldTwice == TurnSpec => []NoSecondAnswer
<1>1. TurnIInv => NoSecondAnswer
  BY DEF TurnIInv
<1> QED
  BY <1>1, TurnInvariance, PTL
=============================================================================
