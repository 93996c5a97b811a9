---------------------------- MODULE MobileRelay ----------------------------
(***************************************************************************)
(* The relay between the mobile app and the gateway: files in the          *)
(* workspace that two processes share without a lock.                      *)
(*                                                                         *)
(*   inbound.jsonl       the admin server appends what devices write; the  *)
(*                       channel of the gateway reads all of it, empties   *)
(*                       it and puts the lines of allowed devices on the   *)
(*                       bus                                               *)
(*   allow_from.json     the devices allowed, which the admin server       *)
(*                       rewrites and the channel reads before each poll   *)
(*   outbound.jsonl      the channel appends replies; a device's fetch     *)
(*                       removes its lines by rewriting the file; the push *)
(*                       notifier follows it by a byte offset it persists  *)
(*   events/<d>.jsonl    the device's history, appended to by both sides;  *)
(*                       clients follow it by the id of the last event     *)
(*                                                                         *)
(* Every read, append and rewrite of a file is one action; the other       *)
(* process, and the threads of the admin server, run in between.  Items    *)
(* (messages and replies) are numbered by their time stamps.               *)
(***************************************************************************)
EXTENDS Integers, Sequences, FiniteSets, Functions

CONSTANTS
    Devices,     \* paired devices
    Subscribed,  \* devices with a push subscription
    Setups,      \* deployments: the devices whose app is open, whether push is supported, the list
                 \* of devices at first and those it may become, and bounds on items, halts of the
                 \* gateway, crashes of the admin server and changes of the list
    Fetchers,    \* threads of the admin server that serve /admin/mobile/poll
    MaxItems,    \* bound on the items ever stamped
    None

Ids == 1..MaxItems

ASSUME RelayAssumption ==
    /\ Subscribed \subseteq Devices
    /\ Setups \subseteq [open : SUBSET Devices, push : BOOLEAN, items : Ids, halts : Nat, crashes : Nat,
                        first : SUBSET Devices, lists : SUBSET SUBSET Devices, relists : Nat]
    /\ MaxItems \in Nat
    /\ None \notin Devices \cup Nat \cup Seq(Nat)

Kinds == {"message", "progress", "answer"}
Item == [device : Devices, kind : Kinds]

VARIABLES
    setup,      \* the deployment; it does not change
    items,      \* the items stamped so far; an item's id is its time stamp
    inbound, outbound, log,          \* the files
    listed,     \* allow_from.json: the devices allowed, or None while it is being written
    gate,       \* the channel: "down", "idle", "listed" (list read), "read" (lines taken, file not
                \* yet emptied), "sent"
    accepts,    \* allow_from of the channel
    polled,     \* the lines it took
    replying,   \* the reply it appended to outbound and not yet to the history
    posting,    \* messages appended to inbound and not yet to the history
    fetch,      \* per fetcher: None, or the lines it will leave in outbound
    offset,     \* _mobile_push_offsets
    saved,      \* the offset on disk
    push,       \* the notifier: "idle", "opened", "lines"
    batch,      \* the lines it has read and not yet dispatched
    view,       \* per device: None, or the history file as a request has read it
    seen,       \* per device: events its client has received
    marker,     \* per device: the last event its client received
    halts, crashes, relists,
    published,  \* history: what the channel put on the bus
    pushed,     \* history: push notifications per item
    rewritten,  \* history: outbound has lost lines to a fetch
    unheard,    \* history: messages appended while the channel is down, or between its reading
                \* and its emptying of the file; and those whose device has not been allowed all
                \* the time since
    late        \* history: items that were not in the history file yet when a newer one was stamped

files == <<inbound, outbound, log>>
gateway == <<gate, accepts, polled, replying, halts, published>>
admin == <<listed, posting, fetch, crashes, relists, rewritten, unheard>>
notifier == <<offset, saved, push, batch, pushed>>
clients == <<view, seen, marker>>
stamps == <<items, late>>
vars == <<setup, files, gateway, admin, notifier, clients, stamps>>

----------------------------------------------------------------------------
NoMarker == [id |-> 0, form |-> "none"]

DeviceOf(i) == items[i].device
Of(d, lines) == {i \in DOMAIN items : DeviceOf(i) = d /\ i \in Range(lines)}

\* The lines of the devices ds, in their order.
From(ds, lines) ==
    LET from[n \in 0..Len(lines)] ==
          IF n = 0 THEN <<>>
          ELSE IF DeviceOf(lines[n]) \notin ds THEN from[n - 1] ELSE Append(from[n - 1], lines[n])
    IN from[Len(lines)]

\* Bytes of a list of lines: those of answers are longer than the others.
Bytes(lines) == Len(lines) + Cardinality({n \in DOMAIN lines : items[lines[n]].kind = "answer"})

\* The lines read after a seek: one the offset cuts in two is no JSON and is dropped.
LinesFrom(lines, off) ==
    LET before == {n \in DOMAIN lines : Bytes(SubSeq(lines, 1, n - 1)) < off}
    IN  SubSeq(lines, Cardinality(before) + 1, Len(lines))

\* Mutant of SeekTo: the offset is moved by the bytes that have gone.
SeekTo_Back(size) == IF size < offset THEN size - offset ELSE offset

SeekTo(size) == IF size < offset THEN 0 ELSE offset

\* Events of d as get_mobile_chat_events lists them, by time stamp: those of the
\* history file, and replies still in outbound only, under another event id.
History(d, logged, out) ==
    [i \in Range(logged) \cup Of(d, out) |-> IF i \in Range(logged) THEN "log" ELSE "out"]

\* Mutant of After: when the marker is gone, only newer events are returned.
After_Newer(h, m) == {i \in DOMAIN h : i > m.id}

\* Events after the client's marker, or all if the marker is not among them.
After(h, m) ==
    IF m.id \in DOMAIN h /\ h[m.id] = m.form THEN {i \in DOMAIN h : i > m.id} ELSE DOMAIN h

Unlogged(d) == {i \in DOMAIN items : DeviceOf(i) = d /\ i \notin Range(log[d])}

Stamp(d, k) ==
    /\ Len(items) < setup.items
    /\ items' = Append(items, [device |-> d, kind |-> k])
    /\ late' = late \cup Unlogged(d)

NewId == Len(items) + 1

\* The devices the channel would let in at its next look at the file: it takes the list first,
\* and keeps the one it has when that cannot be read.
Welcome == IF gate \in {"listed", "read"} \/ listed = None THEN accepts ELSE listed

Init ==
    /\ setup \in Setups
    /\ items = <<>> /\ late = {}
    /\ listed = setup.first /\ accepts = {} /\ relists = 0
    /\ inbound = <<>> /\ outbound = <<>> /\ log = [d \in Devices |-> <<>>]
    /\ gate = "down" /\ polled = <<>> /\ replying = None /\ published = <<>>
    /\ posting = {} /\ fetch = [f \in Fetchers |-> None] /\ rewritten = FALSE /\ unheard = {}
    /\ offset = 0 /\ saved = 0 /\ push = "idle" /\ batch = <<>> /\ pushed = [i \in Ids |-> 0]
    /\ view = [d \in Devices |-> None] /\ seen = [d \in Devices |-> {}]
    /\ marker = [d \in Devices |-> NoMarker]
    /\ halts = 0 /\ crashes = 0

----------------------------------------------------------------------------
\* The channel in the gateway.

Start ==
    /\ gate = "down" /\ gate' = "idle"
    /\ inbound' = <<>> /\ accepts' \in setup.lists
    /\ UNCHANGED <<outbound, log, polled, replying, halts, published>>

PollList ==
    /\ gate = "idle" /\ inbound # <<>>
    /\ gate' = "listed" /\ accepts' = Welcome
    /\ UNCHANGED <<files, polled, replying, halts, published>>

PollRead ==
    /\ gate = "listed"
    /\ gate' = "read" /\ polled' = inbound
    /\ UNCHANGED <<files, accepts, replying, halts, published>>

\* Mutants of PollClear: only the first line is handled; the file is not emptied.
PollClear_First ==
    /\ gate = "read" /\ gate' = "idle"
    /\ inbound' = <<>> /\ polled' = <<>>
    /\ published' = published \o From(accepts, <<Head(polled)>>)
    /\ UNCHANGED <<outbound, log, accepts, replying, halts>>
PollClear_Keep ==
    /\ gate = "read" /\ gate' = "idle"
    /\ polled' = <<>>
    /\ published' = published \o From(accepts, polled)
    /\ UNCHANGED <<files, accepts, replying, halts>>

\* The file is emptied, whatever it holds by now, and the lines go to _handle_message, which
\* puts those of allowed devices on the bus.
PollClear ==
    /\ gate = "read" /\ gate' = "idle"
    /\ inbound' = <<>> /\ polled' = <<>>
    /\ published' = published \o From(accepts, polled)
    /\ UNCHANGED <<outbound, log, accepts, replying, halts>>

\* send: the reply is appended to the relay file, then to the device's history.
SendOut(d, k) ==
    /\ gate = "idle" /\ gate' = "sent"
    /\ Stamp(d, k)
    /\ outbound' = Append(outbound, NewId) /\ replying' = NewId
    /\ UNCHANGED <<inbound, log, accepts, polled, halts, published>>

SendLog ==
    /\ gate = "sent" /\ gate' = "idle"
    /\ log' = [log EXCEPT ![DeviceOf(replying)] = Append(@, replying)]
    /\ replying' = None
    /\ UNCHANGED <<inbound, outbound, accepts, polled, halts, published>>

\* A stop, or a crash between any two steps.
Halt ==
    /\ gate # "down" /\ halts < setup.halts
    /\ gate' = "down" /\ polled' = <<>> /\ replying' = None /\ halts' = halts + 1
    /\ UNCHANGED <<files, accepts, published>>

----------------------------------------------------------------------------
\* The threads of the admin server that serve devices.

RelayIn(d) ==
    /\ d \in setup.open
    /\ Stamp(d, "message")
    /\ inbound' = Append(inbound, NewId)
    /\ posting' = posting \cup {NewId}
    /\ unheard' = IF gate \in {"down", "read"} \/ d \notin Welcome THEN unheard \cup {NewId} ELSE unheard
    /\ UNCHANGED <<outbound, log, listed, fetch, crashes, relists, rewritten>>

RelayLog(i) ==
    /\ i \in posting /\ posting' = posting \ {i}
    /\ log' = [log EXCEPT ![DeviceOf(i)] = Append(@, i)]
    /\ UNCHANGED <<inbound, outbound, listed, fetch, crashes, relists, rewritten, unheard>>

\* get_mobile_replies: the lines of the device go to the client, the others back to
\* the file; without replies the file is left alone.
FetchRead(f, d) ==
    /\ fetch[f] = None /\ Of(d, outbound) # {}
    /\ fetch' = [fetch EXCEPT ![f] = From(Devices \ {d}, outbound)]
    /\ UNCHANGED <<files, listed, posting, crashes, relists, rewritten, unheard>>

FetchWrite(f) ==
    /\ fetch[f] # None
    /\ outbound' = fetch[f] /\ fetch' = [fetch EXCEPT ![f] = None]
    /\ rewritten' = TRUE
    /\ UNCHANGED <<inbound, log, listed, posting, crashes, relists, unheard>>

\* get_mobile_chat_events reads the history file, then outbound.
HistoryRead(d) ==
    /\ d \in setup.open /\ view[d] = None /\ view' = [view EXCEPT ![d] = log[d]]
    /\ UNCHANGED <<seen, marker>>

HistoryShow(d) ==
    /\ view[d] # None /\ view' = [view EXCEPT ![d] = None]
    /\ LET h == History(d, view[d], outbound)
           new == After(h, marker[d])
           last == CHOOSE i \in new : \A j \in new : j <= i
       IN /\ seen' = [seen EXCEPT ![d] = @ \cup new]
          /\ marker' = IF new = {} THEN marker
                       ELSE [marker EXCEPT ![d] = [id |-> last, form |-> h[last]]]

----------------------------------------------------------------------------
\* The list of the devices allowed: _sync_relay_allow_from empties the file and writes it; on
\* SIGHUP the gateway takes the list of its configuration.

ListOpen ==
    /\ relists < setup.relists /\ relists' = relists + 1
    /\ listed' = None
    /\ UNCHANGED accepts

ListWrite(ds) ==
    /\ listed = None /\ listed' = ds
    /\ UNCHANGED <<accepts, relists>>

Reload(ds) ==
    /\ gate = "idle" /\ relists < setup.relists /\ relists' = relists + 1
    /\ accepts' = ds
    /\ UNCHANGED listed

----------------------------------------------------------------------------
\* The push notifier, a thread of the admin server.

PushStat ==
    /\ setup.push /\ push = "idle"
    /\ LET size == Bytes(outbound)
           off == SeekTo(size)
       IN /\ size # off \/ off # offset
          /\ offset' = off
          /\ push' = IF size = off THEN "idle" ELSE "opened"
          /\ saved' = IF size = off THEN off ELSE saved
    /\ UNCHANGED <<batch, pushed>>

\* Mutant of PushRead: the offset is saved before the lines are dispatched.
PushRead_SavedEarly ==
    /\ push = "opened" /\ push' = "lines"
    /\ batch' = LinesFrom(outbound, offset)
    /\ offset' = IF offset < Bytes(outbound) THEN Bytes(outbound) ELSE offset
    /\ saved' = offset'
    /\ UNCHANGED pushed

\* The file may have changed since its size was taken; the offset is where reading ends.
PushRead ==
    /\ push = "opened" /\ push' = "lines"
    /\ batch' = LinesFrom(outbound, offset)
    /\ offset' = IF offset < Bytes(outbound) THEN Bytes(outbound) ELSE offset
    /\ UNCHANGED <<saved, pushed>>

\* An attempt; whether the push service takes it is not looked at.
PushNext ==
    /\ push = "lines" /\ batch # <<>>
    /\ batch' = Tail(batch)
    /\ LET i == Head(batch) IN
         pushed' = IF items[i].kind = "answer" /\ DeviceOf(i) \in Subscribed
                   THEN [pushed EXCEPT ![i] = @ + 1] ELSE pushed
    /\ UNCHANGED <<offset, saved, push>>

PushSave ==
    /\ push = "lines" /\ batch = <<>>
    /\ push' = "idle" /\ saved' = offset
    /\ UNCHANGED <<offset, batch, pushed>>

\* A crash or restart of the admin server; clients ask again.
AdminCrash ==
    /\ crashes < setup.crashes /\ crashes' = crashes + 1
    /\ posting' = {} /\ fetch' = [f \in Fetchers |-> None]
    /\ offset' = saved /\ push' = "idle" /\ batch' = <<>>
    /\ view' = [d \in Devices |-> None]
    /\ UNCHANGED <<setup, files, gateway, stamps, listed, relists, rewritten, unheard, saved, pushed, seen,
                   marker>>

----------------------------------------------------------------------------
ChannelSteps ==
    /\ PollList \/ PollRead \/ PollClear \/ SendLog
    /\ UNCHANGED <<setup, admin, notifier, clients, stamps>>

ChannelInputs ==
    /\ \/ (Start \/ Halt) /\ UNCHANGED stamps
       \/ \E d \in Devices, k \in {"progress", "answer"} : SendOut(d, k)
    /\ UNCHANGED <<setup, admin, notifier, clients>>

FinishPost(i) == RelayLog(i) /\ UNCHANGED <<setup, gateway, notifier, clients, stamps>>

Requests ==
    /\ \/ \E d \in Devices : RelayIn(d)
       \/ \E f \in Fetchers : FetchWrite(f) /\ UNCHANGED stamps
       \/ \E f \in Fetchers, d \in Devices : FetchRead(f, d) /\ UNCHANGED stamps
    /\ UNCHANGED <<setup, gateway, notifier, clients>>

Listing ==
    /\ ListOpen \/ \E ds \in setup.lists : ListWrite(ds) \/ Reload(ds)
    /\ UNCHANGED <<setup, files, gate, polled, replying, halts, published>>
    /\ UNCHANGED <<posting, fetch, crashes, rewritten, notifier, clients, stamps>>
    /\ unheard' = unheard \cup {i \in Range(inbound) : DeviceOf(i) \notin Welcome'}

Follow(d) ==
    /\ HistoryRead(d) \/ HistoryShow(d)
    /\ UNCHANGED <<setup, files, gateway, admin, notifier, stamps>>

Notify ==
    /\ PushStat \/ PushRead \/ PushNext \/ PushSave
    /\ UNCHANGED <<setup, files, gateway, admin, clients, stamps>>

Next ==
    \/ ChannelSteps \/ ChannelInputs \/ Requests \/ Listing \/ Notify \/ AdminCrash
    \/ \E i \in posting : FinishPost(i)
    \/ \E d \in Devices : Follow(d)

Spec == Init /\ [][Next]_vars

----------------------------------------------------------------------------
\* The types, and what the stages of a step have in hand.
TypeOK ==
    /\ setup \in Setups
    /\ items \in Seq(Item) /\ Len(items) <= MaxItems
    /\ inbound \in Seq(DOMAIN items) /\ outbound \in Seq(DOMAIN items)
    /\ log \in [Devices -> Seq(DOMAIN items)]
    /\ gate \in {"down", "idle", "listed", "read", "sent"}
    /\ listed \in (SUBSET Devices) \cup {None} /\ accepts \in SUBSET Devices
    /\ relists \in Nat
    /\ polled \in Seq(DOMAIN items) /\ (gate # "read" => polled = <<>>)
    /\ replying \in DOMAIN items \cup {None} /\ (replying # None) = (gate = "sent")
    /\ posting \subseteq DOMAIN items
    /\ fetch \in [Fetchers -> Seq(DOMAIN items) \cup {None}]
    /\ offset \in Nat /\ saved \in Nat /\ push \in {"idle", "opened", "lines"}
    /\ batch \in Seq(DOMAIN items) /\ pushed \in [Ids -> Nat]
    /\ view \in [Devices -> Seq(DOMAIN items) \cup {None}]
    /\ seen \in [Devices -> SUBSET DOMAIN items]
    /\ marker \in [Devices -> [id : Nat, form : {"none", "log", "out"}]]
    /\ published \in Seq(DOMAIN items) /\ rewritten \in BOOLEAN
    /\ unheard \subseteq DOMAIN items /\ late \subseteq DOMAIN items
    /\ halts \in Nat /\ crashes \in Nat

\* However fetches write back what they have read, the relay file holds no reply twice, and
\* replies in the order they were sent.
RepliesInOrder == \A m, n \in DOMAIN outbound : m < n => outbound[m] < outbound[n]

\* "Clear file immediately to avoid double processing": however reading, emptying,
\* appending, stops and starts interleave, the bus gets messages in the order they
\* were relayed, and none twice.
PublishedInOrder ==
    \A m, n \in DOMAIN published : m < n => published[m] < published[n]

\* While no fetch has rewritten the file, the notifier loses no answer and repeats
\* one only after a crash: what lies below the persisted offset was pushed, what lies
\* beyond the notifier's was not, and without a crash nothing was pushed twice.
PushFollowsFile ==
    ~rewritten =>
        \A n \in DOMAIN outbound :
            LET i == outbound[n]
                end == Bytes(SubSeq(outbound, 1, n))
            IN items[i].kind = "answer" /\ DeviceOf(i) \in Subscribed =>
                 /\ end <= saved => pushed[i] > 0
                 /\ end > offset /\ crashes = 0 => pushed[i] = 0
                 /\ pushed[i] <= 1 + crashes

\* As long as the gateway runs, a message is on its way or on the bus, but for those that were
\* appended when the channel would not look at them, and those of devices that the list has
\* left out, whatever the admin server does to the list and when the channel looks at it.
NoMessageLost ==
    halts = 0 =>
        \A i \in DOMAIN items :
            items[i].kind = "message" /\ i \notin unheard =>
                i \in Range(inbound) \cup Range(polled) \cup Range(published)

\* A client that polls with the id of its last event is not led past an event of
\* its history file, although fetches rewrite outbound, events change their ids when
\* they reach the file, and the two files are read one after the other: it has the
\* event or the next poll returns it.  This needs that the device's items reach the
\* file in the order of their stamps, and that the client's last event is in the file.
CursorSkipsNothing ==
    \A d \in setup.open :
        /\ view[d] = None
        /\ ~(marker[d].form = "out" /\ marker[d].id \notin Range(log[d]))
        /\ \A i \in late : DeviceOf(i) # d
        => Range(log[d]) \subseteq seen[d] \cup After(History(d, log[d], outbound), marker[d])
============================================================================
