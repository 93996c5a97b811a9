---------------------------- MODULE DeviceAccess ----------------------------
(***************************************************************************)
(* How mobile devices and their web chats get at one instance: pairing,    *)
(* approval, deletion, log-in of a browser by a ticket that a device       *)
(* approves, transfer of a session, and the list of senders the gateway    *)
(* accepts.                                                                *)
(*                                                                         *)
(* A request is a series of steps (Plan).  Most of them load a JSON file,  *)
(* change what they have loaded and replace the file: two actions (Load    *)
(* and Save), between which other requests run.  Ids are drawn from one    *)
(* counter; an id that a client holds need not be in a file any more.      *)
(***************************************************************************)
EXTENDS Integers, Sequences, FiniteSets

CONSTANTS
    Threads,   \* threads that serve requests at the same time, the gateway's event loop among them
    Devices,
    Setups,    \* deployments: the operations asked for, how the gateway is told of a
               \* change, the devices paired and approved before, whether each has a web session
               \* and a pairing token is around, and bounds on requests and halts
    MaxIds,    \* bound on the tokens, tickets and sessions ever issued
    None

Ids == 1..MaxIds
Files == {"pairing", "devices", "tickets", "web", "transfers", "config", "requests"}

Plan(op) ==
    CASE op = "pair" -> <<"addPairing">>
      [] op = "register" -> <<"usePairing", "upsertDevice", "recordRequest">>
      [] op = "approve" -> <<"allow", "dropRequest", "sync", "apply">>
      [] op = "reject" -> <<"dropRequest">>
      [] op = "delete" -> <<"revokeDevice", "dropDevice", "disallow", "sync", "apply">>
      [] op = "channel" -> <<"setAllow", "apply">>
      [] op = "init" -> <<"addTicket">>
      [] op = "status" -> <<"getTicket">>
      [] op = "login" -> <<"token", "allowed", "approveTicket">>
      [] op = "exchange" -> <<"useTicket", "addWeb">>
      [] op = "chat" -> <<"getWeb", "known", "allowed", "touchWeb", "relay">>
      [] op = "logout" -> <<"getWeb", "known", "allowed", "touchWeb", "revokeWeb">>
      [] op = "message" -> <<"token", "relay">>
      [] op = "transfer" -> <<"token", "addTransfer">>
      [] op = "claim" -> <<"useTransfer", "seen">>
      [] op = "note" -> <<"noteOther">>

Ops == {"pair", "register", "approve", "reject", "delete", "channel", "init", "status", "login", "exchange",
        "chat", "logout", "message", "transfer", "claim", "note"}

ASSUME DeviceAssumption ==
    /\ Setups \subseteq [ops : SUBSET Ops, apply : {"restart", "signal", "none"}, paired : SUBSET Devices,
                         chatting : BOOLEAN, requests : Nat, halts : Nat, deadlines : BOOLEAN]
    /\ Devices \subseteq Nat /\ MaxIds \in Nat
    /\ \A s \in Setups :
         \E n \in 0..MaxIds : s.paired = 1..n /\ (s.chatting => 2 * n + 1 <= MaxIds)

ASSUME NoneAssumption == \A S \in SUBSET Devices : S # None

\* The file a step loads and replaces.
FileOf(at) ==
    CASE at \in {"addPairing", "usePairing"} -> "pairing"
      [] at \in {"upsertDevice", "dropDevice", "seen"} -> "devices"
      [] at \in {"addTicket", "getTicket", "approveTicket", "useTicket"} -> "tickets"
      [] at \in {"addWeb", "getWeb", "touchWeb", "revokeWeb", "revokeDevice"} -> "web"
      [] at \in {"addTransfer", "useTransfer"} -> "transfers"
      [] at \in {"allow", "disallow", "setAllow"} -> "config"
      [] at \in {"recordRequest", "dropRequest", "noteOther"} -> "requests"
      [] OTHER -> "none"

Issuing == {"addPairing", "upsertDevice", "addTicket", "addWeb", "addTransfer"}
Uses == {"usePairing", "useTicket", "useTransfer"}

\* The steps that replace the file whether it has changed or not.
Rewrites == Issuing \cup {"usePairing", "recordRequest", "noteOther", "setAllow", "dropDevice", "approveTicket",
                          "useTicket", "touchWeb", "seen"}

VARIABLES
    setup,      \* the deployment; it does not change
    files,      \* the files; in config.json, only allow_from
    relay,      \* mobile_relay/allow_from.json: None, or its list
    inbound,    \* devices with a message in the relay's queue
    gate,       \* the gateway: running or not, allow_from of the channel, a signal on its way
    job,        \* the request each thread serves
    issued,     \* what each id was issued as
    over,       \* ids past their deadline
    begun, halts,
    uses,       \* history: how often an id was used up
    dead,       \* history: sessions of a device from before the deletion of the device
    refused,    \* history: devices whose last pending request was rejected
    strangers,  \* history: devices accepted by the channel while they are on no list of config.json
    edited,     \* history: an administrator has replaced the list
    lost        \* history: files written on the strength of an older state, or left half written

history == <<uses, dead, refused, strangers, edited, lost>>
vars == <<setup, files, relay, inbound, gate, job, issued, over, begun, halts, history>>

----------------------------------------------------------------------------
Idle == [op |-> "none", at |-> "idle", id |-> 0, key |-> 0, device |-> 0, list |-> {}, copy |-> None,
         on |-> TRUE, old |-> {}, stale |-> {}]

Ask(op, n) == [Idle EXCEPT !.op = op, !.at = Plan(op)[1], !.id = n]
For(op, d) == [Ask(op, 0) EXCEPT !.device = d]
By(op, n, k) == [Ask(op, n) EXCEPT !.key = k]     \* k: the device token that comes with the request

\* What clients can ask for: ids of the right kind, whether still in a file or not.
Held(kind) == {n \in DOMAIN issued : issued[n] = kind}
SessionsOf(d) == {w.id : w \in {x \in files.web : x.device = d}}

Requests ==
    {Ask(op, 0) : op \in {"pair", "init", "note"}}
    \cup {[Ask("register", n) EXCEPT !.device = d] : n \in Held("addPairing"), d \in Devices}
    \cup {For(op, d) : op \in {"approve", "reject"}, d \in Devices}
    \cup {[For("delete", d) EXCEPT !.old = SessionsOf(d)] : d \in Devices}
    \cup {[Ask("channel", 0) EXCEPT !.list = S] : S \in SUBSET Devices}
    \cup {Ask(op, n) : op \in {"status", "exchange"}, n \in Held("addTicket")}
    \cup {By("login", n, k) : n \in Held("addTicket"), k \in Held("upsertDevice")}
    \cup {By(op, 0, k) : op \in {"message", "transfer"}, k \in Held("upsertDevice")}
    \cup {Ask(op, n) : op \in {"chat", "logout"}, n \in Held("addWeb")}
    \cup {Ask("claim", n) : n \in Held("addTransfer")}

----------------------------------------------------------------------------
\* Records past their deadline, and what the operations look up.
Live(r) == r.id \notin over
Usable(w) == Live(w) /\ ~w.revoked
Fresh(p) == Live(p) /\ ~p.used
Its(j, f) == {r \in f : r.id = j.id}

Registered == {r.device : r \in files.devices}
Quiet == \A t \in Threads : job[t] = Idle

\* Another channel of the gateway turns a sender down and records the request: until that
\* is saved the gateway's event loop does nothing else.
Noting == \E t \in Threads : job[t].op = "note"

\* The step after j's, which its last step and one off the plan do not have.
After(j) ==
    LET steps == Plan(j.op)
        next == {n \in 2..Len(steps) : steps[n - 1] = j.at}
    IN IF j.on /\ next # {} THEN steps[CHOOSE n \in next : TRUE] ELSE "idle"

Move(j, at) == IF at = "idle" THEN Idle ELSE [j EXCEPT !.at = at, !.copy = None]
Become(t, j) == job' = [job EXCEPT ![t] = j]

----------------------------------------------------------------------------
\* What the steps make of their files; n is the id a step may issue.

EditPairing(j, f, n) ==
    CASE j.at = "addPairing" -> {p \in f : Fresh(p)} \cup {[id |-> n, used |-> FALSE]}
      [] j.at = "usePairing" -> (f \ Its(j, f)) \cup {[p EXCEPT !.used = TRUE] : p \in Its(j, f)}

\* Mutant of EditDevices: pairing again adds a second record.
EditDevices_Add(j, f, n) ==
    CASE j.at = "upsertDevice" -> f \cup {[device |-> j.device, key |-> n]}
      [] j.at = "dropDevice" -> {r \in f : r.device # j.device}
      [] j.at = "seen" -> f

EditDevices(j, f, n) ==
    CASE j.at = "upsertDevice" -> {r \in f : r.device # j.device} \cup {[device |-> j.device, key |-> n]}
      [] j.at = "dropDevice" -> {r \in f : r.device # j.device}
      [] j.at = "seen" -> f

\* Mutant of Exchange: an exchanged ticket stays approved.
Exchange_Keep(j, f) == {t \in f : Live(t)}

Exchange(j, f) ==
    {t \in f : Live(t) /\ (t.id = j.id => t.status # "approved")}
    \cup {[t EXCEPT !.status = "exchanged"] : t \in {x \in Its(j, f) : Live(x) /\ x.status = "approved"}}

\* A ticket that was approved before can be approved again, by another device.
EditTickets(j, f, n) ==
    CASE j.at = "addTicket" ->
           {t \in f : Live(t) /\ t.status # "exchanged"} \cup {[id |-> n, status |-> "pending", device |-> 0]}
      [] j.at = "getTicket" -> {t \in f : Live(t)}
      [] j.at = "approveTicket" ->
           (f \ Its(j, f)) \cup {[t EXCEPT !.status = "approved", !.device = j.device] :
                                 t \in {x \in Its(j, f) : Live(x) /\ x.status # "exchanged"}}
      [] j.at = "useTicket" -> Exchange(j, f)

\* Mutant of Touch: the session found before is written back.
Touch_Found(j, f) == (f \ Its(j, f)) \cup {[w EXCEPT !.revoked = FALSE] : w \in Its(j, f)}

Touch(j, f) == {w \in f : w.id = j.id => Usable(w)}

EditWeb(j, f, n) ==
    LET revoke(S) == (f \ S) \cup {[w EXCEPT !.revoked = TRUE] : w \in S} IN
    CASE j.at = "addWeb" -> {w \in f : Usable(w)} \cup {[id |-> n, device |-> j.device, revoked |-> FALSE]}
      [] j.at = "getWeb" -> {w \in f : Usable(w)}
      [] j.at = "touchWeb" -> Touch(j, f)
      [] j.at = "revokeWeb" -> revoke(Its(j, f))
      [] j.at = "revokeDevice" -> revoke({w \in f : w.device = j.device})

EditTransfers(j, f, n) ==
    CASE j.at = "addTransfer" -> {x \in f : Live(x)} \cup {[id |-> n, device |-> j.device]}
      [] j.at = "useTransfer" -> {x \in f : Live(x) /\ x.id # j.id}

EditConfig(j, f) ==
    CASE j.at = "allow" -> f \cup {j.device}
      [] j.at = "disallow" -> f \ {j.device}
      [] j.at = "setAllow" -> j.list

\* Mutant of EditRequests: a decision on one request clears them all.
EditRequests_Clear(j, f) ==
    CASE j.at = "recordRequest" -> f \cup {j.device}
      [] j.at = "dropRequest" -> {}
      [] j.at = "noteOther" -> f

\* Of access_requests.json the entries of devices; those of other channels' senders are left out.
EditRequests(j, f) ==
    CASE j.at = "recordRequest" -> f \cup {j.device}
      [] j.at = "dropRequest" -> f \ {j.device}
      [] j.at = "noteOther" -> f

Edit(j, f, n) ==
    LET file == FileOf(j.at) IN
    CASE file = "pairing" -> EditPairing(j, f, n)
      [] file = "devices" -> EditDevices(j, f, n)
      [] file = "tickets" -> EditTickets(j, f, n)
      [] file = "web" -> EditWeb(j, f, n)
      [] file = "transfers" -> EditTransfers(j, f, n)
      [] file = "config" -> EditConfig(j, f)
      [] file = "requests" -> EditRequests(j, f)

\* The records a step looks for; without one the request is refused.
Found(j, f) ==
    CASE j.at = "usePairing" -> {p \in Its(j, f) : Fresh(p)}
      [] j.at = "approveTicket" -> {t \in Its(j, f) : Live(t) /\ t.status # "exchanged"}
      [] j.at = "useTicket" -> {t \in Its(j, f) : Live(t) /\ t.status = "approved"}
      [] j.at = "getWeb" -> {w \in Its(j, f) : Usable(w)}
      [] j.at = "useTransfer" -> {x \in Its(j, f) : Live(x)}
Seeks == {"usePairing", "approveTicket", "useTicket", "getWeb", "useTransfer"}

Paired == setup.paired
Init ==
    LET n == Cardinality(Paired) IN
    /\ setup \in Setups
    /\ files = [pairing |-> IF setup.chatting THEN {[id |-> 2 * n + 1, used |-> FALSE]} ELSE {},
                devices |-> {[device |-> d, key |-> d] : d \in Paired}, tickets |-> {},
                web |-> IF setup.chatting THEN {[id |-> n + d, device |-> d, revoked |-> FALSE] : d \in Paired} ELSE {},
                transfers |-> {}, config |-> Paired, requests |-> {}]
    /\ relay = IF Paired = {} THEN None ELSE Paired
    /\ inbound = {} /\ gate = [up |-> TRUE, allow |-> Paired, signalled |-> FALSE]
    /\ job = [t \in Threads |-> Idle]
    /\ issued = [m \in 1..(IF setup.chatting THEN 2 * n + 1 ELSE n) |->
                   IF m <= n THEN "upsertDevice" ELSE IF m <= 2 * n THEN "addWeb" ELSE "addPairing"]
    /\ over = {} /\ begun = 0 /\ halts = 0
    /\ uses = [i \in Ids |-> 0] /\ dead = {} /\ refused = {} /\ strangers = {} /\ edited = FALSE /\ lost = {}

----------------------------------------------------------------------------
\* Requests.

Begin(t) ==
    /\ job[t] = Idle /\ begun < setup.requests /\ begun' = begun + 1
    /\ \E r \in {q \in Requests : q.op \in setup.ops} :
         /\ r.op = "note" => gate.up /\ ~Noting
         /\ Become(t, r)
    /\ UNCHANGED <<setup, files, relay, inbound, gate, issued, over, halts, history>>

OnlyJob == UNCHANGED <<setup, files, relay, inbound, gate, over, begun, halts, history>>

\* What a step reads.  access_requests.json is written in place, where the other files are
\* exchanged: while another thread writes it, it reads as empty.
Contents(t) ==
    LET file == FileOf(job[t].at)
        writers == {o \in Threads \ {t} : FileOf(job[o].at) = "requests" /\ job[o].copy # None}
    IN {files[file]} \cup (IF file = "requests" /\ writers # {} THEN {{}} ELSE {})

\* Loads the file of a step; what is not replaced needs no Save.
Load(t) ==
    LET j == job[t]
        file == FileOf(j.at)
        n == Len(issued) + 1
    IN
    /\ file # "none" /\ j.copy = None
    /\ IF j.at \in Issuing THEN n <= MaxIds /\ issued' = Append(issued, j.at) ELSE UNCHANGED issued
    /\ \E f \in Contents(t) :
         LET new == Edit(j, f, n)
             found == Found(j, f)
             on == j.at \in Seeks => found # {}
             device == IF on /\ j.at \in {"useTicket", "getWeb", "useTransfer"} THEN (CHOOSE r \in found : TRUE).device
                       ELSE j.device
             taken == [j EXCEPT !.on = on, !.device = device, !.list = IF file = "config" THEN new ELSE @,
                                !.stale = IF f = files[file] THEN @ \ {file} ELSE @ \cup {file}]
         IN Become(t, IF \/ j.at = "usePairing" /\ ~on
                         \/ j.at = "seen" /\ j.device \notin Registered
                         \/ j.at \notin Rewrites /\ new = f
                      THEN Move(taken, After(taken)) ELSE [taken EXCEPT !.copy = new])
    /\ OnlyJob

\* Replaces the file.  Copies others have made of it are out of date from now on, and so
\* are the list with which they go on to write the relay's, and a deletion that has
\* dropped the record of a device which is paired again.
Save(t) ==
    LET j == job[t]
        file == FileOf(j.at)
        outdated(o) == /\ j.copy # files[file]
                       /\ \/ FileOf(o.at) = file /\ o.copy # None
                          \/ file = "config" /\ o.op \in {"approve", "delete"} /\ o.at \in {"dropRequest", "sync"}
                          \/ j.at = "upsertDevice" /\ o.at = "disallow" /\ o.device = j.device
    IN
    /\ file # "none" /\ j.copy # None
    /\ files' = [files EXCEPT ![file] = j.copy]
    /\ job' = [o \in Threads |-> IF o = t THEN Move(j, After(j))
                                 ELSE IF outdated(job[o]) THEN [job[o] EXCEPT !.stale = @ \cup {file}] ELSE job[o]]
    /\ uses' = IF j.at \in Uses /\ j.on THEN [uses EXCEPT ![j.id] = @ + 1] ELSE uses
    /\ dead' = IF j.at = "dropDevice" THEN dead \cup j.old ELSE dead
    /\ refused' = CASE j.at = "recordRequest" -> refused \ {j.device}
                    [] j.op = "reject" -> refused \cup {j.device}
                    [] OTHER -> refused
    /\ edited' = (edited \/ j.at = "setAllow")
    /\ lost' = lost \cup j.stale
    /\ UNCHANGED <<setup, relay, inbound, gate, issued, over, begun, halts, strangers>>

\* get_mobile_device_by_token
Token(t) ==
    /\ job[t].at = "token"
    /\ LET j == job[t]
           found == {r \in files.devices : r.key = j.key}
       IN Become(t, IF found = {} THEN Idle
                    ELSE LET known == [j EXCEPT !.device = (CHOOSE r \in found : TRUE).device]
                         IN Move(known, After(known)))
    /\ UNCHANGED issued /\ OnlyJob

\* The session of a device that is gone, or not on the list any more, is revoked.
Known(t) ==
    /\ job[t].at = "known"
    /\ LET j == job[t] IN Become(t, Move(j, IF j.device \in Registered THEN After(j) ELSE "revokeWeb"))
    /\ UNCHANGED issued /\ OnlyJob
Allowed(t) ==
    /\ job[t].at = "allowed"
    /\ LET j == job[t] IN
         Become(t, Move(j, IF j.device \in files.config THEN After(j)
                           ELSE IF j.op = "login" THEN "idle" ELSE "revokeWeb"))
    /\ UNCHANGED issued /\ OnlyJob

\* relay_mobile_message does not look at the list: the gateway does.
Relay(t) ==
    /\ job[t].at = "relay"
    /\ inbound' = inbound \cup {job[t].device}
    /\ Become(t, Move(job[t], After(job[t])))
    /\ UNCHANGED <<setup, files, relay, gate, issued, over, begun, halts, history>>

\* Mutant of Sync: nothing is written for a device that leaves.
Sync_Approved(t) ==
    /\ job[t].at = "sync"
    /\ relay' = IF job[t].op = "approve" THEN job[t].list ELSE relay
    /\ Become(t, Move(job[t], After(job[t])))
    /\ lost' = lost \cup job[t].stale
    /\ UNCHANGED <<setup, files, inbound, gate, issued, over, begun, halts, uses, dead, refused, strangers, edited>>

\* _sync_relay_allow_from, with the configuration the request has loaded.
Sync(t) ==
    /\ job[t].at = "sync"
    /\ relay' = job[t].list
    /\ Become(t, Move(job[t], After(job[t])))
    /\ lost' = lost \cup job[t].stale
    /\ UNCHANGED <<setup, files, inbound, gate, issued, over, begun, halts, uses, dead, refused, strangers, edited>>

\* The gateway is restarted or, where that is not possible or not done, sent a signal;
\* a deletion sends none.
Restarts(j) == setup.apply = "restart" /\ j.op \in {"approve", "delete"}
Signals(j) == setup.apply # "none" /\ ~Restarts(j) /\ j.op # "delete" /\ gate.up
Apply(t) ==
    /\ job[t].at = "apply" /\ (Restarts(job[t]) => ~Noting)
    /\ gate' = CASE Restarts(job[t]) -> [up |-> TRUE, allow |-> files.config, signalled |-> FALSE]
                 [] Signals(job[t]) -> [gate EXCEPT !.signalled = TRUE]
                 [] OTHER -> gate
    /\ inbound' = IF Restarts(job[t]) THEN {} ELSE inbound
    /\ Become(t, Idle)
    /\ UNCHANGED <<setup, files, relay, issued, over, begun, halts, history>>

----------------------------------------------------------------------------
\* The gateway.

Reload ==
    /\ gate.up /\ gate.signalled /\ ~Noting
    /\ gate' = [gate EXCEPT !.allow = files.config, !.signalled = FALSE]
    /\ UNCHANGED <<setup, files, relay, inbound, job, issued, over, begun, halts, history>>

\* _process_inbound: the list of the relay directory replaces the one in memory.
Poll ==
    /\ gate.up /\ ~Noting /\ inbound # {} /\ inbound' = {}
    /\ gate' = [gate EXCEPT !.allow = IF relay = None THEN @ ELSE relay]
    /\ strangers' = IF Quiet /\ ~gate.signalled
                    THEN strangers \cup ((inbound \cap gate'.allow) \ files.config) ELSE strangers
    /\ UNCHANGED <<setup, files, relay, job, issued, over, begun, halts, uses, dead, refused, edited, lost>>

Halt ==
    /\ gate.up /\ ~Noting /\ halts < setup.halts /\ halts' = halts + 1
    /\ gate' = [gate EXCEPT !.up = FALSE, !.signalled = FALSE]
    /\ UNCHANGED <<setup, files, relay, inbound, job, issued, over, begun, history>>

\* The gateway is ended while it records a request, perhaps in the middle of the write.
Breaks(t) ==
    /\ gate.up /\ job[t].op = "note" /\ halts < setup.halts /\ halts' = halts + 1
    /\ gate' = [gate EXCEPT !.up = FALSE, !.signalled = FALSE]
    /\ Become(t, Idle)
    /\ \/ UNCHANGED <<files, lost>>
       \/ /\ job[t].copy # None
          /\ files' = [files EXCEPT !.requests = {}] /\ lost' = lost \cup {"requests"}
    /\ UNCHANGED <<setup, relay, inbound, issued, over, begun, uses, dead, refused, strangers, edited>>

Start ==
    /\ ~gate.up
    /\ gate' = [gate EXCEPT !.up = TRUE, !.allow = files.config] /\ inbound' = {}
    /\ UNCHANGED <<setup, files, relay, job, issued, over, begun, halts, history>>

\* Ten minutes, twelve hours or seven days.
Deadline(n) ==
    /\ setup.deadlines /\ n \in DOMAIN issued \ over /\ issued[n] # "upsertDevice"
    /\ over' = over \cup {n}
    /\ UNCHANGED <<setup, files, relay, inbound, gate, job, issued, begun, halts, history>>

----------------------------------------------------------------------------
Next ==
    \/ \E t \in Threads :
         Begin(t) \/ Load(t) \/ Save(t) \/ Token(t) \/ Known(t) \/ Allowed(t) \/ Relay(t) \/ Sync(t) \/ Apply(t)
         \/ Breaks(t)
    \/ Reload \/ Poll \/ Halt \/ Start
    \/ \E n \in Ids : Deadline(n)

Spec == Init /\ [][Next]_vars

----------------------------------------------------------------------------
\* Ids are unique in their files, devices in theirs, and a copy belongs to a step that saves.
TypeOK ==
    /\ \A f \in {"pairing", "tickets", "web", "transfers"} :
         \A r, q \in files[f] : r.id \in Ids /\ (r.id = q.id => r = q)
    /\ \A r, q \in files.devices : r.device = q.device => r = q
    /\ files.config \subseteq Devices /\ files.requests \subseteq Devices
    /\ relay = None \/ relay \subseteq Devices
    /\ \A t \in Threads : job[t].copy # None => FileOf(job[t].at) # "none"

\* A pairing token pairs one device, a log-in ticket opens one web session and a transfer
\* is claimed once, however requests overlap - unless the mark of its use was undone or
\* ignored by a request that had loaded the file before.
UsedOnce ==
    \A n \in DOMAIN issued :
        uses[n] > 1 => CASE issued[n] = "addPairing" -> "pairing" \in lost
                         [] issued[n] = "addTicket" -> "tickets" \in lost
                         [] OTHER -> "transfers" \in lost

\* Deleting a device ends its web sessions for good: none of them works again when the
\* device is paired and approved anew, unless the revocation was overwritten.
DeletedSessionsStayOut == "web" \notin lost => \A w \in files.web : w.id \in dead => ~Usable(w)

\* A paired device is approved, waits among the pending requests or was rejected: an
\* administrator sees each one - unless two writers of a list, one of them perhaps the
\* gateway as it records a sender of another channel, have overwritten or half read
\* each other's, the gateway was ended in the middle of its write, or the list was edited.
NobodyInLimbo ==
    Quiet /\ lost = {} /\ ~edited => Registered \subseteq files.config \cup files.requests \cup refused

\* When no request is under way the gateway accepts only devices on the list of
\* config.json, whether it was started, signalled or reads the list in the relay
\* directory - unless the list was edited or requests have overwritten each other's.
NoStrangers == lost = {} /\ ~edited => strangers = {}

\* As NoStrangers, but an administrator may edit the list (update_channel).
EditedListHolds == lost = {} => strangers = {}
============================================================================
