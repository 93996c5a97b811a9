--------------------------- MODULE AgentDispatch ---------------------------
(***************************************************************************)
(* The message bus, AgentLoop.run/_handle_stop/_dispatch, the subagents a  *)
(* turn spawns and ChannelManager._dispatch_outbound, in one asyncio loop. *)
(*                                                                         *)
(* A message is handled by a task of its own that runs its turn under the  *)
(* global processing lock; /stop is handled by the run loop itself.        *)
(* Messages are numbered as they enter the inbound queue.  Both the queue  *)
(* and the lock are first come, first served (asyncio.Queue and            *)
(* asyncio.Lock), so a queue is an interval of numbers and the next holder *)
(* of the lock is the smallest number that waits.                          *)
(*                                                                         *)
(* Turns that bypass the lock (process_direct) and what happens inside a   *)
(* turn are not here.                                                      *)
(***************************************************************************)
EXTENDS Naturals, Sequences

CONSTANTS
    Chats,       \* a channel and a chat of it; also the default session key
    Overrides,   \* session keys channels set themselves (threads, relay sessions)
    ChatOf,      \* the chat an override belongs to
    SubIds,      \* ids of subagents; an id is used once
    MaxMsgs,     \* messages channels put on the queue (bounds the state space)
    None

ASSUME KeysAssumption == ChatOf \in [Overrides -> Chats] /\ Chats \cap Overrides = {}
ASSUME MaxMsgsAssumption == MaxMsgs \in Nat
ASSUME NoneAssumption == None \notin Chats \cup Overrides

\* A system message's channel is "system" and its chat_id the chat it is about,
\* which makes its session key differ from the chat's.
SystemKey(c) == <<"system", c>>

UserKeys == Chats \cup Overrides
Keys == UserKeys \cup {SystemKey(c) : c \in Chats}
KeysOf(c) == {c} \cup {k \in Overrides : ChatOf[k] = c}

Message == [kind : {"user", "stop", "system"}, chat : Chats, key : Keys]

VARIABLES
    msgs,        \* the messages put on the inbound queue so far
    taken,       \* how many of them the run loop has consumed
    stopping,    \* the /stop the run loop is handling, 0 when none
    phase,       \* what it awaits: the tasks or the subagents it cancelled
    awaiting,    \* the tasks it cancelled
    waiting,     \* tasks that wait for the processing lock
    holder,      \* the task that holds it, 0 when free
    cancelling,  \* tasks with a cancellation on its way
    active,      \* _active_tasks
    said,        \* the holder's turn has sent through the message tool
    subs,        \* subagents: _running_tasks and _session_tasks
    outbox,      \* the outbound queue
    sending,     \* <<reply>> while the channel dispatcher awaits its send
    served,      \* history: messages whose turn ended
    halted,      \* history: messages a /stop cancelled and then confirmed
    handed       \* history: replies that were passed to their channel

vars == <<msgs, taken, stopping, phase, awaiting, waiting, holder, cancelling,
          active, said, subs, outbox, sending, served, halted, handed>>
stop == <<stopping, phase, awaiting>>
lock == <<waiting, holder, cancelling, said>>
channel == <<sending, handed>>

----------------------------------------------------------------------------
Inbox == (taken + 1)..Len(msgs)
Holding == IF holder = 0 THEN {} ELSE {holder}
Live == (waiting \cup Holding) \ cancelling

Put(kind, c, k) == msgs' = Append(msgs, [kind |-> kind, chat |-> c, key |-> k])

Publish(m, kind) == outbox' = Append(outbox, [re |-> m, kind |-> kind])

\* Mutant of Forget: the done callback is missing.
Forget_Never(m) == active

\* What the done callback of a task does to _active_tasks.
Forget(m) == [active EXCEPT ![msgs[m].key] = @ \ {m}]

Init ==
    /\ msgs = <<>> /\ taken = 0
    /\ stopping = 0 /\ phase = "none" /\ awaiting = {}
    /\ waiting = {} /\ holder = 0 /\ cancelling = {} /\ said = FALSE
    /\ active = [k \in Keys |-> {}]
    /\ subs = [s \in SubIds |-> [st |-> "unused", parent |-> 0, key |-> None]]
    /\ outbox = <<>> /\ sending = <<>>
    /\ served = {} /\ halted = {} /\ handed = {}

\* BaseChannel._handle_message: a message or a /stop of an allowed sender.
Receive(c, k, kind) ==
    /\ Len(msgs) < MaxMsgs
    /\ Put(kind, c, k)
    /\ UNCHANGED <<taken, stop, lock, active, subs, outbox, channel, served, halted>>

\* run: the next message becomes a task, remembered under its session key.
Take ==
    LET m == taken + 1 IN
    /\ stopping = 0
    /\ Inbox # {}
    /\ msgs[m].kind # "stop"
    /\ taken' = m
    /\ waiting' = waiting \cup {m}
    /\ active' = [active EXCEPT ![msgs[m].key] = @ \cup {m}]
    /\ UNCHANGED <<msgs, stop, holder, cancelling, said, subs, outbox, channel, served, halted>>

\* Mutant of TakeStop: only the task that runs is cancelled.
TakeStop_RunningOnly ==
    LET m == taken + 1 IN
    /\ stopping = 0
    /\ Inbox # {}
    /\ msgs[m].kind = "stop"
    /\ taken' = m
    /\ stopping' = m
    /\ phase' = "tasks"
    /\ awaiting' = active[msgs[m].key]
    /\ cancelling' = cancelling \cup (awaiting' \cap Holding)
    /\ active' = [active EXCEPT ![msgs[m].key] = {}]
    /\ UNCHANGED <<msgs, waiting, holder, said, subs, outbox, channel, served, halted>>

\* Mutant of TakeStop: the session's entry is gone and nobody puts it back.
TakeStop_PopsEntry ==
    LET m == taken + 1 IN
    /\ stopping = 0
    /\ Inbox # {}
    /\ msgs[m].kind = "stop"
    /\ taken' = m
    /\ stopping' = m
    /\ phase' = "tasks"
    /\ awaiting' = active[msgs[m].key]
    /\ cancelling' = cancelling \cup awaiting'
    /\ active' = [k \in Keys \ {msgs[m].key} |-> active[k]]
    /\ UNCHANGED <<msgs, waiting, holder, said, subs, outbox, channel, served, halted>>

\* _handle_stop up to its first await: every task of the session is cancelled.
TakeStop ==
    LET m == taken + 1 IN
    /\ stopping = 0
    /\ Inbox # {}
    /\ msgs[m].kind = "stop"
    /\ taken' = m
    /\ stopping' = m
    /\ phase' = "tasks"
    /\ awaiting' = active[msgs[m].key]
    /\ cancelling' = cancelling \cup awaiting'
    /\ active' = [active EXCEPT ![msgs[m].key] = {}]
    /\ UNCHANGED <<msgs, waiting, holder, said, subs, outbox, channel, served, halted>>

\* Mutant of StopSubs: subagents are left alone.
StopSubs_None ==
    /\ phase = "tasks"
    /\ awaiting \cap cancelling = {}
    /\ phase' = "subs"
    /\ UNCHANGED <<msgs, taken, stopping, awaiting, lock, active, subs, outbox, channel,
                   served, halted>>

\* The cancelled tasks have ended: cancel_by_session cancels the subagents that
\* run under the session key now.
StopSubs ==
    /\ phase = "tasks"
    /\ awaiting \cap cancelling = {}
    /\ phase' = "subs"
    /\ subs' = [s \in SubIds |->
                  IF subs[s].st = "running" /\ subs[s].key = msgs[stopping].key
                  THEN [subs[s] EXCEPT !.st = "cancelling"] ELSE subs[s]]
    /\ UNCHANGED <<msgs, taken, stopping, awaiting, lock, active, outbox, channel, served, halted>>

\* Those subagents have ended too: /stop is confirmed.
StopAck ==
    /\ phase = "subs"
    /\ \A s \in SubIds : subs[s].st # "cancelling"
    /\ Publish(stopping, "ack")
    /\ halted' = halted \cup awaiting
    /\ stopping' = 0 /\ phase' = "none" /\ awaiting' = {}
    /\ UNCHANGED <<msgs, taken, lock, active, subs, channel, served>>

\* Mutant of TaskCancelled: a cancelled task keeps the lock.
TaskCancelled_KeepsLock(m) ==
    /\ m \in cancelling
    /\ cancelling' = cancelling \ {m}
    /\ waiting' = waiting \ {m}
    /\ holder' = IF holder = m THEN Len(msgs) + 1 ELSE holder
    /\ said' = FALSE
    /\ UNCHANGED <<msgs, taken, stop, active, subs, outbox, channel, served, halted>>

\* CancelledError reaches a task, which leaves the lock and ends.
TaskCancelled(m) ==
    /\ m \in cancelling
    /\ cancelling' = cancelling \ {m}
    /\ waiting' = waiting \ {m}
    /\ holder' = IF holder = m THEN 0 ELSE holder
    /\ said' = (said /\ holder # m)
    /\ UNCHANGED <<msgs, taken, stop, active, subs, outbox, channel, served, halted>>

\* Mutant of Acquire: any waiting task may barge in.
Acquire_AnyOrder(m) ==
    /\ holder = 0
    /\ m \in waiting \ cancelling
    /\ holder' = m
    /\ waiting' = waiting \ {m}
    /\ UNCHANGED <<msgs, taken, stop, cancelling, said, active, subs, outbox, channel,
                   served, halted>>

\* asyncio.Lock hands over to the task that has waited longest.
Acquire(m) ==
    /\ holder = 0
    /\ m \in waiting \ cancelling
    /\ \A k \in waiting \ cancelling : m <= k
    /\ holder' = m
    /\ waiting' = waiting \ {m}
    /\ UNCHANGED <<msgs, taken, stop, cancelling, said, active, subs, outbox, channel,
                   served, halted>>

Running(m) == holder = m /\ m \notin cancelling

\* The message tool sends to the turn's own chat, once at most per turn here.
ToolSend(m) ==
    /\ Running(m)
    /\ ~said
    /\ said' = TRUE
    /\ Publish(m, "tool")
    /\ UNCHANGED <<msgs, taken, stop, waiting, holder, cancelling, active, subs, channel,
                   served, halted>>

\* The spawn tool: the subagent is filed under the chat, not the session key.
Spawn(m, s) ==
    /\ Running(m)
    /\ subs[s].st = "unused"
    /\ subs' = [subs EXCEPT ![s] = [st |-> "running", parent |-> m, key |-> msgs[m].chat]]
    /\ UNCHANGED <<msgs, taken, stop, lock, active, outbox, channel, served, halted>>

\* The turn ends, in a reply or in the reply an exception is turned into.  Only
\* a user's turn that sent through the message tool may end without one.
Finish(m) ==
    /\ Running(m)
    /\ \/ Publish(m, "final")
       \/ said /\ msgs[m].kind = "user" /\ UNCHANGED outbox
    /\ served' = served \cup {m}
    /\ active' = Forget(m)
    /\ holder' = 0
    /\ said' = FALSE
    /\ UNCHANGED <<msgs, taken, stop, waiting, cancelling, subs, channel, halted>>

\* A subagent ends and announces its result, or its error, as a system message.
SubDone(s) ==
    /\ subs[s].st = "running"
    /\ subs' = [subs EXCEPT ![s].st = "ended"]
    /\ Put("system", subs[s].key, SystemKey(subs[s].key))
    /\ UNCHANGED <<taken, stop, lock, active, outbox, channel, served, halted>>

SubCancelled(s) ==
    /\ subs[s].st = "cancelling"
    /\ subs' = [subs EXCEPT ![s].st = "ended"]
    /\ UNCHANGED <<msgs, taken, stop, lock, active, outbox, channel, served, halted>>

\* _dispatch_outbound, one reply at a time.
SendStart ==
    /\ sending = <<>>
    /\ outbox # <<>>
    /\ sending' = <<Head(outbox)>>
    /\ outbox' = Tail(outbox)
    /\ handed' = handed \cup {Head(outbox)}
    /\ UNCHANGED <<msgs, taken, stop, lock, active, subs, served, halted>>

\* Mutant of SendEnd: the dispatcher dies with a send that raises.
SendEnd_Dies ==
    /\ sending # <<>>
    /\ UNCHANGED vars

\* The channel's send returns or raises; either way the dispatcher goes on.
SendEnd ==
    /\ sending # <<>>
    /\ sending' = <<>>
    /\ UNCHANGED <<msgs, taken, stop, lock, active, subs, outbox, served, halted, handed>>

----------------------------------------------------------------------------
Channels ==
    \E c \in Chats : \E k \in KeysOf(c), kind \in {"user", "stop"} : Receive(c, k, kind)

RunLoop == Take \/ TakeStop \/ StopSubs \/ StopAck

Turn(m) == ToolSend(m) \/ Finish(m) \/ \E s \in SubIds : Spawn(m, s)

Tasks == \E m \in 1..Len(msgs) : TaskCancelled(m) \/ Acquire(m) \/ Turn(m)

Subagents == \E s \in SubIds : SubDone(s) \/ SubCancelled(s)

Dispatcher == SendStart \/ SendEnd

Next == Channels \/ RunLoop \/ Tasks \/ Subagents \/ Dispatcher

Spec == Init /\ [][Next]_vars

\* The event loop runs whatever is ready; turns, subagents and sends end, since
\* they bound their iterations and requests.  Nobody has to write messages.
FairSpec ==
    /\ Spec
    /\ WF_vars(RunLoop) /\ WF_vars(SendStart) /\ WF_vars(SendEnd)
    /\ WF_vars(\E m \in 1..Len(msgs) : Acquire(m))
    /\ WF_vars(\E m \in 1..Len(msgs) : TaskCancelled(m))
    /\ WF_vars(\E m \in 1..Len(msgs) : Finish(m))
    /\ \A s \in SubIds : WF_vars(SubDone(s)) /\ WF_vars(SubCancelled(s))

----------------------------------------------------------------------------
Sub == [st : {"unused", "running", "cancelling", "ended"}, parent : Nat,
        key : Chats \cup {None}]
Reply == [re : Nat, kind : {"final", "tool", "ack"}]

\* The shape of the state.
TypeOK ==
    /\ msgs \in Seq(Message)
    /\ taken \in 0..Len(msgs)
    /\ stopping \in 0..taken
    /\ phase \in {"none", "tasks", "subs"}
    /\ awaiting \subseteq 1..taken
    /\ waiting \subseteq 1..taken
    /\ holder \in 0..taken
    /\ cancelling \subseteq 1..taken
    /\ active \in [Keys -> SUBSET (1..taken)]
    /\ said \in BOOLEAN
    /\ subs \in [SubIds -> Sub]
    /\ outbox \in Seq(Reply)
    /\ sending \in Seq(Reply)
    /\ served \subseteq 1..taken
    /\ halted \subseteq 1..taken
    /\ handed \subseteq Reply

\* /stop can reach every task that still works, under the session key of its
\* message, and _active_tasks holds no others.
ActiveIsLive ==
    \A k \in Keys : active[k] = {m \in Live : msgs[m].key = k}

\* The lock's holder is older than every message that still awaits its turn.
HolderIsOldest ==
    holder # 0 => \A m \in Live \cup Inbox : holder <= m

\* Only tasks that hold or await the lock are cancelled, and none does both.
LockOK ==
    /\ holder \notin waiting
    /\ cancelling \subseteq waiting \cup Holding

\* A subagent that works knows its chat.
SubsHaveChat == \A s \in SubIds : subs[s].st = "running" => subs[s].key \in Chats

\* The invariant every action preserves.
IInv == TypeOK /\ LockOK /\ SubsHaveChat /\ ActiveIsLive /\ HolderIsOldest

\* Once a /stop is confirmed, nothing more is said for the messages it cancelled.
HaltedStaySilent ==
    [][\A r \in {outbox'[i] : i \in 1..Len(outbox')} \ {outbox[i] : i \in 1..Len(outbox)} :
            r.re \notin halted]_vars

Confirmed(k) == phase = "subs" /\ phase' = "none" /\ msgs[stopping].key = k

\* When /stop is confirmed, no turn of a user's message in the session is left,
\* nor a subagent such a turn spawned.
StopEndsUserWork ==
    [][\A k \in UserKeys : Confirmed(k) =>
        /\ \A m \in Live' : ~(msgs[m].kind = "user" /\ msgs[m].key = k)
        /\ \A s \in SubIds : subs'[s].st = "running" =>
               LET p == msgs[subs[s].parent] IN ~(p.kind = "user" /\ p.key = k)]_vars

\* What the loop promises: one turn per message, in order, none for the withdrawn.
Pending == {m \in Inbox : msgs[m].kind # "stop"} \cup Live

Server == INSTANCE TurnServer WITH pending <- Pending, served <- served

ServesInOrder == Server!Spec

\* Every message gets its turn, unless a /stop cancels it.
EveryMessageServed ==
    \A m \in 1..MaxMsgs : m \in Pending ~> m \notin Pending

\* Every /stop is confirmed to its chat, and a failed send holds nobody up.
EveryStopConfirmed ==
    \A m \in 1..MaxMsgs :
        m \in Inbox /\ msgs[m].kind = "stop" ~> [re |-> m, kind |-> "ack"] \in handed

----------------------------------------------------------------------------
(* What comments say, and the code does not do. *)

\* The session a message's turn reads and writes (_process_message).
SessionOf(m) == IF msgs[m].kind = "system" THEN msgs[m].chat ELSE msgs[m].key

\* "Cancel all active tasks ... for the session."
StopEndsTurns ==
    [][\A k \in UserKeys : Confirmed(k) => \A m \in Live' : SessionOf(m) # k]_vars
=============================================================================
