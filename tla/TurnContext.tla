---------------------------- MODULE TurnContext ----------------------------
(***************************************************************************)
(* The tools of one AgentLoop act on a context all turns share: the chat   *)
(* the message, spawn and cron tools act on, and the message tool's record *)
(* of what was sent in this turn, from which the loop decides whether the  *)
(* final reply is still needed.  A turn sets the context when it starts    *)
(* and relies on it until it ends, awaiting the model in between.          *)
(*                                                                         *)
(* Turns of messages hold the processing lock.  The turns of cron jobs and *)
(* of the heartbeat come through process_direct, which does not take it.   *)
(*                                                                         *)
(* The code between two awaits is one action: putting on the unbounded     *)
(* outbound queue never suspends, so a tool call is atomic, and so are the *)
(* end of a turn and what its caller does with the result.                 *)
(***************************************************************************)
EXTENDS Naturals, FiniteSets

CONSTANTS
    Chats,     \* a channel and a chat of it
    Turns,     \* ids of turns; an id is used once
    MaxCalls,  \* effects after which no tool is called any more (bounds the state space)
    Nobody

ASSUME NobodyAssumption == Nobody \notin Chats \cup Turns \cup {"progress", "answer"}

LockedKinds == {"user", "system"}
DirectKinds == {"cron", "heartbeat"}
TurnKinds == LockedKinds \cup DirectKinds

\* What a turn does to a chat: through a tool's default context, through the
\* message tool with an explicit target, or with its final reply.
ByContext == {"tool", "spawn", "job"}
Ways == ByContext \cup {"explicit", "reply", "notify", "error"}
Texts == {"progress", "answer"}

VARIABLES
    turn,        \* the turns: kind, chat and stage
    holder,      \* the turn that holds the processing lock
    target,      \* the chat the tools were last given by _set_tool_context
    sentInTurn,  \* MessageTool._sent_in_turn
    last,        \* MessageTool._last_sent_content
    effects,     \* history: who did what to which chat
    withheld,    \* history: turns that ended without emitting their final reply
    overlapped   \* history: turns that overlapped with a turn outside the lock

turnVars == <<turn, holder, target, sentInTurn, last, effects, withheld, overlapped>>
tool == <<sentInTurn, last>>

----------------------------------------------------------------------------
Running == {t \in Turns : turn[t].stage = "running"}

Effect(t, to, way, text) == [turn |-> t, to |-> to, way |-> way, text |-> text]

Act(t, to, way, text) == effects' = effects \cup {Effect(t, to, way, text)}

TurnInit ==
    /\ turn = [t \in Turns |-> [kind |-> Nobody, chat |-> Nobody, stage |-> "unused"]]
    /\ holder = Nobody /\ target = Nobody
    /\ sentInTurn = FALSE /\ last = Nobody
    /\ effects = {} /\ withheld = {} /\ overlapped = {}

\* A system message carries the result of a subagent to the chat it came from.
HasCause(k, c) == k = "system" => \E t \in Turns : Effect(t, c, "spawn", Nobody) \in effects

\* Mutant of TakeLock: _dispatch does not take the lock.
TakeLock_Never(t, k) == UNCHANGED holder

\* _dispatch takes the lock; process_direct does not.
TakeLock(t, k) ==
    IF k \in LockedKinds
    THEN holder = Nobody /\ holder' = t
    ELSE UNCHANGED holder

\* Mutant of Release: a turn keeps the lock when it ends.
Release_Never(t) == UNCHANGED holder

Release(t) == holder' = IF holder = t THEN Nobody ELSE holder

\* The turns an overlap with the starting turn t of kind k concerns.
MeetingOf(t, k) ==
    LET met == {r \in Running : k \in DirectKinds \/ turn[r].kind \in DirectKinds}
    IN IF met = {} THEN {} ELSE met \cup {t}

\* MessageTool.start_turn; the turn of a system message does not call it.
StartTurn(k) ==
    IF k = "system" THEN UNCHANGED tool ELSE sentInTurn' = FALSE /\ last' = Nobody

\* _process_message up to its first call of the model.
Begin(t, k, c) ==
    /\ turn[t].stage = "unused"
    /\ HasCause(k, c)
    /\ TakeLock(t, k)
    /\ turn' = [turn EXCEPT ![t] = [kind |-> k, chat |-> c, stage |-> "running"]]
    /\ target' = c
    /\ StartTurn(k)
    /\ overlapped' = overlapped \cup MeetingOf(t, k)
    /\ UNCHANGED <<effects, withheld>>

\* Mutant of MarkSent: an explicit target is never the turn's own chat.
MarkSent_DefaultOnly(to, dest, text) ==
    IF to = Nobody THEN sentInTurn' = TRUE /\ last' = text ELSE UNCHANGED tool

\* What the message tool remembers of a message it sent.
MarkSent(to, dest, text) ==
    IF dest = target THEN sentInTurn' = TRUE /\ last' = text ELSE UNCHANGED tool

\* A turn may call a tool while the model has not given its final reply.
MayCall(t) == turn[t].stage = "running" /\ Cardinality(effects) < MaxCalls

\* MessageTool.execute: to the chat the call names, or to that of the context.
Say(t, to, text) ==
    LET dest == IF to = Nobody THEN target ELSE to IN
    /\ MayCall(t)
    /\ Act(t, dest, IF to = Nobody THEN "tool" ELSE "explicit", text)
    /\ MarkSent(to, dest, text)
    /\ UNCHANGED <<turn, holder, target, withheld, overlapped>>

\* SpawnTool.execute: a subagent that will report to the context's chat.
SpawnSub(t) ==
    /\ MayCall(t)
    /\ Act(t, target, "spawn", Nobody)
    /\ UNCHANGED <<turn, holder, target, tool, withheld, overlapped>>

\* CronTool.execute "add": a job that delivers to the context's chat.  The turn
\* of a job may add none.
AddJob(t) ==
    /\ MayCall(t)
    /\ turn[t].kind # "cron"
    /\ Act(t, target, "job", Nobody)
    /\ UNCHANGED <<turn, holder, target, tool, withheld, overlapped>>

----------------------------------------------------------------------------
EndTurn(t) == turn' = [turn EXCEPT ![t].stage = "ended"] /\ Release(t)

Withhold(t) == withheld' = withheld \cup {t} /\ UNCHANGED effects

Reply(t, c, way) == Act(t, c, way, "answer") /\ UNCHANGED withheld

\* The final reply is not needed: the message tool has sent to the context's
\* chat, and not a mere note of progress the reply would add to.
Needless(same) == sentInTurn /\ (last = "answer" \/ same)

\* The end of a message's turn; same: the reply is blank or repeats what was sent.
EndUser(t, same) ==
    /\ t \in Running /\ turn[t].kind = "user"
    /\ EndTurn(t)
    /\ IF Needless(same) THEN Withhold(t) ELSE Reply(t, turn[t].chat, "reply")
    /\ UNCHANGED <<target, tool, overlapped>>

\* The turn that reports a subagent's result always replies.
EndSystem(t) ==
    /\ t \in Running /\ turn[t].kind = "system"
    /\ EndTurn(t)
    /\ Reply(t, turn[t].chat, "reply")
    /\ UNCHANGED <<target, tool, overlapped>>

\* on_cron_job: it delivers the response unless the job does not ask for it or
\* the message tool has sent anything.
EndCron(t, deliver) ==
    /\ t \in Running /\ turn[t].kind = "cron"
    /\ EndTurn(t)
    /\ IF sentInTurn \/ ~deliver THEN Withhold(t) ELSE Reply(t, turn[t].chat, "reply")
    /\ UNCHANGED <<target, tool, overlapped>>

\* on_heartbeat_notify picks the chat again: that of the latest session, or none.
EndHeartbeat(t, same, to) ==
    /\ t \in Running /\ turn[t].kind = "heartbeat"
    /\ EndTurn(t)
    /\ IF Needless(same) \/ to = Nobody THEN Withhold(t) ELSE Reply(t, to, "notify")
    /\ UNCHANGED <<target, tool, overlapped>>

\* The turn fails or is cancelled.  Only a user turn that fails says so: the error
\* of a system turn goes to a channel "system", which does not exist.
Abort(t, told) ==
    /\ t \in Running
    /\ told => turn[t].kind = "user"
    /\ EndTurn(t)
    /\ IF told THEN Act(t, turn[t].chat, "error", Nobody) ELSE UNCHANGED effects
    /\ UNCHANGED <<target, tool, withheld, overlapped>>

\* A policy blocks the input, or it is a slash command: the turn ends before it
\* sets the context.  For a job on_cron_job still reads what a former turn sent;
\* the caller of process_direct may have nowhere to deliver to.
Refuse(t, k, c) ==
    /\ turn[t].stage = "unused"
    /\ k # "system"
    /\ k = "user" => holder = Nobody
    /\ turn' = [turn EXCEPT ![t] = [kind |-> k, chat |-> c, stage |-> "ended"]]
    /\ \/ ~(k = "cron" /\ sentInTurn) /\ Reply(t, c, IF k = "heartbeat" THEN "notify" ELSE "reply")
       \/ k \in DirectKinds /\ Withhold(t)
    /\ UNCHANGED <<holder, target, tool, overlapped>>

TurnNext == \E t \in Turns :
    \/ \E k \in TurnKinds, c \in Chats : Begin(t, k, c)
    \/ \E k \in TurnKinds, c \in Chats : Refuse(t, k, c)
    \/ \E to \in Chats \cup {Nobody}, text \in Texts : Say(t, to, text)
    \/ SpawnSub(t)
    \/ AddJob(t)
    \/ \E same \in BOOLEAN : EndUser(t, same)
    \/ EndSystem(t)
    \/ \E deliver \in BOOLEAN : EndCron(t, deliver)
    \/ \E same \in BOOLEAN, to \in Chats \cup {Nobody} : EndHeartbeat(t, same, to)
    \/ \E told \in BOOLEAN : Abort(t, told)

TurnSpec == TurnInit /\ [][TurnNext]_turnVars

----------------------------------------------------------------------------
ATurn == [kind : TurnKinds \cup {Nobody}, chat : Chats \cup {Nobody},
          stage : {"unused", "running", "ended"}]

AnEffect == [turn : Turns, to : Chats, way : Ways, text : Texts \cup {Nobody}]

\* The turn that holds the lock is a message's and runs, and there is no other.
HolderRuns ==
    {t \in Running : turn[t].kind \in LockedKinds} = IF holder = Nobody THEN {} ELSE {holder}

\* The variables keep their shape, a turn that started has a kind and a chat, and
\* the lock is held by the one message's turn that runs.
TurnTypes ==
    /\ turn \in [Turns -> ATurn]
    /\ \A t \in Turns : turn[t].stage # "unused" => turn[t].kind \in TurnKinds /\ turn[t].chat \in Chats
    /\ holder \in Turns \cup {Nobody}
    /\ target \in Chats \cup {Nobody}
    /\ sentInTurn \in BOOLEAN
    /\ last \in Texts \cup {Nobody}
    /\ effects \subseteq AnEffect
    /\ withheld \subseteq Turns
    /\ overlapped \subseteq Turns
    /\ HolderRuns

\* A message the turn itself sent to its own chat.
Told(t, text) == \E way \in {"tool", "explicit"} : Effect(t, turn[t].chat, way, text) \in effects

HeardFrom(t) == \E text \in Texts : Told(t, text)

\* Only a turn that overlapped with one outside the lock messages, spawns or
\* schedules for another chat than its own: the lock protects the tools' context.
StaysHome == \A e \in effects :
    e.way \in ByContext /\ e.turn \notin overlapped => e.to = turn[e.turn].chat

\* A user turn leaves its reply out only if it sent a message to its own chat,
\* unless it overlapped with a turn outside the lock (_sent_in_turn is its own).
WithheldIsHeard == \A t \in withheld \ overlapped :
    turn[t].kind = "user" => HeardFrom(t)

\* No user hears the same answer twice: where a turn has answered with the message
\* tool, its reply follows only if a note of progress was sent as well.
NoSecondAnswer == \A t \in Turns \ overlapped :
    /\ turn[t].kind = "user"
    /\ Effect(t, turn[t].chat, "reply", "answer") \in effects
    /\ Told(t, "answer")
    => Told(t, "progress")

\* The invariant the proofs are about: which turns have begun, that two running
\* turns overlap, and what the shared context holds for a turn that does not.
Begun ==
    /\ \A e \in effects : turn[e.turn].stage # "unused"
    /\ \A e \in effects : e.way = "reply" => turn[e.turn].stage = "ended"
    /\ \A t \in withheld : turn[t].stage = "ended"
Apart == \A t, r \in Running : t # r => t \in overlapped
OwnContext ==
    /\ Running # {} => target \in Chats
    /\ \A t \in Running \ overlapped : target = turn[t].chat
OwnRecord == \A t \in Running \ overlapped : turn[t].kind = "user" =>
    /\ sentInTurn => last \in Texts /\ Told(t, last)
    /\ Told(t, "answer") => sentInTurn
TurnIInv ==
    /\ TurnTypes /\ Begun /\ Apart /\ OwnContext /\ OwnRecord
    /\ StaysHome /\ WithheldIsHeard /\ NoSecondAnswer

\* What the suppression of final replies is said to be: it happens only when the
\* message tool has sent to the same target (whatever else runs meanwhile).
WithheldOnlyForOwnMessage == \A t \in withheld :
    turn[t].kind = "user" => HeardFrom(t)
=============================================================================
