--------------------------- MODULE SessionMemory ---------------------------
(***************************************************************************)
(* What happens to the messages of a session: AgentLoop._process_message   *)
(* and _save_turn, SessionManager, and MemoryStore.consolidate, which has  *)
(* the model summarise old messages into HISTORY.md and MEMORY.md, either  *)
(* in the background or before /new clears the session.                    *)
(*                                                                         *)
(* The turns of one session follow one another; those of two sessions, and *)
(* the consolidations of any, interleave at their awaits.  The n-th        *)
(* message of a session is the number n; a fact of MEMORY.md is named for  *)
(* the message it comes from.  A crash falls between two steps of the      *)
(* event loop; one in the middle of a save is not modelled.                *)
(***************************************************************************)
EXTENDS Integers, Sequences

CONSTANTS
    Sessions,
    Window,      \* memory_window
    Notable,     \* the messages that hold a fact for MEMORY.md
    MaxMsgs,     \* messages per session (bounds the state space)
    MaxJobs,     \* jobs at a session's lock (bounds the state space)
    MaxFaults    \* crashes and failed writes (bounds the state space)

ASSUME WindowAssumption == Window \in Nat
ASSUME BoundsAssumption == {MaxMsgs, MaxJobs, MaxFaults} \subseteq Nat
ASSUME NotableAssumption == Notable \subseteq 1..MaxMsgs

Keep == Window \div 2

VARIABLES
    msgs,        \* Session.messages
    lc,          \* Session.last_consolidated
    file,        \* the saved sessions
    turn,        \* what the session's turn does: "idle", "turn" or "new"
    jobs,        \* its consolidation lock: the job that holds it, then the waiting ones
    call,        \* <<request>> while the lock's holder awaits the model
    guard,       \* _consolidating
    history,     \* HISTORY.md: the messages each entry summarises
    facts,       \* MEMORY.md
    untold,      \* history: messages whose summary the model or the policy left out
    said,        \* history: messages of the session so far
    faults       \* history: crashes and failed writes so far

vars == <<msgs, lc, file, turn, jobs, call, guard, history, facts, untold, said, faults>>
session == <<msgs, lc, file, said>>
memory == <<history, facts, untold>>

----------------------------------------------------------------------------
\* Mutant of Fresh: one message of the prompt's history is kept again.
Fresh_SkipsTooFew(s, n) == [i \in 1..n |-> said[s] + i - 1]

\* The next n messages of a session.
Fresh(s, n) == [i \in 1..n |-> said[s] + i]

\* Python's messages[last_consolidated:-keep], which is empty when keep is 0.
OldMessages(s) ==
    IF Keep = 0 THEN <<>> ELSE SubSeq(msgs[s], lc[s] + 1, Len(msgs[s]) - Keep)

\* What the lock's holder has to summarise: /new archives all the rest.
Due(s) ==
    IF Head(jobs[s]) = "new" THEN SubSeq(msgs[s], lc[s] + 1, Len(msgs[s])) ELSE OldMessages(s)

ToSet(q) == {q[i] : i \in 1..Len(q)}

Init ==
    /\ msgs = [s \in Sessions |-> <<>>]
    /\ lc = [s \in Sessions |-> 0]
    /\ file = [s \in Sessions |-> [msgs |-> <<>>, lc |-> 0]]
    /\ turn = [s \in Sessions |-> "idle"]
    /\ jobs = [s \in Sessions |-> <<>>]
    /\ call = [s \in Sessions |-> <<>>]
    /\ guard = {} /\ history = <<>> /\ facts = {} /\ untold = {}
    /\ said = [s \in Sessions |-> 0] /\ faults = 0

\* A user's turn: a session that outgrew the window is consolidated meanwhile.
UserTurn(s) ==
    /\ turn[s] = "idle"
    /\ turn' = [turn EXCEPT ![s] = "turn"]
    /\ \/ /\ Len(msgs[s]) - lc[s] >= Window /\ s \notin guard
          /\ guard' = guard \cup {s}
          /\ jobs' = [jobs EXCEPT ![s] = Append(@, "bg")]
       \/ /\ Len(msgs[s]) - lc[s] < Window \/ s \in guard
          /\ UNCHANGED <<guard, jobs>>
    /\ UNCHANGED <<session, call, memory, faults>>

\* A system message's turn never starts a consolidation.
SystemTurn(s) ==
    /\ turn[s] = "idle"
    /\ turn' = [turn EXCEPT ![s] = "turn"]
    /\ UNCHANGED <<session, jobs, call, guard, memory, faults>>

\* The agent edits MEMORY.md during its turn.
Remember(s) ==
    /\ turn[s] = "turn"
    /\ said[s] + 1 \in Notable
    /\ facts' = facts \cup {<<s, said[s] + 1>>}
    /\ UNCHANGED <<session, turn, jobs, call, guard, history, untold, faults>>

\* Mutant of EndTurn: the session is not saved.
EndTurn_NoSave(s) ==
    /\ turn[s] = "turn"
    /\ \E n \in 1..2 :
        /\ said[s] + n <= MaxMsgs
        /\ msgs' = [msgs EXCEPT ![s] = @ \o Fresh(s, n)]
        /\ said' = [said EXCEPT ![s] = @ + n]
    /\ turn' = [turn EXCEPT ![s] = "idle"]
    /\ UNCHANGED <<lc, file, jobs, call, guard, memory, faults>>

\* The turn ends: _save_turn and save, with nothing awaited in between.
EndTurn(s) ==
    /\ turn[s] = "turn"
    /\ \E n \in 1..2 :
        /\ said[s] + n <= MaxMsgs
        /\ msgs' = [msgs EXCEPT ![s] = @ \o Fresh(s, n)]
        /\ said' = [said EXCEPT ![s] = @ + n]
    /\ file' = [file EXCEPT ![s] = [msgs |-> msgs'[s], lc |-> lc[s]]]
    /\ turn' = [turn EXCEPT ![s] = "idle"]
    /\ UNCHANGED <<lc, jobs, call, guard, memory, faults>>

\* The turn is cancelled, or raises: none of its messages is kept.
LoseTurn(s) ==
    /\ turn[s] = "turn"
    /\ turn' = [turn EXCEPT ![s] = "idle"]
    /\ UNCHANGED <<session, jobs, call, guard, memory, faults>>

\* /new first waits for the consolidation that is under way.
NewCommand(s) ==
    /\ turn[s] = "idle"
    /\ Len(jobs[s]) < MaxJobs
    /\ turn' = [turn EXCEPT ![s] = "new"]
    /\ guard' = guard \cup {s}
    /\ jobs' = [jobs EXCEPT ![s] = Append(@, "new")]
    /\ UNCHANGED <<session, call, memory, faults>>

\* /stop cancels a /new, which leaves the lock and, in its finally, the guard.
StopNew(s) ==
    /\ turn[s] = "new"
    /\ turn' = [turn EXCEPT ![s] = "idle"]
    /\ guard' = guard \ {s}
    /\ jobs' = [jobs EXCEPT ![s] = SubSeq(@, 1, Len(@) - 1)]
    /\ call' = IF Len(jobs[s]) = 1 THEN [call EXCEPT ![s] = <<>>] ELSE call
    /\ UNCHANGED <<session, memory, faults>>

\* The lock's holder reads the session and MEMORY.md, and asks the model.
BeginJob(s) ==
    /\ jobs[s] # <<>> /\ call[s] = <<>>
    /\ Due(s) # <<>>
    /\ call' = [call EXCEPT ![s] = <<[old |-> Due(s), seen |-> facts]>>]
    /\ UNCHANGED <<session, turn, jobs, guard, memory, faults>>

\* Mutant of LeaveLock: the guard stays up.
LeaveLock_KeepsGuard(s) ==
    /\ jobs' = [jobs EXCEPT ![s] = Tail(@)]
    /\ call' = [call EXCEPT ![s] = <<>>]
    /\ turn' = IF Head(jobs[s]) = "new" THEN [turn EXCEPT ![s] = "idle"] ELSE turn
    /\ UNCHANGED guard

\* The job leaves the lock and the guard; a /new is answered.
LeaveLock(s) ==
    /\ jobs' = [jobs EXCEPT ![s] = Tail(@)]
    /\ call' = [call EXCEPT ![s] = <<>>]
    /\ guard' = guard \ {s}
    /\ turn' = IF Head(jobs[s]) = "new" THEN [turn EXCEPT ![s] = "idle"] ELSE turn

\* Mutant of Clear: last_consolidated is not reset.
Clear_KeepsOffset(s) ==
    /\ msgs' = [msgs EXCEPT ![s] = <<>>]
    /\ file' = [file EXCEPT ![s] = [msgs |-> <<>>, lc |-> lc[s]]]
    /\ UNCHANGED <<lc, said>>

\* Mutant of Clear: the cleared session is not saved.
Clear_NoSave(s) ==
    /\ msgs' = [msgs EXCEPT ![s] = <<>>]
    /\ lc' = [lc EXCEPT ![s] = 0]
    /\ UNCHANGED <<file, said>>

\* /new's clear, save and invalidate.
Clear(s) ==
    /\ msgs' = [msgs EXCEPT ![s] = <<>>]
    /\ lc' = [lc EXCEPT ![s] = 0]
    /\ file' = [file EXCEPT ![s] = [msgs |-> <<>>, lc |-> 0]]
    /\ UNCHANGED said

\* Mutant of Advance: the offset stays where it was.
Advance_Not(s) == UNCHANGED session

\* The offset moves to the end of the session as it is now, less what is kept.
\* It is saved with the session's next turn.
Advance(s) ==
    /\ lc' = [lc EXCEPT ![s] = Len(msgs[s]) - Keep]
    /\ UNCHANGED <<msgs, file, said>>

\* There is nothing to summarise: a success that leaves the offset alone.
SkipJob(s) ==
    /\ jobs[s] # <<>> /\ call[s] = <<>>
    /\ Due(s) = <<>>
    /\ LeaveLock(s)
    /\ \/ Head(jobs[s]) = "new" /\ Clear(s)
       \/ Head(jobs[s]) = "bg" /\ UNCHANGED session
    /\ UNCHANGED <<memory, faults>>

Record(s) == history' = Append(history, [session |-> s, msgs |-> ToSet(call[s][1].old)])

\* The model calls save_memory, and the job has succeeded whatever the call holds.
\* MEMORY.md is left alone, replaced by what the job read of it with what the model
\* adds, or emptied when the policy blocks the update.
Answered(s) ==
    /\ LET new == {s} \X (ToSet(call[s][1].old) \cap Notable) IN
        \/ UNCHANGED facts
        \/ new # {} /\ facts' = call[s][1].seen \cup new
        \/ facts' = {}
    /\ LeaveLock(s)
    /\ \/ Head(jobs[s]) = "new" /\ Clear(s)
       \/ Head(jobs[s]) = "bg" /\ Advance(s)
    /\ UNCHANGED faults

\* The entry is appended.
JobDone(s) ==
    /\ call[s] # <<>>
    /\ Record(s)
    /\ Answered(s)
    /\ UNCHANGED untold

\* There is no entry: the call has none or an empty one, or the policy blocks it.
JobUntold(s) ==
    /\ call[s] # <<>>
    /\ untold' = untold \cup ({s} \X ToSet(call[s][1].old))
    /\ Answered(s)
    /\ UNCHANGED history

\* Mutant of JobFails: /new clears the session whatever the outcome.
JobFails_Clears(s) ==
    /\ call[s] # <<>>
    /\ LeaveLock(s)
    /\ \/ Head(jobs[s]) = "new" /\ Clear(s)
       \/ Head(jobs[s]) = "bg" /\ UNCHANGED session
    /\ UNCHANGED <<memory, faults>>

\* The request fails, the model answers without calling save_memory or with arguments
\* that cannot be used, or the policy cannot be read.
JobFails(s) ==
    /\ call[s] # <<>>
    /\ LeaveLock(s)
    /\ UNCHANGED <<session, memory, faults>>

\* HISTORY.md is written and MEMORY.md is not, or cannot be judged: the job failed.
JobHalfDone(s) ==
    /\ call[s] # <<>>
    /\ faults < MaxFaults
    /\ faults' = faults + 1
    /\ Record(s)
    /\ LeaveLock(s)
    /\ UNCHANGED <<session, facts, untold>>

\* The process dies and starts again with the saved sessions.
Crash ==
    /\ faults < MaxFaults
    /\ faults' = faults + 1
    /\ msgs' = [s \in Sessions |-> file[s].msgs]
    /\ lc' = [s \in Sessions |-> file[s].lc]
    /\ turn' = [s \in Sessions |-> "idle"]
    /\ jobs' = [s \in Sessions |-> <<>>]
    /\ call' = [s \in Sessions |-> <<>>]
    /\ guard' = {}
    /\ UNCHANGED <<file, memory, said>>

----------------------------------------------------------------------------
Turns(s) ==
    \/ UserTurn(s) \/ SystemTurn(s) \/ Remember(s) \/ EndTurn(s) \/ LoseTurn(s)
    \/ NewCommand(s) \/ StopNew(s)

EndJob(s) == JobDone(s) \/ JobUntold(s) \/ JobFails(s) \/ JobHalfDone(s)

Job(s) == BeginJob(s) \/ SkipJob(s) \/ EndJob(s)

Next == Crash \/ \E s \in Sessions : Turns(s) \/ Job(s)

Spec == Init /\ [][Next]_vars

\* The event loop runs a ready task, and the provider's requests time out.
FairSpec == Spec /\ \A s \in Sessions : WF_vars(Job(s))

----------------------------------------------------------------------------
Message == 1..MaxMsgs
Saved == [msgs : Seq(Message), lc : Int]
Request == [old : Seq(Message), seen : SUBSET (Sessions \X Message)]

\* The shape of the state.
TypeOK ==
    /\ msgs \in [Sessions -> Seq(Message)]
    /\ lc \in [Sessions -> Int]
    /\ file \in [Sessions -> Saved]
    /\ turn \in [Sessions -> {"idle", "turn", "new"}]
    /\ jobs \in [Sessions -> Seq({"bg", "new"})]
    /\ call \in [Sessions -> Seq(Request)]
    /\ guard \subseteq Sessions
    /\ history \in Seq([session : Sessions, msgs : SUBSET Message])
    /\ facts \subseteq Sessions \X Message
    /\ untold \subseteq Sessions \X Message
    /\ said \in [Sessions -> 0..MaxMsgs]
    /\ faults \in 0..MaxFaults

\* last_consolidated always points into the session, however consolidations,
\* /new and its cancellation meet.
OffsetInRange == \A s \in Sessions : lc[s] \in 0..Len(msgs[s])

\* The file holds the session's messages and never a later offset: a crash may
\* have messages summarised again, but never passed over.
DiskBehind == \A s \in Sessions : file[s].msgs = msgs[s] /\ file[s].lc \in 0..lc[s]

\* A session is never barred from consolidation when none is under way.
GuardMeansWork == \A s \in guard : jobs[s] # <<>>

Summarised(s) == UNION {history[i].msgs : i \in {j \in 1..Len(history) : history[j].session = s}}

\* No message is summarised twice, unless a crash or a failed write came between.
SummarisedOnce ==
    faults = 0 =>
        \A i, j \in 1..Len(history) :
            i # j /\ history[i].session = history[j].session => history[i].msgs \cap history[j].msgs = {}

\* The lock of a session: a /new is the last in its queue, nobody awaits the
\* model outside it, and what the holder works on is still the session's: there
\* is something to move the offset over, or /new has all the rest in hand.
LockOK(s) ==
    /\ call[s] # <<>> \/ turn[s] = "new" => jobs[s] # <<>>
    /\ \A i \in 1..Len(jobs[s]) : jobs[s][i] = "new" <=> turn[s] = "new" /\ i = Len(jobs[s])
    /\ call[s] # <<>> /\ jobs[s][1] = "bg" => lc[s] + Keep < Len(msgs[s])
    /\ call[s] # <<>> /\ jobs[s][1] = "new" =>
           call[s][1].old = SubSeq(msgs[s], lc[s] + 1, Len(msgs[s]))

\* The invariant every action preserves.
SessionInv(s) ==
    /\ lc[s] \in 0..Len(msgs[s])
    /\ file[s].msgs = msgs[s] /\ file[s].lc \in 0..lc[s]
    /\ s \in guard => jobs[s] # <<>>
    /\ LockOK(s)

IInv == TypeOK /\ \A s \in Sessions : SessionInv(s)

\* What the job at s's lock summarises lies between the offset and what is kept.
Unsettled(s) ==
    (lc[s] + 1)..(Len(msgs[s]) - (IF jobs[s][1] = "bg" THEN Keep ELSE 0))

\* A session's messages are told in order, and unless a fault came between, all
\* behind the offset are newer than every summary.
InOrder(s) ==
    /\ \A i \in 1..Len(msgs[s]) : msgs[s][i] <= said[s]
    /\ \A i, k \in 1..Len(msgs[s]) : i < k => msgs[s][i] < msgs[s][k]
    /\ faults = 0 =>
        \A e \in 1..Len(history) : history[e].session = s =>
            \A m \in history[e].msgs :
                m <= said[s] /\ \A i \in (lc[s] + 1)..Len(msgs[s]) : m < msgs[s][i]
    /\ call[s] # <<>> => ToSet(call[s][1].old) \subseteq {msgs[s][i] : i \in Unsettled(s)}

OnceInv == (\A s \in Sessions : InOrder(s)) /\ SummarisedOnce

ClearsOnlyArchived(s) ==
    msgs'[s] = <<>> =>
        \A i \in (lc[s] + 1)..Len(msgs[s]) :
            msgs[s][i] \in Summarised(s)' \/ <<s, msgs[s][i]>> \in untold'

\* /new clears no message that awaits its summary: it was summarised, or the model was
\* asked to and called save_memory without an entry that the policy let pass.
ClearedAreArchived == [][\A s \in Sessions : ClearsOnlyArchived(s)]_vars

KeepsMessages(s) ==
    \/ turn[s] = "new" /\ msgs'[s] = <<>>
    \/ /\ Len(msgs[s]) <= Len(msgs'[s])
       /\ \A i \in 1..Len(msgs[s]) : msgs'[s][i] = msgs[s][i]

\* "Messages are append-only": apart from /new's clear, no step and no restart
\* takes a message back.
MessagesAppendOnly == [][\A s \in Sessions : KeepsMessages(s)]_vars

\* The guard is let down in the end.
GuardReleased == \A s \in Sessions : s \in guard ~> s \notin guard

----------------------------------------------------------------------------
(* What comments say, and the code does not do. *)

\* "Number of messages already consolidated to files": what last_consolidated
\* hides from the model was summarised, or the model left it out of its answer.
NothingForgotten ==
    \A s \in Sessions : \A i \in 1..lc[s] :
        msgs[s][i] \in Summarised(s) \/ <<s, msgs[s][i]>> \in untold

\* MEMORY.md keeps what was written to it.
FactsKept == [][facts \subseteq facts']_vars
=============================================================================
