---------------------------- MODULE MemoryProofs ----------------------------
(***************************************************************************)
(* Facts about SessionMemory for any sessions, window and bounds: whatever *)
(* consolidations, /new, its cancellation and restarts do, the offset      *)
(* points into the session, the file never holds a later one, and /new     *)
(* clears only what was archived.                                          *)
(***************************************************************************)
EXTENDS SessionMemory, SequenceTheorems, TLAPS

USE WindowAssumption, BoundsAssumption, NotableAssumption

Kinds == {"bg", "new"}
Entry == [session : Sessions, msgs : SUBSET Message]

\* The types of one session's state.
LEMMA SessionTypes ==
    ASSUME IInv, NEW s \in Sessions
    PROVE  /\ msgs[s] \in Seq(Message) /\ Len(msgs[s]) \in Nat
           /\ jobs[s] \in Seq(Kinds) /\ Len(jobs[s]) \in Nat
           /\ lc[s] \in 0..Len(msgs[s]) /\ lc[s] \in Nat /\ Keep \in Nat
           /\ call[s] \in Seq(Request) /\ file[s] \in Saved
           /\ turn[s] \in {"idle", "turn", "new"}
  <1>1. /\ msgs[s] \in Seq(Message) /\ jobs[s] \in Seq(Kinds) /\ lc[s] \in 0..Len(msgs[s])
        /\ call[s] \in Seq(Request) /\ file[s] \in Saved /\ turn[s] \in {"idle", "turn", "new"}
    BY DEF IInv, TypeOK, SessionInv, Kinds
  <1>2. Len(msgs[s]) \in Nat /\ Len(jobs[s]) \in Nat
    BY <1>1, LenProperties
  <1>3. Keep \in Nat
    BY DEF Keep
  <1> QED
    BY <1>1, <1>2, <1>3

\* A session an action does not touch keeps its invariant.
LEMMA OtherSession ==
    ASSUME IInv, NEW t \in Sessions, t \in guard' => t \in guard,
           UNCHANGED <<msgs[t], lc[t], file[t], turn[t], jobs[t], call[t]>>
    PROVE  SessionInv(t)'
  BY DEF IInv, SessionInv, LockOK

\* A command joins the queue of its session's lock.
LEMMA JoinQueue ==
    ASSUME IInv, NEW s \in Sessions, NEW k \in Kinds, turn[s] = "idle",
           jobs' = [jobs EXCEPT ![s] = Append(@, k)],
           turn' = [turn EXCEPT ![s] = IF k = "new" THEN "new" ELSE "turn"],
           guard' = guard \cup {s},
           UNCHANGED <<session, call, memory, faults>>
    PROVE  IInv'
  <1>1. /\ jobs[s] \in Seq(Kinds) /\ Len(jobs[s]) \in Nat
        /\ jobs'[s] = Append(jobs[s], k) /\ turn'[s] = IF k = "new" THEN "new" ELSE "turn"
    BY SessionTypes DEF IInv, TypeOK
  <1>2. /\ jobs'[s] \in Seq(Kinds) /\ jobs'[s] # <<>> /\ Len(jobs'[s]) = Len(jobs[s]) + 1
        /\ \A i \in 1..Len(jobs[s]) : jobs'[s][i] = jobs[s][i]
        /\ jobs'[s][Len(jobs[s]) + 1] = k
    BY <1>1, AppendProperties
  <1>3. TypeOK'
    <2>1. jobs' \in [Sessions -> Seq({"bg", "new"})]
      BY <1>1, <1>2 DEF IInv, TypeOK, Kinds
    <2>2. turn' \in [Sessions -> {"idle", "turn", "new"}]
      BY DEF IInv, TypeOK
    <2> QED
      BY <2>1, <2>2 DEF IInv, TypeOK, session, memory
  <1>4. \A i \in 1..Len(jobs[s]) : jobs[s][i] # "new"
    BY DEF IInv, SessionInv, LockOK
  <1>5. call[s] # <<>> => jobs[s] # <<>> /\ jobs'[s][1] = jobs[s][1] /\ jobs[s][1] # "new"
    <2>1. call[s] # <<>> => Len(jobs[s]) \in Nat \ {0}
      BY <1>1, EmptySeq DEF IInv, SessionInv, LockOK
    <2> QED
      BY <1>1, <1>2, <1>4, <2>1 DEF IInv, SessionInv, LockOK
  <1>6. \A i \in 1..Len(jobs'[s]) :
            jobs'[s][i] = "new" <=> turn'[s] = "new" /\ i = Len(jobs'[s])
    BY <1>1, <1>2, <1>4 DEF Kinds
  <1>7. LockOK(s)'
    BY <1>2, <1>5, <1>6 DEF IInv, SessionInv, LockOK, session
  <1>8. SessionInv(s)'
    BY <1>2, <1>7 DEF IInv, SessionInv, session
  <1>9. ASSUME NEW t \in Sessions, t # s PROVE SessionInv(t)'
    BY <1>9, OtherSession DEF IInv, TypeOK, session
  <1> QED
    BY <1>3, <1>8, <1>9 DEF IInv

\* A turn starts or ends and leaves the lock alone.
LEMMA TurnChanges ==
    ASSUME IInv, NEW s \in Sessions, NEW x \in {"idle", "turn"}, turn[s] # "new",
           turn' = [turn EXCEPT ![s] = x], facts' \subseteq Sessions \X Message,
           UNCHANGED <<session, jobs, call, guard, history, untold, faults>>
    PROVE  IInv'
  <1>1. TypeOK'
    <2>1. turn' \in [Sessions -> {"idle", "turn", "new"}]
      BY DEF IInv, TypeOK
    <2> QED
      BY <2>1 DEF IInv, TypeOK, session
  <1>2. turn'[s] # "new"
    BY DEF IInv, TypeOK
  <1>3. SessionInv(s)'
    BY <1>2 DEF IInv, SessionInv, LockOK, session
  <1>4. ASSUME NEW t \in Sessions, t # s PROVE SessionInv(t)'
    BY <1>4, OtherSession DEF IInv, TypeOK, session
  <1> QED
    BY <1>1, <1>3, <1>4 DEF IInv

LEMMA InitInvariant == Init => IInv
  <1> SUFFICES ASSUME Init PROVE IInv
    OBVIOUS
  <1>1. TypeOK
    <2>1. /\ <<>> \in Seq(Message) /\ <<>> \in Seq(Kinds) /\ <<>> \in Seq(Request)
          /\ history \in Seq([session : Sessions, msgs : SUBSET Message])
      BY EmptySeq DEF Init
    <2>2. [msgs |-> <<>>, lc |-> 0] \in Saved
      BY <2>1 DEF Saved
    <2>3. msgs \in [Sessions -> Seq(Message)] /\ call \in [Sessions -> Seq(Request)]
      BY <2>1 DEF Init
    <2>4. jobs \in [Sessions -> Seq({"bg", "new"})] /\ file \in [Sessions -> Saved]
      BY <2>1, <2>2 DEF Init, Kinds
    <2>5. lc \in [Sessions -> Int] /\ said \in [Sessions -> 0..MaxMsgs] /\ faults \in 0..MaxFaults
      BY DEF Init
    <2>6. turn \in [Sessions -> {"idle", "turn", "new"}]
      BY DEF Init
    <2> QED
      BY <2>1, <2>3, <2>4, <2>5, <2>6 DEF Init, TypeOK
  <1>2. ASSUME NEW s \in Sessions PROVE SessionInv(s)
    <2>1. Len(<<>>) = 0
      BY EmptySeq
    <2>2. /\ msgs[s] = <<>> /\ lc[s] = 0 /\ file[s] = [msgs |-> <<>>, lc |-> 0]
          /\ turn[s] = "idle" /\ jobs[s] = <<>> /\ call[s] = <<>> /\ guard = {}
      BY DEF Init
    <2> QED
      BY <2>1, <2>2 DEF SessionInv, LockOK
  <1> QED
    BY <1>1, <1>2 DEF IInv

LEMMA EndTurnInvariant ==
    ASSUME IInv, NEW s \in Sessions, EndTurn(s)
    PROVE  /\ IInv' /\ Len(msgs[s]) <= Len(msgs'[s])
           /\ \A i \in 1..Len(msgs[s]) : msgs'[s][i] = msgs[s][i]
  <1>1. PICK n \in 1..2 :
            /\ said[s] + n <= MaxMsgs
            /\ msgs' = [msgs EXCEPT ![s] = @ \o Fresh(s, n)]
            /\ said' = [said EXCEPT ![s] = @ + n]
    BY DEF EndTurn
  <1> DEFINE new == Fresh(s, n)
  <1>2. said[s] \in 0..MaxMsgs /\ said' \in [Sessions -> 0..MaxMsgs]
    BY <1>1 DEF IInv, TypeOK
  <1>3. new \in Seq(Message)
    <2>1. new \in [1..n -> Message]
      BY <1>1, <1>2 DEF Fresh, Message
    <2> QED
      BY <2>1, SeqDef
  <1> HIDE DEF new
  <1>4. /\ msgs[s] \in Seq(Message) /\ Len(msgs[s]) \in Nat /\ Len(new) \in Nat
        /\ msgs'[s] = msgs[s] \o new
    BY <1>1, <1>3, SessionTypes, LenProperties DEF IInv, TypeOK, new
  <1>5. /\ msgs'[s] \in Seq(Message) /\ Len(msgs'[s]) = Len(msgs[s]) + Len(new)
        /\ \A i \in 1..Len(msgs[s]) : msgs'[s][i] = msgs[s][i]
    BY <1>3, <1>4, ConcatProperties
  <1>6. TypeOK'
    <2>1. msgs' \in [Sessions -> Seq(Message)]
      BY <1>1, <1>4, <1>5 DEF IInv, TypeOK
    <2>2. [msgs |-> msgs'[s], lc |-> lc[s]] \in Saved
      BY <1>5 DEF IInv, TypeOK, Saved
    <2>3. file' \in [Sessions -> Saved]
      BY <2>2 DEF IInv, TypeOK, EndTurn
    <2>4. turn' \in [Sessions -> {"idle", "turn", "new"}]
      BY DEF IInv, TypeOK, EndTurn
    <2> QED
      BY <1>2, <2>1, <2>3, <2>4 DEF IInv, TypeOK, EndTurn, memory
  <1>7. SessionInv(s)'
    <2>1. /\ turn[s] = "turn" /\ turn'[s] = "idle" /\ file'[s] = [msgs |-> msgs'[s], lc |-> lc[s]]
          /\ UNCHANGED <<lc, jobs, call, guard>>
      BY DEF IInv, TypeOK, EndTurn
    <2>2. lc[s] \in Nat /\ lc[s] \in 0..Len(msgs[s]) /\ Keep \in Nat
      BY SessionTypes
    <2>3. \A i \in 1..Len(jobs[s]) : jobs[s][i] # "new"
      BY <2>1 DEF IInv, SessionInv, LockOK
    <2>4. call[s] # <<>> => jobs[s] # <<>> /\ jobs[s][1] # "new"
      <3>1. call[s] # <<>> => Len(jobs[s]) \in Nat \ {0}
        BY SessionTypes, EmptySeq DEF IInv, SessionInv, LockOK
      <3> QED
        BY <2>3, <3>1 DEF IInv, SessionInv, LockOK
    <2>5. LockOK(s)'
      BY <1>4, <1>5, <2>1, <2>2, <2>3, <2>4 DEF IInv, SessionInv, LockOK
    <2> QED
      BY <1>4, <1>5, <2>1, <2>2, <2>5 DEF IInv, SessionInv
  <1>8. ASSUME NEW t \in Sessions, t # s PROVE SessionInv(t)'
    <2>1. UNCHANGED <<msgs[t], lc[t], file[t], turn[t], jobs[t], call[t], guard>>
      BY <1>1, <1>8 DEF IInv, TypeOK, EndTurn
    <2> QED
      BY <2>1, OtherSession
  <1> QED
    BY <1>4, <1>5, <1>6, <1>7, <1>8 DEF IInv

LEMMA StopNewInvariant ==
    ASSUME IInv, NEW s \in Sessions, StopNew(s)
    PROVE  IInv'
  <1> DEFINE n == Len(jobs[s])
  <1>1. /\ jobs[s] \in Seq(Kinds) /\ n \in Nat \ {0} /\ turn[s] = "new"
        /\ jobs[s][n] = "new" /\ \A i \in 1..(n - 1) : jobs[s][i] # "new"
    <2>1. jobs[s] \in Seq(Kinds) /\ turn[s] = "new" /\ jobs[s] # <<>>
      BY SessionTypes DEF StopNew, IInv, SessionInv, LockOK
    <2>2. n \in Nat \ {0}
      BY <2>1, EmptySeq
    <2> QED
      BY <2>1, <2>2 DEF IInv, SessionInv, LockOK
  <1>2. /\ turn' = [turn EXCEPT ![s] = "idle"] /\ guard' = guard \ {s}
        /\ jobs' = [jobs EXCEPT ![s] = SubSeq(jobs[s], 1, n - 1)]
        /\ call' = IF n = 1 THEN [call EXCEPT ![s] = <<>>] ELSE call
    BY DEF StopNew
  <1> DEFINE rest == SubSeq(jobs[s], 1, n - 1)
  <1>3. /\ rest \in Seq(Kinds) /\ Len(rest) = n - 1
        /\ \A i \in 1..(n - 1) : rest[i] = jobs[s][i]
    <2>1. \A i \in 1..(n - 1) : jobs[s][i] \in Kinds
      BY <1>1, ElementOfSeq
    <2> QED
      BY <1>1, <2>1, SubSeqProperties
  <1>4. TypeOK'
    <2>1. jobs' \in [Sessions -> Seq({"bg", "new"})]
      BY <1>2, <1>3 DEF IInv, TypeOK, Kinds
    <2>2. turn' \in [Sessions -> {"idle", "turn", "new"}]
      BY <1>2 DEF IInv, TypeOK
    <2>3. call' \in [Sessions -> Seq(Request)]
      <3>1. <<>> \in Seq(Request)
        BY EmptySeq
      <3> QED
        BY <1>2, <3>1 DEF IInv, TypeOK
    <2>4. guard' \subseteq Sessions
      BY <1>2 DEF IInv, TypeOK
    <2> QED
      BY <2>1, <2>2, <2>3, <2>4 DEF IInv, TypeOK, StopNew, session, memory
  <1>5. turn'[s] = "idle" /\ jobs'[s] = rest /\ s \notin guard'
    BY <1>2 DEF IInv, TypeOK
  <1> HIDE DEF n, rest
  <1>6. UNCHANGED <<msgs, lc, file>>
    BY DEF StopNew, session
  <1>7. LockOK(s)'
    <2>1. CASE n = 1
      <3>1. call'[s] = <<>>
        BY <1>2, <2>1 DEF IInv, TypeOK
      <3> QED
        BY <1>1, <1>3, <1>5, <2>1, <3>1 DEF LockOK
    <2>2. CASE n # 1
      <3>1. call' = call /\ Len(rest) # 0 /\ rest[1] = jobs[s][1] /\ rest[1] # "new"
        BY <1>1, <1>2, <1>3, <2>2
      <3>2. rest # <<>>
        BY <3>1, EmptySeq
      <3> QED
        BY <1>1, <1>3, <1>5, <1>6, <3>1, <3>2 DEF IInv, SessionInv, LockOK
    <2> QED
      BY <2>1, <2>2
  <1>8. SessionInv(s)'
    BY <1>5, <1>6, <1>7 DEF IInv, SessionInv
  <1>9. ASSUME NEW t \in Sessions, t # s PROVE SessionInv(t)'
    <2>1. UNCHANGED <<msgs[t], lc[t], file[t], turn[t], jobs[t], call[t]>>
      BY <1>2, <1>6, <1>9 DEF IInv, TypeOK
    <2> QED
      BY <1>2, <2>1, OtherSession
  <1> QED
    BY <1>4, <1>8, <1>9 DEF IInv

\* What the lock's holder is about to summarise lies inside the session.
LEMMA DueFacts ==
    ASSUME IInv, NEW s \in Sessions, jobs[s] # <<>>
    PROVE  /\ Due(s) \in Seq(Message) /\ jobs[s][1] \in Kinds /\ Head(jobs[s]) = jobs[s][1]
           /\ jobs[s][1] = "new" => Due(s) = SubSeq(msgs[s], lc[s] + 1, Len(msgs[s]))
           /\ jobs[s][1] = "bg" /\ Due(s) # <<>> => lc[s] + Keep < Len(msgs[s])
  <1>1. /\ msgs[s] \in Seq(Message) /\ Len(msgs[s]) \in Nat /\ lc[s] \in Nat /\ Keep \in Nat
        /\ jobs[s] \in Seq(Kinds) /\ jobs[s][1] \in Kinds /\ Head(jobs[s]) = jobs[s][1]
    <2>1. jobs[s] \in Seq(Kinds) /\ Len(jobs[s]) \in Nat \ {0}
      BY SessionTypes, EmptySeq
    <2> QED
      BY <2>1, SessionTypes, ElementOfSeq
  <1>2. \A i \in 1..Len(msgs[s]) : msgs[s][i] \in Message
    BY <1>1, ElementOfSeq
  <1>3. SubSeq(msgs[s], lc[s] + 1, Len(msgs[s])) \in Seq(Message)
    BY <1>1, <1>2, SubSeqProperties
  <1>4. /\ SubSeq(msgs[s], lc[s] + 1, Len(msgs[s]) - Keep) \in Seq(Message)
        /\ SubSeq(msgs[s], lc[s] + 1, Len(msgs[s]) - Keep) # <<>> => lc[s] + Keep < Len(msgs[s])
    <2> DEFINE a == lc[s] + 1
               b == Len(msgs[s]) - Keep
    <2>1. a \in Int /\ b \in Int /\ a..b \subseteq 1..Len(msgs[s]) /\ (lc[s] + Keep < Len(msgs[s]) <=> a <= b)
      BY <1>1
    <2> HIDE DEF a, b
    <2>2. SubSeq(msgs[s], a, b) \in Seq(Message)
      BY <1>2, <2>1, SubSeqProperties
    <2>3. SubSeq(msgs[s], a, b) # <<>> => a <= b
      BY <2>1, SubSeqEmpty
    <2> QED
      BY <2>1, <2>2, <2>3 DEF a, b
  <1>5. <<>> \in Seq(Message)
    BY EmptySeq
  <1> QED
    BY <1>1, <1>3, <1>4, <1>5 DEF Due, OldMessages, Kinds

LEMMA BeginJobInvariant ==
    ASSUME IInv, NEW s \in Sessions, BeginJob(s)
    PROVE  IInv'
  <1> DEFINE r == [old |-> Due(s), seen |-> facts]
  <1>1. /\ jobs[s] # <<>> /\ Due(s) # <<>> /\ call' = [call EXCEPT ![s] = <<r>>]
        /\ UNCHANGED <<msgs, lc, file, turn, jobs, guard>>
    BY DEF BeginJob, session
  <1>2. r \in Request
    BY <1>1, DueFacts DEF Request, IInv, TypeOK
  <1>3. r.old = Due(s)
    OBVIOUS
  <1> HIDE DEF r
  <1>4. <<r>> \in Seq(Request) /\ <<r>>[1] = r
    BY <1>2
  <1>5. TypeOK'
    <2>1. call' \in [Sessions -> Seq(Request)]
      BY <1>1, <1>4 DEF IInv, TypeOK
    <2> QED
      BY <2>1 DEF IInv, TypeOK, BeginJob, session, memory
  <1>6. call'[s][1].old = Due(s)
    BY <1>1, <1>3, <1>4 DEF IInv, TypeOK
  <1>7. SessionInv(s)'
    BY <1>1, <1>6, DueFacts DEF IInv, SessionInv, LockOK
  <1>8. ASSUME NEW t \in Sessions, t # s PROVE SessionInv(t)'
    BY <1>1, <1>8, OtherSession DEF IInv, TypeOK
  <1> QED
    BY <1>5, <1>7, <1>8 DEF IInv

\* Leaving the lock keeps the queue in order.
LEMMA LeaveLockFacts ==
    ASSUME IInv, NEW s \in Sessions, jobs[s] # <<>>, LeaveLock(s)
    PROVE  /\ jobs' \in [Sessions -> Seq({"bg", "new"})]
           /\ call' \in [Sessions -> Seq(Request)]
           /\ turn' \in [Sessions -> {"idle", "turn", "new"}]
           /\ guard' \subseteq Sessions /\ s \notin guard'
           /\ LockOK(s)'
           /\ \A t \in Sessions : t # s =>
                  UNCHANGED <<turn[t], jobs[t], call[t]>> /\ (t \in guard' => t \in guard)
  <1> DEFINE n == Len(jobs[s])
             rest == Tail(jobs[s])
  <1>1. jobs[s] \in Seq(Kinds) /\ n \in Nat \ {0} /\ turn[s] \in {"idle", "turn", "new"}
    BY SessionTypes, EmptySeq
  <1>2. /\ rest \in Seq(Kinds) /\ Len(rest) = n - 1
        /\ \A i \in 1..(n - 1) : rest[i] = jobs[s][i + 1]
    BY <1>1, HeadTailProperties
  <1>3. /\ jobs' = [jobs EXCEPT ![s] = rest] /\ call' = [call EXCEPT ![s] = <<>>]
        /\ guard' = guard \ {s}
        /\ turn' = IF jobs[s][1] = "new" THEN [turn EXCEPT ![s] = "idle"] ELSE turn
    BY <1>1, DueFacts DEF LeaveLock
  <1>4. \A i \in 1..n : jobs[s][i] = "new" <=> turn[s] = "new" /\ i = n
    BY DEF IInv, SessionInv, LockOK
  <1> HIDE DEF n, rest
  <1>5. /\ jobs' \in [Sessions -> Seq({"bg", "new"})] /\ jobs'[s] = rest
        /\ call' \in [Sessions -> Seq(Request)] /\ call'[s] = <<>>
        /\ guard' \subseteq Sessions /\ s \notin guard'
    <2>1. <<>> \in Seq(Request)
      BY EmptySeq
    <2> QED
      BY <1>2, <1>3, <2>1 DEF IInv, TypeOK, Kinds
  <1>6. turn' \in [Sessions -> {"idle", "turn", "new"}]
    BY <1>3 DEF IInv, TypeOK
  <1>7. LockOK(s)'
    <2>1. CASE jobs[s][1] = "new"
      <3>1. n = 1 /\ turn'[s] = "idle"
        BY <1>1, <1>3, <1>4, <2>1 DEF IInv, TypeOK
      <3> QED
        BY <1>2, <1>5, <3>1 DEF LockOK
    <2>2. CASE jobs[s][1] # "new"
      <3>1. turn' = turn
        BY <1>3, <2>2
      <3>2. \A i \in 1..Len(rest) : rest[i] = "new" <=> turn'[s] = "new" /\ i = Len(rest)
        BY <1>1, <1>2, <1>4, <3>1
      <3>3. turn'[s] = "new" => rest # <<>>
        <4>1. turn[s] = "new" => n # 1
          BY <1>1, <1>4, <2>2
        <4> QED
          BY <1>1, <1>2, <3>1, <4>1, EmptySeq
      <3> QED
        BY <1>5, <3>2, <3>3 DEF LockOK
    <2> QED
      BY <2>1, <2>2
  <1>8. ASSUME NEW t \in Sessions, t # s
        PROVE  UNCHANGED <<turn[t], jobs[t], call[t]>> /\ (t \in guard' => t \in guard)
    BY <1>3, <1>8 DEF IInv, TypeOK
  <1> QED
    BY <1>5, <1>6, <1>7, <1>8

\* A job ends that leaves the session's messages and offset alone.
LEMMA JobEndsQuietly ==
    ASSUME IInv, NEW s \in Sessions, jobs[s] # <<>>, LeaveLock(s), UNCHANGED session,
           history' \in Seq(Entry), facts' \subseteq Sessions \X Message, untold' \subseteq Sessions \X Message,
           faults' \in 0..MaxFaults
    PROVE  IInv'
  <1>1. TypeOK'
    BY LeaveLockFacts DEF IInv, TypeOK, session, Entry
  <1>2. SessionInv(s)'
    BY LeaveLockFacts DEF IInv, SessionInv, session
  <1>3. ASSUME NEW t \in Sessions, t # s PROVE SessionInv(t)'
    BY <1>3, LeaveLockFacts, OtherSession DEF session
  <1> QED
    BY <1>1, <1>2, <1>3 DEF IInv

\* /new clears the session.
LEMMA JobClears ==
    ASSUME IInv, NEW s \in Sessions, jobs[s] # <<>>, LeaveLock(s), Clear(s),
           history' \in Seq(Entry), facts' \subseteq Sessions \X Message, untold' \subseteq Sessions \X Message,
           faults' = faults
    PROVE  IInv'
  <1>1. <<>> \in Seq(Message) /\ Len(<<>>) = 0
    BY EmptySeq
  <1>2. [msgs |-> <<>>, lc |-> 0] \in Saved
    BY <1>1 DEF Saved
  <1>3. /\ msgs' \in [Sessions -> Seq(Message)] /\ lc' \in [Sessions -> Int]
        /\ file' \in [Sessions -> Saved]
    BY <1>1, <1>2 DEF IInv, TypeOK, Clear
  <1>4. TypeOK'
    BY <1>3, LeaveLockFacts DEF IInv, TypeOK, Clear, Entry
  <1>5. msgs'[s] = <<>> /\ lc'[s] = 0 /\ file'[s] = [msgs |-> <<>>, lc |-> 0]
    BY DEF IInv, TypeOK, Clear
  <1>6. SessionInv(s)'
    BY <1>1, <1>5, LeaveLockFacts DEF SessionInv
  <1>7. ASSUME NEW t \in Sessions, t # s PROVE SessionInv(t)'
    <2>1. UNCHANGED <<msgs[t], lc[t], file[t]>>
      BY <1>7 DEF IInv, TypeOK, Clear
    <2> QED
      BY <1>7, <2>1, LeaveLockFacts, OtherSession
  <1> QED
    BY <1>4, <1>6, <1>7 DEF IInv

\* A background consolidation moves the offset on, within the session.
LEMMA JobAdvances ==
    ASSUME IInv, NEW s \in Sessions, jobs[s] # <<>>, call[s] # <<>>, jobs[s][1] = "bg",
           LeaveLock(s), Advance(s),
           history' \in Seq(Entry), facts' \subseteq Sessions \X Message, untold' \subseteq Sessions \X Message,
           faults' = faults
    PROVE  IInv'
  <1>1. /\ Len(msgs[s]) \in Nat /\ Keep \in Nat /\ lc[s] \in Nat
        /\ lc[s] + Keep < Len(msgs[s])
    BY SessionTypes DEF IInv, SessionInv, LockOK
  <1>2. /\ lc'[s] = Len(msgs[s]) - Keep /\ lc' \in [Sessions -> Int]
        /\ UNCHANGED <<msgs, file, said>>
    BY <1>1 DEF IInv, TypeOK, Advance
  <1>3. TypeOK'
    BY <1>2, LeaveLockFacts DEF IInv, TypeOK, Entry
  <1>4. file[s].msgs = msgs[s] /\ file[s].lc \in 0..lc[s]
    BY DEF IInv, SessionInv
  <1>5. lc'[s] \in 0..Len(msgs'[s]) /\ file'[s].lc \in 0..lc'[s]
    BY <1>1, <1>2, <1>4
  <1>6. SessionInv(s)'
    BY <1>2, <1>4, <1>5, LeaveLockFacts DEF SessionInv
  <1>7. ASSUME NEW t \in Sessions, t # s PROVE SessionInv(t)'
    <2>1. UNCHANGED <<msgs[t], lc[t], file[t]>>
      BY <1>7 DEF IInv, TypeOK, Advance
    <2> QED
      BY <1>7, <2>1, LeaveLockFacts, OtherSession
  <1> QED
    BY <1>3, <1>6, <1>7 DEF IInv

\* The entry a job adds to HISTORY.md, and the facts it may write.
LEMMA RecordFacts ==
    ASSUME IInv, NEW s \in Sessions, call[s] # <<>>
    PROVE  /\ call[s][1] \in Request /\ ToSet(call[s][1].old) \subseteq Message
           /\ jobs[s] # <<>>
           /\ Record(s) => /\ history' \in Seq(Entry) /\ Len(history') = Len(history) + 1
                           /\ \A i \in 1..Len(history) : history'[i] = history[i]
                           /\ history'[Len(history) + 1] =
                                  [session |-> s, msgs |-> ToSet(call[s][1].old)]
  <1>1. call[s] \in Seq(Request) /\ Len(call[s]) \in Nat \ {0}
    BY SessionTypes, EmptySeq
  <1>2. call[s][1] \in Request
    BY <1>1, ElementOfSeq
  <1>3. call[s][1].old \in Seq(Message)
    BY <1>2 DEF Request
  <1>4. ToSet(call[s][1].old) \subseteq Message
    BY <1>3, ElementOfSeq DEF ToSet
  <1> DEFINE e == [session |-> s, msgs |-> ToSet(call[s][1].old)]
  <1>5. e \in Entry /\ history \in Seq(Entry)
    BY <1>4 DEF Entry, IInv, TypeOK
  <1>6. Record(s) <=> history' = Append(history, e)
    BY DEF Record
  <1> HIDE DEF e
  <1>7. history' = Append(history, e) =>
            /\ history' \in Seq(Entry) /\ Len(history') = Len(history) + 1
            /\ \A i \in 1..Len(history) : history'[i] = history[i]
            /\ history'[Len(history) + 1] = e
    BY <1>5, AppendProperties
  <1>8. jobs[s] # <<>>
    BY DEF IInv, SessionInv, LockOK
  <1> QED
    BY <1>2, <1>4, <1>6, <1>7, <1>8 DEF e

LEMMA JobInvariant ==
    ASSUME IInv, NEW s \in Sessions, Job(s)
    PROVE  IInv'
  <1>1. /\ history \in Seq(Entry) /\ facts \subseteq Sessions \X Message /\ faults \in 0..MaxFaults
        /\ untold \subseteq Sessions \X Message
    BY DEF IInv, TypeOK, Entry
  <1>2. CASE SkipJob(s)
    <2>1. jobs[s] # <<>> /\ LeaveLock(s) /\ (Clear(s) \/ UNCHANGED session)
      BY <1>2 DEF SkipJob
    <2>2. /\ history' \in Seq(Entry) /\ facts' \subseteq Sessions \X Message /\ faults' = faults
          /\ untold' \subseteq Sessions \X Message
      BY <1>1, <1>2 DEF SkipJob, memory
    <2> QED
      BY <1>1, <2>1, <2>2, JobClears, JobEndsQuietly
  <1>3. CASE JobDone(s) \/ JobUntold(s)
    <2>1. call[s] # <<>> /\ jobs[s] # <<>> /\ LeaveLock(s) /\ faults' = faults /\ Answered(s)
      BY <1>3, RecordFacts DEF JobDone, JobUntold, Answered
    <2>2. history' \in Seq(Entry)
      BY <1>1, <1>3, <2>1, RecordFacts DEF JobDone, JobUntold
    <2>3. facts' \subseteq Sessions \X Message
      <3>1. call[s][1].seen \subseteq Sessions \X Message
        BY <2>1, RecordFacts DEF Request
      <3>2. {s} \X (ToSet(call[s][1].old) \cap Notable) \subseteq Sessions \X Message
        BY <2>1, RecordFacts
      <3> QED
        BY <1>1, <2>1, <3>1, <3>2 DEF Answered
    <2>4. Head(jobs[s]) = jobs[s][1]
      BY <2>1, DueFacts
    <2>5. Clear(s) \/ (jobs[s][1] = "bg" /\ Advance(s))
      BY <2>1, <2>4 DEF Answered
    <2>6. untold' \subseteq Sessions \X Message
      BY <1>1, <1>3, <2>1, RecordFacts DEF JobDone, JobUntold
    <2> QED
      BY <2>1, <2>2, <2>3, <2>5, <2>6, JobClears, JobAdvances
  <1>4. CASE JobFails(s)
    <2>1. jobs[s] # <<>> /\ LeaveLock(s) /\ UNCHANGED session
      BY <1>4, RecordFacts DEF JobFails
    <2>2. /\ history' \in Seq(Entry) /\ facts' \subseteq Sessions \X Message /\ faults' \in 0..MaxFaults
          /\ untold' \subseteq Sessions \X Message
      BY <1>1, <1>4 DEF JobFails, memory
    <2> QED
      BY <2>1, <2>2, JobEndsQuietly
  <1>5. CASE JobHalfDone(s)
    <2>1. jobs[s] # <<>> /\ LeaveLock(s) /\ UNCHANGED session /\ history' \in Seq(Entry)
      BY <1>5, RecordFacts DEF JobHalfDone
    <2>2. /\ facts' \subseteq Sessions \X Message /\ faults' \in 0..MaxFaults
          /\ untold' \subseteq Sessions \X Message
      BY <1>1, <1>5 DEF JobHalfDone
    <2> QED
      BY <2>1, <2>2, JobEndsQuietly
  <1> QED
    BY <1>2, <1>3, <1>4, <1>5, BeginJobInvariant DEF Job, EndJob

LEMMA TurnsInvariant ==
    ASSUME IInv, NEW s \in Sessions, Turns(s)
    PROVE  IInv'
  <1>1. facts \subseteq Sessions \X Message /\ turn \in [Sessions -> {"idle", "turn", "new"}]
    BY DEF IInv, TypeOK
  <1>2. CASE UserTurn(s)
    <2>1. CASE guard' = guard \cup {s} /\ jobs' = [jobs EXCEPT ![s] = Append(@, "bg")]
      BY <1>2, <2>1, JoinQueue DEF UserTurn, Kinds
    <2>2. CASE UNCHANGED <<guard, jobs>>
      BY <1>1, <1>2, <2>2, TurnChanges DEF UserTurn, memory
    <2> QED
      BY <1>2, <2>1, <2>2 DEF UserTurn
  <1>3. CASE SystemTurn(s)
    BY <1>1, <1>3, TurnChanges DEF SystemTurn, memory
  <1>4. CASE Remember(s)
    <2>1. turn' = [turn EXCEPT ![s] = "turn"] /\ turn[s] # "new"
      BY <1>1, <1>4 DEF Remember
    <2>2. facts' \subseteq Sessions \X Message
      <3>1. said[s] + 1 \in Message
        BY <1>4 DEF Remember, Message
      <3>2. facts' = facts \cup {<<s, said[s] + 1>>}
        BY <1>4 DEF Remember
      <3> QED
        BY <1>1, <3>1, <3>2
    <2>3. UNCHANGED <<session, jobs, call, guard, history, untold, faults>>
      BY <1>4 DEF Remember
    <2> QED
      BY <2>1, <2>2, <2>3, TurnChanges
  <1>5. CASE EndTurn(s)
    BY <1>5, EndTurnInvariant
  <1>6. CASE LoseTurn(s)
    BY <1>1, <1>6, TurnChanges DEF LoseTurn, memory
  <1>7. CASE NewCommand(s)
    BY <1>7, JoinQueue DEF NewCommand, Kinds
  <1>8. CASE StopNew(s)
    BY <1>8, StopNewInvariant
  <1> QED
    BY <1>2, <1>3, <1>4, <1>5, <1>6, <1>7, <1>8 DEF Turns

LEMMA CrashInvariant ==
    ASSUME IInv, Crash
    PROVE  IInv'
  <1>1. /\ msgs' = [s \in Sessions |-> file[s].msgs] /\ lc' = [s \in Sessions |-> file[s].lc]
        /\ turn' = [s \in Sessions |-> "idle"] /\ jobs' = [s \in Sessions |-> <<>>]
        /\ call' = [s \in Sessions |-> <<>>] /\ guard' = {}
        /\ UNCHANGED <<file, history, facts, untold, said>>
    BY DEF Crash, memory
  <1>2. <<>> \in Seq(Request) /\ <<>> \in Seq(Kinds) /\ Len(<<>>) = 0
    BY EmptySeq
  <1>3. \A s \in Sessions : file[s] \in Saved /\ file[s].msgs \in Seq(Message) /\ file[s].lc \in Int
    BY DEF IInv, TypeOK, Saved
  <1>4. TypeOK'
    <2>1. msgs' \in [Sessions -> Seq(Message)] /\ lc' \in [Sessions -> Int]
      BY <1>1, <1>3
    <2>2. jobs' \in [Sessions -> Seq({"bg", "new"})] /\ call' \in [Sessions -> Seq(Request)]
      BY <1>1, <1>2 DEF Kinds
    <2>3. turn' \in [Sessions -> {"idle", "turn", "new"}]
      BY <1>1
    <2>4. faults' \in 0..MaxFaults
      BY DEF IInv, TypeOK, Crash
    <2> QED
      BY <1>1, <2>1, <2>2, <2>3, <2>4 DEF IInv, TypeOK
  <1>5. ASSUME NEW s \in Sessions PROVE SessionInv(s)'
    <2>1. lc[s] \in 0..Len(msgs[s]) /\ Len(msgs[s]) \in Nat /\ file[s].msgs = msgs[s]
          /\ file[s].lc \in 0..lc[s]
      BY SessionTypes DEF IInv, SessionInv
    <2>2. lc'[s] \in 0..Len(msgs'[s]) /\ file'[s].msgs = msgs'[s] /\ file'[s].lc \in 0..lc'[s]
      BY <1>1, <2>1
    <2>3. LockOK(s)'
      BY <1>1, <1>2 DEF LockOK
    <2> QED
      BY <1>1, <2>2, <2>3 DEF SessionInv
  <1> QED
    BY <1>4, <1>5 DEF IInv

LEMMA NextInvariant == IInv /\ [Next]_vars => IInv'
  <1> SUFFICES ASSUME IInv, [Next]_vars PROVE IInv'
    OBVIOUS
  <1>1. CASE Crash
    BY <1>1, CrashInvariant
  <1>2. CASE \E s \in Sessions : Turns(s) \/ Job(s)
    BY <1>2, TurnsInvariant, JobInvariant
  <1>3. CASE UNCHANGED vars
    BY <1>3 DEF IInv, TypeOK, SessionInv, LockOK, vars
  <1> QED
    BY <1>1, <1>2, <1>3 DEF Next

LEMMA Invariant == Spec => []IInv
  <1>1. Init => IInv
    BY InitInvariant
  <1>2. IInv /\ [Next]_vars => IInv'
    BY NextInvariant
  <1> QED
    BY <1>1, <1>2, PTL DEF Spec

\* The state of sessions, files and consolidations keeps its shape.
THEOREM TypeCorrect == Spec => []TypeOK
  BY Invariant, PTL DEF IInv

\* last_consolidated always points into the session.
THEOREM OffsetStaysInRange == Spec => []OffsetInRange
  <1>1. IInv => OffsetInRange
    BY DEF IInv, SessionInv, OffsetInRange
  <1> QED
    BY <1>1, Invariant, PTL

\* A restart has messages summarised again at worst; it passes over none.
THEOREM RestartsRepeat == Spec => []DiskBehind
  <1>1. IInv => DiskBehind
    BY DEF IInv, SessionInv, DiskBehind
  <1> QED
    BY <1>1, Invariant, PTL

\* The guard bars a session from consolidation only while there is a job.
THEOREM GuardIsHonest == Spec => []GuardMeansWork
  <1>1. IInv => GuardMeansWork
    BY DEF IInv, TypeOK, SessionInv, GuardMeansWork
  <1> QED
    BY <1>1, Invariant, PTL

\* Apart from /new's clear no step, and no restart, takes a message back.
THEOREM SessionsAppendOnly == Spec => MessagesAppendOnly
  <1>1. IInv /\ [Next]_vars => [\A s \in Sessions : KeepsMessages(s)]_vars
    <2> SUFFICES ASSUME IInv, [Next]_vars, NEW t \in Sessions
                 PROVE  KeepsMessages(t)
      OBVIOUS
    <2>1. Len(msgs[t]) \in Nat
      BY SessionTypes
    <2>2. msgs'[t] = msgs[t] => KeepsMessages(t)
      BY <2>1 DEF KeepsMessages
    <2>3. ASSUME NEW s \in Sessions, Turns(s) \/ Job(s) PROVE KeepsMessages(t)
      <3>1. CASE EndTurn(s)
        <4>1. t # s => msgs'[t] = msgs[t]
          BY <3>1 DEF EndTurn, IInv, TypeOK
        <4> QED
          BY <2>2, <3>1, <4>1, EndTurnInvariant DEF KeepsMessages
      <3>2. CASE jobs[s] # <<>> /\ Head(jobs[s]) = "new" /\ Clear(s)
        <4>1. t # s => msgs'[t] = msgs[t]
          BY <3>2 DEF Clear, IInv, TypeOK
        <4>2. turn[s] = "new"
          <5>1. Len(jobs[s]) \in Nat \ {0} /\ jobs[s][1] = "new"
            BY <3>2, SessionTypes, EmptySeq, DueFacts
          <5> QED
            BY <5>1 DEF IInv, SessionInv, LockOK
        <4>3. msgs'[s] = <<>>
          BY <3>2 DEF Clear, IInv, TypeOK
        <4> QED
          BY <2>2, <4>1, <4>2, <4>3 DEF KeepsMessages
      <3>3. CASE UNCHANGED msgs
        BY <2>2, <3>3
      <3> QED
        BY <2>3, <3>1, <3>2, <3>3, RecordFacts
           DEF Turns, UserTurn, SystemTurn, Remember, LoseTurn, NewCommand, StopNew, Job, EndJob,
               BeginJob, SkipJob, JobDone, JobUntold, Answered, JobFails, JobHalfDone, Advance, session
    <2>4. CASE Crash
      BY <2>2, <2>4 DEF Crash, IInv, SessionInv
    <2> QED
      BY <2>2, <2>3, <2>4 DEF Next, vars
  <1> QED
    BY <1>1, Invariant, PTL DEF Spec, MessagesAppendOnly

\* /new clears no message that awaits its summary: what it had the model summarise is
\* all the session held.
THEOREM NewArchivesAll == Spec => ClearedAreArchived
  <1>1. IInv /\ [Next]_vars => [\A s \in Sessions : ClearsOnlyArchived(s)]_vars
    <2> SUFFICES ASSUME IInv, [Next]_vars, NEW t \in Sessions, msgs'[t] = <<>>,
                        NEW i \in (lc[t] + 1)..Len(msgs[t])
                 PROVE  msgs[t][i] \in Summarised(t)' \/ <<t, msgs[t][i]>> \in untold'
      BY DEF ClearsOnlyArchived
    <2>1. Len(msgs[t]) \in Nat /\ lc[t] \in Nat /\ msgs[t] \in Seq(Message) /\ Len(<<>>) = 0
      BY SessionTypes, EmptySeq
    <2>2. msgs'[t] # msgs[t]
      BY <2>1
    <2>3. ~Crash /\ ~UNCHANGED vars
      BY <2>2 DEF Crash, IInv, SessionInv, vars
    <2>4. PICK s \in Sessions : Turns(s) \/ Job(s)
      BY <2>3 DEF Next
    <2>5. ~EndTurn(s)
      <3>1. SUFFICES ASSUME EndTurn(s) PROVE FALSE
        OBVIOUS
      <3>2. t # s => msgs'[t] = msgs[t]
        BY <3>1 DEF EndTurn, IInv, TypeOK
      <3> QED
        BY <2>1, <2>2, <3>1, <3>2, EndTurnInvariant
    <2>6. jobs[s] # <<>> /\ Head(jobs[s]) = "new" /\ Clear(s) /\ (SkipJob(s) \/ JobDone(s) \/ JobUntold(s))
      BY <2>2, <2>4, <2>5, RecordFacts
         DEF Turns, UserTurn, SystemTurn, Remember, LoseTurn, NewCommand, StopNew, Job, EndJob,
             BeginJob, SkipJob, JobDone, JobUntold, Answered, JobFails, JobHalfDone, Advance, session
    <2>7. t = s /\ jobs[s][1] = "new"
      BY <2>2, <2>6, DueFacts DEF Clear, IInv, TypeOK
    <2> DEFINE all == SubSeq(msgs[s], lc[s] + 1, Len(msgs[s]))
    <2>8. Len(all) = Len(msgs[s]) - lc[s] /\ all[i - lc[s]] = msgs[s][i] /\ i - lc[s] \in 1..Len(all)
      <3>1. \A k \in (lc[s] + 1)..Len(msgs[s]) : msgs[s][k] \in Message
        BY <2>1, <2>7, ElementOfSeq
      <3> DEFINE a == lc[s] + 1
                 b == Len(msgs[s])
      <3>2. a \in Int /\ b \in Int /\ a <= b /\ i - lc[s] \in 1..(b - a + 1) /\ a + (i - lc[s]) - 1 = i
        <4>1. lc[s] \in Nat /\ Len(msgs[s]) \in Nat /\ i \in (lc[s] + 1)..Len(msgs[s])
          BY <2>1, <2>7
        <4> DEFINE l == lc[s]
                   n == Len(msgs[s])
        <4>2. l \in Nat /\ n \in Nat /\ i \in (l + 1)..n
          BY <4>1
        <4> HIDE DEF l, n
        <4>3. /\ l + 1 \in Int /\ n \in Int /\ l + 1 <= n /\ i - l \in 1..(n - (l + 1) + 1)
              /\ l + 1 + (i - l) - 1 = i
          BY <4>2
        <4> QED
          BY <4>3 DEF l, n
      <3>3. b - a + 1 = Len(msgs[s]) - lc[s]
        BY <2>1, <2>7
      <3> HIDE DEF a, b
      <3>4. /\ Len(SubSeq(msgs[s], a, b)) = b - a + 1
            /\ \A j \in 1..(b - a + 1) : SubSeq(msgs[s], a, b)[j] = msgs[s][a + j - 1]
        <4>1. \A k \in a..b : msgs[s][k] \in Message
          BY <3>1 DEF a, b
        <4>2. /\ Len(SubSeq(msgs[s], a, b)) = IF a <= b THEN b - a + 1 ELSE 0
              /\ \A j \in 1..(b - a + 1) : SubSeq(msgs[s], a, b)[j] = msgs[s][a + j - 1]
          BY <3>2, <4>1, SubSeqProperties
        <4> QED
          BY <3>2, <4>2
      <3>5. SubSeq(msgs[s], a, b)[i - lc[s]] = msgs[s][i]
        BY <3>2, <3>4
      <3> QED
        BY <3>2, <3>3, <3>4, <3>5 DEF a, b
    <2>9. JobDone(s) \/ JobUntold(s)
      <3>1. SUFFICES ASSUME SkipJob(s) PROVE FALSE
        BY <2>6
      <3>2. all = <<>>
        BY <2>6, <2>7, <3>1, DueFacts DEF SkipJob
      <3> QED
        BY <2>1, <2>7, <2>8, <3>2
    <2>10. call[s][1].old = all
      BY <2>7, <2>9 DEF JobDone, JobUntold, IInv, SessionInv, LockOK
    <2> HIDE DEF all
    <2>11. msgs[s][i] \in ToSet(call[s][1].old)
      BY <2>8, <2>10 DEF ToSet
    <2>12. CASE JobDone(s)
      <3>1. /\ Len(history) \in Nat /\ Len(history') = Len(history) + 1
            /\ history'[Len(history) + 1] = [session |-> s, msgs |-> ToSet(call[s][1].old)]
        BY <2>12, RecordFacts, LenProperties DEF JobDone, IInv, TypeOK
      <3> QED
        BY <2>7, <2>11, <3>1 DEF Summarised
    <2>13. CASE JobUntold(s)
      <3>1. untold' = untold \cup ({s} \X ToSet(call[s][1].old))
        BY <2>13 DEF JobUntold
      <3> QED
        BY <2>7, <2>11, <3>1
    <2> QED
      BY <2>9, <2>12, <2>13
  <1> QED
    BY <1>1, Invariant, PTL DEF Spec, ClearedAreArchived

----------------------------------------------------------------------------
(* Every message is summarised once: the messages of a session only grow, and *)
(* all behind the offset are newer than every summary.                        *)

\* The numbers a session's messages carry, and those of its summaries.
LEMMA NumberTypes ==
    ASSUME IInv, NEW s \in Sessions
    PROVE  /\ said[s] \in Nat /\ Len(history) \in Nat
           /\ \A i \in 1..Len(msgs[s]) : msgs[s][i] \in Nat
           /\ \A e \in 1..Len(history) : history[e].msgs \subseteq Nat
  <1>1. said[s] \in Nat /\ history \in Seq(Entry)
    BY DEF IInv, TypeOK, Entry
  <1>2. \A i \in 1..Len(msgs[s]) : msgs[s][i] \in Message
    BY SessionTypes, ElementOfSeq
  <1>3. \A e \in 1..Len(history) : history[e] \in Entry
    BY <1>1, ElementOfSeq
  <1> QED
    BY <1>1, <1>2, <1>3, LenProperties DEF Message, Entry

\* A step that neither tells, summarises nor moves anything of a session.
LEMMA StaysInOrder ==
    ASSUME IInv, NEW t \in Sessions, InOrder(t),
           UNCHANGED <<msgs[t], lc[t], said[t]>>,
           history' = history \/ faults' # 0
             \/ \E s \in Sessions : s # t /\ call[s] # <<>> /\ Record(s),
           faults' = 0 => faults = 0,
           call'[t] # <<>> => call' [t] = call[t] /\ (jobs'[t][1] = "bg" <=> jobs[t][1] = "bg")
    PROVE  InOrder(t)'
  <1>1. faults' = 0 =>
            \A e \in 1..Len(history') : history'[e].session = t =>
                e \in 1..Len(history) /\ history'[e] = history[e]
    <2>1. CASE history' = history
      BY <2>1
    <2>2. ASSUME NEW s \in Sessions, s # t, call[s] # <<>>, Record(s)
          PROVE  \A e \in 1..Len(history') : history'[e].session = t =>
                     e \in 1..Len(history) /\ history'[e] = history[e]
      <3>1. /\ Len(history') = Len(history) + 1 /\ Len(history) \in Nat
            /\ \A e \in 1..Len(history) : history'[e] = history[e]
            /\ history'[Len(history) + 1].session = s
        <4>1. /\ Len(history') = Len(history) + 1
              /\ \A e \in 1..Len(history) : history'[e] = history[e]
              /\ history'[Len(history) + 1] = [session |-> s, msgs |-> ToSet(call[s][1].old)]
          BY <2>2, RecordFacts
        <4>2. Len(history) \in Nat
          BY NumberTypes
        <4> QED
          BY <4>1, <4>2
      <3> QED
        BY <2>2, <3>1
    <2> QED
      BY <2>1, <2>2
  <1>2. call'[t] # <<>> => Unsettled(t)' = Unsettled(t) /\ call'[t] = call[t]
    BY DEF Unsettled
  <1>3. call'[t] # <<>> =>
            ToSet(call'[t][1].old) \subseteq {msgs'[t][i] : i \in Unsettled(t)'}
    BY <1>2 DEF InOrder, ToSet
  <1>4. faults' = 0 =>
            \A e \in 1..Len(history') : history'[e].session = t =>
                \A m \in history'[e].msgs :
                    m <= said'[t] /\ \A i \in (lc'[t] + 1)..Len(msgs'[t]) : m < msgs'[t][i]
    BY <1>1 DEF InOrder
  <1> QED
    BY <1>3, <1>4 DEF InOrder

\* Numbers told in order go on in order.
LEMMA TellMore ==
    ASSUME NEW len \in Nat, NEW n \in Nat, NEW x \in Nat, NEW old, NEW all,
           \A i \in 1..len : old[i] \in Nat /\ old[i] <= x /\ all[i] = old[i],
           \A i, k \in 1..len : i < k => old[i] < old[k],
           \A i \in (len + 1)..(len + n) : all[i] = x + (i - len)
    PROVE  /\ \A i \in 1..(len + n) : all[i] <= x + n
           /\ \A i, k \in 1..(len + n) : i < k => all[i] < all[k]
           /\ \A m, l \in Nat : m <= x /\ (\A i \in (l + 1)..len : m < old[i])
                  => \A i \in (l + 1)..(len + n) : m < all[i]
  <1>1. \A i \in 1..(len + n) : i \in 1..len \/ i \in (len + 1)..(len + n)
    OBVIOUS
  <1>2. \A i \in (len + 1)..(len + n) : all[i] \in Nat /\ x < all[i] /\ all[i] <= x + n
    OBVIOUS
  <1>3. \A i \in 1..(len + n) : all[i] <= x + n
    BY <1>1, <1>2
  <1>4. ASSUME NEW i \in 1..(len + n), NEW k \in 1..(len + n), i < k
        PROVE  all[i] < all[k]
    <2>1. CASE k \in 1..len
      BY <1>4, <2>1
    <2>2. CASE k \in (len + 1)..(len + n) /\ i \in 1..len
      <3>1. all[i] <= x /\ all[i] \in Nat /\ x < all[k] /\ all[k] \in Nat
        BY <1>2, <2>2
      <3> QED
        BY <3>1
    <2>3. CASE k \in (len + 1)..(len + n) /\ i \in (len + 1)..(len + n)
      <3>1. all[i] = x + (i - len) /\ all[k] = x + (k - len)
        BY <2>3
      <3> QED
        BY <1>4, <3>1
    <2> QED
      BY <1>1, <2>1, <2>2, <2>3
  <1>5. ASSUME NEW m \in Nat, NEW l \in Nat, m <= x, \A i \in (l + 1)..len : m < old[i],
               NEW i \in (l + 1)..(len + n)
        PROVE  m < all[i]
    <2>1. CASE i \in 1..len
      BY <1>5, <2>1
    <2>2. CASE i \in (len + 1)..(len + n)
      BY <1>2, <1>5, <2>2
    <2> QED
      BY <1>1, <2>1, <2>2
  <1> QED
    BY <1>3, <1>4, <1>5

\* The messages of a turn carry the next numbers.
LEMMA EndTurnInOrder ==
    ASSUME IInv, NEW s \in Sessions, InOrder(s), EndTurn(s)
    PROVE  InOrder(s)'
  <1>1. PICK n \in 1..2 :
            /\ said[s] + n <= MaxMsgs
            /\ msgs' = [msgs EXCEPT ![s] = @ \o Fresh(s, n)]
            /\ said' = [said EXCEPT ![s] = @ + n]
    BY DEF EndTurn
  <1> DEFINE new == Fresh(s, n)
             len == Len(msgs[s])
             x   == said[s]
  <1>2. x \in Nat /\ len \in Nat /\ msgs[s] \in Seq(Message) /\ lc[s] \in 0..len /\ Keep \in Nat
    BY NumberTypes, SessionTypes
  <1>3. new \in Seq(Message) /\ Len(new) = n /\ \A i \in 1..n : new[i] = x + i
    <2>1. new \in [1..n -> Message]
      BY <1>1, <1>2 DEF Fresh, Message
    <2>2. new \in Seq(Message)
      BY <2>1, SeqDef
    <2>3. Len(new) = n
      BY <2>1, <2>2, LenProperties
    <2> QED
      BY <2>2, <2>3 DEF Fresh
  <1>4. msgs'[s] = msgs[s] \o new /\ said'[s] = x + n
    BY <1>1 DEF IInv, TypeOK
  <1> HIDE DEF new
  <1>5. /\ Len(msgs'[s]) = len + n
        /\ \A i \in 1..len : msgs'[s][i] = msgs[s][i]
        /\ \A i \in (len + 1)..(len + n) : msgs'[s][i] = x + (i - len)
    BY <1>2, <1>3, <1>4, ConcatProperties
  <1>6. \A i \in 1..len : msgs[s][i] \in Nat /\ msgs[s][i] <= x
    BY NumberTypes DEF InOrder
  <1>7. \A i, k \in 1..len : i < k => msgs[s][i] < msgs[s][k]
    BY DEF InOrder
  <1>8. UNCHANGED <<lc, jobs, call, history, faults>>
    BY DEF EndTurn, memory
  <1> HIDE DEF len, x
  <1>9. /\ \A i \in 1..(len + n) : msgs'[s][i] <= x + n
        /\ \A i, k \in 1..(len + n) : i < k => msgs'[s][i] < msgs'[s][k]
        /\ \A m, l \in Nat : m <= x /\ (\A i \in (l + 1)..len : m < msgs[s][i])
               => \A i \in (l + 1)..(len + n) : m < msgs'[s][i]
    <2> DEFINE old == msgs[s]
               all == msgs'[s]
    <2> HIDE DEF old, all
    <2>1. /\ n \in Nat
          /\ \A i \in 1..len : old[i] \in Nat /\ old[i] <= x /\ all[i] = old[i]
          /\ \A i, k \in 1..len : i < k => old[i] < old[k]
          /\ \A i \in (len + 1)..(len + n) : all[i] = x + (i - len)
      BY <1>5, <1>6, <1>7 DEF old, all
    <2>2. /\ \A i \in 1..(len + n) : all[i] <= x + n
          /\ \A i, k \in 1..(len + n) : i < k => all[i] < all[k]
          /\ \A m, l \in Nat : m <= x /\ (\A i \in (l + 1)..len : m < old[i])
                 => \A i \in (l + 1)..(len + n) : m < all[i]
      BY <1>2, <2>1, TellMore
    <2> QED
      BY <2>2 DEF old, all
  <1>10. lc[s] \in Nat
    BY <1>2
  <1>11. faults' = 0 =>
            \A e \in 1..Len(history') : history'[e].session = s =>
                \A m \in history'[e].msgs :
                    m <= said'[s] /\ \A i \in (lc'[s] + 1)..Len(msgs'[s]) : m < msgs'[s][i]
    <2> SUFFICES ASSUME faults = 0, NEW e \in 1..Len(history), history[e].session = s,
                        NEW m \in history[e].msgs
                 PROVE  m <= x + n /\ \A i \in (lc[s] + 1)..(len + n) : m < msgs'[s][i]
      BY <1>4, <1>5, <1>8
    <2>1. m \in Nat /\ m <= x /\ \A i \in (lc[s] + 1)..len : m < msgs[s][i]
      BY NumberTypes DEF InOrder, x, len
    <2>2. m <= x + n
      BY <1>2, <2>1
    <2> QED
      BY <1>9, <1>10, <2>1, <2>2
  <1>12. call'[s] # <<>> =>
            ToSet(call'[s][1].old) \subseteq {msgs'[s][i] : i \in Unsettled(s)'}
    <2> SUFFICES ASSUME call[s] # <<>>
                 PROVE  ToSet(call[s][1].old) \subseteq {msgs'[s][i] : i \in Unsettled(s)'}
      BY <1>8 DEF ToSet
    <2>1. ToSet(call[s][1].old) \subseteq {msgs[s][i] : i \in Unsettled(s)}
      BY DEF InOrder
    <2>2. \A i \in Unsettled(s) : i \in Unsettled(s)' /\ msgs'[s][i] = msgs[s][i]
      <3> SUFFICES ASSUME NEW i \in Unsettled(s)
                   PROVE  i \in Unsettled(s)' /\ msgs'[s][i] = msgs[s][i]
        OBVIOUS
      <3>1. PICK d \in Nat : d = IF jobs[s][1] = "bg" THEN Keep ELSE 0
        BY <1>2
      <3>2. i \in (lc[s] + 1)..(len - d)
        BY <3>1 DEF Unsettled, len
      <3>3. i \in (lc[s] + 1)..(len + n - d) /\ i \in 1..len
        BY <1>2, <1>10, <3>1, <3>2
      <3>4. lc'[s] = lc[s] /\ Len(msgs'[s]) = len + n /\ jobs' = jobs
        BY <1>5, <1>8
      <3>5. i \in (lc'[s] + 1)..(Len(msgs'[s]) - d)
        BY <1>2, <1>10, <3>3, <3>4
      <3>6. i \in Unsettled(s)'
        BY <3>1, <3>4, <3>5 DEF Unsettled
      <3> QED
        BY <1>5, <3>3, <3>6
    <2> QED
      BY <2>1, <2>2
  <1> QED
    BY <1>4, <1>5, <1>9, <1>11, <1>12 DEF InOrder

\* What a job asks the model about is behind the offset and not kept back.
LEMMA DueUnsettled ==
    ASSUME IInv, NEW s \in Sessions, jobs[s] # <<>>
    PROVE  ToSet(Due(s)) \subseteq {msgs[s][i] : i \in Unsettled(s)}
  <1>1. /\ msgs[s] \in Seq(Message) /\ Len(msgs[s]) \in Nat /\ lc[s] \in Nat /\ Keep \in Nat
        /\ Head(jobs[s]) = jobs[s][1] /\ jobs[s][1] \in Kinds
    BY SessionTypes, DueFacts
  <1>2. ASSUME NEW k \in {0, Keep}
        PROVE  ToSet(SubSeq(msgs[s], lc[s] + 1, Len(msgs[s]) - k))
                   \subseteq {msgs[s][i] : i \in (lc[s] + 1)..(Len(msgs[s]) - k)}
    <2> DEFINE a == lc[s] + 1
               b == Len(msgs[s]) - k
    <2>1. a \in Int /\ b \in Int /\ a..b \subseteq 1..Len(msgs[s])
      BY <1>1
    <2> HIDE DEF a, b
    <2>2. \A i \in a..b : msgs[s][i] \in Message
      BY <1>1, <2>1, ElementOfSeq
    <2>3. /\ Len(SubSeq(msgs[s], a, b)) = IF a <= b THEN b - a + 1 ELSE 0
          /\ \A j \in 1..(b - a + 1) : SubSeq(msgs[s], a, b)[j] = msgs[s][a + j - 1]
      BY <2>1, <2>2, SubSeqProperties
    <2>4. ASSUME NEW j \in 1..Len(SubSeq(msgs[s], a, b))
          PROVE  SubSeq(msgs[s], a, b)[j] = msgs[s][a + j - 1] /\ a + j - 1 \in a..b
      BY <2>1, <2>3
    <2> QED
      BY <2>4 DEF ToSet, a, b
  <1>3. ToSet(<<>>) = {}
    BY EmptySeq DEF ToSet
  <1>4. CASE jobs[s][1] = "new"
    <2>1. Due(s) = SubSeq(msgs[s], lc[s] + 1, Len(msgs[s]) - 0)
      BY <1>1, <1>4, DueFacts
    <2> QED
      BY <1>2, <1>4, <2>1 DEF Unsettled
  <1>5. CASE jobs[s][1] = "bg"
    <2>1. Due(s) = <<>> \/ Due(s) = SubSeq(msgs[s], lc[s] + 1, Len(msgs[s]) - Keep)
      BY <1>1, <1>5 DEF Due, OldMessages
    <2> QED
      BY <1>2, <1>3, <1>5, <2>1 DEF Unsettled
  <1> QED
    BY <1>1, <1>4, <1>5 DEF Kinds

LEMMA BeginJobInOrder ==
    ASSUME IInv, NEW s \in Sessions, InOrder(s), BeginJob(s)
    PROVE  InOrder(s)'
  <1> DEFINE r == [old |-> Due(s), seen |-> facts]
  <1>1. /\ jobs[s] # <<>> /\ call' = [call EXCEPT ![s] = <<r>>]
        /\ UNCHANGED <<msgs, lc, jobs, said, history, faults>>
    BY DEF BeginJob, session, memory
  <1>2. r.old = Due(s)
    OBVIOUS
  <1> HIDE DEF r
  <1>3. call'[s][1].old = Due(s)
    BY <1>1, <1>2 DEF IInv, TypeOK
  <1>4. ToSet(call'[s][1].old) \subseteq {msgs'[s][i] : i \in Unsettled(s)'}
    <2>1. ToSet(Due(s)) \subseteq {msgs[s][i] : i \in Unsettled(s)}
      BY <1>1, DueUnsettled
    <2>2. Unsettled(s)' = Unsettled(s)
      BY <1>1 DEF Unsettled
    <2>3. ToSet(call'[s][1].old) = ToSet(Due(s))
      BY <1>3
    <2> QED
      BY <1>1, <2>1, <2>2, <2>3
  <1> QED
    BY <1>1, <1>4 DEF InOrder

\* A job that leaves the lock without an entry in HISTORY.md.
LEMMA QuietEndInOrder ==
    ASSUME IInv, NEW s \in Sessions, InOrder(s), call'[s] = <<>>,
           Clear(s) \/ UNCHANGED session,
           history' = history \/ faults' # 0, faults' = 0 => faults = 0
    PROVE  InOrder(s)'
  <1>1. CASE UNCHANGED session
    BY <1>1 DEF InOrder, session
  <1>2. CASE Clear(s)
    <2>1. msgs'[s] = <<>> /\ lc'[s] = 0 /\ said' = said /\ Len(<<>>) = 0
      BY <1>2, EmptySeq DEF Clear, IInv, TypeOK
    <2>2. 1..Len(msgs'[s]) = {} /\ (lc'[s] + 1)..Len(msgs'[s]) = {}
      BY <2>1
    <2>3. faults' = 0 =>
            \A e \in 1..Len(history') : history'[e].session = s =>
                \A m \in history'[e].msgs : m <= said'[s]
      BY <2>1 DEF InOrder
    <2> QED
      BY <2>2, <2>3 DEF InOrder
  <1> QED
    BY <1>1, <1>2

\* What the answered job has summarised is newer than every summary before it,
\* and older than all the offset still leaves ahead.
LEMMA JobDoneInOrder ==
    ASSUME IInv, NEW s \in Sessions, InOrder(s), JobDone(s)
    PROVE  /\ InOrder(s)'
           /\ faults = 0 =>
                \A e \in 1..Len(history) : history[e].session = s =>
                    history[e].msgs \cap ToSet(call[s][1].old) = {}
  <1> DEFINE new == ToSet(call[s][1].old)
             len == Len(msgs[s])
  <1>1. /\ len \in Nat /\ lc[s] \in Nat /\ Keep \in Nat /\ said[s] \in Nat /\ Len(history) \in Nat
        /\ \A i \in 1..len : msgs[s][i] \in Nat /\ msgs[s][i] <= said[s]
        /\ \A i, k \in 1..len : i < k => msgs[s][i] < msgs[s][k]
        /\ \A e \in 1..Len(history) : history[e].msgs \subseteq Nat
    BY NumberTypes, SessionTypes DEF InOrder
  <1>2. call[s] # <<>> /\ jobs[s] # <<>> /\ faults' = faults /\ Record(s) /\ LeaveLock(s)
    BY RecordFacts DEF JobDone, Answered
  <1>3. /\ Len(history') = Len(history) + 1
        /\ \A i \in 1..Len(history) : history'[i] = history[i]
        /\ history'[Len(history) + 1] = [session |-> s, msgs |-> new]
    BY <1>2, RecordFacts
  <1>4. new \subseteq {msgs[s][i] : i \in Unsettled(s)}
    BY <1>2 DEF InOrder
  <1>5. Unsettled(s) \subseteq (lc[s] + 1)..len
    BY <1>1 DEF Unsettled
  <1>6. \A m \in new : m \in Nat /\ m <= said[s]
    BY <1>1, <1>4, <1>5
  <1>7. call'[s] = <<>> /\ said' = said
    <2>1. call'[s] = <<>>
      BY <1>2 DEF LeaveLock, IInv, TypeOK
    <2> QED
      BY <2>1 DEF JobDone, Answered, Clear, Advance
  <1>8. \/ msgs'[s] = <<>> /\ lc'[s] = 0
        \/ jobs[s][1] = "bg" /\ msgs' = msgs /\ lc'[s] = len - Keep
    <2>1. Head(jobs[s]) = jobs[s][1]
      BY <1>2, DueFacts
    <2> QED
      BY <2>1 DEF JobDone, Answered, Clear, Advance, IInv, TypeOK
  <1> HIDE DEF new, len
  <1>9. \A i \in (lc'[s] + 1)..Len(msgs'[s]) :
            /\ msgs'[s][i] = msgs[s][i] /\ i \in 1..len /\ i > lc[s]
            /\ \A m \in new : m < msgs[s][i]
    <2>1. CASE msgs'[s] = <<>> /\ lc'[s] = 0
      <3>1. (lc'[s] + 1)..Len(msgs'[s]) = {}
        BY <2>1, EmptySeq
      <3> QED
        BY <3>1
    <2>2. CASE jobs[s][1] = "bg" /\ msgs' = msgs /\ lc'[s] = len - Keep
      <3>1. lc[s] + Keep < len
        BY <1>2, <2>2 DEF IInv, SessionInv, LockOK, len
      <3>2. Unsettled(s) = (lc[s] + 1)..(len - Keep)
        BY <2>2 DEF Unsettled, len
      <3>3. ASSUME NEW i \in (len - Keep + 1)..len PROVE i \in 1..len /\ i > lc[s]
        BY <1>1, <3>1
      <3>4. ASSUME NEW i \in (len - Keep + 1)..len, NEW m \in new PROVE m < msgs[s][i]
        <4>1. PICK k \in Unsettled(s) : m = msgs[s][k]
          BY <1>4
        <4>2. k \in 1..len /\ k < i
          BY <1>1, <3>1, <3>2
        <4> QED
          BY <1>1, <3>3, <4>1, <4>2
      <3> QED
        BY <2>2, <3>3, <3>4 DEF len
    <2> QED
      BY <1>8, <2>1, <2>2
  <1>10. faults = 0 =>
            \A e \in 1..Len(history) : history[e].session = s =>
                \A m \in history[e].msgs : m <= said[s] /\ \A i \in (lc[s] + 1)..len : m < msgs[s][i]
    BY DEF InOrder, len
  <1>11. ASSUME faults' = 0, NEW e \in 1..Len(history'), history'[e].session = s,
                NEW m \in history'[e].msgs
         PROVE  m <= said[s] /\ \A i \in (lc'[s] + 1)..Len(msgs'[s]) : m < msgs'[s][i]
    <2>1. CASE e \in 1..Len(history)
      <3>1. history[e].session = s /\ m \in history[e].msgs /\ faults = 0
        BY <1>2, <1>3, <1>11, <2>1
      <3>2. m <= said[s] /\ \A i \in (lc[s] + 1)..len : m < msgs[s][i]
        BY <1>10, <2>1, <3>1
      <3>3. \A i \in (lc'[s] + 1)..Len(msgs'[s]) : i \in (lc[s] + 1)..len
        BY <1>1, <1>9
      <3> QED
        BY <1>9, <3>2, <3>3
    <2>2. CASE e = Len(history) + 1
      BY <1>3, <1>6, <1>9, <1>11, <2>2
    <2> QED
      BY <1>1, <1>3, <2>1, <2>2
  <1>12. /\ \A i \in 1..Len(msgs'[s]) : msgs'[s][i] <= said[s]
         /\ \A i, k \in 1..Len(msgs'[s]) : i < k => msgs'[s][i] < msgs'[s][k]
    BY <1>1, <1>8, EmptySeq DEF len
  <1>13. InOrder(s)'
    BY <1>7, <1>11, <1>12 DEF InOrder
  <1>14. ASSUME faults = 0, NEW e \in 1..Len(history), history[e].session = s,
                NEW m \in history[e].msgs, m \in new
         PROVE  FALSE
    <2>1. PICK i \in Unsettled(s) : m = msgs[s][i]
      BY <1>4, <1>14
    <2>2. m \in Nat /\ m < msgs[s][i]
      BY <1>1, <1>5, <1>10, <1>14
    <2> QED
      BY <2>1, <2>2
  <1> QED
    BY <1>13, <1>14 DEF new

\* A job that was answered without an entry adds no summary, and its offset moves on.
LEMMA JobUntoldInOrder ==
    ASSUME IInv, NEW s \in Sessions, InOrder(s), JobUntold(s)
    PROVE  InOrder(s)'
  <1>1. /\ Len(msgs[s]) \in Nat /\ lc[s] \in Nat /\ Keep \in Nat
        /\ jobs[s] # <<>> /\ LeaveLock(s)
        /\ history' = history /\ faults' = faults
    BY SessionTypes, RecordFacts DEF JobUntold, Answered
  <1>2. call'[s] = <<>> /\ said' = said
    BY <1>1 DEF LeaveLock, JobUntold, Answered, Clear, Advance, IInv, TypeOK
  <1>3. \/ msgs'[s] = <<>> /\ lc'[s] = 0
        \/ jobs[s][1] = "bg" /\ msgs' = msgs /\ lc'[s] = Len(msgs[s]) - Keep
    <2>1. Head(jobs[s]) = jobs[s][1]
      BY <1>1, DueFacts
    <2> QED
      BY <2>1 DEF JobUntold, Answered, Clear, Advance, IInv, TypeOK
  <1>4. CASE msgs'[s] = <<>> /\ lc'[s] = 0
    <2>1. 1..Len(msgs'[s]) = {} /\ (lc'[s] + 1)..Len(msgs'[s]) = {}
      BY <1>4, EmptySeq
    <2>2. faults' = 0 =>
            \A e \in 1..Len(history') : history'[e].session = s =>
                \A m \in history'[e].msgs : m <= said'[s]
      BY <1>1, <1>2 DEF InOrder
    <2> QED
      BY <1>2, <2>1, <2>2 DEF InOrder
  <1>5. CASE jobs[s][1] = "bg" /\ msgs' = msgs /\ lc'[s] = Len(msgs[s]) - Keep
    <2>1. lc[s] + Keep < Len(msgs[s])
      BY <1>5 DEF JobUntold, IInv, SessionInv, LockOK
    <2>2. (lc'[s] + 1)..Len(msgs'[s]) \subseteq (lc[s] + 1)..Len(msgs[s])
      BY <1>1, <1>5, <2>1
    <2> QED
      BY <1>1, <1>2, <1>5, <2>2 DEF InOrder
  <1> QED
    BY <1>3, <1>4, <1>5

\* Each step keeps every session in order.
LEMMA StepInOrder ==
    ASSUME IInv, \A s \in Sessions : InOrder(s), [Next]_vars, NEW t \in Sessions
    PROVE  InOrder(t)'
  <1>1. CASE UNCHANGED vars
    BY <1>1 DEF vars, InOrder, Unsettled
  <1>2. CASE Crash
    <2>1. /\ msgs'[t] = file[t].msgs /\ lc'[t] = file[t].lc /\ call'[t] = <<>>
          /\ said' = said /\ faults' = faults + 1
      BY <1>2 DEF Crash
    <2>2. msgs'[t] = msgs[t] /\ faults' # 0
      BY <2>1 DEF IInv, TypeOK, SessionInv
    <2> QED
      BY <2>1, <2>2 DEF InOrder
  <1>3. ASSUME NEW s \in Sessions, Turns(s) PROVE InOrder(t)'
    <2>1. EndTurn(s) /\ s = t => InOrder(t)'
      BY EndTurnInOrder
    <2>2. /\ (s = t /\ EndTurn(s)) \/ UNCHANGED <<msgs[t], said[t]>>
          /\ UNCHANGED <<lc, history, faults>>
      BY <1>3 DEF Turns, UserTurn, SystemTurn, Remember, EndTurn, LoseTurn, NewCommand, StopNew,
                  session, memory, IInv, TypeOK
    <2>3. call'[t] # <<>> => call'[t] = call[t] /\ (jobs'[t][1] = "bg" <=> jobs[t][1] = "bg")
      <3> SUFFICES ASSUME call'[t] # <<>>
                   PROVE  call'[t] = call[t] /\ (jobs'[t][1] = "bg" <=> jobs[t][1] = "bg")
        OBVIOUS
      <3>1. call'[t] = call[t]
        BY <1>3 DEF Turns, UserTurn, SystemTurn, Remember, EndTurn, LoseTurn, NewCommand, StopNew,
                    IInv, TypeOK
      <3>2. jobs[t] # <<>> /\ jobs[t] \in Seq(Kinds) /\ Len(jobs[t]) \in Nat \ {0}
        BY <3>1, SessionTypes, EmptySeq DEF IInv, SessionInv, LockOK
      <3>3. CASE jobs'[t] = jobs[t]
        BY <3>1, <3>3
      <3>4. ASSUME NEW k \in Kinds, jobs'[t] = Append(jobs[t], k)
            PROVE  jobs'[t][1] = jobs[t][1]
        BY <3>2, <3>4, AppendProperties
      <3>5. CASE s = t /\ StopNew(s)
        <4>1. jobs'[t] = SubSeq(jobs[t], 1, Len(jobs[t]) - 1)
          BY <3>5 DEF StopNew, IInv, TypeOK
        <4>2. Len(jobs[t]) # 1
          BY <3>5 DEF StopNew, IInv, TypeOK
        <4>3. \A i \in 1..(Len(jobs[t]) - 1) : jobs[t][i] \in Kinds
          BY <3>2, ElementOfSeq
        <4> DEFINE l == Len(jobs[t])
                   b == l - 1
        <4>4. 1 \in Int /\ b \in Int /\ 1 <= b /\ \A i \in 1..b : jobs[t][i] \in Kinds
          <5>1. l \in Nat \ {0, 1} /\ \A i \in 1..(l - 1) : jobs[t][i] \in Kinds
            BY <3>2, <4>2, <4>3
          <5> HIDE DEF l
          <5> QED
            BY <5>1
        <4> HIDE DEF b
        <4>5. \A i \in 1..(b - 1 + 1) : SubSeq(jobs[t], 1, b)[i] = jobs[t][1 + i - 1]
          BY <4>4, SubSeqProperties
        <4>6. SubSeq(jobs[t], 1, b)[1] = jobs[t][1]
          BY <4>4, <4>5
        <4>7. jobs'[t][1] = jobs[t][1]
          BY <4>1, <4>6 DEF b
        <4> QED
          BY <3>1, <4>7
      <3>6. \/ jobs' = jobs \/ StopNew(s)
            \/ \E k \in Kinds : jobs' = [jobs EXCEPT ![s] = Append(jobs[s], k)]
        BY <1>3 DEF Turns, UserTurn, SystemTurn, Remember, EndTurn, LoseTurn, NewCommand, Kinds
      <3>7. StopNew(s) /\ s # t => jobs'[t] = jobs[t]
        BY DEF StopNew, IInv, TypeOK
      <3>8. ASSUME NEW k \in Kinds, jobs' = [jobs EXCEPT ![s] = Append(jobs[s], k)]
            PROVE  jobs'[t] = jobs[t] \/ jobs'[t] = Append(jobs[t], k)
        BY <3>8 DEF IInv, TypeOK
      <3> QED
        BY <3>1, <3>3, <3>4, <3>5, <3>6, <3>7, <3>8
    <2> QED
      BY <2>1, <2>2, <2>3, StaysInOrder
  <1>4. ASSUME NEW s \in Sessions, Job(s) PROVE InOrder(t)'
    <2>1. CASE s # t
      <3>1. UNCHANGED <<msgs[t], lc[t], said[t], call[t], jobs[t]>>
        BY <1>4, <2>1 DEF Job, EndJob, BeginJob, SkipJob, JobDone, JobUntold, Answered, JobFails, JobHalfDone, LeaveLock,
                          Clear, Advance, session, IInv, TypeOK
      <3>2. /\ history' = history \/ faults' # 0 \/ (call[s] # <<>> /\ Record(s))
            /\ faults' = 0 => faults = 0
        BY <1>4 DEF Job, EndJob, BeginJob, SkipJob, JobDone, JobUntold, Answered, JobFails, JobHalfDone, memory,
                    IInv, TypeOK
      <3> QED
        BY <2>1, <3>1, <3>2, StaysInOrder
    <2>2. CASE s = t /\ (SkipJob(s) \/ JobFails(s) \/ JobHalfDone(s))
      <3>1. call'[s] = <<>>
        BY <2>2 DEF SkipJob, JobFails, JobHalfDone, LeaveLock, IInv, TypeOK
      <3>2. /\ Clear(s) \/ UNCHANGED session
            /\ history' = history \/ faults' # 0
            /\ faults' = 0 => faults = 0
        BY <2>2 DEF SkipJob, JobFails, JobHalfDone, memory, IInv, TypeOK
      <3> QED
        BY <2>2, <3>1, <3>2, QuietEndInOrder
    <2>3. CASE s = t /\ BeginJob(s)
      BY <2>3, BeginJobInOrder
    <2>4. CASE s = t /\ JobDone(s)
      BY <2>4, JobDoneInOrder
    <2>5. CASE s = t /\ JobUntold(s)
      BY <2>5, JobUntoldInOrder
    <2> QED
      BY <1>4, <2>1, <2>2, <2>3, <2>4, <2>5 DEF Job, EndJob
  <1> QED
    BY <1>1, <1>2, <1>3, <1>4 DEF Next

\* Each step keeps the summaries apart.
LEMMA StepSummarises ==
    ASSUME IInv, \A s \in Sessions : InOrder(s), SummarisedOnce, [Next]_vars
    PROVE  SummarisedOnce'
  <1>1. CASE history' = history /\ (faults' = 0 => faults = 0)
    BY <1>1 DEF SummarisedOnce
  <1>2. CASE faults' # 0
    BY <1>2 DEF SummarisedOnce
  <1>3. ASSUME NEW s \in Sessions, JobDone(s) PROVE SummarisedOnce'
    <2> DEFINE n == Len(history)
               new == ToSet(call[s][1].old)
    <2>1. /\ n \in Nat /\ Len(history') = n + 1 /\ \A i \in 1..n : history'[i] = history[i]
          /\ history'[n + 1] = [session |-> s, msgs |-> new]
      BY <1>3, RecordFacts, NumberTypes DEF JobDone
    <2>2. faults' = faults
      BY <1>3 DEF JobDone, Answered
    <2>3. faults = 0 =>
            \A e \in 1..n : history[e].session = s => history[e].msgs \cap new = {}
      BY <1>3, JobDoneInOrder
    <2> HIDE DEF n, new
    <2> SUFFICES ASSUME faults = 0, NEW i \in 1..(n + 1), NEW j \in 1..(n + 1), i # j,
                        history'[i].session = history'[j].session
                 PROVE  history'[i].msgs \cap history'[j].msgs = {}
      BY <2>1, <2>2 DEF SummarisedOnce
    <2>4. CASE i \in 1..n /\ j \in 1..n
      BY <2>1, <2>4 DEF SummarisedOnce, n
    <2>5. CASE i \in 1..n /\ j = n + 1
      BY <2>1, <2>3, <2>5
    <2>6. CASE i = n + 1 /\ j \in 1..n
      BY <2>1, <2>3, <2>6
    <2> QED
      BY <2>1, <2>4, <2>5, <2>6
  <1>4. \/ history' = history /\ (faults' = 0 => faults = 0)
        \/ faults' # 0
        \/ \E s \in Sessions : JobDone(s)
    BY DEF Next, vars, Crash, Turns, UserTurn, SystemTurn, Remember, EndTurn, LoseTurn, NewCommand,
           StopNew, Job, EndJob, BeginJob, SkipJob, JobUntold, Answered, JobFails, JobHalfDone,
           memory, IInv, TypeOK
  <1> QED
    BY <1>1, <1>2, <1>3, <1>4

LEMMA InitInOrder == Init => OnceInv
  <1> SUFFICES ASSUME Init PROVE OnceInv
    OBVIOUS
  <1>1. Len(<<>>) = 0 /\ Len(history) = 0
    BY EmptySeq DEF Init
  <1>2. \A s \in Sessions : Len(msgs[s]) = 0 /\ lc[s] = 0 /\ call[s] = <<>>
    BY <1>1 DEF Init
  <1>3. 1..0 = {} /\ 0 + 1 = 1
    OBVIOUS
  <1>4. ASSUME NEW s \in Sessions PROVE InOrder(s)
    <2>1. 1..Len(msgs[s]) = {} /\ 1..Len(history) = {} /\ call[s] = <<>>
      BY <1>1, <1>2, <1>3
    <2> QED
      BY <2>1 DEF InOrder
  <1>5. SummarisedOnce
    BY <1>1, <1>3 DEF SummarisedOnce
  <1> QED
    BY <1>4, <1>5 DEF OnceInv

\* No message is summarised twice, unless a crash or a failed write came between:
\* consolidations, /new and its cancellation alone never have it happen.
THEOREM NothingSummarisedTwice == Spec => []SummarisedOnce
  <1>1. IInv /\ OnceInv /\ [Next]_vars => OnceInv'
    BY StepInOrder, StepSummarises DEF OnceInv
  <1>2. OnceInv => SummarisedOnce
    BY DEF OnceInv
  <1> QED
    BY <1>1, <1>2, InitInOrder, Invariant, PTL DEF Spec
=============================================================================
