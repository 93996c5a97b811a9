---------------------------- MODULE AgentProofs ----------------------------
(***************************************************************************)
(* Facts about AgentDispatch for any chats, session keys, subagents and    *)
(* numbers of messages: /stop can reach every task that works, and the     *)
(* loop implements the first come, first served TurnServer.                *)
(*                                                                         *)
(* And about ContentPolicy, by which the loop judges what it is sent, for  *)
(* any threads, gateways, policies, texts and deployments: a verdict is    *)
(* that of the file, and a version names one policy.                       *)
(***************************************************************************)
EXTENDS AgentDispatch, ContentPolicy, SequenceTheorems, FiniteSetTheorems, TLAPS

USE KeysAssumption, MaxMsgsAssumption, NoneAssumption

LEMMA KeysFacts ==
    /\ \A c \in Chats : SystemKey(c) \in Keys /\ KeysOf(c) \subseteq Keys
    /\ Chats \subseteq Keys
  BY DEF Keys, KeysOf, UserKeys

\* A message put on the queue leaves the others as they are.
LEMMA PutFacts ==
    ASSUME NEW kind \in {"user", "stop", "system"}, NEW c \in Chats, NEW k \in Keys,
           msgs \in Seq(Message), Put(kind, c, k)
    PROVE  /\ msgs' \in Seq(Message)
           /\ Len(msgs') = Len(msgs) + 1 /\ Len(msgs) \in Nat
           /\ \A i \in 1..Len(msgs) : msgs'[i] = msgs[i]
           /\ msgs'[Len(msgs) + 1].kind = kind
  <1> DEFINE x == [kind |-> kind, chat |-> c, key |-> k]
  <1>1. x \in Message /\ x.kind = kind
    BY DEF Message
  <1> HIDE DEF x
  <1>2. msgs' = Append(msgs, x)
    BY DEF Put, x
  <1> QED
    BY <1>1, <1>2, AppendProperties

\* A new message changes nothing for those already taken.
LEMMA PutInvariant ==
    ASSUME IInv,
           NEW kind \in {"user", "stop", "system"}, NEW c \in Chats, NEW k \in Keys,
           Put(kind, c, k), subs' \in [SubIds -> Sub], SubsHaveChat',
           UNCHANGED <<taken, stop, lock, active, outbox, served, halted>>,
           sending' \in Seq(Reply), handed' \subseteq Reply
    PROVE  IInv'
  <1>1. /\ msgs' \in Seq(Message)
        /\ Len(msgs') = Len(msgs) + 1 /\ Len(msgs) \in Nat
        /\ \A i \in 1..Len(msgs) : msgs'[i] = msgs[i]
    BY PutFacts DEF IInv, TypeOK
  <1>2. taken \in Nat /\ taken <= Len(msgs)
    BY <1>1 DEF IInv, TypeOK
  <1>3. TypeOK'
    BY <1>1, <1>2 DEF IInv, TypeOK, stop, lock
  <1>4. Live' = Live /\ Live \subseteq 1..Len(msgs)
    BY <1>2 DEF Live, Holding, lock, IInv, TypeOK
  <1>5. LockOK' /\ ActiveIsLive'
    BY <1>1, <1>4 DEF IInv, LockOK, ActiveIsLive, Holding, lock
  <1>6. HolderIsOldest'
    BY <1>1, <1>2, <1>4 DEF IInv, TypeOK, HolderIsOldest, Inbox, lock
  <1> QED
    BY <1>3, <1>5, <1>6 DEF IInv

LEMMA InitInvariant == Init => IInv
  <1> SUFFICES ASSUME Init PROVE IInv
    OBVIOUS
  <1>1. subs \in [SubIds -> Sub] /\ SubsHaveChat
    BY DEF Init, Sub, SubsHaveChat
  <1>2. /\ msgs \in Seq(Message) /\ outbox \in Seq(Reply) /\ sending \in Seq(Reply)
        /\ Len(msgs) = 0 /\ taken = 0
    BY EmptySeq DEF Init
  <1>3. active \in [Keys -> SUBSET (1..taken)]
    BY <1>2 DEF Init
  <1>4. /\ taken \in 0..Len(msgs) /\ stopping \in 0..taken /\ holder \in 0..taken
        /\ phase \in {"none", "tasks", "subs"} /\ said \in BOOLEAN
    <2>1. taken = 0 /\ Len(msgs) = 0 /\ stopping = 0 /\ holder = 0
      BY <1>2 DEF Init
    <2>2. phase \in {"none", "tasks", "subs"} /\ said \in BOOLEAN
      BY DEF Init
    <2> QED
      BY <2>1, <2>2
  <1>5. /\ awaiting \subseteq 1..taken /\ waiting \subseteq 1..taken
        /\ cancelling \subseteq 1..taken /\ served \subseteq 1..taken
        /\ halted \subseteq 1..taken /\ handed \subseteq Reply
    BY DEF Init
  <1>6. TypeOK
    BY <1>1, <1>2, <1>3, <1>4, <1>5 DEF TypeOK
  <1>7. LockOK /\ ActiveIsLive /\ HolderIsOldest
    BY DEF Init, LockOK, ActiveIsLive, HolderIsOldest, Live, Holding
  <1> QED
    BY <1>1, <1>6, <1>7 DEF IInv

LEMMA ChannelsInvariant == IInv /\ Channels => IInv'
  <1> SUFFICES ASSUME IInv, NEW c \in Chats, NEW k \in KeysOf(c),
                      NEW kind \in {"user", "stop"}, Receive(c, k, kind)
               PROVE  IInv'
    BY DEF Channels
  <1>1. k \in Keys
    BY KeysFacts
  <1>2. SubsHaveChat' /\ subs' \in [SubIds -> Sub]
    BY DEF IInv, TypeOK, SubsHaveChat, Receive
  <1>3. sending' \in Seq(Reply) /\ handed' \subseteq Reply
    BY DEF Receive, channel, IInv, TypeOK
  <1> QED
    BY <1>1, <1>2, <1>3, PutInvariant DEF Receive

LEMMA TakeInvariant ==
    ASSUME IInv, Take
    PROVE  IInv' /\ Live' = Live \cup {taken + 1}
  <1> DEFINE m == taken + 1
             k == msgs[m].key
  <1>1. /\ Len(msgs) \in Nat /\ taken \in Nat /\ taken < Len(msgs)
        /\ m \in 1..Len(msgs) /\ taken' = m
    BY LenProperties DEF IInv, TypeOK, Take, Inbox
  <1>2. msgs[m] \in Message /\ k \in Keys
    <2>1. msgs[m] \in Message
      BY <1>1, ElementOfSeq DEF IInv, TypeOK
    <2> QED
      BY <2>1 DEF Message
  <1>3. waiting' = waiting \cup {m} /\ m \notin waiting /\ m # holder /\ m \notin cancelling
    BY <1>1 DEF IInv, TypeOK, Take
  <1>4. active' = [active EXCEPT ![k] = @ \cup {m}]
    BY DEF Take
  <1>5. Live' = Live \cup {m} /\ m \notin Live
    BY <1>3 DEF Live, Holding, Take
  <1> HIDE DEF m, k
  <1>6. TypeOK'
    <2>1. /\ 1..taken \subseteq 1..taken' /\ 0..taken \subseteq 0..taken'
          /\ m \in 1..taken' /\ taken' \in 0..Len(msgs)
      BY <1>1 DEF m
    <2>2. active' \in [Keys -> SUBSET (1..taken')]
      <3>1. active \in [Keys -> SUBSET (1..taken')]
        BY <2>1 DEF IInv, TypeOK
      <3> QED
        BY <3>1, <1>2, <1>4, <2>1
    <2>3. waiting' \subseteq 1..taken'
      BY <1>3, <2>1 DEF IInv, TypeOK
    <2>4. holder' \in 0..taken' /\ stopping' \in 0..taken'
      BY <2>1 DEF IInv, TypeOK, Take, stop
    <2>5. /\ cancelling' \subseteq 1..taken' /\ awaiting' \subseteq 1..taken'
          /\ served' \subseteq 1..taken' /\ halted' \subseteq 1..taken'
      BY <2>1 DEF IInv, TypeOK, Take, stop
    <2> QED
      BY <2>1, <2>2, <2>3, <2>4, <2>5 DEF IInv, TypeOK, Take, stop, channel
  <1>7. LockOK' /\ SubsHaveChat'
    BY <1>3 DEF IInv, LockOK, SubsHaveChat, Holding, Take
  <1>8. ActiveIsLive'
    <2> SUFFICES ASSUME NEW j \in Keys
                 PROVE  active'[j] = {i \in Live' : msgs[i].key = j}
      BY DEF ActiveIsLive, Take
    <2>1. active[j] = {i \in Live : msgs[i].key = j}
      BY DEF IInv, ActiveIsLive
    <2>2. CASE j = k
      BY <1>2, <1>4, <1>5, <2>1, <2>2 DEF IInv, TypeOK, k
    <2>3. CASE j # k
      BY <1>2, <1>4, <1>5, <2>1, <2>3 DEF IInv, TypeOK, k
    <2> QED
      BY <2>2, <2>3
  <1>9. HolderIsOldest'
    <2>1. Live' \cup Inbox' \subseteq Live \cup Inbox
      BY <1>1, <1>5 DEF Inbox, Take
    <2>2. holder' = holder
      BY DEF Take
    <2> QED
      BY <2>1, <2>2 DEF IInv, HolderIsOldest
  <1> QED
    BY <1>5, <1>6, <1>7, <1>8, <1>9 DEF IInv, m

LEMMA TakeStopInvariant ==
    ASSUME IInv, TakeStop
    PROVE  IInv' /\ Live' \subseteq Live
  <1> DEFINE m == taken + 1
             k == msgs[m].key
             gone == active[k]
  <1>1. /\ Len(msgs) \in Nat /\ taken \in Nat /\ taken < Len(msgs)
        /\ m \in 1..Len(msgs) /\ taken' = m
    BY LenProperties DEF IInv, TypeOK, TakeStop, Inbox
  <1>2. k \in Keys
    <2>1. msgs[m] \in Message
      BY <1>1, ElementOfSeq DEF IInv, TypeOK
    <2> QED
      BY <2>1 DEF Message
  <1>3. /\ cancelling' = cancelling \cup gone /\ awaiting' = gone /\ stopping' = m
        /\ active' = [active EXCEPT ![k] = {}]
    BY DEF TakeStop
  <1>4. gone = {i \in Live : msgs[i].key = k}
    BY <1>2 DEF IInv, ActiveIsLive
  <1>5. Live' = Live \ gone
    BY <1>3 DEF Live, Holding, TakeStop
  <1>6. TypeOK'
    <2>1. /\ 1..taken \subseteq 1..taken' /\ 0..taken \subseteq 0..taken'
          /\ stopping' \in 0..taken' /\ taken' \in 0..Len(msgs)
      BY <1>1, <1>3
    <2> HIDE DEF m, k, gone
    <2>2. gone \subseteq 1..taken
      BY <1>2 DEF IInv, TypeOK, gone
    <2>3. active' \in [Keys -> SUBSET (1..taken')]
      <3>1. active \in [Keys -> SUBSET (1..taken')]
        BY <2>1 DEF IInv, TypeOK
      <3> QED
        BY <3>1, <1>2, <1>3
    <2>4. cancelling' \subseteq 1..taken' /\ awaiting' \subseteq 1..taken'
      BY <1>3, <2>1, <2>2 DEF IInv, TypeOK
    <2>5. waiting' \subseteq 1..taken' /\ holder' \in 0..taken'
      BY <2>1 DEF IInv, TypeOK, TakeStop
    <2>6. served' \subseteq 1..taken' /\ halted' \subseteq 1..taken'
      BY <2>1 DEF IInv, TypeOK, TakeStop
    <2> QED
      BY <2>1, <2>3, <2>4, <2>5, <2>6 DEF IInv, TypeOK, TakeStop, channel
  <1> HIDE DEF m, k, gone
  <1>7. LockOK' /\ SubsHaveChat'
    BY <1>3, <1>4 DEF IInv, LockOK, SubsHaveChat, Live, Holding, TakeStop
  <1>8. ActiveIsLive'
    <2> SUFFICES ASSUME NEW j \in Keys
                 PROVE  active'[j] = {i \in Live' : msgs[i].key = j}
      BY DEF ActiveIsLive, TakeStop
    <2>1. active[j] = {i \in Live : msgs[i].key = j}
      BY DEF IInv, ActiveIsLive
    <2>2. CASE j = k
      BY <1>2, <1>3, <1>4, <1>5, <2>2 DEF IInv, TypeOK
    <2>3. CASE j # k
      BY <1>2, <1>3, <1>4, <1>5, <2>1, <2>3 DEF IInv, TypeOK
    <2> QED
      BY <2>2, <2>3
  <1>9. HolderIsOldest'
    <2>1. Live' \cup Inbox' \subseteq Live \cup Inbox
      BY <1>1, <1>5 DEF Inbox, TakeStop
    <2> QED
      BY <2>1 DEF IInv, HolderIsOldest, TakeStop
  <1> QED
    BY <1>5, <1>6, <1>7, <1>8, <1>9 DEF IInv

\* What no task does leaves the tasks' part of the invariant alone.
LEMMA SameTasks ==
    ASSUME IInv, UNCHANGED <<msgs, taken, waiting, holder, cancelling, active>>
    PROVE  LockOK' /\ ActiveIsLive' /\ HolderIsOldest'
  BY DEF IInv, LockOK, ActiveIsLive, HolderIsOldest, Live, Inbox, Holding

LEMMA StopSubsInvariant == IInv /\ StopSubs => IInv'
  <1> SUFFICES ASSUME IInv, StopSubs PROVE IInv'
    OBVIOUS
  <1>1. UNCHANGED <<msgs, taken, waiting, holder, cancelling, active>>
    BY DEF StopSubs, lock
  <1>2. \A s \in SubIds : subs'[s] = subs[s] \/ subs'[s] = [subs[s] EXCEPT !.st = "cancelling"]
    BY DEF StopSubs
  <1>3. \A s \in SubIds : subs'[s] \in Sub /\ (subs'[s].st = "running" => subs'[s] = subs[s])
    <2> SUFFICES ASSUME NEW s \in SubIds
                 PROVE  subs'[s] \in Sub /\ (subs'[s].st = "running" => subs'[s] = subs[s])
      OBVIOUS
    <2>1. subs[s] \in Sub
      BY DEF IInv, TypeOK
    <2>2. CASE subs'[s] = subs[s]
      BY <2>1, <2>2
    <2>3. CASE subs'[s] = [subs[s] EXCEPT !.st = "cancelling"]
      BY <2>1, <2>3 DEF Sub
    <2> QED
      BY <1>2, <2>2, <2>3
  <1>4. subs' \in [SubIds -> Sub] /\ SubsHaveChat'
    BY <1>3 DEF StopSubs, IInv, SubsHaveChat
  <1>5. TypeOK'
    BY <1>4 DEF IInv, TypeOK, StopSubs, lock, channel
  <1> QED
    BY <1>1, <1>4, <1>5, SameTasks DEF IInv

LEMMA PublishFacts ==
    ASSUME NEW m \in Nat, NEW kind \in {"final", "tool", "ack"},
           outbox \in Seq(Reply), Publish(m, kind)
    PROVE  outbox' \in Seq(Reply)
  <1> DEFINE r == [re |-> m, kind |-> kind]
  <1>1. r \in Reply
    BY DEF Reply
  <1> HIDE DEF r
  <1>2. outbox' = Append(outbox, r)
    BY DEF Publish, r
  <1> QED
    BY <1>1, <1>2, AppendProperties

LEMMA StopAckInvariant == IInv /\ StopAck => IInv'
  <1> SUFFICES ASSUME IInv, StopAck PROVE IInv'
    OBVIOUS
  <1>1. UNCHANGED <<msgs, taken, waiting, holder, cancelling, active>>
    BY DEF StopAck, lock
  <1>2. Len(msgs) \in Nat /\ taken \in Nat /\ stopping \in Nat
    BY LenProperties DEF IInv, TypeOK
  <1>3. outbox' \in Seq(Reply)
    BY <1>2, PublishFacts DEF IInv, TypeOK, StopAck
  <1>4. /\ stopping' \in 0..taken' /\ phase' \in {"none", "tasks", "subs"}
        /\ awaiting' \subseteq 1..taken' /\ halted' \subseteq 1..taken'
    BY <1>2 DEF IInv, TypeOK, StopAck
  <1>5. TypeOK'
    BY <1>3, <1>4 DEF IInv, TypeOK, StopAck, lock, channel
  <1>6. SubsHaveChat'
    BY DEF IInv, SubsHaveChat, StopAck
  <1> QED
    BY <1>1, <1>5, <1>6, SameTasks DEF IInv

LEMMA TaskCancelledInvariant ==
    ASSUME IInv, NEW m \in 1..Len(msgs), TaskCancelled(m)
    PROVE  IInv' /\ Live' = Live
  <1>1. Len(msgs) \in Nat /\ taken \in Nat
    BY LenProperties DEF IInv, TypeOK
  <1>2. Live' = Live
    BY <1>1 DEF IInv, LockOK, Live, Holding, TaskCancelled
  <1>3. TypeOK'
    BY <1>1 DEF IInv, TypeOK, TaskCancelled, stop, channel
  <1>4. LockOK' /\ SubsHaveChat'
    BY <1>1 DEF IInv, TypeOK, LockOK, SubsHaveChat, Holding, TaskCancelled
  <1>5. ActiveIsLive'
    BY <1>2 DEF IInv, ActiveIsLive, TaskCancelled
  <1>6. HolderIsOldest'
    BY <1>2 DEF IInv, HolderIsOldest, Inbox, TaskCancelled
  <1> QED
    BY <1>2, <1>3, <1>4, <1>5, <1>6 DEF IInv

LEMMA AcquireInvariant ==
    ASSUME IInv, NEW m \in 1..Len(msgs), Acquire(m)
    PROVE  IInv' /\ Live' = Live
  <1>1. Len(msgs) \in Nat /\ taken \in Nat /\ m \in 1..taken
    BY LenProperties DEF IInv, TypeOK, Acquire
  <1>2. Live' = Live
    BY <1>1 DEF Live, Holding, Acquire
  <1>3. TypeOK'
    BY <1>1 DEF IInv, TypeOK, Acquire, stop, channel
  <1>4. LockOK' /\ SubsHaveChat'
    BY <1>1 DEF IInv, LockOK, SubsHaveChat, Holding, Acquire
  <1>5. ActiveIsLive'
    BY <1>2 DEF IInv, ActiveIsLive, Acquire
  <1>6. HolderIsOldest'
    <2>1. Live = waiting \ cancelling
      BY DEF Live, Holding, Acquire, IInv, LockOK
    <2>2. \A i \in Live : m <= i
      BY <2>1 DEF Acquire
    <2>3. \A i \in Inbox : m <= i
      BY <1>1 DEF Inbox
    <2> QED
      BY <1>2, <2>2, <2>3 DEF HolderIsOldest, Inbox, Acquire
  <1> QED
    BY <1>2, <1>3, <1>4, <1>5, <1>6 DEF IInv

LEMMA ToolSendInvariant ==
    ASSUME IInv, NEW m \in 1..Len(msgs), ToolSend(m)
    PROVE  IInv'
  <1>1. UNCHANGED <<msgs, taken, waiting, holder, cancelling, active>>
    BY DEF ToolSend
  <1>2. outbox' \in Seq(Reply)
    BY PublishFacts DEF IInv, TypeOK, ToolSend
  <1>3. TypeOK'
    BY <1>2 DEF IInv, TypeOK, ToolSend, stop, channel
  <1>4. SubsHaveChat'
    BY DEF IInv, SubsHaveChat, ToolSend
  <1> QED
    BY <1>1, <1>3, <1>4, SameTasks DEF IInv

LEMMA SpawnInvariant ==
    ASSUME IInv, NEW m \in 1..Len(msgs), NEW s \in SubIds, Spawn(m, s)
    PROVE  IInv'
  <1> DEFINE x == [st |-> "running", parent |-> m, key |-> msgs[m].chat]
  <1>1. UNCHANGED <<msgs, taken, waiting, holder, cancelling, active>>
    BY DEF Spawn, lock
  <1>2. msgs[m] \in Message /\ Len(msgs) \in Nat
    BY ElementOfSeq, LenProperties DEF IInv, TypeOK
  <1>3. x \in Sub /\ x.key \in Chats
    BY <1>2 DEF Message, Sub
  <1>4. subs' = [subs EXCEPT ![s] = x]
    BY DEF Spawn
  <1> HIDE DEF x
  <1>5. subs' \in [SubIds -> Sub] /\ SubsHaveChat'
    BY <1>3, <1>4 DEF IInv, TypeOK, SubsHaveChat
  <1>6. TypeOK'
    BY <1>5 DEF IInv, TypeOK, Spawn, stop, lock, channel
  <1> QED
    BY <1>1, <1>5, <1>6, SameTasks DEF IInv

LEMMA FinishInvariant ==
    ASSUME IInv, NEW m \in 1..Len(msgs), Finish(m)
    PROVE  /\ IInv' /\ Live' = Live \ {m} /\ m \in Live
           /\ \A i \in Live \cup Inbox : m <= i
  <1> DEFINE k == msgs[m].key
  <1>1. /\ Len(msgs) \in Nat /\ taken \in Nat /\ m \in 1..taken /\ k \in Keys
        /\ holder = m /\ m # 0 /\ m \notin cancelling /\ m \notin waiting
    <2>1. msgs[m] \in Message
      BY ElementOfSeq DEF IInv, TypeOK
    <2>2. k \in Keys
      BY <2>1 DEF Message
    <2> QED
      BY <2>2, LenProperties DEF IInv, TypeOK, LockOK, Finish, Running
  <1>2. active' = [active EXCEPT ![k] = @ \ {m}]
    BY DEF Finish, Forget
  <1> HIDE DEF k
  <1>3. Live' = Live \ {m} /\ m \in Live
    BY <1>1 DEF Live, Holding, Finish
  <1>4. \A i \in Live \cup Inbox : m <= i
    BY <1>1 DEF IInv, HolderIsOldest
  <1>5. TypeOK'
    <2>1. outbox' \in Seq(Reply)
      <3>1. Publish(m, "final") \/ outbox' = outbox
        BY DEF Finish
      <3> QED
        BY <1>1, <3>1, PublishFacts DEF IInv, TypeOK
    <2>2. active' \in [Keys -> SUBSET (1..taken)]
      BY <1>1, <1>2 DEF IInv, TypeOK
    <2>3. served' \subseteq 1..taken /\ holder' = 0 /\ 0 \in 0..taken
      <3>1. served' = served \cup {m} /\ holder' = 0
        BY DEF Finish
      <3>2. served \subseteq 1..taken /\ 0 \in 0..taken
        BY <1>1 DEF IInv, TypeOK
      <3> QED
        BY <1>1, <3>1, <3>2
    <2> QED
      BY <2>1, <2>2, <2>3 DEF IInv, TypeOK, Finish, stop, channel
  <1>6. LockOK' /\ SubsHaveChat'
    BY <1>1 DEF IInv, TypeOK, LockOK, SubsHaveChat, Holding, Finish
  <1>7. ActiveIsLive'
    <2> SUFFICES ASSUME NEW j \in Keys
                 PROVE  active'[j] = {i \in Live' : msgs[i].key = j}
      BY DEF ActiveIsLive, Finish
    <2>1. active[j] = {i \in Live : msgs[i].key = j}
      BY DEF IInv, ActiveIsLive
    <2>2. CASE j = k
      BY <1>1, <1>2, <1>3, <2>1, <2>2 DEF IInv, TypeOK
    <2>3. CASE j # k
      BY <1>1, <1>2, <1>3, <2>1, <2>3 DEF IInv, TypeOK, k
    <2> QED
      BY <2>2, <2>3
  <1>8. HolderIsOldest'
    BY <1>1 DEF HolderIsOldest, Finish
  <1> QED
    BY <1>3, <1>4, <1>5, <1>6, <1>7, <1>8 DEF IInv

LEMMA SubDoneInvariant ==
    ASSUME IInv, NEW s \in SubIds, SubDone(s)
    PROVE  IInv' /\ Put("system", subs[s].key, SystemKey(subs[s].key))
                 /\ subs[s].key \in Chats
  <1>1. subs[s].key \in Chats /\ SystemKey(subs[s].key) \in Keys
    BY KeysFacts DEF IInv, SubsHaveChat, SubDone
  <1>2. subs[s] \in Sub
    BY DEF IInv, TypeOK
  <1>3. [subs[s] EXCEPT !.st = "ended"] \in Sub /\ [subs[s] EXCEPT !.st = "ended"].st = "ended"
    BY <1>2 DEF Sub
  <1>4. subs' = [subs EXCEPT ![s] = [subs[s] EXCEPT !.st = "ended"]]
    BY DEF SubDone
  <1>5. subs' \in [SubIds -> Sub] /\ SubsHaveChat'
    BY <1>3, <1>4 DEF IInv, TypeOK, SubsHaveChat
  <1>6. Put("system", subs[s].key, SystemKey(subs[s].key))
    BY DEF SubDone
  <1>7. sending' \in Seq(Reply) /\ handed' \subseteq Reply
    BY DEF SubDone, channel, IInv, TypeOK
  <1> QED
    BY <1>1, <1>5, <1>6, <1>7, PutInvariant DEF SubDone

LEMMA SubCancelledInvariant ==
    ASSUME IInv, NEW s \in SubIds, SubCancelled(s)
    PROVE  IInv'
  <1>1. UNCHANGED <<msgs, taken, waiting, holder, cancelling, active>>
    BY DEF SubCancelled, lock
  <1>2. subs[s] \in Sub
    BY DEF IInv, TypeOK
  <1>3. [subs[s] EXCEPT !.st = "ended"] \in Sub /\ [subs[s] EXCEPT !.st = "ended"].st = "ended"
    BY <1>2 DEF Sub
  <1>4. subs' = [subs EXCEPT ![s] = [subs[s] EXCEPT !.st = "ended"]]
    BY DEF SubCancelled
  <1>5. subs' \in [SubIds -> Sub] /\ SubsHaveChat'
    BY <1>3, <1>4 DEF IInv, TypeOK, SubsHaveChat
  <1>6. TypeOK'
    BY <1>5 DEF IInv, TypeOK, SubCancelled, stop, lock, channel
  <1> QED
    BY <1>1, <1>5, <1>6, SameTasks DEF IInv

LEMMA DispatcherInvariant == IInv /\ Dispatcher => IInv'
  <1> SUFFICES ASSUME IInv, Dispatcher PROVE IInv'
    OBVIOUS
  <1>1. UNCHANGED <<msgs, taken, waiting, holder, cancelling, active, subs>>
    BY DEF Dispatcher, SendStart, SendEnd, lock
  <1>2. outbox' \in Seq(Reply) /\ sending' \in Seq(Reply) /\ handed' \subseteq Reply
    <2>1. CASE SendStart
      <3>1. outbox \in Seq(Reply) /\ outbox # <<>>
        BY <2>1 DEF SendStart, IInv, TypeOK
      <3>2. Head(outbox) \in Reply /\ Tail(outbox) \in Seq(Reply)
        BY <3>1, HeadTailProperties
      <3>3. <<Head(outbox)>> \in Seq(Reply)
        <4>1. \A r \in Reply : <<r>> \in Seq(Reply)
          OBVIOUS
        <4> QED
          BY <3>2, <4>1
      <3> QED
        BY <2>1, <3>2, <3>3 DEF SendStart, IInv, TypeOK
    <2>2. CASE SendEnd
      BY <2>2, EmptySeq DEF SendEnd, IInv, TypeOK
    <2> QED
      BY <2>1, <2>2 DEF Dispatcher
  <1>3. TypeOK'
    BY <1>1, <1>2 DEF IInv, TypeOK, Dispatcher, SendStart, SendEnd, stop, lock
  <1>4. SubsHaveChat'
    BY <1>1 DEF IInv, SubsHaveChat
  <1> QED
    BY <1>1, <1>3, <1>4, SameTasks DEF IInv

LEMMA StutterInvariant == IInv /\ UNCHANGED vars => IInv'
  <1> SUFFICES ASSUME IInv, UNCHANGED vars PROVE IInv'
    OBVIOUS
  <1>1. TypeOK'
    BY DEF IInv, TypeOK, vars
  <1>2. SubsHaveChat'
    BY DEF IInv, SubsHaveChat, vars
  <1> QED
    BY <1>1, <1>2, SameTasks DEF IInv, vars

LEMMA NextInvariant == IInv /\ [Next]_vars => IInv'
  <1> SUFFICES ASSUME IInv, [Next]_vars PROVE IInv'
    OBVIOUS
  <1>1. CASE Channels
    BY <1>1, ChannelsInvariant
  <1>2. CASE RunLoop
    BY <1>2, TakeInvariant, TakeStopInvariant, StopSubsInvariant, StopAckInvariant DEF RunLoop
  <1>3. CASE Tasks
    <2>1. PICK m \in 1..Len(msgs) : TaskCancelled(m) \/ Acquire(m) \/ Turn(m)
      BY <1>3 DEF Tasks
    <2>2. CASE Turn(m)
      BY <2>2, ToolSendInvariant, FinishInvariant, SpawnInvariant DEF Turn
    <2> QED
      BY <2>1, <2>2, TaskCancelledInvariant, AcquireInvariant
  <1>4. CASE Subagents
    BY <1>4, SubDoneInvariant, SubCancelledInvariant DEF Subagents
  <1>5. CASE Dispatcher
    BY <1>5, DispatcherInvariant
  <1>6. CASE UNCHANGED vars
    BY <1>6, StutterInvariant
  <1> QED
    BY <1>1, <1>2, <1>3, <1>4, <1>5, <1>6 DEF Next

LEMMA Invariant == Spec => []IInv
  <1>1. Init => IInv
    BY InitInvariant
  <1>2. IInv /\ [Next]_vars => IInv'
    BY NextInvariant
  <1> QED
    BY <1>1, <1>2, PTL DEF Spec

\* The state of bus, loop, subagents and dispatcher keeps its shape.
THEOREM TypeCorrect == Spec => []TypeOK
  BY Invariant, PTL DEF IInv

\* /stop reaches every task of its session key that still works: _active_tasks
\* and the tasks agree whatever callbacks, cancellations and turns interleave.
THEOREM StopReachesAll == Spec => []ActiveIsLive
  BY Invariant, PTL DEF IInv

\* The processing lock never runs a younger message before an older one.
THEOREM LockIsFair == Spec => []HolderIsOldest
  BY Invariant, PTL DEF IInv

\* A message put on the queue arrives at the server, unless it is a /stop.
LEMMA PutImplements ==
    ASSUME IInv, NEW kind \in {"user", "stop", "system"}, NEW c \in Chats, NEW k \in Keys,
           Put(kind, c, k), UNCHANGED <<taken, waiting, holder, cancelling, served>>
    PROVE  Server!Arrive \/ UNCHANGED <<Pending, served>>
  <1> DEFINE m == Len(msgs) + 1
  <1>1. /\ Len(msgs') = m /\ Len(msgs) \in Nat /\ msgs'[m].kind = kind
        /\ \A i \in 1..Len(msgs) : msgs'[i] = msgs[i]
    BY PutFacts DEF IInv, TypeOK
  <1>2. taken \in Nat /\ taken <= Len(msgs)
    BY <1>1 DEF IInv, TypeOK
  <1>3. Live' = Live /\ Live \subseteq 1..Len(msgs)
    BY <1>2 DEF Live, Holding, IInv, TypeOK
  <1>4. Inbox' = Inbox \cup {m} /\ Inbox \subseteq 1..Len(msgs) /\ m \notin Inbox
    BY <1>1, <1>2 DEF Inbox
  <1> HIDE DEF m
  <1>5. CASE kind = "stop"
    <2>1. Pending' = Pending
      BY <1>1, <1>3, <1>4, <1>5 DEF Pending
    <2> QED
      BY <2>1
  <1>6. CASE kind # "stop"
    <2>1. Pending' = Pending \cup {m}
      BY <1>1, <1>3, <1>4, <1>6 DEF Pending
    <2>2. \A i \in Pending \cup served : i < m
      <3>1. Pending \cup served \subseteq 1..Len(msgs)
        <4>1. served \subseteq 1..taken /\ 1..taken \subseteq 1..Len(msgs)
          BY <1>1, <1>2 DEF IInv, TypeOK
        <4> QED
          BY <1>3, <1>4, <4>1 DEF Pending
      <3> QED
        BY <3>1, <1>1 DEF m
    <2> QED
      BY <2>1, <2>2 DEF Server!Arrive
  <1> QED
    BY <1>5, <1>6

LEMMA NextImplements == IInv /\ [Next]_vars => [Server!Next]_<<Pending, served>>
  <1> SUFFICES ASSUME IInv, [Next]_vars
               PROVE  Server!Next \/ UNCHANGED <<Pending, served>>
    OBVIOUS
  <1>1. Len(msgs) \in Nat /\ taken \in Nat
    BY LenProperties DEF IInv, TypeOK
  <1>2. ASSUME UNCHANGED <<msgs, taken, served>>, Live' = Live
        PROVE  UNCHANGED <<Pending, served>>
    BY <1>2 DEF Pending, Inbox
  <1>3. CASE Channels
    <2> SUFFICES ASSUME NEW c \in Chats, NEW k \in KeysOf(c),
                        NEW kind \in {"user", "stop"}, Receive(c, k, kind)
                 PROVE  Server!Next \/ UNCHANGED <<Pending, served>>
      BY <1>3 DEF Channels
    <2>1. k \in Keys
      BY KeysFacts
    <2> QED
      BY <2>1, PutImplements DEF Receive, lock, Server!Next
  <1>4. CASE Take
    <2>1. Live' = Live \cup {taken + 1}
      BY <1>4, TakeInvariant
    <2>2. Inbox = Inbox' \cup {taken + 1} /\ taken + 1 \notin Inbox'
      BY <1>1, <1>4 DEF Take, Inbox
    <2>3. Pending' = Pending
      BY <1>4, <2>1, <2>2 DEF Take, Pending
    <2> QED
      BY <1>4, <2>3 DEF Take
  <1>5. CASE TakeStop
    <2>1. Live' \subseteq Live
      BY <1>5, TakeStopInvariant
    <2>2. Inbox' \subseteq Inbox
      BY <1>1, <1>5 DEF TakeStop, Inbox
    <2>3. Pending' \subseteq Pending
      BY <1>5, <2>1, <2>2 DEF TakeStop, Pending
    <2> QED
      BY <1>5, <2>3 DEF TakeStop, Server!Next, Server!Withdraw
  <1>6. CASE StopSubs \/ StopAck \/ Dispatcher \/ UNCHANGED vars
    <2>1. UNCHANGED <<msgs, taken, waiting, holder, cancelling, served>>
      BY <1>6 DEF StopSubs, StopAck, Dispatcher, SendStart, SendEnd, lock, vars
    <2> QED
      BY <2>1, <1>2 DEF Live, Holding
  <1>7. CASE Tasks
    <2>1. PICK m \in 1..Len(msgs) : TaskCancelled(m) \/ Acquire(m) \/ Turn(m)
      BY <1>7 DEF Tasks
    <2>2. CASE TaskCancelled(m)
      BY <1>2, <2>2, TaskCancelledInvariant DEF TaskCancelled
    <2>3. CASE Acquire(m)
      BY <1>2, <2>3, AcquireInvariant DEF Acquire
    <2>4. CASE ToolSend(m) \/ \E s \in SubIds : Spawn(m, s)
      <3>1. UNCHANGED <<msgs, taken, waiting, holder, cancelling, served>>
        BY <2>4 DEF ToolSend, Spawn, lock
      <3> QED
        BY <3>1, <1>2 DEF Live, Holding
    <2>5. CASE Finish(m)
      <3>1. /\ Live' = Live \ {m} /\ m \in Live
            /\ \A i \in Live \cup Inbox : m <= i
        BY <2>5, FinishInvariant
      <3>2. UNCHANGED <<msgs, taken>> /\ served' = served \cup {m}
        BY <2>5 DEF Finish
      <3>3. m \notin Inbox
        BY <1>1, <3>1 DEF Inbox, Live, Holding, IInv, TypeOK
      <3>4. m \in Pending /\ Pending' = Pending \ {m} /\ \A i \in Pending : m <= i
        BY <3>1, <3>2, <3>3 DEF Pending, Inbox
      <3> QED
        BY <3>2, <3>4 DEF Server!Next, Server!Serve
    <2> QED
      BY <2>1, <2>2, <2>3, <2>4, <2>5 DEF Turn
  <1>8. CASE Subagents
    <2>1. PICK s \in SubIds : SubDone(s) \/ SubCancelled(s)
      BY <1>8 DEF Subagents
    <2>2. CASE SubDone(s)
      <3>1. Put("system", subs[s].key, SystemKey(subs[s].key)) /\ subs[s].key \in Chats
        BY <2>2, SubDoneInvariant
      <3>2. SystemKey(subs[s].key) \in Keys
        BY <3>1, KeysFacts
      <3> QED
        BY <2>2, <3>1, <3>2, PutImplements DEF SubDone, lock, Server!Next
    <2>3. CASE SubCancelled(s)
      BY <2>3, <1>2 DEF SubCancelled, lock, Live, Holding
    <2> QED
      BY <2>1, <2>2, <2>3
  <1> QED
    BY <1>3, <1>4, <1>5, <1>6, <1>7, <1>8 DEF Next, RunLoop

\* The agent loop implements the turn server: one turn per message, in the order
\* of arrival, and none for a message that /stop withdrew.
THEOREM LoopImplementsServer == Spec => ServesInOrder
  <1>1. Init => Server!Init
    <2> SUFFICES ASSUME Init PROVE Pending = {} /\ served = {}
      BY DEF Server!Init
    <2>1. Len(msgs) = 0 /\ taken = 0 /\ Live = {} /\ served = {}
      BY EmptySeq DEF Init, Live, Holding
    <2>2. Inbox = {}
      BY <2>1 DEF Inbox
    <2> QED
      BY <2>1, <2>2 DEF Pending
  <1>2. IInv /\ [Next]_vars => [Server!Next]_<<Pending, served>>
    BY NextImplements
  <1> QED
    BY <1>1, <1>2, Invariant, PTL DEF Spec, ServesInOrder, Server!Spec

----------------------------------------------------------------------------
\* What /stop has cancelled says nothing any more.

AtWork == waiting \cup Holding

\* The tasks of a confirmed /stop are gone, those of the one that is being handled are
\* cancelled, and by its second phase gone; a /stop cancels neither itself nor later messages.
Silenced ==
    /\ halted \cap AtWork = {}
    /\ phase = "tasks" => awaiting \cap AtWork \subseteq cancelling
    /\ phase = "subs" => awaiting \cap AtWork = {}
    /\ stopping \notin halted \cup awaiting

LEMMA InitSilenced == Init => Silenced
  BY DEF Init, Silenced

LEMMA NextSilenced == IInv /\ Silenced /\ [Next]_vars => Silenced'
  <1> SUFFICES ASSUME IInv, Silenced, [Next]_vars PROVE Silenced'
    OBVIOUS
  <1>1. /\ taken \in Nat /\ Len(msgs) \in Nat /\ halted \subseteq 1..taken /\ awaiting \subseteq 1..taken
        /\ cancelling \subseteq AtWork /\ 0 \notin 1..taken /\ taken + 1 \notin 1..taken
    BY LenProperties DEF IInv, TypeOK, LockOK, AtWork
  <1>2. ASSUME UNCHANGED <<stop, waiting, holder, cancelling, halted>> PROVE Silenced'
    BY <1>2 DEF Silenced, AtWork, Holding, stop
  <1>3. CASE Take
    <2>1. AtWork' = AtWork \cup {taken + 1} /\ UNCHANGED <<stop, cancelling, halted>>
      BY <1>3 DEF Take, AtWork, Holding
    <2> QED
      BY <1>1, <2>1 DEF Silenced, stop
  <1>4. CASE TakeStop
    <2>1. msgs[taken + 1] \in Message
      BY <1>1, <1>4, ElementOfSeq DEF IInv, TypeOK, TakeStop, Inbox
    <2>2. awaiting' \subseteq 1..taken
      BY <1>4, <2>1 DEF TakeStop, IInv, TypeOK, Message
    <2>3. AtWork' = AtWork /\ halted' = halted /\ stopping' = taken + 1 /\ phase' = "tasks" /\ awaiting' \subseteq cancelling'
      BY <1>4 DEF TakeStop, AtWork, Holding
    <2> QED
      BY <1>1, <2>2, <2>3 DEF Silenced
  <1>5. CASE StopSubs
    <2>1. AtWork' = AtWork /\ UNCHANGED <<stopping, awaiting, halted>> /\ phase' = "subs" /\ phase = "tasks"
          /\ awaiting \cap cancelling = {}
      BY <1>5 DEF StopSubs, lock, AtWork, Holding
    <2> QED
      BY <2>1 DEF Silenced
  <1>6. CASE StopAck
    <2>1. AtWork' = AtWork /\ halted' = halted \cup awaiting /\ stopping' = 0 /\ phase' = "none" /\ awaiting' = {}
          /\ phase = "subs"
      BY <1>6 DEF StopAck, lock, AtWork, Holding
    <2> QED
      BY <1>1, <2>1 DEF Silenced
  <1>7. CASE Tasks
    <2>1. PICK m \in 1..Len(msgs) : TaskCancelled(m) \/ Acquire(m) \/ Turn(m)
      BY <1>7 DEF Tasks
    <2>2. CASE TaskCancelled(m)
      <3>1. AtWork' = AtWork \ {m} /\ cancelling' = cancelling \ {m} /\ UNCHANGED <<stop, halted>>
        BY <1>1, <2>2 DEF TaskCancelled, AtWork, Holding, IInv, LockOK
      <3> QED
        BY <3>1 DEF Silenced, stop
    <2>3. CASE Acquire(m)
      <3>1. AtWork' = AtWork /\ UNCHANGED <<stop, cancelling, halted>>
        BY <1>1, <2>3 DEF Acquire, AtWork, Holding
      <3> QED
        BY <3>1 DEF Silenced, stop
    <2>4. CASE ToolSend(m) \/ \E s \in SubIds : Spawn(m, s)
      BY <1>2, <2>4 DEF ToolSend, Spawn, lock
    <2>5. CASE Finish(m)
      <3>1. AtWork' \subseteq AtWork /\ UNCHANGED <<stop, cancelling, halted>>
        BY <2>5 DEF Finish, AtWork, Holding
      <3> QED
        BY <3>1 DEF Silenced, stop
    <2> QED
      BY <2>1, <2>2, <2>3, <2>4, <2>5 DEF Turn
  <1>8. CASE Channels \/ Subagents \/ Dispatcher \/ UNCHANGED vars
    <2>1. CASE Channels \/ Subagents
      BY <1>2, <2>1 DEF Channels, Receive, Subagents, SubDone, SubCancelled, lock
    <2>2. CASE Dispatcher
      BY <1>2, <2>2 DEF Dispatcher, SendStart, SendEnd, lock
    <2>3. CASE UNCHANGED vars
      BY <1>2, <2>3 DEF vars, stop
    <2> QED
      BY <1>8, <2>1, <2>2, <2>3
  <1> QED
    BY <1>3, <1>4, <1>5, <1>6, <1>7, <1>8 DEF Next, RunLoop

Replies == {outbox[i] : i \in 1..Len(outbox)}

LEMMA PublishAdds ==
    ASSUME NEW m \in Nat, NEW kind \in {"final", "tool", "ack"},
           outbox \in Seq(Reply), Publish(m, kind)
    PROVE  \A r \in Replies' \ Replies : r.re = m
  <1> DEFINE r == [re |-> m, kind |-> kind]
  <1>1. r \in Reply /\ r.re = m
    BY DEF Reply
  <1> HIDE DEF r
  <1>2. outbox' = Append(outbox, r)
    BY DEF Publish, r
  <1>3. /\ Len(outbox') = Len(outbox) + 1 /\ Len(outbox) \in Nat /\ outbox'[Len(outbox) + 1] = r
        /\ \A i \in 1..Len(outbox) : outbox'[i] = outbox[i]
    BY <1>1, <1>2, AppendProperties
  <1> QED
    BY <1>1, <1>3 DEF Replies

\* A reply that is new on the outbound queue is one of the turn that runs, or of the /stop
\* that is being confirmed.
LEMMA NewReplies ==
    ASSUME IInv, [Next]_vars, NEW r \in Replies' \ Replies
    PROVE  r.re = stopping \/ (r.re \in AtWork)
  <1>1. outbox \in Seq(Reply) /\ stopping \in Nat /\ Len(msgs) \in Nat
    BY LenProperties DEF IInv, TypeOK
  <1>2. outbox' # outbox
    BY DEF Replies
  <1>3. CASE StopAck
    BY <1>1, <1>3, PublishAdds DEF StopAck
  <1>4. CASE Tasks
    <2>1. PICK m \in 1..Len(msgs) : TaskCancelled(m) \/ Acquire(m) \/ Turn(m)
      BY <1>4 DEF Tasks
    <2>2. CASE ToolSend(m)
      <3>1. m = holder /\ m # 0 /\ Publish(m, "tool")
        BY <1>1, <2>2 DEF ToolSend, Running
      <3> QED
        BY <1>1, <3>1, PublishAdds DEF AtWork, Holding
    <2>3. CASE Finish(m)
      <3>1. m = holder /\ m # 0 /\ Publish(m, "final")
        BY <1>1, <1>2, <2>3 DEF Finish, Running
      <3> QED
        BY <1>1, <3>1, PublishAdds DEF AtWork, Holding
    <2> QED
      BY <1>2, <2>1, <2>2, <2>3 DEF TaskCancelled, Acquire, Turn, Spawn
  <1>5. CASE SendStart
    <2>1. /\ outbox' = Tail(outbox) /\ outbox # <<>>
      BY <1>5 DEF SendStart
    <2>2. /\ Len(outbox') = Len(outbox) - 1 /\ Len(outbox) \in Nat
          /\ \A i \in 1..Len(outbox') : outbox'[i] = outbox[i + 1]
      BY <1>1, <2>1, HeadTailProperties, LenProperties
    <2>3. Replies' \subseteq Replies
      BY <2>2 DEF Replies
    <2> QED
      BY <2>3
  <1> QED
    BY <1>2, <1>3, <1>4, <1>5
       DEF Next, Channels, Receive, RunLoop, Take, TakeStop, StopSubs, Subagents, SubDone, SubCancelled, Dispatcher,
           SendEnd, vars

\* Once a /stop is confirmed nothing more is said for the messages it cancelled, whatever
\* callbacks, cancellations and turns interleave (_handle_stop, _dispatch).
THEOREM StoppedStaySilent == Spec => HaltedStaySilent
  <1>1. Init => IInv /\ Silenced
    BY InitInvariant, InitSilenced
  <1>2. IInv /\ Silenced /\ [Next]_vars => (IInv /\ Silenced)'
    BY NextInvariant, NextSilenced
  <1>3. IInv /\ Silenced /\ [Next]_vars =>
            [\A r \in {outbox'[i] : i \in 1..Len(outbox')} \ {outbox[i] : i \in 1..Len(outbox)} : r.re \notin halted]_vars
    <2> SUFFICES ASSUME IInv, Silenced, [Next]_vars, NEW r \in Replies' \ Replies PROVE r.re \notin halted
      BY DEF Replies
    <2> QED
      BY NewReplies DEF Silenced
  <1> QED
    BY <1>1, <1>2, <1>3, PTL DEF Spec, HaltedStaySilent

----------------------------------------------------------------------------
\* What is left of a session when its /stop is confirmed.

\* While a /stop is handled no task of its session begins; a subagent is filed under the chat
\* of its parent; once the subagents of the session are cancelled, none begins.
Emptied ==
    /\ phase = "none" <=> stopping = 0
    /\ stopping # 0 => active[msgs[stopping].key] = {}
    /\ \A i \in 1..Len(msgs) : msgs[i].kind = "user" => msgs[i].key \in KeysOf(msgs[i].chat)
    /\ \A s \in SubIds : subs[s].st = "running" =>
         subs[s].parent \in 1..taken /\ subs[s].key = msgs[subs[s].parent].chat
    /\ phase = "subs" => \A s \in SubIds : subs[s].st = "running" =>
         ~(msgs[subs[s].parent].kind = "user" /\ msgs[subs[s].parent].key = msgs[stopping].key)

LEMMA InitEmptied == Init => Emptied
  <1> SUFFICES ASSUME Init PROVE Emptied
    OBVIOUS
  <1>1. Len(msgs) = 0 /\ \A s \in SubIds : subs[s].st = "unused"
    BY EmptySeq DEF Init
  <1> QED
    BY <1>1 DEF Init, Emptied

LEMMA NumbersEmptied ==
    ASSUME IInv
    PROVE  /\ taken \in Nat /\ Len(msgs) \in Nat /\ taken <= Len(msgs) /\ stopping \in 0..taken /\ 1..taken \subseteq 1..Len(msgs)
           /\ \A i \in 1..Len(msgs) : msgs[i] \in Message
           /\ Live \subseteq 1..taken
           /\ \A m \in Live : msgs[m].key \in Keys /\ m \in active[msgs[m].key]
  <1>1. msgs \in Seq(Message) /\ Len(msgs) \in Nat /\ taken \in 0..Len(msgs) /\ stopping \in 0..taken
    BY LenProperties DEF IInv, TypeOK
  <1>2. \A i \in 1..Len(msgs) : msgs[i] \in Message
    BY <1>1, ElementOfSeq
  <1>3. Live \subseteq 1..taken
    BY <1>1 DEF Live, Holding, IInv, TypeOK
  <1>4. ASSUME NEW m \in Live PROVE msgs[m].key \in Keys /\ m \in active[msgs[m].key]
    <2>1. msgs[m].key \in Keys
      BY <1>1, <1>2, <1>3 DEF Message
    <2> QED
      BY <2>1 DEF IInv, ActiveIsLive
  <1> QED
    BY <1>1, <1>2, <1>3, <1>4

\* A message enters the queue; a subagent may have ended.
LEMMA PutEmptied ==
    ASSUME IInv, Emptied, NEW kind \in {"user", "stop", "system"}, NEW c \in Chats, NEW k \in Keys, Put(kind, c, k),
           kind = "user" => k \in KeysOf(c), UNCHANGED <<taken, stop, active>>,
           subs' = subs \/ \E s \in SubIds : subs' = [subs EXCEPT ![s].st = "ended"]
    PROVE  Emptied'
  <1>1. /\ Len(msgs') = Len(msgs) + 1 /\ Len(msgs) \in Nat /\ \A i \in 1..Len(msgs) : msgs'[i] = msgs[i]
    BY PutFacts DEF IInv, TypeOK
  <1>2. taken \in Nat /\ Len(msgs) \in Nat /\ taken <= Len(msgs) /\ stopping \in 0..taken
    BY NumbersEmptied
  <1>3. msgs'[Len(msgs) + 1].kind = kind /\ msgs'[Len(msgs) + 1].chat = c /\ msgs'[Len(msgs) + 1].key = k
    <2>1. [kind |-> kind, chat |-> c, key |-> k] \in Message
      BY DEF Message
    <2>2. msgs'[Len(msgs) + 1] = [kind |-> kind, chat |-> c, key |-> k]
      BY <2>1, AppendProperties DEF Put, IInv, TypeOK
    <2> QED
      BY <2>2
  <1>4. \A s \in SubIds : subs'[s].st = "running" =>
            subs[s].st = "running" /\ subs'[s].parent = subs[s].parent /\ subs'[s].key = subs[s].key
    BY DEF IInv, TypeOK, Sub
  <1>5. /\ phase' = "none" <=> stopping' = 0
        /\ stopping' # 0 => active'[msgs'[stopping'].key] = {}
    <2>1. stopping' = stopping /\ phase' = phase /\ active' = active
      BY DEF stop
    <2>2. stopping # 0 => msgs'[stopping] = msgs[stopping]
      BY <1>1, <1>2
    <2>3. /\ phase = "none" <=> stopping = 0
          /\ stopping # 0 => active[msgs[stopping].key] = {}
      BY DEF Emptied
    <2> QED
      BY <2>1, <2>2, <2>3
  <1>6. \A i \in 1..Len(msgs') : msgs'[i].kind = "user" => msgs'[i].key \in KeysOf(msgs'[i].chat)
    BY <1>1, <1>3 DEF Emptied
  <1>7. ASSUME NEW s \in SubIds, subs'[s].st = "running"
        PROVE  /\ subs'[s].parent \in 1..taken /\ subs'[s].key = msgs'[subs'[s].parent].chat
               /\ phase = "subs" => ~(msgs'[subs'[s].parent].kind = "user" /\ msgs'[subs'[s].parent].key = msgs'[stopping].key)
    <2>1. subs[s].parent \in 1..taken /\ subs[s].key = msgs[subs[s].parent].chat /\ subs'[s].parent = subs[s].parent
          /\ subs'[s].key = subs[s].key
      BY <1>4, <1>7 DEF Emptied
    <2>2. msgs'[subs[s].parent] = msgs[subs[s].parent]
      BY <1>1, <1>2, <2>1
    <2>3. phase = "subs" => msgs'[stopping] = msgs[stopping]
      BY <1>1, <1>2 DEF Emptied
    <2> QED
      BY <1>4, <1>7, <2>1, <2>2, <2>3 DEF Emptied
  <1> QED
    BY <1>5, <1>6, <1>7 DEF Emptied, stop

LEMMA NextEmptied ==
    ASSUME Overrides = {}, IInv, Emptied, [Next]_vars
    PROVE  Emptied'
  <1>1. /\ taken \in Nat /\ Len(msgs) \in Nat /\ taken <= Len(msgs) /\ stopping \in 0..taken
        /\ \A i \in 1..Len(msgs) : msgs[i] \in Message
    BY NumbersEmptied
  <1>2. ASSUME UNCHANGED <<msgs, taken, stop, active, subs>> PROVE Emptied'
    BY <1>2 DEF Emptied, stop
  <1>3. CASE Channels
    <2>0. PICK c \in Chats : \E k \in KeysOf(c), kind \in {"user", "stop"} : Receive(c, k, kind)
      BY <1>3 DEF Channels
    <2>1. PICK k \in KeysOf(c), kind \in {"user", "stop"} : Receive(c, k, kind)
      BY <2>0
    <2>2. k \in Keys
      BY KeysFacts
    <2> QED
      BY <2>1, <2>2, PutEmptied DEF Receive
  <1>4. CASE Take
    <2>1. /\ stopping = 0 /\ taken' = taken + 1 /\ UNCHANGED <<msgs, stop, subs>>
      BY <1>4 DEF Take
    <2>2. phase = "none" /\ stopping' = 0 /\ phase' = "none"
      BY <2>1 DEF Emptied, stop
    <2> QED
      BY <1>1, <2>1, <2>2 DEF Emptied
  <1>5. CASE TakeStop
    <2>1. /\ taken' = taken + 1 /\ stopping' = taken + 1 /\ phase' = "tasks" /\ UNCHANGED <<msgs, subs>>
          /\ active' = [active EXCEPT ![msgs[taken + 1].key] = {}] /\ taken + 1 \in 1..Len(msgs)
      BY <1>1, <1>5 DEF TakeStop, Inbox
    <2>2. msgs[taken + 1].key \in Keys /\ active \in [Keys -> SUBSET (1..taken)]
      BY <1>1, <2>1 DEF Message, IInv, TypeOK
    <2>3. active'[msgs[taken + 1].key] = {} /\ stopping' # 0
      BY <1>1, <2>1, <2>2
    <2> QED
      BY <1>1, <2>1, <2>3 DEF Emptied
  <1>6. CASE StopSubs
    <2>1. /\ phase = "tasks" /\ phase' = "subs" /\ UNCHANGED <<msgs, taken, stopping, active>>
          /\ subs' = [s \in SubIds |-> IF subs[s].st = "running" /\ subs[s].key = msgs[stopping].key
                                       THEN [subs[s] EXCEPT !.st = "cancelling"] ELSE subs[s]]
      BY <1>6 DEF StopSubs
    <2>2. \A s \in SubIds : subs[s] \in Sub
      BY DEF IInv, TypeOK
    <2>3. \A s \in SubIds : subs'[s].st = "running" =>
              subs'[s] = subs[s] /\ subs[s].st = "running" /\ subs[s].key # msgs[stopping].key
      BY <2>1, <2>2 DEF Sub
    <2>4. ASSUME NEW s \in SubIds, subs'[s].st = "running"
          PROVE  ~(msgs[subs[s].parent].kind = "user" /\ msgs[subs[s].parent].key = msgs[stopping].key)
      <3>1. /\ subs[s].parent \in 1..Len(msgs) /\ subs[s].key = msgs[subs[s].parent].chat
            /\ subs[s].key # msgs[stopping].key
        BY <1>1, <2>3, <2>4 DEF Emptied
      <3>2. msgs[subs[s].parent].kind = "user" => msgs[subs[s].parent].key = msgs[subs[s].parent].chat
        BY <3>1 DEF Emptied, KeysOf
      <3> QED
        BY <3>1, <3>2
    <2>5. phase' = "none" <=> stopping' = 0
      BY <2>1 DEF Emptied
    <2> QED
      BY <2>1, <2>3, <2>4, <2>5 DEF Emptied
  <1>7. CASE StopAck
    <2>1. phase' = "none" /\ stopping' = 0 /\ UNCHANGED <<msgs, taken, active, subs>>
      BY <1>7 DEF StopAck
    <2> QED
      BY <2>1 DEF Emptied
  <1>8. CASE Tasks
    <2>1. PICK m \in 1..Len(msgs) : TaskCancelled(m) \/ Acquire(m) \/ Turn(m)
      BY <1>8 DEF Tasks
    <2>2. CASE TaskCancelled(m) \/ Acquire(m) \/ ToolSend(m)
      BY <1>2, <2>2 DEF TaskCancelled, Acquire, ToolSend
    <2>3. CASE Finish(m)
      <3>1. UNCHANGED <<msgs, taken, stop, subs>> /\ active' = [active EXCEPT ![msgs[m].key] = @ \ {m}]
        BY <2>3 DEF Finish, Forget
      <3>2. \A k \in Keys : active'[k] \subseteq active[k]
        BY <3>1 DEF IInv, TypeOK
      <3>3. stopping # 0 => msgs[stopping].key \in Keys
        BY <1>1 DEF Message
      <3> QED
        BY <3>1, <3>2, <3>3 DEF Emptied, stop
    <2>4. CASE \E s \in SubIds : Spawn(m, s)
      <3>1. PICK s \in SubIds : Spawn(m, s)
        BY <2>4
      <3>2. /\ UNCHANGED <<msgs, taken, stop, active>> /\ holder = m /\ m \notin cancelling
            /\ subs' = [subs EXCEPT ![s] = [st |-> "running", parent |-> m, key |-> msgs[m].chat]]
        BY <3>1 DEF Spawn, Running
      <3>3. m \in Live
        BY <1>1, <3>2 DEF Live, Holding
      <3>4. m \in 1..taken /\ m \in active[msgs[m].key]
        BY <3>3, NumbersEmptied
      <3>5. /\ subs'[s].parent = m /\ subs'[s].key = msgs[m].chat
            /\ \A r \in SubIds : r # s => subs'[r] = subs[r]
        BY <3>2 DEF IInv, TypeOK
      <3>6. phase = "subs" => msgs[m].key # msgs[stopping].key
        BY <3>4 DEF Emptied
      <3> QED
        BY <3>2, <3>4, <3>5, <3>6 DEF Emptied, stop
    <2> QED
      BY <2>1, <2>2, <2>3, <2>4 DEF Turn
  <1>9. CASE Subagents
    <2>1. PICK s \in SubIds : SubDone(s) \/ SubCancelled(s)
      BY <1>9 DEF Subagents
    <2>2. CASE SubDone(s)
      <3>1. subs[s].key \in Chats
        BY <2>2 DEF SubDone, IInv, SubsHaveChat
      <3>2. SystemKey(subs[s].key) \in Keys
        BY <3>1, KeysFacts
      <3>3. /\ Put("system", subs[s].key, SystemKey(subs[s].key)) /\ UNCHANGED <<taken, stop, active>>
            /\ subs' = [subs EXCEPT ![s].st = "ended"]
        BY <2>2 DEF SubDone
      <3>4. ASSUME NEW c, c = subs[s].key, NEW k, k = SystemKey(c) PROVE Emptied'
        <4>1. c \in Chats /\ k \in Keys /\ Put("system", c, k)
          BY <3>1, <3>2, <3>3, <3>4
        <4> QED
          BY <3>3, <4>1, PutEmptied
      <3> QED
        BY <3>4
    <2>3. CASE SubCancelled(s)
      <3>1. UNCHANGED <<msgs, taken, stop, active>> /\ subs' = [subs EXCEPT ![s].st = "ended"]
        BY <2>3 DEF SubCancelled
      <3>2. \A r \in SubIds : subs'[r].st = "running" =>
              subs[r].st = "running" /\ subs'[r].parent = subs[r].parent /\ subs'[r].key = subs[r].key
        BY <3>1 DEF IInv, TypeOK, Sub
      <3> QED
        BY <3>1, <3>2 DEF Emptied, stop
    <2> QED
      BY <2>1, <2>2, <2>3
  <1>10. CASE Dispatcher \/ UNCHANGED vars
    BY <1>2, <1>10 DEF Dispatcher, SendStart, SendEnd, vars, stop
  <1> QED
    BY <1>3, <1>4, <1>5, <1>6, <1>7, <1>8, <1>9, <1>10 DEF Next, RunLoop

\* When /stop is confirmed, no turn of a user's message in the session is left nor a subagent
\* such a turn spawned, if the sessions are the chats; the subagents of a channel that sets
\* session keys of its own are filed under the chat, and /stop misses them (_handle_stop,
\* cancel_by_session).
THEOREM StopEndsWork == Overrides = {} => (Spec => StopEndsUserWork)
  <1> SUFFICES ASSUME Overrides = {} PROVE Spec => StopEndsUserWork
    OBVIOUS
  <1>1. Init => IInv /\ Emptied
    BY InitInvariant, InitEmptied
  <1>2. IInv /\ Emptied /\ [Next]_vars => (IInv /\ Emptied)'
    BY NextInvariant, NextEmptied
  <1>3. IInv /\ Emptied /\ [Next]_vars =>
          [\A k \in UserKeys : Confirmed(k) =>
             /\ \A m \in Live' : ~(msgs[m].kind = "user" /\ msgs[m].key = k)
             /\ \A s \in SubIds : subs'[s].st = "running" =>
                    LET p == msgs[subs[s].parent] IN ~(p.kind = "user" /\ p.key = k)]_vars
    <2> SUFFICES ASSUME IInv, Emptied, [Next]_vars, NEW k \in UserKeys, Confirmed(k)
                 PROVE  /\ \A m \in Live' : ~(msgs[m].kind = "user" /\ msgs[m].key = k)
                        /\ \A s \in SubIds : subs'[s].st = "running" =>
                             ~(msgs[subs[s].parent].kind = "user" /\ msgs[subs[s].parent].key = k)
      OBVIOUS
    <2>1. phase = "subs" /\ phase' = "none" /\ msgs[stopping].key = k
      BY DEF Confirmed
    <2>2. StopAck
      BY <2>1 DEF Next, Channels, Receive, RunLoop, Take, TakeStop, StopSubs, Tasks, TaskCancelled, Acquire, Turn, ToolSend,
                  Finish, Spawn, Subagents, SubDone, SubCancelled, Dispatcher, SendStart, SendEnd, stop, vars
    <2>3. Live' = Live /\ subs' = subs /\ stopping # 0
      BY <2>1, <2>2 DEF StopAck, Live, Holding, lock, Emptied
    <2>4. \A m \in Live : msgs[m].key # k
      BY <2>1, <2>3, NumbersEmptied DEF Emptied
    <2> QED
      BY <2>1, <2>3, <2>4 DEF Emptied
  <1> QED
    BY <1>1, <1>2, <1>3, PTL DEF Spec, StopEndsUserWork

----------------------------------------------------------------------------
\* ContentPolicy.

USE PolicyAssumption

\* What a request or a judgement carries from step to step.
Asks == Nat \X (DOMAIN Texts) \X Scopes
Jobs == [at : {"idle", "open", "write", "replace", "exists", "create", "fill", "read"},
         fd : Nat \cup {Nothing}, new : Policy \cup {Nothing}, stat : Nat \cup {Nothing},
         ask : Asks \cup {Nothing}, policy : Policy \cup {Nothing}]
Inode == [policy : Policy \cup {Torn}, mtime : Nat]

\* A save belongs to the admin server, a judgement to a gateway; what is open exists.
Fits(a, j) ==
    /\ j.at \in {"write", "replace", "fill"} => j.fd \in DOMAIN inodes
    /\ j.at \in {"open", "write", "replace"} => j.new \in Policy /\ a \in Admins
    /\ j.at \in {"fill", "read"} => file # Nothing
    /\ a \in Admins => j.ask = Nothing /\ j.policy = Nothing
    /\ a \in Gateways /\ j.at # "idle" => j.ask # Nothing
    /\ j.ask # Nothing => j.ask[1] <= judged

OnDisk ==
    /\ inodes \in Seq(Inode) /\ clock \in Nat /\ \A i \in DOMAIN inodes : inodes[i].mtime <= clock
    /\ file \in {Nothing} \cup DOMAIN inodes /\ temp \in {Nothing} \cup DOMAIN inodes
    /\ held \subseteq (DOMAIN inodes) \X Nat \X (Policy \cup {Torn})

Asked ==
    /\ setup \in Setups /\ judged \in Nat
    /\ job \in [Admins \cup Gateways -> Jobs] /\ \A a \in Admins \cup Gateways : Fits(a, job[a])
    /\ cache \in [Gateways -> [policy : Policy \cup {Nothing}, mtime : Nat \cup {Nothing}]]
    /\ seen \in [Gateways -> SUBSET (Policy \cup {Torn, Nothing})] /\ audited \subseteq Policy

Sorts == OnDisk /\ Asked


\* The default policy is one.
LEMMA DefaultSort == Default \in Policy
  BY DEF Default, Policy, Modes

\* Numbers, policies and questions are told from Nothing.
LEMMA Distinct ==
  /\ Nothing \notin Nat /\ Nothing \notin Policy /\ Nothing \notin Asks
  /\ Torn \notin Policy /\ Torn # Nothing
  BY DEF Asks

\* A deployment is what it is said to be.
LEMMA Deployed ==
  ASSUME setup \in Setups
  PROVE  /\ setup.first \in Policy \cup {Nothing} /\ setup.saved \subseteq Policy /\ setup.texts \subseteq DOMAIN Texts
         /\ setup.scopes \subseteq Scopes
  OBVIOUS

\* What PutIn leaves in the inodes.
LEMMA Stored ==
  ASSUME OnDisk, NEW i \in 1..Len(inodes) + 1, NEW p \in Policy \cup {Torn}, PutIn(i, p)
  PROVE  /\ inodes' \in Seq(Inode) /\ clock' \in Nat /\ clock <= clock'
         /\ DOMAIN inodes' = DOMAIN inodes \cup {i} /\ inodes'[i] = [policy |-> p, mtime |-> clock']
         /\ \A k \in DOMAIN inodes : k # i => inodes'[k] = inodes[k]
  <1>1. PICK tick \in {0, 1} : /\ clock' = clock + tick
                               /\ inodes' = LET n == [policy |-> p, mtime |-> clock']
                                            IN IF i > Len(inodes) THEN Append(inodes, n) ELSE [inodes EXCEPT ![i] = n]
    BY DEF PutIn
  <1> DEFINE n == [policy |-> p, mtime |-> clock']
  <1>2. clock' \in Nat /\ clock <= clock' /\ n \in Inode /\ inodes \in Seq(Inode)
    BY <1>1 DEF OnDisk, Inode
  <1>0. inodes' = IF i > Len(inodes) THEN Append(inodes, n) ELSE [inodes EXCEPT ![i] = n]
    BY <1>1
  <1> HIDE DEF n
  <1>3. Len(inodes) \in Nat /\ DOMAIN inodes = 1..Len(inodes)
    BY <1>2, LenProperties
  <1>4. CASE i > Len(inodes)
    <2>1. inodes' = Append(inodes, n) /\ i = Len(inodes) + 1
      BY <1>0, <1>3, <1>4
    <2>2. /\ Append(inodes, n) \in Seq(Inode) /\ Len(Append(inodes, n)) = Len(inodes) + 1
          /\ \A k \in 1..Len(inodes) : Append(inodes, n)[k] = inodes[k]
          /\ Append(inodes, n)[Len(inodes) + 1] = n
      BY <1>2, AppendProperties
    <2>3. DOMAIN Append(inodes, n) = 1..Len(inodes) + 1
      BY <2>2, LenProperties
    <2> QED
      BY <1>2, <1>3, <2>1, <2>2, <2>3 DEF n
  <1>5. CASE i \in 1..Len(inodes)
    <2>0. ~(i > Len(inodes))
      BY <1>3, <1>5
    <2>1. inodes' = [inodes EXCEPT ![i] = n]
      BY <1>0, <2>0
    <2>2. /\ [inodes EXCEPT ![i] = n] \in Seq(Inode) /\ DOMAIN inodes = DOMAIN [inodes EXCEPT ![i] = n]
          /\ \A k \in 1..Len(inodes) : [inodes EXCEPT ![i] = n][k] = IF k = i THEN n ELSE inodes[k]
      <3>1. DOMAIN inodes = DOMAIN [inodes EXCEPT ![i] = n]
        OBVIOUS
      <3>2. n \in Inode /\ inodes \in Seq(Inode)
        BY <1>2
      <3>3. [inodes EXCEPT ![i] = n] \in Seq(Inode)
        BY ONLY <1>5, <3>2, ExceptSeq, Zenon
      <3>4. \A k \in 1..Len(inodes) : [inodes EXCEPT ![i] = n][k] = IF k = i THEN n ELSE inodes[k]
        BY <1>3
      <3> QED
        BY <3>1, <3>3, <3>4
    <2> QED
      BY <1>2, <1>3, <1>5, <2>1, <2>2 DEF n
  <1> QED
    BY <1>3, <1>4, <1>5

\* What opening a name gives is there, or the next inode.
LEMMA Opening ==
  ASSUME OnDisk, NEW name \in {Nothing} \cup DOMAIN inodes
  PROVE  /\ Opened(name) \in 1..Len(inodes) + 1
         /\ name # Nothing => Opened(name) = name
         /\ name = Nothing => Opened(name) \notin DOMAIN inodes
         /\ DOMAIN inodes \subseteq 1..Len(inodes) + 1 /\ DOMAIN inodes \subseteq Nat
  <1>1. Len(inodes) \in Nat /\ DOMAIN inodes = 1..Len(inodes)
    BY LenProperties DEF OnDisk
  <1> QED
    BY <1>1 DEF Opened

----------------------------------------------------------------------------
\* What a step does to the disk: nothing, a write to an inode that has a name or is given one,
\* or a rename.
Recording == held' = held \cup (IF file' = Nothing THEN {} ELSE {<<file', Mtime', Content'>>})

DiskStep ==
    \/ UNCHANGED disk
    \/ \E i \in 1..Len(inodes) + 1, p \in Policy \cup {Torn} :
         /\ PutIn(i, p)
         /\ \/ i \in DOMAIN inodes /\ UNCHANGED <<file, temp>>
            \/ i = Opened(temp) /\ temp' = i /\ UNCHANGED file
            \/ i = Opened(file) /\ file' = i /\ UNCHANGED temp
    \/ temp' = Nothing /\ file' = (IF temp = Nothing THEN file ELSE temp) /\ UNCHANGED <<inodes, clock>>

\* Everything a crash or another thread may find: the file is among what it has been, an inode
\* that was the file has not grown younger, and is not called the temporary file.
DiskInv ==
    /\ file # Nothing => <<file, Mtime, Content>> \in held
    /\ \A e \in held : e[2] <= inodes[e[1]].mtime /\ e[1] # temp
    /\ file = Nothing => held = {}
    /\ setup.first # Nothing => file # Nothing

\* What never changes back: what the file has been, its past inodes, their age.
Onward ==
    /\ held \subseteq held' /\ DOMAIN inodes \subseteq DOMAIN inodes'
    /\ \A e \in held : file # e[1] => file' # e[1]
    /\ \A i \in DOMAIN inodes : inodes[i].mtime <= inodes'[i].mtime
    /\ file # Nothing => file' # Nothing

\* The parts of an entry.
LEMMA Entries ==
  ASSUME OnDisk
  PROVE  /\ \A e \in held : e[1] \in DOMAIN inodes /\ e[2] \in Nat /\ e[3] \in Policy \cup {Torn} /\ e = <<e[1], e[2], e[3]>>
         /\ \A i \in DOMAIN inodes : inodes[i].mtime \in Nat /\ inodes[i].policy \in Policy \cup {Torn} /\ i \in Nat
         /\ file # Nothing => file \in DOMAIN inodes /\ Content = inodes[file].policy /\ Mtime = inodes[file].mtime
  <1>1. \A i \in DOMAIN inodes : inodes[i] \in Inode /\ i \in Nat
    BY ElementOfSeq, LenProperties DEF OnDisk
  <1> QED
    BY <1>1 DEF OnDisk, Inode, Content, Mtime

LEMMA DiskOnward ==
  ASSUME OnDisk, DiskInv, DiskStep, Recording, UNCHANGED setup
  PROVE  OnDisk' /\ DiskInv' /\ Onward
  <1> USE Distinct
  <1>1. SUFFICES ASSUME /\ inodes' \in Seq(Inode) /\ clock' \in Nat /\ \A i \in DOMAIN inodes' : inodes'[i].mtime <= clock'
                        /\ file' \in {Nothing} \cup DOMAIN inodes' /\ temp' \in {Nothing} \cup DOMAIN inodes'
                        /\ DOMAIN inodes \subseteq DOMAIN inodes'
                        /\ \A i \in DOMAIN inodes : inodes[i].mtime <= inodes'[i].mtime
                        /\ \A e \in held : e[1] # temp' /\ (file # e[1] => file' # e[1])
                        /\ temp' # Nothing => file' # temp'
                        /\ file # Nothing => file' # Nothing
                 PROVE  OnDisk' /\ DiskInv' /\ Onward
    <2> USE DEF OnDisk, DiskInv
    <2>0. Len(inodes) \in Nat /\ DOMAIN inodes = 1..Len(inodes)
      BY LenProperties
    <2>1. CASE UNCHANGED disk
      BY <2>1, Entries DEF disk
    <2>2. ASSUME NEW i \in 1..Len(inodes) + 1, NEW p \in Policy \cup {Torn}, PutIn(i, p),
                 \/ i \in DOMAIN inodes /\ UNCHANGED <<file, temp>>
                 \/ i = Opened(temp) /\ temp' = i /\ UNCHANGED file
                 \/ i = Opened(file) /\ file' = i /\ UNCHANGED temp
          PROVE  OnDisk' /\ DiskInv' /\ Onward
      <3>1. /\ inodes' \in Seq(Inode) /\ clock' \in Nat /\ clock <= clock'
            /\ DOMAIN inodes' = DOMAIN inodes \cup {i} /\ inodes'[i] = [policy |-> p, mtime |-> clock']
            /\ \A k \in DOMAIN inodes : k # i => inodes'[k] = inodes[k]
        BY <2>2, Stored
      <3>2. \A k \in DOMAIN inodes' : inodes'[k].mtime <= clock'
        BY <3>1, Entries
      <3>3. \A k \in DOMAIN inodes : inodes[k].mtime <= inodes'[k].mtime
        <4>1. SUFFICES ASSUME NEW k \in DOMAIN inodes PROVE inodes[k].mtime <= inodes'[k].mtime
          OBVIOUS
        <4>2. inodes[k].mtime \in Nat /\ inodes[k].mtime <= clock /\ clock \in Nat
          BY Entries
        <4>3. inodes'[k].mtime = inodes[k].mtime \/ inodes'[k].mtime = clock'
          <5>1. CASE k = i
            BY ONLY <3>1, <5>1
          <5>2. CASE k # i
            BY ONLY <3>1, <4>1, <5>2
          <5> QED
            BY <5>1, <5>2
        <4> QED
          BY ONLY <3>1, <4>2, <4>3
      <3>4. /\ file' \in {Nothing} \cup DOMAIN inodes' /\ temp' \in {Nothing} \cup DOMAIN inodes'
            /\ file # Nothing => file' # Nothing
        BY <2>2, <3>1, <2>0
      <3>5. temp # Nothing => file # temp
        BY Entries
      <3>6. /\ \A e \in held : e[1] # temp' /\ (file # e[1] => file' # e[1])
            /\ temp' # Nothing => file' # temp'
        <4>1. CASE UNCHANGED <<file, temp>>
          BY <3>5, <4>1
        <4>2. CASE i = Opened(temp) /\ temp' = i /\ UNCHANGED file
          <5>1. temp = Nothing => i \notin DOMAIN inodes
            BY <4>2, Opening
          <5>2. temp # Nothing => i = temp
            BY <4>2, Opening
          <5> QED
            BY <3>5, <4>2, <5>1, <5>2, Entries
        <4>3. CASE i = Opened(file) /\ file' = i /\ UNCHANGED temp
          <5>1. file = Nothing => i \notin DOMAIN inodes
            BY <4>3, Opening
          <5>2. file # Nothing => i = file
            BY <4>3, Opening
          <5> QED
            BY <3>5, <4>3, <5>1, <5>2, Entries
        <4> QED
          BY <2>2, <4>1, <4>2, <4>3
      <3> QED
        BY <1>1, <3>1, <3>2, <3>3, <3>4, <3>6
    <2>3. CASE temp' = Nothing /\ file' = (IF temp = Nothing THEN file ELSE temp) /\ UNCHANGED <<inodes, clock>>
      BY <1>1, <2>3, Entries
    <2> QED
      BY <2>1, <2>2, <2>3 DEF DiskStep
  <1>2. /\ file' # Nothing => file' \in DOMAIN inodes' /\ Content' = inodes'[file'].policy /\ Mtime' = inodes'[file'].mtime
        /\ \A i \in DOMAIN inodes' : inodes'[i].mtime \in Nat /\ inodes'[i].policy \in Policy \cup {Torn}
    <2>1. \A i \in DOMAIN inodes' : inodes'[i] \in Inode
      BY <1>1, ElementOfSeq, LenProperties
    <2> QED
      BY <1>1, <2>1 DEF Inode, Content, Mtime
  <1>3. \A e \in held' : e \in held \/ (file' # Nothing /\ e = <<file', Mtime', Content'>>)
    BY DEF Recording
  <1>4. OnDisk'
    BY <1>1, <1>2, <1>3, Entries DEF OnDisk
  <1>5. \A e \in held' : e[2] <= inodes'[e[1]].mtime /\ e[1] # temp'
    <2>1. \A e \in held : e[2] <= inodes'[e[1]].mtime
      BY <1>1, <1>2, Entries DEF DiskInv
    <2> QED
      BY <1>1, <1>2, <1>3, <2>1
  <1>6. DiskInv'
    BY <1>1, <1>2, <1>5 DEF DiskInv, Recording
  <1> QED
    BY <1>1, <1>4, <1>6 DEF Onward, Recording

----------------------------------------------------------------------------
\* No step changes the deployment, and each records what the file has become.
LEMMA Records == PolicyNext => Recording /\ UNCHANGED setup
  BY DEF PolicyNext, Observe, Recording, ReadVersion, OpenTemp, WriteTemp, Replace, View, Exists, Create, Fill, Read,
         Judge, Crash

\* Every step does to the disk what DiskStep says.
LEMMA NextDisk ==
  ASSUME Sorts, PolicyNext
  PROVE  DiskStep
  <1> USE DEF Sorts
  <1>1. ASSUME NEW a \in Admins, OpenTemp(a) PROVE DiskStep
    <2>1. PutIn(Opened(temp), Torn) /\ temp' = Opened(temp) /\ UNCHANGED file
      BY <1>1 DEF OpenTemp
    <2>2. Opened(temp) \in 1..Len(inodes) + 1
      BY Opening DEF OnDisk
    <2> QED
      BY <2>1, <2>2 DEF DiskStep
  <1>2. ASSUME NEW a \in Admins, WriteTemp(a) PROVE DiskStep
    <2>1. PICK p \in Mixtures(job[a].fd, job[a].new) : PutIn(job[a].fd, p)
      BY <1>2 DEF WriteTemp
    <2>2. job[a].fd \in DOMAIN inodes /\ job[a].new \in Policy
      BY <1>2 DEF WriteTemp, At, Asked, Fits
    <2>3. p \in Policy \cup {Torn} /\ job[a].fd \in 1..Len(inodes) + 1
      BY <2>1, <2>2, Opening DEF Mixtures
    <2>4. UNCHANGED <<file, temp>>
      BY <1>2 DEF WriteTemp
    <2> QED
      BY <2>1, <2>2, <2>3, <2>4 DEF DiskStep
  <1>3. ASSUME NEW a \in Admins, Replace(a) PROVE DiskStep
    BY <1>3 DEF Replace, DiskStep
  <1>4. ASSUME NEW a \in Admins \cup Gateways, Create(a) PROVE DiskStep
    <2>1. PutIn(Opened(file), Torn) /\ file' = Opened(file) /\ UNCHANGED temp
      BY <1>4 DEF Create
    <2>2. Opened(file) \in 1..Len(inodes) + 1
      BY Opening DEF OnDisk
    <2> QED
      BY <2>1, <2>2 DEF DiskStep
  <1>5. ASSUME NEW a \in Admins \cup Gateways, Fill(a) PROVE DiskStep
    <2>1. PICK p \in Mixtures(job[a].fd, Default) : PutIn(job[a].fd, p)
      BY <1>5 DEF Fill
    <2>2. job[a].fd \in DOMAIN inodes
      BY <1>5 DEF Fill, At, Asked, Fits
    <2>3. p \in Policy \cup {Torn} /\ job[a].fd \in 1..Len(inodes) + 1
      BY <2>1, <2>2, Opening, DefaultSort DEF Mixtures
    <2>4. UNCHANGED <<file, temp>>
      BY <1>5 DEF Fill
    <2> QED
      BY <2>1, <2>2, <2>3, <2>4 DEF DiskStep
  <1>6. ASSUME NEW a \in Admins \cup Gateways, \/ ReadVersion(a) \/ View(a) \/ Exists(a) \/ Read(a) \/ Judge(a)
        PROVE  DiskStep
    BY <1>6 DEF ReadVersion, View, Exists, Read, Judge, DiskStep
  <1>7. ASSUME NEW S, Crash(S) PROVE DiskStep
    BY <1>7 DEF Crash, DiskStep
  <1> QED
    BY <1>1, <1>2, <1>3, <1>4, <1>5, <1>6, <1>7 DEF PolicyNext

\* A job that gives way to another one.
LEMMA Working ==
  ASSUME Sorts, Onward, OnDisk', judged' \in {judged, judged + 1},
         NEW a \in Admins \cup Gateways, NEW j \in Jobs, Go(a, j),
         job'[a] = j => Fits(a, job[a])'
  PROVE  job' \in [Admins \cup Gateways -> Jobs] /\ \A b \in Admins \cup Gateways : Fits(b, job[b])'
  <1>1. job' = [job EXCEPT ![a] = j] /\ job \in [Admins \cup Gateways -> Jobs] /\ judged \in Nat
    BY DEF Go, Sorts, Asked
  <1>2. job' \in [Admins \cup Gateways -> Jobs] /\ job'[a] = j /\ \A b \in Admins \cup Gateways : b # a => job'[b] = job[b]
    BY <1>1
  <1>3. ASSUME NEW b \in Admins \cup Gateways, b # a PROVE Fits(b, job[b])'
    <2>1. Fits(b, job[b]) /\ job'[b] = job[b] /\ job[b] \in Jobs
      BY <1>2, <1>3 DEF Sorts, Asked
    <2>2. job[b].ask # Nothing => job[b].ask[1] \in Nat
      BY <2>1 DEF Jobs, Asks
    <2> QED
      BY <1>1, <2>1, <2>2 DEF Fits, Onward
  <1>4. Fits(a, job[a])'
    BY <1>2
  <1> QED
    BY <1>2, <1>3, <1>4

\* What stays of a job that goes on.
LEMMA GoesOn ==
  ASSUME NEW j \in Jobs, NEW at \in {"idle", "write", "replace", "read", "create", "fill"}
  PROVE  \A k : k = [j EXCEPT !.at = at] =>
           /\ k \in Jobs /\ k.at = at /\ k.fd = j.fd /\ k.new = j.new /\ k.stat = j.stat
           /\ k.ask = j.ask /\ k.policy = j.policy
  BY DEF Jobs

\* What a job begins with, and what is left of a judgement.
LEMMA Fresh ==
  /\ Rest \in Jobs /\ [Rest EXCEPT !.at = "exists"] \in Jobs
  /\ \A p \in Policy : [Rest EXCEPT !.at = "open", !.new = p] \in Jobs
  /\ \A stat \in Nat \cup {Nothing}, ask \in Asks : [Rest EXCEPT !.at = "exists", !.stat = stat, !.ask = ask] \in Jobs
  /\ \A ask \in Asks \cup {Nothing}, p \in Policy \cup {Nothing} : [Rest EXCEPT !.ask = ask, !.policy = p] \in Jobs
  BY DEF Jobs, Rest

\* The job of each thread.
LEMMA JobSorts ==
  ASSUME Sorts
  PROVE  \A a \in Admins \cup Gateways : job[a] \in Jobs /\ Fits(a, job[a]) /\ (a \in Admins <=> a \notin Gateways)
  <1>1. \A a \in Admins \cup Gateways : job[a] \in Jobs /\ Fits(a, job[a])
    BY DEF Sorts, Asked
  <1>2. \A a \in Admins \cup Gateways : a \in Admins <=> a \notin Gateways
    OBVIOUS
  <1> QED
    BY <1>1, <1>2

\* What a save will write is a policy, newer than the file.
LEMMA SavedSort ==
  ASSUME Sorts, NEW p \in Policy, NEW current \in Nat
  PROVE  /\ [p EXCEPT !.version = SavedVersion(current, @)] \in Policy
         /\ [p EXCEPT !.version = SavedVersion(current, @)].version > current
  <1>1. SavedVersion(current, p.version) \in Nat \ {0} /\ SavedVersion(current, p.version) > current
    BY DEF SavedVersion, Policy
  <1> QED
    BY <1>1 DEF Policy

\* Jobs keep their sorts when a request goes on.
LEMMA SavesFit ==
  ASSUME Sorts, Onward, OnDisk', NEW a \in Admins, ReadVersion(a) \/ OpenTemp(a) \/ WriteTemp(a) \/ Replace(a) \/ View(a)
  PROVE  job' \in [Admins \cup Gateways -> Jobs] /\ \A b \in Admins \cup Gateways : Fits(b, job[b])'
  <1>0. UNCHANGED judged /\ a \in Admins \cup Gateways
    BY DEF ReadVersion, OpenTemp, WriteTemp, Replace, View
  <1>1. CASE ReadVersion(a)
    <2>1. PICK p \in setup.saved :
            Go(a, [Rest EXCEPT !.at = "open", !.new = [p EXCEPT !.version =
                     SavedVersion(IF Content \in {Nothing, Torn} THEN 0 ELSE Content.version, @)]])
      BY <1>1 DEF ReadVersion
    <2>2. p \in Policy
      BY Deployed DEF Sorts, Asked
    <2>3. (IF Content \in {Nothing, Torn} THEN 0 ELSE Content.version) \in Nat
      BY Entries DEF Sorts, Policy, Content
    <2> DEFINE n == [p EXCEPT !.version = SavedVersion(IF Content \in {Nothing, Torn} THEN 0 ELSE Content.version, @)]
    <2>4. n \in Policy
      BY <2>2, <2>3, SavedSort
    <2> HIDE DEF n
    <2> DEFINE j == [Rest EXCEPT !.at = "open", !.new = n]
    <2>5. j \in Jobs /\ Go(a, j)
      BY <2>1, <2>4, Fresh DEF n
    <2>6. job'[a] = j => Fits(a, job[a])'
      BY <2>4 DEF Fits, Rest
    <2> HIDE DEF j
    <2> QED
      BY <1>0, <2>5, <2>6, Working
  <1>2. CASE OpenTemp(a)
    <2> DEFINE j == [job[a] EXCEPT !.at = "write", !.fd = temp']
    <2>1. Go(a, j) /\ job[a].at = "open" /\ temp' = Opened(temp) /\ PutIn(temp', Torn)
      BY <1>2 DEF OpenTemp, At
    <2>2. temp' \in DOMAIN inodes'
      BY <2>1, Opening, Stored DEF Sorts, OnDisk
    <2>3. temp' \in Nat
      BY <2>1, Opening DEF Sorts, OnDisk, Opened
    <2>4. j \in Jobs /\ j.at = "write" /\ j.fd = temp' /\ j.new = job[a].new /\ j.ask = job[a].ask /\ j.policy = job[a].policy
      <3>1. PICK fd \in Nat : fd = temp'
        BY <2>3
      <3>2. j = [job[a] EXCEPT !.at = "write", !.fd = fd]
        BY <3>1
      <3>3. job[a] \in Jobs
        BY JobSorts
      <3> HIDE DEF j
      <3>4. /\ j \in Jobs /\ j.at = "write" /\ j.fd = fd /\ j.new = job[a].new
            /\ j.ask = job[a].ask /\ j.policy = job[a].policy
        BY <3>2, <3>3 DEF Jobs
      <3> QED
        BY <3>1, <3>4
    <2> HIDE DEF j
    <2>5. job'[a] = j => Fits(a, job[a])'
      BY <1>0, <2>1, <2>2, <2>4, JobSorts DEF Fits
    <2> QED
      BY <1>0, <2>1, <2>4, <2>5, Working
  <1>3. CASE WriteTemp(a)
    <2> DEFINE j == [job[a] EXCEPT !.at = "replace"]
    <2>1. Go(a, j) /\ job[a].at = "write"
      BY <1>3 DEF WriteTemp, At, To
    <2>2. j \in Jobs /\ j.at = "replace" /\ j.fd = job[a].fd /\ j.new = job[a].new /\ j.ask = job[a].ask /\ j.policy = job[a].policy
      BY JobSorts, GoesOn
    <2> HIDE DEF j
    <2>3. job'[a] = j => Fits(a, job[a])'
      BY <1>0, <2>1, <2>2, JobSorts DEF Fits, Onward
    <2> QED
      BY <1>0, <2>1, <2>2, <2>3, Working
  <1>4. CASE Replace(a)
    <2>1. (job'[a] = Rest => Fits(a, job[a])') /\ Go(a, Rest)
      BY <1>4 DEF Replace, Fits, Rest
    <2> QED
      BY <1>0, <2>1, Fresh, Working
  <1>5. CASE View(a)
    <2> DEFINE j == [Rest EXCEPT !.at = "exists"]
    <2>1. Go(a, j)
      BY <1>5 DEF View
    <2>2. job'[a] = j => Fits(a, job[a])'
      BY DEF Fits, Rest
    <2>3. j \in Jobs
      BY Fresh
    <2> HIDE DEF j
    <2> QED
      BY <1>0, <2>1, <2>2, <2>3, Working
  <1> QED
    BY <1>1, <1>2, <1>3, <1>4, <1>5

\* And when a file is looked for or made.
LEMMA LoadsFit ==
  ASSUME Sorts, Onward, OnDisk', NEW a \in Admins \cup Gateways, Exists(a) \/ Create(a) \/ Fill(a)
  PROVE  job' \in [Admins \cup Gateways -> Jobs] /\ \A b \in Admins \cup Gateways : Fits(b, job[b])'
  <1>0. UNCHANGED judged
    BY DEF Exists, Create, Fill
  <1>1. CASE Exists(a)
    <2> DEFINE at == IF file = Nothing THEN "create" ELSE "read"
               j == [job[a] EXCEPT !.at = at]
    <2>1. Go(a, j) /\ job[a].at = "exists"
      BY <1>1 DEF Exists, At, To
    <2>2. at \in {"create", "read"} /\ (at = "read" => file # Nothing)
      OBVIOUS
    <2> HIDE DEF at
    <2>3. j \in Jobs /\ j.at = at /\ j.fd = job[a].fd /\ j.new = job[a].new /\ j.ask = job[a].ask /\ j.policy = job[a].policy
      BY <2>2, JobSorts, GoesOn
    <2> HIDE DEF j
    <2>4. job'[a] = j => Fits(a, job[a])'
      BY <1>0, <2>1, <2>2, <2>3, JobSorts DEF Fits, Onward
    <2> QED
      BY <1>0, <2>1, <2>3, <2>4, Working
  <1>2. CASE Create(a)
    <2> DEFINE j == [job[a] EXCEPT !.at = "fill", !.fd = file']
    <2>1. Go(a, j) /\ job[a].at = "create" /\ file' = Opened(file) /\ PutIn(file', Torn)
      BY <1>2 DEF Create, At
    <2>2. file' \in DOMAIN inodes'
      BY <2>1, Opening, Stored DEF Sorts, OnDisk
    <2>3. file' \in Nat
      BY <2>1, Opening DEF Sorts, OnDisk, Opened
    <2>4. j \in Jobs /\ j.at = "fill" /\ j.fd = file' /\ j.new = job[a].new /\ j.ask = job[a].ask /\ j.policy = job[a].policy
      <3>1. PICK fd \in Nat : fd = file'
        BY <2>3
      <3>2. j = [job[a] EXCEPT !.at = "fill", !.fd = fd]
        BY <3>1
      <3>3. job[a] \in Jobs
        BY JobSorts
      <3> HIDE DEF j
      <3>4. /\ j \in Jobs /\ j.at = "fill" /\ j.fd = fd /\ j.new = job[a].new
            /\ j.ask = job[a].ask /\ j.policy = job[a].policy
        BY <3>2, <3>3 DEF Jobs
      <3> QED
        BY <3>1, <3>4
    <2> HIDE DEF j
    <2>5. job'[a] = j => Fits(a, job[a])'
      BY <1>0, <2>1, <2>2, <2>3, <2>4, JobSorts, Distinct DEF Fits
    <2> QED
      BY <1>0, <2>1, <2>4, <2>5, Working
  <1>3. CASE Fill(a)
    <2> DEFINE j == [job[a] EXCEPT !.at = "read"]
    <2>1. Go(a, j) /\ job[a].at = "fill"
      BY <1>3 DEF Fill, At, To
    <2>2. j \in Jobs /\ j.at = "read" /\ j.fd = job[a].fd /\ j.new = job[a].new /\ j.ask = job[a].ask /\ j.policy = job[a].policy
      BY JobSorts, GoesOn
    <2> HIDE DEF j
    <2>3. job'[a] = j => Fits(a, job[a])'
      BY <1>0, <2>1, <2>2, JobSorts DEF Fits, Onward
    <2> QED
      BY <1>0, <2>1, <2>2, <2>3, Working
  <1> QED
    BY <1>1, <1>2, <1>3

\* What a judgement asks, and what a load ends with.
LEMMA AskSort ==
  ASSUME Sorts, NEW g \in Gateways, Judge(g)
  PROVE  \E x \in setup.texts, scope \in setup.scopes :
           /\ judged' = judged + 1 /\ <<judged', x, scope>> \in Asks /\ job[g].at = "idle"
           /\ \/ /\ cache[g].policy # Nothing /\ cache[g].mtime = Mtime
                 /\ Go(g, [Rest EXCEPT !.ask = <<judged', x, scope>>, !.policy = cache[g].policy])
                 /\ audited' \in {audited, audited \cup {cache[g].policy}}
              \/ /\ Go(g, [Rest EXCEPT !.at = "exists", !.stat = Mtime, !.ask = <<judged', x, scope>>])
                 /\ UNCHANGED audited
  <1>1. judged' = judged + 1 /\ judged \in Nat /\ job[g].at = "idle"
    BY DEF Judge, Sorts, Asked, At
  <1>2. PICK x \in setup.texts, scope \in setup.scopes :
          LET j == [Rest EXCEPT !.at = "exists", !.stat = Mtime, !.ask = <<judged', x, scope>>]
          IN IF cache[g].policy # Nothing /\ cache[g].mtime = Mtime THEN Decide(g, j, cache[g].policy)
             ELSE Go(g, j) /\ UNCHANGED audited
    BY DEF Judge
  <1> DEFINE ask == <<judged', x, scope>>
             j == [Rest EXCEPT !.at = "exists", !.stat = Mtime, !.ask = ask]
  <1>3. j.ask = ask
    BY DEF Rest
  <1>4. ask \in Asks
    BY <1>1, Deployed DEF Sorts, Asked, Asks
  <1>5. CASE cache[g].policy # Nothing /\ cache[g].mtime = Mtime
    <2>1. Decide(g, j, cache[g].policy)
      BY <1>2, <1>5
    <2>2. /\ Go(g, [Rest EXCEPT !.ask = ask, !.policy = cache[g].policy])
          /\ audited' \in {audited, audited \cup {cache[g].policy}}
      BY <1>3, <2>1 DEF Decide
    <2> QED
      BY <1>1, <1>4, <1>5, <2>2
  <1>6. CASE ~(cache[g].policy # Nothing /\ cache[g].mtime = Mtime)
    <2>1. Go(g, j) /\ UNCHANGED audited
      BY <1>2, <1>6
    <2> QED
      BY <1>1, <1>4, <2>1
  <1> QED
    BY <1>5, <1>6

LEMMA ReadSort ==
  ASSUME Sorts, NEW a \in Admins \cup Gateways, Read(a)
  PROVE  /\ job[a].at = "read" /\ UNCHANGED <<disk, judged>> /\ file # Nothing /\ Content \in Policy \cup {Torn}
         /\ \/ a \in Admins /\ Go(a, Rest) /\ UNCHANGED <<cache, audited>>
            \/ /\ a \in Gateways /\ Content = Torn /\ Go(a, [Rest EXCEPT !.ask = job[a].ask, !.policy = Nothing])
               /\ UNCHANGED <<cache, audited>>
            \/ /\ a \in Gateways /\ Content \in Policy /\ Go(a, [Rest EXCEPT !.ask = job[a].ask, !.policy = Content])
               /\ cache' = [cache EXCEPT ![a] = [policy |-> Content, mtime |-> job[a].stat]]
               /\ audited' \in {audited, audited \cup {Content}}
  <1>1. job[a].at = "read" /\ UNCHANGED <<disk, judged>>
    BY DEF Read, At
  <1>2. file # Nothing /\ Content \in Policy \cup {Torn}
    BY <1>1, JobSorts, Entries DEF Fits, Sorts
  <1>3. CASE a \in Admins
    BY <1>1, <1>2, <1>3 DEF Read
  <1>4. CASE a \in Gateways /\ Content = Torn
    <2>1. Decide(a, job[a], Nothing) /\ UNCHANGED cache
      BY <1>4 DEF Read
    <2> QED
      BY <1>1, <1>2, <1>4, <2>1 DEF Decide
  <1>5. CASE a \in Gateways /\ Content # Torn
    <2>1. Decide(a, job[a], Content) /\ cache' = [cache EXCEPT ![a] = [policy |-> Content, mtime |-> job[a].stat]]
      BY <1>5 DEF Read
    <2> QED
      BY <1>1, <1>2, <1>5, <2>1 DEF Decide
  <1> QED
    BY <1>3, <1>4, <1>5

\* Jobs keep their sorts in a judgement, and in a crash.
LEMMA JudgementFits ==
  ASSUME Sorts, Onward, OnDisk', NEW a \in Admins \cup Gateways, Read(a) \/ (a \in Gateways /\ Judge(a))
  PROVE  job' \in [Admins \cup Gateways -> Jobs] /\ \A b \in Admins \cup Gateways : Fits(b, job[b])'
  <1>1. CASE a \in Gateways /\ Judge(a)
    <2>1. PICK x \in setup.texts, scope \in setup.scopes :
           /\ judged' = judged + 1 /\ <<judged', x, scope>> \in Asks
           /\ \/ Go(a, [Rest EXCEPT !.ask = <<judged', x, scope>>, !.policy = cache[a].policy])
              \/ Go(a, [Rest EXCEPT !.at = "exists", !.stat = Mtime, !.ask = <<judged', x, scope>>])
      BY <1>1, AskSort
    <2>2. PICK ask \in Asks : ask = <<judged', x, scope>>
      BY <2>1
    <2>3. ask[1] = judged' /\ ask # Nothing /\ judged' \in Nat
      BY <2>1, <2>2, Distinct DEF Sorts, Asked
    <2>4. CASE Go(a, [Rest EXCEPT !.ask = ask, !.policy = cache[a].policy])
      <3> DEFINE j == [Rest EXCEPT !.ask = ask, !.policy = cache[a].policy]
      <3>1. cache[a].policy \in Policy \cup {Nothing}
        BY <1>1 DEF Sorts, Asked
      <3>2. j \in Jobs /\ j.at = "idle" /\ j.ask = ask
        BY <3>1, Fresh DEF Rest
      <3>3. Go(a, j)
        BY <2>4
      <3> HIDE DEF j
      <3>4. job'[a] = j => Fits(a, job[a])'
        BY <1>1, <2>3, <3>2, JobSorts DEF Fits
      <3> QED
        BY <2>1, <3>2, <3>3, <3>4, Working
    <2>5. CASE Go(a, [Rest EXCEPT !.at = "exists", !.stat = Mtime, !.ask = ask])
      <3> DEFINE j == [Rest EXCEPT !.at = "exists", !.stat = Mtime, !.ask = ask]
      <3>1. Mtime \in Nat \cup {Nothing}
        BY Entries DEF Sorts, Mtime
      <3>2. j \in Jobs /\ j.at = "exists" /\ j.ask = ask
        BY <3>1, Fresh DEF Rest
      <3>3. Go(a, j)
        BY <2>5
      <3> HIDE DEF j
      <3>4. job'[a] = j => Fits(a, job[a])'
        BY <1>1, <2>3, <3>2, JobSorts DEF Fits
      <3> QED
        BY <2>1, <3>2, <3>3, <3>4, Working
    <2> QED
      BY <2>1, <2>2, <2>4, <2>5
  <1>2. CASE Read(a)
    <2>1. UNCHANGED judged
      BY <1>2, ReadSort
    <2>2. PICK j : /\ Go(a, j)
                   /\ \/ a \in Admins /\ j = Rest
                      \/ \E p \in Policy \cup {Nothing} : a \in Gateways /\ j = [Rest EXCEPT !.ask = job[a].ask, !.policy = p]
      BY <1>2, ReadSort
    <2>3. /\ j \in Jobs /\ j.at = "idle"
          /\ a \in Admins => j.ask = Nothing /\ j.policy = Nothing
          /\ a \notin Admins => j.ask = job[a].ask
      <3>1. job[a] \in Jobs /\ job[a].ask \in Asks \cup {Nothing}
        BY JobSorts DEF Jobs
      <3> QED
        <4>1. CASE a \in Admins /\ j = Rest
          BY <4>1, Fresh DEF Rest
        <4>2. CASE \E p \in Policy \cup {Nothing} : a \in Gateways /\ j = [Rest EXCEPT !.ask = job[a].ask, !.policy = p]
          <5>1. PICK p \in Policy \cup {Nothing} : a \in Gateways /\ j = [Rest EXCEPT !.ask = job[a].ask, !.policy = p]
            BY <4>2
          <5>2. j \in Jobs
            BY <3>1, <5>1, Fresh
          <5>3. j.at = "idle" /\ j.ask = job[a].ask
            BY <5>1 DEF Rest
          <5> QED
            BY <5>1, <5>2, <5>3, JobSorts
        <4> QED
          BY <2>2, <4>1, <4>2
    <2>4. job'[a] = j => Fits(a, job[a])'
      BY <2>1, <2>3, JobSorts DEF Fits
    <2> QED
      BY <2>1, <2>2, <2>3, <2>4, Working
  <1> QED
    BY <1>1, <1>2

LEMMA CrashFits ==
  ASSUME Sorts, Onward, OnDisk', NEW S, Crash(S)
  PROVE  job' \in [Admins \cup Gateways -> Jobs] /\ \A b \in Admins \cup Gateways : Fits(b, job[b])'
  <1>1. job \in [Admins \cup Gateways -> Jobs] /\ UNCHANGED judged
    BY DEF Crash, Sorts, Asked
  <1>2. job' = [a \in Admins \cup Gateways |-> IF a \in S THEN Rest ELSE job[a]]
    BY <1>1 DEF Crash
  <1>3. \A b \in Admins \cup Gateways : job'[b] \in {Rest, job[b]}
    BY <1>2
  <1>4. job' \in [Admins \cup Gateways -> Jobs]
    BY <1>1, <1>2, Fresh
  <1>5. ASSUME NEW b \in Admins \cup Gateways PROVE Fits(b, job[b])'
    <2>1. CASE job'[b] = Rest
      BY <2>1 DEF Fits, Rest
    <2>2. CASE job'[b] = job[b]
      BY <1>1, <2>2, JobSorts DEF Fits, Onward
    <2> QED
      BY <1>3, <2>1, <2>2
  <1> QED
    BY <1>4, <1>5

\* What each step makes of jobs, caches and the audit log.
LEMMA StepSorts ==
  ASSUME Sorts, PolicyNext, Onward, OnDisk'
  PROVE  /\ job' \in [Admins \cup Gateways -> Jobs] /\ \A b \in Admins \cup Gateways : Fits(b, job[b])'
         /\ cache' \in [Gateways -> [policy : Policy \cup {Nothing}, mtime : Nat \cup {Nothing}]]
         /\ audited' \subseteq Policy /\ judged' \in Nat
  <1>0. /\ cache \in [Gateways -> [policy : Policy \cup {Nothing}, mtime : Nat \cup {Nothing}]]
        /\ audited \subseteq Policy /\ judged \in Nat
    BY DEF Sorts, Asked
  <1>1. ASSUME NEW a \in Admins, ReadVersion(a) \/ OpenTemp(a) \/ WriteTemp(a) \/ Replace(a) \/ View(a)
        PROVE  /\ job' \in [Admins \cup Gateways -> Jobs] /\ \A b \in Admins \cup Gateways : Fits(b, job[b])'
               /\ UNCHANGED <<cache, audited, judged>>
    BY <1>1, SavesFit DEF ReadVersion, OpenTemp, WriteTemp, Replace, View
  <1>2. ASSUME NEW a \in Admins \cup Gateways, Exists(a) \/ Create(a) \/ Fill(a)
        PROVE  /\ job' \in [Admins \cup Gateways -> Jobs] /\ \A b \in Admins \cup Gateways : Fits(b, job[b])'
               /\ UNCHANGED <<cache, audited, judged>>
    BY <1>2, LoadsFit DEF Exists, Create, Fill
  <1>3. ASSUME NEW a \in Admins \cup Gateways, Read(a)
        PROVE  /\ job' \in [Admins \cup Gateways -> Jobs] /\ \A b \in Admins \cup Gateways : Fits(b, job[b])'
               /\ cache' \in [Gateways -> [policy : Policy \cup {Nothing}, mtime : Nat \cup {Nothing}]]
               /\ audited' \subseteq Policy /\ UNCHANGED judged
    <2>1. job[a].stat \in Nat \cup {Nothing}
      BY JobSorts DEF Jobs
    <2>2. job' \in [Admins \cup Gateways -> Jobs] /\ \A b \in Admins \cup Gateways : Fits(b, job[b])'
      BY <1>3, JudgementFits
    <2>3. UNCHANGED <<cache, audited>> \/
          /\ a \in Gateways /\ Content \in Policy /\ audited' \in {audited, audited \cup {Content}}
          /\ cache' = [cache EXCEPT ![a] = [policy |-> Content, mtime |-> job[a].stat]]
      BY <1>3, ReadSort
    <2>4. UNCHANGED judged
      BY <1>3, ReadSort
    <2> QED
      BY <1>0, <2>1, <2>2, <2>3, <2>4
  <1>4. ASSUME NEW a \in Gateways, Judge(a)
        PROVE  /\ job' \in [Admins \cup Gateways -> Jobs] /\ \A b \in Admins \cup Gateways : Fits(b, job[b])'
               /\ UNCHANGED cache /\ audited' \subseteq Policy /\ judged' \in Nat
    <2>1. UNCHANGED cache /\ judged' = judged + 1
      BY <1>4 DEF Judge
    <2>2. audited' \in {audited, audited \cup {cache[a].policy}} /\ (cache[a].policy = Nothing => audited' = audited)
      BY <1>4, AskSort
    <2>3. cache[a].policy \in Policy \cup {Nothing}
      BY <1>0
    <2>4. audited' \subseteq Policy
      BY <1>0, <2>2, <2>3
    <2>5. a \in Admins \cup Gateways
      OBVIOUS
    <2>6. job' \in [Admins \cup Gateways -> Jobs] /\ \A b \in Admins \cup Gateways : Fits(b, job[b])'
      BY <1>4, <2>5, JudgementFits
    <2> QED
      BY <1>0, <2>1, <2>4, <2>6
  <1>5. ASSUME NEW S, Crash(S)
        PROVE  /\ job' \in [Admins \cup Gateways -> Jobs] /\ \A b \in Admins \cup Gateways : Fits(b, job[b])'
               /\ cache' \in [Gateways -> [policy : Policy \cup {Nothing}, mtime : Nat \cup {Nothing}]]
               /\ UNCHANGED <<audited, judged>>
    <2>1. cache' = [g \in Gateways |-> IF g \in S THEN NoCache ELSE cache[g]] /\ UNCHANGED <<audited, judged>>
      BY <1>5 DEF Crash
    <2> QED
      BY <1>0, <1>5, <2>1, CrashFits DEF NoCache
  <1> QED
    BY <1>0, <1>1, <1>2, <1>3, <1>4, <1>5 DEF PolicyNext

LEMMA StutterOnward == OnDisk /\ UNCHANGED policyVars => Onward
  <1> SUFFICES ASSUME OnDisk, UNCHANGED policyVars PROVE Onward
    OBVIOUS
  <1> QED
    BY Entries DEF policyVars, disk, Onward

\* Every step keeps the sorts of things and the account of the file.
LEMMA SortsKept ==
  ASSUME Sorts, DiskInv, PolicyNext
  PROVE  Sorts' /\ DiskInv' /\ Onward /\ Recording
  <1>1. OnDisk' /\ DiskInv' /\ Onward /\ Recording /\ UNCHANGED setup
    BY NextDisk, Records, DiskOnward DEF Sorts
  <1>2. Content' \in Policy \cup {Torn, Nothing}
    <2>1. file' # Nothing => file' \in DOMAIN inodes' /\ inodes' \in Seq(Inode)
      BY <1>1 DEF OnDisk
    <2>2. file' # Nothing => inodes'[file'] \in Inode
      BY <2>1, ElementOfSeq, LenProperties
    <2> QED
      BY <2>2 DEF Content, Inode
  <1>3. seen' \in [Gateways -> SUBSET (Policy \cup {Torn, Nothing})]
    <2>1. seen \in [Gateways -> SUBSET (Policy \cup {Torn, Nothing})]
      BY DEF Sorts, Asked
    <2>2. seen' = [g \in Gateways |->
                  IF job'[g].ask # job[g].ask /\ job'[g].ask # Nothing THEN {Content'}
                  ELSE seen[g] \cup (IF At(g, "idle") THEN {} ELSE {Content'})]
      BY DEF PolicyNext, Observe
    <2> QED
      BY <1>2, <2>1, <2>2
  <1> QED
    BY <1>1, <1>3, StepSorts DEF Sorts, Asked

----------------------------------------------------------------------------
\* The caches.  An mtime names the file as it was, or it names two; a policy that is cached with it
\* is what that file held, or the file of that mtime is gone or has been written since.
Twofold(m) == \E x, y \in held : x # y /\ x[2] = m /\ y[2] = m

Goes(m, policy) ==
    m # Nothing =>
        \E e \in held : /\ e[2] = m
                        /\ Twofold(m) \/ e[3] = policy \/ file # e[1] \/ m < inodes[e[1]].mtime

Named(m) == m # Nothing => \E e \in held : e[2] = m

CacheInv ==
    \A g \in Gateways :
        /\ job[g].at # "idle" => Named(job[g].stat)
        /\ cache[g].policy # Nothing => /\ file # Nothing /\ Goes(cache[g].mtime, cache[g].policy)
                                        /\ \E e \in held : e[3] = cache[g].policy

\* The verdicts given.
Judged ==
    /\ \A g \in Gateways : Decided(g) /\ job[g].policy # Nothing => job[g].policy \in seen[g] \/ Blurred(g)
    /\ \A p \in audited : \E e \in held : e[3] = p

LEMMA GoesOnward ==
  ASSUME OnDisk, OnDisk', Onward, NEW m \in Nat \cup {Nothing}, NEW p
  PROVE  (Goes(m, p) => Goes(m, p)') /\ (Named(m) => Named(m)') /\ (Twofold(m) => Twofold(m)')
  <1>1. Twofold(m) => Twofold(m)'
    BY DEF Twofold, Onward
  <1>2. Named(m) => Named(m)'
    BY DEF Named, Onward
  <1>3. ASSUME Goes(m, p), m # Nothing PROVE Goes(m, p)'
    <2>1. PICK e \in held : e[2] = m /\ (Twofold(m) \/ e[3] = p \/ file # e[1] \/ m < inodes[e[1]].mtime)
      BY <1>3 DEF Goes
    <2>2. e \in held' /\ (file # e[1] => file' # e[1])
      BY DEF Onward
    <2>3. m < inodes[e[1]].mtime => m < inodes'[e[1]].mtime
      <3>1. e[1] \in DOMAIN inodes /\ inodes[e[1]].mtime \in Nat /\ m \in Nat
        BY <1>3, Entries
      <3>2. e[1] \in DOMAIN inodes' /\ inodes[e[1]].mtime <= inodes'[e[1]].mtime
        BY <3>1 DEF Onward
      <3>3. inodes'[e[1]] \in Inode
        BY <3>2, ElementOfSeq, LenProperties DEF OnDisk
      <3> QED
        BY <3>1, <3>2, <3>3 DEF Inode
    <2> QED
      BY <1>1, <2>1, <2>2, <2>3 DEF Goes
  <1> QED
    BY <1>1, <1>2, <1>3 DEF Goes

\* The file, as it is now, has been recorded with its mtime.
LEMMA GoesNow ==
  ASSUME OnDisk, DiskInv, file # Nothing, NEW m \in Nat \cup {Nothing}, Named(m)
  PROVE  Goes(m, Content)
  <1> SUFFICES ASSUME m # Nothing PROVE Goes(m, Content)
    BY DEF Goes
  <1>1. PICK e \in held : e[2] = m
    BY DEF Named
  <1>2. e[1] \in DOMAIN inodes /\ inodes[e[1]].mtime \in Nat /\ m \in Nat /\ m <= inodes[e[1]].mtime
    BY <1>1, Entries DEF DiskInv
  <1>3. CASE file # e[1] \/ m < inodes[e[1]].mtime
    BY <1>1, <1>3 DEF Goes
  <1>4. CASE file = e[1] /\ m = inodes[e[1]].mtime
    <2>1. <<file, m, Content>> \in held
      BY <1>4, Entries DEF DiskInv
    <2>2. CASE e = <<file, m, Content>>
      BY <1>1, <2>2 DEF Goes
    <2>3. CASE e # <<file, m, Content>>
      BY <1>1, <2>1, <2>3 DEF Goes, Twofold
    <2> QED
      BY <2>2, <2>3
  <1> QED
    BY <1>2, <1>3, <1>4

\* A cache that goes with the file's mtime holds what the file holds, or the mtime names two.
LEMMA HitIsFile ==
  ASSUME OnDisk, DiskInv, file # Nothing, NEW p, Goes(Mtime, p)
  PROVE  p = Content \/ Twofold(Mtime)
  <1>1. Mtime \in Nat /\ Mtime # Nothing /\ file \in DOMAIN inodes /\ Mtime = inodes[file].mtime
    BY Entries, Distinct DEF OnDisk
  <1>2. PICK e \in held : /\ e[2] = Mtime
                          /\ Twofold(Mtime) \/ e[3] = p \/ file # e[1] \/ Mtime < inodes[e[1]].mtime
    BY <1>1 DEF Goes
  <1>3. <<file, Mtime, Content>> \in held
    BY DEF DiskInv
  <1>4. CASE e = <<file, Mtime, Content>>
    BY <1>1, <1>2, <1>4
  <1>5. CASE e # <<file, Mtime, Content>>
    BY <1>2, <1>3, <1>5 DEF Twofold
  <1> QED
    BY <1>4, <1>5

LEMMA CacheKept ==
  ASSUME Sorts, DiskInv, CacheInv, PolicyNext
  PROVE  CacheInv'
  <1>1. Sorts' /\ DiskInv' /\ Onward
    BY SortsKept
  <1> SUFFICES ASSUME NEW g \in Gateways
               PROVE  /\ job'[g].at # "idle" => Named(job[g].stat)'
                      /\ cache'[g].policy # Nothing =>
                           /\ file' # Nothing /\ Goes(cache[g].mtime, cache[g].policy)'
                           /\ \E e \in held' : e[3] = cache'[g].policy
    BY DEF CacheInv
  <1>2. /\ job[g].stat \in Nat \cup {Nothing} /\ cache[g].mtime \in Nat \cup {Nothing}
        /\ job \in [Admins \cup Gateways -> Jobs] /\ g \in Admins \cup Gateways
        /\ cache \in [Gateways -> [policy : Policy \cup {Nothing}, mtime : Nat \cup {Nothing}]]
        /\ g \notin Admins
    BY JobSorts DEF Sorts, Asked, Jobs
  <1>3. ASSUME job'[g].stat = job[g].stat, job[g].at # "idle"
        PROVE  Named(job[g].stat)'
    <2>1. PICK m \in Nat \cup {Nothing} : m = job[g].stat
      BY <1>2
    <2>2. Named(m)
      BY <1>3, <2>1 DEF CacheInv
    <2>3. Named(m)'
      BY <1>1, <2>2, GoesOnward DEF Sorts
    <2> QED
      BY <1>3, <2>1, <2>3 DEF Named
  <1>4. ASSUME cache'[g] = cache[g], cache[g].policy # Nothing
        PROVE  /\ file' # Nothing /\ Goes(cache[g].mtime, cache[g].policy)'
               /\ \E e \in held' : e[3] = cache'[g].policy
    <2>1. file' # Nothing /\ \E e \in held' : e[3] = cache[g].policy
      BY <1>1, <1>4 DEF CacheInv, Onward
    <2>2. PICK m, p : m \in Nat \cup {Nothing} /\ m = cache[g].mtime /\ p = cache[g].policy
      BY <1>2
    <2>3. Goes(m, p)
      BY <1>4, <2>2 DEF CacheInv
    <2>4. Goes(m, p)'
      BY <1>1, <2>2, <2>3, GoesOnward DEF Sorts
    <2>5. cache'[g].mtime = m /\ cache'[g].policy = p
      BY <1>4, <2>2
    <2>6. Goes(cache[g].mtime, cache[g].policy)'
      BY <2>4, <2>5 DEF Goes, Twofold
    <2> QED
      BY <1>4, <2>1, <2>6
  <1>5. ASSUME NEW a \in Admins \cup Gateways, \E j : Go(a, j), a # g, UNCHANGED cache
        PROVE  /\ job'[g].at # "idle" => Named(job[g].stat)'
               /\ cache'[g].policy # Nothing =>
                    /\ file' # Nothing /\ Goes(cache[g].mtime, cache[g].policy)'
                    /\ \E e \in held' : e[3] = cache'[g].policy
    <2>1. job'[g] = job[g]
      BY <1>2, <1>5 DEF Go
    <2> QED
      BY <1>3, <1>4, <1>5, <2>1
  <1>6. ASSUME NEW a \in Admins, ReadVersion(a) \/ OpenTemp(a) \/ WriteTemp(a) \/ Replace(a) \/ View(a)
        PROVE  a # g /\ UNCHANGED cache /\ \E j : Go(a, j)
    BY <1>2, <1>6 DEF ReadVersion, OpenTemp, WriteTemp, Replace, View, To
  <1>7. ASSUME NEW a \in Admins \cup Gateways, Exists(a) \/ Create(a) \/ Fill(a)
        PROVE  /\ UNCHANGED cache /\ \E j : Go(a, j)
               /\ a = g => job'[g].stat = job[g].stat /\ job[g].at # "idle"
    <2>1. PICK j : Go(a, j) /\ j.stat = job[a].stat
      <3>1. job[a] \in Jobs
        BY JobSorts
      <3>2. CASE Exists(a)
        BY <3>1, <3>2 DEF Exists, To, Jobs
      <3>3. CASE Create(a)
        <4>1. Go(a, [job[a] EXCEPT !.at = "fill", !.fd = file'])
          BY <3>3 DEF Create
        <4>2. [job[a] EXCEPT !.at = "fill", !.fd = file'].stat = job[a].stat
          BY <3>1 DEF Jobs
        <4> QED
          BY <4>1, <4>2
      <3>4. CASE Fill(a)
        BY <3>1, <3>4 DEF Fill, To, Jobs
      <3> QED
        BY <1>7, <3>2, <3>3, <3>4
    <2> QED
      BY <1>2, <1>7, <2>1 DEF Exists, Create, Fill, At, Go
  <1>8. ASSUME NEW a \in Admins \cup Gateways, Read(a)
        PROVE  /\ job'[g].at # "idle" => Named(job[g].stat)'
               /\ cache'[g].policy # Nothing =>
                    /\ file' # Nothing /\ Goes(cache[g].mtime, cache[g].policy)'
                    /\ \E e \in held' : e[3] = cache'[g].policy
    <2>1. PICK j : Go(a, j) /\ j.at = "idle"
      <3>1. PICK j : Go(a, j) /\ (j = Rest \/ \E p : j = [Rest EXCEPT !.ask = job[a].ask, !.policy = p])
        BY <1>8, ReadSort
      <3>2. Rest.at = "idle" /\ \A ask, p : [Rest EXCEPT !.ask = ask, !.policy = p].at = "idle"
        BY DEF Rest
      <3>3. j.at = "idle"
        BY <3>1, <3>2
      <3> QED
        BY <3>1, <3>3
    <2>2. job'[g] = IF a = g THEN j ELSE job[g]
      BY <1>2, <2>1 DEF Go
    <2>3. UNCHANGED <<file, inodes>> /\ held \subseteq held' /\ file # Nothing
      BY <1>1, <1>8, ReadSort DEF disk, Onward
    <2>4. CASE cache'[g] = cache[g]
      BY <1>3, <1>4, <2>1, <2>2, <2>4
    <2>5. CASE cache'[g] # cache[g]
      <3>0. cache' = cache \/ cache' = [cache EXCEPT ![a] = [policy |-> Content, mtime |-> job[a].stat]]
        BY <1>8, ReadSort
      <3>1. a = g /\ cache'[g] = [policy |-> Content, mtime |-> job[g].stat]
        BY <1>2, <2>5, <3>0
      <3>2. job[g].at = "read"
        BY <1>8, <3>1, ReadSort
      <3>3. PICK m \in Nat \cup {Nothing} : m = job[g].stat
        BY <1>2
      <3>4. Named(m)
        BY <3>2, <3>3 DEF CacheInv
      <3>5. PICK p : p = Content
        OBVIOUS
      <3>6. Goes(m, p)'
        BY <1>1, <2>3, <3>4, <3>5, GoesNow, GoesOnward DEF Sorts
      <3>7. \E e \in held' : e[3] = p
        <4>1. <<file, Mtime, Content>> \in held
          BY <2>3 DEF DiskInv
        <4> QED
          BY <2>3, <3>5, <4>1
      <3> QED
        BY <2>1, <2>2, <2>3, <3>1, <3>3, <3>5, <3>6, <3>7 DEF Goes, Twofold
    <2> QED
      BY <2>4, <2>5
  <1>9. ASSUME NEW a \in Gateways, Judge(a)
        PROVE  /\ job'[g].at # "idle" => Named(job[g].stat)'
               /\ cache'[g].policy # Nothing =>
                    /\ file' # Nothing /\ Goes(cache[g].mtime, cache[g].policy)'
                    /\ \E e \in held' : e[3] = cache'[g].policy
    <2>1. UNCHANGED cache /\ UNCHANGED disk
      BY <1>9 DEF Judge
    <2>2. PICK j : Go(a, j) /\ (j.at = "idle" \/ j.stat = Mtime)
      <3>1. PICK x \in setup.texts, scope \in setup.scopes :
              \/ Go(a, [Rest EXCEPT !.ask = <<judged', x, scope>>, !.policy = cache[a].policy])
              \/ Go(a, [Rest EXCEPT !.at = "exists", !.stat = Mtime, !.ask = <<judged', x, scope>>])
        BY <1>9, AskSort
      <3>2. PICK ask, p, m : ask = <<judged', x, scope>> /\ p = cache[a].policy /\ m = Mtime
        OBVIOUS
      <3>3. /\ [Rest EXCEPT !.ask = ask, !.policy = p].at = "idle"
            /\ [Rest EXCEPT !.at = "exists", !.stat = m, !.ask = ask].stat = m
        BY DEF Rest
      <3>4. CASE Go(a, [Rest EXCEPT !.ask = <<judged', x, scope>>, !.policy = cache[a].policy])
        <4>1. Go(a, [Rest EXCEPT !.ask = ask, !.policy = p])
          BY <3>2, <3>4
        <4> QED
          BY <3>3, <4>1
      <3>5. CASE Go(a, [Rest EXCEPT !.at = "exists", !.stat = Mtime, !.ask = <<judged', x, scope>>])
        <4>1. Go(a, [Rest EXCEPT !.at = "exists", !.stat = m, !.ask = ask])
          BY <3>2, <3>5
        <4> QED
          BY <3>2, <3>3, <4>1
      <3> QED
        BY <3>1, <3>4, <3>5
    <2>3. job'[g] = IF a = g THEN j ELSE job[g]
      BY <1>2, <2>2 DEF Go
    <2>4. Named(Mtime)
      <3>1. CASE file = Nothing
        BY <3>1 DEF Mtime, Named
      <3>2. CASE file # Nothing
        BY <3>2 DEF Named, DiskInv
      <3> QED
        BY <3>1, <3>2
    <2>5. PICK m : m = Mtime
      OBVIOUS
    <2>6. held \subseteq held'
      BY <1>1 DEF Onward
    <2>7. a = g /\ job'[g].at # "idle" => Named(job[g].stat)'
      BY <2>2, <2>3, <2>4, <2>5, <2>6 DEF Named
    <2> QED
      BY <1>3, <1>4, <2>1, <2>3, <2>7
  <1>10. ASSUME NEW S, Crash(S)
        PROVE  /\ job'[g].at # "idle" => Named(job[g].stat)'
               /\ cache'[g].policy # Nothing =>
                    /\ file' # Nothing /\ Goes(cache[g].mtime, cache[g].policy)'
                    /\ \E e \in held' : e[3] = cache'[g].policy
    <2>1. job'[g] \in {Rest, job[g]} /\ cache'[g] \in {NoCache, cache[g]}
      BY <1>2, <1>10 DEF Crash
    <2>2. Rest.at = "idle" /\ NoCache.policy = Nothing
      BY DEF Rest, NoCache
    <2> QED
      BY <1>3, <1>4, <2>1, <2>2
  <1> QED
    <2>1. CASE \E a \in Admins : ReadVersion(a) \/ OpenTemp(a) \/ WriteTemp(a) \/ Replace(a) \/ View(a)
      BY <1>5, <1>6, <2>1
    <2>2. CASE \E a \in Admins \cup Gateways : Exists(a) \/ Create(a) \/ Fill(a)
      BY <1>3, <1>4, <1>5, <1>7, <2>2
    <2> QED
      BY <1>8, <1>9, <1>10, <2>1, <2>2 DEF PolicyNext

\* What a step makes of a gateway: nothing, a judgement that is not finished, one by the cache
\* or one by the file.
LEMMA GatewayStep ==
  ASSUME Sorts, PolicyNext, NEW g \in Gateways
  PROVE  \/ job'[g] = job[g] /\ cache'[g] = cache[g]
         \/ job'[g].at # "idle" \/ job'[g].ask = Nothing
         \/ /\ UNCHANGED disk /\ job'[g].ask # job[g].ask /\ job'[g].ask # Nothing
            /\ cache'[g] = cache[g] /\ cache[g].mtime = Mtime
            /\ job'[g].policy = cache[g].policy /\ cache[g].policy # Nothing
         \/ /\ UNCHANGED disk /\ job[g].at = "read" /\ job'[g].ask = job[g].ask
            /\ job'[g].policy = Content \/ (Content = Torn /\ job'[g].policy = Nothing)
  <1> DEFINE Claim == \/ job'[g] = job[g] /\ cache'[g] = cache[g]
                      \/ job'[g].at # "idle" \/ job'[g].ask = Nothing
                      \/ /\ UNCHANGED disk /\ job'[g].ask # job[g].ask /\ job'[g].ask # Nothing
                         /\ cache'[g] = cache[g] /\ cache[g].mtime = Mtime
                         /\ job'[g].policy = cache[g].policy /\ cache[g].policy # Nothing
                      \/ /\ UNCHANGED disk /\ job[g].at = "read" /\ job'[g].ask = job[g].ask
                         /\ job'[g].policy = Content \/ (Content = Torn /\ job'[g].policy = Nothing)
  <1>0. /\ job \in [Admins \cup Gateways -> Jobs] /\ g \in Admins \cup Gateways /\ g \notin Admins
        /\ cache \in [Gateways -> [policy : Policy \cup {Nothing}, mtime : Nat \cup {Nothing}]]
        /\ job[g] \in Jobs /\ Fits(g, job[g])
    BY JobSorts DEF Sorts, Asked
  <1>1. ASSUME NEW a \in Admins \cup Gateways, NEW j, Go(a, j), a # g, UNCHANGED cache PROVE Claim
    BY <1>0, <1>1 DEF Go
  <1>2. ASSUME NEW a \in Admins, ReadVersion(a) \/ OpenTemp(a) \/ WriteTemp(a) \/ Replace(a) \/ View(a) PROVE Claim
    <2>1. a # g /\ UNCHANGED cache /\ \E j : Go(a, j)
      BY <1>0, <1>2 DEF ReadVersion, OpenTemp, WriteTemp, Replace, View, To
    <2> QED
      BY <1>1, <2>1
  <1>3. ASSUME NEW a \in Admins \cup Gateways, Exists(a) \/ Create(a) \/ Fill(a) PROVE Claim
    <2>1. UNCHANGED cache
      BY <1>3 DEF Exists, Create, Fill
    <2>2. PICK j : Go(a, j) /\ (a = g => j.at # "idle")
      <3>1. CASE Exists(a)
        <4>1. Go(a, [job[a] EXCEPT !.at = IF file = Nothing THEN "create" ELSE "read"])
          BY <3>1 DEF Exists, To
        <4>2. a = g => [job[a] EXCEPT !.at = IF file = Nothing THEN "create" ELSE "read"].at # "idle"
          BY <1>0 DEF Jobs
        <4> QED
          BY <4>1, <4>2
      <3>2. CASE Create(a)
        <4>1. Go(a, [job[a] EXCEPT !.at = "fill", !.fd = file'])
          BY <3>2 DEF Create
        <4>2. a = g => [job[a] EXCEPT !.at = "fill", !.fd = file'].at # "idle"
          BY <1>0 DEF Jobs
        <4> QED
          BY <4>1, <4>2
      <3>3. CASE Fill(a)
        <4>1. Go(a, [job[a] EXCEPT !.at = "read"])
          BY <3>3 DEF Fill, To
        <4>2. a = g => [job[a] EXCEPT !.at = "read"].at # "idle"
          BY <1>0 DEF Jobs
        <4> QED
          BY <4>1, <4>2
      <3> QED
        BY <1>3, <3>1, <3>2, <3>3
    <2>3. CASE a = g
      BY <1>0, <2>2, <2>3 DEF Go
    <2>4. CASE a # g
      BY <1>1, <2>1, <2>2, <2>4
    <2> QED
      BY <2>3, <2>4
  <1>4. ASSUME NEW a \in Admins \cup Gateways, Read(a) PROVE Claim
    <2>0. job[a].at = "read" /\ UNCHANGED disk /\ Content \in Policy \cup {Torn}
      BY <1>4, ReadSort
    <2>1. PICK j, p : /\ Go(a, j) /\ (cache' = cache \/ \E c : cache' = [cache EXCEPT ![a] = c])
                      /\ j = Rest \/ j = [Rest EXCEPT !.ask = job[a].ask, !.policy = p]
                      /\ a \in Admins \/ (j = [Rest EXCEPT !.ask = job[a].ask, !.policy = p]
                                           /\ (p = Content \/ (Content = Torn /\ p = Nothing)))
      <3>1. CASE a \in Admins /\ Go(a, Rest) /\ UNCHANGED <<cache, audited>>
        BY <3>1
      <3>2. CASE /\ a \in Gateways /\ Content = Torn /\ Go(a, [Rest EXCEPT !.ask = job[a].ask, !.policy = Nothing])
                 /\ UNCHANGED <<cache, audited>>
        BY <3>2
      <3>3. CASE /\ a \in Gateways /\ Content \in Policy /\ Go(a, [Rest EXCEPT !.ask = job[a].ask, !.policy = Content])
                 /\ cache' = [cache EXCEPT ![a] = [policy |-> Content, mtime |-> job[a].stat]]
        BY <3>3
      <3> QED
        BY <1>4, <3>1, <3>2, <3>3, ReadSort
    <2>2. CASE a # g
      BY <1>0, <2>1, <2>2 DEF Go
    <2>3. CASE a = g
      <3>1. \A ask : [Rest EXCEPT !.ask = ask, !.policy = p].ask = ask /\ [Rest EXCEPT !.ask = ask, !.policy = p].policy = p
        BY DEF Rest
      <3>2. job'[g] = j
        BY <1>0, <2>1, <2>3 DEF Go
      <3> QED
        BY <1>0, <2>0, <2>1, <2>3, <3>1, <3>2
    <2> QED
      BY <2>2, <2>3
  <1>5. ASSUME NEW a \in Gateways, Judge(a) PROVE Claim
    <2>0. UNCHANGED <<cache, disk>>
      BY <1>5 DEF Judge, disk
    <2>1. PICK x \in setup.texts, scope \in setup.scopes :
           /\ judged' = judged + 1 /\ <<judged', x, scope>> \in Asks /\ job[a].at = "idle"
           /\ \/ /\ cache[a].policy # Nothing /\ cache[a].mtime = Mtime
                 /\ Go(a, [Rest EXCEPT !.ask = <<judged', x, scope>>, !.policy = cache[a].policy])
              \/ Go(a, [Rest EXCEPT !.at = "exists", !.stat = Mtime, !.ask = <<judged', x, scope>>])
      BY <1>5, AskSort
    <2>2. PICK ask, p, m : ask \in Asks /\ ask = <<judged', x, scope>> /\ p = cache[a].policy /\ m = Mtime
      BY <2>1
    <2>3. /\ [Rest EXCEPT !.ask = ask, !.policy = p].ask = ask /\ [Rest EXCEPT !.ask = ask, !.policy = p].policy = p
          /\ [Rest EXCEPT !.at = "exists", !.stat = m, !.ask = ask].at = "exists"
      BY DEF Rest
    <2>4. CASE a # g
      BY <1>1, <2>0, <2>1, <2>4
    <2>5. CASE a = g /\ Go(a, [Rest EXCEPT !.at = "exists", !.stat = Mtime, !.ask = <<judged', x, scope>>])
      <3>1. Go(g, [Rest EXCEPT !.at = "exists", !.stat = m, !.ask = ask])
        BY <2>2, <2>5
      <3> QED
        BY <1>0, <2>3, <3>1 DEF Go
    <2>6. CASE /\ a = g /\ cache[a].policy # Nothing /\ cache[a].mtime = Mtime
               /\ Go(a, [Rest EXCEPT !.ask = <<judged', x, scope>>, !.policy = cache[a].policy])
      <3>1. Go(g, [Rest EXCEPT !.ask = ask, !.policy = p])
        BY <2>2, <2>6
      <3>2. job'[g].ask = ask /\ job'[g].policy = p
        BY <1>0, <2>3, <3>1 DEF Go
      <3>3. ask[1] = judged + 1 /\ ask # Nothing /\ judged \in Nat
        BY <2>1, <2>2, Distinct DEF Sorts, Asked
      <3>4. job[g].ask # Nothing => job[g].ask[1] \in Nat /\ job[g].ask[1] <= judged
        BY <1>0 DEF Fits, Jobs, Asks
      <3>5. ask # job[g].ask
        BY <3>3, <3>4
      <3> QED
        BY <2>0, <2>2, <2>6, <3>2, <3>3, <3>5
    <2> QED
      BY <2>1, <2>4, <2>5, <2>6
  <1>6. ASSUME NEW S, Crash(S) PROVE Claim
    <2>1. job'[g] = Rest \/ (job'[g] = job[g] /\ cache'[g] = cache[g])
      BY <1>0, <1>6 DEF Crash
    <2>2. Rest.ask = Nothing
      BY DEF Rest
    <2> QED
      BY <2>1, <2>2
  <1>7. Claim
    BY <1>2, <1>3, <1>4, <1>5, <1>6 DEF PolicyNext
  <1> QED
    BY <1>7

\* What a gateway has been able to see while it judges: all of it stays, and what the file has
\* become is added.
LEMMA SeenSince ==
  ASSUME Sorts, PolicyNext, NEW g \in Gateways
  PROVE  /\ job'[g].ask # job[g].ask /\ job'[g].ask # Nothing => seen'[g] = {Content'}
         /\ job'[g].ask = job[g].ask => seen[g] \subseteq seen'[g]
         /\ job'[g].ask = job[g].ask /\ job[g].at # "idle" => Content' \in seen'[g]
  <1>1. seen'[g] = IF job'[g].ask # job[g].ask /\ job'[g].ask # Nothing THEN {Content'}
                   ELSE seen[g] \cup (IF At(g, "idle") THEN {} ELSE {Content'})
    BY DEF PolicyNext, Observe
  <1> QED
    BY <1>1 DEF At

\* What is added to the audit log is what the file holds, or a gateway's cache.
LEMMA AuditedStep ==
  ASSUME Sorts, PolicyNext
  PROVE  \/ audited' = audited
         \/ file # Nothing /\ Content \in Policy /\ audited' = audited \cup {Content} /\ UNCHANGED disk
         \/ \E g \in Gateways : cache[g].policy # Nothing /\ cache[g].mtime = Mtime
                                /\ audited' = audited \cup {cache[g].policy} /\ UNCHANGED disk
  <1>1. ASSUME NEW a \in Admins, ReadVersion(a) \/ OpenTemp(a) \/ WriteTemp(a) \/ Replace(a) \/ View(a)
        PROVE  audited' = audited
    BY <1>1 DEF ReadVersion, OpenTemp, WriteTemp, Replace, View
  <1>2. ASSUME NEW a \in Admins \cup Gateways, Exists(a) \/ Create(a) \/ Fill(a) PROVE audited' = audited
    BY <1>2 DEF Exists, Create, Fill
  <1>3. ASSUME NEW S, Crash(S) PROVE audited' = audited
    BY <1>3 DEF Crash
  <1>4. ASSUME NEW a \in Admins \cup Gateways, Read(a)
        PROVE  \/ audited' = audited
               \/ file # Nothing /\ Content \in Policy /\ audited' = audited \cup {Content} /\ UNCHANGED disk
    BY <1>4, ReadSort
  <1>5. ASSUME NEW g \in Gateways, Judge(g)
        PROVE  \/ audited' = audited
               \/ cache[g].policy # Nothing /\ cache[g].mtime = Mtime
                  /\ audited' = audited \cup {cache[g].policy} /\ UNCHANGED disk
    <2>1. UNCHANGED disk
      BY <1>5 DEF Judge
    <2> QED
      BY <1>5, <2>1, AskSort
  <1> QED
    BY <1>1, <1>2, <1>3, <1>4, <1>5 DEF PolicyNext

LEMMA JudgedKept ==
  ASSUME Sorts, DiskInv, CacheInv, Judged, PolicyNext
  PROVE  Judged'
  <1>1. Sorts' /\ DiskInv' /\ Onward
    BY SortsKept
  <1>2. ASSUME NEW g \in Gateways, Decided(g)', job'[g].policy # Nothing
        PROVE  job'[g].policy \in seen'[g] \/ Blurred(g)'
    <2>0. job'[g].at = "idle" /\ job'[g].ask # Nothing
      BY <1>2 DEF Decided, At
    <2>1. held \subseteq held'
      BY <1>1 DEF Onward
    <2>2. CASE job'[g] = job[g] /\ cache'[g] = cache[g]
      <3>1. Decided(g) /\ job[g].policy # Nothing /\ seen[g] \subseteq seen'[g]
        BY <1>2, <2>0, <2>2, SeenSince DEF Decided, At
      <3> QED
        BY <2>1, <2>2, <3>1 DEF Judged, Blurred
    <2>3. CASE /\ UNCHANGED disk /\ job'[g].ask # job[g].ask /\ job'[g].ask # Nothing
               /\ cache'[g] = cache[g] /\ cache[g].mtime = Mtime
               /\ job'[g].policy = cache[g].policy /\ cache[g].policy # Nothing
      <3>1. file # Nothing /\ Goes(Mtime, cache[g].policy)
        BY <2>3 DEF CacheInv
      <3>2. cache[g].policy = Content \/ Twofold(Mtime)
        BY <3>1, HitIsFile DEF Sorts
      <3>3. Content' = Content /\ seen'[g] = {Content'}
        BY <2>3, SeenSince DEF disk, Content
      <3> QED
        BY <2>1, <2>3, <3>2, <3>3 DEF Twofold, Blurred
    <2>4. CASE /\ UNCHANGED disk /\ job[g].at = "read" /\ job'[g].ask = job[g].ask
               /\ job'[g].policy = Content \/ (Content = Torn /\ job'[g].policy = Nothing)
      <3>1. Content' = Content /\ Content' \in seen'[g]
        BY <2>4, SeenSince DEF disk, Content
      <3> QED
        BY <1>2, <2>4, <3>1
    <2> QED
      BY <2>0, <2>2, <2>3, <2>4, GatewayStep
  <1>3. ASSUME NEW p \in audited' PROVE \E e \in held' : e[3] = p
    <2>1. held \subseteq held'
      BY <1>1 DEF Onward
    <2>2. CASE p \in audited
      BY <2>1, <2>2 DEF Judged
    <2>3. CASE file # Nothing /\ p = Content
      <3>1. <<file, Mtime, Content>> \in held
        BY <2>3 DEF DiskInv
      <3> QED
        BY <2>1, <2>3, <3>1
    <2>4. CASE \E g \in Gateways : cache[g].policy # Nothing /\ p = cache[g].policy
      BY <2>1, <2>4 DEF CacheInv
    <2> QED
      BY <1>3, <2>2, <2>3, <2>4, AuditedStep
  <1> QED
    BY <1>2, <1>3 DEF Judged

----------------------------------------------------------------------------
\* As long as no two have been writing at the same time: who writes has the file it wants to
\* itself, and the versions of what the file has been go up.
Newer(p) == \A e \in held : e[3] # Torn => e[3].version < p.version

Works(j) ==
    /\ j.at = "write" => j.fd = temp /\ inodes[temp].policy = Torn
    /\ j.at = "replace" => j.fd = temp /\ inodes[temp].policy = j.new
    /\ j.at \in {"open", "write", "replace"} => Newer(j.new)
    /\ j.at = "create" => file = Nothing /\ setup.first = Nothing
    /\ j.at = "fill" => j.fd = file /\ Content = Torn /\ setup.first = Nothing

Alone == \A a, b \in Admins \cup Gateways : Writing(job[a]) /\ Writing(job[b]) => a = b

Versions ==
    /\ \A e, f \in held : e[3] # Torn /\ f[3] # Torn /\ e[3].version = f[3].version => e[3] = f[3]
    /\ \A e \in held : e[3] # Torn => Content # Torn /\ e[3].version <= Content.version

RaceInv ==
    ~raced => /\ Alone /\ \A a \in Admins \cup Gateways : Works(job[a])
              /\ Versions /\ (setup.first # Nothing => Content # Torn)

\* A text goes unjudged for a reason.
Unjudged == \A g \in Gateways : Decided(g) /\ job[g].policy = Nothing => raced \/ setup.first = Nothing

\* A race is noticed.
LEMMA Noticed ==
  ASSUME Sorts, Sorts', PolicyNext
  PROVE  /\ raced => raced'
         /\ ~raced' => Alone'
  <1>1. raced' = (raced \/ \E a, b \in DOMAIN job : a # b /\ Writing(job'[a]) /\ Writing(job'[b]))
    BY DEF PolicyNext, Observe
  <1>2. DOMAIN job = Admins \cup Gateways
    BY DEF Sorts, Asked
  <1> QED
    BY <1>1, <1>2 DEF Alone

\* What the version of a save is above.
Current == IF Content \in {Nothing, Torn} THEN 0 ELSE Content.version

\* A step writes, or leaves the disk as it is and at most makes up its mind to write.
LEMMA WriterStep ==
  ASSUME Sorts, PolicyNext
  PROVE  \/ /\ UNCHANGED disk
            /\ \A b \in Admins \cup Gateways :
                 \/ job'[b] = job[b] \/ ~Writing(job'[b])
                 \/ job'[b].at = "create" /\ file = Nothing
                 \/ job'[b].at = "open" /\ job'[b].new \in Policy /\ job'[b].new.version > Current
         \/ \E a \in Admins : OpenTemp(a) \/ WriteTemp(a) \/ Replace(a)
         \/ \E a \in Admins \cup Gateways : Create(a) \/ Fill(a)
  <1> DEFINE Quiet == /\ UNCHANGED disk
                      /\ \A b \in Admins \cup Gateways :
                           \/ job'[b] = job[b] \/ ~Writing(job'[b])
                           \/ job'[b].at = "create" /\ file = Nothing
                           \/ job'[b].at = "open" /\ job'[b].new \in Policy /\ job'[b].new.version > Current
  <1>0. /\ job \in [Admins \cup Gateways -> Jobs] /\ \A a \in Admins \cup Gateways : job[a] \in Jobs /\ Fits(a, job[a])
    BY JobSorts DEF Sorts, Asked
  <1>1. ASSUME NEW a \in Admins \cup Gateways, NEW j, Go(a, j), UNCHANGED disk,
               \/ ~Writing(j) \/ (j.at = "create" /\ file = Nothing)
               \/ j.at = "open" /\ j.new \in Policy /\ j.new.version > Current
        PROVE  Quiet
    <2>1. job'[a] = j /\ \A b \in Admins \cup Gateways : b # a => job'[b] = job[b]
      BY <1>0, <1>1 DEF Go
    <2> QED
      BY <1>1, <2>1
  <1>2. ASSUME NEW a \in Admins, ReadVersion(a) PROVE Quiet
    <2>1. PICK p \in setup.saved :
            Go(a, [Rest EXCEPT !.at = "open", !.new = [p EXCEPT !.version = SavedVersion(Current, @)]])
      BY <1>2 DEF ReadVersion, Current
    <2>2. p \in Policy /\ Current \in Nat
      BY Deployed, Entries DEF Sorts, Asked, Policy, Content, Current
    <2> DEFINE n == [p EXCEPT !.version = SavedVersion(Current, @)]
    <2>3. n \in Policy /\ n.version > Current
      BY <2>2, SavedSort
    <2> HIDE DEF n
    <2>4. [Rest EXCEPT !.at = "open", !.new = n].at = "open" /\ [Rest EXCEPT !.at = "open", !.new = n].new = n
      BY DEF Rest
    <2>5. Go(a, [Rest EXCEPT !.at = "open", !.new = n])
      BY <2>1 DEF n
    <2>6. UNCHANGED disk
      BY <1>2 DEF ReadVersion
    <2> QED
      BY <1>1, <2>3, <2>4, <2>5, <2>6
  <1>3. ASSUME NEW a \in Admins, View(a) PROVE Quiet
    <2>1. Go(a, [Rest EXCEPT !.at = "exists"]) /\ UNCHANGED disk
      BY <1>3 DEF View
    <2>2. ~Writing([Rest EXCEPT !.at = "exists"])
      BY DEF Rest, Writing
    <2> QED
      BY <1>1, <2>1, <2>2
  <1>4. ASSUME NEW a \in Admins \cup Gateways, Exists(a) PROVE Quiet
    <2>1. Go(a, [job[a] EXCEPT !.at = IF file = Nothing THEN "create" ELSE "read"]) /\ UNCHANGED disk
      BY <1>4 DEF Exists, To
    <2>2. /\ [job[a] EXCEPT !.at = "create"].at = "create"
          /\ ~Writing([job[a] EXCEPT !.at = "read"])
      BY <1>0 DEF Jobs, Writing
    <2>3. CASE file = Nothing
      BY <1>1, <2>1, <2>2, <2>3
    <2>4. CASE file # Nothing
      BY <1>1, <2>1, <2>2, <2>4
    <2> QED
      BY <2>3, <2>4
  <1>5. ASSUME NEW a \in Admins \cup Gateways, Read(a) PROVE Quiet
    <2>1. PICK j : /\ Go(a, j) /\ UNCHANGED disk
                   /\ j = Rest \/ \E p : j = [Rest EXCEPT !.ask = job[a].ask, !.policy = p]
      BY <1>5, ReadSort
    <2>2. ~Writing(Rest) /\ \A ask, p : ~Writing([Rest EXCEPT !.ask = ask, !.policy = p])
      BY DEF Rest, Writing
    <2> QED
      BY <1>1, <2>1, <2>2
  <1>6. ASSUME NEW a \in Gateways, Judge(a) PROVE Quiet
    <2>1. PICK x \in setup.texts, scope \in setup.scopes :
              \/ Go(a, [Rest EXCEPT !.ask = <<judged', x, scope>>, !.policy = cache[a].policy])
              \/ Go(a, [Rest EXCEPT !.at = "exists", !.stat = Mtime, !.ask = <<judged', x, scope>>])
      BY <1>6, AskSort
    <2>2. PICK ask, p, m : ask = <<judged', x, scope>> /\ p = cache[a].policy /\ m = Mtime
      OBVIOUS
    <2>3. /\ ~Writing([Rest EXCEPT !.ask = ask, !.policy = p])
          /\ ~Writing([Rest EXCEPT !.at = "exists", !.stat = m, !.ask = ask])
      BY DEF Rest, Writing
    <2>4. UNCHANGED disk
      BY <1>6 DEF Judge
    <2>5. CASE Go(a, [Rest EXCEPT !.ask = <<judged', x, scope>>, !.policy = cache[a].policy])
      <3>1. Go(a, [Rest EXCEPT !.ask = ask, !.policy = p])
        BY <2>2, <2>5
      <3> QED
        BY <1>1, <2>3, <2>4, <3>1
    <2>6. CASE Go(a, [Rest EXCEPT !.at = "exists", !.stat = Mtime, !.ask = <<judged', x, scope>>])
      <3>1. Go(a, [Rest EXCEPT !.at = "exists", !.stat = m, !.ask = ask])
        BY <2>2, <2>6
      <3> QED
        BY <1>1, <2>3, <2>4, <3>1
    <2> QED
      BY <2>1, <2>5, <2>6
  <1>7. ASSUME NEW S, Crash(S) PROVE Quiet
    <2>1. UNCHANGED disk /\ \A b \in Admins \cup Gateways : job'[b] \in {Rest, job[b]}
      BY <1>0, <1>7 DEF Crash
    <2>2. ~Writing(Rest)
      BY DEF Rest, Writing
    <2> QED
      BY <2>1, <2>2
  <1> QED
    BY <1>2, <1>3, <1>4, <1>5, <1>6, <1>7 DEF PolicyNext

\* What the file has been is as before when the file is.
LEMMA SameFile ==
  ASSUME OnDisk, DiskInv, Recording, UNCHANGED file, file # Nothing => inodes'[file] = inodes[file]
  PROVE  held' = held /\ Content' = Content /\ (Versions => Versions')
  <1>1. Content' = Content /\ Mtime' = Mtime
    BY DEF Content, Mtime
  <1>2. held' = held
    <2>1. file # Nothing => <<file, Mtime, Content>> \in held
      BY DEF DiskInv
    <2> QED
      BY <1>1, <2>1 DEF Recording
  <1> QED
    BY <1>1, <1>2 DEF Versions

\* A step that does not write.
LEMMA QuietKept ==
  ASSUME Sorts, Sorts', DiskInv, RaceInv, PolicyNext, ~raced', UNCHANGED disk,
         \A b \in Admins \cup Gateways :
           \/ job'[b] = job[b] \/ ~Writing(job'[b])
           \/ job'[b].at = "create" /\ file = Nothing
           \/ job'[b].at = "open" /\ job'[b].new \in Policy /\ job'[b].new.version > Current
  PROVE  RaceInv'
  <1>1. ~raced /\ Alone' /\ UNCHANGED <<setup, file, temp, inodes>> /\ Recording
    BY Noticed, Records DEF disk
  <1>2. held' = held /\ Content' = Content /\ Versions'
    BY <1>1, SameFile DEF RaceInv, Sorts
  <1>3. ASSUME NEW b \in Admins \cup Gateways PROVE Works(job[b])'
    <2>1. CASE job'[b] = job[b]
      <3>1. Works(job[b])
        BY <1>1 DEF RaceInv
      <3> QED
        BY <1>1, <1>2, <2>1, <3>1 DEF Works, Newer
    <2>2. CASE ~Writing(job'[b])
      BY <2>2 DEF Works, Writing
    <2>3. CASE job'[b].at = "create" /\ file = Nothing
      BY <1>1, <2>3 DEF Works, DiskInv
    <2>4. CASE job'[b].at = "open" /\ job'[b].new \in Policy /\ job'[b].new.version > Current
      <3>1. ASSUME NEW e \in held, e[3] # Torn PROVE e[3].version < job'[b].new.version
        <4>1. Content # Torn /\ e[3].version <= Content.version
          BY <1>1, <3>1 DEF RaceInv, Versions
        <4>2. file # Nothing
          BY DEF DiskInv
        <4>3. Content \in Policy /\ e[3] \in Policy
          BY <3>1, <4>1, <4>2, Entries DEF Sorts
        <4>4. Current = Content.version
          BY <4>1, <4>3 DEF Current
        <4>5. e[3].version \in Nat /\ Content.version \in Nat /\ job'[b].new.version \in Nat
          BY <2>4, <4>3 DEF Policy
        <4> QED
          BY <2>4, <4>1, <4>4, <4>5
      <3> QED
        BY <1>2, <2>4, <3>1 DEF Works, Newer
    <2> QED
      BY <2>1, <2>2, <2>3, <2>4
  <1> QED
    BY <1>1, <1>2, <1>3 DEF RaceInv

\* A step of the one that writes.
LEMMA WorkerKept ==
  ASSUME Sorts, Sorts', RaceInv, PolicyNext, ~raced', NEW a \in Admins \cup Gateways, NEW j, Go(a, j),
         Writing(job[a]), Works(j)', Versions', setup.first # Nothing => Content' # Torn
  PROVE  RaceInv'
  <1>1. ~raced /\ Alone' /\ UNCHANGED setup
    BY Noticed, Records
  <1>2. job'[a] = j /\ \A b \in Admins \cup Gateways : b # a => job'[b] = job[b]
    BY DEF Go, Sorts, Asked
  <1>3. ASSUME NEW b \in Admins \cup Gateways PROVE Works(job[b])'
    <2>1. CASE b = a
      BY <1>2, <2>1 DEF Works
    <2>2. CASE b # a
      <3>1. ~Writing(job'[b])
        BY <1>1, <1>2, <2>2 DEF RaceInv, Alone
      <3> QED
        BY <3>1 DEF Works, Writing
    <2> QED
      BY <2>1, <2>2
  <1> QED
    BY <1>1, <1>3 DEF RaceInv

LEMMA OpenKept ==
  ASSUME Sorts, Sorts', DiskInv, DiskInv', RaceInv, PolicyNext, ~raced', NEW a \in Admins, OpenTemp(a)
  PROVE  RaceInv'
  <1>1. ~raced /\ UNCHANGED <<setup, file>> /\ Recording /\ a \in Admins \cup Gateways
    BY Noticed, Records DEF OpenTemp
  <1>2. /\ Go(a, [job[a] EXCEPT !.at = "write", !.fd = temp']) /\ job[a].at = "open"
        /\ temp' = Opened(temp) /\ PutIn(temp', Torn)
    BY DEF OpenTemp, At
  <1>3. temp' \in 1..Len(inodes) + 1
    BY <1>2, Opening DEF Sorts, OnDisk
  <1>4. inodes'[temp'].policy = Torn /\ \A k \in DOMAIN inodes : k # temp' => inodes'[k] = inodes[k]
    <2>1. PICK i \in 1..Len(inodes) + 1 : i = temp'
      BY <1>3
    <2>2. /\ inodes'[i] = [policy |-> Torn, mtime |-> clock']
          /\ \A k \in DOMAIN inodes : k # i => inodes'[k] = inodes[k]
      <3>1. PutIn(i, Torn)
        BY <1>2, <2>1
      <3> QED
        BY <3>1, Stored DEF Sorts
    <2> QED
      BY <2>1, <2>2
  <1>5. file # Nothing => inodes'[file] = inodes[file]
    <2>1. file # Nothing => file # temp' /\ file \in DOMAIN inodes
      BY <1>1, Entries DEF Sorts, DiskInv
    <2> QED
      BY <1>4, <2>1
  <1>6. held' = held /\ Content' = Content /\ Versions'
    BY <1>1, <1>5, SameFile DEF RaceInv, Sorts
  <1>7. PICK j : Go(a, j) /\ j.at = "write" /\ j.fd = temp' /\ j.new = job[a].new
    <2>1. PICK fd : fd = temp'
      OBVIOUS
    <2>2. job[a] \in Jobs
      BY JobSorts
    <2>3. \A j : j = [job[a] EXCEPT !.at = "write", !.fd = fd] => j.at = "write" /\ j.fd = fd /\ j.new = job[a].new
      BY <2>2 DEF Jobs
    <2>4. Go(a, [job[a] EXCEPT !.at = "write", !.fd = fd])
      BY <1>2, <2>1
    <2> QED
      BY <2>1, <2>3, <2>4
  <1>8. Works(j)'
    <2>1. Newer(job[a].new)
      BY <1>1, <1>2 DEF RaceInv, Works
    <2> QED
      BY <1>4, <1>6, <1>7, <2>1 DEF Works, Newer
  <1> QED
    BY <1>1, <1>2, <1>6, <1>7, <1>8, WorkerKept DEF Writing, RaceInv

LEMMA WriteKept ==
  ASSUME Sorts, Sorts', DiskInv, DiskInv', RaceInv, PolicyNext, ~raced', NEW a \in Admins, WriteTemp(a)
  PROVE  RaceInv'
  <1>1. ~raced /\ UNCHANGED <<setup, file, temp>> /\ Recording /\ a \in Admins \cup Gateways
    BY Noticed, Records DEF WriteTemp
  <1>2. PICK p \in Mixtures(job[a].fd, job[a].new) : PutIn(job[a].fd, p)
    BY DEF WriteTemp
  <1>3. Go(a, [job[a] EXCEPT !.at = "replace"]) /\ job[a].at = "write"
    BY DEF WriteTemp, At, To
  <1>4. /\ job[a].fd = temp /\ inodes[temp].policy = Torn /\ Newer(job[a].new)
        /\ job[a].fd \in DOMAIN inodes /\ job[a].new \in Policy
    BY <1>1, <1>3, JobSorts DEF RaceInv, Works, Fits
  <1>5. p = job[a].new
    BY <1>4 DEF Mixtures
  <1>6. temp \in 1..Len(inodes) + 1
    BY <1>4, Opening DEF Sorts
  <1>7. inodes'[temp].policy = job[a].new /\ \A k \in DOMAIN inodes : k # temp => inodes'[k] = inodes[k]
    <2>1. PICK i \in 1..Len(inodes) + 1 : i = temp
      BY <1>6
    <2>2. PutIn(i, p) /\ p \in Policy \cup {Torn}
      BY <1>2, <1>4, <1>5, <2>1
    <2>3. /\ inodes'[i] = [policy |-> p, mtime |-> clock']
          /\ \A k \in DOMAIN inodes : k # i => inodes'[k] = inodes[k]
      BY <2>2, Stored DEF Sorts
    <2> QED
      BY <1>5, <2>1, <2>3
  <1>8. file # Nothing => inodes'[file] = inodes[file]
    <2>1. file # Nothing => file # temp /\ file \in DOMAIN inodes
      BY <1>1, Entries DEF Sorts, DiskInv
    <2> QED
      BY <1>7, <2>1
  <1>9. held' = held /\ Content' = Content /\ Versions'
    BY <1>1, <1>8, SameFile DEF RaceInv, Sorts
  <1>10. PICK j : Go(a, j) /\ j.at = "replace" /\ j.fd = job[a].fd /\ j.new = job[a].new
    BY <1>3, JobSorts, GoesOn
  <1>11. Works(j)'
    BY <1>1, <1>4, <1>7, <1>9, <1>10 DEF Works, Newer
  <1> QED
    BY <1>1, <1>3, <1>9, <1>10, <1>11, WorkerKept DEF Writing, RaceInv

\* A policy that is newer than all that the file has been may be what it is.
LEMMA AddedNewer ==
  ASSUME OnDisk, Versions, Recording, file' # Nothing, Content' \in Policy, Newer(Content')
  PROVE  Versions'
  <1>1. PICK p \in Policy : p = Content'
    OBVIOUS
  <1>2. \A e \in held' : e \in held \/ e[3] = p
    BY <1>1 DEF Recording
  <1>3. p # Torn /\ p.version \in Nat
    BY Distinct DEF Policy
  <1>4. \A e \in held : e[3] # Torn => e[3].version \in Nat /\ e[3].version < p.version
    <2>1. \A e \in held : e[3] # Torn => e[3] \in Policy
      BY Entries
    <2> QED
      BY <1>1, <2>1 DEF Newer, Policy
  <1>5. \A e \in held' : e[3] # Torn => e[3] = p \/ (e \in held /\ e[3].version \in Nat /\ e[3].version < p.version)
    BY <1>2, <1>4
  <1>6. \A e \in held' : e[3] # Torn => e[3].version <= p.version
    BY <1>3, <1>5
  <1>7. ASSUME NEW e \in held', NEW f \in held', e[3] # Torn, f[3] # Torn, e[3].version = f[3].version
        PROVE  e[3] = f[3]
    <2>1. CASE e[3] = p
      BY <1>3, <1>5, <1>7, <2>1
    <2>2. CASE f[3] = p
      BY <1>3, <1>5, <1>7, <2>2
    <2>3. CASE e[3] # p /\ f[3] # p
      BY <1>5, <1>7, <2>3 DEF Versions
    <2> QED
      BY <2>1, <2>2, <2>3
  <1> QED
    BY <1>1, <1>3, <1>6, <1>7 DEF Versions

LEMMA ReplaceKept ==
  ASSUME Sorts, Sorts', DiskInv, DiskInv', RaceInv, PolicyNext, ~raced', NEW a \in Admins, Replace(a)
  PROVE  RaceInv'
  <1>1. ~raced /\ UNCHANGED <<setup, inodes>> /\ Recording /\ a \in Admins \cup Gateways
    BY Noticed, Records DEF Replace
  <1>2. Go(a, Rest) /\ job[a].at = "replace" /\ file' = (IF temp = Nothing THEN file ELSE temp)
    BY DEF Replace, At
  <1>3. /\ job[a].fd = temp /\ inodes[temp].policy = job[a].new /\ Newer(job[a].new)
        /\ temp \in DOMAIN inodes /\ job[a].new \in Policy
    BY <1>1, <1>2, JobSorts DEF RaceInv, Works, Fits
  <1>4. temp # Nothing
    BY <1>3, Entries, Distinct DEF Sorts
  <1>5. file' = temp /\ file' # Nothing /\ Content' = job[a].new
    BY <1>1, <1>2, <1>3, <1>4 DEF Content
  <1>6. Newer(Content')
    BY <1>3, <1>5 DEF Newer
  <1>7. Versions'
    BY <1>1, <1>3, <1>5, <1>6, AddedNewer DEF RaceInv, Sorts
  <1>8. Works(Rest)'
    BY DEF Works, Rest
  <1>9. PICK j : j = Rest
    OBVIOUS
  <1>10. Go(a, j) /\ Works(j)'
    BY <1>2, <1>8, <1>9 DEF Works
  <1>11. Content' # Torn
    BY <1>3, <1>5, Distinct
  <1> QED
    BY <1>1, <1>2, <1>7, <1>10, <1>11, WorkerKept DEF Writing

LEMMA CreateKept ==
  ASSUME Sorts, Sorts', DiskInv, DiskInv', RaceInv, PolicyNext, ~raced', NEW a \in Admins \cup Gateways, Create(a)
  PROVE  RaceInv'
  <1>1. ~raced /\ UNCHANGED setup /\ Recording
    BY Noticed, Records
  <1>2. /\ Go(a, [job[a] EXCEPT !.at = "fill", !.fd = file']) /\ job[a].at = "create"
        /\ file' = Opened(file) /\ PutIn(file', Torn)
    BY DEF Create, At
  <1>3. file = Nothing /\ setup.first = Nothing /\ held = {}
    BY <1>1, <1>2 DEF RaceInv, Works, DiskInv
  <1>4. file' \in 1..Len(inodes) + 1
    BY <1>2, Opening DEF Sorts, OnDisk
  <1>5. inodes'[file'].policy = Torn /\ file' # Nothing
    <2>1. PICK i \in 1..Len(inodes) + 1 : i = file'
      BY <1>4
    <2>2. inodes'[i] = [policy |-> Torn, mtime |-> clock']
      <3>1. PutIn(i, Torn)
        BY <1>2, <2>1
      <3> QED
        BY <3>1, Stored DEF Sorts
    <2>3. i \in Nat
      BY LenProperties DEF Sorts, OnDisk
    <2> QED
      BY <2>1, <2>2, <2>3, Distinct
  <1>6. Content' = Torn
    BY <1>5 DEF Content
  <1>7. \A e \in held' : e[3] = Torn
    <2>1. PICK i, m, p : i = file' /\ m = Mtime' /\ p = Content'
      OBVIOUS
    <2>2. held' = held \cup {<<file', Mtime', Content'>>}
      BY <1>1, <1>5 DEF Recording
    <2>3. held' = {<<i, m, p>>}
      BY <1>3, <2>1, <2>2
    <2> QED
      BY <1>6, <2>1, <2>3
  <1>8. Versions'
    BY <1>7 DEF Versions
  <1>9. PICK j : Go(a, j) /\ j.at = "fill" /\ j.fd = file'
    <2>1. PICK fd : fd = file'
      OBVIOUS
    <2>2. job[a] \in Jobs
      BY JobSorts
    <2>3. \A j : j = [job[a] EXCEPT !.at = "fill", !.fd = fd] => j.at = "fill" /\ j.fd = fd
      BY <2>2 DEF Jobs
    <2>4. Go(a, [job[a] EXCEPT !.at = "fill", !.fd = fd])
      BY <1>2, <2>1
    <2> QED
      BY <2>1, <2>3, <2>4
  <1>10. Works(j)'
    BY <1>1, <1>3, <1>6, <1>9 DEF Works
  <1> QED
    BY <1>1, <1>2, <1>3, <1>8, <1>9, <1>10, WorkerKept DEF Writing

LEMMA FillKept ==
  ASSUME Sorts, Sorts', DiskInv, DiskInv', RaceInv, PolicyNext, ~raced', NEW a \in Admins \cup Gateways, Fill(a)
  PROVE  RaceInv'
  <1>1. ~raced /\ UNCHANGED <<setup, file, temp>> /\ Recording
    BY Noticed, Records DEF Fill
  <1>2. PICK p \in Mixtures(job[a].fd, Default) : PutIn(job[a].fd, p)
    BY DEF Fill
  <1>3. Go(a, [job[a] EXCEPT !.at = "read"]) /\ job[a].at = "fill"
    BY DEF Fill, At, To
  <1>4. job[a].fd = file /\ Content = Torn /\ setup.first = Nothing /\ file \in DOMAIN inodes
    BY <1>1, <1>3, JobSorts DEF RaceInv, Works, Fits
  <1>5. inodes[file].policy = Torn /\ file # Nothing /\ file \in 1..Len(inodes) + 1
    BY <1>4, Entries, Opening, Distinct DEF Sorts
  <1>6. p = Default
    BY <1>4, <1>5 DEF Mixtures
  <1>7. Content' = Default
    <2>1. PICK i \in 1..Len(inodes) + 1 : i = file
      BY <1>5
    <2>2. PutIn(i, p) /\ p \in Policy \cup {Torn}
      BY <1>2, <1>4, <1>6, <2>1, DefaultSort
    <2>3. inodes'[i] = [policy |-> p, mtime |-> clock']
      BY <2>2, Stored DEF Sorts
    <2> QED
      BY <1>1, <1>5, <1>6, <2>1, <2>3 DEF Content
  <1>8. Newer(Default)
    BY <1>1, <1>4 DEF RaceInv, Versions, Newer
  <1>9. Newer(Content')
    BY <1>7, <1>8 DEF Newer
  <1>10. Versions'
    BY <1>1, <1>5, <1>7, <1>9, DefaultSort, AddedNewer DEF RaceInv, Sorts
  <1>11. PICK j : Go(a, j) /\ j.at = "read"
    BY <1>3, JobSorts, GoesOn
  <1>12. Works(j)'
    BY <1>11 DEF Works
  <1> QED
    BY <1>1, <1>3, <1>4, <1>10, <1>11, <1>12, WorkerKept DEF Writing

LEMMA RaceKept ==
  ASSUME Sorts, DiskInv, RaceInv, PolicyNext
  PROVE  RaceInv'
  <1>1. SUFFICES ASSUME ~raced' PROVE RaceInv'
    BY DEF RaceInv
  <1>2. Sorts' /\ DiskInv'
    BY SortsKept
  <1> QED
    BY <1>1, <1>2, WriterStep, QuietKept, OpenKept, WriteKept, ReplaceKept, CreateKept, FillKept

LEMMA UnjudgedKept ==
  ASSUME Sorts, DiskInv, RaceInv, Unjudged, PolicyNext
  PROVE  Unjudged'
  <1>1. Sorts' /\ (raced => raced') /\ UNCHANGED setup
    BY SortsKept, Noticed, Records
  <1> SUFFICES ASSUME NEW g \in Gateways, Decided(g)', job'[g].policy = Nothing
               PROVE  raced' \/ setup.first = Nothing
    BY <1>1 DEF Unjudged
  <1>2. job'[g].at = "idle" /\ job'[g].ask # Nothing
    BY DEF Decided, At
  <1>3. CASE job'[g] = job[g]
    BY <1>1, <1>2, <1>3 DEF Unjudged, Decided, At
  <1>4. CASE job'[g].policy = cache[g].policy /\ cache[g].policy # Nothing
    BY <1>4
  <1>5. CASE /\ job[g].at = "read"
             /\ job'[g].policy = Content \/ (Content = Torn /\ job'[g].policy = Nothing)
    <2>1. file # Nothing
      BY <1>5, JobSorts DEF Fits
    <2>2. Content \in Policy \cup {Torn}
      BY <2>1, Entries DEF Sorts
    <2>3. Content = Torn
      BY <1>5, <2>2, Distinct
    <2> QED
      BY <1>1, <2>3 DEF RaceInv
  <1> QED
    BY <1>2, <1>3, <1>4, <1>5, GatewayStep

----------------------------------------------------------------------------
PolicyInv == Sorts /\ DiskInv /\ CacheInv /\ Judged /\ RaceInv /\ Unjudged

LEMMA PolicyStart == PolicyInit => PolicyInv
  <1> SUFFICES ASSUME PolicyInit PROVE PolicyInv
    OBVIOUS
  <1>0. /\ setup \in Setups /\ temp = Nothing /\ clock = 0 /\ raced = FALSE /\ audited = {} /\ judged = 0
        /\ job = [a \in Admins \cup Gateways |-> Rest] /\ cache = [g \in Gateways |-> NoCache]
        /\ seen = [g \in Gateways |-> {}]
        /\ setup.first \in Policy \cup {Nothing}
    BY Deployed DEF PolicyInit
  <1>1. \A a \in Admins \cup Gateways : job[a] = Rest
    BY <1>0
  <1>2. /\ inodes \in Seq(Inode) /\ \A i \in DOMAIN inodes : inodes[i].mtime <= clock
        /\ file \in {Nothing} \cup DOMAIN inodes
        /\ held \subseteq (DOMAIN inodes) \X Nat \X (Policy \cup {Torn})
        /\ DiskInv /\ (\A e, f \in held : e = f) /\ (setup.first # Nothing => Content = setup.first)
    <2>1. CASE setup.first = Nothing
      <3>1. inodes = <<>> /\ file = Nothing /\ held = {}
        BY <2>1 DEF PolicyInit
      <3> QED
        BY <2>1, <3>1 DEF DiskInv
    <2>2. CASE setup.first # Nothing
      <3> DEFINE n == [policy |-> setup.first, mtime |-> 0]
      <3>1. inodes = <<n>> /\ file = 1 /\ held = {<<1, 0, setup.first>>}
        BY <2>2 DEF PolicyInit
      <3>2. n \in Inode /\ setup.first \in Policy
        BY <1>0, <2>2 DEF Inode
      <3>3. inodes \in Seq(Inode) /\ DOMAIN inodes = {1} /\ inodes[1] = n
        BY <3>1, <3>2
      <3>4. Content = setup.first /\ Mtime = 0
        BY <3>1, <3>3, Distinct DEF Content, Mtime
      <3>5. temp # 1
        BY <1>0, Distinct
      <3>6. DiskInv
        BY <1>0, <3>1, <3>3, <3>4, <3>5, Distinct DEF DiskInv
      <3> QED
        BY <1>0, <3>1, <3>2, <3>3, <3>4, <3>6
    <2> QED
      BY <2>1, <2>2
  <1>3. OnDisk
    BY <1>0, <1>2 DEF OnDisk
  <1>4. \A a \in Admins \cup Gateways : Fits(a, Rest)
    BY DEF Fits, Rest
  <1>5. Asked
    BY <1>0, <1>1, <1>4, Fresh DEF Asked, NoCache
  <1>6. \A g \in Gateways : job[g].at = "idle" /\ job[g].ask = Nothing /\ cache[g].policy = Nothing
    BY <1>0, <1>1 DEF Rest, NoCache
  <1>7. CacheInv /\ Judged /\ Unjudged
    BY <1>0, <1>6 DEF CacheInv, Judged, Unjudged, Decided, At
  <1>8. Alone /\ \A a \in Admins \cup Gateways : Works(job[a])
    BY <1>1 DEF Alone, Works, Writing, Rest
  <1>9. Versions
    <2>1. ASSUME NEW e \in held, e[3] # Torn PROVE Content # Torn /\ e[3].version <= Content.version
      <3>1. e[3] \in Policy /\ e = <<file, Mtime, Content>>
        BY <1>2, <1>3, <2>1, Entries DEF DiskInv
      <3>2. e[3] = Content
        BY <3>1
      <3> QED
        BY <3>1, <3>2, Distinct DEF Policy
    <2> QED
      BY <1>2, <2>1 DEF Versions
  <1>10. RaceInv
    BY <1>0, <1>2, <1>8, <1>9, Distinct DEF RaceInv
  <1> QED
    BY <1>2, <1>3, <1>5, <1>7, <1>10 DEF PolicyInv, Sorts

LEMMA PolicyKept == PolicyInv /\ [PolicyNext]_policyVars => PolicyInv'
  <1> SUFFICES ASSUME PolicyInv, [PolicyNext]_policyVars PROVE PolicyInv'
    OBVIOUS
  <1> USE DEF PolicyInv
  <1>1. CASE PolicyNext
    BY <1>1, SortsKept, CacheKept, JudgedKept, RaceKept, UnjudgedKept
  <1>2. CASE UNCHANGED policyVars
    <2>1. UNCHANGED <<setup, file, temp, inodes, clock, job, cache, judged, seen, held, audited, raced>>
      BY <1>2 DEF policyVars, disk
    <2>2. Sorts'
      BY <2>1 DEF Sorts, OnDisk, Asked, Fits
    <2>3. DiskInv'
      BY <2>1 DEF DiskInv, Mtime, Content
    <2>4. CacheInv'
      BY <2>1 DEF CacheInv, Named, Goes, Twofold
    <2>5. Judged'
      BY <2>1 DEF Judged, Decided, At, Blurred
    <2>6. Unjudged'
      BY <2>1 DEF Unjudged, Decided, At
    <2>7. RaceInv'
      BY <2>1 DEF RaceInv, Alone, Works, Newer, Versions, Content, Writing
    <2> QED
      BY <2>2, <2>3, <2>4, <2>5, <2>6, <2>7
  <1> QED
    BY <1>1, <1>2

LEMMA PolicyHolds == PolicySpec => []PolicyInv
  <1> QED
    BY PolicyStart, PolicyKept, PTL DEF PolicySpec

\* Whatever the steps of threads and gateways, a save finds the inode it has opened, a load a policy
\* or the torn remains of one, and a cache holds a policy or nothing.
THEOREM PolicyTypesHold == PolicySpec => []PolicyTypes
  <1>1. PolicyInv => PolicyTypes
    <2> SUFFICES ASSUME PolicyInv PROVE PolicyTypes
      OBVIOUS
    <2>1. Sorts /\ DOMAIN job = Admins \cup Gateways /\ DOMAIN inodes = 1..Len(inodes)
      BY LenProperties DEF PolicyInv, Sorts, Asked, OnDisk
    <2>2. \A a \in DOMAIN job : /\ At(a, "open") \/ At(a, "write") => job[a].new \in Policy
                                /\ At(a, "write") \/ At(a, "fill") => job[a].fd \in DOMAIN inodes
      BY <2>1, JobSorts DEF Fits, At
    <2>3. file \in {Nothing} \cup 1..Len(inodes) /\ temp \in {Nothing} \cup 1..Len(inodes)
      BY <2>1 DEF Sorts, OnDisk
    <2>4. \A i \in DOMAIN inodes : inodes[i].policy \in Policy \cup {Torn} /\ inodes[i].mtime \in 0..clock
      BY <2>1, Entries DEF Sorts, OnDisk
    <2>5. \A g \in Gateways : cache[g].policy \in Policy \cup {Nothing}
      BY <2>1 DEF Sorts, Asked
    <2> QED
      BY <2>2, <2>3, <2>4, <2>5 DEF PolicyTypes
  <1> QED
    BY <1>1, PolicyHolds, PTL

\* "All instances should converge to the same active policy version": whatever saves, loads, renames
\* and crashes fall between its look at the file's mtime and its load, the policy by which a gateway
\* judges a text is one that the file held meanwhile, unless two files have had the mtime of the one
\* cached; and a text is judged, unless two have been writing at once or the default was written.
THEOREM PolicyVerdicts == PolicySpec => []VerdictFollowsFile
  <1>1. PolicyInv => VerdictFollowsFile
    BY DEF PolicyInv, Judged, Unjudged, VerdictFollowsFile
  <1> QED
    BY <1>1, PolicyHolds, PTL

\* "policy version used for the decision": the versions in the audit logs of all gateways name the
\* policies, as long as no two have been writing at the same time, whatever was saved, and whatever
\* a crash has left of a save.
THEOREM PolicyNames == PolicySpec => []VersionNames
  <1>1. PolicyInv => VersionNames
    <2> SUFFICES ASSUME PolicyInv, ~raced, NEW p \in audited, NEW q \in audited, p.version = q.version PROVE p = q
      BY DEF VersionNames
    <2>1. PICK e \in held : e[3] = p
      BY DEF PolicyInv, Judged
    <2>2. PICK f \in held : f[3] = q
      BY DEF PolicyInv, Judged
    <2>3. p # Torn /\ q # Torn
      BY Distinct DEF PolicyInv, Sorts, Asked
    <2> QED
      BY <2>1, <2>2, <2>3 DEF PolicyInv, RaceInv, Versions
  <1> QED
    BY <1>1, PolicyHolds, PTL

----------------------------------------------------------------------------
\* What a policy leaves of a text.  The steps of the merge and of the cut are taken one
\* after the other: what holds at 0 and is handed on holds at every number, since a set
\* of numbers for which it did not would have a least one.

\* A set of numbers has a least one.
LEMMA NatMin ==
  ASSUME NEW T, T \subseteq Nat, T # {}
  PROVE  \E x \in T : \A y \in T : x <= y
  <1> DEFINE U == {0..n : n \in T}
  <1>1. IsWellFoundedOn(StrictSubsetOrdering(Nat), FiniteSubsetsOf(Nat))
    BY FS_StrictSubsetOrderingWellFounded
  <1>2. \A n \in Nat : IsFiniteSet(0..n) /\ 0..n \subseteq Nat
    BY FS_Interval
  <1>3. U \subseteq FiniteSubsetsOf(Nat) /\ U # {}
    <2>1. \A n \in T : 0..n \in FiniteSubsetsOf(Nat)
      BY <1>2 DEF FiniteSubsetsOf
    <2>2. PICK n \in T : TRUE
      OBVIOUS
    <2>3. 0..n \in U
      OBVIOUS
    <2>4. U \subseteq FiniteSubsetsOf(Nat)
      BY <2>1
    <2> QED
      BY <2>3, <2>4
  <1> HIDE DEF U
  <1>4. PICK u \in U : \A v \in U : ~(<<v, u>> \in StrictSubsetOrdering(Nat))
    BY <1>1, <1>3, WFMin
  <1>5. PICK x \in T : u = 0..x
    BY DEF U
  <1>6. SUFFICES ASSUME NEW y \in T, ~(x <= y) PROVE FALSE
    OBVIOUS
  <1>7. x \in Nat /\ y \in Nat
    OBVIOUS
  <1>8. 0..y \subseteq 0..x /\ 0..y # 0..x /\ 0..y \in U
    <2>1. x \in 0..x /\ x \notin 0..y
      BY <1>6, <1>7
    <2>2. 0..y \subseteq 0..x
      BY <1>6, <1>7
    <2> QED
      BY <2>1, <2>2 DEF U
  <1>9. <<0..y, 0..x>> \in StrictSubsetOrdering(Nat)
    BY <1>2, <1>7, <1>8 DEF StrictSubsetOrdering
  <1> QED
    BY <1>4, <1>5, <1>8, <1>9

\* What holds of 0, and of a number when it does of the one before, holds of all up to k.
LEMMA Upwards ==
  ASSUME NEW k \in Nat, NEW G, 0 \in G, \A n \in 1..k : n - 1 \in G => n \in G
  PROVE  \A n \in 0..k : n \in G
  <1> DEFINE T == (0..k) \ G
  <1>1. SUFFICES ASSUME T # {} PROVE FALSE
    OBVIOUS
  <1>2. PICK n \in T : \A i \in T : n <= i
    <2>1. T \subseteq Nat
      OBVIOUS
    <2> HIDE DEF T
    <2> QED
      BY <1>1, <2>1, NatMin
  <1>3. n \in 1..k /\ n \notin G
    OBVIOUS
  <1>4. n - 1 \in 0..k /\ ~(n <= n - 1)
    BY <1>3
  <1> QED
    BY <1>2, <1>3, <1>4

\* The values from base on, each made of the one before by its own step.
Iterations(k, A, base, step) ==
  {f \in [0..k -> A] : f[0] = base /\ \A n \in 1..k : f[n] = step[n][f[n - 1]]}

\* What is done to a value for one element of a sequence after the other can be done.
LEMMA Iterated ==
  ASSUME NEW k \in Nat, NEW A, NEW base \in A, NEW step \in [1..k -> [A -> A]]
  PROVE  Iterations(k, A, base, step) # {}
  <1> DEFINE Upto(n) == \E f \in [0..n -> A] : f[0] = base /\ \A i \in 1..n : f[i] = step[i][f[i - 1]]
             G == {n \in 0..k : Upto(n)}
  <1>1. 0 \in G
    <2> DEFINE f == [i \in 0..0 |-> base]
    <2>1. f \in [0..0 -> A] /\ f[0] = base
      OBVIOUS
    <2>2. 1..0 = {}
      OBVIOUS
    <2> HIDE DEF f
    <2>3. Upto(0)
      BY <2>1, <2>2
    <2> QED
      BY <2>3
  <1>2. ASSUME NEW n \in 1..k, n - 1 \in G PROVE n \in G
    <2>3. PICK f \in [0..(n - 1) -> A] : f[0] = base /\ \A i \in 1..(n - 1) : f[i] = step[i][f[i - 1]]
      BY <1>2
    <2> DEFINE v == step[n][f[n - 1]]
               g == [i \in 0..n |-> IF i = n THEN v ELSE f[i]]
    <2>1. n - 1 \in 0..(n - 1) /\ n # 0 /\ 0 \in 0..(n - 1) /\ 0 \in 0..n
      OBVIOUS
    <2>4. f[n - 1] \in A /\ step[n] \in [A -> A]
      BY <2>1
    <2>4a. v \in A
      BY <2>4
    <2>a. \A i \in 0..n : i = n \/ i \in 0..(n - 1)
      OBVIOUS
    <2> HIDE DEF v
    <2>5. g \in [0..n -> A] /\ \A i \in 0..n : g[i] = IF i = n THEN v ELSE f[i]
      BY <2>4a, <2>a
    <2> HIDE DEF g
    <2>6. g[0] = base
      BY <2>1, <2>3, <2>5
    <2>7. ASSUME NEW i \in 1..n PROVE g[i] = step[i][g[i - 1]]
      <3>1. i - 1 \in 0..n /\ i - 1 # n /\ i \in 0..n
        OBVIOUS
      <3>2. g[i - 1] = f[i - 1]
        BY <2>5, <3>1
      <3>3. CASE i = n
        BY <2>5, <3>1, <3>2, <3>3 DEF v
      <3>4. CASE i # n
        <4>1. i \in 1..(n - 1)
          BY <3>4
        <4> QED
          BY <2>3, <2>5, <3>1, <3>2, <3>4, <4>1
      <3> QED
        BY <3>3, <3>4
    <2>8. Upto(n)
      BY <2>5, <2>6, <2>7
    <2> QED
      BY <2>8
  <1> HIDE DEF G
  <1>3. \A n \in 0..k : n \in G
    BY <1>1, <1>2, Upwards
  <1>4. k \in G
    BY <1>3
  <1> QED
    BY <1>4 DEF G, Iterations

\* From a place to a place.
Span == Nat \X Nat

\* sorted() puts every span somewhere, and no span before one that starts earlier.
LEMMA SortedFacts ==
  ASSUME NEW P, IsFiniteSet(P), P \subseteq Span
  PROVE  /\ Cardinality(P) \in Nat
         /\ Sorted(P) \in [1..Cardinality(P) -> P]
         /\ \A s \in P : \E n \in 1..Cardinality(P) : Sorted(P)[n] = s
         /\ \A i, j \in 1..Cardinality(P) : i < j => Sorted(P)[i][1] <= Sorted(P)[j][1]
  <1> DEFINE c == Cardinality(P)
             below(s) == {t \in P : Before(t, s)}
             rank == [s \in P |-> Cardinality(below(s))]
  <1>1. c \in Nat
    BY FS_CardinalityType
  <1>2. \A s \in P : s[1] \in Nat /\ s[2] \in Nat /\ s = <<s[1], s[2]>>
    BY DEF Span
  <1>3. /\ \A s, t \in P : s # t => Before(s, t) \/ Before(t, s)
        /\ \A s \in P : ~Before(s, s)
        /\ \A r, s, t \in P : Before(r, s) /\ Before(s, t) => Before(r, t)
    BY <1>2 DEF Before
  <1>4. ASSUME NEW s \in P PROVE rank[s] \in 0..(c - 1)
    <2>1. below(s) \in SUBSET P /\ below(s) # P
      BY <1>3
    <2>2. IsFiniteSet(below(s)) /\ Cardinality(below(s)) <= c /\ Cardinality(below(s)) # c
      BY <2>1, FS_Subset
    <2>3. Cardinality(below(s)) \in Nat
      BY <2>2, FS_CardinalityType
    <2> QED
      BY <1>1, <2>2, <2>3
  <1>5. ASSUME NEW s \in P, NEW t \in P, Before(s, t) PROVE rank[s] < rank[t]
    <2>1. below(s) \in SUBSET below(t) /\ s \in below(t) /\ s \notin below(s) /\ below(t) \in SUBSET P
      BY <1>3, <1>5
    <2>2. IsFiniteSet(below(t))
      BY <2>1, FS_Subset
    <2>3. Cardinality(below(s)) <= Cardinality(below(t)) /\ Cardinality(below(s)) # Cardinality(below(t))
      BY <2>1, <2>2, FS_Subset
    <2>4. rank[s] \in Nat /\ rank[t] \in Nat
      BY <1>1, <1>4
    <2> QED
      BY <2>3, <2>4
  <1>6. \A s \in P : rank[s] = Cardinality(below(s)) /\ below(s) = {t \in P : Before(t, s)}
    OBVIOUS
  <1>6a. \A s \in P : rank[s] \in 0..(c - 1)
    BY <1>4
  <1>6b. \A s, t \in P : Before(s, t) => rank[s] < rank[t]
    BY <1>5
  <1>6c. rank \in [P -> 0..(c - 1)]
    BY <1>6a
  <1> HIDE DEF rank, below, c
  <1>7. \A s, t \in P : s # t => rank[s] # rank[t]
    BY <1>1, <1>3, <1>6a, <1>6b
  <1>8. rank \in Injection(P, 0..(c - 1))
    BY <1>6c, <1>7 DEF Injection, IsInjective
  <1>9. IsFiniteSet(0..(c - 1)) /\ Cardinality(0..(c - 1)) = c
    <2>1. 0 \in Int /\ c - 1 \in Int
      BY <1>1
    <2> QED
      BY <1>1, <2>1, FS_Interval
  <1>10. rank \in Surjection(P, 0..(c - 1))
    BY <1>8, <1>9, FS_Injection DEF c
  <1>11. ASSUME NEW n \in 1..c PROVE \E s \in P : rank[s] = n - 1
    <2>1. n - 1 \in 0..(c - 1)
      BY <1>1
    <2> QED
      BY <1>10, <2>1 DEF Surjection
  <1>12. ASSUME NEW n \in 1..c PROVE Sorted(P)[n] \in P /\ rank[Sorted(P)[n]] = n - 1
    <2> DEFINE Nth(s) == Cardinality({t \in P : Before(t, s)}) = n - 1
    <2>1. \E s \in P : Nth(s)
      <3>1. PICK s \in P : rank[s] = n - 1
        BY <1>11
      <3>2. rank[s] = Cardinality(below(s)) /\ below(s) = {t \in P : Before(t, s)}
        BY <1>6
      <3> QED
        BY <3>1, <3>2
    <2>2. Sorted(P)[n] = CHOOSE s \in P : Nth(s)
      BY DEF Sorted, c
    <2> HIDE DEF Nth
    <2>3. Sorted(P)[n] \in P /\ Nth(Sorted(P)[n])
      BY <2>1, <2>2
    <2> QED
      BY <1>6, <2>3 DEF Nth
  <1>13. Sorted(P) \in [1..c -> P]
    BY <1>12 DEF Sorted, c
  <1>14. ASSUME NEW s \in P PROVE \E n \in 1..c : Sorted(P)[n] = s
    <2>1. rank[s] + 1 \in 1..c /\ (rank[s] + 1) - 1 = rank[s]
      BY <1>1, <1>6a
    <2>2. Sorted(P)[rank[s] + 1] = s
      BY <1>7, <1>12, <2>1
    <2> QED
      BY <2>1, <2>2
  <1>15. ASSUME NEW i \in 1..c, NEW j \in 1..c, i < j PROVE Sorted(P)[i][1] <= Sorted(P)[j][1]
    <2>1. Sorted(P)[i] \in P /\ Sorted(P)[j] \in P
      BY <1>12
    <2>2. rank[Sorted(P)[i]] < rank[Sorted(P)[j]]
      BY <1>12, <1>15
    <2>3. ~(rank[Sorted(P)[j]] < rank[Sorted(P)[i]])
      BY <1>1, <1>6a, <2>1, <2>2
    <2>4. ~Before(Sorted(P)[j], Sorted(P)[i])
      BY <1>6b, <2>1, <2>3
    <2> QED
      BY <1>2, <2>1, <2>4 DEF Before
  <1> QED
    BY <1>1, <1>13, <1>14, <1>15 DEF c

\* A place of a span; the spans of a text of some size; spans one after the other, with
\* places in between.
Within(n, s) == n \in s[1] + 1..s[2]
Spans(size) == {s \in (0..size) \X (0..size) : s[1] <= s[2]}
Apart(m) == \A k \in 1..Len(m), j \in 1..Len(m) : j < k => m[j][2] < m[k][1]
Found(n, m) == \E k \in 1..Len(m) : Within(n, m[k])

LEMMA SpanFacts ==
  ASSUME NEW size \in Nat, NEW s \in Spans(size)
  PROVE  s[1] \in 0..size /\ s[2] \in 0..size /\ s[1] <= s[2] /\ s = <<s[1], s[2]>> /\ s \in Span
  BY DEF Spans, Span

\* A span that is joined is found beside the others, and keeps them apart, when it does not
\* start before the last one.
LEMMA JoinedFacts ==
  ASSUME NEW size \in Nat, NEW m \in Seq(Spans(size)), NEW s \in Spans(size), Apart(m),
         m # <<>> => m[Len(m)][1] <= s[1]
  PROVE  LET w == Joined(m, s)
         IN  /\ w \in Seq(Spans(size)) /\ Apart(w) /\ w # <<>> /\ w[Len(w)][1] <= s[1]
             /\ \A n \in Nat : Found(n, w) <=> Found(n, m) \/ Within(n, s)
  <1> DEFINE w == Joined(m, s)
             l == Len(m)
  <1>1. /\ l \in Nat /\ (m # <<>> => l \in 1..l) /\ (m = <<>> => l = 0) /\ m \in [1..l -> Spans(size)]
        /\ \A k \in 1..l : m[k] \in Spans(size)
    BY LenProperties, ElementOfSeq
  <1>2. s[1] \in 0..size /\ s[2] \in 0..size /\ s[1] <= s[2]
    BY SpanFacts
  <1>3. \A k \in 1..l : m[k][1] \in 0..size /\ m[k][2] \in 0..size /\ m[k][1] <= m[k][2] /\ m[k] = <<m[k][1], m[k][2]>>
    BY <1>1, SpanFacts
  <1>4. CASE m = <<>> \/ s[1] > m[Len(m)][2]
    <2>1. w = Append(m, s)
      BY <1>4 DEF Joined
    <2> HIDE DEF w
    <2>2. /\ w \in Seq(Spans(size)) /\ w # <<>> /\ Len(w) = l + 1 /\ w[l + 1] = s
          /\ \A k \in 1..l : w[k] = m[k]
      BY <2>1, AppendProperties
    <2> HIDE DEF l
    <2>3. \A k \in 1..l : m[k][2] < s[1]
      <3>1. SUFFICES ASSUME NEW k \in 1..l PROVE m[k][2] < s[1]
        OBVIOUS
      <3>2. m # <<>> /\ l \in 1..l /\ s[1] > m[l][2]
        BY <1>1, <1>4 DEF l
      <3>3. CASE k = l
        BY <1>2, <1>3, <3>2, <3>3
      <3>4. CASE k # l
        <4>1. k < l
          BY <1>1, <3>2, <3>4
        <4>2. m[k][2] < m[l][1]
          BY <3>2, <4>1 DEF Apart, l
        <4> QED
          BY <1>2, <1>3, <3>2, <4>2
      <3> QED
        BY <3>3, <3>4
    <2>4. \A k \in 1..Len(w) : k \in 1..l \/ k = l + 1
      BY <1>1, <2>2
    <2>5. Apart(w)
      <3>1. SUFFICES ASSUME NEW k \in 1..Len(w), NEW j \in 1..Len(w), j < k PROVE w[j][2] < w[k][1]
        BY DEF Apart
      <3>2. j \in 1..l
        BY <1>1, <2>2, <3>1
      <3>3. CASE k \in 1..l
        BY <2>2, <3>1, <3>2, <3>3 DEF Apart, l
      <3>4. CASE k = l + 1
        BY <2>2, <2>3, <3>2, <3>4
      <3> QED
        BY <2>4, <3>3, <3>4
    <2>6. w[Len(w)][1] <= s[1]
      BY <1>2, <2>2
    <2>7. ASSUME NEW n \in Nat PROVE Found(n, w) <=> Found(n, m) \/ Within(n, s)
      <3>1. l + 1 \in 1..Len(w) /\ \A k \in 1..l : k \in 1..Len(w)
        BY <1>1, <2>2
      <3> QED
        BY <2>2, <2>4, <3>1 DEF Found, l
    <2> QED
      BY <2>2, <2>5, <2>6, <2>7 DEF w
  <1>5. CASE m # <<>> /\ ~(s[1] > m[Len(m)][2])
    <2> DEFINE e == IF s[2] > m[l][2] THEN s[2] ELSE m[l][2]
    <2>1. l \in 1..l
      BY <1>1, <1>5
    <2>2. m[l][1] <= s[1] /\ s[1] <= m[l][2] /\ e \in 0..size /\ m[l][1] <= e /\ s[2] <= e /\ m[l][2] <= e /\ e \in {s[2], m[l][2]}
      BY <1>2, <1>3, <1>5, <2>1
    <2>3. w = [m EXCEPT ![l] = <<m[l][1], e>>]
      BY <1>5 DEF Joined
    <2> HIDE DEF e, w
    <2>4. <<m[l][1], e>> \in Spans(size)
      BY <1>3, <2>1, <2>2 DEF Spans
    <2>5. /\ w \in Seq(Spans(size)) /\ Len(w) = l /\ w[l] = <<m[l][1], e>>
          /\ \A k \in 1..l : k # l => w[k] = m[k]
      <3>1. w \in Seq(Spans(size)) /\ Len(w) = l
        BY <2>1, <2>3, <2>4, ExceptSeq
      <3> QED
        BY <1>1, <2>1, <2>3, <3>1
    <2> HIDE DEF l
    <2>6. w # <<>> /\ w[Len(w)][1] <= s[1]
      BY <2>1, <2>2, <2>5
    <2>7. Apart(w)
      <3>1. SUFFICES ASSUME NEW k \in 1..l, NEW j \in 1..l, j < k PROVE w[j][2] < w[k][1]
        BY <2>5 DEF Apart
      <3>2. j # l
        BY <1>1, <3>1
      <3>3. m[j][2] < m[k][1]
        BY <3>1 DEF Apart, l
      <3>4. w[j] = m[j] /\ w[k][1] = m[k][1]
        BY <2>5, <3>2
      <3> QED
        BY <3>3, <3>4
    <2>8. ASSUME NEW n \in Nat PROVE Found(n, w) <=> Found(n, m) \/ Within(n, s)
      <3>1. Within(n, w[l]) <=> Within(n, m[l]) \/ Within(n, s)
        <4>1. w[l][1] = m[l][1] /\ w[l][2] = e
          BY <2>5
        <4>2. m[l][1] \in 0..size /\ m[l][2] \in 0..size
          BY <1>3, <2>1
        <4> DEFINE a == m[l][1]
                   b == m[l][2]
        <4>3. a \in Nat /\ b \in Nat /\ e \in Nat /\ s[1] \in Nat /\ s[2] \in Nat
          BY <1>2, <2>2, <4>2
        <4>4. a <= s[1] /\ s[1] <= b /\ s[2] <= e /\ b <= e /\ e \in {s[2], b}
          BY <2>2
        <4> HIDE DEF a, b
        <4>5. n \in a + 1..e <=> n \in a + 1..b \/ n \in s[1] + 1..s[2]
          BY <4>3, <4>4
        <4> QED
          BY <4>1, <4>5 DEF Within, a, b
      <3> QED
        BY <2>1, <2>5, <3>1 DEF Found, l
    <2> QED
      BY <2>5, <2>6, <2>7, <2>8 DEF w
  <1> QED
    BY <1>4, <1>5

\* What has been merged is what is found by one span or another, in spans that are apart.
LEMMA MergedFacts ==
  ASSUME NEW size \in Nat, NEW P, P \subseteq Spans(size)
  PROVE  /\ Merged(P) \in Seq(Spans(size)) /\ Apart(Merged(P))
         /\ \A n \in Nat : Found(n, Merged(P)) <=> \E s \in P : Within(n, s)
  <1> DEFINE c == Cardinality(P)
             A == Seq(Span)
             step == [n \in 1..c |-> [m \in A |-> Joined(m, Sorted(P)[n])]]
             next(f) == [n \in 0..c |-> IF n = 0 THEN <<>> ELSE Joined(f[n - 1], Sorted(P)[n])]
             merged == CHOOSE f : f = next(f)
  <1>1. IsFiniteSet(P) /\ P \subseteq Span
    <2>1. IsFiniteSet(0..size)
      BY FS_Interval
    <2>2. IsFiniteSet((0..size) \X (0..size))
      BY <2>1, FS_Product
    <2>3. P \in SUBSET ((0..size) \X (0..size))
      BY DEF Spans
    <2> QED
      BY <2>2, <2>3, FS_Subset, SpanFacts
  <1>2. /\ c \in Nat /\ Sorted(P) \in [1..c -> P]
        /\ \A s \in P : \E n \in 1..c : Sorted(P)[n] = s
        /\ \A i, j \in 1..c : i < j => Sorted(P)[i][1] <= Sorted(P)[j][1]
    BY <1>1, SortedFacts
  <1>3. step \in [1..c -> [A -> A]]
    <2>1. SUFFICES ASSUME NEW m \in A, NEW s \in Span PROVE Joined(m, s) \in A
      BY <1>1, <1>2
    <2>2. CASE m = <<>> \/ s[1] > m[Len(m)][2]
      BY <2>2, AppendProperties DEF Joined
    <2>3. CASE ~(m = <<>> \/ s[1] > m[Len(m)][2])
      <3> DEFINE b == m[Len(m)]
                 e == <<b[1], IF s[2] > b[2] THEN s[2] ELSE b[2]>>
      <3>1. Len(m) \in 1..Len(m)
        BY <2>3, EmptySeq, LenProperties
      <3>2. b \in Span
        BY <3>1, ElementOfSeq
      <3>3. e \in Span
        BY <3>2 DEF Span
      <3>4. Joined(m, s) = [m EXCEPT ![Len(m)] = e]
        BY <2>3 DEF Joined
      <3> QED
        BY <3>1, <3>3, <3>4, ExceptSeq
    <2> QED
      BY <2>2, <2>3
  <1>4. Merged(P) = merged[c]
    BY DEF Merged
  <1> HIDE DEF c
  <1>5. merged = next(merged)
    <2> DEFINE base == <<>>
    <2>1. base \in A
      OBVIOUS
    <2> HIDE DEF A, step, base
    <2>2. Iterations(c, A, base, step) # {}
      BY <1>2, <1>3, <2>1, Iterated
    <2>3. PICK f \in [0..c -> A] : f[0] = base /\ \A n \in 1..c : f[n] = step[n][f[n - 1]]
      BY <2>2 DEF Iterations
    <2>5. ASSUME NEW n \in 0..c PROVE f[n] = IF n = 0 THEN <<>> ELSE Joined(f[n - 1], Sorted(P)[n])
      <3>1. CASE n # 0
        <4>1. n \in 1..c /\ n - 1 \in 0..c
          BY <1>2, <3>1
        <4>2. f[n - 1] \in A
          BY <2>3, <4>1
        <4> QED
          BY <2>3, <3>1, <4>1, <4>2 DEF step
      <3> QED
        BY <2>3, <3>1 DEF base
    <2>4. f = next(f)
      BY <2>5
    <2> HIDE DEF next
    <2> QED
      BY <2>4
  <1> HIDE DEF merged
  <1>6. /\ merged[0] = <<>>
        /\ \A n \in 1..c : merged[n] = Joined(merged[n - 1], Sorted(P)[n])
    BY <1>2, <1>5
  <1> DEFINE Done(i) ==
               /\ merged[i] \in Seq(Spans(size)) /\ Apart(merged[i])
               /\ \A n \in Nat : Found(n, merged[i]) <=> \E j \in 1..i : Within(n, Sorted(P)[j])
               /\ \A j \in i + 1..c : merged[i] # <<>> => merged[i][Len(merged[i])][1] <= Sorted(P)[j][1]
             G == {i \in 0..c : Done(i)}
  <1>7. 0 \in G
    <2>1. merged[0] = <<>> /\ Len(<<>>) = 0 /\ 1..0 = {} /\ <<>> \in Seq(Spans(size))
      BY <1>6
    <2>2. Apart(<<>>) /\ \A n \in Nat : ~Found(n, <<>>)
      BY DEF Apart, Found
    <2>3. 0 \in 0..c /\ ~\E j \in 1..0 : Within(j, Sorted(P)[j])
      BY <1>2, <2>1
    <2> QED
      BY <2>1, <2>2, <2>3
  <1>8. ASSUME NEW i \in 1..c, i - 1 \in G PROVE i \in G
    <2> DEFINE m == merged[i - 1]
               s == Sorted(P)[i]
               w == merged[i]
    <2>1. /\ m \in Seq(Spans(size)) /\ Apart(m)
          /\ \A n \in Nat : Found(n, m) <=> \E j \in 1..(i - 1) : Within(n, Sorted(P)[j])
          /\ \A j \in (i - 1) + 1..c : m # <<>> => m[Len(m)][1] <= Sorted(P)[j][1]
      <3>1. Done(i - 1)
        <4> HIDE DEF Done
        <4> QED
          BY <1>8
      <3> QED
        BY <3>1
    <2>1a. i \in (i - 1) + 1..c
      BY <1>2
    <2>2. s \in Spans(size) /\ (m # <<>> => m[Len(m)][1] <= s[1]) /\ w = Joined(m, s)
      BY <1>2, <1>6, <2>1, <2>1a
    <2> HIDE DEF m, s, w
    <2>3. /\ w \in Seq(Spans(size)) /\ Apart(w) /\ w # <<>> /\ w[Len(w)][1] <= s[1]
          /\ \A n \in Nat : Found(n, w) <=> Found(n, m) \/ Within(n, s)
      BY <2>1, <2>2, JoinedFacts
    <2>4. \A n \in Nat : Found(n, w) <=> \E j \in 1..i : Within(n, Sorted(P)[j])
      <3>1. \A j \in 1..i : j \in 1..(i - 1) \/ j = i
        OBVIOUS
      <3>2. i \in 1..i /\ \A j \in 1..(i - 1) : j \in 1..i
        OBVIOUS
      <3> QED
        BY <2>1, <2>3, <3>1, <3>2 DEF s
    <2>5. ASSUME NEW j \in i + 1..c PROVE w[Len(w)][1] <= Sorted(P)[j][1]
      <3>1. j \in 1..c /\ i < j
        OBVIOUS
      <3>2. s[1] <= Sorted(P)[j][1]
        BY <1>2, <3>1 DEF s
      <3>3. w[Len(w)] \in Spans(size) /\ Sorted(P)[j] \in Spans(size)
        BY <1>2, <2>3, <3>1, EmptySeq, LenProperties, ElementOfSeq
      <3>4. w[Len(w)][1] \in Nat /\ s[1] \in Nat /\ Sorted(P)[j][1] \in Nat
        BY <2>2, <3>3, SpanFacts
      <3> QED
        BY <2>3, <3>2, <3>4
    <2> QED
      BY <2>3, <2>4, <2>5 DEF w
  <1> HIDE DEF G
  <1>9. \A n \in 0..c : n \in G
    BY <1>2, <1>7, <1>8, Upwards
  <1>10. c \in G
    BY <1>2, <1>9
  <1> QED
    BY <1>2, <1>4, <1>10 DEF G

\* Places in their order, marks apart; and which they are.
Rising(o) == \A i, j \in 1..Len(o) : i < j /\ o[i] # 0 /\ o[j] # 0 => o[i] < o[j]
Left(o) == {o[i] : i \in 1..Len(o)} \ {0}

LEMMA ConcatLeft ==
  ASSUME NEW a \in Seq(Nat), NEW b \in Seq(Nat), NEW c \in Nat, Rising(a), Rising(b),
         \A n \in Left(a) : n <= c, \A n \in Left(b) : c < n
  PROVE  a \o b \in Seq(Nat) /\ Rising(a \o b) /\ Left(a \o b) = Left(a) \cup Left(b)
  <1> DEFINE w == a \o b
             l == Len(a)
             k == Len(b)
  <1>1. /\ l \in Nat /\ k \in Nat /\ w \in Seq(Nat) /\ Len(w) = l + k
        /\ \A i \in 1..l + k : w[i] = IF i <= l THEN a[i] ELSE b[i - l]
    BY LenProperties, ConcatProperties
  <1> HIDE DEF w
  <1>2. (\A i \in 1..l : a[i] \in Nat) /\ \A i \in 1..k : b[i] \in Nat
    BY ElementOfSeq
  <1>3. /\ \A i \in 1..l : a[i] # 0 => a[i] <= c
        /\ \A i \in 1..k : b[i] # 0 => c < b[i]
    BY DEF Left
  <1>4. /\ \A i, j \in 1..l : i < j /\ a[i] # 0 /\ a[j] # 0 => a[i] < a[j]
        /\ \A i, j \in 1..k : i < j /\ b[i] # 0 /\ b[j] # 0 => b[i] < b[j]
    BY DEF Rising
  <1>5. ASSUME NEW i \in 1..l + k PROVE (i \in 1..l /\ w[i] = a[i]) \/ (i \notin 1..l /\ i - l \in 1..k /\ w[i] = b[i - l])
    BY <1>1
  <1> HIDE DEF l, k
  <1>6. ASSUME NEW i \in 1..l + k, NEW j \in 1..l + k, i < j, w[i] # 0, w[j] # 0 PROVE w[i] < w[j]
    <2>1. CASE i \in 1..l /\ j \in 1..l
      BY <1>4, <1>5, <1>6, <2>1
    <2>2. CASE i \in 1..l /\ j \notin 1..l
      <3>1. w[i] = a[i] /\ w[j] = b[j - l] /\ j - l \in 1..k
        BY <1>5, <2>2
      <3>2. w[i] <= c /\ c < w[j] /\ w[i] \in Nat /\ w[j] \in Nat
        BY <1>2, <1>3, <1>6, <2>2, <3>1
      <3> QED
        BY <3>2
    <2>3. CASE i \notin 1..l
      <3>1. j \notin 1..l
        BY <1>1, <1>6, <2>3
      <3>2. w[i] = b[i - l] /\ i - l \in 1..k /\ w[j] = b[j - l] /\ j - l \in 1..k /\ i - l < j - l
        BY <1>1, <1>5, <1>6, <2>3, <3>1
      <3> QED
        BY <1>4, <1>6, <3>2
    <2> QED
      BY <2>1, <2>2, <2>3
  <1>7. Rising(w)
    BY <1>1, <1>6 DEF Rising
  <1>8. Left(w) = Left(a) \cup Left(b)
    <2>1. ASSUME NEW n \in Left(w) PROVE n \in Left(a) \cup Left(b)
      <3>1. PICK i \in 1..l + k : n = w[i] /\ n # 0
        BY <1>1 DEF Left
      <3> QED
        BY <1>5, <3>1 DEF Left, l, k
    <2>2. ASSUME NEW n \in Left(a) PROVE n \in Left(w)
      <3>1. PICK i \in 1..l : n = a[i] /\ n # 0
        BY DEF Left, l
      <3>2. i \in 1..l + k /\ w[i] = n
        BY <1>1, <3>1
      <3> QED
        BY <1>1, <3>1, <3>2 DEF Left
    <2>3. ASSUME NEW n \in Left(b) PROVE n \in Left(w)
      <3>1. PICK i \in 1..k : n = b[i] /\ n # 0
        BY DEF Left, k
      <3>2. i + l \in 1..l + k /\ ~(i + l <= l) /\ (i + l) - l = i
        BY <1>1
      <3>3. w[i + l] = n
        BY <1>1, <3>1, <3>2
      <3> QED
        BY <1>1, <3>1, <3>2, <3>3 DEF Left
    <2> QED
      BY <2>1, <2>2, <2>3
  <1> QED
    BY <1>1, <1>7, <1>8 DEF w

LEMMA ChunkLeft ==
  ASSUME NEW i \in Nat, NEW j \in Nat, i <= j
  PROVE  /\ Chunk(i, j) \in Seq(Nat) /\ Rising(Chunk(i, j)) /\ Left(Chunk(i, j)) = i + 1..j
         /\ Len(Chunk(i, j)) = j - i /\ DOMAIN Chunk(i, j) = 1..j - i /\ \A n \in 1..j - i : Chunk(i, j)[n] = i + n
  <1> DEFINE w == Chunk(i, j)
             d == j - i
  <1>1. d \in Nat /\ w = [n \in 1..d |-> i + n]
    BY DEF Chunk
  <1>2. \A n \in 1..d : i + n \in Nat /\ i + n # 0
    BY <1>1
  <1> HIDE DEF w, d
  <1>3. w \in Seq(Nat) /\ Len(w) = d /\ DOMAIN w = 1..d /\ \A n \in 1..d : w[n] = i + n
    BY <1>1, <1>2
  <1>4. Rising(w)
    BY <1>1, <1>3 DEF Rising
  <1>5. Left(w) = i + 1..j
    <2>1. ASSUME NEW n \in i + 1..j PROVE n \in Left(w)
      <3>1. n - i \in 1..d /\ i + (n - i) = n /\ n # 0
        BY DEF d
      <3> QED
        BY <1>3, <3>1 DEF Left
    <2>2. ASSUME NEW n \in Left(w) PROVE n \in i + 1..j
      <3>1. PICK k \in 1..d : n = i + k
        BY <1>3 DEF Left
      <3> QED
        BY <3>1 DEF d
    <2> QED
      BY <2>1, <2>2
  <1> QED
    BY <1>3, <1>4, <1>5 DEF w, d

\* What is put out up to the end of a span.
LEMMA CutFacts ==
  ASSUME NEW c, NEW size \in Nat, NEW s \in Spans(size), c.out \in Seq(Nat), c.cursor \in Nat, c.cursor <= s[1],
         Rising(c.out), \A n \in Left(c.out) : n <= c.cursor
  PROVE  LET d == Cut(c, s)
         IN  /\ d.out \in Seq(Nat) /\ d.cursor = s[2] /\ Rising(d.out)
             /\ Left(d.out) = Left(c.out) \cup (c.cursor + 1..s[1])
  <1> DEFINE o == c.out
             k == c.cursor
             h == Chunk(k, s[1])
             m == <<0>>
  <1>1. s[1] \in Nat /\ s[2] \in Nat /\ s[1] <= s[2]
    BY SpanFacts
  <1>2. h \in Seq(Nat) /\ Rising(h) /\ Left(h) = k + 1..s[1]
    BY <1>1, ChunkLeft
  <1>3. m \in Seq(Nat) /\ Rising(m) /\ Left(m) = {}
    BY DEF Rising, Left
  <1>4. o \in Seq(Nat) /\ k \in Nat /\ Rising(o) /\ k <= s[1] /\ \A n \in Left(o) : n <= k
    OBVIOUS
  <1>5. Cut(c, s).out = (o \o h) \o m /\ Cut(c, s).cursor = s[2]
    BY <1>2, <1>3 DEF Cut
  <1> HIDE DEF o, k, h, m
  <1>6. \A n \in Left(h) : k < n /\ n <= s[1]
    BY <1>1, <1>2, <1>4
  <1>7. o \o h \in Seq(Nat) /\ Rising(o \o h) /\ Left(o \o h) = Left(o) \cup Left(h)
    BY <1>2, <1>4, <1>6, ConcatLeft
  <1>8. \A n \in Left(o \o h) : n <= s[1]
    <2>1. \A n \in Left(o) : n \in Nat
      BY <1>4, ElementOfSeq DEF Left
    <2> QED
      BY <1>1, <1>4, <1>6, <1>7, <2>1
  <1>9. (o \o h) \o m \in Seq(Nat) /\ Rising((o \o h) \o m) /\ Left((o \o h) \o m) = Left(o \o h) \cup Left(m)
    BY <1>1, <1>3, <1>7, <1>8, ConcatLeft
  <1> QED
    BY <1>2, <1>3, <1>5, <1>7, <1>9 DEF o, k

\* What is left is the places that no span covers, in their order.
LEMMA MaskedFacts ==
  ASSUME NEW size \in Nat, NEW P, P \subseteq Spans(size)
  PROVE  LET o == Masked(size, P)
         IN  /\ o \in Seq(Nat) /\ Rising(o)
             /\ Left(o) = {n \in 1..size : ~\E s \in P : Within(n, s)}
  <1> DEFINE m == Merged(P)
             l == Len(m)
             start == [out |-> <<>>, cursor |-> 0]
             A == [out : Seq(Nat), cursor : Nat]
             step == [n \in 1..l |-> [c \in A |-> Cut(c, m[n])]]
             next(f) == [n \in 0..l |-> IF n = 0 THEN start ELSE Cut(f[n - 1], m[n])]
             cut == CHOOSE f : f = next(f)
  <1>1. Masked(size, P) = cut[l].out \o Chunk(cut[l].cursor, size)
    BY DEF Masked
  <1>2. /\ m \in Seq(Spans(size)) /\ Apart(m) /\ l \in Nat
        /\ \A n \in Nat : Found(n, m) <=> \E s \in P : Within(n, s)
        /\ \A n \in 1..l : m[n] \in Spans(size)
        /\ \A n \in 1..l : m[n][1] \in 0..size /\ m[n][2] \in 0..size /\ m[n][1] <= m[n][2]
    <2>1. m \in Seq(Spans(size)) /\ Apart(m) /\ \A n \in Nat : Found(n, m) <=> \E s \in P : Within(n, s)
      BY MergedFacts
    <2> HIDE DEF m
    <2>2. l \in Nat /\ \A n \in 1..l : m[n] \in Spans(size)
      BY <2>1, LenProperties, ElementOfSeq
    <2> QED
      BY <2>1, <2>2, SpanFacts
  <1> HIDE DEF m
  <1>3. \A j, k \in 1..l : j < k => m[j][2] < m[k][1]
    BY <1>2 DEF Apart
  <1> HIDE DEF l
  <1>4. step \in [1..l -> [A -> A]]
    <2>1. SUFFICES ASSUME NEW n \in 1..l, NEW c \in A PROVE Cut(c, m[n]) \in A
      OBVIOUS
    <2>2. Chunk(c.cursor, m[n][1]) \in Seq(Nat)
      <3>1. \A i \in 1..(m[n][1] - c.cursor) : c.cursor + i \in Nat
        BY <1>2
      <3>2. m[n][1] - c.cursor \in Int
        BY <1>2
      <3> DEFINE d == m[n][1] - c.cursor
                 e == IF d < 0 THEN 0 ELSE d
      <3>3. e \in Nat /\ 1..d = 1..e
        BY <3>2
      <3>4. Chunk(c.cursor, m[n][1]) = [i \in 1..e |-> c.cursor + i] /\ \A i \in 1..e : c.cursor + i \in Nat
        BY <3>1, <3>3 DEF Chunk
      <3> HIDE DEF e
      <3> QED
        BY <3>3, <3>4
    <2> QED
      BY <1>2, <2>2 DEF Cut
  <1>5. cut = next(cut)
    <2>1. start \in A
      OBVIOUS
    <2> HIDE DEF A, step, start
    <2>2. Iterations(l, A, start, step) # {}
      BY <1>2, <1>4, <2>1, Iterated
    <2>3. PICK f \in [0..l -> A] : f[0] = start /\ \A n \in 1..l : f[n] = step[n][f[n - 1]]
      BY <2>2 DEF Iterations
    <2>4. ASSUME NEW n \in 0..l PROVE f[n] = IF n = 0 THEN start ELSE Cut(f[n - 1], m[n])
      <3>1. CASE n # 0
        <4>1. n \in 1..l /\ n - 1 \in 0..l
          BY <1>2, <3>1
        <4>2. f[n - 1] \in A
          BY <2>3, <4>1
        <4> QED
          BY <2>3, <3>1, <4>1, <4>2 DEF step
      <3> QED
        BY <2>3, <3>1
    <2>5. f = next(f)
      BY <2>4
    <2> HIDE DEF next
    <2> QED
      BY <2>5
  <1> HIDE DEF cut
  <1>6. /\ cut[0] = start
        /\ \A n \in 1..l : cut[n] = Cut(cut[n - 1], m[n])
    BY <1>2, <1>5
  <1> DEFINE Done(k) ==
               /\ cut[k].out \in Seq(Nat) /\ cut[k].cursor \in 0..size /\ Rising(cut[k].out)
               /\ Left(cut[k].out) = {n \in 1..cut[k].cursor : ~\E j \in 1..k : Within(n, m[j])}
               /\ \A j \in 1..k : m[j][2] <= cut[k].cursor
               /\ \A j \in k + 1..l : cut[k].cursor <= m[j][1]
             G == {k \in 0..l : Done(k)}
  <1>7. 0 \in G
    <2>1. cut[0].out = <<>> /\ cut[0].cursor = 0 /\ 1..0 = {} /\ <<>> \in Seq(Nat) /\ Len(<<>>) = 0
      BY <1>6
    <2>2. Rising(<<>>) /\ Left(<<>>) = {}
      BY DEF Rising, Left
    <2>3. {n \in 1..0 : ~\E j \in 1..0 : Within(n, m[j])} = {} /\ \A j \in 1..l : 0 <= m[j][1]
      BY <1>2, <2>1
    <2>4. Done(0)
      BY <2>1, <2>2, <2>3
    <2> HIDE DEF Done
    <2> QED
      BY <1>2, <2>4
  <1>8. ASSUME NEW k \in 1..l, k - 1 \in G PROVE k \in G
    <2> DEFINE c == cut[k - 1]
               s == m[k]
               d == cut[k]
    <2>1. /\ c.out \in Seq(Nat) /\ c.cursor \in 0..size /\ Rising(c.out)
          /\ Left(c.out) = {n \in 1..c.cursor : ~\E j \in 1..(k - 1) : Within(n, m[j])}
          /\ \A j \in 1..(k - 1) : m[j][2] <= c.cursor
          /\ \A j \in (k - 1) + 1..l : c.cursor <= m[j][1]
      <3>1. Done(k - 1)
        <4> HIDE DEF Done
        <4> QED
          BY <1>8
      <3> QED
        BY <3>1
    <2>2. s \in Spans(size) /\ s[1] \in 0..size /\ s[2] \in 0..size /\ s[1] <= s[2] /\ c.cursor <= s[1] /\ d = Cut(c, s)
      <3>1. k \in (k - 1) + 1..l
        BY <1>2
      <3> QED
        BY <1>2, <1>6, <2>1, <3>1
    <2> HIDE DEF c, d
    <2>3. \A n \in Left(c.out) : n <= c.cursor
      BY <2>1
    <2>4. /\ d.out \in Seq(Nat) /\ d.cursor = s[2] /\ Rising(d.out)
          /\ Left(d.out) = Left(c.out) \cup (c.cursor + 1..s[1])
      BY <2>1, <2>2, <2>3, CutFacts
    <2>5. ASSUME NEW n \in 1..s[2] PROVE n \in Left(d.out) <=> ~\E j \in 1..k : Within(n, m[j])
      <3>1. \A j \in 1..k : j \in 1..(k - 1) \/ j = k
        OBVIOUS
      <3>2. k \in 1..k /\ \A j \in 1..(k - 1) : j \in 1..k /\ j \in 1..l
        BY <1>2
      <3>3. CASE n <= c.cursor
        <4>1. ~Within(n, m[k])
          BY <2>1, <2>2, <3>3 DEF Within
        <4>2. n \in 1..c.cursor /\ n \notin c.cursor + 1..s[1]
          BY <2>1, <3>3
        <4> QED
          BY <2>1, <2>4, <3>1, <3>2, <4>1, <4>2
      <3>4. CASE ~(n <= c.cursor)
        <4>1. ASSUME NEW j \in 1..(k - 1) PROVE ~Within(n, m[j])
          BY <1>2, <2>1, <3>2, <3>4 DEF Within
        <4>2. n \notin Left(c.out) /\ (n \in c.cursor + 1..s[1] <=> ~Within(n, s))
          BY <2>1, <2>2, <2>3, <3>4 DEF Within
        <4> QED
          BY <2>4, <3>1, <3>2, <4>1, <4>2
      <3> QED
        BY <3>3, <3>4
    <2>6. Left(d.out) \subseteq 1..s[2]
      BY <2>1, <2>2, <2>4
    <2>7. ASSUME NEW j \in 1..k PROVE m[j][2] <= s[2]
      <3>1. CASE j = k
        BY <2>2, <3>1
      <3>2. CASE j # k
        <4>1. j \in 1..(k - 1) /\ j \in 1..l
          BY <1>2, <3>2
        <4> QED
          BY <1>2, <2>1, <2>2, <4>1
      <3> QED
        BY <3>1, <3>2
    <2>8. ASSUME NEW j \in k + 1..l PROVE s[2] <= m[j][1]
      <3>1. j \in 1..l /\ k < j
        OBVIOUS
      <3>2. m[k][2] < m[j][1]
        BY <1>3, <3>1
      <3> QED
        BY <1>2, <3>1, <3>2
    <2>9. Left(d.out) = {n \in 1..s[2] : ~\E j \in 1..k : Within(n, m[j])}
      BY <2>5, <2>6
    <2> HIDE DEF s
    <2> QED
      BY <2>2, <2>4, <2>7, <2>8, <2>9 DEF d
  <1> HIDE DEF G
  <1>9. \A n \in 0..l : n \in G
    BY <1>2, <1>7, <1>8, Upwards
  <1>10. l \in G
    BY <1>2, <1>9
  <1> DEFINE c == cut[l]
             h == Chunk(c.cursor, size)
  <1>11. /\ c.out \in Seq(Nat) /\ c.cursor \in 0..size /\ Rising(c.out)
         /\ Left(c.out) = {n \in 1..c.cursor : ~Found(n, m)}
         /\ \A j \in 1..l : m[j][2] <= c.cursor
    BY <1>10 DEF G, Found, l
  <1> HIDE DEF c
  <1>12. h \in Seq(Nat) /\ Rising(h) /\ Left(h) = c.cursor + 1..size
    <2>1. c.cursor \in Nat /\ c.cursor <= size
      BY <1>11
    <2> QED
      BY <2>1, ChunkLeft
  <1> HIDE DEF h
  <1>13. (\A n \in Left(c.out) : n <= c.cursor) /\ (\A n \in Left(h) : c.cursor < n)
    BY <1>11, <1>12
  <1>14. c.out \o h \in Seq(Nat) /\ Rising(c.out \o h) /\ Left(c.out \o h) = Left(c.out) \cup Left(h)
    <2>1. c.cursor \in Nat
      BY <1>11
    <2> QED
      BY <1>11, <1>12, <1>13, <2>1, ConcatLeft
  <1>15. ASSUME NEW n \in 1..size PROVE n \in Left(c.out) \cup Left(h) <=> ~Found(n, m)
    <2>1. CASE n <= c.cursor
      BY <1>11, <1>12, <2>1
    <2>2. CASE ~(n <= c.cursor)
      <3>1. ~Found(n, m)
        <4>1. SUFFICES ASSUME NEW j \in 1..l PROVE ~Within(n, m[j])
          BY DEF Found, l
        <4> QED
          BY <1>2, <1>11, <2>2 DEF Within
      <3> QED
        BY <1>11, <1>12, <2>2, <3>1
    <2> QED
      BY <2>1, <2>2
  <1>16. Left(c.out) \cup Left(h) \subseteq 1..size
    BY <1>11, <1>12
  <1>17. Left(c.out \o h) = {n \in 1..size : ~\E s \in P : Within(n, s)}
    BY <1>2, <1>14, <1>15, <1>16
  <1> QED
    BY <1>1, <1>14, <1>17 DEF c, h

\* The action of some hits is that of one of them, and none of the others is stronger.
LEMMA StrongestAction ==
  ASSUME NEW hits, hits \subseteq DOMAIN Rules, hits # {}
  PROVE  /\ Action(hits) \in Actions /\ \E r \in hits : Rules[r].action = Action(hits)
         /\ \A r \in hits : Rank[Rules[r].action] <= Rank[Action(hits)]
  <1> DEFINE actions == {Rules[r].action : r \in hits}
             Has(a) == a \in actions
  <1>1. actions \subseteq Actions /\ actions # {}
    OBVIOUS
  <1>2. Rank["allow"] = 0 /\ Rank["warn"] = 1 /\ Rank["mask"] = 2 /\ Rank["block"] = 3 /\ Rank["escalate"] = 4
    BY DEF Rank
  <1>3. Action(hits) = CHOOSE a \in actions : \A b \in actions : Rank[b] <= Rank[a]
    BY DEF Action
  <1> HIDE DEF actions
  <1>4. \E a \in actions : \A b \in actions : Rank[b] <= Rank[a]
    <2>1. CASE "escalate" \in actions
      BY <1>1, <1>2, <2>1 DEF Actions
    <2>2. CASE "escalate" \notin actions /\ "block" \in actions
      BY <1>1, <1>2, <2>2 DEF Actions
    <2>3. CASE "escalate" \notin actions /\ "block" \notin actions /\ "mask" \in actions
      BY <1>1, <1>2, <2>3 DEF Actions
    <2>4. CASE "escalate" \notin actions /\ "block" \notin actions /\ "mask" \notin actions /\ "warn" \in actions
      BY <1>1, <1>2, <2>4 DEF Actions
    <2>5. CASE actions \subseteq {"allow"}
      <3>1. "allow" \in actions /\ \A b \in actions : b = "allow"
        BY <1>1, <2>5
      <3> QED
        BY <1>2, <3>1
    <2> QED
      BY <1>1, <2>1, <2>2, <2>3, <2>4, <2>5 DEF Actions
  <1>5. Action(hits) \in actions /\ \A b \in actions : Rank[b] <= Rank[Action(hits)]
    BY <1>3, <1>4
  <1> QED
    BY <1>1, <1>5 DEF actions

\* What a policy leaves of a text is what the strictest rule that hits it says.
LEMMA Strictest ==
  ASSUME NEW policy \in Policy, NEW x \in DOMAIN Texts, NEW scope
  PROVE  Due(policy, x, scope)
  <1> DEFINE text == Enforced(policy, x, scope)
             left == {text[i] : i \in DOMAIN text} \ {0}
             hits == Hits(policy, x, scope)
             hit(actions) == \E r \in hits : Rules[r].action \in actions
             found(n) == \E r \in hits : \E s \in Texts[x].spans[r] : n \in s[1] + 1..s[2]
             size == Texts[x].size
             P == UNION {Texts[x].spans[r] : r \in hits}
             whole == Chunk(0, size)
             masked == Masked(size, P)
             InOrder == \A i, j \in DOMAIN text : i < j /\ text[i] # 0 /\ text[j] # 0 => text[i] < text[j]
             Answer == IF policy.mode # "enforce" \/ ~hit({"mask", "block", "escalate"}) THEN text = whole
                    ELSE IF hit({"block", "escalate"}) THEN text = <<>>
                    ELSE \/ left = {n \in 1..size : ~found(n)}
                         \/ text = <<>> /\ scope = "input" /\ Texts[x].persist
  <1>1. size \in Nat /\ hits \subseteq DOMAIN Rules /\ P \subseteq Spans(size)
    <2>1. size \in Nat /\ DOMAIN Texts[x].spans = DOMAIN Rules
      OBVIOUS
    <2>2. hits \subseteq DOMAIN Rules
      BY DEF Hits, Policy
    <2>3. \A r \in hits : Texts[x].spans[r] \subseteq Spans(size)
      BY <2>2 DEF Spans
    <2> HIDE DEF hits
    <2> QED
      BY <2>1, <2>2, <2>3
  <1>2. \A n : found(n) <=> \E s \in P : Within(n, s)
    BY DEF Within
  <1>3. text = IF policy.mode # "enforce" \/ hits = {} THEN whole
               ELSE CASE Action(hits) \in {"block", "escalate"} -> <<>>
                      [] Action(hits) = "mask" -> IF scope = "input" /\ Texts[x].persist THEN <<>> ELSE masked
                      [] OTHER -> whole
    BY DEF Enforced
  <1>4. DOMAIN whole = 1..Len(whole) /\ Rising(whole)
    <2>0. 0 \in Nat /\ size \in Nat /\ 0 <= size
      BY <1>1
    <2> HIDE DEF size
    <2>1. whole \in Seq(Nat) /\ Rising(whole)
      BY <2>0, ChunkLeft
    <2> QED
      BY <2>1, LenProperties
  <1>5. DOMAIN masked = 1..Len(masked) /\ Rising(masked) /\ Left(masked) = {n \in 1..size : ~found(n)}
    <2>1. masked \in Seq(Nat) /\ Rising(masked) /\ Left(masked) = {n \in 1..size : ~\E s \in P : Within(n, s)}
      BY <1>1, MaskedFacts
    <2>2. DOMAIN masked = 1..Len(masked)
      BY <2>1, LenProperties
    <2> HIDE DEF masked, P, found
    <2> QED
      BY <1>2, <2>1, <2>2
  <1> HIDE DEF text, hits, P, whole, masked, size, found
  <1>6. CASE policy.mode # "enforce" \/ hits = {}
    <2>1. text = whole
      BY <1>3, <1>6
    <2>2. InOrder
      BY <1>4, <2>1 DEF Rising
    <2>3. Answer
      BY <1>6, <2>1
    <2> QED
      BY <2>2, <2>3 DEF Due, text, hits, whole, size, found
  <1>7. CASE policy.mode = "enforce" /\ hits # {}
    <2> DEFINE a == Action(hits)
    <2>1. /\ a \in Actions /\ \E r \in hits : Rules[r].action = a
          /\ \A r \in hits : Rank[Rules[r].action] <= Rank[a]
      BY <1>1, <1>7, StrongestAction
    <2> HIDE DEF a
    <2>2. Rank["allow"] = 0 /\ Rank["warn"] = 1 /\ Rank["mask"] = 2 /\ Rank["block"] = 3 /\ Rank["escalate"] = 4
      BY DEF Rank
    <2>3. CASE a \in {"block", "escalate"}
      <3>1. text = <<>> /\ hit({"block", "escalate"}) /\ hit({"mask", "block", "escalate"})
        BY <1>3, <1>7, <2>1, <2>3 DEF a
      <3>2. InOrder /\ Answer
        BY <1>7, <3>1
      <3> QED
        BY <3>2 DEF Due, text, hits, whole, size, found
    <2>4. CASE a = "mask"
      <3>1. hit({"mask", "block", "escalate"}) /\ ~hit({"block", "escalate"})
        BY <2>1, <2>2, <2>4
      <3>2. CASE scope = "input" /\ Texts[x].persist
        <4>1. text = <<>>
          BY <1>3, <1>7, <2>4, <3>2 DEF a
        <4>2. InOrder /\ Answer
          BY <1>7, <3>1, <3>2, <4>1
        <4> QED
          BY <4>2 DEF Due, text, hits, whole, size, found
      <3>3. CASE ~(scope = "input" /\ Texts[x].persist)
        <4>1. text = masked
          BY <1>3, <1>7, <2>4, <3>3 DEF a
        <4>2. InOrder
          BY <1>5, <4>1 DEF Rising
        <4>3. left = {n \in 1..size : ~found(n)}
          BY <1>5, <4>1 DEF Left
        <4>4. Answer
          BY <1>7, <3>1, <4>3
        <4> QED
          BY <4>2, <4>4 DEF Due, text, hits, whole, size, found
      <3> QED
        BY <3>2, <3>3
    <2>5. CASE a \in {"allow", "warn"}
      <3>1. text = whole /\ ~hit({"mask", "block", "escalate"})
        BY <1>3, <1>7, <2>1, <2>2, <2>5 DEF a
      <3>2. InOrder
        BY <1>4, <3>1 DEF Rising
      <3>3. Answer
        BY <3>1
      <3> QED
        BY <3>2, <3>3 DEF Due, text, hits, whole, size, found
    <2> QED
      BY <2>1, <2>3, <2>4, <2>5 DEF Actions
  <1> QED
    BY <1>6, <1>7

\* "off" and "monitor" change nothing; the strictest of the rules that hit a text decides, in whatever
\* order and with whatever overlaps their spans are found: a text that is blocked or escalated has
\* nothing left, a masked one exactly the places that no span covers, in their order, or nothing if
\* it asks to be remembered, and any other text all of it.
THEOREM PolicyMasks == PolicySpec => []StrictestRuleHolds
  <1>1. PolicyInv => StrictestRuleHolds
    <2> SUFFICES ASSUME PolicyInv, NEW g \in Gateways, Decided(g), job[g].policy # Nothing
                 PROVE  Due(job[g].policy, job[g].ask[2], job[g].ask[3])
      BY DEF StrictestRuleHolds
    <2>1. job[g] \in Jobs
      BY JobSorts DEF PolicyInv, Sorts, Asked
    <2>2. job[g].policy \in Policy /\ job[g].ask \in Asks
      BY <2>1 DEF Jobs, Decided
    <2>3. job[g].ask[2] \in DOMAIN Texts
      BY <2>2 DEF Asks
    <2> QED
      BY <2>2, <2>3, Strictest
  <1> QED
    BY <1>1, PolicyHolds, PTL
=============================================================================
