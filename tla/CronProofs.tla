----------------------------- MODULE CronProofs -----------------------------
(***************************************************************************)
(* Facts about CronService for any sets of jobs, schedules and task        *)
(* identities, any bound on the clock and any number of external edits.    *)
(***************************************************************************)
EXTENDS CronService, FiniteSetTheorems, WellFoundedInduction, TLAPS

USE NoJobAssumption, SchedulesAssumption, TickIdsAssumption, BoundsAssumption

\* A first run time always is a number: a delay, an instant or none.
LEMMA NextRunType ==
    ASSUME NEW s \in Schedule, NEW t \in Nat
    PROVE  NextRun(s, t) \in Nat
  <1>1. s.ms \in Nat /\ s.kind \in {"at", "every", "cron"}
    BY DEF Schedule
  <1>2. ASSUME s.kind = "cron", s.ms > 0 PROVE NextRun(s, t) \in Nat
    <2>1. t \div s.ms \in Nat
      BY <1>1, <1>2
    <2>2. (t \div s.ms + 1) * s.ms \in Nat
      BY <1>1, <2>1
    <2> QED
      BY <1>2, <2>2 DEF NextRun
  <1> QED
    BY <1>1, <1>2 DEF NextRun

\* Every non-empty set of naturals has a least element: the intervals below the
\* elements that do not exceed a given one are well ordered by strict inclusion.
LEMMA LeastOfNaturals ==
    ASSUME NEW W \in SUBSET Nat, W # {}
    PROVE  \E w \in W : \A v \in W : w <= v
  <1>1. PICK n \in W : TRUE
    OBVIOUS
  <1> DEFINE T == {0 .. k : k \in {v \in W : v <= n}}
  <1>2. T \subseteq SUBSET (0 .. n) /\ T # {}
    BY <1>1
  <1>3. IsFiniteSet(0 .. n)
    BY <1>1, FS_Interval
  <1>4. PICK x \in T : \A y \in T : <<y, x>> \notin StrictSubsetOrdering(0 .. n)
    <2>1. IsWellFoundedOn(StrictSubsetOrdering(0 .. n), SUBSET (0 .. n))
      BY <1>3, FS_StrictSubsetOrderingWellFounded, FS_FiniteSubsetsOfFinite
    <2> HIDE DEF T
    <2> QED
      BY <1>2, <2>1, WFMin
  <1>5. PICK m \in W : m <= n /\ x = 0 .. m
    OBVIOUS
  <1>6. ASSUME NEW v \in W PROVE m <= v
    <2>1. CASE v > n
      BY <1>1, <1>5, <2>1
    <2>2. CASE v <= n /\ v < m
      <3>1. 0 .. v \in T
        BY <2>2
      <3>2. 0 .. v \subseteq 0 .. m /\ 0 .. v # 0 .. m
        <4>1. m \in 0 .. m /\ m \notin 0 .. v
          BY <1>5, <2>2
        <4> QED
          BY <4>1, <1>5, <2>2
      <3>3. <<0 .. v, x>> \in StrictSubsetOrdering(0 .. n)
        BY <1>2, <1>5, <3>1, <3>2 DEF StrictSubsetOrdering
      <3> QED
        BY <1>4, <3>1, <3>3
    <2> QED
      BY <1>1, <1>5, <2>1, <2>2
  <1> QED
    BY <1>6

\* The timer sleeps until an instant that exists and is the earliest.
LEMMA NextWakeIsMin ==
    ASSUME NEW store \in Store, Scheduled(store) # {}
    PROVE  /\ NextWake(store) \in Nat
           /\ \A j \in Scheduled(store) : NextWake(store) <= store[j].next
  <1> DEFINE W == {store[j].next : j \in Scheduled(store)}
  <1>1. \A j \in Scheduled(store) : store[j].next \in Nat
    BY DEF Scheduled, Store, Job
  <1>2. W # {} /\ W \in SUBSET Nat
    BY <1>1
  <1>3. \E w \in W : \A v \in W : w <= v
    BY <1>2, LeastOfNaturals
  <1>4. \E w \in W : \A j \in Scheduled(store) : w <= store[j].next
    BY <1>3
  <1> HIDE DEF W
  <1>5. NextWake(store) = CHOOSE w \in W : \A j \in Scheduled(store) : w <= store[j].next
    BY DEF NextWake, W
  <1> QED
    BY <1>2, <1>4, <1>5

\* Completing a job keeps the store a store, whether or not its object is in it.
LEMMA FinishedType ==
    ASSUME NEW store \in Store, NEW j \in JobIds, NEW t \in Nat,
           store[j] # NoJob => sched[j] \in Schedule
    PROVE  Finished(store, j, t) \in Store
  <1>1. CASE store[j] = NoJob
    BY <1>1 DEF Finished
  <1>2. CASE store[j] # NoJob
    <2>1. NextRun(sched[j], t) \in Nat
      BY <1>2, NextRunType
    <2>2. store[j] \in Job
      BY <1>2 DEF Store
    <2>3. [on |-> FALSE, next |-> 0, ran |-> TRUE] \in Job
      BY DEF Job
    <2>4. [store[j] EXCEPT !.next = NextRun(sched[j], t), !.ran = TRUE] \in Job
      BY <2>1, <2>2 DEF Job
    <2> QED
      BY <1>2, <2>3, <2>4 DEF Finished, Store
  <1> QED
    BY <1>1, <1>2

LEMMA DetachedType ==
    ASSUME NEW store \in Store, NEW j \in JobIds
    PROVE  FinishedDetached(store, j) \in Store
  BY DEF FinishedDetached, Store

LEMMA RecomputedType ==
    ASSUME NEW store \in Store, NEW t \in Nat,
           \A j \in JobIds : store[j] # NoJob => sched[j] \in Schedule
    PROVE  /\ Recomputed(store, t) \in Store
           /\ \A j \in JobIds : Recomputed(store, t)[j] = NoJob <=> store[j] = NoJob
  <1>1. ASSUME NEW j \in JobIds, store[j] # NoJob
        PROVE  [store[j] EXCEPT !.next = NextRun(sched[j], t)] \in Job
    <2>1. NextRun(sched[j], t) \in Nat
      BY <1>1, NextRunType
    <2> QED
      BY <1>1, <2>1 DEF Store, Job
  <1> QED
    BY <1>1 DEF Recomputed, Store

LEMMA NewJobType ==
    ASSUME NEW s \in Schedule, NEW t \in Nat
    PROVE  NewJob(s, t) \in Job
  BY NextRunType DEF NewJob, Job

\* Whether a reload detaches the jobs of a tick or not, the tick stays itself.
LEMMA DetachFacts ==
    ASSUME NEW tk \in [TickIds -> Tick]
    PROVE  /\ Detach(tk) \in [TickIds -> Tick]
           /\ \A t \in TickIds : /\ Detach(tk)[t].st = tk[t].st
                                 /\ Detach(tk)[t].cur = tk[t].cur
  <1>1. ASSUME NEW t \in TickIds
        PROVE  LET d == [tk[t] EXCEPT !.detached = (tk[t].st = "exec")]
               IN  d \in Tick /\ d.st = tk[t].st /\ d.cur = tk[t].cur
    BY DEF Tick
  <1> QED
    BY <1>1 DEF Detach

\* _arm_timer leaves at most one live task, asleep, and remembers it.
LEMMA ArmFacts ==
    ASSUME NEW tk \in [TickIds -> Tick], NEW store \in Store,
           handle \in TickIds \cup {0},
           \A t \in TickIds : tk[t].st # "free" => t = handle,
           Arm(tk, store)
    PROVE  /\ ticks' \in [TickIds -> Tick]
           /\ handle' \in TickIds \cup {0}
           /\ \A t \in TickIds : ticks'[t].st # "free" => t = handle' /\ ticks'[t].st = "sleep"
  <1>1. FreeTick \in Tick /\ FreeTick.st = "free"
    BY DEF FreeTick, Tick
  <1>2. /\ Cancelled(tk) \in [TickIds -> Tick]
        /\ \A t \in TickIds : Cancelled(tk)[t].st = "free"
    BY <1>1 DEF Cancelled
  <1>3. CASE Scheduled(store) = {}
    BY <1>2, <1>3 DEF Arm
  <1>4. CASE Scheduled(store) # {}
    <2>1. SleepTick(NextWake(store)) \in Tick /\ SleepTick(NextWake(store)).st = "sleep"
      BY <1>4, NextWakeIsMin DEF SleepTick, FreeTick, Tick
    <2>2. PICK t \in TickIds :
            /\ ticks' = [Cancelled(tk) EXCEPT ![t] = SleepTick(NextWake(store))]
            /\ handle' = t
      BY <1>4 DEF Arm
    <2> QED
      BY <1>2, <2>1, <2>2
  <1> QED
    BY <1>3, <1>4

\* What a load returns is a store whose jobs have a schedule.
LEMMA LoadedFacts ==
    ASSUME IInv
    PROVE  /\ Loaded \in Store
           /\ \A j \in JobIds : Loaded[j] # NoJob => sched[j] \in Schedule
  BY DEF IInv, TypeOK, KnownSchedules, Loaded

\* The pair save and re-arm, with which every change of the store ends.
LEMMA SaveAndArm ==
    ASSUME NEW tk \in [TickIds -> Tick], NEW store \in Store,
           handle \in TickIds \cup {0},
           \A t \in TickIds : tk[t].st # "free" => t = handle,
           Save(store), Arm(tk, store)
    PROVE  /\ mem' \in Store /\ disk' \in Store /\ synced' \in BOOLEAN /\ stamp' \in Stamps /\ missed' \in BOOLEAN
           /\ ticks' \in [TickIds -> Tick] /\ handle' \in TickIds \cup {0}
           /\ mem' = store /\ disk' = store
           /\ ExecHasJob' /\ LiveTickIsHandle' /\ CacheCoherent'
  BY ArmFacts DEF Save, Stamps, ExecHasJob, LiveTickIsHandle, CacheCoherent

LEMMA InitInvariant == Init => IInv
  <1> SUFFICES ASSUME Init PROVE IInv
    OBVIOUS
  <1>1. EmptyStore \in Store
    BY DEF EmptyStore, Store
  <1>2. FreeTick \in Tick /\ FreeTick.st = "free"
    BY DEF FreeTick, Tick
  <1>3. TypeOK
    <2>1. doneAt \in [JobIds -> [n : 0..2, at : Nat]]
      BY DEF Init
    <2>2. ticks \in [TickIds -> Tick] /\ ext \in [busy : BOOLEAN, store : Store]
      BY <1>1, <1>2 DEF Init
    <2>3. sched \in [JobIds -> Schedule \cup {NoSched}] /\ started \in [JobIds -> 0..2]
      BY DEF Init
    <2> QED
      BY <1>1, <2>1, <2>2, <2>3 DEF Init, TypeOK, Stamps
  <1>4. KnownSchedules
    BY DEF Init, KnownSchedules, EmptyStore
  <1>5. ExecHasJob /\ LiveTickIsHandle /\ CacheCoherent
    BY <1>2 DEF Init, ExecHasJob, LiveTickIsHandle, CacheCoherent
  <1> QED
    BY <1>3, <1>4, <1>5 DEF IInv

LEMMA StartInvariant == IInv /\ Start => IInv'
  <1> SUFFICES ASSUME IInv, Start PROVE IInv'
    OBVIOUS
  <1> DEFINE store == Recomputed(disk, now)
  <1>1. store \in Store /\ \A j \in JobIds : store[j] # NoJob => sched[j] # NoSched
    BY RecomputedType DEF IInv, TypeOK, KnownSchedules
  <1>2. Save(store) /\ Arm(ticks, store)
    BY DEF Start
  <1> HIDE DEF store
  <1>3. /\ mem' \in Store /\ disk' \in Store /\ synced' \in BOOLEAN /\ stamp' \in Stamps /\ missed' \in BOOLEAN
        /\ ticks' \in [TickIds -> Tick] /\ handle' \in TickIds \cup {0}
        /\ mem' = store /\ disk' = store
        /\ ExecHasJob' /\ LiveTickIsHandle' /\ CacheCoherent'
    BY <1>1, <1>2, SaveAndArm DEF IInv, TypeOK, LiveTickIsHandle
  <1>4. TypeOK'
    BY <1>3 DEF IInv, TypeOK, Start, history
  <1>5. KnownSchedules'
    BY <1>1, <1>3 DEF IInv, KnownSchedules, Start
  <1> QED
    BY <1>3, <1>4, <1>5 DEF IInv

LEMMA StopInvariant == IInv /\ Stop => IInv'
  <1> SUFFICES ASSUME IInv, Stop PROVE IInv'
    OBVIOUS
  <1>1. EmptyStore \in Store /\ \A j \in JobIds : EmptyStore[j] = NoJob
    BY DEF EmptyStore, Store
  <1>2. FreeTick \in Tick /\ FreeTick.st = "free"
    BY DEF FreeTick, Tick
  <1>3. TypeOK'
    BY <1>1, <1>2 DEF Stamps, IInv, TypeOK, Stop, history
  <1>4. KnownSchedules'
    BY <1>1 DEF IInv, KnownSchedules, Stop
  <1>5. ExecHasJob' /\ LiveTickIsHandle' /\ CacheCoherent'
    BY <1>2 DEF Stop, ExecHasJob, LiveTickIsHandle, CacheCoherent
  <1> QED
    BY <1>3, <1>4, <1>5 DEF IInv

LEMMA BumpType == \A n \in 0..2 : Bump(n) \in 0..2
  BY DEF Bump

LEMMA TickWakeInvariant ==
    ASSUME IInv, NEW t \in TickIds, TickWake(t)
    PROVE  IInv'
  <1>1. /\ Loaded \in Store
        /\ \A j \in JobIds : Loaded[j] # NoJob => sched[j] # NoSched
    BY LoadedFacts
  <1> DEFINE tk == Detach(ticks)
  <1>2. /\ tk \in [TickIds -> Tick]
        /\ \A i \in TickIds : tk[i].st # "free" => i = handle
        /\ \A i \in TickIds : tk[i].st = "exec" => tk[i].cur \in JobIds
    BY DetachFacts DEF IInv, TypeOK, LiveTickIsHandle, ExecHasJob
  <1>3. t = handle
    BY DEF TickWake, Idle, IInv, LiveTickIsHandle
  <1>4. CASE Due(Loaded, now) = {}
    <2> DEFINE tk2 == [tk EXCEPT ![t] = FreeTick]
    <2>1. tk2 \in [TickIds -> Tick] /\ \A i \in TickIds : tk2[i].st # "free" => i = handle
      BY <1>2 DEF FreeTick, Tick
    <2>2. Save(Loaded) /\ Arm(tk2, Loaded) /\ UNCHANGED started
      BY <1>4 DEF TickWake, Idle
    <2> HIDE DEF tk2
    <2>3. /\ mem' \in Store /\ disk' \in Store /\ synced' \in BOOLEAN /\ stamp' \in Stamps /\ missed' \in BOOLEAN
          /\ ticks' \in [TickIds -> Tick] /\ handle' \in TickIds \cup {0}
          /\ mem' = Loaded /\ disk' = Loaded
          /\ ExecHasJob' /\ LiveTickIsHandle' /\ CacheCoherent'
      BY <1>1, <2>1, <2>2, SaveAndArm DEF IInv, TypeOK
    <2>4. TypeOK'
      BY <2>2, <2>3 DEF IInv, TypeOK, TickWake, Idle
    <2>5. KnownSchedules'
      BY <1>1, <2>3 DEF IInv, KnownSchedules, TickWake, Idle
    <2> QED
      BY <2>3, <2>4, <2>5 DEF IInv
  <1>5. CASE Due(Loaded, now) # {}
    <2>1. PICK j \in Due(Loaded, now) :
            /\ mem' = Loaded
            /\ ticks' = [tk EXCEPT ![t] = ExecTick(j, Due(Loaded, now) \ {j})]
            /\ started' = [started EXCEPT ![j] = Bump(@)]
            /\ UNCHANGED <<disk, synced, handle>>
      BY <1>5 DEF TickWake, Idle
    <2>2. j \in JobIds /\ Due(Loaded, now) \ {j} \in SUBSET JobIds
      BY DEF Due, Scheduled
    <2>3. /\ ExecTick(j, Due(Loaded, now) \ {j}) \in Tick
          /\ ExecTick(j, Due(Loaded, now) \ {j}).st = "exec"
          /\ ExecTick(j, Due(Loaded, now) \ {j}).cur = j
      BY <2>2 DEF ExecTick, Tick, IInv, TypeOK
    <2> HIDE DEF tk
    <2>4. TypeOK'
      <3>1. started' \in [JobIds -> 0..2]
        BY <2>1, <2>2, BumpType DEF IInv, TypeOK
      <3> QED
        BY <1>1, <1>2, <2>1, <2>3, <3>1 DEF IInv, TypeOK, TickWake, Idle
    <2>5. KnownSchedules'
      BY <1>1, <2>1 DEF IInv, KnownSchedules, TickWake, Idle
    <2>6. ExecHasJob' /\ LiveTickIsHandle'
      BY <1>2, <1>3, <2>1, <2>2, <2>3 DEF ExecHasJob, LiveTickIsHandle
    <2>7. CacheCoherent'
      BY <1>2, <2>1, <2>3 DEF CacheCoherent, Executing
    <2> QED
      BY <2>4, <2>5, <2>6, <2>7 DEF IInv
  <1> QED
    BY <1>4, <1>5

LEMMA ExecDoneInvariant ==
    ASSUME IInv, NEW t \in TickIds, ExecDone(t)
    PROVE  IInv'
  <1> DEFINE j == ticks[t].cur
             store == IF ticks[t].detached
                      THEN FinishedDetached(mem, j) ELSE Finished(mem, j, now)
  <1>1. j \in JobIds /\ t = handle /\ ticks[t] \in Tick
    BY DEF ExecDone, Idle, IInv, TypeOK, ExecHasJob, LiveTickIsHandle
  <1>2. store \in Store
    BY <1>1, FinishedType, DetachedType DEF IInv, TypeOK, KnownSchedules
  <1>3. \A i \in JobIds : store[i] # NoJob => sched[i] # NoSched
    <2>1. \A i \in JobIds : store[i] # NoJob => mem[i] # NoJob
      BY <1>1 DEF FinishedDetached, Finished, IInv, TypeOK, Store
    <2> QED
      BY <2>1 DEF IInv, KnownSchedules
  <1>4. doneAt' \in [JobIds -> [n : 0..2, at : Nat]]
    <2>1. doneAt' = [doneAt EXCEPT ![j] = [n |-> Bump(doneAt[j].n), at |-> now]]
      BY DEF ExecDone, Idle
    <2>2. [n |-> Bump(doneAt[j].n), at |-> now] \in [n : 0..2, at : Nat]
      BY <1>1, BumpType DEF IInv, TypeOK
    <2> QED
      BY <1>1, <2>1, <2>2 DEF IInv, TypeOK
  <1>5. CASE ticks[t].due = {}
    <2> DEFINE tk == [ticks EXCEPT ![t] = FreeTick]
    <2>1. tk \in [TickIds -> Tick] /\ \A i \in TickIds : tk[i].st # "free" => i = handle
      BY DEF FreeTick, Tick, IInv, TypeOK, LiveTickIsHandle
    <2>2. Save(store) /\ Arm(tk, store) /\ UNCHANGED started
      BY <1>5 DEF ExecDone, Idle
    <2> HIDE DEF tk, store
    <2>3. /\ mem' \in Store /\ disk' \in Store /\ synced' \in BOOLEAN /\ stamp' \in Stamps /\ missed' \in BOOLEAN
          /\ ticks' \in [TickIds -> Tick] /\ handle' \in TickIds \cup {0}
          /\ mem' = store /\ disk' = store
          /\ ExecHasJob' /\ LiveTickIsHandle' /\ CacheCoherent'
      BY <1>2, <2>1, <2>2, SaveAndArm DEF IInv, TypeOK
    <2>4. TypeOK'
      BY <1>4, <2>2, <2>3 DEF IInv, TypeOK, ExecDone, Idle
    <2>5. KnownSchedules'
      BY <1>3, <2>3 DEF IInv, KnownSchedules, ExecDone, Idle
    <2> QED
      BY <2>3, <2>4, <2>5 DEF IInv
  <1>6. CASE ticks[t].due # {}
    <2>1. PICK k \in ticks[t].due :
            /\ mem' = store
            /\ ticks' = [ticks EXCEPT ![t].cur = k, ![t].due = ticks[t].due \ {k},
                                      ![t].began = now]
            /\ started' = [started EXCEPT ![k] = Bump(@)]
            /\ UNCHANGED <<disk, synced, handle>>
      BY <1>6 DEF ExecDone, Idle
    <2>2. k \in JobIds /\ ticks[t].due \ {k} \in SUBSET JobIds
      BY <1>1 DEF Tick
    <2> HIDE DEF store
    <2>3. ticks' \in [TickIds -> Tick]
      BY <1>1, <2>1, <2>2 DEF IInv, TypeOK, Tick
    <2>4. /\ ticks'[t].st = "exec" /\ ticks'[t].cur = k
          /\ \A i \in TickIds \ {t} : ticks'[i] = ticks[i]
      BY <1>1, <2>1 DEF IInv, TypeOK, Tick, ExecDone, Idle
    <2>5. TypeOK'
      <3>1. started' \in [JobIds -> 0..2]
        BY <2>1, <2>2, BumpType DEF IInv, TypeOK
      <3> QED
        BY <1>2, <1>4, <2>1, <2>3, <3>1 DEF IInv, TypeOK, ExecDone, Idle
    <2>6. KnownSchedules'
      BY <1>3, <2>1 DEF IInv, KnownSchedules, ExecDone, Idle
    <2>7. ExecHasJob' /\ LiveTickIsHandle'
      BY <1>1, <2>1, <2>2, <2>4 DEF IInv, ExecHasJob, LiveTickIsHandle
    <2>8. CacheCoherent'
      BY <2>4 DEF CacheCoherent, Executing
    <2> QED
      BY <2>5, <2>6, <2>7, <2>8 DEF IInv
  <1> QED
    BY <1>5, <1>6

LEMMA ToolAddInvariant ==
    ASSUME IInv, NEW j \in JobIds, NEW s \in Schedules, ToolAdd(j, s)
    PROVE  IInv'
  <1> DEFINE store == [Loaded EXCEPT ![j] = NewJob(s, now)]
             tk    == Detach(ticks)
  <1>1. store \in Store
    BY LoadedFacts, NewJobType DEF Store, IInv, TypeOK
  <1>2. sched' = [sched EXCEPT ![j] = s] /\ s \in Schedule /\ s # NoSched
    BY DEF ToolAdd, Idle
  <1>3. \A i \in JobIds : store[i] # NoJob => sched'[i] # NoSched
    BY <1>2, LoadedFacts DEF IInv, TypeOK, Store
  <1>4. tk \in [TickIds -> Tick] /\ \A i \in TickIds : tk[i].st # "free" => i = handle
    BY DetachFacts DEF IInv, TypeOK, LiveTickIsHandle
  <1>5. Save(store) /\ Arm(tk, store)
    BY DEF ToolAdd, Idle
  <1> HIDE DEF store, tk
  <1>6. /\ mem' \in Store /\ disk' \in Store /\ synced' \in BOOLEAN /\ stamp' \in Stamps /\ missed' \in BOOLEAN
        /\ ticks' \in [TickIds -> Tick] /\ handle' \in TickIds \cup {0}
        /\ mem' = store /\ disk' = store
        /\ ExecHasJob' /\ LiveTickIsHandle' /\ CacheCoherent'
    BY <1>1, <1>4, <1>5, SaveAndArm DEF IInv, TypeOK
  <1>7. TypeOK'
    BY <1>2, <1>6 DEF IInv, TypeOK, ToolAdd, Idle, history
  <1>8. KnownSchedules'
    BY <1>2, <1>3, <1>6 DEF IInv, TypeOK, KnownSchedules, ToolAdd, Idle
  <1> QED
    BY <1>6, <1>7, <1>8 DEF IInv

\* list_jobs, and remove_job of an id that is not there: a load and no more.
LEMMA LoadOnlyInvariant ==
    ASSUME IInv, mem' = Loaded, ticks' = Detach(ticks),
           UNCHANGED <<now, sched, disk, up, synced, stamp, missed, handle, ext, extLeft, history>>
    PROVE  IInv'
  <1>1. /\ ticks' \in [TickIds -> Tick]
        /\ \A t \in TickIds : ticks'[t].st = ticks[t].st /\ ticks'[t].cur = ticks[t].cur
    BY DetachFacts DEF IInv, TypeOK
  <1>2. TypeOK'
    BY <1>1, LoadedFacts DEF IInv, TypeOK, history
  <1>3. KnownSchedules'
    BY LoadedFacts DEF IInv, KnownSchedules
  <1>4. ExecHasJob' /\ LiveTickIsHandle'
    BY <1>1 DEF IInv, ExecHasJob, LiveTickIsHandle
  <1>5. CacheCoherent'
    BY <1>1 DEF IInv, CacheCoherent, Executing, Loaded
  <1> QED
    BY <1>2, <1>3, <1>4, <1>5 DEF IInv

LEMMA ToolRemoveInvariant ==
    ASSUME IInv, NEW j \in JobIds, ToolRemove(j)
    PROVE  IInv'
  <1>1. CASE Loaded[j] # NoJob
    <2> DEFINE store == [Loaded EXCEPT ![j] = NoJob]
               tk    == Detach(ticks)
    <2>1. store \in Store /\ \A i \in JobIds : store[i] # NoJob => sched[i] # NoSched
      BY LoadedFacts DEF Store
    <2>2. tk \in [TickIds -> Tick] /\ \A i \in TickIds : tk[i].st # "free" => i = handle
      BY DetachFacts DEF IInv, TypeOK, LiveTickIsHandle
    <2>3. Save(store) /\ Arm(tk, store)
      BY <1>1 DEF ToolRemove, Idle
    <2> HIDE DEF store, tk
    <2>4. /\ mem' \in Store /\ disk' \in Store /\ synced' \in BOOLEAN /\ stamp' \in Stamps /\ missed' \in BOOLEAN
          /\ ticks' \in [TickIds -> Tick] /\ handle' \in TickIds \cup {0}
          /\ mem' = store /\ disk' = store
          /\ ExecHasJob' /\ LiveTickIsHandle' /\ CacheCoherent'
      BY <2>1, <2>2, <2>3, SaveAndArm DEF IInv, TypeOK
    <2>5. TypeOK'
      BY <2>4 DEF IInv, TypeOK, ToolRemove, Idle, history
    <2>6. KnownSchedules'
      BY <2>1, <2>4 DEF IInv, KnownSchedules, ToolRemove, Idle
    <2> QED
      BY <2>4, <2>5, <2>6 DEF IInv
  <1>2. CASE Loaded[j] = NoJob
    BY <1>2, LoadOnlyInvariant DEF ToolRemove, Idle
  <1> QED
    BY <1>1, <1>2

\* An external write makes the cache stale and touches nothing else of the gateway.
LEMMA ExtWriteInvariant ==
    ASSUME IInv, NEW store \in Store, ExtWrite(store),
           sched' \in [JobIds -> Schedule \cup {NoSched}], extOff' \subseteq JobIds,
           \A j \in JobIds : sched[j] # NoSched => sched'[j] # NoSched,
           \A j \in JobIds : store[j] # NoJob => sched'[j] # NoSched
    PROVE  IInv'
  <1>1. EmptyStore \in Store /\ \A j \in JobIds : EmptyStore[j] = NoJob
    BY DEF EmptyStore, Store
  <1>2. TypeOK'
    BY <1>1 DEF IInv, TypeOK, ExtWrite
  <1>3. KnownSchedules'
    BY <1>1 DEF IInv, KnownSchedules, ExtWrite
  <1>4. ExecHasJob' /\ LiveTickIsHandle' /\ CacheCoherent'
    BY DEF IInv, ExecHasJob, LiveTickIsHandle, CacheCoherent, ExtWrite
  <1> QED
    BY <1>2, <1>3, <1>4 DEF IInv

LEMMA ExternalInvariant == IInv /\ External => IInv'
  <1> SUFFICES ASSUME IInv, External PROVE IInv'
    OBVIOUS
  <1>0. /\ ext.store \in Store
        /\ \A j \in JobIds : ext.store[j] # NoJob => sched[j] \in Schedule /\ sched[j] # NoSched
    BY DEF IInv, TypeOK, KnownSchedules
  <1>1. ASSUME ExtLoad PROVE IInv'
    BY <1>1 DEF ExtLoad, IInv, TypeOK, KnownSchedules, ExecHasJob, LiveTickIsHandle,
                CacheCoherent, Executing, gateway, history
  <1>2. ASSUME NEW j \in JobIds, NEW s \in Schedules, ExtAdd(j, s) PROVE IInv'
    <2> DEFINE store == [ext.store EXCEPT ![j] = NewJob(s, now)]
    <2>1. store \in Store
      BY <1>0, NewJobType DEF Store, IInv, TypeOK
    <2>2. /\ sched' \in [JobIds -> Schedule \cup {NoSched}]
          /\ \A i \in JobIds : sched[i] # NoSched => sched'[i] # NoSched
          /\ \A i \in JobIds : store[i] # NoJob => sched'[i] # NoSched
      BY <1>0, <1>2 DEF ExtAdd, IInv, TypeOK, Store
    <2>3. ExtWrite(store) /\ extOff' \subseteq JobIds
      BY <1>2 DEF ExtAdd, IInv, TypeOK
    <2> HIDE DEF store
    <2> QED
      BY <2>1, <2>2, <2>3, ExtWriteInvariant
  <1>3. ASSUME NEW j \in JobIds, ExtRemove(j) PROVE IInv'
    <2> DEFINE store == [ext.store EXCEPT ![j] = NoJob]
    <2>1. store \in Store /\ \A i \in JobIds : store[i] # NoJob => sched[i] # NoSched
      BY <1>0 DEF Store
    <2>2. ExtWrite(store) /\ sched' = sched /\ extOff' \subseteq JobIds
      BY <1>3 DEF ExtRemove, IInv, TypeOK
    <2> HIDE DEF store
    <2> QED
      BY <2>1, <2>2, ExtWriteInvariant DEF IInv, TypeOK
  <1>4. ASSUME NEW j \in JobIds, NEW b \in BOOLEAN, ExtEnable(j, b) PROVE IInv'
    <2> DEFINE n == IF b THEN NextRun(sched[j], now) ELSE 0
               job == [ext.store[j] EXCEPT !.on = b, !.next = n]
               store == [ext.store EXCEPT ![j] = job]
    <2>1. ext.store[j] \in Job /\ n \in Nat
      BY <1>0, <1>4, NextRunType DEF ExtEnable, Store, IInv, TypeOK
    <2>2. job \in Job
      <3> HIDE DEF n
      <3> QED
        BY <2>1 DEF Job
    <2>3. ExtWrite(store) /\ sched' = sched /\ extOff' \subseteq JobIds
      <3>1. store = [ext.store EXCEPT ![j].on = b, ![j].next = n]
        BY <1>0 DEF Store
      <3> QED
        BY <1>4, <3>1 DEF ExtEnable, IInv, TypeOK
    <2>4. ext.store[j] # NoJob
      BY <1>4 DEF ExtEnable
    <2> HIDE DEF job
    <2>5. store \in Store /\ \A i \in JobIds : store[i] # NoJob => sched[i] # NoSched
      BY <1>0, <2>2, <2>4 DEF Store
    <2> HIDE DEF store
    <2> QED
      BY <2>3, <2>5, ExtWriteInvariant DEF IInv, TypeOK
  <1>5. ASSUME NEW j \in JobIds, ExtRun(j) PROVE IInv'
    <2> DEFINE store == Finished(ext.store, j, now)
    <2>1. store \in Store
      BY <1>0, FinishedType DEF IInv, TypeOK
    <2>2. \A i \in JobIds : store[i] # NoJob => sched[i] # NoSched
      BY <1>0 DEF Finished, Store
    <2>3. ExtWrite(store) /\ sched' = sched /\ extOff' \subseteq JobIds
      BY <1>5 DEF ExtRun, IInv, TypeOK
    <2> HIDE DEF store
    <2> QED
      BY <2>1, <2>2, <2>3, ExtWriteInvariant DEF IInv, TypeOK
  <1>6. ASSUME NEW j \in JobIds, ExtNotFound(j) PROVE IInv'
    <2>1. EmptyStore \in Store /\ \A i \in JobIds : EmptyStore[i] = NoJob
      BY DEF EmptyStore, Store
    <2> QED
      BY <1>6, <2>1 DEF ExtNotFound, IInv, TypeOK, KnownSchedules, ExecHasJob,
                        LiveTickIsHandle, CacheCoherent, Executing, gateway, history
  <1> QED
    BY <1>1, <1>2, <1>3, <1>4, <1>5, <1>6 DEF External

\* IInv is inductive.
LEMMA NextInvariant == IInv /\ [Next]_vars => IInv'
  <1> SUFFICES ASSUME IInv, [Next]_vars PROVE IInv'
    OBVIOUS
  <1>1. CASE Clock
    BY <1>1 DEF Clock, Stamps, IInv, TypeOK, KnownSchedules, ExecHasJob, LiveTickIsHandle,
                CacheCoherent, Executing, gateway, history
  <1>2. CASE Timer
    BY <1>2, TickWakeInvariant, ExecDoneInvariant DEF Timer
  <1>3. CASE Tool
    <2>1. CASE ToolList
      BY <2>1, LoadOnlyInvariant DEF ToolList, Idle
    <2> QED
      BY <1>3, <2>1, ToolAddInvariant, ToolRemoveInvariant DEF Tool, Idle
  <1>5. CASE Stat
    BY <1>5 DEF Stat, Stamps, IInv, TypeOK, KnownSchedules, ExecHasJob, LiveTickIsHandle,
                CacheCoherent, Executing, history
  <1>4. CASE UNCHANGED vars
    BY <1>4 DEF vars, IInv, TypeOK, KnownSchedules, ExecHasJob, LiveTickIsHandle,
                CacheCoherent, Executing
  <1> QED
    BY <1>1, <1>2, <1>3, <1>4, <1>5, StartInvariant, StopInvariant, ExternalInvariant DEF Next

\* The inductive invariant holds of every operation, tick, restart and edit by another process:
\* a task that sleeps or executes is the one _arm_timer remembers, it has a job whose schedule is
\* known, and the cached store is the file whenever the mtime says so.
THEOREM InvariantHolds == Spec => []IInv
  <1> QED
    BY InitInvariant, NextInvariant, PTL DEF Spec

\* The scheduler's state keeps its shape under every operation, the edits of
\* other processes included.
THEOREM TypeCorrect == Spec => []TypeOK
  <1>1. IInv => TypeOK
    BY DEF IInv
  <1> QED
    BY <1>1, InvariantHolds, PTL

\* _arm_timer never lets two ticks live side by side, whatever calls it.
THEOREM SingleTick == Spec => []LiveTickIsHandle
  <1>1. IInv => LiveTickIsHandle
    BY DEF IInv
  <1> QED
    BY <1>1, InvariantHolds, PTL

\* The mtime tells, between ticks, whether the cached store is the file, but for a write by
\* another process that has the mtime of the gateway's own.
THEOREM CacheIsCoherent == Spec => []CacheCoherent
  <1>1. IInv => CacheCoherent
    BY DEF IInv
  <1> QED
    BY <1>1, InvariantHolds, PTL

LEMMA WakeStepHolds == IInv /\ [Next]_vars => [WakeStep]_vars
  <1> SUFFICES ASSUME IInv, [Next]_vars, NEW t \in TickIds,
                      ticks[t].st = "sleep", ticks'[t].st = "exec", ~missed
               PROVE  ticks'[t].cur \in Due(disk, now)
    BY DEF WakeStep
  <1>1. ticks \in [TickIds -> Tick] /\ handle \in TickIds \cup {0} /\ t = handle
    BY DEF IInv, TypeOK, LiveTickIsHandle
  <1>2. \A i \in TickIds : Detach(ticks)[i].st = ticks[i].st
    BY <1>1, DetachFacts
  <1>3. \A i \in TickIds : ticks[i].st # "exec"
    BY <1>1 DEF IInv, LiveTickIsHandle
  \* Whoever arms the timer has cancelled t first.
  <1>4. ASSUME NEW tk \in [TickIds -> Tick], NEW store \in Store, Arm(tk, store),
               \A i \in TickIds : tk[i].st # "free" => i = handle
        PROVE  FALSE
    BY <1>1, <1>4, ArmFacts
  <1>5. \A i \in TickIds : Detach(ticks)[i].st # "free" => i = handle
    BY <1>2 DEF IInv, LiveTickIsHandle
  <1>6. ASSUME NEW i \in TickIds, TickWake(i)
        PROVE  ticks'[t].cur \in Due(disk, now)
    <2>1. i = t
      BY <1>1, <1>6 DEF TickWake, Idle, IInv, LiveTickIsHandle
    <2>2. CASE Due(Loaded, now) = {}
      <3> DEFINE tk == [Detach(ticks) EXCEPT ![t] = FreeTick]
      <3>1. tk \in [TickIds -> Tick] /\ \A k \in TickIds : tk[k].st # "free" => k = handle
        BY <1>1, <1>5, DetachFacts DEF FreeTick, Tick
      <3>2. Arm(tk, Loaded)
        BY <1>6, <2>1, <2>2 DEF TickWake, Idle
      <3> HIDE DEF tk
      <3> QED
        BY <1>4, <3>1, <3>2, LoadedFacts
    <2>3. CASE Due(Loaded, now) # {}
      <3>1. PICK j \in Due(Loaded, now) :
              ticks' = [Detach(ticks) EXCEPT ![t] = ExecTick(j, Due(Loaded, now) \ {j})]
        BY <1>6, <2>1, <2>3 DEF TickWake, Idle
      <3>2. ticks'[t].cur = j
        BY <1>1, <3>1, DetachFacts DEF ExecTick
      <3>3. up /\ Executing = {}
        BY <1>3, <1>6 DEF TickWake, Idle, Executing
      <3>4. Loaded = disk
        BY <3>3 DEF IInv, CacheCoherent, Loaded
      <3> QED
        BY <3>1, <3>2, <3>4
    <2> QED
      BY <2>2, <2>3
  <1>7. ASSUME NEW i \in TickIds, ExecDone(i) PROVE FALSE
    BY <1>3, <1>7 DEF ExecDone, Idle
  <1>8. ASSUME Start PROVE FALSE
    <2>1. Recomputed(disk, now) \in Store
      BY RecomputedType DEF IInv, TypeOK, KnownSchedules
    <2> QED
      BY <1>1, <1>4, <1>8, <2>1 DEF Start, IInv, LiveTickIsHandle
  <1>9. ASSUME Stop PROVE FALSE
    BY <1>9 DEF Stop, FreeTick
  <1>10. ASSUME NEW j \in JobIds, NEW s \in Schedules, ToolAdd(j, s) PROVE FALSE
    <2> DEFINE store == [Loaded EXCEPT ![j] = NewJob(s, now)]
    <2>1. store \in Store
      BY LoadedFacts, NewJobType DEF Store, IInv, TypeOK
    <2>2. Arm(Detach(ticks), store)
      BY <1>10 DEF ToolAdd, Idle
    <2> HIDE DEF store
    <2> QED
      BY <1>1, <1>4, <1>5, <2>1, <2>2, DetachFacts
  <1>11. ASSUME NEW j \in JobIds, ToolRemove(j) PROVE FALSE
    <2> DEFINE store == [Loaded EXCEPT ![j] = NoJob]
    <2>1. store \in Store
      BY LoadedFacts DEF Store
    <2>2. Arm(Detach(ticks), store) \/ ticks' = Detach(ticks)
      BY <1>11 DEF ToolRemove, Idle
    <2> HIDE DEF store
    <2>3. Detach(ticks) \in [TickIds -> Tick]
      BY <1>1, DetachFacts
    <2> QED
      BY <1>2, <1>3, <1>4, <1>5, <2>1, <2>2, <2>3
  <1>12. ticks' # ticks
    BY <1>3
  <1>13. ASSUME ToolList PROVE FALSE
    BY <1>2, <1>3, <1>13 DEF ToolList, Idle
  <1>14. ~External
    BY <1>12 DEF External, ExtLoad, ExtAdd, ExtRemove, ExtEnable, ExtRun, ExtNotFound,
                 ExtWrite, gateway
  <1>15. ~Clock /\ ~Stat /\ ~UNCHANGED vars
    BY <1>12 DEF Clock, Stat, vars
  <1> QED
    BY <1>6, <1>7, <1>8, <1>9, <1>10, <1>11, <1>13, <1>14, <1>15 DEF Next, Timer, Tool, Idle

\* The run list of a waking tick comes from the file as it is, not from a stale
\* cached copy, whatever other processes wrote before, unless the last of them did so at
\* the instant of the gateway's own write.
THEOREM WakeFollowsFile == Spec => WakeHonoursFile
  <1> QED
    BY InvariantHolds, WakeStepHolds, PTL DEF WakeHonoursFile, Spec

----------------------------------------------------------------------------
(* Until another process edits jobs.json: nothing the gateway holds is stale, *)
(* so its timer covers the store and a completed run is never due again.      *)

\* The recurrences and instants a job's next run comes from.
LEMMA NextRunFacts ==
    ASSUME NEW s \in Schedule, NEW t \in Nat
    PROVE  /\ s.kind = "at" => NextRun(s, t) = 0 \/ (NextRun(s, t) = s.ms /\ s.ms > t)
           /\ s.kind = "every" => NextRun(s, t) = 0 \/ NextRun(s, t) = t + s.ms
  BY DEF NextRun, Schedule

\* Armed over fresh tasks, the timer covers the store and nothing executes.
LEMMA ArmCovers ==
    ASSUME NEW tk \in [TickIds -> Tick], NEW store \in Store,
           handle \in TickIds \cup {0},
           \A t \in TickIds : tk[t].st # "free" => t = handle,
           \A t \in TickIds : ~tk[t].detached,
           Save(store), Arm(tk, store)
    PROVE  /\ synced' /\ Executing' = {} /\ QueueFresh'
           /\ \A t \in TickIds : ~ticks'[t].detached
           /\ Covered'
  <1>1. \A t \in TickIds : ticks'[t].st # "exec"
    BY ArmFacts
  <1>2. Executing' = {} /\ QueueFresh'
    BY <1>1 DEF Executing, QueueFresh
  <1>3. mem' = store /\ synced'
    BY DEF Save
  <1>4. FreeTick \in Tick /\ ~FreeTick.detached
    BY DEF FreeTick, Tick
  <1>5. /\ Cancelled(tk) \in [TickIds -> Tick]
        /\ \A t \in TickIds : ~Cancelled(tk)[t].detached
    BY <1>4 DEF Cancelled
  <1>6. CASE Scheduled(store) = {}
    <2>1. ticks' = Cancelled(tk)
      BY <1>6 DEF Arm
    <2> QED
      BY <1>2, <1>3, <1>5, <1>6, <2>1 DEF Covered
  <1>7. CASE Scheduled(store) # {}
    <2> DEFINE w == NextWake(store)
    <2>1. w \in Nat /\ \A j \in Scheduled(store) : w <= store[j].next
      BY <1>7, NextWakeIsMin
    <2>2. PICK t \in TickIds :
            /\ ticks' = [Cancelled(tk) EXCEPT ![t] = SleepTick(w)]
            /\ handle' = t
      BY <1>7 DEF Arm
    <2> HIDE DEF w
    <2>3. SleepTick(w).st = "sleep" /\ SleepTick(w).wake = w /\ ~SleepTick(w).detached
      BY DEF SleepTick, FreeTick
    <2>4. ticks'[t] = SleepTick(w) /\ \A i \in TickIds : ~ticks'[i].detached
      BY <1>5, <2>2, <2>3
    <2>5. handle' # 0 /\ ticks'[handle'].st = "sleep" /\ ticks'[handle'].wake = w
      BY <2>2, <2>3, <2>4
    <2> QED
      BY <1>2, <1>3, <2>1, <2>4, <2>5 DEF Covered
  <1> QED
    BY <1>6, <1>7

\* While no job completes, a change of the store that only drops jobs, or
\* reckons their next run anew, revives no one-shot and hastens no interval.
LEMMA StoreStep ==
    ASSUME IInv, OneShotsSpent, IntervalsAhead, mem' \in Store, doneAt' = doneAt,
           now' \in Nat, now <= now',
           \A j \in JobIds : sched'[j] = sched[j] \/ (sched[j] = NoSched /\ sched'[j] \in Schedule),
           \A j \in Scheduled(mem') :
               \/ j \in Scheduled(mem) /\ mem'[j].next = mem[j].next
               \/ sched'[j] \in Schedule /\ mem'[j].next = NextRun(sched'[j], now)
    PROVE  OneShotsSpent' /\ IntervalsAhead'
  <1> SUFFICES ASSUME NEW j \in JobIds
               PROVE  /\ sched'[j] = NoSched => doneAt[j].n = 0
                      /\ sched'[j] # NoSched /\ sched'[j].kind = "at" =>
                          /\ j \in Scheduled(mem') => mem'[j].next = sched'[j].ms
                          /\ doneAt[j].n # 0 => /\ doneAt[j].n = 1 /\ sched'[j].ms <= now'
                                                /\ j \notin Scheduled(mem')
                      /\ sched'[j] # NoSched /\ sched'[j].kind = "every" /\ doneAt[j].n # 0 =>
                          /\ doneAt[j].at <= now'
                          /\ j \in Scheduled(mem') => mem'[j].next >= doneAt[j].at + sched'[j].ms
    BY DEF OneShotsSpent, IntervalsAhead
  <1>1. now \in Nat /\ doneAt[j].at \in Nat /\ doneAt[j].n \in 0..2 /\ sched[j] \in Schedule \cup {NoSched}
    BY DEF IInv, TypeOK
  <1>2. j \in Scheduled(mem) => sched[j] # NoSched /\ sched'[j] = sched[j]
    BY DEF IInv, KnownSchedules, Scheduled
  <1>3. j \in Scheduled(mem') => mem'[j].next # 0
    BY DEF Scheduled
  <1>4. CASE sched[j] = NoSched
    <2>1. doneAt[j].n = 0
      BY <1>4 DEF OneShotsSpent
    <2> QED
      BY <1>1, <1>2, <1>3, <1>4, <2>1, NextRunFacts
  <1>5. CASE sched[j] # NoSched
    <2>1. sched[j] \in Schedule /\ sched'[j] = sched[j] /\ sched[j].ms \in Nat
      BY <1>1, <1>5 DEF Schedule
    <2>2. CASE sched[j].kind = "at"
      <3>1. /\ j \in Scheduled(mem) => mem[j].next = sched[j].ms
            /\ doneAt[j].n # 0 => doneAt[j].n = 1 /\ sched[j].ms <= now /\ j \notin Scheduled(mem)
        BY <1>5, <2>2 DEF OneShotsSpent
      <3>2. NextRun(sched[j], now) = 0 \/ (NextRun(sched[j], now) = sched[j].ms /\ sched[j].ms > now)
        BY <1>1, <2>1, <2>2, NextRunFacts
      <3> QED
        BY <1>1, <1>3, <1>5, <2>1, <2>2, <3>1, <3>2
    <2>3. CASE sched[j].kind = "every"
      <3>1. doneAt[j].n # 0 =>
              /\ doneAt[j].at <= now
              /\ j \in Scheduled(mem) => mem[j].next >= doneAt[j].at + sched[j].ms
        BY <1>5, <2>3 DEF IntervalsAhead
      <3>2. NextRun(sched[j], now) = 0 \/ NextRun(sched[j], now) = now + sched[j].ms
        BY <1>1, <2>1, <2>3, NextRunFacts
      <3> QED
        BY <1>1, <1>3, <1>5, <2>1, <2>3, <3>1, <3>2
    <2> QED
      BY <1>5, <2>1, <2>2, <2>3
  <1> QED
    BY <1>4, <1>5

\* With nothing stale a load returns the cached store, and detaches nothing.
LEMMA AloneLoads ==
    ASSUME IInv, Alone, up
    PROVE  /\ Loaded = mem /\ Detach(ticks) = ticks
           /\ \A t \in Executing : t = handle
  BY DEF Alone, Loaded, Detach, IInv, LiveTickIsHandle, Executing

\* Every edit through the gateway saves and arms anew; no turn goes on behind it.
LEMMA EditStep ==
    ASSUME IInv, Undisturbed, NEW store \in Store, Save(store), Arm(ticks, store),
           UNCHANGED <<now, ext, extLeft, history>>,
           \A j \in JobIds : sched'[j] = sched[j] \/ (sched[j] = NoSched /\ sched'[j] \in Schedule),
           \A j \in Scheduled(store) :
               \/ j \in Scheduled(mem) /\ store[j].next = mem[j].next
               \/ sched'[j] \in Schedule /\ store[j].next = NextRun(sched'[j], now)
    PROVE  Undisturbed' /\ Executing' = {}
  <1>1. /\ synced' /\ Executing' = {} /\ QueueFresh'
        /\ \A t \in TickIds : ~ticks'[t].detached
        /\ Covered'
    BY ArmCovers DEF IInv, TypeOK, LiveTickIsHandle, Undisturbed, Alone
  <1>2. mem' = store /\ now \in Nat
    BY DEF Save, IInv, TypeOK
  <1>3. OneShotsSpent' /\ IntervalsAhead'
    BY <1>2, StoreStep DEF Undisturbed, history
  <1> QED
    BY <1>1, <1>3 DEF Undisturbed, Alone

LEMMA StartUndisturbed ==
    ASSUME IInv, Undisturbed, Start
    PROVE  Undisturbed' /\ Executing' = {}
  <1> DEFINE store == Recomputed(disk, now)
  <1>1. store \in Store
    BY RecomputedType DEF IInv, TypeOK, KnownSchedules
  <1>2. \A j \in Scheduled(store) :
            sched'[j] \in Schedule /\ store[j].next = NextRun(sched'[j], now)
    <2> SUFFICES ASSUME NEW j \in Scheduled(store)
                 PROVE  sched'[j] \in Schedule /\ store[j].next = NextRun(sched'[j], now)
      OBVIOUS
    <2>1. j \in JobIds /\ store[j] # NoJob /\ store[j].on
      BY DEF Scheduled
    <2>2. disk[j] # NoJob /\ disk[j].on /\ disk[j] \in Job
      <3>1. disk[j] # NoJob
        BY <2>1, RecomputedType DEF IInv, TypeOK, KnownSchedules
      <3>2. disk[j] \in Job
        BY <2>1, <3>1 DEF IInv, TypeOK, Store
      <3>3. ~disk[j].on => store[j] = disk[j]
        BY <2>1 DEF Recomputed
      <3> QED
        BY <2>1, <3>1, <3>2, <3>3
    <2>3. store[j] = [disk[j] EXCEPT !.next = NextRun(sched[j], now)]
      BY <2>1, <2>2 DEF Recomputed
    <2>4. sched' = sched
      BY DEF Start
    <2> QED
      BY <2>1, <2>2, <2>3, <2>4 DEF Job, IInv, TypeOK, KnownSchedules
  <1>3. Save(store) /\ Arm(ticks, store) /\ UNCHANGED <<now, sched, ext, extLeft, history>>
    BY DEF Start
  <1> HIDE DEF store
  <1> QED
    BY <1>1, <1>2, <1>3, EditStep

LEMMA StopUndisturbed ==
    ASSUME IInv, Undisturbed, Stop
    PROVE  Undisturbed' /\ Executing' = {}
  <1>1. FreeTick.st = "free" /\ ~FreeTick.detached
    BY DEF FreeTick
  <1>2. Executing' = {} /\ QueueFresh' /\ \A t \in TickIds : ~ticks'[t].detached
    BY <1>1 DEF Stop, Executing, QueueFresh
  <1>3. mem' \in Store /\ Scheduled(mem') = {}
    BY DEF Stop, EmptyStore, Store, Scheduled
  <1>4. OneShotsSpent' /\ IntervalsAhead'
    <2>1. now' = now /\ sched' = sched /\ doneAt' = doneAt /\ now \in Nat
      BY DEF Stop, history, IInv, TypeOK
    <2> QED
      BY <1>3, <2>1, StoreStep DEF Undisturbed
  <1> QED
    BY <1>2, <1>4 DEF Undisturbed, Alone, Covered, Stop

LEMMA ToolAddUndisturbed ==
    ASSUME IInv, Undisturbed, NEW j \in JobIds, NEW s \in Schedules, ToolAdd(j, s)
    PROVE  Undisturbed' /\ Executing' = {}
  <1> DEFINE store == [mem EXCEPT ![j] = NewJob(s, now)]
  <1>1. Loaded = mem /\ Detach(ticks) = ticks
    BY AloneLoads DEF Undisturbed, ToolAdd, Idle
  <1>2. s \in Schedule /\ NewJob(s, now) \in Job /\ NewJob(s, now).next = NextRun(s, now)
    BY NewJobType DEF NewJob, IInv, TypeOK
  <1>3. mem \in Store /\ sched \in [JobIds -> Schedule \cup {NoSched}]
    BY DEF IInv, TypeOK
  <1>4. store \in Store
    BY <1>2, <1>3 DEF Store
  <1>5. store[j] = NewJob(s, now) /\ \A i \in JobIds \ {j} : store[i] = mem[i]
    BY <1>3 DEF Store
  <1>6. /\ sched[j] = NoSched /\ sched' = [sched EXCEPT ![j] = s]
        /\ UNCHANGED <<now, ext, extLeft, history>>
    BY DEF ToolAdd, Idle
  <1>7. Save(store) /\ Arm(ticks, store)
    BY <1>1 DEF ToolAdd, Idle
  <1> HIDE DEF store
  <1>8. \A i \in Scheduled(store) :
            \/ i \in Scheduled(mem) /\ store[i].next = mem[i].next
            \/ sched'[i] \in Schedule /\ store[i].next = NextRun(sched'[i], now)
    BY <1>2, <1>3, <1>5, <1>6 DEF Scheduled
  <1> QED
    BY <1>2, <1>3, <1>4, <1>6, <1>7, <1>8, EditStep

LEMMA LoadOnlyUndisturbed ==
    ASSUME IInv, Undisturbed, up, mem' = Loaded, ticks' = Detach(ticks),
           UNCHANGED <<now, sched, disk, up, synced, stamp, missed, handle, ext, extLeft, history>>
    PROVE  Undisturbed' /\ ticks' = ticks
  <1>1. mem' = mem /\ ticks' = ticks
    BY AloneLoads DEF Undisturbed
  <1> QED
    BY <1>1 DEF Undisturbed, Alone, OneShotsSpent, IntervalsAhead, QueueFresh, Executing, Queue,
                Covered, history

LEMMA ToolRemoveUndisturbed ==
    ASSUME IInv, Undisturbed, NEW j \in JobIds, ToolRemove(j)
    PROVE  Undisturbed' /\ (Executing' = {} \/ ticks' = ticks)
  <1>1. Loaded = mem /\ Detach(ticks) = ticks /\ up
    BY AloneLoads DEF Undisturbed, ToolRemove, Idle
  <1>2. CASE mem[j] = NoJob
    BY <1>1, <1>2, LoadOnlyUndisturbed DEF ToolRemove, Idle
  <1>3. CASE mem[j] # NoJob
    <2> DEFINE store == [mem EXCEPT ![j] = NoJob]
    <2>1. store \in Store /\ store[j] = NoJob /\ \A i \in JobIds \ {j} : store[i] = mem[i]
      BY DEF IInv, TypeOK, Store
    <2>2. /\ Save(store) /\ Arm(ticks, store)
          /\ UNCHANGED <<now, sched, ext, extLeft, history>>
      BY <1>1, <1>3 DEF ToolRemove, Idle
    <2> HIDE DEF store
    <2>3. \A i \in Scheduled(store) : i \in Scheduled(mem) /\ store[i].next = mem[i].next
      BY <2>1 DEF Scheduled
    <2> QED
      BY <2>1, <2>2, <2>3, EditStep
  <1> QED
    BY <1>2, <1>3

LEMMA ClockUndisturbed ==
    ASSUME IInv, Undisturbed, Clock
    PROVE  Undisturbed' /\ ticks' = ticks
  <1>1. /\ now \in Nat /\ now' = now + 1
        /\ UNCHANGED <<sched, up, mem, synced, ticks, handle, ext, doneAt>>
    BY DEF Clock, gateway, history, IInv, TypeOK
  <1>2. OneShotsSpent' /\ IntervalsAhead'
    BY <1>1, StoreStep DEF IInv, TypeOK, Undisturbed
  <1>3. QueueFresh'
    <2> SUFFICES ASSUME NEW t \in Executing, NEW k \in Queue(t)
                 PROVE  /\ sched[k].kind = "at" => sched[k].ms <= now'
                        /\ sched[k].kind = "every" /\ doneAt[k].n # 0 =>
                            (IF k = ticks[t].cur THEN ticks[t].began ELSE now')
                                >= doneAt[k].at + sched[k].ms
      BY <1>1 DEF Undisturbed, QueueFresh, Executing, Queue
    <2>1. t \in TickIds /\ ticks[t] \in Tick /\ ticks[t].cur \in JobIds
      BY DEF Executing, IInv, TypeOK, ExecHasJob
    <2>2. k \in JobIds /\ doneAt[k].at \in Nat
      BY <2>1 DEF Queue, Tick, IInv, TypeOK
    <2>3. /\ sched[k] # NoSched
          /\ sched[k].kind = "at" => sched[k].ms <= now
          /\ sched[k].kind = "every" /\ doneAt[k].n # 0 =>
              (IF k = ticks[t].cur THEN ticks[t].began ELSE now) >= doneAt[k].at + sched[k].ms
      BY DEF Undisturbed, QueueFresh
    <2>4. sched[k].ms \in Nat
      BY <2>2, <2>3 DEF IInv, TypeOK, Schedule
    <2> QED
      BY <1>1, <2>1, <2>2, <2>3, <2>4
  <1> QED
    BY <1>1, <1>2, <1>3 DEF Undisturbed, Alone, Covered, Executing

LEMMA StatUndisturbed ==
    ASSUME IInv, Undisturbed, Stat
    PROVE  Undisturbed' /\ ticks' = ticks
  BY DEF Stat, Undisturbed, Alone, OneShotsSpent, IntervalsAhead, QueueFresh, Executing, Queue,
         Covered, history

\* What a waking tick finds due may run: its instant has come, it has not run
\* as a one-shot, and its interval is over.
LEMMA DueFresh ==
    ASSUME IInv, Undisturbed, NEW k \in Due(mem, now)
    PROVE  /\ k \in JobIds /\ mem[k] # NoJob /\ mem[k].on /\ sched[k] \in Schedule /\ sched[k] # NoSched
           /\ sched[k].kind = "at" => sched[k].ms <= now /\ doneAt[k].n = 0
           /\ sched[k].kind = "every" /\ doneAt[k].n # 0 => now >= doneAt[k].at + sched[k].ms
  <1>1. k \in JobIds /\ k \in Scheduled(mem) /\ mem[k] # NoJob /\ mem[k].on /\ now >= mem[k].next
    BY DEF Due, Scheduled
  <1>2. mem[k] \in Job /\ mem[k].next \in Nat /\ now \in Nat /\ doneAt[k].at \in Nat
    BY <1>1 DEF IInv, TypeOK, Store, Job
  <1>3. sched[k] \in Schedule /\ sched[k] # NoSched /\ sched[k].ms \in Nat
    BY <1>1 DEF IInv, TypeOK, KnownSchedules, Schedule
  <1>4. sched[k].kind = "at" => mem[k].next = sched[k].ms /\ doneAt[k].n = 0
    BY <1>1, <1>3 DEF Undisturbed, OneShotsSpent
  <1>5. sched[k].kind = "every" /\ doneAt[k].n # 0 => mem[k].next >= doneAt[k].at + sched[k].ms
    BY <1>1, <1>3 DEF Undisturbed, IntervalsAhead
  <1> QED
    BY <1>1, <1>2, <1>3, <1>4, <1>5

LEMMA TickWakeUndisturbed ==
    ASSUME IInv, Undisturbed, NEW t \in TickIds, TickWake(t)
    PROVE  /\ Undisturbed'
           /\ \/ Executing' = {}
              \/ /\ mem' = mem /\ ticks'[t].cur \in Due(mem, now)
                 /\ \A i \in TickIds \ {t} : ticks'[i] = ticks[i]
  <1>1. Loaded = mem /\ Detach(ticks) = ticks
    BY AloneLoads DEF Undisturbed, TickWake, Idle
  <1>2. t = handle /\ mem \in Store /\ ticks \in [TickIds -> Tick] /\ now \in Nat
    BY DEF TickWake, Idle, IInv, TypeOK, LiveTickIsHandle
  <1>3. OneShotsSpent' /\ IntervalsAhead'
    <2>1. mem' = mem /\ UNCHANGED <<now, sched, doneAt>>
      BY <1>1 DEF TickWake, Idle, Save
    <2> QED
      BY <1>2, <2>1, StoreStep DEF Undisturbed
  <1>4. CASE Due(mem, now) = {}
    <2> DEFINE tk == [ticks EXCEPT ![t] = FreeTick]
    <2>1. FreeTick \in Tick /\ FreeTick.st = "free" /\ ~FreeTick.detached
      BY DEF FreeTick, Tick
    <2>2. /\ tk \in [TickIds -> Tick]
          /\ \A i \in TickIds : (tk[i].st # "free" => i = handle) /\ ~tk[i].detached
      BY <1>2, <2>1 DEF IInv, LiveTickIsHandle, Undisturbed, Alone
    <2>3. Save(mem) /\ Arm(tk, mem)
      BY <1>1, <1>4 DEF TickWake, Idle
    <2> HIDE DEF tk
    <2>4. /\ synced' /\ Executing' = {} /\ QueueFresh'
          /\ \A i \in TickIds : ~ticks'[i].detached
          /\ Covered'
      BY <1>2, <2>2, <2>3, ArmCovers DEF IInv, TypeOK
    <2> QED
      BY <1>3, <2>4 DEF Undisturbed, Alone, TickWake, Idle
  <1>5. CASE Due(mem, now) # {}
    <2>1. PICK j \in Due(mem, now) :
            /\ mem' = mem
            /\ ticks' = [ticks EXCEPT ![t] = ExecTick(j, Due(mem, now) \ {j})]
            /\ UNCHANGED <<disk, synced, handle>>
      BY <1>1, <1>5 DEF TickWake, Idle
    <2> DEFINE x == ExecTick(j, Due(mem, now) \ {j})
    <2>2. /\ x.st = "exec" /\ x.cur = j /\ x.due = Due(mem, now) \ {j} /\ x.began = now
          /\ ~x.detached
      BY DEF ExecTick
    <2>3. ticks' = [ticks EXCEPT ![t] = x]
      BY <2>1
    <2> HIDE DEF x
    <2>4. ticks'[t] = x /\ \A i \in TickIds \ {t} : ticks'[i] = ticks[i]
      BY <1>2, <2>3
    <2>5. Executing' = {t}
      BY <1>2, <2>2, <2>4 DEF Executing, IInv, LiveTickIsHandle
    <2>6. UNCHANGED <<now, sched, up, ext, doneAt>>
      BY DEF TickWake, Idle
    <2>7. QueueFresh'
      <3>1. \A k \in Due(mem, now) : (IF k = ticks'[t].cur THEN ticks'[t].began ELSE now') = now
        BY <2>2, <2>4, <2>6
      <3>2. (Queue(t))' = Due(mem, now) /\ ticks'[t].cur = j /\ ticks'[t].due = Due(mem, now) \ {j}
        BY <2>2, <2>4 DEF Queue
      <3> SUFFICES \A k \in Due(mem, now) :
                        /\ mem[k] # NoJob /\ mem[k].on /\ sched[k] # NoSched
                        /\ sched[k].kind = "at" => sched[k].ms <= now /\ doneAt[k].n = 0
                        /\ sched[k].kind = "every" /\ doneAt[k].n # 0 =>
                            now >= doneAt[k].at + sched[k].ms
        BY <2>1, <2>5, <2>6, <3>1, <3>2 DEF QueueFresh
      <3> QED
        BY DueFresh
    <2>8. Alone' /\ Covered'
      BY <2>1, <2>2, <2>4, <2>5, <2>6 DEF Undisturbed, Alone, Covered
    <2> QED
      BY <1>3, <2>1, <2>2, <2>4, <2>7, <2>8 DEF Undisturbed
  <1> QED
    BY <1>4, <1>5

\* A completed one-shot leaves the schedule, a completed interval moves on.
LEMMA FinishStep ==
    ASSUME IInv, OneShotsSpent, IntervalsAhead, NEW j \in JobIds, sched[j] # NoSched,
           sched[j].kind = "at" => sched[j].ms <= now /\ doneAt[j].n = 0,
           mem' = Finished(mem, j, now),
           doneAt' = [doneAt EXCEPT ![j] = [n |-> Bump(doneAt[j].n), at |-> now]],
           UNCHANGED <<now, sched>>
    PROVE  /\ OneShotsSpent' /\ IntervalsAhead'
           /\ \A i \in JobIds \ {j} : mem'[i] = mem[i] /\ doneAt'[i] = doneAt[i]
  <1>1. mem \in Store /\ sched[j] \in Schedule /\ now \in Nat /\ sched[j].ms \in Nat
    BY DEF IInv, TypeOK, Schedule
  <1>2. doneAt'[j] = [n |-> Bump(doneAt[j].n), at |-> now]
    BY DEF IInv, TypeOK
  <1>3. \A i \in JobIds \ {j} : mem'[i] = mem[i] /\ doneAt'[i] = doneAt[i]
    BY <1>1 DEF Finished, Store, IInv, TypeOK
  <1>4. \A i \in JobIds \ {j} : i \in Scheduled(mem') <=> i \in Scheduled(mem)
    BY <1>3 DEF Scheduled
  <1>5. sched[j].kind = "at" => j \notin Scheduled(mem')
    <2>1. CASE mem[j] = NoJob
      BY <2>1 DEF Finished, Scheduled
    <2>2. CASE mem[j] # NoJob /\ sched[j].kind = "at"
      <3>1. mem'[j] = NoJob \/ mem'[j] = [on |-> FALSE, next |-> 0, ran |-> TRUE]
        BY <1>1, <2>2 DEF Finished, Store
      <3> QED
        BY <3>1 DEF Scheduled
    <2> QED
      BY <2>1, <2>2
  <1>6. sched[j].kind = "every" /\ j \in Scheduled(mem') => mem'[j].next = now + sched[j].ms
    <2>1. CASE mem[j] = NoJob
      BY <2>1 DEF Finished, Scheduled
    <2>2. CASE mem[j] # NoJob /\ sched[j].kind = "every"
      <3>1. mem[j] \in Job
        BY <2>2, <1>1 DEF Store
      <3>2. mem'[j] = [mem[j] EXCEPT !.next = NextRun(sched[j], now), !.ran = TRUE]
        BY <1>1, <2>2 DEF Finished, Store
      <3>3. mem'[j].next = NextRun(sched[j], now)
        BY <3>1, <3>2 DEF Job
      <3>4. NextRun(sched[j], now) = 0 \/ NextRun(sched[j], now) = now + sched[j].ms
        BY <1>1, <2>2, NextRunFacts
      <3> QED
        BY <3>3, <3>4 DEF Scheduled
    <2> QED
      BY <2>1, <2>2
  <1>7. doneAt'[j].at = now /\ (doneAt[j].n = 0 => doneAt'[j].n = 1)
    BY <1>2 DEF Bump
  <1>8. OneShotsSpent'
    BY <1>3, <1>4, <1>5, <1>7 DEF OneShotsSpent
  <1>9. IntervalsAhead'
    <2> SUFFICES ASSUME NEW i \in JobIds, sched[i] # NoSched, sched[i].kind = "every", doneAt'[i].n # 0
                 PROVE  /\ doneAt'[i].at <= now
                        /\ i \in Scheduled(mem') => mem'[i].next >= doneAt'[i].at + sched[i].ms
      BY DEF IntervalsAhead
    <2>1. CASE i = j
      BY <1>1, <1>6, <1>7, <2>1
    <2>2. CASE i # j
      BY <1>3, <1>4, <2>2 DEF IntervalsAhead
    <2> QED
      BY <2>1, <2>2
  <1> QED
    BY <1>3, <1>8, <1>9

LEMMA ExecDoneUndisturbed ==
    ASSUME IInv, Undisturbed, NEW t \in TickIds, ExecDone(t)
    PROVE  /\ Undisturbed' /\ t \in Executing
           /\ \/ Executing' = {}
              \/ /\ mem'[ticks'[t].cur] = mem[ticks'[t].cur] /\ ticks'[t].cur \in ticks[t].due
                 /\ \A i \in TickIds \ {t} : ticks'[i] = ticks[i]
  <1> DEFINE j == ticks[t].cur
  <1>1. /\ ticks \in [TickIds -> Tick] /\ ticks[t] \in Tick /\ now \in Nat
        /\ t \in Executing /\ t = handle /\ up /\ j \in JobIds /\ ~ticks[t].detached
    BY DEF ExecDone, Idle, Executing, IInv, TypeOK, ExecHasJob, LiveTickIsHandle, Undisturbed, Alone
  <1>2. /\ j \notin ticks[t].due /\ ticks[t].due \subseteq JobIds
        /\ \A k \in ticks[t].due : mem[k] # NoJob /\ mem[k].on
        /\ \A k \in ticks[t].due \cup {j} :
            /\ sched[k] # NoSched
            /\ sched[k].kind = "at" => sched[k].ms <= now /\ doneAt[k].n = 0
            /\ sched[k].kind = "every" /\ doneAt[k].n # 0 =>
                (IF k = j THEN ticks[t].began ELSE now) >= doneAt[k].at + sched[k].ms
    BY <1>1 DEF Undisturbed, QueueFresh, Queue, Tick
  <1> DEFINE store == Finished(mem, j, now)
  <1>3. /\ mem' = store /\ UNCHANGED <<now, sched, up, ext>>
        /\ doneAt' = [doneAt EXCEPT ![j] = [n |-> Bump(doneAt[j].n), at |-> now]]
    BY <1>1 DEF ExecDone, Idle, Save
  <1>4. store \in Store
    BY <1>1, FinishedType DEF IInv, TypeOK, KnownSchedules
  <1>5. /\ OneShotsSpent' /\ IntervalsAhead'
        /\ \A i \in JobIds \ {j} : mem'[i] = mem[i] /\ doneAt'[i] = doneAt[i]
    BY <1>1, <1>2, <1>3, FinishStep DEF Undisturbed
  <1>6. CASE ticks[t].due = {}
    <2> DEFINE tk == [ticks EXCEPT ![t] = FreeTick]
    <2>1. FreeTick \in Tick /\ FreeTick.st = "free" /\ ~FreeTick.detached
      BY DEF FreeTick, Tick
    <2>2. /\ tk \in [TickIds -> Tick]
          /\ \A i \in TickIds : (tk[i].st # "free" => i = handle) /\ ~tk[i].detached
      BY <1>1, <2>1 DEF IInv, LiveTickIsHandle, Undisturbed, Alone
    <2>3. Save(store) /\ Arm(tk, store)
      BY <1>1, <1>6 DEF ExecDone, Idle
    <2> HIDE DEF tk, store
    <2>4. /\ synced' /\ Executing' = {} /\ QueueFresh'
          /\ \A i \in TickIds : ~ticks'[i].detached
          /\ Covered'
      BY <1>4, <2>2, <2>3, ArmCovers DEF IInv, TypeOK
    <2> QED
      BY <1>1, <1>3, <1>5, <2>4 DEF Undisturbed, Alone
  <1>7. CASE ticks[t].due # {}
    <2>1. PICK k \in ticks[t].due :
            /\ ticks' = [ticks EXCEPT ![t].cur = k, ![t].due = ticks[t].due \ {k},
                                      ![t].began = now]
            /\ UNCHANGED <<disk, synced, handle>>
      BY <1>7 DEF ExecDone, Idle
    <2>2. /\ ticks'[t].st = "exec" /\ ticks'[t].cur = k /\ ticks'[t].due = ticks[t].due \ {k}
          /\ ticks'[t].began = now /\ ~ticks'[t].detached
          /\ \A i \in TickIds \ {t} : ticks'[i] = ticks[i]
      BY <1>1, <2>1 DEF Tick, ExecDone, Idle
    <2>3. Executing' = {t}
      BY <1>1, <2>2 DEF Executing, IInv, LiveTickIsHandle
    <2>4. QueueFresh'
      <3> SUFFICES /\ k \notin ticks[t].due \ {k}
                   /\ \A i \in ticks[t].due \ {k} : mem'[i] # NoJob /\ mem'[i].on
                   /\ \A i \in (ticks[t].due \ {k}) \cup {k} :
                        /\ sched[i] # NoSched
                        /\ sched[i].kind = "at" => sched[i].ms <= now /\ doneAt'[i].n = 0
                        /\ sched[i].kind = "every" /\ doneAt'[i].n # 0 =>
                            (IF i = k THEN now ELSE now) >= doneAt'[i].at + sched[i].ms
        BY <1>3, <2>2, <2>3 DEF QueueFresh, Queue
      <3> HIDE DEF j
      <3>1. \A i \in ticks[t].due : i \in JobIds \ {j} /\ mem'[i] = mem[i] /\ doneAt'[i] = doneAt[i]
        BY <1>2, <1>5
      <3> QED
        BY <1>2, <2>1, <3>1
    <2>5. Alone' /\ Covered'
      BY <1>3, <2>1, <2>2, <2>3 DEF Undisturbed, Alone, Covered
    <2>6. mem'[k] = mem[k]
      BY <1>2, <1>5
    <2> QED
      BY <1>1, <1>5, <2>2, <2>4, <2>5, <2>6 DEF Undisturbed
  <1> QED
    BY <1>6, <1>7

\* What no step but a tick's own starts: a turn.
LEMMA OwnStep ==
    ASSUME IInv, Undisturbed, Clock \/ Start \/ Stop \/ Stat \/ Tool
    PROVE  Undisturbed' /\ (Executing' = {} \/ ticks' = ticks)
  <1>1. ToolList => Undisturbed' /\ ticks' = ticks
    BY LoadOnlyUndisturbed DEF ToolList, Idle
  <1> QED
    BY <1>1, ClockUndisturbed, StatUndisturbed, StartUndisturbed, StopUndisturbed, ToolAddUndisturbed,
       ToolRemoveUndisturbed DEF Tool

LEMMA InitUndisturbed == Init => AloneInv
  <1> SUFFICES ASSUME Init PROVE AloneInv
    OBVIOUS
  <1>1. FreeTick.st = "free" /\ ~FreeTick.detached
    BY DEF FreeTick
  <1>2. Scheduled(mem) = {} /\ Executing = {}
    BY <1>1 DEF Init, EmptyStore, Scheduled, Executing
  <1>3. Alone /\ OneShotsSpent /\ IntervalsAhead
    BY <1>1 DEF Init, Alone, OneShotsSpent, IntervalsAhead
  <1>4. QueueFresh /\ Covered
    BY <1>2 DEF QueueFresh, Covered
  <1> QED
    BY <1>3, <1>4 DEF AloneInv, Undisturbed, Init

\* As long as nobody has edited the file, nobody is about to; and a first edit
\* cannot be undone.
LEMMA EditsCount ==
    ASSUME IInv, AloneInv, External
    PROVE  extLeft' <= MaxExt /\ ~Unedited'
  <1>1. extLeft \in Nat /\ extLeft <= MaxExt /\ (ext.busy => extLeft # MaxExt)
    BY DEF IInv, TypeOK, AloneInv, Unedited, Undisturbed, Alone
  <1>2. CASE ExtLoad
    BY <1>1, <1>2 DEF ExtLoad, Unedited
  <1>3. CASE ext.busy /\ extLeft' = extLeft
    BY <1>1, <1>3 DEF Unedited
  <1> QED
    BY <1>2, <1>3
       DEF External, ExtAdd, ExtRemove, ExtEnable, ExtRun, ExtNotFound, ExtWrite

LEMMA NextUndisturbed == IInv /\ AloneInv /\ [Next]_vars => AloneInv'
  <1> SUFFICES ASSUME IInv, AloneInv, [Next]_vars PROVE AloneInv'
    OBVIOUS
  <1>1. External => AloneInv'
    BY EditsCount DEF AloneInv
  <1>2. CASE extLeft' = extLeft /\ (Unedited => Undisturbed')
    BY <1>2 DEF AloneInv, Unedited
  <1>3. Clock \/ Start \/ Stop \/ Stat \/ Tool \/ Timer => extLeft' = extLeft
    BY DEF Clock, Start, Stop, Stat, Tool, ToolAdd, ToolRemove, ToolList, Timer, TickWake, Idle, ExecDone
  <1>4. Unedited /\ (Clock \/ Start \/ Stop \/ Stat \/ Tool \/ Timer) => Undisturbed'
    BY OwnStep, TickWakeUndisturbed, ExecDoneUndisturbed DEF AloneInv, Timer
  <1>5. UNCHANGED vars => AloneInv'
    BY DEF vars, AloneInv, Unedited, Undisturbed, Alone, OneShotsSpent, IntervalsAhead,
           QueueFresh, Executing, Queue, Covered
  <1> QED
    BY <1>1, <1>2, <1>3, <1>4, <1>5 DEF Next

LEMMA AloneHolds == Spec => []AloneInv
  <1> QED
    BY InvariantHolds, InitUndisturbed, NextUndisturbed, PTL DEF Spec

\* Without edits from outside, the file is never edited from outside.
LEMMA StaysUnedited == MaxExt = 0 => (Spec => []Undisturbed)
  <1> SUFFICES ASSUME MaxExt = 0 PROVE Spec => []Undisturbed
    OBVIOUS
  <1>1. IInv /\ AloneInv => Undisturbed
    BY DEF IInv, TypeOK, AloneInv, Unedited
  <1> QED
    BY <1>1, InvariantHolds, AloneHolds, PTL

\* Until another process edits jobs.json the timer is armed, between ticks, for
\* the earliest job: no due job is forgotten.
THEOREM TimerCovers == Spec => []TimerCoversEarliest
  <1>1. AloneInv => TimerCoversEarliest
    BY DEF AloneInv, Undisturbed, TimerCoversEarliest
  <1> QED
    BY <1>1, AloneHolds, PTL

\* The same of one-shots: none completes twice, whatever cancellations, crashes
\* and restarts come between its turn and the save that follows it.
THEOREM OneShotsOnce == Spec => []OneShotCompletesOnce
  <1>1. IInv /\ AloneInv => OneShotCompletesOnce
    BY DEF IInv, TypeOK, AloneInv, Undisturbed, OneShotsSpent, OneShotCompletesOnce
  <1> QED
    BY <1>1, InvariantHolds, AloneHolds, PTL

IntervalStep ==
    \A t \in TickIds :
        LET j == ticks[t].cur IN
        (ticks[t].st = "exec" /\ Completes(j) /\ sched[j].kind = "every" /\ doneAt[j].n > 0)
            => ticks[t].began >= doneAt[j].at + sched[j].ms

LEMMA IntervalStepHolds == IInv /\ Undisturbed => IntervalStep
  <1> SUFFICES ASSUME IInv, Undisturbed, NEW t \in Executing,
                      sched[ticks[t].cur].kind = "every", doneAt[ticks[t].cur].n > 0
               PROVE  ticks[t].began >= doneAt[ticks[t].cur].at + sched[ticks[t].cur].ms
    BY DEF IntervalStep, Executing
  <1> DEFINE j == ticks[t].cur
  <1>1. j \in JobIds /\ doneAt[j].n \in 0..2
    BY DEF Executing, IInv, TypeOK, ExecHasJob
  <1> QED
    BY <1>1 DEF Undisturbed, QueueFresh, Queue

\* A gateway alone with its file keeps its intervals: a turn that completes began
\* an interval or more after the job last completed, restarts included.
THEOREM IntervalsAreKept == MaxExt = 0 => (Spec => IntervalKept)
  <1> SUFFICES ASSUME MaxExt = 0 PROVE Spec => IntervalKept
    OBVIOUS
  <1>1. IInv /\ Undisturbed => [IntervalStep]_vars
    BY IntervalStepHolds
  <1> QED
    BY <1>1, InvariantHolds, StaysUnedited, PTL DEF IntervalKept, IntervalStep

StartStep == \A j \in JobIds : Starts(j) => mem'[j] # NoJob /\ mem'[j].on

LEMMA StartStepHolds == IInv /\ Undisturbed /\ ~External /\ [Next]_vars => [StartStep]_vars
  <1> SUFFICES ASSUME IInv, Undisturbed, ~External, [Next]_vars, NEW j \in JobIds, Starts(j)
               PROVE  mem'[j] # NoJob /\ mem'[j].on
    BY DEF StartStep
  <1>1. PICK t \in TickIds : /\ ticks'[t].st = "exec" /\ ticks'[t].cur = j
                             /\ ticks[t].st # "exec" \/ ticks[t].cur # j
    BY DEF Starts
  <1>2. t \in Executing' /\ ticks'[t] # ticks[t]
    BY <1>1 DEF Executing
  <1>3. PICK i \in TickIds : TickWake(i) \/ ExecDone(i)
    BY <1>2, OwnStep DEF Next, Timer, vars
  <1>4. CASE TickWake(i)
    <2>1. mem' = mem /\ j \in Due(mem, now)
      BY <1>1, <1>2, <1>4, TickWakeUndisturbed
    <2> QED
      BY <2>1, DueFresh
  <1>5. CASE ExecDone(i)
    <2>1. mem'[j] = mem[j] /\ j \in ticks[i].due /\ i \in Executing
      BY <1>1, <1>2, <1>5, ExecDoneUndisturbed
    <2> QED
      BY <2>1 DEF Undisturbed, QueueFresh
  <1> QED
    BY <1>3, <1>4, <1>5

\* A gateway alone with its file starts no turn of a job that was removed or
\* disabled while the tick that listed it was busy with another.
THEOREM OnlyStoredStart == MaxExt = 0 => (Spec => OnlyStoredJobsStart)
  <1> SUFFICES ASSUME MaxExt = 0 PROVE Spec => OnlyStoredJobsStart
    OBVIOUS
  <1>1. IInv /\ AloneInv /\ IInv' => ~External
    BY EditsCount DEF IInv, TypeOK, Unedited
  <1>2. IInv /\ IInv' /\ AloneInv /\ Undisturbed /\ [Next]_vars => [StartStep]_vars
    BY <1>1, StartStepHolds
  <1> QED
    BY <1>2, InvariantHolds, AloneHolds, StaysUnedited, PTL DEF OnlyStoredJobsStart, StartStep, Spec
=============================================================================
