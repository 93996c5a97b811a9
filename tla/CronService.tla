---------------------------- MODULE CronService ----------------------------
(***************************************************************************)
(* The scheduler of one gateway process (nanobot/cron/service.py) together *)
(* with jobs.json, which other processes (the admin console and the        *)
(* "nanobot cron" commands) edit through CronService objects of their own. *)
(*                                                                         *)
(* The gateway is one asyncio loop: an action below is the code between    *)
(* two awaits.  A tick awaits twice, while it sleeps and while the agent   *)
(* turn of a job runs, and tool calls of chat turns (or of the job's own   *)
(* turn) run there.  Job order inside a tick is left open.  Other          *)
(* processes may write between the gateway's write and its look at the     *)
(* mtime, with which such a piece of code ends.                            *)
(***************************************************************************)
EXTENDS Naturals, FiniteSets

CONSTANTS
    JobIds,     \* ids uuid4 may hand out; an id is used once
    NoJob,      \* "not in the store"
    NoSched,    \* schedule of an id nobody has used yet
    Schedules,  \* schedules callers ask for
    TickIds,    \* identities of the asyncio tasks made by _arm_timer
    MaxTime,    \* the clock stops here (bounds the state space)
    MaxExt      \* external edits of jobs.json (bounds the state space)

\* last_status/last_error are not kept, except that "ran" says whether a run
\* was recorded at all (last_run_at_ms is set).  next = 0 is Python's None.
Job == [on : BOOLEAN, next : Nat, ran : BOOLEAN]

\* del is delete_after_run.  ms = 0 stands for an interval or expression that
\* yields no run.
Schedule == [kind : {"at", "every", "cron"}, ms : Nat, del : BOOLEAN]

Store == [JobIds -> Job \cup {NoJob}]

\* What the gateway knows of the mtime of its last write: nothing yet, that another write may
\* still get the same, or that none will.
Stamps == {"unread", "fresh", "old"}

ASSUME NoJobAssumption == NoJob \notin Job
ASSUME SchedulesAssumption == Schedules \subseteq Schedule /\ NoSched \notin Schedule
ASSUME TickIdsAssumption == TickIds \subseteq Nat \ {0} /\ IsFiniteSet(TickIds)
ASSUME BoundsAssumption == MaxTime \in Nat /\ MaxExt \in Nat

VARIABLES
    now,      \* wall clock
    sched,    \* the schedule each id was created with; no operation edits it
    disk,     \* jobs.json
    up,       \* the gateway runs its CronService (_running)
    mem,      \* the gateway's self._store
    synced,   \* the file's mtime is self._last_mtime, or will be when _save_store reads it
    stamp,    \* the gateway's last write: mtime unread, of this very instant, or old
    missed,   \* a write by another process has the mtime the gateway takes for its own
    ticks,    \* tick tasks: free (finished or cancelled), asleep or executing
    handle,   \* self._timer_task, 0 when there is none
    ext,      \* an external process between its read and its write
    extLeft,  \* external edits left
    started,  \* history: turns begun per job, counted up to 2
    doneAt,   \* history: turns finished per job (up to 2) and the time of the last
    extOff    \* history: jobs an external edit disabled or removed last

vars == <<now, sched, disk, up, mem, synced, stamp, missed, ticks, handle, ext, extLeft,
          started, doneAt, extOff>>
gateway == <<up, mem, synced, stamp, missed, ticks, handle>>
history == <<started, doneAt, extOff>>

----------------------------------------------------------------------------
(* Pure parts of the service. *)

EmptyStore == [j \in JobIds |-> NoJob]

\* Mutants of NextRun: a delay instead of an instant; a one-shot in the past
\* kept; an interval that is one unit short.
NextRun_Delay(s, t) ==
    CASE s.kind = "at"    -> s.ms - t
      [] s.kind = "every" -> t + s.ms
      [] s.kind = "cron"  -> (t \div s.ms + 1) * s.ms
NextRun_KeepsPast(s, t) ==
    CASE s.kind = "at"    -> s.ms
      [] s.kind = "every" -> t + s.ms
      [] s.kind = "cron"  -> (t \div s.ms + 1) * s.ms
NextRun_Early(s, t) ==
    CASE s.kind = "at"    -> IF s.ms > t THEN s.ms ELSE 0
      [] s.kind = "every" -> t + s.ms - 1
      [] s.kind = "cron"  -> (t \div s.ms + 1) * s.ms

\* _compute_next_run: a one-shot in the past and a broken recurrence give None.
NextRun(s, t) ==
    CASE s.kind = "at"    -> IF s.ms > t THEN s.ms ELSE 0
      [] s.kind = "every" -> IF s.ms > 0 THEN t + s.ms ELSE 0
      [] s.kind = "cron"  -> IF s.ms > 0 THEN (t \div s.ms + 1) * s.ms ELSE 0

NewJob(s, t) == [on |-> TRUE, next |-> NextRun(s, t), ran |-> FALSE]

Scheduled(store) ==
    {j \in JobIds : store[j] # NoJob /\ store[j].on /\ store[j].next # 0}

Due(store, t) == {j \in Scheduled(store) : t >= store[j].next}

\* Mutant of NextWake: max for min.
NextWake_Latest(store) ==
    CHOOSE w \in {store[j].next : j \in Scheduled(store)} :
        \A j \in Scheduled(store) : w >= store[j].next

NextWake(store) ==
    CHOOSE w \in {store[j].next : j \in Scheduled(store)} :
        \A j \in Scheduled(store) : w <= store[j].next

\* _recompute_next_runs.
Recomputed(store, t) ==
    [j \in JobIds |->
        IF store[j] # NoJob /\ store[j].on
        THEN [store[j] EXCEPT !.next = NextRun(sched[j], t)]
        ELSE store[j]]

\* The part of _execute_job after the turn, on a job object of this store.
Finished(store, j, t) ==
    IF store[j] = NoJob THEN store
    ELSE [store EXCEPT ![j] =
        CASE sched[j].kind = "at" /\ sched[j].del -> NoJob
          [] sched[j].kind = "at" /\ ~sched[j].del ->
                [on |-> FALSE, next |-> 0, ran |-> TRUE]
          [] OTHER -> [@ EXCEPT !.next = NextRun(sched[j], t), !.ran = TRUE]]

\* The same when the job object is no longer in the store, because a reload
\* replaced it: only the delete filter, which goes by id, still has an effect.
FinishedDetached(store, j) ==
    IF sched[j].kind = "at" /\ sched[j].del
    THEN [store EXCEPT ![j] = NoJob] ELSE store

\* Mutant of Loaded: the mtime is not looked at.
Loaded_Cached == mem

\* _load_store: the cached store unless the mtime moved; note that a reload
\* does not record the mtime, only a save does.
Loaded == IF synced THEN mem ELSE disk

FreeTick == [st |-> "free", wake |-> 0, cur |-> NoJob, due |-> {},
             began |-> 0, detached |-> FALSE]

SleepTick(w) == [FreeTick EXCEPT !.st = "sleep", !.wake = w]

ExecTick(j, due) == [st |-> "exec", wake |-> 0, cur |-> j, due |-> due,
                     began |-> now, detached |-> FALSE]

\* A reload replaces the job objects a running tick holds.
Detach(tk) ==
    IF synced THEN tk
    ELSE [t \in TickIds |-> [tk[t] EXCEPT !.detached = (tk[t].st = "exec")]]

\* Mutant of Cancelled: the new task only replaces the old one.
Cancelled_Replaced(tk) == tk

\* _arm_timer first cancels the task it remembers, running or not.
Cancelled(tk) ==
    [t \in TickIds |-> IF t = handle THEN FreeTick ELSE tk[t]]

\* Mutant of Arm: no new task while an old one is remembered.
Arm_OnlyFirst(tk, store) ==
    IF Scheduled(store) = {} \/ handle # 0
    THEN ticks' = Cancelled(tk) /\ UNCHANGED handle
    ELSE \E t \in TickIds :
            /\ ticks' = [Cancelled(tk) EXCEPT ![t] = SleepTick(NextWake(store))]
            /\ handle' = t

Arm(tk, store) ==
    LET left == Cancelled(tk) IN
    IF Scheduled(store) = {}
    THEN ticks' = left /\ UNCHANGED handle
    ELSE \E t \in TickIds :
            /\ left[t].st = "free"
            /\ ticks' = [left EXCEPT ![t] = SleepTick(NextWake(store))]
            /\ handle' = t

\* _save_store up to the write; Stat reads the mtime.
Save(store) ==
    /\ mem' = store /\ disk' = store
    /\ synced' = TRUE /\ stamp' = "unread" /\ missed' = FALSE

\* The event loop has no save to finish.
Idle == up /\ stamp # "unread"

Bump(n) == IF n < 2 THEN n + 1 ELSE n

----------------------------------------------------------------------------
Init ==
    /\ now = 1
    /\ sched = [j \in JobIds |-> NoSched]
    /\ disk = EmptyStore
    /\ up = FALSE
    /\ mem = EmptyStore
    /\ synced = FALSE /\ stamp = "old" /\ missed = FALSE
    /\ ticks = [t \in TickIds |-> FreeTick]
    /\ handle = 0
    /\ ext = [busy |-> FALSE, store |-> EmptyStore]
    /\ extLeft = MaxExt
    /\ started = [j \in JobIds |-> 0]
    /\ doneAt = [j \in JobIds |-> [n |-> 0, at |-> 0]]
    /\ extOff = {}

Clock ==
    /\ now < MaxTime
    /\ now' = now + 1
    /\ stamp' = IF stamp = "fresh" THEN "old" ELSE stamp
    /\ UNCHANGED <<sched, disk, up, mem, synced, missed, ticks, handle, ext, extLeft, history>>

\* start(), the first load of a fresh process included.
Start ==
    /\ ~up
    /\ up' = TRUE
    /\ LET store == Recomputed(disk, now) IN
        /\ Save(store)
        /\ Arm(ticks, store)
    /\ UNCHANGED <<now, sched, ext, extLeft, history>>

\* stop() and the end of the process, or a crash: nothing is saved.
Stop ==
    /\ up
    /\ up' = FALSE
    /\ mem' = EmptyStore
    /\ synced' = FALSE /\ stamp' = "old" /\ missed' = FALSE
    /\ ticks' = [t \in TickIds |-> FreeTick]
    /\ handle' = 0
    /\ UNCHANGED <<now, sched, disk, ext, extLeft, history>>

\* _save_store asks the file for its mtime, which is that of the last write, whoever's.
Stat ==
    /\ stamp = "unread"
    /\ stamp' = "fresh"
    /\ UNCHANGED <<now, sched, disk, up, mem, synced, missed, ticks, handle, ext, extLeft, history>>

\* The sleep of a tick ends: _on_timer up to the first turn, or to its end
\* when nothing is due.
TickWake(t) ==
    /\ Idle
    /\ ticks[t].st = "sleep"
    /\ now >= ticks[t].wake
    /\ LET due == Due(Loaded, now)
           tk  == Detach(ticks)
       IN \/ /\ due = {}
             /\ Save(Loaded)
             /\ Arm([tk EXCEPT ![t] = FreeTick], Loaded)
             /\ UNCHANGED started
          \/ \E j \in due :
             /\ mem' = Loaded
             /\ ticks' = [tk EXCEPT ![t] = ExecTick(j, due \ {j})]
             /\ started' = [started EXCEPT ![j] = Bump(@)]
             /\ UNCHANGED <<disk, synced, stamp, missed, handle>>
    /\ UNCHANGED <<now, sched, up, ext, extLeft, doneAt, extOff>>

\* on_job returned or raised an Exception (both end the same way here), then
\* the next due job of the tick, or the save and the re-arm that end the tick.
ExecDone(t) ==
    /\ Idle
    /\ ticks[t].st = "exec"
    /\ LET j     == ticks[t].cur
           store == IF ticks[t].detached
                    THEN FinishedDetached(mem, j) ELSE Finished(mem, j, now)
       IN /\ doneAt' = [doneAt EXCEPT ![j] = [n |-> Bump(@.n), at |-> now]]
          /\ \/ /\ ticks[t].due = {}
                /\ Save(store)
                /\ Arm([ticks EXCEPT ![t] = FreeTick], store)
                /\ UNCHANGED started
             \/ \E k \in ticks[t].due :
                /\ mem' = store
                /\ ticks' = [ticks EXCEPT ![t].cur = k, ![t].due = @ \ {k},
                                          ![t].began = now]
                /\ started' = [started EXCEPT ![k] = Bump(@)]
                /\ UNCHANGED <<disk, synced, stamp, missed, handle>>
    /\ UNCHANGED <<now, sched, up, ext, extLeft, extOff>>

\* The cron tool, called by a chat turn; "add" is refused inside a job's turn,
\* which restricts the caller and not the call.  Tool one-shots delete themselves.
ToolAdd(j, s) ==
    /\ Idle
    /\ sched[j] = NoSched
    /\ s.del = (s.kind = "at")
    /\ sched' = [sched EXCEPT ![j] = s]
    /\ LET store == [Loaded EXCEPT ![j] = NewJob(s, now)] IN
        /\ Save(store)
        /\ Arm(Detach(ticks), store)
    /\ UNCHANGED <<now, up, ext, extLeft, history>>

ToolRemove(j) ==
    /\ Idle
    /\ sched[j] # NoSched
    /\ IF Loaded[j] # NoJob
       THEN LET store == [Loaded EXCEPT ![j] = NoJob] IN
            /\ Save(store)
            /\ Arm(Detach(ticks), store)
       ELSE /\ mem' = Loaded
            /\ ticks' = Detach(ticks)
            /\ UNCHANGED <<disk, synced, stamp, missed, handle>>
    /\ UNCHANGED <<now, sched, up, ext, extLeft, history>>

\* list_jobs: no job is scheduled or re-armed, but the store may be reloaded.
ToolList ==
    /\ Idle
    /\ mem' = Loaded
    /\ ticks' = Detach(ticks)
    /\ UNCHANGED <<now, sched, disk, up, synced, stamp, missed, handle, ext, extLeft, history>>

----------------------------------------------------------------------------
(* Another process edits jobs.json: a new CronService object, which has no  *)
(* timer and no on_job, reads the file, changes its copy and writes it.     *)

ExtLoad ==
    /\ ~ext.busy
    /\ extLeft > 0
    /\ extLeft' = extLeft - 1
    /\ ext' = [busy |-> TRUE, store |-> disk]
    /\ UNCHANGED <<now, sched, disk, gateway, history>>

\* A write moves the mtime (seen), but for one before the gateway has read the mtime of
\* its own, or within the same tick of the file system's clock.
ExtWrite(store) ==
    /\ ext.busy
    /\ disk' = store
    /\ \E seen \in BOOLEAN :
        /\ IF seen THEN stamp # "unread" ELSE stamp # "old"
        /\ synced' = (synced /\ ~seen) /\ missed' = (synced /\ ~seen)
    /\ ext' = [busy |-> FALSE, store |-> EmptyStore]
    /\ UNCHANGED <<now, up, mem, stamp, ticks, handle, extLeft, started, doneAt>>

ExtAdd(j, s) ==
    /\ sched[j] = NoSched
    /\ sched' = [sched EXCEPT ![j] = s]
    /\ ExtWrite([ext.store EXCEPT ![j] = NewJob(s, now)])
    /\ UNCHANGED extOff

ExtRemove(j) ==
    /\ ext.store[j] # NoJob
    /\ ExtWrite([ext.store EXCEPT ![j] = NoJob])
    /\ extOff' = extOff \cup {j}
    /\ UNCHANGED sched

ExtEnable(j, b) ==
    /\ ext.store[j] # NoJob
    /\ ExtWrite([ext.store EXCEPT ![j].on = b,
                                  ![j].next = IF b THEN NextRun(sched[j], now) ELSE 0])
    /\ extOff' = IF b THEN extOff \ {j} ELSE extOff \cup {j}
    /\ UNCHANGED sched

\* run_job(force=True): there is no on_job to await, the job is only recorded.
ExtRun(j) ==
    /\ ext.store[j] # NoJob
    /\ ExtWrite(Finished(ext.store, j, now))
    /\ UNCHANGED <<sched, extOff>>

\* remove_job and enable_job of an id that is not there write nothing.
ExtNotFound(j) ==
    /\ ext.busy
    /\ ext.store[j] = NoJob
    /\ ext' = [busy |-> FALSE, store |-> EmptyStore]
    /\ UNCHANGED <<now, sched, disk, gateway, extLeft, history>>

External ==
    \/ ExtLoad
    \/ \E j \in JobIds :
        \/ \E s \in Schedules : ExtAdd(j, s)
        \/ ExtRemove(j)
        \/ \E b \in BOOLEAN : ExtEnable(j, b)
        \/ ExtRun(j)
        \/ ExtNotFound(j)

----------------------------------------------------------------------------
Timer == \E t \in TickIds : TickWake(t) \/ ExecDone(t)

Tool ==
    \/ \E j \in JobIds : (\E s \in Schedules : ToolAdd(j, s)) \/ ToolRemove(j)
    \/ ToolList

Next == Clock \/ Start \/ Stop \/ Stat \/ Timer \/ Tool \/ External

Spec == Init /\ [][Next]_vars

\* The loop finishes a save, runs a tick whose sleep is over, and a turn ends (it
\* returns or raises).  Nothing makes users, processes or the clock act.
FairSpec == Spec /\ WF_vars(Stat) /\ \A t \in TickIds : WF_vars(TickWake(t)) /\ WF_vars(ExecDone(t))

----------------------------------------------------------------------------
Executing == {t \in TickIds : ticks[t].st = "exec"}

Tick == [st : {"free", "sleep", "exec"}, wake : Nat, cur : JobIds \cup {NoJob},
         due : SUBSET JobIds, began : Nat, detached : BOOLEAN]

\* The shape of the scheduler's state.
TypeOK ==
    /\ now \in Nat
    /\ sched \in [JobIds -> Schedule \cup {NoSched}]
    /\ disk \in Store
    /\ up \in BOOLEAN
    /\ mem \in Store
    /\ synced \in BOOLEAN /\ stamp \in Stamps /\ missed \in BOOLEAN
    /\ ticks \in [TickIds -> Tick]
    /\ handle \in TickIds \cup {0}
    /\ ext \in [busy : BOOLEAN, store : Store]
    /\ extLeft \in Nat
    /\ started \in [JobIds -> 0..2]
    /\ doneAt \in [JobIds -> [n : 0..2, at : Nat]]
    /\ extOff \subseteq JobIds

\* A tick that is asleep or executing is the one _arm_timer remembers and can
\* cancel, so two ticks never run jobs side by side.
LiveTickIsHandle == \A t \in TickIds : ticks[t].st # "free" => t = handle

\* The cached store is the file's content whenever the mtime says so, except
\* while a tick has finished jobs it has not saved yet, and when another process has
\* written at the instant of the gateway's own write.
CacheCoherent == up /\ synced /\ ~missed /\ Executing = {} => mem = disk

\* Whatever copy of the store holds a job, its schedule is known.
KnownSchedules ==
    \A j \in JobIds :
        mem[j] # NoJob \/ disk[j] # NoJob \/ ext.store[j] # NoJob => sched[j] # NoSched

\* A tick that executes has a job.
ExecHasJob == \A t \in TickIds : ticks[t].st = "exec" => ticks[t].cur \in JobIds

\* The invariant every action preserves.
IInv == TypeOK /\ KnownSchedules /\ ExecHasJob /\ LiveTickIsHandle /\ CacheCoherent

\* Nobody but the gateway has edited jobs.json so far.
Unedited == extLeft = MaxExt

\* Between ticks the timer is armed for the earliest job of the store.
Covered ==
    up /\ Executing = {} => \A j \in Scheduled(mem) :
        handle # 0 /\ ticks[handle].st = "sleep" /\ ticks[handle].wake <= mem[j].next

\* No due job is forgotten, whatever tool calls re-arm or cancel, until an edit of
\* jobs.json passes the gateway by.
TimerCoversEarliest == Unedited => Covered

Queue(t) == ticks[t].due \cup {ticks[t].cur}

\* Nothing the gateway holds is stale.
Alone ==
    /\ ~ext.busy
    /\ up => synced
    /\ \A t \in TickIds : ~ticks[t].detached

\* A one-shot's run is due at its instant; one that has completed is past it and
\* not scheduled again, whatever a crash left in the file.
OneShotsSpent ==
    \A j \in JobIds :
        /\ sched[j] = NoSched => doneAt[j].n = 0
        /\ sched[j] # NoSched /\ sched[j].kind = "at" =>
            /\ j \in Scheduled(mem) => mem[j].next = sched[j].ms
            /\ doneAt[j].n # 0 => doneAt[j].n = 1 /\ sched[j].ms <= now /\ j \notin Scheduled(mem)

\* An interval job that has completed is scheduled an interval later or more.
IntervalsAhead ==
    \A j \in JobIds : sched[j] # NoSched /\ sched[j].kind = "every" /\ doneAt[j].n # 0 =>
        /\ doneAt[j].at <= now
        /\ j \in Scheduled(mem) => mem[j].next >= doneAt[j].at + sched[j].ms

\* The jobs an executing tick has yet to finish were due when it woke, and
\* nothing has changed them since.
QueueFresh ==
    \A t \in Executing :
        /\ ticks[t].cur \notin ticks[t].due
        /\ \A k \in ticks[t].due : mem[k] # NoJob /\ mem[k].on
        /\ \A k \in Queue(t) :
            /\ sched[k] # NoSched
            /\ sched[k].kind = "at" => sched[k].ms <= now /\ doneAt[k].n = 0
            /\ sched[k].kind = "every" /\ doneAt[k].n # 0 =>
                (IF k = ticks[t].cur THEN ticks[t].began ELSE now) >= doneAt[k].at + sched[k].ms

\* What holds besides until another process edits the file for the first time.
Undisturbed ==
    Alone /\ OneShotsSpent /\ IntervalsAhead /\ QueueFresh /\ Covered

AloneInv == extLeft <= MaxExt /\ (Unedited => Undisturbed)

\* A one-shot completes at most once, over cancellations, crashes and restarts, as long as
\* no other process edits the file.
OneShotCompletesOnce ==
    Unedited => \A j \in JobIds : sched[j] # NoSched /\ sched[j].kind = "at" => doneAt[j].n <= 1

Starts(j) ==
    \E t \in TickIds : /\ ticks'[t].st = "exec" /\ ticks'[t].cur = j
                       /\ ticks[t].st # "exec" \/ ticks[t].cur # j

Completes(j) == doneAt'[j] # doneAt[j]

\* An interval job that completes began no earlier than one interval after it
\* completed before, whatever tool calls, crashes and restarts came between.
IntervalKept ==
    [][\A t \in TickIds :
        LET j == ticks[t].cur IN
        (ticks[t].st = "exec" /\ Completes(j) /\ sched[j].kind = "every" /\ doneAt[j].n > 0)
            => ticks[t].began >= doneAt[j].at + sched[j].ms]_vars

\* A job the gateway's store no longer holds, or holds disabled, never starts,
\* although a tick does not look at its list of due jobs again.
OnlyStoredJobsStart ==
    [][\A j \in JobIds : Starts(j) => mem'[j] # NoJob /\ mem'[j].on]_vars

\* A tick that wakes starts no job that jobs.json does not hold enabled and due,
\* whoever wrote the file last; but for a write that came between the gateway's own and
\* its look at the mtime, or so soon after that the mtime is the same.
WakeStep ==
    \A t \in TickIds : ticks[t].st = "sleep" /\ ticks'[t].st = "exec" /\ ~missed
        => ticks'[t].cur \in Due(disk, now)

WakeHonoursFile == [][WakeStep]_vars

\* A due job is run, unless it is removed or disabled, the gateway stops or another process
\* edits the file.
DueJobRuns ==
    \A j \in JobIds :
        (up /\ Unedited /\ j \in Due(mem, now))
            ~> (~up \/ ~Unedited \/ j \notin Due(mem, now) \/ \E t \in Executing : ticks[t].cur = j)

----------------------------------------------------------------------------
(* What documentation, comments and tests say, and the code does not do. *)

\* "runs once at a specific time, then auto-deletes": its turn begins once.
OneShotRunsOnce ==
    \A j \in JobIds : sched[j] # NoSched /\ sched[j].kind = "at" => started[j] <= 1

\* A running service honours a disable (or removal) written by another process.
HonoursExternalDisable == [][\A j \in JobIds : Starts(j) => j \notin extOff]_vars
=============================================================================
