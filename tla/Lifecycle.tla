----------------------------- MODULE Lifecycle -----------------------------
(***************************************************************************)
(* How an instance is started, stopped and kept running.                   *)
(*                                                                         *)
(* The admin server keeps, per instance, scripts generated for the runtime *)
(* mode of its configuration.  In host mode start.sh launches a watchdog   *)
(* that launches the gateway, and relaunches it when it dies; in sandbox   *)
(* mode the gateway is a container.  What the scripts know of each other   *)
(* and of the watchdog is in three files of the instance's run directory:  *)
(*                                                                         *)
(*   gateway.pid, gateway.watchdog.pid     two process ids (0: no file)    *)
(*   gateway.stop                          a stop is under way             *)
(*                                                                         *)
(* Handlers of the admin server (threads) run the scripts without a lock,  *)
(* each with a limit of time; what a script has started outlives it.       *)
(* Every command of a script that touches a file or a process, and every   *)
(* command of the watchdog, is one action.  A process id is used once per  *)
(* boot of the machine; after a reboot the files still hold the old ones,  *)
(* and other processes may have got them.                                  *)
(***************************************************************************)
EXTENDS Integers, FiniteSets

CONSTANTS
    Threads,   \* handlers of the admin server
    Setups,    \* deployments: the mode at first, the operations offered, and bounds on operations,
               \* deaths of the runtime, reboots, and scripts that exceed their time limit
    MaxPid,    \* bound on process ids; no behaviour within a setup's bounds reaches it
    None

Modes == {"host", "sandbox"}
Scripts == {"start", "stop", "restart"}
Ops == Scripts \cup {"status", "reload", "connector", "host", "sandbox", "rawHost", "rawSandbox", "delete", "create"}
Pids == 1..MaxPid

\* What is known of a process, and one that has just been launched.
ProcessType == [kind : {"dog", "gateway", "other"},
                pc : {"boot", "check", "launch", "forked", "wait", "woken", "pause", "reap", "up"},
                child : 0..MaxPid, termed : BOOLEAN, stale : BOOLEAN]
Process(kind) == [kind |-> kind, pc |-> "boot", child |-> 0, termed |-> FALSE, stale |-> FALSE]

ASSUME LifecycleAssumption ==
    /\ Setups \subseteq [mode : Modes, offered : SUBSET Ops, beside : SUBSET {"probe", "overlap"}, ops : Nat, deaths : Nat, reboots : Nat, cuts : Nat]
    /\ MaxPid \in Nat /\ \A s \in Setups : 2 * s.ops + s.deaths + 2 <= MaxPid
    /\ None \notin Pids /\ None # 0 /\ None \notin Ops \cup {"orphan"} /\ None \notin ProcessType

VARIABLES
    setup,                         \* the deployment; it does not change
    mode, registered, flag,        \* config.json: the runtime mode and restart_required; the registry entry
    pidfile, dogfile, stopfile,    \* the run directory
    proc,                          \* the processes of the machine
    used,                          \* the last process id given out since the boot
    container, boxStale,           \* the container, and whether it runs an old configuration
    thr,                           \* per thread, or script that outlives its handler ("orphan"): the operation,
                                   \* its place in it, and its shell variables
    ops, deaths, reboots, cuts,
    hurt,                          \* history: the scripts that signalled a foreign process
    lapses                         \* history: what excuses the scripts; listed before the invariants

files == <<pidfile, dogfile, stopfile>>
config == <<mode, registered, flag>>
box == <<container, boxStale>>
machine == <<proc, used>>
bounds == <<ops, deaths, reboots, cuts>>
vars == <<setup, config, files, machine, box, thr, bounds, hurt, lapses>>

----------------------------------------------------------------------------
\* Processes.

Alive(p) == p \in Pids /\ proc[p] # None
Is(p, kind) == Alive(p) /\ proc[p].kind = kind
Are(kind) == {p \in Pids : Is(p, kind)}
Fresh == used + 1

\* A watchdog whose traps are not set yet is ended by TERM at once.
Termed(ps, p) ==
    IF ps[p].kind = "dog" /\ ps[p].pc = "boot" THEN [ps EXCEPT ![p] = None] ELSE [ps EXCEPT ![p].termed = TRUE]

Foreign(p) == Is(p, "other")

\* A script sends TERM to whatever process has this id.
Signal(p, script) ==
    /\ proc' = IF Alive(p) THEN Termed(proc, p) ELSE proc
    /\ hurt' = IF Foreign(p) THEN hurt \cup {script} ELSE hurt

Destroy(p) == proc' = IF Alive(p) THEN [proc EXCEPT ![p] = None] ELSE proc

\* A gateway or a container that nobody has asked to end.
Serving == {g \in Are("gateway") : ~proc[g].termed}
Watching == {d \in Are("dog") : ~proc[d].termed}
Runtimes == Cardinality(Serving) + (IF container = "running" THEN 1 ELSE 0)

Idle == [op |-> None, stage |-> "script", at |-> "idle", fix |-> None, dog |-> 0, gateway |-> 0]

Init ==
    /\ setup \in Setups
    /\ mode = setup.mode /\ registered = TRUE /\ flag = FALSE
    /\ pidfile = 0 /\ dogfile = 0 /\ stopfile = FALSE
    /\ proc = [p \in Pids |-> None] /\ used = 0
    /\ container = "none" /\ boxStale = FALSE
    /\ thr = [t \in Threads |-> Idle]
    /\ ops = 0 /\ deaths = 0 /\ reboots = 0 /\ cuts = 0
    /\ hurt = {} /\ lapses = {}

----------------------------------------------------------------------------
\* The watchdog.

Dog(d, pc) == Is(d, "dog") /\ ~proc[d].termed /\ proc[d].pc = pc

Attend(d) ==
    /\ Dog(d, "boot")
    /\ proc' = [proc EXCEPT ![d].pc = "check"]
    /\ dogfile' = d
    /\ UNCHANGED <<pidfile, stopfile, used, lapses>>

\* It ends: the trap on EXIT removes both files, whatever they hold.
Leave(d, ps) ==
    /\ proc' = [ps EXCEPT ![d] = None]
    /\ pidfile' = 0 /\ dogfile' = 0

CheckStop(d) ==
    /\ Dog(d, "check")
    /\ IF stopfile
       THEN Leave(d, proc) /\ stopfile' = FALSE
       ELSE /\ proc' = [proc EXCEPT ![d].pc = "launch"]
            /\ UNCHANGED files
    /\ UNCHANGED <<used, lapses>>

\* The shell of the watchdog does not know the child before Note.
Launch(d) ==
    /\ Dog(d, "launch") /\ Fresh \in Pids
    /\ used' = Fresh
    /\ proc' = [proc EXCEPT ![d].pc = "forked", ![d].child = Fresh, ![Fresh] = Process("gateway")]
    /\ UNCHANGED <<files, lapses>>

Note(d) ==
    /\ Dog(d, "forked")
    /\ proc' = [proc EXCEPT ![d].pc = "wait"]
    /\ pidfile' = proc[d].child
    /\ UNCHANGED <<dogfile, stopfile, used, lapses>>

Wake(d) ==
    /\ Dog(d, "wait") /\ ~Alive(proc[d].child)
    /\ proc' = [proc EXCEPT ![d].pc = "woken", ![d].child = 0]
    /\ pidfile' = 0
    /\ UNCHANGED <<dogfile, stopfile, used, lapses>>

\* Mutant of Decide: whatever ended the gateway, the watchdog leaves.
Decide_Leave(d) ==
    /\ Dog(d, "woken")
    /\ Leave(d, proc) /\ stopfile' = FALSE
    /\ UNCHANGED <<used, lapses>>

Decide(d) ==
    /\ Dog(d, "woken")
    /\ IF stopfile
       THEN Leave(d, proc) /\ stopfile' = FALSE
       ELSE /\ proc' = [proc EXCEPT ![d].pc = "pause"]
            /\ UNCHANGED files
    /\ UNCHANGED <<used, lapses>>

\* sleep 5: a TERM that comes meanwhile is handled when it ends.
Resume(d) ==
    /\ Is(d, "dog") /\ proc[d].pc = "pause"
    /\ proc' = [proc EXCEPT ![d].pc = "check"]
    /\ UNCHANGED <<files, used, lapses>>

OnTerm(d) ==
    /\ Is(d, "dog") /\ proc[d].termed /\ proc[d].pc \notin {"boot", "pause", "reap"}
    /\ stopfile' = TRUE
    /\ IF proc[d].pc = "forked"
       THEN /\ proc' = [proc EXCEPT ![d].pc = "reap", ![d].child = 0]
            /\ lapses' = lapses \cup {"slip"}
       ELSE /\ proc' = [p \in Pids |-> IF p = d THEN [proc[d] EXCEPT !.pc = "reap"]
                                       ELSE IF p = proc[d].child /\ Alive(p) THEN [proc[p] EXCEPT !.termed = TRUE]
                                       ELSE proc[p]]
            /\ UNCHANGED lapses
    /\ UNCHANGED <<pidfile, dogfile, used>>

\* It waits ten seconds for the gateway and then kills it.
Reap(d) ==
    /\ Is(d, "dog") /\ proc[d].pc = "reap"
    /\ Leave(d, [p \in Pids |-> IF p = proc[d].child THEN None ELSE proc[p]])
    /\ UNCHANGED <<stopfile, used, lapses>>

DogStep(d) ==
    /\ \/ Attend(d) \/ CheckStop(d) \/ Launch(d) \/ Note(d) \/ Wake(d) \/ Decide(d)
       \/ Resume(d) \/ OnTerm(d) \/ Reap(d)
    /\ UNCHANGED <<setup, config, box, thr, bounds, hurt>>

----------------------------------------------------------------------------
\* The gateway, and what happens to the machine.

\* It has read its configuration and handles HUP.
Up(g) ==
    /\ Is(g, "gateway") /\ proc[g].pc = "boot"
    /\ proc' = [proc EXCEPT ![g].pc = "up"]
    /\ UNCHANGED <<setup, config, files, used, box, thr, bounds, hurt, lapses>>

End(g) ==
    /\ Is(g, "gateway") /\ proc[g].termed
    /\ proc' = [proc EXCEPT ![g] = None]
    /\ UNCHANGED <<setup, config, files, used, box, thr, bounds, hurt, lapses>>

Die ==
    /\ deaths < setup.deaths /\ deaths' = deaths + 1
    /\ \/ \E g \in Serving : proc' = [proc EXCEPT ![g] = None] /\ UNCHANGED container
       \/ container = "running" /\ container' = "exited" /\ UNCHANGED proc
    /\ UNCHANGED <<setup, config, files, used, boxStale, thr, ops, reboots, cuts, hurt, lapses>>

Reboot ==
    /\ reboots < setup.reboots /\ reboots' = reboots + 1
    /\ proc' = [p \in Pids |-> None] /\ used' = 0
    /\ container' = IF container = "running" THEN "exited" ELSE container
    /\ thr' = [t \in Threads |-> Idle]
    /\ UNCHANGED <<setup, config, files, boxStale, ops, deaths, cuts, hurt, lapses>>

\* Another program gets a process id that may still be in the files.
Stranger ==
    /\ reboots > 0 /\ Fresh \in {pidfile, dogfile} /\ Fresh \in Pids
    /\ used' = Fresh
    /\ proc' = [proc EXCEPT ![Fresh] = Process("other")]
    /\ UNCHANGED <<setup, config, files, box, thr, bounds, hurt, lapses>>

----------------------------------------------------------------------------
\* Seconds pass only when no watchdog has a command to run: its commands take
\* milliseconds, the waits of the scripts a second and more.
Settled ==
    \A d \in Are("dog") : \/ proc[d].pc = "pause"
                          \/ proc[d].pc = "wait" /\ ~proc[d].termed /\ Alive(proc[d].child)
                          \/ proc[d].pc = "reap" /\ Alive(proc[d].child)

\* The scripts.  find_watchdog_pid and find_host_gateway_pid, at every place they are
\* called: what is looked for, and where the script goes on if it is found or not.
Finds == [
    startDog        |-> <<"dog", "startGateway", "startGateway">>,
    startGateway    |-> <<"gateway", "startRunning", "startRunning">>,
    startRunning    |-> <<"gateway", "startLone", "startWatched">>,
    startLone       |-> <<"dog", "already", "already">>,
    startWatched    |-> <<"dog", "already", "startClear">>,
    awaitDog        |-> <<"dog", "awaitGateway", "awaitDog">>,
    awaitGateway    |-> <<"gateway", "started", "awaitDog">>,
    lateDog         |-> <<"dog", "lateGateway", "lateGateway">>,
    lateGateway     |-> <<"gateway", "failed", "failed">>,
    stopGateway     |-> <<"gateway", "stopDog", "stopDog">>,
    stopDog         |-> <<"dog", "stopAny", "stopAny">>,
    stopFindDog     |-> <<"dog", "stopFindGateway", "stopFindGateway">>,
    stopFindGateway |-> <<"gateway", "stopSignalDog", "stopFallback">>,
    statusGateway   |-> <<"gateway", "running", "statusDog">>,
    statusDog       |-> <<"dog", "running", "stopped">>]

Outcomes == {"started", "already", "failed", "stopped", "running", "unknown"}

At(t, l) == thr[t].at = l
Goto(t, l) == thr' = [thr EXCEPT ![t].at = l]

FileOf(kind) == IF kind = "dog" THEN dogfile ELSE pidfile
SetFile(kind, p) ==
    IF kind = "dog" THEN dogfile' = p /\ UNCHANGED pidfile ELSE pidfile' = p /\ UNCHANGED dogfile

\* Mutant of Trusted: the id in the file is trusted without a look at its command line.
Trusted_Any(kind, p) == Alive(p)

\* kill -0, and the command line of the process is the watchdog's or the gateway's.
Trusted(kind, p) == Is(p, kind)

\* The script goes on; a stop keeps what it found.
Found(t, p) ==
    LET f == Finds[thr[t].at]
    IN  thr' = [thr EXCEPT ![t].fix = None, ![t].at = IF p = 0 THEN f[3] ELSE f[2],
                           ![t].dog = IF thr[t].at = "stopFindDog" THEN p ELSE @,
                           ![t].gateway = IF thr[t].at = "stopFindGateway" THEN p ELSE @]

\* Mutant of Look: without the pid file, the process is not searched for.
Look_File(t) ==
    /\ thr[t].at \in DOMAIN Finds /\ thr[t].fix = None
    /\ LET kind == Finds[thr[t].at][1]
       IN  IF Trusted(kind, FileOf(kind)) THEN Found(t, FileOf(kind)) ELSE thr' = [thr EXCEPT ![t].fix = 0]
    /\ UNCHANGED <<config, files, machine, box, hurt, lapses>>

Look(t) ==
    /\ thr[t].at \in DOMAIN Finds /\ thr[t].fix = None
    /\ LET kind == Finds[thr[t].at][1]
       IN  IF Trusted(kind, FileOf(kind)) THEN Found(t, FileOf(kind))
           ELSE \E p \in IF Are(kind) = {} THEN {0} ELSE Are(kind) : thr' = [thr EXCEPT ![t].fix = p]
    /\ UNCHANGED <<config, files, machine, box, hurt, lapses>>

\* The file is written with the process pgrep has found, or removed.
Fix(t) ==
    /\ thr[t].fix # None
    /\ SetFile(Finds[thr[t].at][1], thr[t].fix)
    /\ Found(t, thr[t].fix)
    /\ UNCHANGED <<config, stopfile, machine, box, hurt, lapses>>

RemoveBox == container' = "none" /\ boxStale' = FALSE

\* start.sh in host mode.
StartRemove(t) ==
    /\ At(t, "startContainer") /\ Goto(t, "startDog")
    /\ RemoveBox
    /\ UNCHANGED <<config, files, machine, hurt, lapses>>

StartClear(t) ==
    /\ At(t, "startClear") /\ Goto(t, "startLaunch")
    /\ stopfile' = FALSE
    /\ UNCHANGED <<config, pidfile, dogfile, machine, box, hurt, lapses>>

StartLaunch(t) ==
    /\ At(t, "startLaunch") /\ Fresh \in Pids
    /\ used' = Fresh
    /\ proc' = [proc EXCEPT ![Fresh] = Process("dog")]
    /\ thr' = [thr EXCEPT ![t].at = "startNote", ![t].dog = Fresh]
    /\ UNCHANGED <<config, files, box, hurt, lapses>>

StartNote(t) ==
    /\ At(t, "startNote") /\ Goto(t, "awaitDog")
    /\ dogfile' = thr[t].dog
    /\ UNCHANGED <<config, pidfile, stopfile, machine, box, hurt, lapses>>

GiveUp(t) ==
    /\ At(t, "awaitDog") /\ thr[t].fix = None /\ Settled
    /\ Goto(t, "lateDog")
    /\ UNCHANGED <<config, files, machine, box, hurt, lapses>>

\* Mutant of StopAny: a stop looks for the gateway only.
StopAny_Gateway(t) ==
    /\ At(t, "stopAny")
    /\ IF pidfile = 0
       THEN Goto(t, "stopped") /\ RemoveBox /\ UNCHANGED stopfile
       ELSE Goto(t, "stopFindDog") /\ stopfile' = TRUE /\ UNCHANGED box
    /\ UNCHANGED <<config, pidfile, dogfile, machine, hurt, lapses>>

\* stop.sh in host mode.
StopAny(t) ==
    /\ At(t, "stopAny")
    /\ IF pidfile = 0 /\ dogfile = 0
       THEN Goto(t, "stopped") /\ RemoveBox /\ UNCHANGED stopfile
       ELSE Goto(t, "stopFindDog") /\ stopfile' = TRUE /\ UNCHANGED box
    /\ UNCHANGED <<config, pidfile, dogfile, machine, hurt, lapses>>

StopFallback(t) ==
    /\ At(t, "stopFallback")
    /\ thr' = [thr EXCEPT ![t].at = "stopSignalDog", ![t].gateway = pidfile]
    /\ UNCHANGED <<config, files, machine, box, hurt, lapses>>

StopSignalDog(t) ==
    /\ At(t, "stopSignalDog") /\ Goto(t, "stopSignalGateway")
    /\ Signal(thr[t].dog, "stop")
    /\ UNCHANGED <<config, files, used, box, lapses>>

StopSignalGateway(t) ==
    /\ At(t, "stopSignalGateway") /\ Goto(t, "stopAwaitGateway")
    /\ Signal(thr[t].gateway, "stop")
    /\ UNCHANGED <<config, files, used, box, lapses>>

\* Twenty seconds for the gateway, then kill -9.
StopAwaitGateway(t) ==
    /\ At(t, "stopAwaitGateway") /\ Goto(t, "stopAwaitDog")
    /\ Alive(thr[t].gateway) => Settled
    /\ Destroy(thr[t].gateway)
    /\ UNCHANGED <<config, files, used, box, hurt, lapses>>

\* Ten seconds for the watchdog: those it gives the gateway itself began before.
StopAwaitDog(t) ==
    /\ At(t, "stopAwaitDog") /\ Goto(t, "stopForget")
    /\ ~Alive(thr[t].dog)
    /\ UNCHANGED <<config, files, machine, box, hurt, lapses>>

StopForget(t) ==
    /\ At(t, "stopForget") /\ Goto(t, "stopClear")
    /\ pidfile' = 0 /\ dogfile' = 0
    /\ UNCHANGED <<config, stopfile, machine, box, hurt, lapses>>

StopClear(t) ==
    /\ At(t, "stopClear") /\ Goto(t, "stopped")
    /\ RemoveBox /\ stopfile' = FALSE
    /\ UNCHANGED <<config, pidfile, dogfile, machine, hurt, lapses>>

HostScript(t) ==
    \/ Look(t) \/ Fix(t)
    \/ StartRemove(t) \/ StartClear(t) \/ StartLaunch(t) \/ StartNote(t) \/ GiveUp(t)
    \/ StopAny(t) \/ StopFallback(t) \/ StopSignalDog(t) \/ StopSignalGateway(t)
    \/ StopAwaitGateway(t) \/ StopAwaitDog(t) \/ StopForget(t) \/ StopClear(t)

----------------------------------------------------------------------------
\* start.sh in sandbox mode: TERM to both processes the files name, kill -9 a second
\* later, and the container.
BoxSignal(t, at, kind, next) ==
    /\ At(t, at) /\ Signal(FileOf(kind), "sandbox")
    /\ thr' = [thr EXCEPT ![t].at = next, ![t].dog = FileOf(kind)]
    /\ UNCHANGED <<config, files, used, box, lapses>>

BoxKill(t, at, kind, next) ==
    /\ At(t, at) /\ Goto(t, next)
    /\ Alive(thr[t].dog) => Settled
    /\ Destroy(thr[t].dog)
    /\ SetFile(kind, 0)
    /\ UNCHANGED <<config, stopfile, used, box, hurt, lapses>>

BoxCheck(t) ==
    /\ At(t, "boxCheck")
    /\ stopfile' = FALSE
    /\ IF container = "running"
       THEN Goto(t, "already") /\ UNCHANGED box
       ELSE Goto(t, "boxRun") /\ RemoveBox
    /\ UNCHANGED <<config, pidfile, dogfile, machine, hurt, lapses>>

\* docker run, which may have an image to fetch; it needs the name.
BoxRun(t) ==
    /\ At(t, "boxRun")
    /\ IF container = "none"
       THEN Goto(t, "started") /\ container' = "running" /\ boxStale' = FALSE
       ELSE Goto(t, "failed") /\ UNCHANGED box
    /\ UNCHANGED <<config, files, machine, hurt, lapses>>

\* stop.sh in sandbox mode: without a container it ends at once.
BoxStop(t) ==
    /\ At(t, "boxStop")
    /\ IF container = "none"
       THEN Goto(t, "stopped") /\ lapses' = lapses \cup {"skip"}
       ELSE Goto(t, "boxStopGateway") /\ UNCHANGED lapses
    /\ RemoveBox
    /\ UNCHANGED <<config, files, machine, hurt>>

BoxStopGateway(t) ==
    /\ At(t, "boxStopGateway") /\ Goto(t, "boxStopDog")
    /\ Signal(pidfile, "sandbox") /\ pidfile' = 0
    /\ UNCHANGED <<config, dogfile, stopfile, used, box, lapses>>

BoxStopDog(t) ==
    /\ At(t, "boxStopDog") /\ Goto(t, "stopped")
    /\ Signal(dogfile, "sandbox") /\ dogfile' = 0 /\ stopfile' = FALSE
    /\ UNCHANGED <<config, pidfile, used, box, lapses>>

BoxStatus(t) ==
    /\ At(t, "boxStatus") /\ Goto(t, IF container = "running" THEN "running" ELSE "stopped")
    /\ UNCHANGED <<config, files, machine, box, hurt, lapses>>

BoxScript(t) ==
    \/ BoxSignal(t, "boxGateway", "gateway", "boxGatewayLate")
    \/ BoxKill(t, "boxGatewayLate", "gateway", "boxDog")
    \/ BoxSignal(t, "boxDog", "dog", "boxDogLate")
    \/ BoxKill(t, "boxDogLate", "dog", "boxCheck")
    \/ BoxCheck(t) \/ BoxRun(t) \/ BoxStop(t) \/ BoxStopGateway(t) \/ BoxStopDog(t) \/ BoxStatus(t)

----------------------------------------------------------------------------
\* The handlers of the admin server.

Entry(script) ==
    IF mode = "host"
    THEN [start |-> "startContainer", stop |-> "stopGateway", status |-> "statusGateway"][script]
    ELSE [start |-> "boxGateway", stop |-> "boxStop", status |-> "boxStatus"][script]

\* A start, and the handler of a connector, ask for the status first.
First(op) ==
    CASE op \in {"start", "connector"} -> [Idle EXCEPT !.op = op, !.stage = "probe", !.at = Entry("status")]
      [] op = "restart"                -> [Idle EXCEPT !.op = op, !.stage = "stop", !.at = Entry("stop")]
      [] op \in {"stop", "status"}     -> [Idle EXCEPT !.op = op, !.at = Entry(op)]
      [] OTHER                         -> [Idle EXCEPT !.op = op, !.stage = "handler", !.at = "handler"]

\* Two operations at a time; what only looks is told apart, and a reload does no harm.
Beside(t, op) ==
    LET others == {thr[u].op : u \in Threads} \ {None, "reload"}
    IN  {l \in {"probe", "overlap"} : op # "reload" /\ \E o \in others : (l = "probe") <=> ("status" \in {o, op})}

Begin(t, op) ==
    /\ At(t, "idle") /\ op \in setup.offered /\ registered = (op # "create")
    /\ ops < setup.ops /\ ops' = ops + 1
    /\ thr' = [thr EXCEPT ![t] = First(op)]
    /\ Beside(t, op) \subseteq setup.beside
    /\ lapses' = lapses \cup Beside(t, op)
    /\ UNCHANGED <<setup, config, files, machine, box, deaths, reboots, cuts, hurt>>

Return(t) == thr' = [thr EXCEPT ![t] = Idle]

Ended(t, stage) == thr[t].at \in Outcomes /\ thr[t].stage = stage

\* The published port of a running container is in use.
Checked(t) ==
    /\ Ended(t, "probe") /\ thr[t].op = "start"
    /\ IF ~At(t, "running") /\ container = "running"
       THEN Return(t)
       ELSE thr' = [thr EXCEPT ![t].at = Entry("start"), ![t].stage = "script"]
    /\ UNCHANGED <<config, files, machine, box, hurt, lapses>>

Restarting(t) ==
    /\ Ended(t, "stop")
    /\ thr' = [thr EXCEPT ![t] = [Idle EXCEPT !.op = "restart", !.at = Entry("start")]]
    /\ UNCHANGED <<config, files, machine, box, hurt, lapses>>

\* Mutant of Report: every script clears it, status.sh too.
Report_Any(t) ==
    /\ Ended(t, "script") /\ Return(t)
    /\ flag' = FALSE
    /\ lapses' = IF thr[t].op \in Scripts /\ At(t, "already") THEN lapses \cup {"already"} ELSE lapses
    /\ UNCHANGED <<mode, registered, files, machine, box, hurt>>

\* A script that ends well clears restart_required.
Report(t) ==
    /\ Ended(t, "script") /\ Return(t)
    /\ flag' = IF thr[t].op \in Scripts /\ ~At(t, "failed") THEN FALSE ELSE flag
    /\ lapses' = IF thr[t].op \in Scripts /\ At(t, "already") THEN lapses \cup {"already"} ELSE lapses
    /\ UNCHANGED <<mode, registered, files, machine, box, hurt>>

\* set_connector_enabled: gateways that have read their configuration hold an old one.
\* A status that is not known counts as not running.
SaveConnector(t) ==
    /\ Ended(t, "probe") /\ thr[t].op = "connector" /\ Return(t)
    /\ flag' = At(t, "running")
    /\ proc' = [p \in Pids |-> IF p \in Are("gateway") /\ proc[p].pc = "up" THEN [proc[p] EXCEPT !.stale = TRUE]
                               ELSE proc[p]]
    /\ boxStale' = (container = "running")
    /\ lapses' = IF At(t, "unknown") THEN lapses \cup {"blind"} ELSE lapses
    /\ UNCHANGED <<mode, registered, files, used, container, hurt>>

\* The configuration, the registry and the scripts are written anew.
NewConfig(new) ==
    /\ mode' = new
    /\ lapses' = IF Runtimes > 0 \/ Watching # {} THEN lapses \cup {"switch"} ELSE lapses

SaveMode(new) ==
    /\ IF new = mode THEN UNCHANGED <<mode, lapses>> ELSE NewConfig(new)
    /\ UNCHANGED <<registered, flag, files, machine, box, hurt>>

Update(t) ==
    /\ At(t, "handler") /\ thr[t].op \in Modes /\ Goto(t, "reconcile")
    /\ SaveMode(thr[t].op)

\* An edit of the raw configuration leaves the old runtime where it is.
UpdateRaw(t) ==
    /\ At(t, "handler") /\ thr[t].op \in {"rawHost", "rawSandbox"} /\ Return(t)
    /\ SaveMode(IF thr[t].op = "rawHost" THEN "host" ELSE "sandbox")

Reconcile(t) ==
    /\ At(t, "reconcile") /\ Return(t)
    /\ IF mode = "host"
       THEN RemoveBox /\ UNCHANGED pidfile
       ELSE pidfile' = (IF Alive(pidfile) THEN pidfile ELSE 0) /\ UNCHANGED box
    /\ UNCHANGED <<config, dogfile, stopfile, machine, hurt, lapses>>

\* HUP goes to the process in the file; a gateway that does not handle it yet dies of it.
Reload(t) ==
    /\ At(t, "handler") /\ thr[t].op = "reload" /\ Return(t)
    /\ proc' = IF mode = "host" /\ Is(pidfile, "gateway") /\ proc[pidfile].pc = "boot"
               THEN [proc EXCEPT ![pidfile] = None] ELSE proc
    /\ hurt' = IF mode = "host" /\ Foreign(pidfile) THEN hurt \cup {"reload"} ELSE hurt
    /\ UNCHANGED <<config, files, used, box, lapses>>

Delete(t) ==
    /\ At(t, "handler") /\ thr[t].op = "delete" /\ Goto(t, "deleteBox")
    /\ registered' = FALSE
    /\ UNCHANGED <<mode, flag, files, machine, box, hurt, lapses>>

DeleteBox(t) ==
    /\ At(t, "deleteBox") /\ Return(t)
    /\ RemoveBox
    /\ UNCHANGED <<config, files, machine, hurt, lapses>>

\* With force, over the home that a deletion has left.
Create(t) ==
    /\ At(t, "handler") /\ thr[t].op = "create" /\ Return(t)
    /\ registered' = TRUE /\ flag' = FALSE /\ NewConfig(setup.mode)
    /\ UNCHANGED <<files, machine, box, hurt>>

\* A docker stop or a docker rm whose script has been killed.
DockerEnds(t) ==
    /\ Return(t)
    /\ \/ At(t, "lateStop") /\ container' = (IF container = "running" THEN "exited" ELSE container)
                           /\ UNCHANGED boxStale
       \/ At(t, "lateRemove") /\ RemoveBox
    /\ UNCHANGED <<config, files, machine, hurt, lapses>>

Handler(t) ==
    \/ Checked(t) \/ Restarting(t) \/ Report(t) \/ SaveConnector(t) \/ Update(t) \/ UpdateRaw(t) \/ Reconcile(t)
    \/ Reload(t) \/ Delete(t) \/ DeleteBox(t) \/ Create(t) \/ DockerEnds(t)

ThreadStep(t) ==
    /\ HostScript(t) \/ BoxScript(t) \/ Handler(t)
    /\ UNCHANGED <<setup, bounds>>

\* The docker command a script runs at its place, and what becomes of it without the script.
Late(t) ==
    IF At(t, "boxRun") THEN {"boxRun"}
    ELSE IF container = "none" THEN {}
    ELSE IF At(t, "boxStop") THEN {"lateStop", "lateRemove"}
    ELSE IF At(t, "startContainer") \/ At(t, "stopClear") \/ (At(t, "stopAny") /\ pidfile = 0 /\ dogfile = 0)
         THEN {"lateRemove"}
    ELSE {}

\* restart.sh is at work in its stop.sh or its start.sh.
Inner(t) == thr[t].op = "restart" /\ ~Ended(t, "stop")

\* Killed is the process the handler has started, and not the children of that process: an
\* inner script goes on, and so may a docker command.
Outlives(t) ==
    IF Inner(t) THEN {[thr[t] EXCEPT !.op = "orphan", !.stage = "script"]}
    ELSE {Idle} \cup {[Idle EXCEPT !.op = "orphan", !.at = l] : l \in Late(t)}

\* subprocess.run kills a script after sixty seconds.
Cut(t) ==
    /\ cuts < setup.cuts /\ cuts' = cuts + 1
    /\ thr[t].op \in Scripts /\ thr[t].stage # "probe" /\ ~Ended(t, "script")
    /\ \E rest \in Outlives(t) : thr' = [thr EXCEPT ![t] = rest]
    /\ lapses' = IF Inner(t) THEN lapses
                 ELSE lapses \cup (IF At(t, "startNote") THEN {"slip"} ELSE {}) \cup (IF stopfile THEN {"left"} ELSE {})
    /\ UNCHANGED <<setup, config, files, machine, box, ops, deaths, reboots, hurt>>

\* status.sh has fifteen; one that is killed, or could not be run, tells nothing.
ProbeFails(t) ==
    /\ cuts < setup.cuts /\ cuts' = cuts + 1
    /\ thr[t].stage = "probe" \/ thr[t].op = "status"
    /\ thr[t].at \notin Outcomes
    /\ thr' = [thr EXCEPT ![t].at = "unknown", ![t].fix = None]
    /\ UNCHANGED <<setup, config, files, machine, box, ops, deaths, reboots, hurt, lapses>>

Next ==
    \/ \E d \in Are("dog") : DogStep(d)
    \/ \E g \in Are("gateway") : Up(g) \/ End(g)
    \/ Die \/ Reboot \/ Stranger
    \/ \E t \in Threads : ThreadStep(t) \/ Cut(t) \/ ProbeFails(t)
    \/ \E t \in Threads, op \in Ops : Begin(t, op)

Fairness ==
    /\ WF_vars(\E d \in Are("dog") : DogStep(d)) /\ WF_vars(\E g \in Are("gateway") : End(g))

Spec == Init /\ [][Next]_vars /\ Fairness

----------------------------------------------------------------------------
\* Type correctness: what the files hold and the scripts keep are process ids, and those
\* in use have been given out.
Places ==
    DOMAIN Finds \cup Outcomes \cup
    {"idle", "handler", "reconcile", "deleteBox", "startContainer", "startClear", "startLaunch", "startNote",
     "stopAny", "stopFallback", "stopSignalDog", "stopSignalGateway", "stopAwaitGateway", "stopAwaitDog",
     "stopForget", "stopClear", "boxGateway", "boxGatewayLate", "boxDog", "boxDogLate", "boxCheck", "boxRun", "boxStop",
     "boxStopGateway", "boxStopDog", "boxStatus", "lateStop", "lateRemove"}
RequestType == [op : Ops \cup {None, "orphan"}, stage : {"script", "stop", "probe", "handler"}, at : Places,
                fix : 0..MaxPid \cup {None}, dog : 0..MaxPid, gateway : 0..MaxPid]
ConfigOK ==
    /\ setup \in Setups
    /\ mode \in Modes /\ registered \in BOOLEAN /\ flag \in BOOLEAN
    /\ container \in {"none", "running", "exited"} /\ boxStale \in BOOLEAN
    /\ ops \in Nat /\ deaths \in Nat /\ reboots \in Nat /\ cuts \in Nat
FilesOK == pidfile \in 0..MaxPid /\ dogfile \in 0..MaxPid /\ stopfile \in BOOLEAN
MachineOK ==
    /\ proc \in [Pids -> ProcessType \cup {None}] /\ used \in 0..MaxPid
    /\ \A p \in Pids : Alive(p) => p <= used
TypeOK == ConfigOK /\ FilesOK /\ MachineOK /\ thr \in [Threads -> RequestType]

\* lapses holds what excuses the scripts; each invariant names the ones it needs:
\*   overlap   two operations that change something ran at the same time, or an operation began
\*             beside a script or a docker command that had outlived its handler
\*   probe     status.sh ran beside another operation
\*   slip      the watchdog got TERM after launching a gateway and before knowing its id, or
\*             start.sh was cut off after launching a watchdog and before noting its id
\*   skip      stop.sh in sandbox mode found no container
\*   switch    the mode was changed, or the instance created anew, while something ran or a
\*             watchdog was at work
\*   left      a script was cut off for good and left the file that tells of a stop
\*   already   a start found a runtime and left it alone
\*   blind     a connector was switched while status.sh gave no answer

Stopped(t) == thr[t].op \in {"stop", "restart"} /\ At(t, "stopped") /\ thr[t].stage # "probe"

\* A stop that says "stopped" has ended, or told to end, every gateway and watchdog of the
\* instance and removed its container, whatever the watchdog did meanwhile (stop.sh, watchdog.sh).
StopMeansStopped ==
    lapses \cap {"overlap", "probe", "slip", "skip"} = {} =>
        \A t \in Threads : Stopped(t) => Runtimes = 0 /\ Watching = {}

\* An instance is served once: no start, restart, relaunch, crash or change of mode leaves two
\* gateways, or a gateway and a container, at work on one workspace.
OneRuntime ==
    lapses \cap {"overlap", "slip"} = {} /\ ~({"probe", "switch"} \subseteq lapses) => Runtimes <= 1

\* A start that reports success leaves something that serves or relaunches (a container may
\* have died since); "already running" is never said of a watchdog that is on its way out,
\* unless a stop was cut off or a change of mode left the gateway of another runtime dying.
StartMeansRunning ==
    lapses \cap {"overlap", "slip", "left", "switch"} = {} =>
        \A t \in Threads : Ended(t, "script") /\ thr[t].op \in {"start", "restart"} /\ ~At(t, "failed") =>
            Watching # {} \/ Runtimes > 0 \/ container = "exited"

\* The scripts of host mode never signal a process that is not the instance's, though its id
\* is in their files since before a reboot (find_host_gateway_pid, find_watchdog_pid).
StrangersSpared == "stop" \notin hurt

\* While a gateway runs on an older configuration of the connectors, restart_required is set
\* (set_connector_enabled, execute_instance_action).
FlagTells ==
    lapses \cap {"overlap", "probe", "slip", "already", "switch", "blind"} = {} =>
        ((\E g \in Serving : proc[g].stale) \/ (container = "running" /\ boxStale) => flag)

\* A gateway that dies is launched again as long as nobody stops the instance (watchdog.sh).
Quiet == (\A t \in Threads : At(t, "idle")) /\ ~stopfile
Relaunched == (Quiet /\ Watching # {} /\ reboots = setup.reboots) ~> (Serving # {} \/ ~Quiet)
=============================================================================
