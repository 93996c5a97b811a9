-------------------------- MODULE LifecycleProofs --------------------------
(***************************************************************************)
(* Proofs about Lifecycle, for any number of handlers, operations, deaths  *)
(* and reboots, each with the invariant it rests on:                       *)
(*   NoStrangerSignalled   IInv     what the files and scripts may name    *)
(*   ServedOnce            Orderly  who has a gateway, who may launch one  *)
(*   StoppedIsStopped      Orderly  (a stop claims what it has ended)      *)
(*   StartsHold            Steady   what a start has promised is minded    *)
(*   FlagIsTold            Honest   what runs knows the configuration, or  *)
(*                                  somebody will tell it                  *)
(***************************************************************************)
EXTENDS Lifecycle, FiniteSetTheorems, TLAPS

LEMMA FindsDomain ==
    DOMAIN Finds = {"startDog", "startGateway", "startRunning", "startLone", "startWatched", "awaitDog",
                    "awaitGateway", "lateDog", "lateGateway", "stopGateway", "stopDog", "stopFindDog",
                    "stopFindGateway", "statusGateway", "statusDog"}
  BY DEF Finds

LEMMA FindsType ==
    ASSUME NEW a \in DOMAIN Finds
    PROVE  /\ Finds[a][1] \in {"dog", "gateway"}
           /\ Finds[a][2] \in Places /\ Finds[a][3] \in Places
           /\ Finds[a][2] # "stopFallback"
           /\ Finds[a][3] = "stopFallback" => a = "stopFindGateway"
  <1>1. Finds[a][1] \in {"dog", "gateway"}
    BY FindsDomain DEF Finds
  <1>2. Finds[a][2] \in Places
    BY FindsDomain DEF Finds, Places, Outcomes
  <1>3. Finds[a][3] \in Places
    BY FindsDomain DEF Finds, Places, Outcomes
  <1>4. Finds[a][2] # "stopFallback"
    BY FindsDomain DEF Finds
  <1>5. Finds[a][3] = "stopFallback" => a = "stopFindGateway"
    BY FindsDomain DEF Finds
  <1>6. QED
    BY <1>1, <1>2, <1>3, <1>4, <1>5

----------------------------------------------------------------------------
\* A process id that is given out in this boot and is not a foreign process's.  It stays
\* so until the machine is booted again: an id is given out once.
Own(p) == p <= used /\ ~Foreign(p)

\* What a script has found is the instance's, and so is what a stop falls back on.
Keeps(r) ==
    /\ r.fix # None => r.at \in DOMAIN Finds /\ Own(r.fix)
    /\ r.at \in {"stopFindGateway", "stopFallback", "stopSignalDog"} => Own(r.dog)
    /\ r.at = "stopFallback" => Own(pidfile)
    /\ r.at \in {"stopSignalDog", "stopSignalGateway"} => Own(r.gateway)

Children == \A d \in Pids : Alive(d) => Own(proc[d].child)

IInv == TypeOK /\ Children /\ (\A t \in Threads : Keeps(thr[t])) /\ StrangersSpared

\* What has been asked to end is not asked to stay.
Firm == \A p \in Pids : Alive(p) /\ Alive(p)' /\ proc[p].termed => proc'[p].termed

\* A step in which processes end, are signalled or move on, and none begins.
Tame ==
    /\ Firm /\ used' = used /\ proc' \in [Pids -> ProcessType \cup {None}]
    /\ \A p \in Pids : Alive(p)' => /\ Alive(p)
                                     /\ proc'[p].kind = proc[p].kind
                                     /\ proc'[p].child \in {0, proc[p].child}

Calm == \A p \in 0..MaxPid : Own(p) => Own(p)'

LEMMA Zero == ASSUME MachineOK PROVE Own(0)
  BY LifecycleAssumption DEF MachineOK, Own, Foreign, Is, Alive, Pids

LEMMA Running ==
    ASSUME MachineOK, NEW p, Alive(p)
    PROVE  p \in Pids /\ p \in 0..MaxPid /\ proc[p] \in ProcessType /\ p <= used
  BY LifecycleAssumption DEF MachineOK, Alive, Pids

LEMMA TameKeeps ==
    ASSUME MachineOK, Children, Tame
    PROVE  Calm /\ Children' /\ MachineOK'
  <1>1. Calm
    BY DEF Calm, Own, Foreign, Is, Tame, Alive
  <1>2. MachineOK'
    BY DEF MachineOK, Tame
  <1>3. Children'
    <2>1. SUFFICES ASSUME NEW d \in Pids, Alive(d)' PROVE Own(proc[d].child)'
      BY DEF Children
    <2>2. Own(proc[d].child) /\ proc[d] \in ProcessType /\ proc'[d].child \in {0, proc[d].child}
      BY <2>1, Running DEF Children, Tame
    <2>3. proc'[d].child \in 0..MaxPid
      BY <2>2, LifecycleAssumption DEF ProcessType
    <2>4. Own(proc'[d].child)
      BY <2>2, Zero
    <2>5. QED
      BY <1>1, <2>3, <2>4 DEF Calm, Own, Foreign, Is, Alive
  <1>4. QED
    BY <1>1, <1>2, <1>3

LEMMA SameMachine ==
    ASSUME MachineOK, UNCHANGED machine
    PROVE  Tame
  BY DEF MachineOK, machine, Tame, Firm, Alive

\* The scripts that do not move keep what they have.
LEMMA OthersKeep ==
    ASSUME IInv, Calm, pidfile' = pidfile \/ (pidfile' \in 0..MaxPid /\ Own(pidfile)'),
           NEW u \in Threads, thr'[u] = thr[u]
    PROVE  Keeps(thr[u])'
  <1>1. thr[u] \in RequestType /\ Keeps(thr[u]) /\ pidfile \in 0..MaxPid
    BY DEF IInv, TypeOK, FilesOK
  <1>2. QED
    BY <1>1 DEF Keeps, Calm, RequestType

----------------------------------------------------------------------------
\* The watchdog.

LEMMA DogTame ==
    ASSUME MachineOK, Children, NEW d \in Pids,
           Attend(d) \/ CheckStop(d) \/ Note(d) \/ Wake(d) \/ Decide(d) \/ Resume(d) \/ OnTerm(d) \/ Reap(d)
    PROVE  Tame
  <1>0. proc[d] \in ProcessType /\ proc[d] # None /\ 0 \in 0..MaxPid
    BY LifecycleAssumption DEF MachineOK, Attend, CheckStop, Note, Wake, Decide, Resume, OnTerm, Reap, Dog, Is, Alive
  <1>1. CASE Attend(d)
    BY <1>0, <1>1 DEF Attend, Tame, Firm, MachineOK, Alive, ProcessType
  <1>2. CASE CheckStop(d)
    BY <1>0, <1>2 DEF CheckStop, Leave, Tame, Firm, MachineOK, Alive, ProcessType
  <1>3. CASE Note(d)
    BY <1>0, <1>3 DEF Note, Tame, Firm, MachineOK, Alive, ProcessType
  <1>4. CASE Wake(d)
    BY <1>0, <1>4 DEF Wake, Tame, Firm, MachineOK, Alive, ProcessType
  <1>5. CASE Decide(d)
    BY <1>0, <1>5 DEF Decide, Leave, Tame, Firm, MachineOK, Alive, ProcessType
  <1>6. CASE Resume(d)
    BY <1>0, <1>6 DEF Resume, Tame, Firm, MachineOK, Alive, ProcessType
  <1>7. CASE OnTerm(d)
    <2>1. proc' \in [Pids -> ProcessType \cup {None}]
      <3>1. CASE proc[d].pc = "forked"
        BY <1>0, <1>7, <3>1 DEF OnTerm, MachineOK, ProcessType
      <3>2. CASE proc[d].pc # "forked"
        <4>1. [proc[d] EXCEPT !.pc = "reap"] \in ProcessType
          BY <1>0 DEF ProcessType
        <4>2. \A p \in Pids : Alive(p) => [proc[p] EXCEPT !.termed = TRUE] \in ProcessType
          BY Running DEF ProcessType
        <4>3. \A p \in Pids : proc[p] \in ProcessType \cup {None}
          BY DEF MachineOK
        <4>4. QED
          BY <1>7, <3>2, <4>1, <4>2, <4>3 DEF OnTerm
      <3>3. QED
        BY <3>1, <3>2
    <2>2. \A p \in Pids : p # d /\ Alive(p)' => Alive(p) /\ proc'[p].kind = proc[p].kind /\ proc'[p].child = proc[p].child
      BY <1>0, <1>7, Running DEF OnTerm, MachineOK, Alive, ProcessType
    <2>3. ASSUME NEW p \in Pids, p # d, Alive(p)', proc[p].termed PROVE proc'[p].termed
      <3>1. Alive(p) /\ (proc'[p] = proc[p] \/ proc'[p] = [proc[p] EXCEPT !.termed = TRUE])
        BY <1>7, <2>2, <2>3 DEF OnTerm, MachineOK
      <3>2. proc[p] \in ProcessType
        BY <3>1, Running
      <3>3. CASE proc'[p] = proc[p]
        BY <2>3, <3>3
      <3>4. CASE proc'[p] = [proc[p] EXCEPT !.termed = TRUE]
        BY <3>2, <3>4 DEF ProcessType
      <3>5. QED
        BY <3>1, <3>3, <3>4
    <2>4. proc'[d].kind = proc[d].kind /\ proc'[d].child \in {0, proc[d].child} /\ (proc[d].termed => proc'[d].termed)
      <3>1. proc'[d] \in {[proc[d] EXCEPT !.pc = "reap", !.child = 0], [proc[d] EXCEPT !.pc = "reap"]}
        BY <1>0, <1>7 DEF OnTerm, MachineOK, Is, Alive
      <3>2. QED
        BY <1>0, <3>1 DEF ProcessType
    <2>5. Firm
      <3>1. ASSUME NEW p \in Pids, Alive(p)', proc[p].termed PROVE proc'[p].termed
        BY <2>3, <2>4, <3>1
      <3>2. QED
        BY <3>1 DEF Firm
    <2>6. QED
      BY <1>0, <1>7, <2>1, <2>2, <2>4, <2>5 DEF OnTerm, Tame, Alive
  <1>8. CASE Reap(d)
    BY <1>0, <1>8 DEF Reap, Leave, Tame, Firm, MachineOK, Alive, ProcessType
  <1>9. QED
    BY <1>1, <1>2, <1>3, <1>4, <1>5, <1>6, <1>7, <1>8

LEMMA DogFiles ==
    ASSUME TypeOK, Children, NEW d \in Pids,
           Attend(d) \/ CheckStop(d) \/ Note(d) \/ Wake(d) \/ Decide(d) \/ Resume(d) \/ OnTerm(d) \/ Reap(d)
    PROVE  FilesOK' /\ (pidfile' = pidfile \/ pidfile' = 0 \/ Own(pidfile'))
  <1>0. /\ proc[d] \in ProcessType /\ Own(proc[d].child) /\ proc[d].child \in 0..MaxPid
        /\ d \in 0..MaxPid /\ 0 \in 0..MaxPid
    BY LifecycleAssumption
       DEF TypeOK, MachineOK, Attend, CheckStop, Note, Wake, Decide, Resume, OnTerm, Reap, Dog, Is, Alive, Children,
           ProcessType, Pids
  <1>1. QED
    BY <1>0 DEF TypeOK, FilesOK, Attend, CheckStop, Note, Wake, Decide, Resume, OnTerm, Reap, Leave, files

LEMMA LaunchKeeps ==
    ASSUME MachineOK, Children, NEW d \in Pids, Launch(d)
    PROVE  Calm /\ Children' /\ MachineOK'
  <1>0. /\ proc[d] \in ProcessType /\ proc[d] # None /\ Fresh \in Pids /\ Fresh \in 0..MaxPid
        /\ ~Alive(Fresh) /\ Fresh # d
    BY LifecycleAssumption DEF MachineOK, Launch, Dog, Is, Alive, Fresh, Pids
  <1>1. /\ Process("gateway") \in ProcessType /\ Process("gateway").kind = "gateway"
        /\ Process("gateway").child = 0
    BY LifecycleAssumption DEF Process, ProcessType
  <1>2. proc' \in [Pids -> ProcessType \cup {None}]
    BY <1>0, <1>1 DEF Launch, MachineOK, ProcessType
  <1>3. \A p \in Pids : p # Fresh /\ Alive(p)' =>
            Alive(p) /\ proc'[p].kind = proc[p].kind /\ proc'[p].child \in {proc[p].child, Fresh}
    BY <1>0 DEF Launch, MachineOK, Alive, ProcessType
  <1>4. proc'[Fresh] = Process("gateway")
    BY <1>0 DEF Launch, MachineOK
  <1>5. used' = used + 1 /\ used' = Fresh /\ used \in 0..MaxPid
    BY DEF Launch, Fresh, MachineOK
  <1>6. Calm
    BY <1>1, <1>3, <1>4, <1>5 DEF Calm, Own, Foreign, Is, Alive
  <1>7. MachineOK'
    <2>1. \A p \in Pids : Alive(p)' => p <= used'
      BY <1>0, <1>3, <1>5, LifecycleAssumption DEF MachineOK, Pids
    <2>2. QED
      BY <1>0, <1>2, <1>5, <2>1 DEF MachineOK
  <1>8. Own(used)'
    BY <1>1, <1>4, <1>5 DEF Own, Foreign, Is, Alive
  <1>9. Own(0)'
    BY <1>7, Zero, LifecycleAssumption DEF MachineOK, Own, Foreign, Is, Alive, Pids
  <1>10. Children'
    <2>1. SUFFICES ASSUME NEW e \in Pids, Alive(e)' PROVE Own(proc[e].child)'
      BY DEF Children
    <2>2. CASE e = Fresh
      BY <1>1, <1>4, <1>9, <2>2 DEF Own, Foreign, Is, Alive
    <2>3. CASE e # Fresh
      <3>1. Own(proc[e].child) /\ proc[e].child \in 0..MaxPid /\ proc'[e].child \in {proc[e].child, Fresh}
        BY <1>3, <2>1, <2>3, Running DEF Children, ProcessType
      <3>2. QED
        BY <1>5, <1>6, <1>8, <3>1 DEF Calm, Own, Foreign, Is, Alive
    <2>4. QED
      BY <2>2, <2>3
  <1>11. QED
    BY <1>6, <1>7, <1>10

LEMMA DogStepKeeps ==
    ASSUME IInv, NEW d \in Pids, DogStep(d)
    PROVE  IInv'
  <1>1. /\ UNCHANGED <<setup, config, box, thr, bounds, hurt>>
        /\ TypeOK /\ FilesOK /\ MachineOK /\ Children /\ thr \in [Threads -> RequestType]
    BY DEF DogStep, IInv, TypeOK
  <1>2. Calm /\ Children' /\ MachineOK' /\ FilesOK' /\ (pidfile' = pidfile \/ pidfile' = 0 \/ Own(pidfile'))
    <2>1. CASE Launch(d)
      BY <1>1, <2>1, LaunchKeeps DEF Launch, files, FilesOK
    <2>2. CASE ~Launch(d)
      BY <1>1, <2>2, DogTame, DogFiles, TameKeeps DEF DogStep
    <2>3. QED
      BY <2>1, <2>2
  <1>3. pidfile' = pidfile \/ (pidfile' \in 0..MaxPid /\ Own(pidfile)')
    BY <1>1, <1>2, Zero DEF Calm, FilesOK, Own, Foreign, Is, Alive
  <1>4. \A u \in Threads : Keeps(thr[u])'
    BY <1>1, <1>2, <1>3, OthersKeep
  <1>5. QED
    BY <1>1, <1>2, <1>4 DEF IInv, TypeOK, ConfigOK, StrangersSpared, config, box, bounds

----------------------------------------------------------------------------
\* Threads.

\* Only t moves.
Moves(t) == thr' \in [Threads -> RequestType] /\ \A u \in Threads \ {t} : thr'[u] = thr[u]

\* The places of a stop at which it relies on what it has found.
Guarded == {"stopFindGateway", "stopFallback", "stopSignalDog", "stopSignalGateway"}

LEMMA IdleType == Idle \in RequestType /\ Idle.fix = None /\ Idle.at = "idle"
  BY LifecycleAssumption DEF Idle, RequestType, Places

LEMMA GotoKeeps ==
    ASSUME IInv, NEW t \in Threads, thr[t].fix = None, NEW l \in Places \ Guarded, Goto(t, l)
    PROVE  Moves(t) /\ Keeps(thr[t])'
  <1>1. thr[t] \in RequestType /\ thr \in [Threads -> RequestType]
    BY DEF IInv, TypeOK
  <1>2. thr' = [thr EXCEPT ![t] = [thr[t] EXCEPT !.at = l]] /\ [thr[t] EXCEPT !.at = l] \in RequestType
    BY <1>1 DEF Goto, RequestType
  <1>3. Moves(t) /\ thr'[t].at = l /\ thr'[t].fix = None
    BY <1>1, <1>2 DEF Moves, RequestType
  <1>4. QED
    BY <1>3 DEF Keeps, Guarded

LEMMA ReplaceKeeps ==
    ASSUME IInv, NEW t \in Threads, NEW r \in RequestType, thr' = [thr EXCEPT ![t] = r],
           r.fix = None, r.at \notin Guarded
    PROVE  Moves(t) /\ Keeps(thr[t])'
  BY DEF IInv, TypeOK, Moves, Keeps, Guarded

LEMMA ReturnKeeps ==
    ASSUME IInv, NEW t \in Threads, Return(t)
    PROVE  Moves(t) /\ Keeps(thr[t])'
  BY IdleType, ReplaceKeeps DEF Return, Guarded

LEMMA EntryType ==
    ASSUME NEW script \in {"start", "stop", "status"}
    PROVE  Entry(script) \in Places \ Guarded
  BY FindsDomain DEF Entry, Places, Guarded

\* What a step of a thread has to show.
LEMMA StepKeeps ==
    ASSUME IInv, NEW t \in Threads, Moves(t), Keeps(thr[t])', Calm, MachineOK', Children', ConfigOK', FilesOK',
           StrangersSpared', pidfile' = pidfile \/ Own(pidfile)'
    PROVE  IInv'
  <1>1. \A u \in Threads : Keeps(thr[u])'
    <2>1. SUFFICES ASSUME NEW u \in Threads PROVE Keeps(thr[u])'
      OBVIOUS
    <2>2. CASE u = t
      BY <2>2
    <2>3. CASE u # t
      BY <2>3, OthersKeep DEF Moves, FilesOK
    <2>4. QED
      BY <2>2, <2>3
  <1>2. QED
    BY <1>1 DEF IInv, TypeOK, Moves

LEMMA TermTame ==
    ASSUME MachineOK, NEW p, NEW s, Signal(p, s), used' = used
    PROVE  Tame
  <1>1. CASE ~Alive(p)
    BY <1>1 DEF Signal, Tame, Firm, MachineOK, Alive
  <1>2. CASE Alive(p)
    <2>1. p \in Pids /\ proc[p] \in ProcessType
      BY <1>2, Running
    <2>2. [proc[p] EXCEPT !.termed = TRUE] \in ProcessType
      BY <2>1 DEF ProcessType
    <2>3. proc' = Termed(proc, p)
      BY <1>2 DEF Signal
    <2>4. proc' = [proc EXCEPT ![p] = None] \/ proc' = [proc EXCEPT ![p] = [proc[p] EXCEPT !.termed = TRUE]]
      BY <2>3 DEF Termed
    <2>5. proc' \in [Pids -> ProcessType \cup {None}]
      BY <2>1, <2>2, <2>4 DEF MachineOK
    <2>6. QED
      BY <1>2, <2>1, <2>4, <2>5 DEF Tame, Firm, MachineOK, Alive, ProcessType
  <1>3. QED
    BY <1>1, <1>2

LEMMA DestroyTame ==
    ASSUME MachineOK, NEW p, Destroy(p), used' = used
    PROVE  Tame
  BY DEF Destroy, Tame, Firm, MachineOK, Alive

----------------------------------------------------------------------------
\* The scripts of host mode.

LEMMA FoundKeeps ==
    ASSUME IInv, NEW t \in Threads, thr[t].at \in DOMAIN Finds, NEW p \in 0..MaxPid, Own(p), Found(t, p),
           UNCHANGED machine, (p = 0 /\ thr[t].at = "stopFindGateway") => Own(pidfile')
    PROVE  Moves(t) /\ Keeps(thr[t])'
  <1>1. thr[t] \in RequestType /\ Keeps(thr[t]) /\ thr \in [Threads -> RequestType]
    BY DEF IInv, TypeOK
  <1> DEFINE at == thr[t].at
             to == IF p = 0 THEN Finds[at][3] ELSE Finds[at][2]
             r == [thr[t] EXCEPT !.fix = None, !.at = to, !.dog = IF at = "stopFindDog" THEN p ELSE @,
                                 !.gateway = IF at = "stopFindGateway" THEN p ELSE @]
  <1>2. to \in Places /\ (to = "stopFallback" => p = 0 /\ at = "stopFindGateway")
    BY FindsType
  <1>3. (to = "stopFindGateway" => at = "stopFindDog") /\ to # "stopSignalGateway"
        /\ (to = "stopSignalDog" => at = "stopFindGateway")
    BY FindsDomain DEF Finds
  <1>4. r \in RequestType
    BY <1>1, <1>2 DEF RequestType
  <1>5. thr' = [thr EXCEPT ![t] = r]
    BY <1>1 DEF Found
  <1>6. r.fix = None /\ r.at = to /\ (at = "stopFindDog" => r.dog = p) /\ (at # "stopFindDog" => r.dog = thr[t].dog)
        /\ (at = "stopFindGateway" => r.gateway = p)
    BY <1>1 DEF RequestType
  <1>7. at = "stopFindGateway" => Own(thr[t].dog)
    BY <1>1 DEF Keeps
  <1>8. thr'[t] = r /\ Moves(t)
    BY <1>1, <1>4, <1>5 DEF Moves
  <1>9. /\ thr'[t].fix = None
        /\ thr'[t].at \in {"stopFindGateway", "stopFallback", "stopSignalDog"} => Own(thr'[t].dog)
        /\ thr'[t].at = "stopFallback" => Own(pidfile')
        /\ thr'[t].at \in {"stopSignalDog", "stopSignalGateway"} => Own(thr'[t].gateway)
    <2>1. thr'[t].fix = None
      BY <1>6, <1>8
    <2>2. thr'[t].at \in {"stopFindGateway", "stopFallback", "stopSignalDog"} => Own(thr'[t].dog)
      BY <1>2, <1>3, <1>6, <1>7, <1>8
    <2>3. thr'[t].at = "stopFallback" => Own(pidfile')
      BY <1>2, <1>6, <1>8
    <2>4. thr'[t].at \in {"stopSignalDog", "stopSignalGateway"} => Own(thr'[t].gateway)
      BY <1>2, <1>3, <1>6, <1>8
    <2>5. QED
      BY <2>1, <2>2, <2>3, <2>4
  <1>10. QED
    BY <1>8, <1>9 DEF Keeps, Own, Foreign, Is, Alive, machine

LEMMA LookKeeps ==
    ASSUME IInv, NEW t \in Threads, Look(t), UNCHANGED <<setup, bounds>>
    PROVE  IInv'
  <1> DEFINE kind == Finds[thr[t].at][1]
  <1>1. /\ thr[t] \in RequestType /\ Keeps(thr[t]) /\ thr \in [Threads -> RequestType]
        /\ MachineOK /\ FilesOK /\ Children /\ kind \in {"dog", "gateway"}
    BY FindsType DEF IInv, TypeOK, Look
  <1>2. Calm /\ Children' /\ MachineOK'
    BY <1>1, SameMachine, TameKeeps DEF Look
  <1>3. \A p \in Are(kind) \cup {0} : p \in 0..MaxPid /\ Own(p)
    BY <1>1, Running, Zero, LifecycleAssumption DEF Are, Is, Own, Foreign, MachineOK
  <1>4. Moves(t) /\ Keeps(thr[t])'
    <2>1. CASE Trusted(kind, FileOf(kind))
      <3>1. FileOf(kind) \in 0..MaxPid /\ FileOf(kind) \in Are(kind) /\ FileOf(kind) # 0
        BY <1>1, <2>1, Running DEF FileOf, FilesOK, Trusted, Are, Is, Alive, Pids
      <3>2. Found(t, FileOf(kind)) /\ thr[t].at \in DOMAIN Finds /\ UNCHANGED machine
        BY <2>1 DEF Look
      <3>3. QED
        BY <1>3, <3>1, <3>2, FoundKeeps
    <2>2. CASE ~Trusted(kind, FileOf(kind))
      <3>1. PICK p \in Are(kind) \cup {0} : thr' = [thr EXCEPT ![t].fix = p]
        BY <2>2 DEF Look
      <3>2. thr' = [thr EXCEPT ![t] = [thr[t] EXCEPT !.fix = p]] /\ [thr[t] EXCEPT !.fix = p] \in RequestType
        BY <1>1, <1>3, <3>1 DEF RequestType
      <3>3. Moves(t) /\ thr'[t] = [thr[t] EXCEPT !.fix = p]
        BY <1>1, <3>2 DEF Moves
      <3>4. thr'[t].fix = p /\ thr'[t].at = thr[t].at /\ thr'[t].dog = thr[t].dog /\ thr'[t].gateway = thr[t].gateway
        BY <1>1, <3>3 DEF RequestType
      <3>5. Own(p) /\ UNCHANGED <<proc, used, pidfile>>
        BY <1>3 DEF Look, files, machine
      <3>6. QED
        BY <1>1, <3>3, <3>4, <3>5 DEF Keeps, Own, Foreign, Is, Alive, Look
    <2>3. QED
      BY <2>1, <2>2
  <1>5. ConfigOK' /\ FilesOK' /\ StrangersSpared' /\ pidfile' = pidfile
    BY DEF IInv, TypeOK, ConfigOK, FilesOK, StrangersSpared, Look, config, files, box, bounds
  <1>6. QED
    BY <1>2, <1>4, <1>5, StepKeeps

LEMMA FixKeeps ==
    ASSUME IInv, NEW t \in Threads, Fix(t), UNCHANGED <<setup, bounds>>
    PROVE  IInv'
  <1> DEFINE kind == Finds[thr[t].at][1]
             p == thr[t].fix
  <1>1. /\ thr[t] \in RequestType /\ Keeps(thr[t]) /\ thr \in [Threads -> RequestType]
        /\ MachineOK /\ FilesOK /\ Children /\ thr[t].at \in DOMAIN Finds /\ kind \in {"dog", "gateway"}
    BY FindsType DEF IInv, TypeOK, Fix, Keeps
  <1>2. p \in 0..MaxPid /\ Own(p)
    BY <1>1 DEF Fix, Keeps, RequestType
  <1>3. UNCHANGED machine /\ Calm /\ Children' /\ MachineOK'
    BY <1>1, SameMachine, TameKeeps DEF Fix
  <1>4. FilesOK' /\ (pidfile' = pidfile \/ pidfile' = p) /\ (kind = "gateway" => pidfile' = p)
    BY <1>1, <1>2 DEF Fix, FilesOK, SetFile
  <1>5. thr[t].at = "stopFindGateway" => kind = "gateway"
    BY DEF Finds
  <1>6. Moves(t) /\ Keeps(thr[t])'
    <2>1. (p = 0 /\ thr[t].at = "stopFindGateway") => Own(pidfile')
      BY <1>2, <1>4, <1>5
    <2>2. Found(t, p) /\ thr[t].at \in DOMAIN Finds
      BY <1>1 DEF Fix
    <2>3. QED
      BY <1>2, <1>3, <2>1, <2>2, FoundKeeps
  <1>7. pidfile' = pidfile \/ Own(pidfile)'
    BY <1>2, <1>3, <1>4 DEF Own, Foreign, Is, Alive, machine
  <1>8. ConfigOK' /\ StrangersSpared'
    BY DEF IInv, TypeOK, ConfigOK, StrangersSpared, Fix, config, box, bounds
  <1>9. QED
    BY <1>3, <1>4, <1>6, <1>7, <1>8, StepKeeps

\* A step that starts, ends and signals no process.
LEMMA QuietKeeps ==
    ASSUME IInv, NEW t \in Threads, Moves(t), Keeps(thr[t])', UNCHANGED <<setup, bounds, machine>>,
           hurt' = hurt \/ hurt' = hurt \cup {"reload"}, ConfigOK', FilesOK', pidfile' \in {pidfile, 0}
    PROVE  IInv'
  <1>1. MachineOK /\ Children
    BY DEF IInv, TypeOK
  <1>2. Calm /\ Children' /\ MachineOK' /\ Own(0)
    BY <1>1, SameMachine, TameKeeps, Zero
  <1>3. pidfile' = pidfile \/ Own(pidfile)'
    BY <1>2 DEF Own, Foreign, Is, Alive, machine
  <1>4. StrangersSpared'
    BY DEF IInv, StrangersSpared
  <1>5. QED
    BY <1>2, <1>3, <1>4, StepKeeps

LEMMA NoFix ==
    ASSUME IInv, NEW t \in Threads, thr[t].at \notin DOMAIN Finds
    PROVE  thr[t].fix = None
  BY DEF IInv, Keeps

LEMMA FileTypes ==
    ASSUME IInv
    PROVE  /\ pidfile \in 0..MaxPid /\ dogfile \in 0..MaxPid /\ stopfile \in BOOLEAN /\ 0 \in 0..MaxPid
           /\ ConfigOK /\ FilesOK /\ MachineOK /\ Children /\ TypeOK
  BY LifecycleAssumption DEF IInv, TypeOK, FilesOK

LEMMA HostQuietKeeps ==
    ASSUME IInv, NEW t \in Threads, UNCHANGED <<setup, bounds>>,
           \/ StartRemove(t) \/ StartClear(t) \/ StartNote(t) \/ GiveUp(t) \/ StopAny(t)
           \/ StopAwaitDog(t) \/ StopForget(t) \/ StopClear(t)
    PROVE  IInv'
  <1>1. thr[t].fix = None
    BY NoFix, FindsDomain DEF StartRemove, StartClear, StartNote, GiveUp, StopAny, StopAwaitDog, StopForget, StopClear, At
  <1>2. \E l \in Places \ Guarded : Goto(t, l)
    BY FindsDomain DEF StartRemove, StartClear, StartNote, GiveUp, StopAny, StopAwaitDog, StopForget, StopClear, Places,
                       Guarded, Outcomes
  <1>3. Moves(t) /\ Keeps(thr[t])'
    BY <1>1, <1>2, GotoKeeps
  <1>4. UNCHANGED <<config, machine, hurt>> /\ pidfile' \in {pidfile, 0}
    BY DEF StartRemove, StartClear, StartNote, GiveUp, StopAny, StopAwaitDog, StopForget, StopClear, files
  <1>5. thr[t].dog \in 0..MaxPid
    BY DEF IInv, TypeOK, RequestType
  <1>6. FilesOK'
    BY <1>4, <1>5, FileTypes
       DEF StartRemove, StartClear, StartNote, GiveUp, StopAny, StopAwaitDog, StopForget, StopClear, files, FilesOK
  <1>7. ConfigOK'
    BY <1>4, FileTypes
       DEF StartRemove, StartClear, StartNote, GiveUp, StopAny, StopAwaitDog, StopForget, StopClear, box, config,
           bounds, ConfigOK, RemoveBox
  <1>8. QED
    BY <1>3, <1>4, <1>6, <1>7, QuietKeeps

\* A stop that has not found the gateway takes the id the file holds by then.
LEMMA FallbackKeeps ==
    ASSUME IInv, NEW t \in Threads, UNCHANGED <<setup, bounds>>, StopFallback(t)
    PROVE  IInv'
  <1>1. thr[t] \in RequestType /\ Keeps(thr[t]) /\ thr \in [Threads -> RequestType] /\ thr[t].at = "stopFallback"
    BY DEF IInv, TypeOK, StopFallback, At
  <1> DEFINE r == [thr[t] EXCEPT !.at = "stopSignalDog", !.gateway = pidfile]
  <1>2. r \in RequestType /\ thr' = [thr EXCEPT ![t] = r]
    BY <1>1, FileTypes DEF StopFallback, RequestType, Places
  <1>3. /\ Moves(t) /\ thr'[t].fix = None /\ thr'[t].at = "stopSignalDog" /\ thr'[t].dog = thr[t].dog
        /\ thr'[t].gateway = pidfile
    BY <1>1, <1>2, NoFix, FindsDomain DEF Moves, RequestType
  <1>4. UNCHANGED <<config, files, machine, box, hurt>>
    BY DEF StopFallback
  <1>5. Own(thr[t].dog) /\ Own(pidfile)
    BY <1>1 DEF Keeps
  <1>6. Keeps(thr[t])'
    BY <1>3, <1>4, <1>5 DEF Keeps, Own, Foreign, Is, Alive, machine
  <1>7. ConfigOK' /\ FilesOK' /\ pidfile' = pidfile
    BY <1>4, FileTypes DEF config, files, box, bounds, ConfigOK, FilesOK
  <1>8. QED
    BY <1>3, <1>4, <1>6, <1>7, QuietKeeps

LEMMA StartLaunchKeeps ==
    ASSUME IInv, NEW t \in Threads, UNCHANGED <<setup, bounds>>, StartLaunch(t)
    PROVE  IInv'
  <1>0. /\ MachineOK /\ Children /\ Fresh \in Pids /\ Fresh \in 0..MaxPid /\ ~Alive(Fresh)
        /\ proc' = [proc EXCEPT ![Fresh] = Process("dog")]
    BY FileTypes, LifecycleAssumption DEF MachineOK, StartLaunch, Alive, Fresh, Pids
  <1>1. Process("dog") \in ProcessType /\ Process("dog").kind = "dog" /\ Process("dog").child = 0
    BY LifecycleAssumption DEF Process, ProcessType
  <1>2. proc' \in [Pids -> ProcessType \cup {None}]
    BY <1>0, <1>1 DEF MachineOK
  <1>3. \A p \in Pids : p # Fresh => proc'[p] = proc[p]
    BY <1>0 DEF MachineOK
  <1>4. proc'[Fresh] = Process("dog")
    BY <1>0 DEF MachineOK
  <1>5. used' = used + 1 /\ used' = Fresh /\ used \in 0..MaxPid
    BY <1>0 DEF StartLaunch, Fresh, MachineOK
  <1>6. Calm
    BY <1>1, <1>3, <1>4, <1>5 DEF Calm, Own, Foreign, Is, Alive
  <1>7. MachineOK'
    <2>1. \A p \in Pids : Alive(p)' => p <= used'
      BY <1>0, <1>3, <1>5, LifecycleAssumption DEF MachineOK, Pids, Alive
    <2>2. QED
      BY <1>0, <1>2, <1>5, <2>1 DEF MachineOK
  <1>8. Own(0)'
    BY <1>7, Zero, LifecycleAssumption DEF MachineOK, Own, Foreign, Is, Alive, Pids
  <1>9. Children'
    <2>1. SUFFICES ASSUME NEW e \in Pids, Alive(e)' PROVE Own(proc[e].child)'
      BY DEF Children
    <2>2. CASE e = Fresh
      BY <1>1, <1>4, <1>8, <2>2 DEF Own, Foreign, Is, Alive
    <2>3. CASE e # Fresh
      <3>1. Alive(e) /\ proc'[e] = proc[e]
        BY <1>3, <2>1, <2>3 DEF Alive
      <3>2. Own(proc[e].child) /\ proc[e].child \in 0..MaxPid
        BY <1>0, <3>1, Running DEF Children, ProcessType
      <3>3. QED
        BY <1>6, <3>1, <3>2 DEF Calm, Own, Foreign, Is, Alive
    <2>4. QED
      BY <2>2, <2>3
  <1> DEFINE r == [thr[t] EXCEPT !.at = "startNote", !.dog = Fresh]
  <1>10. thr[t] \in RequestType /\ thr \in [Threads -> RequestType] /\ thr[t].fix = None
    BY NoFix, FindsDomain DEF IInv, TypeOK, StartLaunch, At
  <1>11. r \in RequestType /\ r.fix = None /\ r.at = "startNote" /\ thr' = [thr EXCEPT ![t] = r]
    BY <1>0, <1>10 DEF StartLaunch, RequestType, Places
  <1>12. Moves(t) /\ Keeps(thr[t])'
    BY <1>11, ReplaceKeeps DEF Guarded
  <1>13. ConfigOK' /\ FilesOK' /\ StrangersSpared' /\ pidfile' = pidfile
    BY FileTypes DEF IInv, StartLaunch, ConfigOK, FilesOK, StrangersSpared, config, files, box, bounds
  <1>14. QED
    BY <1>6, <1>7, <1>9, <1>12, <1>13, StepKeeps

\* A step in which processes end or are signalled.
LEMMA TameStepKeeps ==
    ASSUME IInv, NEW t \in Threads, Moves(t), Keeps(thr[t])', UNCHANGED <<setup, bounds>>, Tame,
           ConfigOK', FilesOK', pidfile' \in {pidfile, 0}, "stop" \notin hurt'
    PROVE  IInv'
  <1>1. Calm /\ Children' /\ MachineOK' /\ Own(0)
    BY FileTypes, TameKeeps, Zero
  <1>2. pidfile' = pidfile \/ Own(pidfile)'
    BY <1>1, FileTypes DEF Calm, Own, Foreign, Is, Alive
  <1>3. QED
    BY <1>1, <1>2, StepKeeps DEF StrangersSpared

LEMMA StopSignalKeeps ==
    ASSUME IInv, NEW t \in Threads, UNCHANGED <<setup, bounds>>, StopSignalDog(t) \/ StopSignalGateway(t)
    PROVE  IInv'
  <1>1. thr[t] \in RequestType /\ Keeps(thr[t]) /\ thr \in [Threads -> RequestType] /\ thr[t].fix = None
    BY NoFix, FindsDomain DEF IInv, TypeOK, StopSignalDog, StopSignalGateway, At
  <1>2. UNCHANGED <<config, files, used, box>>
    BY DEF StopSignalDog, StopSignalGateway
  <1>3. "stop" \notin hurt' /\ Tame
    <2>1. CASE StopSignalDog(t)
      BY <1>1, <1>2, <2>1, FileTypes, TermTame DEF IInv, StrangersSpared, StopSignalDog, At, Keeps, Own, Signal
    <2>2. CASE StopSignalGateway(t)
      BY <1>1, <1>2, <2>2, FileTypes, TermTame DEF IInv, StrangersSpared, StopSignalGateway, At, Keeps, Own, Signal
    <2>3. QED
      BY <2>1, <2>2
  <1>4. Moves(t) /\ Keeps(thr[t])'
    <2>1. CASE StopSignalDog(t)
      <3>1. Own(thr[t].gateway) /\ thr[t].gateway \in 0..MaxPid /\ thr[t].at = "stopSignalDog"
        BY <1>1, <2>1 DEF StopSignalDog, At, Keeps, RequestType
      <3>2. /\ thr' = [thr EXCEPT ![t] = [thr[t] EXCEPT !.at = "stopSignalGateway"]]
            /\ [thr[t] EXCEPT !.at = "stopSignalGateway"] \in RequestType
        BY <1>1, <2>1 DEF StopSignalDog, Goto, RequestType, Places
      <3>3. Moves(t) /\ thr'[t].fix = None /\ thr'[t].at = "stopSignalGateway" /\ thr'[t].gateway = thr[t].gateway
        BY <1>1, <3>2 DEF Moves, RequestType
      <3>4. Calm
        BY <1>3, FileTypes, TameKeeps
      <3>5. QED
        BY <3>1, <3>3, <3>4 DEF Keeps, Calm
    <2>2. CASE StopSignalGateway(t)
      BY <1>1, <2>2, GotoKeeps DEF StopSignalGateway, Places, Guarded
    <2>3. QED
      BY <2>1, <2>2
  <1>5. ConfigOK' /\ FilesOK' /\ pidfile' = pidfile
    BY <1>2, FileTypes DEF ConfigOK, FilesOK, config, files, box, bounds
  <1>6. QED
    BY <1>3, <1>4, <1>5, TameStepKeeps

LEMMA StopAwaitKeeps ==
    ASSUME IInv, NEW t \in Threads, UNCHANGED <<setup, bounds>>, StopAwaitGateway(t)
    PROVE  IInv'
  <1>1. thr[t].fix = None
    BY NoFix, FindsDomain DEF StopAwaitGateway, At
  <1>2. Moves(t) /\ Keeps(thr[t])'
    BY <1>1, GotoKeeps DEF StopAwaitGateway, Places, Guarded
  <1>3. Tame
    BY FileTypes, DestroyTame DEF StopAwaitGateway
  <1>4. ConfigOK' /\ FilesOK' /\ pidfile' = pidfile /\ "stop" \notin hurt'
    BY FileTypes DEF IInv, StrangersSpared, StopAwaitGateway, ConfigOK, FilesOK, config, files, box, bounds
  <1>5. QED
    BY <1>2, <1>3, <1>4, TameStepKeeps

LEMMA HostScriptKeeps ==
    ASSUME IInv, NEW t \in Threads, UNCHANGED <<setup, bounds>>, HostScript(t)
    PROVE  IInv'
  BY LookKeeps, FixKeeps, HostQuietKeeps, FallbackKeeps, StartLaunchKeeps, StopSignalKeeps, StopAwaitKeeps
     DEF HostScript

----------------------------------------------------------------------------
\* The scripts of sandbox mode.  They do signal what the files name, whatever it is.

LEMMA KindFile ==
    ASSUME FilesOK, NEW kind \in {"dog", "gateway"}
    PROVE  FileOf(kind) \in 0..MaxPid
  BY DEF FilesOK, FileOf

LEMMA BoxSignalKeeps ==
    ASSUME IInv, NEW t \in Threads, UNCHANGED <<setup, bounds>>,
           NEW at \in {"boxGateway", "boxDog"}, NEW kind \in {"dog", "gateway"},
           NEW next \in {"boxGatewayLate", "boxDogLate"}, BoxSignal(t, at, kind, next)
    PROVE  IInv'
  <1>1. thr[t] \in RequestType /\ thr[t].fix = None
    BY NoFix, FindsDomain DEF IInv, TypeOK, BoxSignal, At
  <1> DEFINE r == [thr[t] EXCEPT !.at = next, !.dog = FileOf(kind)]
  <1>2. r \in RequestType /\ r.fix = None /\ r.at = next /\ thr' = [thr EXCEPT ![t] = r]
    BY <1>1, FileTypes, KindFile DEF BoxSignal, RequestType, Places, IInv, TypeOK
  <1>3. Moves(t) /\ Keeps(thr[t])'
    BY <1>2, ReplaceKeeps DEF Guarded
  <1>4. Tame /\ "stop" \notin hurt'
    BY FileTypes, TermTame DEF BoxSignal, Signal, IInv, StrangersSpared
  <1>5. ConfigOK' /\ FilesOK' /\ pidfile' = pidfile
    BY FileTypes DEF BoxSignal, ConfigOK, FilesOK, config, files, box, bounds
  <1>6. QED
    BY <1>3, <1>4, <1>5, TameStepKeeps

LEMMA BoxKillKeeps ==
    ASSUME IInv, NEW t \in Threads, UNCHANGED <<setup, bounds>>,
           NEW at \in {"boxGatewayLate", "boxDogLate"}, NEW kind \in {"dog", "gateway"},
           NEW next \in {"boxDog", "boxCheck"}, BoxKill(t, at, kind, next)
    PROVE  IInv'
  <1>1. thr[t].fix = None
    BY NoFix, FindsDomain DEF BoxKill, At
  <1>2. Moves(t) /\ Keeps(thr[t])'
    BY <1>1, GotoKeeps DEF BoxKill, Places, Guarded
  <1>3. Tame
    BY FileTypes, DestroyTame DEF BoxKill
  <1>4. ConfigOK' /\ FilesOK' /\ pidfile' \in {pidfile, 0} /\ "stop" \notin hurt'
    BY FileTypes DEF IInv, StrangersSpared, BoxKill, SetFile, ConfigOK, FilesOK, config, files, box, bounds
  <1>5. QED
    BY <1>2, <1>3, <1>4, TameStepKeeps

LEMMA BoxStopSignalKeeps ==
    ASSUME IInv, NEW t \in Threads, UNCHANGED <<setup, bounds>>, BoxStopGateway(t) \/ BoxStopDog(t)
    PROVE  IInv'
  <1>1. thr[t].fix = None
    BY NoFix, FindsDomain DEF BoxStopGateway, BoxStopDog, At
  <1>2. Moves(t) /\ Keeps(thr[t])'
    BY <1>1, GotoKeeps DEF BoxStopGateway, BoxStopDog, Places, Outcomes, Guarded
  <1>3. Tame /\ "stop" \notin hurt'
    BY FileTypes, TermTame DEF BoxStopGateway, BoxStopDog, Signal, IInv, StrangersSpared
  <1>4. ConfigOK' /\ FilesOK' /\ pidfile' \in {pidfile, 0}
    BY FileTypes DEF BoxStopGateway, BoxStopDog, ConfigOK, FilesOK, config, files, box, bounds
  <1>5. QED
    BY <1>2, <1>3, <1>4, TameStepKeeps

LEMMA BoxQuietKeeps ==
    ASSUME IInv, NEW t \in Threads, UNCHANGED <<setup, bounds>>, BoxCheck(t) \/ BoxRun(t) \/ BoxStop(t) \/ BoxStatus(t)
    PROVE  IInv'
  <1>1. thr[t].fix = None
    BY NoFix, FindsDomain DEF BoxCheck, BoxRun, BoxStop, BoxStatus, At
  <1>2. \E l \in Places \ Guarded : Goto(t, l)
    BY DEF BoxCheck, BoxRun, BoxStop, BoxStatus, Places, Guarded, Outcomes
  <1>3. Moves(t) /\ Keeps(thr[t])'
    BY <1>1, <1>2, GotoKeeps
  <1>4. UNCHANGED <<config, machine, hurt>> /\ pidfile' = pidfile /\ FilesOK'
    BY FileTypes DEF BoxCheck, BoxRun, BoxStop, BoxStatus, files, FilesOK
  <1>5. ConfigOK'
    BY <1>4, FileTypes DEF BoxCheck, BoxRun, BoxStop, BoxStatus, RemoveBox, box, config, bounds, ConfigOK
  <1>6. QED
    BY <1>3, <1>4, <1>5, QuietKeeps

LEMMA BoxScriptKeeps ==
    ASSUME IInv, NEW t \in Threads, UNCHANGED <<setup, bounds>>, BoxScript(t)
    PROVE  IInv'
  <1>1. CASE BoxSignal(t, "boxGateway", "gateway", "boxGatewayLate") \/ BoxSignal(t, "boxDog", "dog", "boxDogLate")
    BY <1>1, BoxSignalKeeps
  <1>2. CASE BoxKill(t, "boxGatewayLate", "gateway", "boxDog") \/ BoxKill(t, "boxDogLate", "dog", "boxCheck")
    BY <1>2, BoxKillKeeps
  <1>3. CASE BoxStopGateway(t) \/ BoxStopDog(t)
    BY <1>3, BoxStopSignalKeeps
  <1>4. CASE BoxCheck(t) \/ BoxRun(t) \/ BoxStop(t) \/ BoxStatus(t)
    BY <1>4, BoxQuietKeeps
  <1>5. QED
    BY <1>1, <1>2, <1>3, <1>4 DEF BoxScript

----------------------------------------------------------------------------
\* The handlers.

LEMMA MoveOnKeeps ==
    ASSUME IInv, NEW t \in Threads, UNCHANGED <<setup, bounds>>, Checked(t) \/ Restarting(t)
    PROVE  IInv'
  <1>1. thr[t] \in RequestType /\ thr[t].fix = None
    BY NoFix, FindsDomain DEF IInv, TypeOK, Checked, Restarting, Ended, Outcomes
  <1>2. Moves(t) /\ Keeps(thr[t])'
    <2>1. CASE Checked(t)
      <3>1. CASE Return(t)
        BY <3>1, ReturnKeeps
      <3>2. CASE thr' = [thr EXCEPT ![t].at = Entry("start"), ![t].stage = "script"]
        <4> DEFINE r == [thr[t] EXCEPT !.at = Entry("start"), !.stage = "script"]
        <4>1. r \in RequestType /\ r.fix = None /\ r.at \notin Guarded
          BY <1>1, EntryType DEF RequestType
        <4>2. thr' = [thr EXCEPT ![t] = r]
          BY <3>2 DEF IInv, TypeOK
        <4>3. QED
          BY <4>1, <4>2, ReplaceKeeps
      <3>3. QED
        BY <2>1, <3>1, <3>2 DEF Checked
    <2>2. CASE Restarting(t)
      <3> DEFINE r == [Idle EXCEPT !.op = "restart", !.at = Entry("start")]
      <3>1. r \in RequestType /\ r.fix = None /\ r.at \notin Guarded
        BY IdleType, EntryType DEF RequestType, Idle, Ops, Scripts
      <3>2. QED
        BY <2>2, <3>1, ReplaceKeeps DEF Restarting
    <2>3. QED
      BY <2>1, <2>2
  <1>3. UNCHANGED <<config, files, machine, box, hurt>>
    BY DEF Checked, Restarting
  <1>4. ConfigOK' /\ FilesOK' /\ pidfile' = pidfile
    BY <1>3, FileTypes DEF ConfigOK, FilesOK, config, files, box, bounds
  <1>5. QED
    BY <1>2, <1>3, <1>4, QuietKeeps

LEMMA HandlerQuietKeeps ==
    ASSUME IInv, NEW t \in Threads, UNCHANGED <<setup, bounds>>,
           \/ Report(t) \/ Update(t) \/ UpdateRaw(t) \/ Reconcile(t) \/ Delete(t) \/ DeleteBox(t) \/ Create(t) \/ DockerEnds(t)
    PROVE  IInv'
  <1>1. thr[t].fix = None
    BY NoFix, FindsDomain
       DEF Report, Update, UpdateRaw, Reconcile, Delete, DeleteBox, Create, DockerEnds, At, Ended, Outcomes
  <1>2. Return(t) \/ \E l \in Places \ Guarded : Goto(t, l)
    BY DEF Report, Update, UpdateRaw, Reconcile, Delete, DeleteBox, Create, DockerEnds, Places, Guarded
  <1>3. Moves(t) /\ Keeps(thr[t])'
    BY <1>1, <1>2, GotoKeeps, ReturnKeeps
  <1>4. UNCHANGED <<machine, hurt>> /\ pidfile' \in {pidfile, 0} /\ FilesOK'
    BY FileTypes
       DEF Report, Update, UpdateRaw, SaveMode, NewConfig, Reconcile, Delete, DeleteBox, Create, DockerEnds, files, FilesOK
  <1>5. ConfigOK'
    <2>1. setup.mode \in Modes
      BY FileTypes, LifecycleAssumption DEF ConfigOK
    <2>2. QED
      BY <2>1, FileTypes
         DEF Report, Update, UpdateRaw, SaveMode, NewConfig, Reconcile, Delete, DeleteBox, Create, DockerEnds, RemoveBox, ConfigOK, Modes,
             config, box, bounds
  <1>6. QED
    BY <1>3, <1>4, <1>5, QuietKeeps

LEMMA SaveConnectorTame ==
    ASSUME IInv, NEW t \in Threads, SaveConnector(t)
    PROVE  Tame
  <1>1. \A p \in Pids : proc[p] \in ProcessType \cup {None}
    BY FileTypes DEF MachineOK
  <1>2. \A p \in Pids : Alive(p) => [proc[p] EXCEPT !.stale = TRUE] \in ProcessType
    BY FileTypes, Running DEF ProcessType
  <1>3. \A p \in Are("gateway") : Alive(p)
    BY DEF Are, Is
  <1>4. proc' \in [Pids -> ProcessType \cup {None}]
    BY <1>1, <1>2, <1>3 DEF SaveConnector
  <1>5. \A p \in Pids : Alive(p)' => /\ Alive(p) /\ proc'[p].kind = proc[p].kind
                                     /\ proc'[p].child = proc[p].child /\ proc'[p].termed = proc[p].termed
    BY <1>3, FileTypes, Running DEF SaveConnector, Alive, ProcessType
  <1>6. QED
    BY <1>4, <1>5 DEF SaveConnector, Tame, Firm

LEMMA ReloadTame ==
    ASSUME IInv, NEW t \in Threads, Reload(t)
    PROVE  Tame
  BY FileTypes DEF Reload, Tame, Firm, MachineOK, Alive

LEMMA SaveConnectorKeeps ==
    ASSUME IInv, NEW t \in Threads, UNCHANGED <<setup, bounds>>, SaveConnector(t)
    PROVE  IInv'
  <1>1. Moves(t) /\ Keeps(thr[t])'
    BY ReturnKeeps DEF SaveConnector
  <1>2. Tame
    BY SaveConnectorTame
  <1>3. ConfigOK' /\ FilesOK' /\ pidfile' = pidfile /\ "stop" \notin hurt'
    BY FileTypes DEF IInv, StrangersSpared, SaveConnector, At, ConfigOK, FilesOK, files, bounds
  <1>4. QED
    BY <1>1, <1>2, <1>3, TameStepKeeps

LEMMA ReloadKeeps ==
    ASSUME IInv, NEW t \in Threads, UNCHANGED <<setup, bounds>>, Reload(t)
    PROVE  IInv'
  <1>1. Moves(t) /\ Keeps(thr[t])'
    BY ReturnKeeps DEF Reload
  <1>2. Tame
    BY ReloadTame
  <1>3. ConfigOK' /\ FilesOK' /\ pidfile' = pidfile /\ "stop" \notin hurt'
    BY FileTypes DEF IInv, StrangersSpared, Reload, ConfigOK, FilesOK, config, files, box, bounds
  <1>4. QED
    BY <1>1, <1>2, <1>3, TameStepKeeps

LEMMA ThreadStepKeeps ==
    ASSUME IInv, NEW t \in Threads, ThreadStep(t)
    PROVE  IInv'
  <1>1. UNCHANGED <<setup, bounds>>
    BY DEF ThreadStep
  <1>2. CASE HostScript(t)
    BY <1>1, <1>2, HostScriptKeeps
  <1>3. CASE BoxScript(t)
    BY <1>1, <1>3, BoxScriptKeeps
  <1>4. CASE Handler(t)
    BY <1>1, <1>4, MoveOnKeeps, HandlerQuietKeeps, SaveConnectorKeeps, ReloadKeeps DEF Handler
  <1>5. QED
    BY <1>2, <1>3, <1>4 DEF ThreadStep

\* An operation begins, and a script is cut off.
LEMMA FirstType ==
    ASSUME NEW op \in Ops
    PROVE  First(op) \in RequestType /\ First(op).fix = None /\ First(op).at \notin Guarded
  <1>1. \A l \in Places : [Idle EXCEPT !.op = op, !.stage = "probe", !.at = l] \in RequestType
    BY IdleType DEF RequestType
  <1>2. \A l \in Places : [Idle EXCEPT !.op = op, !.stage = "stop", !.at = l] \in RequestType
    BY IdleType DEF RequestType
  <1>3. \A l \in Places : [Idle EXCEPT !.op = op, !.at = l] \in RequestType
    BY IdleType DEF RequestType
  <1>4. [Idle EXCEPT !.op = op, !.stage = "handler", !.at = "handler"] \in RequestType
    BY IdleType DEF RequestType, Places
  <1>5. CASE op \in {"start", "connector"}
    BY <1>1, <1>5, EntryType DEF First, Idle
  <1>6. CASE op = "restart"
    BY <1>2, <1>6, EntryType DEF First, Idle
  <1>7. CASE op \in {"stop", "status"}
    BY <1>3, <1>7, EntryType DEF First, Idle
  <1>8. CASE op \notin {"start", "connector", "restart", "stop", "status"}
    BY <1>4, <1>8 DEF First, Idle, Guarded
  <1>9. QED
    BY <1>5, <1>6, <1>7, <1>8

LEMMA BeginKeeps ==
    ASSUME IInv, NEW t \in Threads, NEW op \in Ops, Begin(t, op)
    PROVE  IInv'
  <1>1. Moves(t) /\ Keeps(thr[t])'
    BY FirstType, ReplaceKeeps DEF Begin
  <1>2. ConfigOK' /\ FilesOK' /\ pidfile' = pidfile /\ UNCHANGED <<machine, hurt>>
    BY FileTypes DEF Begin, ConfigOK, FilesOK, config, files, box
  <1>3. Calm /\ Children' /\ MachineOK'
    BY <1>2, FileTypes, SameMachine, TameKeeps
  <1>4. QED
    BY <1>1, <1>2, <1>3, StepKeeps DEF IInv, StrangersSpared

LEMMA CutKeeps ==
    ASSUME IInv, NEW t \in Threads, Cut(t) \/ ProbeFails(t)
    PROVE  IInv'
  <1>1. Moves(t) /\ Keeps(thr[t])'
    <2>1. CASE Cut(t)
      <3>1. PICK rest \in Outlives(t) : thr' = [thr EXCEPT ![t] = rest]
        BY <2>1 DEF Cut, ProbeFails
      <3>2. thr[t] \in RequestType /\ Keeps(thr[t]) /\ pidfile' = pidfile /\ thr \in [Threads -> RequestType]
            /\ UNCHANGED machine
        BY <2>1 DEF IInv, TypeOK, Cut, files
      <3>3. CASE Inner(t)
        <4>1. rest = [thr[t] EXCEPT !.op = "orphan", !.stage = "script"]
          BY <3>1, <3>3 DEF Outlives
        <4>2. rest \in RequestType /\ rest.at = thr[t].at /\ rest.fix = thr[t].fix /\ rest.dog = thr[t].dog
              /\ rest.gateway = thr[t].gateway
          BY <3>2, <4>1 DEF RequestType
        <4>3. Moves(t) /\ thr'[t] = rest
          BY <3>1, <3>2, <4>2 DEF Moves
        <4>4. QED
          BY <3>2, <4>2, <4>3 DEF Keeps, Own, Foreign, Is, Alive, machine
      <3>4. CASE ~Inner(t)
        <4>1. rest = Idle \/ \E l \in Late(t) : rest = [Idle EXCEPT !.op = "orphan", !.at = l]
          BY <3>1, <3>4 DEF Outlives
        <4>2. rest \in RequestType /\ rest.fix = None /\ rest.at \notin Guarded
          <5>0. (\A l \in Places : [Idle EXCEPT !.op = "orphan", !.at = l] \in RequestType) /\ Late(t) \subseteq Places
            <6>1. ASSUME NEW l \in Places PROVE [Idle EXCEPT !.op = "orphan", !.at = l] \in RequestType
              BY IdleType DEF RequestType
            <6>2. Late(t) \subseteq {"boxRun", "lateStop", "lateRemove"}
              BY DEF Late
            <6>3. QED
              BY <6>1, <6>2 DEF Places
          <5>1. rest \in RequestType
            BY <4>1, <5>0, IdleType
          <5>2. Idle.fix = None /\ Idle.at = "idle" /\ Idle \in RequestType
            BY IdleType
          <5>3. rest.fix = None /\ (rest.at = "idle" \/ rest.at \in Late(t))
            BY <4>1, <5>2 DEF RequestType
          <5>4. QED
            BY <5>1, <5>3 DEF Late, Guarded
        <4>3. QED
          BY <3>1, <4>2, ReplaceKeeps
      <3>5. QED
        BY <3>3, <3>4
    <2>2. CASE ProbeFails(t)
      <3> DEFINE r == [thr[t] EXCEPT !.at = "unknown", !.fix = None]
      <3>1. thr[t] \in RequestType /\ thr' = [thr EXCEPT ![t] = r]
        BY <2>2 DEF IInv, TypeOK, ProbeFails
      <3>2. r \in RequestType /\ r.fix = None /\ r.at \notin Guarded
        BY <3>1 DEF RequestType, Places, Outcomes, Guarded
      <3>3. QED
        BY <3>1, <3>2, ReplaceKeeps
    <2>3. QED
      BY <2>1, <2>2
  <1>2. ConfigOK' /\ FilesOK' /\ pidfile' = pidfile /\ UNCHANGED <<machine, hurt>>
    BY FileTypes DEF Cut, ProbeFails, ConfigOK, FilesOK, config, files, box
  <1>3. Calm /\ Children' /\ MachineOK'
    BY <1>2, FileTypes, SameMachine, TameKeeps
  <1>4. QED
    BY <1>1, <1>2, <1>3, StepKeeps DEF IInv, StrangersSpared

----------------------------------------------------------------------------
\* The gateway and the machine.

LEMMA GatewayKeeps ==
    ASSUME IInv, NEW g \in Are("gateway"), Up(g) \/ End(g)
    PROVE  IInv'
  <1>1. g \in Pids /\ proc[g] \in ProcessType
    BY FileTypes, Running DEF Are, Is
  <1>2. Tame
    BY <1>1, FileTypes DEF Up, End, Is, Tame, Firm, MachineOK, Alive, ProcessType
  <1>3. Calm /\ Children' /\ MachineOK'
    BY <1>2, FileTypes, TameKeeps
  <1>4. UNCHANGED <<setup, config, files, box, thr, bounds, hurt>>
    BY DEF Up, End
  <1>5. \A u \in Threads : Keeps(thr[u])'
    BY <1>3, <1>4, OthersKeep DEF files
  <1>6. QED
    BY <1>3, <1>4, <1>5, FileTypes
       DEF IInv, TypeOK, ConfigOK, FilesOK, StrangersSpared, config, files, box, bounds

LEMMA DieKeeps ==
    ASSUME IInv, Die
    PROVE  IInv'
  <1>1. Tame
    BY FileTypes DEF Die, Serving, Are, Tame, Firm, MachineOK, Alive
  <1>2. Calm /\ Children' /\ MachineOK'
    BY <1>1, FileTypes, TameKeeps
  <1>3. UNCHANGED <<setup, config, files, boxStale, thr, ops, reboots, cuts, hurt>>
    BY DEF Die
  <1>4. \A u \in Threads : Keeps(thr[u])'
    BY <1>2, <1>3, OthersKeep DEF files
  <1>5. ConfigOK'
    BY <1>3, FileTypes DEF Die, ConfigOK, config
  <1>6. QED
    BY <1>2, <1>3, <1>4, <1>5, FileTypes DEF IInv, TypeOK, FilesOK, StrangersSpared, files

LEMMA RebootKeeps ==
    ASSUME IInv, Reboot
    PROVE  IInv'
  <1>1. /\ proc' = [p \in Pids |-> None] /\ used' = 0 /\ thr' = [t \in Threads |-> Idle]
        /\ UNCHANGED <<setup, config, files, boxStale, ops, deaths, cuts, hurt>>
    BY DEF Reboot
  <1>2. MachineOK' /\ Children'
    BY <1>1, LifecycleAssumption DEF MachineOK, Children, Alive
  <1>3. \A u \in Threads : Keeps(thr[u])'
    BY <1>1, IdleType DEF Keeps
  <1>4. ConfigOK'
    BY <1>1, FileTypes DEF Reboot, ConfigOK, config
  <1>5. QED
    BY <1>1, <1>2, <1>3, <1>4, FileTypes, IdleType DEF IInv, TypeOK, FilesOK, StrangersSpared, files

LEMMA StrangerKeeps ==
    ASSUME IInv, Stranger
    PROVE  IInv'
  <1>0. /\ MachineOK /\ Children /\ Fresh \in Pids /\ Fresh \in 0..MaxPid /\ ~Alive(Fresh)
        /\ proc' = [proc EXCEPT ![Fresh] = Process("other")]
    BY FileTypes, LifecycleAssumption DEF MachineOK, Stranger, Alive, Fresh, Pids
  <1>1. Process("other") \in ProcessType /\ Process("other").child = 0
    BY LifecycleAssumption DEF Process, ProcessType
  <1>2. proc' \in [Pids -> ProcessType \cup {None}]
    BY <1>0, <1>1 DEF MachineOK
  <1>3. (\A p \in Pids : p # Fresh => proc'[p] = proc[p]) /\ proc'[Fresh] = Process("other")
    BY <1>0 DEF MachineOK
  <1>4. used' = used + 1 /\ used' = Fresh /\ used \in 0..MaxPid
    BY <1>0 DEF Stranger, Fresh, MachineOK
  <1>5. Calm
    <2>1. SUFFICES ASSUME NEW p \in 0..MaxPid, Own(p) PROVE Own(p)'
      BY DEF Calm
    <2>2. p # Fresh /\ p <= used'
      BY <1>4, <2>1, LifecycleAssumption DEF Own
    <2>3. QED
      BY <1>3, <2>1, <2>2 DEF Own, Foreign, Is, Alive
  <1>6. MachineOK'
    <2>1. \A p \in Pids : Alive(p)' => p <= used'
      BY <1>0, <1>3, <1>4, LifecycleAssumption DEF MachineOK, Pids, Alive
    <2>2. QED
      BY <1>0, <1>2, <1>4, <2>1 DEF MachineOK
  <1>7. Own(0)'
    BY <1>6, Zero, LifecycleAssumption DEF MachineOK, Own, Foreign, Is, Alive, Pids
  <1>8. Children'
    <2>1. SUFFICES ASSUME NEW e \in Pids, Alive(e)' PROVE Own(proc[e].child)'
      BY DEF Children
    <2>2. CASE e = Fresh
      BY <1>1, <1>3, <1>7, <2>2 DEF Own, Foreign, Is, Alive
    <2>3. CASE e # Fresh
      <3>1. Alive(e) /\ proc'[e] = proc[e]
        BY <1>3, <2>1, <2>3 DEF Alive
      <3>2. Own(proc[e].child) /\ proc[e].child \in 0..MaxPid
        BY <1>0, <3>1, Running DEF Children, ProcessType
      <3>3. QED
        BY <1>5, <3>1, <3>2 DEF Calm, Own, Foreign, Is, Alive
    <2>4. QED
      BY <2>2, <2>3
  <1>9. UNCHANGED <<setup, config, files, box, thr, bounds, hurt>>
    BY DEF Stranger
  <1>10. \A u \in Threads : Keeps(thr[u])'
    BY <1>5, <1>9, OthersKeep DEF files
  <1>11. QED
    BY <1>6, <1>8, <1>9, <1>10, FileTypes
       DEF IInv, TypeOK, ConfigOK, FilesOK, StrangersSpared, config, files, box, bounds

----------------------------------------------------------------------------
\* The invariant, and what follows from it.

LEMMA InitInv == Init => IInv
  <1>1. SUFFICES ASSUME Init PROVE IInv
    OBVIOUS
  <1>2. setup \in Setups /\ setup.mode \in Modes /\ 0 \in 0..MaxPid
    BY <1>1, LifecycleAssumption DEF Init
  <1>3. ConfigOK /\ FilesOK
    BY <1>1, <1>2 DEF Init, ConfigOK, FilesOK
  <1>4. MachineOK /\ Children
    BY <1>1, <1>2 DEF Init, MachineOK, Children, Alive
  <1>5. thr \in [Threads -> RequestType] /\ \A t \in Threads : Keeps(thr[t])
    BY <1>1, IdleType DEF Init, Keeps
  <1>6. QED
    BY <1>1, <1>3, <1>4, <1>5 DEF IInv, TypeOK, StrangersSpared, Init

LEMMA StutterInv == IInv /\ UNCHANGED vars => IInv'
  <1>1. SUFFICES ASSUME IInv, UNCHANGED vars PROVE IInv'
    OBVIOUS
  <1>2. UNCHANGED <<setup, config, files, machine, box, thr, bounds, hurt>>
    BY <1>1 DEF vars
  <1>3. Calm /\ Children' /\ MachineOK'
    BY <1>1, <1>2, FileTypes, SameMachine, TameKeeps
  <1>4. \A u \in Threads : Keeps(thr[u])'
    BY <1>1, <1>2, <1>3, OthersKeep DEF files
  <1>5. QED
    BY <1>1, <1>2, <1>3, <1>4, FileTypes
       DEF IInv, TypeOK, ConfigOK, FilesOK, StrangersSpared, config, files, box, bounds

LEMMA NextInv == IInv /\ [Next]_vars => IInv'
  <1>1. SUFFICES ASSUME IInv, [Next]_vars PROVE IInv'
    OBVIOUS
  <1>2. ASSUME NEW d \in Are("dog"), DogStep(d) PROVE IInv'
    BY <1>1, <1>2, DogStepKeeps DEF Are
  <1>3. ASSUME NEW g \in Are("gateway"), Up(g) \/ End(g) PROVE IInv'
    BY <1>1, <1>3, GatewayKeeps
  <1>4. CASE Die \/ Reboot \/ Stranger
    BY <1>1, <1>4, DieKeeps, RebootKeeps, StrangerKeeps
  <1>5. ASSUME NEW t \in Threads, ThreadStep(t) \/ Cut(t) \/ ProbeFails(t) PROVE IInv'
    BY <1>1, <1>5, ThreadStepKeeps, CutKeeps
  <1>6. ASSUME NEW t \in Threads, NEW op \in Ops, Begin(t, op) PROVE IInv'
    BY <1>1, <1>6, BeginKeeps
  <1>7. CASE UNCHANGED vars
    BY <1>1, <1>7, StutterInv
  <1>8. QED
    BY <1>1, <1>2, <1>3, <1>4, <1>5, <1>6, <1>7 DEF Next

LEMMA AlwaysInv == Spec => []IInv
  BY InitInv, NextInv, PTL DEF Spec

\* The files and the scripts hold process ids, and only ids given out since the boot are in
\* use (the run directory, start.sh, stop.sh, watchdog.sh).
THEOREM TypeCorrect == Spec => []TypeOK
  <1>1. IInv => TypeOK
    BY DEF IInv
  <1>2. QED
    BY <1>1, AlwaysInv, PTL

\* A process that is not the instance's is never signalled by the scripts of host mode, however
\* operations, deaths and reboots follow one another: the scripts look at the command line before
\* they keep an id, an id kept is from this boot, and a boot gives out no id twice.
THEOREM NoStrangerSignalled == Spec => []StrangersSpared
  <1>1. IInv => StrangersSpared
    BY DEF IInv
  <1>2. QED
    BY <1>1, AlwaysInv, PTL

\* The process a watchdog waits for, signals and kills is never a foreign one: its shell keeps the
\* child's id and not the file's (watchdog.sh, CHILD_PID).
THEOREM ChildrenOwn == Spec => []Children
  <1>1. IInv => Children
    BY DEF IInv
  <1>2. QED
    BY <1>1, AlwaysInv, PTL

----------------------------------------------------------------------------
\* Who does what: an operation, and the places of its scripts.

HostStart == {"startContainer", "startDog", "startGateway", "startRunning", "startLone", "startWatched", "startClear",
              "startLaunch", "startNote", "awaitDog", "awaitGateway", "lateDog", "lateGateway"}
HostStop == {"stopGateway", "stopDog", "stopAny", "stopFindDog", "stopFindGateway", "stopFallback", "stopSignalDog",
             "stopSignalGateway", "stopAwaitGateway", "stopAwaitDog", "stopForget", "stopClear"}
HostProbe == {"statusGateway", "statusDog"}
BoxStart == {"boxGateway", "boxGatewayLate", "boxDog", "boxDogLate", "boxCheck", "boxRun"}
BoxHalt == {"boxStop", "boxStopGateway", "boxStopDog"}
HostPlaces == HostStart \cup HostStop \cup HostProbe
BoxPlaces == BoxStart \cup BoxHalt \cup {"boxStatus"}

Starting(t) ==
    /\ thr[t].op \in {"start", "restart"} /\ thr[t].stage = "script"
    /\ thr[t].at \in HostStart \cup BoxStart \cup {"started", "already", "failed"}
Halting(t) ==
    /\ (thr[t].op = "stop" /\ thr[t].stage = "script") \/ (thr[t].op = "restart" /\ thr[t].stage = "stop")
    /\ thr[t].at \in HostStop \cup BoxHalt \cup {"stopped"}
Probing(t) ==
    /\ (thr[t].op = "status" /\ thr[t].stage = "script") \/ (thr[t].op \in {"start", "connector"} /\ thr[t].stage = "probe")
    /\ thr[t].at \in HostProbe \cup {"boxStatus", "running", "stopped", "unknown"}
Handling(t) ==
    /\ thr[t].op \in Ops \ {"start", "stop", "restart", "status", "connector"} /\ thr[t].stage = "handler"
    /\ thr[t].at \in {"handler", "reconcile", "deleteBox"} /\ (thr[t].op = "reload" => thr[t].at = "handler")
Orphaned(t) ==
    /\ thr[t].op = "orphan" /\ thr[t].stage = "script"
    /\ thr[t].at \in HostStart \cup HostStop \cup BoxStart \cup BoxHalt
                    \cup {"started", "already", "failed", "stopped", "lateStop", "lateRemove"}
Resting(t) == thr[t].op = None /\ thr[t].at = "idle" /\ thr[t].stage = "script"

\* A thread is at a place of its operation.
Coherent(t) == Resting(t) \/ Orphaned(t) \/ Starting(t) \/ Halting(t) \/ Probing(t) \/ Handling(t)

Active(t) == thr[t].op \notin {None, "reload"}
Changing(t) == thr[t].op \notin {None, "reload", "status"}

Free(S) == lapses \cap S = {}

\* Nothing is done beside an operation that changes something, or the lapses tell of it.
Alone(t, u) ==
    t # u /\ Changing(t) /\ Active(u) => IF Changing(u) THEN "overlap" \in lapses ELSE "probe" \in lapses

\* A script is the one of the mode.
RightMode(t) ==
    Free({"overlap"}) /\ Changing(t) => /\ thr[t].at \in HostPlaces => mode = "host"
                                        /\ thr[t].at \in BoxPlaces => mode = "sandbox"

Orderly ==
    /\ \A t \in Threads : Coherent(t) /\ RightMode(t)
    /\ \A t, u \in Threads : Alone(t, u)

\* The places a script goes to from a place of it.
SameScript(a, b) ==
    /\ a \in HostPlaces \cup BoxPlaces
    /\ a \in HostStart => b \in HostStart \cup {"started", "already", "failed"}
    /\ a \in HostStop => b \in HostStop \cup {"stopped"}
    /\ a \in HostProbe => b \in HostProbe \cup {"running", "stopped"}
    /\ a \in BoxStart => b \in BoxStart \cup {"started", "already", "failed"}
    /\ a \in BoxHalt => b \in BoxHalt \cup {"stopped"}
    /\ a = "boxStatus" => b \in {"running", "stopped"}

\* The thread goes on with its operation.
GoesOn(t) == thr'[t].op = thr[t].op /\ thr'[t].stage = thr[t].stage

\* Only t moves, to a place l, and keeps what it has found.
Steps(t, l) ==
    /\ Moves(t) /\ GoesOn(t) /\ thr'[t].at = l
    /\ thr'[t].fix = thr[t].fix /\ thr'[t].dog = thr[t].dog /\ thr'[t].gateway = thr[t].gateway

LEMMA GotoSteps ==
    ASSUME IInv, NEW t \in Threads, NEW l \in Places, Goto(t, l)
    PROVE  Steps(t, l)
  <1>1. thr[t] \in RequestType /\ thr \in [Threads -> RequestType]
    BY DEF IInv, TypeOK
  <1>2. thr' = [thr EXCEPT ![t] = [thr[t] EXCEPT !.at = l]] /\ [thr[t] EXCEPT !.at = l] \in RequestType
    BY <1>1 DEF Goto, RequestType
  <1>3. QED
    BY <1>1, <1>2 DEF Moves, Steps, GoesOn, RequestType

LEMMA ReturnMoves ==
    ASSUME IInv, NEW t \in Threads, Return(t)
    PROVE  Moves(t) /\ thr'[t] = Idle
  BY IdleType DEF IInv, TypeOK, Moves, Return

LEMMA FoundMoves ==
    ASSUME IInv, NEW t \in Threads, NEW p \in 0..MaxPid, thr[t].at \in DOMAIN Finds, Found(t, p)
    PROVE  /\ Moves(t) /\ GoesOn(t) /\ thr'[t].fix = None
           /\ thr'[t].at = (IF p = 0 THEN Finds[thr[t].at][3] ELSE Finds[thr[t].at][2])
           /\ thr'[t].dog = (IF At(t, "stopFindDog") THEN p ELSE thr[t].dog)
           /\ thr'[t].gateway = (IF At(t, "stopFindGateway") THEN p ELSE thr[t].gateway)
  <1>1. thr[t] \in RequestType /\ thr \in [Threads -> RequestType]
    BY DEF IInv, TypeOK
  <1> DEFINE at == thr[t].at
             to == IF p = 0 THEN Finds[at][3] ELSE Finds[at][2]
             r == [thr[t] EXCEPT !.fix = None, !.at = to, !.dog = IF at = "stopFindDog" THEN p ELSE @,
                                 !.gateway = IF at = "stopFindGateway" THEN p ELSE @]
  <1>2. to \in Places
    BY FindsType
  <1>3. thr' = [thr EXCEPT ![t] = r]
    BY <1>1 DEF Found
  <1>4. r \in RequestType
    BY <1>1, <1>2 DEF RequestType
  <1>5. /\ r.op = thr[t].op /\ r.stage = thr[t].stage /\ r.fix = None /\ r.at = to
        /\ r.dog = (IF at = "stopFindDog" THEN p ELSE thr[t].dog)
        /\ r.gateway = (IF at = "stopFindGateway" THEN p ELSE thr[t].gateway)
    BY <1>1 DEF RequestType
  <1>6. thr'[t] = r /\ Moves(t)
    BY <1>1, <1>3, <1>4 DEF Moves
  <1>7. QED
    BY <1>5, <1>6 DEF GoesOn, At

LEMMA FindsScript ==
    ASSUME NEW a \in DOMAIN Finds
    PROVE  SameScript(a, Finds[a][2]) /\ SameScript(a, Finds[a][3])
  <1>1. a \in HostPlaces
    BY FindsDomain DEF HostPlaces, HostStart, HostStop, HostProbe
  <1>2. SameScript(a, Finds[a][2])
    BY FindsDomain, <1>1 DEF Finds, SameScript, HostStart, HostStop, HostProbe, BoxStart, BoxHalt
  <1>3. SameScript(a, Finds[a][3])
    BY FindsDomain, <1>1 DEF Finds, SameScript, HostStart, HostStop, HostProbe, BoxStart, BoxHalt
  <1>4. QED
    BY <1>2, <1>3

\* What Look and Fix do to the thread.
LEMMA LookMoves ==
    ASSUME IInv, NEW t \in Threads, Look(t)
    PROVE  /\ thr[t].at \in DOMAIN Finds /\ thr[t].fix = None
           /\ \/ /\ Trusted(Finds[thr[t].at][1], FileOf(Finds[thr[t].at][1]))
                 /\ FileOf(Finds[thr[t].at][1]) \in 0..MaxPid
                 /\ Found(t, FileOf(Finds[thr[t].at][1]))
              \/ /\ Moves(t) /\ GoesOn(t) /\ thr'[t].at = thr[t].at
                 /\ thr'[t].dog = thr[t].dog /\ thr'[t].gateway = thr[t].gateway
                 /\ IF Are(Finds[thr[t].at][1]) = {} THEN thr'[t].fix = 0
                    ELSE thr'[t].fix \in Are(Finds[thr[t].at][1])
  <1> DEFINE kind == Finds[thr[t].at][1]
             q == FileOf(kind)
  <1>1. /\ thr[t] \in RequestType /\ thr \in [Threads -> RequestType] /\ FilesOK /\ MachineOK
        /\ thr[t].at \in DOMAIN Finds /\ thr[t].fix = None /\ kind \in {"dog", "gateway"}
    BY FindsType DEF IInv, TypeOK, Look
  <1>2. q \in 0..MaxPid
    BY <1>1, KindFile
  <1>3. CASE Trusted(kind, q)
    BY <1>1, <1>2, <1>3 DEF Look
  <1>4. CASE ~Trusted(kind, q)
    <2>1. PICK p \in (IF Are(kind) = {} THEN {0} ELSE Are(kind)) : thr' = [thr EXCEPT ![t].fix = p]
      BY <1>4 DEF Look
    <2>2. p \in 0..MaxPid
      BY <2>1, LifecycleAssumption DEF Are, Pids
    <2>3. thr' = [thr EXCEPT ![t] = [thr[t] EXCEPT !.fix = p]] /\ [thr[t] EXCEPT !.fix = p] \in RequestType
      BY <1>1, <2>1, <2>2 DEF RequestType
    <2>4. Moves(t) /\ thr'[t] = [thr[t] EXCEPT !.fix = p]
      BY <1>1, <2>3 DEF Moves
    <2>5. GoesOn(t) /\ thr'[t].at = thr[t].at /\ thr'[t].dog = thr[t].dog /\ thr'[t].gateway = thr[t].gateway /\ thr'[t].fix = p
      BY <1>1, <2>4 DEF GoesOn, RequestType
    <2>6. QED
      BY <1>1, <2>1, <2>4, <2>5
  <1>5. QED
    BY <1>3, <1>4

LEMMA FallbackMoves ==
    ASSUME IInv, NEW t \in Threads, StopFallback(t)
    PROVE  /\ Moves(t) /\ GoesOn(t) /\ At(t, "stopFallback") /\ At(t, "stopSignalDog")'
           /\ thr[t].at = "stopFallback" /\ thr'[t].at = "stopSignalDog"
           /\ thr'[t].fix = None /\ thr'[t].dog = thr[t].dog /\ thr'[t].gateway = pidfile
  <1>1. thr[t] \in RequestType /\ thr \in [Threads -> RequestType] /\ thr[t].at = "stopFallback" /\ thr[t].fix = None
    BY NoFix, FindsDomain DEF IInv, TypeOK, StopFallback, At
  <1> DEFINE r == [thr[t] EXCEPT !.at = "stopSignalDog", !.gateway = pidfile]
  <1>2. r \in RequestType /\ thr' = [thr EXCEPT ![t] = r]
    BY <1>1, FileTypes DEF StopFallback, RequestType, Places
  <1>3. /\ r.op = thr[t].op /\ r.stage = thr[t].stage /\ r.at = "stopSignalDog" /\ r.fix = None
        /\ r.dog = thr[t].dog /\ r.gateway = pidfile
    BY <1>1 DEF RequestType
  <1>4. thr'[t] = r /\ Moves(t)
    BY <1>1, <1>2 DEF Moves
  <1>5. QED
    BY <1>1, <1>3, <1>4 DEF GoesOn, At

LEMMA LaunchMoves ==
    ASSUME IInv, NEW t \in Threads, StartLaunch(t)
    PROVE  /\ Moves(t) /\ GoesOn(t) /\ thr[t].at = "startLaunch" /\ thr'[t].at = "startNote"
           /\ thr'[t].fix = None /\ thr'[t].dog = Fresh
  <1>1. /\ thr[t] \in RequestType /\ thr \in [Threads -> RequestType] /\ thr[t].at = "startLaunch" /\ thr[t].fix = None
        /\ Fresh \in 0..MaxPid
    BY NoFix, FindsDomain, LifecycleAssumption DEF IInv, TypeOK, StartLaunch, At, Pids
  <1> DEFINE r == [thr[t] EXCEPT !.at = "startNote", !.dog = Fresh]
  <1>2. r \in RequestType /\ thr' = [thr EXCEPT ![t] = r]
    BY <1>1 DEF StartLaunch, RequestType, Places
  <1>3. r.op = thr[t].op /\ r.stage = thr[t].stage /\ r.at = "startNote" /\ r.fix = None /\ r.dog = Fresh
    BY <1>1 DEF RequestType
  <1>4. thr'[t] = r /\ Moves(t)
    BY <1>1, <1>2 DEF Moves
  <1>5. QED
    BY <1>1, <1>3, <1>4 DEF GoesOn

\* What a step of a script does to who does what.
ScriptMoves(t) ==
    /\ Moves(t) /\ GoesOn(t) /\ UNCHANGED config /\ lapses \subseteq lapses'
    /\ SameScript(thr[t].at, thr'[t].at)

LEMMA FindScriptMoves ==
    ASSUME IInv, NEW t \in Threads, Look(t) \/ Fix(t)
    PROVE  ScriptMoves(t)
  <1>1. UNCHANGED <<config, lapses>>
    BY DEF Look, Fix
  <1>2. thr[t] \in RequestType /\ Keeps(thr[t])
    BY DEF IInv, TypeOK
  <1>3. thr[t].at \in DOMAIN Finds /\ (Fix(t) => thr[t].fix \in 0..MaxPid)
    BY <1>2 DEF Look, Fix, Keeps, RequestType
  <1>4. ASSUME NEW p \in 0..MaxPid, Found(t, p) PROVE ScriptMoves(t)
    BY <1>1, <1>3, <1>4, FoundMoves, FindsScript DEF ScriptMoves
  <1>5. CASE Fix(t)
    BY <1>3, <1>4, <1>5 DEF Fix
  <1>6. CASE Look(t)
    <2>1. SameScript(thr[t].at, thr[t].at)
      BY <1>3, FindsDomain, FindsScript DEF SameScript
    <2>2. QED
      BY <1>1, <1>4, <1>6, <2>1, LookMoves DEF ScriptMoves
  <1>7. QED
    BY <1>5, <1>6

LEMMA HostScriptMoves ==
    ASSUME IInv, NEW t \in Threads, HostScript(t)
    PROVE  ScriptMoves(t)
  <1>1. CASE Look(t) \/ Fix(t)
    BY <1>1, FindScriptMoves
  <1>2. CASE StartRemove(t) \/ StartClear(t) \/ StartNote(t) \/ GiveUp(t)
    <2>1. \E l \in Places : Goto(t, l) /\ SameScript(thr[t].at, l)
      BY <1>2, FindsDomain
         DEF StartRemove, StartClear, StartNote, GiveUp, At, Places, SameScript, HostPlaces, BoxPlaces, HostStart, HostStop,
             HostProbe, BoxStart, BoxHalt
    <2>2. UNCHANGED <<config, lapses>>
      BY <1>2 DEF StartRemove, StartClear, StartNote, GiveUp
    <2>3. QED
      BY <2>1, <2>2, GotoSteps DEF ScriptMoves, Steps
  <1>3. CASE StopAny(t) \/ StopSignalDog(t) \/ StopSignalGateway(t) \/ StopAwaitGateway(t) \/ StopAwaitDog(t) \/ StopForget(t) \/ StopClear(t)
    <2>1. \E l \in Places : Goto(t, l) /\ SameScript(thr[t].at, l)
      BY <1>3, FindsDomain
         DEF StopAny, StopSignalDog, StopSignalGateway, StopAwaitGateway, StopAwaitDog, StopForget, StopClear, At,
             Places, Outcomes, SameScript, HostPlaces, BoxPlaces, HostStart, HostStop, HostProbe, BoxStart, BoxHalt
    <2>2. UNCHANGED <<config, lapses>>
      BY <1>3 DEF StopAny, StopSignalDog, StopSignalGateway, StopAwaitGateway, StopAwaitDog, StopForget, StopClear
    <2>3. QED
      BY <2>1, <2>2, GotoSteps DEF ScriptMoves, Steps
  <1>4. CASE StopFallback(t)
    BY <1>4, FallbackMoves
       DEF StopFallback, ScriptMoves, SameScript, HostPlaces, BoxPlaces, HostStart, HostStop, HostProbe, BoxStart, BoxHalt
  <1>5. CASE StartLaunch(t)
    BY <1>5, LaunchMoves
       DEF StartLaunch, ScriptMoves, SameScript, HostPlaces, BoxPlaces, HostStart, HostStop, HostProbe, BoxStart, BoxHalt
  <1>6. QED
    BY <1>1, <1>2, <1>3, <1>4, <1>5 DEF HostScript

LEMMA BoxSignalMoves ==
    ASSUME IInv, NEW t \in Threads, NEW at, NEW kind \in {"dog", "gateway"},
           NEW next \in {"boxGatewayLate", "boxDogLate"}, at \notin DOMAIN Finds, BoxSignal(t, at, kind, next)
    PROVE  /\ Moves(t) /\ GoesOn(t) /\ thr[t].at = at /\ thr'[t].at = next /\ thr'[t].fix = None
           /\ thr'[t].dog = FileOf(kind)
  <1>1. thr[t] \in RequestType /\ thr \in [Threads -> RequestType] /\ thr[t].fix = None /\ FileOf(kind) \in 0..MaxPid
    BY NoFix, KindFile, FileTypes DEF IInv, TypeOK, BoxSignal, At
  <1> DEFINE r == [thr[t] EXCEPT !.at = next, !.dog = FileOf(kind)]
  <1>2. r \in RequestType /\ thr' = [thr EXCEPT ![t] = r]
    BY <1>1 DEF BoxSignal, RequestType, Places
  <1>3. r.op = thr[t].op /\ r.stage = thr[t].stage /\ r.at = next /\ r.fix = None /\ r.dog = FileOf(kind)
    BY <1>1 DEF RequestType
  <1>4. thr'[t] = r /\ Moves(t)
    BY <1>1, <1>2 DEF Moves
  <1>5. QED
    BY <1>1, <1>3, <1>4 DEF GoesOn, BoxSignal, At

LEMMA BoxScriptMoves ==
    ASSUME IInv, NEW t \in Threads, BoxScript(t)
    PROVE  ScriptMoves(t)
  <1>1. CASE BoxSignal(t, "boxGateway", "gateway", "boxGatewayLate") \/ BoxSignal(t, "boxDog", "dog", "boxDogLate")
    <2>1. UNCHANGED <<config, lapses>>
      BY <1>1 DEF BoxSignal
    <2>2. /\ Moves(t) /\ GoesOn(t) /\ thr[t].at \in {"boxGateway", "boxDog"}
          /\ thr'[t].at \in {"boxGatewayLate", "boxDogLate"}
      BY <1>1, BoxSignalMoves, FindsDomain
    <2>3. QED
      BY <2>1, <2>2
         DEF ScriptMoves, SameScript, HostPlaces, BoxPlaces, HostStart, HostStop, HostProbe, BoxStart, BoxHalt
  <1>2. CASE ~(BoxSignal(t, "boxGateway", "gateway", "boxGatewayLate") \/ BoxSignal(t, "boxDog", "dog", "boxDogLate"))
    <2>1. \E l \in Places : Goto(t, l) /\ SameScript(thr[t].at, l)
      BY <1>2
         DEF BoxScript, BoxKill, BoxCheck, BoxRun, BoxStop, BoxStopGateway, BoxStopDog, BoxStatus, At,
             Places, Outcomes, SameScript, HostPlaces, BoxPlaces, HostStart, HostStop, HostProbe, BoxStart, BoxHalt
    <2>2. UNCHANGED config /\ lapses \subseteq lapses'
      BY <1>2 DEF BoxScript, BoxKill, BoxCheck, BoxRun, BoxStop, BoxStopGateway, BoxStopDog, BoxStatus
    <2>3. QED
      BY <2>1, <2>2, GotoSteps DEF ScriptMoves, Steps
  <1>3. QED
    BY <1>1, <1>2

\* What a step of a thread that goes on or is done has to show.
LEMMA OrderlyStep ==
    ASSUME Orderly, NEW t \in Threads, Moves(t), lapses \subseteq lapses', thr'[t].op \in {thr[t].op, None} \/ (Changing(t) /\ Changing(t)'),
           mode' = mode \/ Changing(t), Coherent(t)', RightMode(t)'
    PROVE  Orderly'
  <1>1. ASSUME NEW u \in Threads PROVE Coherent(u)' /\ RightMode(u)'
    <2>1. CASE u = t
      BY <2>1
    <2>2. CASE u # t
      <3>1. thr'[u] = thr[u] /\ Coherent(u) /\ RightMode(u) /\ Alone(t, u)
        BY <2>2 DEF Orderly, Moves
      <3>2. Coherent(u)'
        BY <3>1 DEF Coherent, Resting, Orphaned, Starting, Halting, Probing, Handling
      <3>3. RightMode(u)'
        BY <2>2, <3>1 DEF RightMode, Alone, Free, Changing, Active
      <3>4. QED
        BY <3>2, <3>3
    <2>3. QED
      BY <2>1, <2>2
  <1>2. ASSUME NEW u \in Threads, NEW v \in Threads PROVE Alone(u, v)'
    <2>1. /\ Alone(u, v)
          /\ thr'[u].op \in {thr[u].op, None} \/ (Changing(u) /\ Changing(u)')
          /\ thr'[v].op \in {thr[v].op, None} \/ (Changing(v) /\ Changing(v)')
      BY DEF Orderly, Moves
    <2>2. QED
      BY <2>1 DEF Alone, Changing, Active
  <1>3. QED
    BY <1>1, <1>2 DEF Orderly

LEMMA ScriptOrderly ==
    ASSUME IInv, Orderly, NEW t \in Threads, ScriptMoves(t)
    PROVE  Orderly'
  <1>1. Coherent(t) /\ RightMode(t) /\ Moves(t) /\ GoesOn(t) /\ SameScript(thr[t].at, thr'[t].at) /\ mode' = mode
        /\ lapses \subseteq lapses'
    BY DEF Orderly, ScriptMoves, config
  <1>2. Orphaned(t) \/ Starting(t) \/ Halting(t) \/ Probing(t)
    BY <1>1
       DEF Coherent, Resting, Handling, SameScript, HostPlaces, BoxPlaces, HostStart, HostStop, HostProbe, BoxStart, BoxHalt
  <1>3. Coherent(t)'
    <2>1. CASE Starting(t)
      BY <1>1, <2>1 DEF Coherent, Starting, GoesOn, SameScript, HostPlaces, BoxPlaces, HostStart, HostStop, HostProbe, BoxStart, BoxHalt
    <2>2. CASE Halting(t)
      BY <1>1, <2>2 DEF Coherent, Halting, GoesOn, SameScript, HostPlaces, BoxPlaces, HostStart, HostStop, HostProbe, BoxStart, BoxHalt
    <2>3. CASE Probing(t)
      BY <1>1, <2>3 DEF Coherent, Probing, GoesOn, SameScript, HostPlaces, BoxPlaces, HostStart, HostStop, HostProbe, BoxStart, BoxHalt
    <2>4. CASE Orphaned(t)
      BY <1>1, <2>4 DEF Coherent, Orphaned, GoesOn, SameScript, HostPlaces, BoxPlaces, HostStart, HostStop, HostProbe, BoxStart, BoxHalt
    <2>5. QED
      BY <1>2, <2>1, <2>2, <2>3, <2>4
  <1>4. RightMode(t)'
    <2>1. SUFFICES ASSUME Free({"overlap"})', Changing(t)'
                   PROVE  (thr'[t].at \in HostPlaces => mode = "host") /\ (thr'[t].at \in BoxPlaces => mode = "sandbox")
      BY <1>1 DEF RightMode
    <2>2. (thr[t].at \in HostPlaces => mode = "host") /\ (thr[t].at \in BoxPlaces => mode = "sandbox")
      BY <1>1, <2>1 DEF RightMode, Free, Changing, GoesOn
    <2>3. (thr'[t].at \in HostPlaces => thr[t].at \in HostPlaces) /\ (thr'[t].at \in BoxPlaces => thr[t].at \in BoxPlaces)
      BY <1>1 DEF SameScript, HostPlaces, BoxPlaces, HostStart, HostStop, HostProbe, BoxStart, BoxHalt
    <2>4. QED
      BY <2>2, <2>3
  <1>5. QED
    BY <1>1, <1>3, <1>4, OrderlyStep DEF GoesOn

LEMMA EntryPlaces ==
    /\ Entry("start") = (IF mode = "host" THEN "startContainer" ELSE "boxGateway")
    /\ Entry("stop") = (IF mode = "host" THEN "stopGateway" ELSE "boxStop")
    /\ Entry("status") = (IF mode = "host" THEN "statusGateway" ELSE "boxStatus")
  BY DEF Entry

LEMMA IdleOrderly ==
    ASSUME NEW t \in Threads, thr'[t] = Idle
    PROVE  Coherent(t)' /\ RightMode(t)' /\ thr'[t].op = None
  BY DEF Idle, Coherent, Resting, RightMode, Changing

LEMMA ReturnOrderly ==
    ASSUME IInv, Orderly, NEW t \in Threads, Return(t), lapses \subseteq lapses', mode' = mode \/ Changing(t)
    PROVE  Orderly'
  BY ReturnMoves, IdleOrderly, OrderlyStep

\* What is left of a script that is cut off: nothing, the script that it runs, at its place,
\* or a docker command.
Survives(t) ==
    /\ Inner(t) /\ thr'[t].op = "orphan" /\ thr'[t].stage = "script" /\ thr'[t].at = thr[t].at
    /\ thr'[t].fix = thr[t].fix /\ thr'[t].dog = thr[t].dog /\ thr'[t].gateway = thr[t].gateway
    /\ lapses' = lapses
Lingers(t) ==
    /\ thr'[t].op = "orphan" /\ thr'[t].stage = "script" /\ thr'[t].at \in Late(t) /\ thr'[t].fix = None

LEMMA CutMoves ==
    ASSUME IInv, NEW t \in Threads, Cut(t)
    PROVE  /\ Moves(t) /\ thr[t].op \in Scripts /\ thr[t].stage # "probe"
           /\ Survives(t) \/ (~Inner(t) /\ (thr'[t] = Idle \/ Lingers(t)))
  <1>1. PICK rest \in Outlives(t) : thr' = [thr EXCEPT ![t] = rest]
    BY DEF Cut
  <1>2. thr[t] \in RequestType /\ thr \in [Threads -> RequestType]
    BY DEF IInv, TypeOK
  <1>3. CASE Inner(t)
    <2>1. rest = [thr[t] EXCEPT !.op = "orphan", !.stage = "script"] /\ lapses' = lapses
      BY <1>1, <1>3 DEF Outlives, Cut
    <2>2. rest \in RequestType /\ rest.at = thr[t].at /\ rest.fix = thr[t].fix /\ rest.dog = thr[t].dog
          /\ rest.gateway = thr[t].gateway /\ rest.op = "orphan" /\ rest.stage = "script"
      BY <1>2, <2>1 DEF RequestType
    <2>3. QED
      BY <1>1, <1>2, <1>3, <2>1, <2>2 DEF Moves, Survives, Cut
  <1>4. CASE ~Inner(t)
    <2>1. rest = Idle \/ \E l \in Late(t) : rest = [Idle EXCEPT !.op = "orphan", !.at = l]
      BY <1>1, <1>4 DEF Outlives
    <2>2. CASE rest = Idle
      BY <1>1, <1>2, <1>4, <2>2, IdleType DEF Moves, Cut
    <2>3. ASSUME NEW l \in Late(t), rest = [Idle EXCEPT !.op = "orphan", !.at = l]
          PROVE  Moves(t) /\ Lingers(t)
      <3>1. rest \in RequestType
        BY <2>3, IdleType DEF RequestType, Late, Places
      <3>2. rest.op = "orphan" /\ rest.stage = "script" /\ rest.at = l /\ rest.fix = None
        BY <2>3 DEF Idle
      <3>3. QED
        BY <1>1, <1>2, <3>1, <3>2 DEF Moves, Lingers
    <2>4. QED
      BY <1>4, <2>1, <2>2, <2>3 DEF Cut
  <1>5. QED
    BY <1>3, <1>4

LEMMA LatePlaces ==
    ASSUME NEW t \in Threads
    PROVE  /\ Late(t) \subseteq {"boxRun", "lateStop", "lateRemove"}
           /\ "boxRun" \in Late(t) => At(t, "boxRun")
  BY DEF Late

LEMMA ProbeMoves ==
    ASSUME IInv, NEW t \in Threads, ProbeFails(t)
    PROVE  /\ Moves(t) /\ GoesOn(t) /\ thr'[t].at = "unknown" /\ thr'[t].fix = None
           /\ thr[t].stage = "probe" \/ thr[t].op = "status"
  <1> DEFINE r == [thr[t] EXCEPT !.at = "unknown", !.fix = None]
  <1>1. thr[t] \in RequestType /\ thr \in [Threads -> RequestType] /\ thr' = [thr EXCEPT ![t] = r]
    BY DEF IInv, TypeOK, ProbeFails
  <1>2. r \in RequestType /\ r.op = thr[t].op /\ r.stage = thr[t].stage /\ r.at = "unknown" /\ r.fix = None
    BY <1>1 DEF RequestType, Places, Outcomes
  <1>3. QED
    BY <1>1, <1>2 DEF Moves, GoesOn, ProbeFails

\* A script that is cut off stays beside what it was beside.
LEMMA CutOrderly ==
    ASSUME IInv, Orderly, NEW t \in Threads, Cut(t) \/ ProbeFails(t)
    PROVE  Orderly'
  <1>1. mode' = mode /\ lapses \subseteq lapses' /\ Coherent(t) /\ RightMode(t)
    BY DEF Cut, ProbeFails, config, Orderly
  <1>2. CASE ProbeFails(t)
    <2>1. Probing(t)
      BY <1>1, <1>2, ProbeMoves, LifecycleAssumption
         DEF Coherent, Resting, Orphaned, Starting, Halting, Probing, Handling, Ops, Scripts
    <2>2. Coherent(t)' /\ RightMode(t)'
      BY <1>2, <2>1, ProbeMoves DEF Coherent, Probing, GoesOn, RightMode, HostPlaces, BoxPlaces, HostStart, HostStop, HostProbe,
                          BoxStart, BoxHalt
    <2>3. QED
      BY <1>1, <1>2, <2>2, ProbeMoves, OrderlyStep DEF GoesOn
  <1>3. CASE Cut(t) /\ thr'[t] = Idle
    BY <1>1, <1>3, CutMoves, IdleOrderly, OrderlyStep
  <1>4. CASE Cut(t) /\ thr'[t] # Idle
    <2>1. Moves(t) /\ thr[t].op \in Scripts /\ (Survives(t) \/ Lingers(t)) /\ (Starting(t) \/ Halting(t))
          /\ Changing(t)
      BY <1>1, <1>4, CutMoves, LifecycleAssumption
         DEF Coherent, Resting, Orphaned, Starting, Halting, Probing, Handling, Scripts, Changing, Ops
    <2>2. thr'[t].op = "orphan" /\ thr'[t].stage = "script"
          /\ (thr'[t].at = thr[t].at \/ thr'[t].at \in {"lateStop", "lateRemove"})
      BY <2>1, LatePlaces DEF Survives, Lingers, At
    <2>3. Coherent(t)'
      BY <2>1, <2>2 DEF Coherent, Orphaned, Starting, Halting
    <2>4. RightMode(t)'
      BY <1>1, <2>1, <2>2 DEF RightMode, Free, HostPlaces, BoxPlaces, HostStart, HostStop, HostProbe, BoxStart, BoxHalt
    <2>5. QED
      BY <1>1, <2>1, <2>2, <2>3, <2>4, OrderlyStep, LifecycleAssumption DEF Changing
  <1>5. QED
    BY <1>2, <1>3, <1>4

LEMMA RestartMoves ==
    ASSUME IInv, NEW t \in Threads, Restarting(t)
    PROVE  /\ Moves(t) /\ Ended(t, "stop") /\ thr'[t].op = "restart" /\ thr'[t].stage = "script"
           /\ thr'[t].at = Entry("start") /\ thr'[t].fix = None
  <1> DEFINE r == [Idle EXCEPT !.op = "restart", !.at = Entry("start")]
  <1>1. r \in RequestType /\ thr' = [thr EXCEPT ![t] = r] /\ thr \in [Threads -> RequestType]
    BY IdleType, EntryType DEF IInv, TypeOK, Restarting, RequestType, Ops, Scripts
  <1>2. r.op = "restart" /\ r.stage = "script" /\ r.at = Entry("start") /\ r.fix = None
    BY DEF Idle
  <1>3. QED
    BY <1>1, <1>2 DEF Moves, Restarting

LEMMA CheckedMoves ==
    ASSUME IInv, NEW t \in Threads, Checked(t)
    PROVE  /\ Moves(t) /\ Ended(t, "probe") /\ thr[t].op = "start"
           /\ \/ thr'[t] = Idle
              \/ thr'[t].op = "start" /\ thr'[t].stage = "script" /\ thr'[t].at = Entry("start") /\ thr'[t].fix = None
  <1>1. thr[t] \in RequestType /\ thr \in [Threads -> RequestType] /\ thr[t].fix = None /\ thr[t].op = "start" /\ Ended(t, "probe")
    BY NoFix, FindsDomain DEF IInv, TypeOK, Checked, Ended, Outcomes
  <1>2. CASE Return(t)
    BY <1>1, <1>2, ReturnMoves
  <1>3. CASE ~Return(t)
    <2> DEFINE r == [thr[t] EXCEPT !.at = Entry("start"), !.stage = "script"]
    <2>1. r \in RequestType /\ thr' = [thr EXCEPT ![t] = r]
      BY <1>1, <1>3, EntryType DEF Checked, RequestType
    <2>2. r.op = "start" /\ r.stage = "script" /\ r.at = Entry("start") /\ r.fix = None
      BY <1>1 DEF RequestType
    <2>3. QED
      BY <1>1, <2>1, <2>2 DEF Moves
  <1>4. QED
    BY <1>2, <1>3

\* A script begins at its first place.
LEMMA EntryOrderly ==
    ASSUME NEW t \in Threads, mode' = mode, mode \in Modes, thr'[t].op \in {"start", "restart"}, thr'[t].stage = "script",
           thr'[t].at = Entry("start")
    PROVE  Coherent(t)' /\ RightMode(t)'
  <1>1. (mode = "host" /\ thr'[t].at = "startContainer") \/ (mode = "sandbox" /\ thr'[t].at = "boxGateway")
    BY EntryPlaces DEF Modes
  <1>2. QED
    BY <1>1 DEF Coherent, Starting, RightMode, HostPlaces, BoxPlaces, HostStart, HostStop, HostProbe, BoxStart, BoxHalt

LEMMA HandlerOrderly ==
    ASSUME IInv, Orderly, NEW t \in Threads, Handler(t)
    PROVE  Orderly'
  <1>0. mode \in Modes /\ Coherent(t)
    BY FileTypes DEF ConfigOK, Orderly
  <1>1. CASE Checked(t)
    <2>1. mode' = mode /\ lapses' = lapses
      BY <1>1 DEF Checked, config
    <2>2. Coherent(t)' /\ RightMode(t)' /\ Moves(t) /\ thr'[t].op \in {thr[t].op, None}
      BY <1>0, <1>1, <2>1, CheckedMoves, IdleOrderly, EntryOrderly
    <2>3. QED
      BY <2>1, <2>2, OrderlyStep
  <1>2. CASE Restarting(t)
    <2>1. mode' = mode /\ lapses' = lapses
      BY <1>2 DEF Restarting, config
    <2>2. Coherent(t)' /\ RightMode(t)' /\ Moves(t) /\ Ended(t, "stop") /\ thr'[t].op = "restart"
      BY <1>0, <1>2, <2>1, RestartMoves, EntryOrderly
    <2>3. thr[t].op = "restart"
      BY <1>0, <2>2 DEF Coherent, Resting, Orphaned, Starting, Halting, Probing, Handling, Ended, Outcomes
    <2>4. QED
      BY <2>1, <2>2, <2>3, OrderlyStep
  <1>3. CASE Report(t) \/ SaveConnector(t) \/ Reconcile(t) \/ Reload(t) \/ DeleteBox(t) \/ DockerEnds(t)
    <2>1. mode' = mode /\ lapses \subseteq lapses' /\ Return(t)
      BY <1>3 DEF Report, SaveConnector, Reconcile, Reload, DeleteBox, DockerEnds, config
    <2>2. QED
      BY <2>1, ReturnOrderly
  <1>4. CASE UpdateRaw(t) \/ Create(t)
    <2>1. lapses \subseteq lapses' /\ Return(t) /\ thr[t].op \in {"rawHost", "rawSandbox", "create"} /\ At(t, "handler")
      BY <1>4 DEF UpdateRaw, Create, SaveMode, NewConfig
    <2>2. Changing(t)
      BY LifecycleAssumption, <1>0, <2>1 DEF Coherent, Resting, Orphaned, Starting, Halting, Probing, Handling, Changing, At, Ops, Scripts,
                        HostStart, HostStop, HostProbe, BoxStart, BoxHalt
    <2>3. QED
      BY <2>1, <2>2, ReturnOrderly
  <1>5. CASE Update(t) \/ Delete(t)
    <2>1. lapses \subseteq lapses' /\ thr[t].op \in {"host", "sandbox", "delete"} /\ At(t, "handler")
          /\ \E l \in {"reconcile", "deleteBox"} : Goto(t, l)
      BY <1>5 DEF Update, Delete, SaveMode, NewConfig, Modes
    <2>2. PICK l \in {"reconcile", "deleteBox"} : Steps(t, l)
      BY <2>1, GotoSteps DEF Places
    <2>3. Changing(t) /\ Handling(t)
      BY LifecycleAssumption, <1>0, <2>1 DEF Coherent, Resting, Orphaned, Starting, Halting, Probing, Handling, Changing, At, Ops, Scripts,
                        HostStart, HostStop, HostProbe, BoxStart, BoxHalt
    <2>4. Coherent(t)'
      BY <2>1, <2>2, <2>3 DEF Coherent, Handling, Steps, GoesOn
    <2>5. RightMode(t)'
      BY <2>2 DEF RightMode, Steps, HostPlaces, BoxPlaces, HostStart, HostStop, HostProbe, BoxStart, BoxHalt
    <2>6. QED
      BY <2>1, <2>2, <2>3, <2>4, <2>5, OrderlyStep DEF Steps, GoesOn
  <1>6. QED
    BY <1>1, <1>2, <1>3, <1>4, <1>5 DEF Handler

LEMMA FirstMoves ==
    ASSUME IInv, NEW t \in Threads, NEW op \in Ops, Begin(t, op)
    PROVE  /\ Moves(t) /\ thr'[t].op = op /\ thr'[t].fix = None /\ thr'[t] = First(op) /\ At(t, "idle")
           /\ UNCHANGED <<setup, config, files, machine, box, hurt>> /\ lapses' = lapses \cup Beside(t, op)
           /\ \/ op \in {"start", "connector"} /\ thr'[t].stage = "probe" /\ thr'[t].at = Entry("status")
              \/ op = "restart" /\ thr'[t].stage = "stop" /\ thr'[t].at = Entry("stop")
              \/ op \in {"stop", "status"} /\ thr'[t].stage = "script" /\ thr'[t].at = Entry(op)
              \/ /\ op \notin {"start", "connector", "restart", "stop", "status"}
                 /\ thr'[t].stage = "handler" /\ thr'[t].at = "handler"
  <1>1. thr' = [thr EXCEPT ![t] = First(op)] /\ thr \in [Threads -> RequestType] /\ At(t, "idle")
    BY DEF Begin, IInv, TypeOK
  <1>2. thr'[t] = First(op) /\ Moves(t)
    BY <1>1, FirstType DEF Moves
  <1>3. First(op).op = op
    BY DEF First, Idle
  <1>4. \/ op \in {"start", "connector"} /\ First(op).stage = "probe" /\ First(op).at = Entry("status")
        \/ op = "restart" /\ First(op).stage = "stop" /\ First(op).at = Entry("stop")
        \/ op \in {"stop", "status"} /\ First(op).stage = "script" /\ First(op).at = Entry(op)
        \/ /\ op \notin {"start", "connector", "restart", "stop", "status"}
           /\ First(op).stage = "handler" /\ First(op).at = "handler"
    BY DEF First, Idle
  <1>5. UNCHANGED <<setup, config, files, machine, box, hurt>> /\ lapses' = lapses \cup Beside(t, op)
    BY DEF Begin
  <1>6. QED
    BY <1>1, <1>2, <1>3, <1>4, <1>5, FirstType

LEMMA BeginOrderly ==
    ASSUME IInv, Orderly, NEW t \in Threads, NEW op \in Ops, Begin(t, op)
    PROVE  Orderly'
  <1>1. /\ Moves(t) /\ thr'[t].op = op /\ mode' = mode /\ mode \in Modes
        /\ lapses' = lapses \cup Beside(t, op)
    BY FirstMoves, FileTypes DEF config, ConfigOK
  <1>2. Coherent(t)' /\ RightMode(t)'
    BY <1>1, FirstMoves, EntryPlaces
       DEF Modes, Coherent, Halting, Probing, Handling, RightMode, HostPlaces, BoxPlaces, HostStart, HostStop, HostProbe,
           BoxStart, BoxHalt
  <1>3. ASSUME NEW u \in Threads PROVE Coherent(u)' /\ RightMode(u)'
    <2>1. CASE u = t
      BY <1>2, <2>1
    <2>2. CASE u # t
      <3>1. thr'[u] = thr[u] /\ Coherent(u) /\ RightMode(u)
        BY <1>1, <2>2 DEF Orderly, Moves
      <3>2. Coherent(u)'
        BY <3>1 DEF Coherent, Resting, Orphaned, Starting, Halting, Probing, Handling
      <3>3. RightMode(u)'
        BY <1>1, <3>1 DEF RightMode, Free, Changing
      <3>4. QED
        BY <3>2, <3>3
    <2>3. QED
      BY <2>1, <2>2
  <1>4. ASSUME NEW u \in Threads, u # t, thr[u].op \notin {None, "reload"}, op # "reload"
        PROVE  IF "status" \in {thr[u].op, op} THEN "probe" \in lapses' ELSE "overlap" \in lapses'
    BY <1>1, <1>4 DEF Beside
  <1>5. ASSUME NEW u \in Threads, NEW v \in Threads PROVE Alone(u, v)'
    <2>1. Alone(u, v) /\ (u # t => thr'[u].op = thr[u].op) /\ (v # t => thr'[v].op = thr[v].op)
      BY <1>1 DEF Orderly, Moves
    <2>2. QED
      BY <1>1, <1>4, <2>1 DEF Alone, Changing, Active
  <1>6. QED
    BY <1>3, <1>5 DEF Orderly

\* A step that moves no thread.
LEMMA RestOrderly ==
    ASSUME Orderly, thr' = thr, mode' = mode, lapses \subseteq lapses'
    PROVE  Orderly'
  <1>1. ASSUME NEW u \in Threads PROVE Coherent(u)' /\ RightMode(u)'
    BY DEF Orderly, Coherent, Resting, Orphaned, Starting, Halting, Probing, Handling, RightMode, Free, Changing
  <1>2. ASSUME NEW u \in Threads, NEW v \in Threads PROVE Alone(u, v)'
    BY DEF Orderly, Alone, Changing, Active
  <1>3. QED
    BY <1>1, <1>2 DEF Orderly

LEMMA RebootOrderly ==
    ASSUME Reboot
    PROVE  Orderly'
  <1>1. \A t \in Threads : thr'[t] = Idle
    BY DEF Reboot
  <1>2. \A t \in Threads : Coherent(t)' /\ RightMode(t)' /\ thr'[t].op = None
    BY <1>1, IdleOrderly
  <1>3. \A u, v \in Threads : Alone(u, v)'
    BY <1>2 DEF Alone, Changing
  <1>4. QED
    BY <1>2, <1>3 DEF Orderly

LEMMA InitOrderly == Init => Orderly
  <1>1. SUFFICES ASSUME Init PROVE Orderly
    OBVIOUS
  <1>2. \A t \in Threads : thr[t].op = None /\ thr[t].at = "idle" /\ thr[t].stage = "script"
    BY <1>1 DEF Init, Idle
  <1>3. QED
    BY <1>2 DEF Orderly, Coherent, Resting, RightMode, Alone, Changing

LEMMA NextOrderly == IInv /\ Orderly /\ [Next]_vars => Orderly'
  <1>1. SUFFICES ASSUME IInv, Orderly, [Next]_vars PROVE Orderly'
    OBVIOUS
  <1>2. ASSUME NEW d \in Are("dog"), DogStep(d) PROVE Orderly'
    <2>1. thr' = thr /\ mode' = mode /\ lapses \subseteq lapses'
      BY <1>2 DEF DogStep, Attend, CheckStop, Launch, Note, Wake, Decide, Resume, OnTerm, Reap, config
    <2>2. QED
      BY <1>1, <2>1, RestOrderly
  <1>3. ASSUME NEW g \in Are("gateway"), Up(g) \/ End(g) PROVE Orderly'
    BY <1>1, <1>3, RestOrderly DEF Up, End, config
  <1>4. CASE Die \/ Stranger \/ UNCHANGED vars
    BY <1>1, <1>4, RestOrderly DEF Die, Stranger, config, vars
  <1>5. CASE Reboot
    BY <1>5, RebootOrderly
  <1>6. ASSUME NEW t \in Threads, ThreadStep(t) PROVE Orderly'
    BY <1>1, <1>6, HostScriptMoves, BoxScriptMoves, ScriptOrderly, HandlerOrderly DEF ThreadStep
  <1>7. ASSUME NEW t \in Threads, Cut(t) \/ ProbeFails(t) PROVE Orderly'
    BY <1>1, <1>7, CutOrderly
  <1>8. ASSUME NEW t \in Threads, NEW op \in Ops, Begin(t, op) PROVE Orderly'
    BY <1>1, <1>8, BeginOrderly
  <1>9. QED
    BY <1>1, <1>2, <1>3, <1>4, <1>5, <1>6, <1>7, <1>8 DEF Next

----------------------------------------------------------------------------
\* What a step does to the processes.

LEMMA ThreadTame ==
    ASSUME IInv, NEW t \in Threads, HostScript(t) \/ BoxScript(t) \/ Handler(t), ~StartLaunch(t)
    PROVE  Tame
  <1>1. CASE UNCHANGED machine
    BY <1>1, FileTypes, SameMachine
  <1>2. CASE SaveConnector(t) \/ Reload(t)
    BY <1>2, SaveConnectorTame, ReloadTame
  <1>3. ASSUME NEW p, NEW s, Signal(p, s), used' = used PROVE Tame
    BY <1>3, FileTypes, TermTame
  <1>4. ASSUME NEW p, Destroy(p), used' = used PROVE Tame
    BY <1>4, FileTypes, DestroyTame
  <1>5. CASE StopSignalDog(t) \/ StopSignalGateway(t) \/ StopAwaitGateway(t)
    BY <1>3, <1>4, <1>5 DEF StopSignalDog, StopSignalGateway, StopAwaitGateway
  <1>6. CASE BoxScript(t)
    BY <1>1, <1>3, <1>4, <1>6
       DEF BoxScript, BoxSignal, BoxKill, BoxCheck, BoxRun, BoxStop, BoxStopGateway, BoxStopDog, BoxStatus
  <1>7. CASE Handler(t) /\ ~SaveConnector(t) /\ ~Reload(t)
    BY <1>1, <1>7 DEF Handler, Checked, Restarting, Report, Update, UpdateRaw, SaveMode, Reconcile, Delete, DeleteBox, Create, DockerEnds
  <1>8. CASE HostScript(t) /\ ~StopSignalDog(t) /\ ~StopSignalGateway(t) /\ ~StopAwaitGateway(t)
    BY <1>1, <1>8 DEF HostScript, Look, Fix, StartRemove, StartClear, StartNote, GiveUp, StopAny, StopFallback,
                      StopAwaitDog, StopForget, StopClear
  <1>9. QED
    BY <1>2, <1>5, <1>6, <1>7, <1>8

\* No process becomes a watchdog, takes up its work again, or serves again.
Waning ==
    /\ Are("dog")' \subseteq Are("dog") /\ Are("gateway")' \subseteq Are("gateway")
    /\ Watching' \subseteq Watching /\ Serving' \subseteq Serving

LEMMA TameWanes ==
    ASSUME MachineOK, Tame
    PROVE  Waning
  <1>1. \A p \in Pids : Alive(p)' => Alive(p) /\ proc'[p].kind = proc[p].kind /\ (proc[p].termed => proc'[p].termed)
    BY DEF Tame, Firm
  <1>2. Are("dog")' \subseteq Are("dog") /\ Are("gateway")' \subseteq Are("gateway")
    BY <1>1 DEF Are, Is
  <1>3. \A p \in Pids : Alive(p)' /\ ~proc'[p].termed => ~proc[p].termed
    BY <1>1
  <1>4. Watching' \subseteq Watching /\ Serving' \subseteq Serving
    BY <1>2, <1>3 DEF Watching, Serving, Are, Is
  <1>5. QED
    BY <1>2, <1>4 DEF Waning

\* A script launches a watchdog, and another program gets an id: nothing else changes.
LEMMA Born ==
    ASSUME MachineOK, NEW kind \in {"dog", "gateway", "other"}, Fresh \in Pids,
           proc' = [proc EXCEPT ![Fresh] = Process(kind)]
    PROVE  /\ used \in 0..MaxPid /\ Fresh = used + 1 /\ ~Alive(Fresh)
           /\ \A p \in Pids \ {Fresh} : proc'[p] = proc[p]
           /\ proc'[Fresh].kind = kind /\ proc'[Fresh] # None /\ proc'[Fresh].child = 0 /\ proc'[Fresh].pc = "boot"
  <1>1. used \in 0..MaxPid /\ Fresh = used + 1 /\ ~Alive(Fresh)
    BY LifecycleAssumption DEF MachineOK, Fresh, Alive, Pids
  <1>2. Process(kind) \in ProcessType
    BY LifecycleAssumption DEF Process, ProcessType
  <1>3. Process(kind) # None
    BY <1>2, LifecycleAssumption
  <1>4. QED
    BY <1>1, <1>2, <1>3 DEF MachineOK, Process

LEMMA LaunchBears ==
    ASSUME MachineOK, NEW d \in Pids, Launch(d)
    PROVE  /\ used \in 0..MaxPid /\ used' = Fresh /\ Fresh \in Pids /\ Fresh = used + 1 /\ ~Alive(Fresh) /\ Fresh # d
           /\ \A p \in Pids \ {Fresh, d} : proc'[p] = proc[p]
           /\ proc'[Fresh] = Process("gateway")
           /\ Is(d, "dog") /\ ~proc[d].termed /\ proc[d].pc = "launch"
           /\ proc'[d] = [proc[d] EXCEPT !.pc = "forked", !.child = Fresh]
  <1>1. /\ used \in 0..MaxPid /\ used' = Fresh /\ Fresh \in Pids /\ Fresh = used + 1 /\ ~Alive(Fresh)
        /\ Is(d, "dog") /\ ~proc[d].termed /\ proc[d].pc = "launch"
    BY LifecycleAssumption DEF MachineOK, Launch, Dog, Fresh, Alive, Pids
  <1>2. Fresh # d
    BY <1>1 DEF Is
  <1>3. QED
    BY <1>1, <1>2 DEF Launch, MachineOK

----------------------------------------------------------------------------
\* What the scripts take for a gateway is never a watchdog: an id that is given out already
\* will not become one.
NotDog(p) == p <= used /\ ~Is(p, "dog")

\* A script that goes on to launch a watchdog has seen to it that the file holds an id given out.
Launching == {"startRunning", "startLone", "startWatched", "startClear", "startLaunch"}

Spares(t) ==
    /\ thr[t].fix # None /\ Finds[thr[t].at][1] = "gateway" => NotDog(thr[t].fix)
    /\ thr[t].at \in {"stopSignalDog", "stopSignalGateway", "stopAwaitGateway"} => NotDog(thr[t].gateway)
    /\ thr[t].at \in Launching => pidfile <= used

Apart ==
    /\ ~Is(pidfile, "dog")
    /\ \A d \in Pids : Alive(d) => NotDog(proc[d].child)
    /\ \A t \in Threads : Spares(t)

\* A thread rests, or takes nothing else for a gateway.
Sparing == \A u \in Threads : thr'[u] = thr[u] \/ Spares(u)'

Sober == \A p \in 0..MaxPid : NotDog(p) => NotDog(p)'

\* The file holds what it held, or an id that is not a watchdog's.
FileSober == (pidfile' = pidfile /\ ~Is(pidfile, "dog")') \/ NotDog(pidfile)'

LEMMA ZeroNotDog ==
    ASSUME MachineOK
    PROVE  NotDog(0)
  BY LifecycleAssumption DEF MachineOK, NotDog, Is, Alive, Pids

LEMMA WaningSober ==
    ASSUME MachineOK, Waning, used' = used \/ used' = used + 1
    PROVE  Sober
  <1>1. \A p : Is(p, "dog")' => Is(p, "dog")
    BY DEF Waning, Are, Is, Alive
  <1>2. used \in Int /\ used <= used'
    BY DEF MachineOK
  <1>3. QED
    BY <1>1, <1>2, LifecycleAssumption DEF Sober, NotDog

\* The scripts that do not move.
LEMMA OthersSpare ==
    ASSUME IInv, Apart, Sober, used' = used \/ used' = used + 1, FileSober, NEW u \in Threads, thr'[u] = thr[u]
    PROVE  Spares(u)'
  <1>1. thr[u] \in RequestType /\ Spares(u) /\ Keeps(thr[u]) /\ pidfile \in 0..MaxPid /\ used \in 0..MaxPid
    BY FileTypes DEF IInv, Apart, TypeOK, MachineOK
  <1>2. thr[u].fix # None => thr[u].fix \in 0..MaxPid
    BY <1>1 DEF RequestType
  <1>3. thr[u].gateway \in 0..MaxPid
    BY <1>1 DEF RequestType
  <1>4. thr[u].at \in Launching => pidfile' <= used'
    BY <1>1, LifecycleAssumption DEF Spares, FileSober, NotDog
  <1>5. QED
    BY <1>1, <1>2, <1>3, <1>4 DEF Spares, Sober

LEMMA TameChildren ==
    ASSUME IInv, Apart, Tame, Sober, MachineOK'
    PROVE  (\A d \in Pids : Alive(d) => NotDog(proc[d].child))'
  <1>1. SUFFICES ASSUME NEW d \in Pids, Alive(d)' PROVE NotDog(proc[d].child)'
    OBVIOUS
  <1>2. Alive(d) /\ proc'[d].child \in {0, proc[d].child} /\ proc[d] \in ProcessType
    BY <1>1, FileTypes, Running DEF Tame
  <1>3. NotDog(0) /\ NotDog(proc[d].child) /\ proc[d].child \in 0..MaxPid /\ 0 \in 0..MaxPid
    BY <1>2, FileTypes, ZeroNotDog DEF Apart, ProcessType
  <1>4. QED
    BY <1>2, <1>3 DEF Sober, NotDog, Is, Alive

\* What a step that launches no process has to show.
LEMMA TameApart ==
    ASSUME IInv, Apart, Tame, pidfile' = pidfile \/ NotDog(pidfile'),
           Sparing, pidfile' \in 0..MaxPid
    PROVE  Apart'
  <1>1. Waning /\ MachineOK' /\ used' = used
    BY FileTypes, TameWanes, TameKeeps DEF Tame
  <1>2. Sober
    BY <1>1, FileTypes, WaningSober
  <1>3. ~Is(pidfile, "dog")'
    <2>1. Is(pidfile', "dog") => FALSE
      BY DEF Apart, NotDog
    <2>2. QED
      BY <1>1, <2>1 DEF Waning, Are, Is, Alive
  <1>4. FileSober
    <2>1. NotDog(pidfile') => NotDog(pidfile)'
      BY <1>1, <1>3 DEF NotDog
    <2>2. QED
      BY <1>3, <2>1 DEF FileSober
  <1>5. \A u \in Threads : Spares(u)'
    BY <1>1, <1>2, <1>4, OthersSpare DEF Sparing
  <1>6. QED
    BY <1>1, <1>2, <1>3, <1>5, TameChildren DEF Apart

LEMMA DogApart ==
    ASSUME IInv, Apart, NEW d \in Pids, DogStep(d), ~Launch(d)
    PROVE  Apart'
  <1>1. Tame /\ FilesOK' /\ thr' = thr
    BY FileTypes, DogTame, DogFiles DEF DogStep
  <1>2. pidfile' = pidfile \/ pidfile' = 0 \/ (Is(d, "dog") /\ pidfile' = proc[d].child)
    BY DEF DogStep, Attend, CheckStop, Note, Wake, Decide, Resume, OnTerm, Reap, Leave, files, Dog
  <1>3. pidfile' = pidfile \/ NotDog(pidfile')
    BY <1>2, FileTypes, ZeroNotDog DEF Apart, Is, Alive
  <1>4. QED
    BY <1>1, <1>3, TameApart DEF FilesOK, Sparing

LEMMA LaunchApart ==
    ASSUME IInv, Apart, NEW d \in Pids, DogStep(d), Launch(d)
    PROVE  Apart'
  <1>1. /\ used \in 0..MaxPid /\ used' = Fresh /\ Fresh \in Pids /\ Fresh = used + 1 /\ ~Alive(Fresh) /\ Fresh # d
        /\ \A p \in Pids \ {Fresh, d} : proc'[p] = proc[p]
        /\ proc'[Fresh] = Process("gateway") /\ Alive(d) /\ proc[d] \in ProcessType
        /\ proc'[d] = [proc[d] EXCEPT !.pc = "forked", !.child = Fresh]
    BY FileTypes, LaunchBears, Running DEF Is
  <1>2. thr' = thr /\ pidfile' = pidfile
    BY DEF DogStep, Launch, files
  <1>3. proc'[Fresh].kind = "gateway" /\ proc'[Fresh].child = 0 /\ proc'[d].kind = proc[d].kind /\ proc'[d].child = Fresh
    BY <1>1 DEF Process, ProcessType
  <1>4. \A p : Is(p, "dog")' => Is(p, "dog")
    BY <1>1, <1>3 DEF Is, Alive
  <1>5. Sober /\ (\A p \in 0..MaxPid : p <= used => p <= used') /\ used' = used + 1
    BY <1>1, <1>4, LifecycleAssumption DEF Sober, NotDog
  <1>6. ~Is(pidfile, "dog")' /\ FileSober
    BY <1>1, <1>2, <1>3 DEF FileSober, Apart, Is, Alive
  <1>7. \A u \in Threads : Spares(u)'
    BY <1>2, <1>5, <1>6, OthersSpare
  <1>8. ASSUME NEW e \in Pids, Alive(e)' PROVE NotDog(proc[e].child)'
    <2>1. CASE e = d
      <3>1. Fresh <= used'
        BY <1>1 DEF Pids
      <3>2. proc'[Fresh].kind # "dog" /\ proc'[e].child = Fresh
        BY <1>3, <2>1
      <3>3. QED
        BY <3>1, <3>2 DEF NotDog, Is, Alive
    <2>2. CASE e = Fresh
      BY <1>1, <1>3, <2>2, LifecycleAssumption DEF NotDog, Is, Alive, Pids
    <2>3. CASE e # d /\ e # Fresh
      <3>1. Alive(e) /\ proc'[e] = proc[e]
        BY <1>1, <1>8, <2>3 DEF Alive
      <3>2. NotDog(proc[e].child) /\ proc[e].child \in 0..MaxPid
        BY <3>1, FileTypes, Running DEF Apart, ProcessType
      <3>3. QED
        BY <1>5, <3>1, <3>2 DEF Sober, NotDog, Is, Alive
    <2>4. QED
      BY <2>1, <2>2, <2>3
  <1>9. QED
    BY <1>6, <1>7, <1>8 DEF Apart

\* A process is born: a watchdog that a script launches, or another program.
LEMMA BornApart ==
    ASSUME IInv, Apart, NEW kind \in {"dog", "other"}, Fresh \in Pids, used' = Fresh,
           proc' = [proc EXCEPT ![Fresh] = Process(kind)], pidfile' = pidfile, kind = "dog" => pidfile <= used,
           Sparing
    PROVE  Apart'
  <1>1. /\ used \in 0..MaxPid /\ Fresh = used + 1 /\ ~Alive(Fresh)
        /\ \A p \in Pids \ {Fresh} : proc'[p] = proc[p]
        /\ proc'[Fresh].kind = kind /\ proc'[Fresh].child = 0
    BY FileTypes, Born
  <1>2. \A p : Is(p, "dog")' => Is(p, "dog") \/ (p = Fresh /\ kind = "dog")
    BY <1>1 DEF Is, Alive
  <1>3. Sober /\ used' = used + 1
    BY <1>1, <1>2, LifecycleAssumption DEF Sober, NotDog
  <1>4. ~Is(pidfile, "dog")' /\ FileSober
    <2>1. kind = "dog" => pidfile # Fresh
      BY <1>1, FileTypes
    <2>2. QED
      BY <1>1, <2>1 DEF FileSober, Apart, Is, Alive
  <1>5. \A u \in Threads : Spares(u)'
    BY <1>3, <1>4, OthersSpare DEF Sparing
  <1>6. ASSUME NEW e \in Pids, Alive(e)' PROVE NotDog(proc[e].child)'
    <2>1. CASE e = Fresh
      BY <1>1, <1>3, <2>1, LifecycleAssumption DEF NotDog, Is, Alive, Pids
    <2>2. CASE e # Fresh
      <3>1. Alive(e) /\ proc'[e] = proc[e]
        BY <1>1, <1>6, <2>2 DEF Alive
      <3>2. NotDog(proc[e].child) /\ proc[e].child \in 0..MaxPid
        BY <3>1, FileTypes, Running DEF Apart, ProcessType
      <3>3. QED
        BY <1>3, <3>1, <3>2 DEF Sober, NotDog, Is, Alive
    <2>3. QED
      BY <2>1, <2>2
  <1>7. QED
    BY <1>4, <1>5, <1>6 DEF Apart

\* The place a script goes to relies on no more than the place it comes from.
LEMMA StepsSpare ==
    ASSUME IInv, Apart, NEW t \in Threads, NEW l \in Places, Steps(t, l), thr[t].fix = None,
           l \in {"stopSignalDog", "stopSignalGateway", "stopAwaitGateway"} => At(t, "stopSignalDog") \/ At(t, "stopSignalGateway"),
           l \in Launching => thr[t].at \in Launching,
           Tame, pidfile' = pidfile \/ NotDog(pidfile'), FilesOK'
    PROVE  Apart'
  <1>1. Sober /\ used' = used
    BY FileTypes, TameWanes, WaningSober DEF Tame
  <1>2. Spares(t) /\ thr[t].gateway \in 0..MaxPid
    BY DEF Apart, IInv, TypeOK, RequestType
  <1>3. Spares(t)'
    BY <1>1, <1>2 DEF Spares, Steps, At, Sober, NotDog
  <1>4. QED
    BY <1>3, TameApart DEF Steps, Moves, FilesOK, Sparing

LEMMA IdleApart ==
    ASSUME IInv, Apart, NEW t \in Threads, Moves(t), thr'[t].fix = None,
           thr'[t].at \notin Launching \cup {"stopSignalDog", "stopSignalGateway", "stopAwaitGateway"},
           Tame, pidfile' = pidfile \/ NotDog(pidfile'), FilesOK'
    PROVE  Apart'
  <1>1. Spares(t)'
    BY DEF Spares
  <1>2. QED
    BY <1>1, TameApart DEF Moves, FilesOK, Sparing

\* Looking for a process, and what it is found to be.
LEMMA FoundApart ==
    ASSUME IInv, Apart, NEW t \in Threads, thr[t].at \in DOMAIN Finds, NEW p \in 0..MaxPid, Found(t, p),
           UNCHANGED machine, FilesOK', Finds[thr[t].at][1] = "gateway" => NotDog(p) /\ pidfile' = p,
           pidfile' = pidfile \/ NotDog(pidfile')
    PROVE  Apart'
  <1>1. /\ Moves(t) /\ thr'[t].fix = None
        /\ thr'[t].at = (IF p = 0 THEN Finds[thr[t].at][3] ELSE Finds[thr[t].at][2])
        /\ thr'[t].gateway = (IF At(t, "stopFindGateway") THEN p ELSE thr[t].gateway)
    BY FoundMoves
  <1>2. Tame /\ used' = used /\ proc' = proc
    BY FileTypes, SameMachine DEF machine
  <1>3. Spares(t)
    BY DEF Apart
  <1>4. thr'[t].at \in {"stopSignalDog", "stopSignalGateway", "stopAwaitGateway"} =>
            At(t, "stopFindGateway") /\ Finds[thr[t].at][1] = "gateway"
    BY <1>1, FindsDomain DEF Finds, At
  <1>5. thr'[t].at \in Launching =>
            (thr[t].at \in Launching) \/ (At(t, "startGateway") /\ Finds[thr[t].at][1] = "gateway")
    BY <1>1, FindsDomain DEF Finds, At, Launching
  <1>6. pidfile <= used => pidfile' <= used
    BY DEF NotDog
  <1>7. Spares(t)'
    <2>1. thr'[t].at \in {"stopSignalDog", "stopSignalGateway", "stopAwaitGateway"} => NotDog(thr[t].gateway)'
      BY <1>1, <1>2, <1>4 DEF NotDog, Is, Alive
    <2>2. thr'[t].at \in Launching => pidfile' <= used'
      BY <1>2, <1>3, <1>5, <1>6 DEF Spares, NotDog
    <2>3. QED
      BY <1>1, <2>1, <2>2 DEF Spares
  <1>8. QED
    BY <1>1, <1>2, <1>7, TameApart DEF Moves, FilesOK, Sparing

LEMMA LookApart ==
    ASSUME IInv, Apart, NEW t \in Threads, Look(t)
    PROVE  Apart'
  <1> DEFINE kind == Finds[thr[t].at][1]
  <1>1. /\ thr[t].at \in DOMAIN Finds /\ kind \in {"dog", "gateway"} /\ UNCHANGED machine /\ FilesOK' /\ pidfile' = pidfile
        /\ used' = used /\ proc' = proc
    BY FindsType, FileTypes DEF Look, FilesOK, files, machine
  <1>2. \A p \in Are("gateway") : NotDog(p)
    BY FileTypes, Running DEF Are, NotDog, Is, MachineOK
  <1>3. CASE Trusted(kind, FileOf(kind)) /\ FileOf(kind) \in 0..MaxPid /\ Found(t, FileOf(kind))
    <2>1. kind = "gateway" => NotDog(FileOf(kind)) /\ pidfile' = FileOf(kind)
      BY <1>1, <1>2, <1>3 DEF Trusted, FileOf, Are, Is, Alive
    <2>2. QED
      BY <1>1, <1>3, <2>1, FoundApart
  <1>4. CASE /\ Moves(t) /\ thr'[t].at = thr[t].at /\ thr'[t].gateway = thr[t].gateway
             /\ IF Are(kind) = {} THEN thr'[t].fix = 0 ELSE thr'[t].fix \in Are(kind)
    <2>1. kind = "gateway" => NotDog(thr'[t].fix)
      BY <1>2, <1>4, FileTypes, ZeroNotDog
    <2>2. Spares(t)
      BY DEF Apart
    <2>3. Spares(t)'
      BY <1>1, <1>4, <2>1, <2>2 DEF Spares, NotDog, Is, Alive
    <2>4. QED
      BY <1>1, <1>4, <2>3, FileTypes, SameMachine, TameApart DEF Moves, FilesOK, Sparing
  <1>5. QED
    BY <1>3, <1>4, LookMoves

LEMMA FixApart ==
    ASSUME IInv, Apart, NEW t \in Threads, Fix(t)
    PROVE  Apart'
  <1> DEFINE kind == Finds[thr[t].at][1]
             p == thr[t].fix
  <1>1. /\ thr[t].at \in DOMAIN Finds /\ kind \in {"dog", "gateway"} /\ UNCHANGED machine /\ p \in 0..MaxPid /\ p # None
        /\ Found(t, p)
    BY FindsType DEF Fix, IInv, Keeps, TypeOK, RequestType
  <1>2. kind = "gateway" => NotDog(p)
    BY <1>1 DEF Apart, Spares
  <1>3. FilesOK' /\ (kind = "gateway" => pidfile' = p) /\ (kind = "dog" => pidfile' = pidfile)
    BY <1>1, FileTypes DEF Fix, SetFile, FilesOK
  <1>4. QED
    BY <1>1, <1>2, <1>3, FoundApart

LEMMA HostApart ==
    ASSUME IInv, Apart, NEW t \in Threads, HostScript(t)
    PROVE  Apart'
  <1>0. NotDog(0) /\ 0 \in 0..MaxPid
    BY FileTypes, ZeroNotDog
  <1>1. CASE Look(t) \/ Fix(t)
    BY <1>1, LookApart, FixApart
  <1>2. CASE StartLaunch(t)
    <2>1. /\ Moves(t) /\ thr[t].at = "startLaunch" /\ thr'[t].at = "startNote" /\ thr'[t].fix = None
          /\ Fresh \in Pids /\ used' = Fresh /\ proc' = [proc EXCEPT ![Fresh] = Process("dog")] /\ pidfile' = pidfile
      BY <1>2, LaunchMoves DEF StartLaunch, files
    <2>2. pidfile <= used
      BY <2>1 DEF Apart, Spares, Launching
    <2>3. Sparing
      BY <2>1 DEF Sparing, Spares, Moves, Launching
    <2>4. QED
      BY <2>1, <2>2, <2>3, BornApart
  <1>3. CASE StopFallback(t)
    <2>1. /\ Moves(t) /\ thr[t].at = "stopFallback" /\ thr'[t].at = "stopSignalDog" /\ thr'[t].fix = None
          /\ thr'[t].gateway = pidfile /\ UNCHANGED machine /\ pidfile' = pidfile /\ FilesOK'
      BY <1>3, FallbackMoves, FileTypes DEF StopFallback, files, FilesOK
    <2>2. NotDog(pidfile)
      BY <2>1 DEF IInv, Keeps, Own, Apart, NotDog
    <2>3. Spares(t)'
      BY <2>1, <2>2 DEF Spares, NotDog, Is, Alive, machine, Launching
    <2>4. QED
      BY <2>1, <2>3, FileTypes, SameMachine, TameApart DEF Moves, FilesOK, Sparing
  <1>4. CASE \/ StartRemove(t) \/ StartClear(t) \/ StartNote(t) \/ GiveUp(t) \/ StopAny(t) \/ StopSignalDog(t)
             \/ StopSignalGateway(t) \/ StopAwaitGateway(t) \/ StopAwaitDog(t) \/ StopForget(t) \/ StopClear(t)
    <2>1. thr[t].fix = None
      BY <1>4, NoFix, FindsDomain
         DEF StartRemove, StartClear, StartNote, GiveUp, StopAny, StopSignalDog, StopSignalGateway, StopAwaitGateway,
             StopAwaitDog, StopForget, StopClear, At
    <2>2. PICK l \in Places :
              /\ Goto(t, l)
              /\ l \in {"stopSignalDog", "stopSignalGateway", "stopAwaitGateway"} => At(t, "stopSignalDog") \/ At(t, "stopSignalGateway")
              /\ l \in Launching => thr[t].at \in Launching
      BY <1>4, FindsDomain
         DEF StartRemove, StartClear, StartNote, GiveUp, StopAny, StopSignalDog, StopSignalGateway, StopAwaitGateway,
             StopAwaitDog, StopForget, StopClear, At, Places, Outcomes, Launching
    <2>3. pidfile' = pidfile \/ pidfile' = 0
      BY <1>4 DEF StartRemove, StartClear, StartNote, GiveUp, StopAny, StopSignalDog, StopSignalGateway, StopAwaitGateway,
             StopAwaitDog, StopForget, StopClear, files
    <2>4. thr[t].dog \in 0..MaxPid
      BY DEF IInv, TypeOK, RequestType
    <2>5. FilesOK'
      BY <1>0, <1>4, <2>3, <2>4, FileTypes
         DEF StartRemove, StartClear, StartNote, GiveUp, StopAny, StopSignalDog, StopSignalGateway, StopAwaitGateway,
             StopAwaitDog, StopForget, StopClear, files, FilesOK
    <2>6. ~StartLaunch(t)
      BY <1>4 DEF StartRemove, StartClear, StartNote, GiveUp, StopAny, StopSignalDog, StopSignalGateway, StopAwaitGateway,
             StopAwaitDog, StopForget, StopClear, StartLaunch, At
    <2>7. Tame
      BY <1>4, <2>6, ThreadTame DEF HostScript
    <2>8. QED
      BY <1>0, <2>1, <2>2, <2>3, <2>5, <2>7, GotoSteps, StepsSpare
  <1>5. QED
    BY <1>1, <1>2, <1>3, <1>4 DEF HostScript

LEMMA BoxApart ==
    ASSUME IInv, Apart, NEW t \in Threads, BoxScript(t)
    PROVE  Apart'
  <1>1. Tame /\ Moves(t) /\ NotDog(0) /\ 0 \in 0..MaxPid /\ ~StartLaunch(t)
    BY FileTypes, ZeroNotDog, ThreadTame, BoxScriptMoves
       DEF BoxScript, BoxSignal, BoxKill, BoxCheck, BoxRun, BoxStop, BoxStopGateway, BoxStopDog, BoxStatus, StartLaunch, At, ScriptMoves
  <1>2. pidfile' \in {pidfile, 0} /\ FilesOK'
    BY <1>1, FileTypes
       DEF BoxScript, BoxSignal, BoxKill, BoxCheck, BoxRun, BoxStop, BoxStopGateway, BoxStopDog, BoxStatus, SetFile, FilesOK, files
  <1>3. thr'[t].fix = None /\ thr'[t].at \notin Launching \cup {"stopSignalDog", "stopSignalGateway", "stopAwaitGateway"}
    <2>1. CASE BoxSignal(t, "boxGateway", "gateway", "boxGatewayLate") \/ BoxSignal(t, "boxDog", "dog", "boxDogLate")
      BY <2>1, BoxSignalMoves, FindsDomain DEF Launching
    <2>2. CASE ~(BoxSignal(t, "boxGateway", "gateway", "boxGatewayLate") \/ BoxSignal(t, "boxDog", "dog", "boxDogLate"))
      <3>1. /\ \E l \in Places \ (Launching \cup {"stopSignalDog", "stopSignalGateway", "stopAwaitGateway"}) : Goto(t, l)
            /\ thr[t].at \notin DOMAIN Finds
        BY <2>2, FindsDomain
           DEF BoxScript, BoxKill, BoxCheck, BoxRun, BoxStop, BoxStopGateway, BoxStopDog, BoxStatus, At, Places, Outcomes, Launching
      <3>2. QED
        BY <3>1, NoFix, GotoSteps DEF Steps
    <2>3. QED
      BY <2>1, <2>2
  <1>4. QED
    BY <1>1, <1>2, <1>3, IdleApart

LEMMA HandlerApart ==
    ASSUME IInv, Apart, NEW t \in Threads, Handler(t)
    PROVE  Apart'
  <1>1. Tame /\ NotDog(0) /\ 0 \in 0..MaxPid
    <2>1. ~StartLaunch(t)
      BY DEF Handler, Checked, Restarting, Report, SaveConnector, Update, UpdateRaw, Reconcile, Reload, Delete, DeleteBox, Create, DockerEnds,
             Ended, Outcomes, StartLaunch, At
    <2>2. QED
      BY <2>1, FileTypes, ZeroNotDog, ThreadTame
  <1>2. pidfile' \in {pidfile, 0} /\ FilesOK'
    BY <1>1, FileTypes
       DEF Handler, Checked, Restarting, Report, SaveConnector, Update, UpdateRaw, SaveMode, NewConfig, Reconcile, Reload, Delete,
           DeleteBox, Create, DockerEnds, FilesOK, files
  <1>3. Moves(t) /\ thr'[t].fix = None /\ thr'[t].at \notin Launching \cup {"stopSignalDog", "stopSignalGateway", "stopAwaitGateway"}
    <2>1. CASE Checked(t) \/ Restarting(t)
      BY <2>1, CheckedMoves, RestartMoves, EntryPlaces, IdleType DEF Launching
    <2>2. CASE ~Checked(t) /\ ~Restarting(t)
      <3>1. (Return(t) \/ \E l \in {"reconcile", "deleteBox"} : Goto(t, l)) /\ (Return(t) \/ thr[t].at \notin DOMAIN Finds)
        BY <2>2, FindsDomain
           DEF Handler, Report, SaveConnector, Update, UpdateRaw, Reconcile, Reload, Delete, DeleteBox, Create, DockerEnds, At
      <3>2. CASE Return(t)
        BY <3>2, ReturnMoves, IdleType DEF Launching
      <3>3. CASE ~Return(t)
        BY <3>1, <3>3, NoFix, GotoSteps DEF Steps, Places, Launching
      <3>4. QED
        BY <3>2, <3>3
    <2>3. QED
      BY <2>1, <2>2
  <1>4. QED
    BY <1>1, <1>2, <1>3, IdleApart

LEMMA RebootApart ==
    ASSUME IInv, Reboot
    PROVE  Apart'
  <1>1. (\A p \in Pids : proc'[p] = None) /\ \A t \in Threads : thr'[t].fix = None /\ thr'[t].at = "idle"
    BY IdleType DEF Reboot
  <1>2. QED
    BY <1>1 DEF Apart, Spares, Is, Alive, Launching

LEMMA NextApart == IInv /\ Apart /\ [Next]_vars => Apart'
  <1>1. SUFFICES ASSUME IInv, Apart, [Next]_vars PROVE Apart'
    OBVIOUS
  <1>2. ASSUME NEW d \in Are("dog"), DogStep(d) PROVE Apart'
    BY <1>1, <1>2, DogApart, LaunchApart DEF Are
  <1>3. ASSUME Tame, UNCHANGED <<thr, files>> PROVE Apart'
    BY <1>1, <1>3, FileTypes, TameApart DEF Sparing, files
  <1>4. ASSUME NEW g \in Are("gateway"), Up(g) \/ End(g) PROVE Apart'
    <2>1. g \in Pids /\ proc[g] \in ProcessType
      BY <1>1, FileTypes, Running DEF Are, Is
    <2>2. Tame
      BY <1>1, <1>4, <2>1, FileTypes DEF Up, End, Is, Tame, Firm, MachineOK, Alive, ProcessType
    <2>3. QED
      BY <1>3, <1>4, <2>2 DEF Up, End
  <1>5. CASE Die
    <2>1. Tame
      BY <1>1, <1>5, FileTypes DEF Die, Serving, Are, Tame, Firm, MachineOK, Alive
    <2>2. QED
      BY <1>3, <1>5, <2>1 DEF Die
  <1>6. CASE Reboot
    BY <1>1, <1>6, RebootApart
  <1>7. CASE Stranger
    BY <1>1, <1>7, BornApart DEF Stranger, Sparing, files
  <1>8. CASE UNCHANGED vars
    BY <1>1, <1>3, <1>8, FileTypes, SameMachine DEF vars
  <1>9. ASSUME NEW t \in Threads, ThreadStep(t) PROVE Apart'
    BY <1>1, <1>9, HostApart, BoxApart, HandlerApart DEF ThreadStep
  <1>10. ASSUME NEW t \in Threads, Moves(t), thr'[t].fix = None, UNCHANGED <<machine, files>>,
                thr'[t].at \notin Launching \cup {"stopSignalDog", "stopSignalGateway", "stopAwaitGateway"}
         PROVE  Apart'
    BY <1>1, <1>10, FileTypes, SameMachine, IdleApart DEF files, FilesOK
  <1>11. ASSUME NEW t \in Threads, Cut(t) \/ ProbeFails(t) PROVE Apart'
    <2>1. UNCHANGED <<machine, files>>
      BY <1>11 DEF Cut, ProbeFails
    <2>2. CASE Cut(t) /\ Survives(t)
      <3>1. Tame /\ FilesOK' /\ pidfile' = pidfile /\ used' = used /\ proc' = proc
        BY <1>1, <2>1, FileTypes, SameMachine DEF files, FilesOK, machine
      <3>2. Spares(t)'
        BY <1>1, <2>2, <3>1 DEF Apart, Spares, Survives, NotDog, Is, Alive
      <3>3. QED
        BY <1>1, <2>2, <3>1, <3>2, CutMoves, TameApart DEF Moves, FilesOK, Sparing
    <2>3. CASE Cut(t) /\ ~Survives(t)
      <3>1. Moves(t) /\ thr'[t].fix = None /\ thr'[t].at \in {"idle", "boxRun", "lateStop", "lateRemove"}
        BY <1>1, <2>3, CutMoves, LatePlaces, IdleType DEF Lingers
      <3>2. QED
        BY <1>10, <2>1, <3>1 DEF Launching
    <2>4. CASE ProbeFails(t)
      BY <1>1, <1>10, <2>1, <2>4, ProbeMoves DEF Launching
    <2>5. QED
      BY <1>11, <2>2, <2>3, <2>4
  <1>12. ASSUME NEW t \in Threads, NEW op \in Ops, Begin(t, op) PROVE Apart'
    BY <1>1, <1>10, <1>12, FirstMoves, EntryPlaces DEF Launching
  <1>13. QED
    BY <1>1, <1>2, <1>4, <1>5, <1>6, <1>7, <1>8, <1>9, <1>11, <1>12 DEF Next

LEMMA InitApart == Init => Apart
  <1>1. SUFFICES ASSUME Init PROVE Apart
    OBVIOUS
  <1>2. (\A p \in Pids : proc[p] = None) /\ \A t \in Threads : thr[t].fix = None /\ thr[t].at = "idle"
    BY <1>1, IdleType DEF Init
  <1>3. QED
    BY <1>2 DEF Apart, Spares, Is, Alive, Launching

----------------------------------------------------------------------------
\* One watchdog, one runtime: the invariant.

\* The scripts launch no watchdog beside another.
OneDog == Free({"overlap"}) => \A d, e \in Are("dog") : d = e

\* What serves is the child of a watchdog that knows it, or is about to note it.
Parented(g) == \E d \in Are("dog") : proc[d].child = g /\ proc[d].pc \in {"forked", "wait"}
Parents == Free({"overlap", "slip"}) => \A g \in Serving : Parented(g)

\* There is no container beside a watchdog.
BoxAlone == Free({"overlap", "slip", "probe"}) => (container # "none" => Are("dog") = {})

\* The file names the watchdog, or start.sh is about to write it.
Noting(d) == \E t \in Threads : thr[t].at = "startNote" /\ thr[t].dog = d
Known == Free({"overlap", "slip", "probe"}) => \A d \in Are("dog") : dogfile = d \/ Noting(d)

\* What runs is what the mode asks for.
ModeRuns ==
    Free({"overlap", "switch"}) => /\ mode = "sandbox" => Watching = {} /\ Serving = {}
                                   /\ mode = "host" => container # "running"

\* What a script relies on at its places: that there is no watchdog, or none but the one it has
\* found, and no container.
Bare == {"startClear", "startLaunch", "stopForget", "stopClear"}
Caught == {"startNote", "stopFindGateway", "stopFallback", "stopSignalDog", "stopSignalGateway", "stopAwaitGateway",
           "stopAwaitDog"}
Boxless == (HostStart \ {"startContainer"}) \cup {"boxStopGateway", "boxStopDog"}

Claims(t) ==
    /\ Free({"overlap"}) =>
        /\ thr[t].at \in Bare => Are("dog") = {}
        /\ thr[t].at \in Caught => Are("dog") \subseteq {thr[t].dog}
        /\ thr[t].at \in Boxless => container = "none"
        /\ thr[t].at = "boxGatewayLate" => ~Is(thr[t].dog, "dog")
        /\ thr[t].at = "boxDogLate" /\ Is(thr[t].dog, "dog") => proc[thr[t].dog].termed
        /\ thr[t].fix # None /\ Finds[thr[t].at][1] = "dog" /\ (Changing(t) \/ Free({"probe"})) => Are("dog") \subseteq {thr[t].fix}
    /\ Free({"overlap", "slip", "probe"}) =>
        /\ thr[t].at \in {"boxCheck", "boxRun", "boxStopGateway", "boxStopDog"} => Are("dog") = {}
        /\ thr[t].at = "boxDogLate" => Are("dog") \subseteq {thr[t].dog}
        /\ Stopped(t) /\ Free({"skip"}) => container = "none" /\ Are("dog") = {}

Tended == OneDog /\ Parents /\ BoxAlone /\ Known /\ ModeRuns /\ \A t \in Threads : Claims(t)

----------------------------------------------------------------------------
\* The watchdogs and what they launch.

\* The watchdogs do not move, and nothing more serves.
RestDogs == \A d \in Are("dog") : proc'[d] = proc[d]

LEMMA RestParents ==
    ASSUME MachineOK, Parents, RestDogs, Serving' \subseteq Serving, lapses \subseteq lapses'
    PROVE  Parents'
  <1>1. SUFFICES ASSUME Free({"overlap", "slip"})', NEW g \in Serving' PROVE Parented(g)'
    BY DEF Parents
  <1>2. PICK d \in Are("dog") : proc[d].child = g /\ proc[d].pc \in {"forked", "wait"}
    BY <1>1 DEF Parents, Parented, Free
  <1>3. d \in Are("dog")' /\ proc'[d] = proc[d]
    BY <1>2 DEF RestDogs, Are, Is, Alive
  <1>4. QED
    BY <1>2, <1>3 DEF Parented

LEMMA SignalParents ==
    ASSUME MachineOK, Parents, NEW p, NEW s, Signal(p, s), lapses \subseteq lapses', used' = used
    PROVE  Parents'
  <1>1. SUFFICES ASSUME Free({"overlap", "slip"})', NEW g \in Serving' PROVE Parented(g)'
    BY DEF Parents
  <1>2. Serving' \subseteq Serving
    BY TermTame, TameWanes DEF Waning
  <1>3. PICK d \in Are("dog") : proc[d].child = g /\ proc[d].pc \in {"forked", "wait"}
    BY <1>1, <1>2 DEF Parents, Parented, Free
  <1>4. d \in Pids /\ proc[d] \in ProcessType /\ proc[d].kind = "dog" /\ proc[d] # None
    BY <1>3, Running DEF Are, Is, Alive
  <1>5. proc'[d] = proc[d] \/ proc'[d] = [proc[d] EXCEPT !.termed = TRUE]
    <2>1. CASE ~Alive(p)
      BY <2>1 DEF Signal
    <2>2. CASE Alive(p) /\ d # p
      <3>1. proc' = [proc EXCEPT ![p] = None] \/ proc' = [proc EXCEPT ![p].termed = TRUE]
        BY <2>2 DEF Signal, Termed
      <3>2. QED
        BY <1>4, <2>2, <3>1 DEF MachineOK
    <2>3. CASE d = p
      <3>1. proc' = [proc EXCEPT ![d].termed = TRUE]
        BY <1>3, <1>4, <2>3 DEF Signal, Termed, Alive
      <3>2. QED
        BY <1>4, <3>1 DEF MachineOK
    <2>4. QED
      BY <2>1, <2>2, <2>3
  <1>6. proc'[d].child = g /\ proc'[d].pc \in {"forked", "wait"} /\ proc'[d].kind = "dog" /\ proc'[d] # None
    <2>1. [proc[d] EXCEPT !.termed = TRUE] # None
      <3>1. [proc[d] EXCEPT !.termed = TRUE] \in ProcessType
        BY <1>4 DEF ProcessType
      <3>2. QED
        BY <3>1, LifecycleAssumption
    <2>2. QED
      BY <1>3, <1>4, <1>5, <2>1 DEF ProcessType
  <1>7. QED
    BY <1>4, <1>6 DEF Parented, Are, Is, Alive

\* A watchdog moves no other watchdog.
LEMMA OtherDogs ==
    ASSUME IInv, Apart, NEW d \in Are("dog"), DogStep(d), NEW e \in Are("dog") \ {d}
    PROVE  proc'[e] = proc[e]
  <1>1. d \in Pids /\ e \in Pids /\ Alive(d) /\ Is(e, "dog") /\ MachineOK
    BY FileTypes DEF Are, Is
  <1>2. e # proc[d].child
    BY <1>1 DEF Apart, NotDog
  <1>3. CASE Launch(d)
    <2>1. e # Fresh
      BY <1>1, <1>3, LaunchBears DEF Is
    <2>2. QED
      BY <1>1, <1>3, <2>1, LaunchBears
  <1>4. CASE OnTerm(d)
    BY <1>1, <1>2, <1>4 DEF OnTerm, MachineOK
  <1>5. CASE Reap(d)
    BY <1>1, <1>2, <1>5 DEF Reap, Leave, MachineOK
  <1>6. CASE Attend(d) \/ CheckStop(d) \/ Note(d) \/ Wake(d) \/ Decide(d) \/ Resume(d)
    BY <1>1, <1>6 DEF Attend, CheckStop, Note, Wake, Decide, Resume, Leave, MachineOK
  <1>7. QED
    BY <1>3, <1>4, <1>5, <1>6 DEF DogStep

LEMMA DogParents ==
    ASSUME IInv, Apart, Parents, NEW d \in Are("dog"), DogStep(d)
    PROVE  Parents'
  <1>1. SUFFICES ASSUME Free({"overlap", "slip"})', NEW g \in Serving' PROVE Parented(g)'
    BY DEF Parents
  <1>0. d \in Pids /\ proc[d] \in ProcessType /\ Is(d, "dog") /\ MachineOK /\ proc[d] # None /\ proc \in [Pids -> ProcessType \cup {None}]
    BY FileTypes, Running DEF Are, Is, Alive, MachineOK
  <1>2. CASE Launch(d) /\ g = Fresh
    <2>1. proc'[d].child = Fresh /\ proc'[d].pc = "forked" /\ proc'[d].kind = "dog"
      <3>1. proc'[d] = [proc[d] EXCEPT !.pc = "forked", !.child = Fresh] /\ proc[d].kind = "dog"
        BY <1>0, <1>2, LaunchBears DEF Is
      <3>2. QED
        BY <1>0, <3>1 DEF ProcessType
    <2>2. proc'[d] # None
      <3>1. Fresh \in Pids /\ proc'[d] = [proc[d] EXCEPT !.pc = "forked", !.child = Fresh]
        BY <1>0, <1>2, LaunchBears
      <3>2. Fresh \in 0..MaxPid
        BY <3>1, LifecycleAssumption DEF Pids
      <3>3. [proc[d] EXCEPT !.pc = "forked", !.child = Fresh] \in ProcessType
        BY <1>0, <3>2 DEF ProcessType
      <3>4. QED
        BY <3>1, <3>3, LifecycleAssumption
    <2>3. QED
      BY <1>0, <1>2, <2>1, <2>2 DEF Parented, Are, Is, Alive
  <1>3. CASE ~(Launch(d) /\ g = Fresh)
    <2>1. g \in Serving
      <3>1. CASE Launch(d)
        <4>1. g \in Pids /\ g # d /\ proc'[g] = proc[g]
          <5>1. g \in Pids /\ proc'[g].kind = "gateway"
            BY DEF Serving, Are, Is, Alive
          <5>2. proc'[d].kind = "dog"
            <6>1. proc'[d] = [proc[d] EXCEPT !.pc = "forked", !.child = Fresh] /\ proc[d].kind = "dog"
              BY <1>0, <3>1, LaunchBears DEF Is
            <6>2. QED
              BY <1>0, <6>1 DEF ProcessType
          <5>3. g # d /\ g # Fresh
            BY <1>3, <3>1, <5>1, <5>2
          <5>4. QED
            BY <1>0, <3>1, <5>1, <5>3, LaunchBears
        <4>2. QED
          BY <4>1 DEF Serving, Are, Is, Alive
      <3>2. CASE ~Launch(d)
        BY <1>0, <3>2, FileTypes, DogTame, TameWanes DEF DogStep, Waning
      <3>3. QED
        BY <3>1, <3>2
    <2>2. lapses \subseteq lapses' /\ Free({"overlap", "slip"})
      <3>1. lapses \subseteq lapses'
        BY DEF DogStep, Attend, CheckStop, Launch, Note, Wake, Decide, Resume, OnTerm, Reap
      <3>2. QED
        BY <1>1, <3>1 DEF Free
    <2>3. PICK e \in Are("dog") : proc[e].child = g /\ proc[e].pc \in {"forked", "wait"}
      BY <2>1, <2>2 DEF Parents, Parented
    <2>4. CASE e # d
      <3>1. proc'[e] = proc[e]
        BY <2>3, <2>4, OtherDogs
      <3>2. QED
        BY <2>3, <3>1 DEF Parented, Are, Is, Alive
    <2>5. CASE e = d
      <3>1. g \in Pids /\ Alive(g) /\ Alive(g)' /\ ~proc'[g].termed /\ proc[d].child = g /\ proc[d].pc \in {"forked", "wait"} /\ g # d
        BY <1>0, <2>1, <2>3, <2>5 DEF Serving, Are, Is, Alive
      <3>2. CASE Note(d)
        <4>1. proc'[d] = [proc[d] EXCEPT !.pc = "wait"]
          BY <1>0, <3>2 DEF Note
        <4>2. proc'[d].pc = "wait" /\ proc'[d].child = g /\ proc'[d].kind = "dog" /\ [proc[d] EXCEPT !.pc = "wait"] \in ProcessType
          BY <1>0, <3>1, <4>1 DEF ProcessType, Is
        <4>3. proc'[d] # None
          BY <4>1, <4>2, LifecycleAssumption
        <4>4. QED
          BY <1>0, <4>2, <4>3 DEF Parented, Are, Is, Alive
      <3>3. CASE OnTerm(d)
        <4>1. proc[d].pc = "wait"
          BY <1>1, <3>1, <3>3 DEF OnTerm, Free
        <4>2. proc'[g] = [proc[g] EXCEPT !.termed = TRUE] /\ proc[g] \in ProcessType
          BY <1>0, <3>1, <3>3, <4>1, Running DEF OnTerm
        <4>3. proc'[g].termed
          BY <4>2 DEF ProcessType
        <4>4. QED
          BY <3>1, <4>3
      <3>4. CASE ~Note(d) /\ ~OnTerm(d)
        BY <3>1, <3>4 DEF DogStep, Attend, CheckStop, Launch, Wake, Decide, Resume, Reap, Dog
      <3>5. QED
        BY <3>2, <3>3, <3>4
    <2>6. QED
      BY <2>4, <2>5
  <1>4. QED
    BY <1>2, <1>3

\* A start in sandbox mode kills the watchdog it has signalled, once that is waiting for the
\* seconds to pass: it does not know a gateway then.
LEMMA KillParents ==
    ASSUME IInv, Apart, Parents, NEW t \in Threads, Claims(t), thr[t].at \in {"boxGatewayLate", "boxDogLate"},
           Alive(thr[t].dog) => Settled, Destroy(thr[t].dog), used' = used, lapses' = lapses
    PROVE  Parents'
  <1> DEFINE p == thr[t].dog
  <1>1. Serving' \subseteq Serving /\ MachineOK
    BY FileTypes, DestroyTame, TameWanes DEF Waning
  <1>2. CASE ~Free({"overlap"})
    BY <1>2 DEF Parents, Free
  <1>3. CASE ~Is(p, "dog")
    <2>1. RestDogs
      BY <1>1, <1>3 DEF RestDogs, Destroy, Are, Is, Alive, MachineOK
    <2>2. QED
      BY <1>1, <2>1, RestParents
  <1>4. CASE Is(p, "dog") /\ Free({"overlap"})
    <2>1. p \in Are("dog") /\ proc[p].termed /\ Settled /\ p \in Pids
      BY <1>4 DEF Claims, Are, Is, Alive
    <2>2. proc[p].pc \notin {"forked", "wait"}
      BY <2>1 DEF Settled
    <2>3. \A e \in Are("dog") : e # p => proc'[e] = proc[e]
      BY <1>1, <2>1 DEF Destroy, Are, Is, Alive, MachineOK
    <2>4. SUFFICES ASSUME Free({"overlap", "slip"}), NEW g \in Serving' PROVE Parented(g)'
      BY DEF Parents, Free
    <2>5. PICK e \in Are("dog") : proc[e].child = g /\ proc[e].pc \in {"forked", "wait"}
      BY <1>1, <2>4 DEF Parents, Parented
    <2>6. proc'[e] = proc[e]
      BY <2>2, <2>3, <2>5
    <2>7. QED
      BY <2>5, <2>6 DEF Parented, Are, Is, Alive
  <1>5. QED
    BY <1>2, <1>3, <1>4

LEMMA ThreadParents ==
    ASSUME IInv, Apart, Parents, NEW t \in Threads, Claims(t), HostScript(t) \/ BoxScript(t) \/ Handler(t),
           lapses \subseteq lapses'
    PROVE  Parents'
  <1>0. MachineOK /\ (~StartLaunch(t) => Serving' \subseteq Serving)
    BY FileTypes, ThreadTame, TameWanes DEF Waning
  <1>1. CASE StartLaunch(t)
    <2>1. /\ Fresh \in Pids /\ ~Alive(Fresh) /\ (\A p \in Pids \ {Fresh} : proc'[p] = proc[p])
          /\ proc'[Fresh].kind = "dog"
      BY <1>0, <1>1, Born DEF StartLaunch
    <2>2. RestDogs
      BY <2>1 DEF RestDogs, Are, Is
    <2>3. Serving' \subseteq Serving
      BY <2>1 DEF Serving, Are, Is, Alive
    <2>4. QED
      BY <1>0, <2>2, <2>3, RestParents
  <1>2. ASSUME UNCHANGED proc PROVE Parents'
    <2>1. RestDogs /\ Serving' \subseteq Serving
      BY <1>2 DEF RestDogs, Serving, Are, Is, Alive
    <2>2. QED
      BY <1>0, <2>1, RestParents
  <1>3. CASE StopSignalDog(t) \/ StopSignalGateway(t)
    BY <1>0, <1>3, SignalParents DEF StopSignalDog, StopSignalGateway
  <1>4. CASE StopAwaitGateway(t)
    <2>1. ~Is(thr[t].gateway, "dog") /\ Destroy(thr[t].gateway) /\ ~StartLaunch(t)
      BY <1>4 DEF StopAwaitGateway, At, Apart, Spares, NotDog, StartLaunch
    <2>2. RestDogs
      BY <1>0, <2>1 DEF RestDogs, Destroy, Are, Is, Alive, MachineOK
    <2>3. QED
      BY <1>0, <2>1, <2>2, RestParents
  <1>5. CASE BoxScript(t)
    BY <1>0, <1>2, <1>5, SignalParents, KillParents
       DEF BoxScript, BoxSignal, BoxKill, BoxCheck, BoxRun, BoxStop, BoxStopGateway, BoxStopDog, BoxStatus, At, machine
  <1>6. CASE SaveConnector(t) \/ Reload(t)
    <2>1. ~StartLaunch(t)
      BY <1>6 DEF SaveConnector, Reload, StartLaunch, At, Ended, Outcomes
    <2>2. RestDogs
      BY <1>0, <1>6 DEF SaveConnector, Reload, RestDogs, Are, Is, Alive, MachineOK
    <2>3. QED
      BY <1>0, <2>1, <2>2, RestParents
  <1>7. CASE Handler(t) /\ ~SaveConnector(t) /\ ~Reload(t)
    BY <1>2, <1>7
       DEF Handler, Checked, Restarting, Report, Update, UpdateRaw, SaveMode, Reconcile, Delete, DeleteBox, Create, DockerEnds, machine
  <1>8. CASE /\ HostScript(t) /\ ~StopSignalDog(t) /\ ~StopSignalGateway(t) /\ ~StopAwaitGateway(t) /\ ~StartLaunch(t)
    BY <1>2, <1>8 DEF HostScript, Look, Fix, StartRemove, StartClear, StartNote, GiveUp, StopAny, StopFallback,
                      StopAwaitDog, StopForget, StopClear, machine
  <1>9. QED
    BY <1>1, <1>3, <1>4, <1>5, <1>6, <1>7, <1>8

\* Lapses are never forgotten.
LEMMA LapsesGrow == [Next]_vars => lapses \subseteq lapses'
  <1>1. SUFFICES ASSUME [Next]_vars PROVE lapses \subseteq lapses'
    OBVIOUS
  <1>2. ASSUME NEW d \in Are("dog"), DogStep(d) PROVE lapses \subseteq lapses'
    BY <1>2 DEF DogStep, Attend, CheckStop, Launch, Note, Wake, Decide, Resume, OnTerm, Reap
  <1>3. ASSUME NEW t \in Threads, ThreadStep(t) PROVE lapses \subseteq lapses'
    <2>1. CASE HostScript(t)
      BY <2>1 DEF HostScript, Look, Fix, StartRemove, StartClear, StartLaunch, StartNote, GiveUp, StopAny, StopFallback,
                  StopSignalDog, StopSignalGateway, StopAwaitGateway, StopAwaitDog, StopForget, StopClear
    <2>2. CASE BoxScript(t)
      BY <2>2 DEF BoxScript, BoxSignal, BoxKill, BoxCheck, BoxRun, BoxStop, BoxStopGateway, BoxStopDog, BoxStatus
    <2>3. CASE Handler(t)
      BY <2>3 DEF Handler, Checked, Restarting, Report, SaveConnector, Update, UpdateRaw, SaveMode, NewConfig, Reconcile,
                  Reload, Delete, DeleteBox, Create, DockerEnds
    <2>4. QED
      BY <1>3, <2>1, <2>2, <2>3 DEF ThreadStep
  <1>4. QED
    BY <1>1, <1>2, <1>3 DEF Next, Up, End, Die, Reboot, Stranger, Cut, ProbeFails, Begin, vars

LEMMA NextParents ==
    ASSUME IInv, Apart, Tended, [Next]_vars
    PROVE  Parents'
  <1>1. lapses \subseteq lapses' /\ MachineOK /\ Parents /\ \A t \in Threads : Claims(t)
    BY LapsesGrow, FileTypes DEF Tended
  <1>2. ASSUME NEW d \in Are("dog"), DogStep(d) PROVE Parents'
    BY <1>1, <1>2, DogParents
  <1>3. ASSUME RestDogs, Serving' \subseteq Serving PROVE Parents'
    BY <1>1, <1>3, RestParents
  <1>4. ASSUME NEW g \in Are("gateway"), Up(g) \/ End(g) PROVE Parents'
    <2>1. g \in Pids /\ proc[g] \in ProcessType /\ proc[g].kind = "gateway"
      BY <1>1, Running DEF Are, Is
    <2>2. RestDogs
      BY <1>1, <1>4, <2>1 DEF Up, End, RestDogs, Are, Is, Alive, MachineOK
    <2>3. Tame
      BY <1>4, <2>1, FileTypes DEF Up, End, Is, Tame, Firm, MachineOK, Alive, ProcessType
    <2>4. QED
      BY <1>1, <1>3, <2>2, <2>3, TameWanes DEF Waning
  <1>5. CASE Die
    <2>1. RestDogs
      BY <1>1, <1>5 DEF Die, Serving, RestDogs, Are, Is, Alive, MachineOK
    <2>2. Tame
      BY <1>5, FileTypes DEF Die, Serving, Are, Tame, Firm, MachineOK, Alive
    <2>3. QED
      BY <1>1, <1>3, <2>1, <2>2, TameWanes DEF Waning
  <1>6. CASE Reboot
    <2>1. Serving' = {}
      BY <1>6 DEF Reboot, Serving, Are, Is, Alive
    <2>2. QED
      BY <2>1 DEF Parents
  <1>7. CASE Stranger
    <2>1. /\ Fresh \in Pids /\ ~Alive(Fresh) /\ (\A p \in Pids \ {Fresh} : proc'[p] = proc[p])
          /\ proc'[Fresh].kind = "other"
      BY <1>1, <1>7, Born DEF Stranger
    <2>2. RestDogs
      BY <2>1 DEF RestDogs, Are, Is
    <2>3. Serving' \subseteq Serving
      BY <2>1 DEF Serving, Are, Is, Alive
    <2>4. QED
      BY <1>3, <2>2, <2>3
  <1>8. ASSUME UNCHANGED proc PROVE Parents'
    <2>1. RestDogs /\ Serving' \subseteq Serving
      BY <1>8 DEF RestDogs, Serving, Are, Is, Alive
    <2>2. QED
      BY <1>3, <2>1
  <1>9. ASSUME NEW t \in Threads, ThreadStep(t) PROVE Parents'
    BY <1>1, <1>9, ThreadParents DEF ThreadStep
  <1>10. ASSUME NEW t \in Threads, NEW op \in Ops, Cut(t) \/ ProbeFails(t) \/ Begin(t, op) PROVE Parents'
    BY <1>8, <1>10 DEF Cut, ProbeFails, Begin, machine
  <1>11. CASE UNCHANGED vars
    BY <1>8, <1>11 DEF vars, machine
  <1>12. ASSUME NEW t \in Threads, Cut(t) \/ ProbeFails(t) PROVE Parents'
    BY <1>8, <1>12 DEF Cut, ProbeFails, machine
  <1>13. QED
    BY <1>2, <1>4, <1>5, <1>6, <1>7, <1>9, <1>10, <1>11, <1>12 DEF Next

----------------------------------------------------------------------------
\* What the scripts rely on.

\* No new watchdog, and no lapse forgotten.
Ebb == Are("dog")' \subseteq Are("dog") /\ Firm /\ lapses \subseteq lapses'

LEMMA TameEbbs ==
    ASSUME MachineOK, Tame, lapses \subseteq lapses'
    PROVE  Ebb
  BY TameWanes DEF Waning, Tame, Ebb

LEMMA LaunchEbbs ==
    ASSUME MachineOK, NEW d \in Pids, Launch(d)
    PROVE  Ebb
  <1>1. /\ \A p \in Pids \ {Fresh, d} : proc'[p] = proc[p]
        /\ proc'[Fresh] = Process("gateway") /\ ~Alive(Fresh) /\ Is(d, "dog") /\ ~proc[d].termed /\ lapses' = lapses
    BY LaunchBears DEF Launch
  <1>2. proc'[Fresh].kind = "gateway"
    BY <1>1 DEF Process
  <1>3. Are("dog")' \subseteq Are("dog")
    BY <1>1, <1>2 DEF Are, Is, Alive
  <1>4. \A p \in Pids : p # Fresh /\ p # d /\ proc[p].termed => proc'[p].termed
    BY <1>1
  <1>5. Firm
    BY <1>1, <1>4 DEF Firm
  <1>6. QED
    BY <1>1, <1>3, <1>5 DEF Ebb

LEMMA EbbClaims ==
    ASSUME NEW u \in Threads, Claims(u), Ebb, container = "none" => container' = "none",
           thr'[u] = thr[u] \/ Survives(u), Changing(u) \/ ~Changing(u)'
    PROVE  Claims(u)'
  <1>0. thr'[u].at = thr[u].at /\ thr'[u].fix = thr[u].fix /\ thr'[u].dog = thr[u].dog
    BY DEF Survives
  <1>1. \A p : Is(p, "dog")' => Is(p, "dog") /\ (proc[p].termed => proc'[p].termed)
    BY DEF Ebb, Firm, Are, Is, Alive
  <1>2. Are("dog")' \subseteq Are("dog") /\ lapses \subseteq lapses'
    BY DEF Ebb
  <1>3. \A S : Free(S)' => Free(S)
    BY <1>2 DEF Free
  <1>4. Is(thr[u].dog, "dog")' => Is(thr[u].dog, "dog") /\ (proc[thr[u].dog].termed => proc'[thr[u].dog].termed)
    BY <1>0, <1>1 DEF Is, Alive
  <1>5. Stopped(u)' => Stopped(u)
    BY <1>0 DEF Stopped, Survives, At
  <1>6. Changing(u)' => Changing(u)
    BY DEF Changing
  <1>7. ASSUME Free({"overlap"})'
        PROVE  /\ thr[u].at \in Bare => Are("dog")' = {}
               /\ thr[u].at \in Caught => Are("dog")' \subseteq {thr[u].dog}
               /\ thr[u].at \in Boxless => container' = "none"
               /\ thr[u].at = "boxGatewayLate" => ~Is(thr[u].dog, "dog")'
               /\ thr[u].at = "boxDogLate" /\ Is(thr[u].dog, "dog")' => proc'[thr[u].dog].termed
               /\ thr[u].fix # None /\ Finds[thr[u].at][1] = "dog" /\ (Changing(u)' \/ Free({"probe"})') =>
                      Are("dog")' \subseteq {thr[u].fix}
    <2>1. Free({"overlap"})
      BY <1>3, <1>7
    <2>2. Free({"probe"})' => Free({"probe"})
      BY <1>3
    <2>3. QED
      BY <1>2, <1>4, <1>6, <2>1, <2>2 DEF Claims
  <1>8. ASSUME Free({"overlap", "slip", "probe"})'
        PROVE  /\ thr[u].at \in {"boxCheck", "boxRun", "boxStopGateway", "boxStopDog"} => Are("dog")' = {}
               /\ thr[u].at = "boxDogLate" => Are("dog")' \subseteq {thr[u].dog}
               /\ Stopped(u)' /\ Free({"skip"})' => container' = "none" /\ Are("dog")' = {}
    <2>1. Free({"overlap", "slip", "probe"}) /\ (Free({"skip"})' => Free({"skip"}))
      BY <1>3, <1>8
    <2>2. QED
      BY <1>2, <1>5, <2>1 DEF Claims
  <1>9. QED
    BY <1>0, <1>7, <1>8 DEF Claims

\* The places at which a script relies on something.
Relying == Bare \cup Caught \cup Boxless \cup {"boxGatewayLate", "boxDogLate", "boxCheck", "boxRun", "stopped"}

LEMMA NoClaims ==
    ASSUME NEW u \in Threads, thr'[u].fix = None, thr'[u].at \notin Relying
    PROVE  Claims(u)'
  BY DEF Claims, Relying, Stopped, At, Boxless

\* A script that relies on something is active, and changes something unless it only looks.
LEMMA RelyingActive ==
    ASSUME IInv, Orderly, NEW u \in Threads
    PROVE  /\ thr[u].at \in Relying \ {"stopped"} => Changing(u)
           /\ Stopped(u) => Changing(u)
           /\ thr[u].fix # None => Active(u)
  <1>1. Coherent(u) /\ (thr[u].fix # None => thr[u].at \in DOMAIN Finds)
    BY DEF Orderly, IInv, Keeps
  <1>2. thr[u].at \in Relying \ {"stopped"} => Orphaned(u) \/ Starting(u) \/ Halting(u)
    BY <1>1 DEF Coherent, Resting, Probing, Handling, Relying, Bare, Caught, Boxless, HostStart, HostProbe
  <1>3. thr[u].at \in DOMAIN Finds => Orphaned(u) \/ Starting(u) \/ Halting(u) \/ Probing(u)
    BY <1>1, FindsDomain DEF Coherent, Resting, Handling
  <1>4. (Orphaned(u) \/ Starting(u) \/ Halting(u) => Changing(u)) /\ (Probing(u) => Active(u))
    BY LifecycleAssumption DEF Orphaned, Starting, Halting, Probing, Changing, Active, Ops, Scripts
  <1>5. Stopped(u) => Changing(u)
    BY LifecycleAssumption DEF Stopped, Changing, Ops, Scripts
  <1>6. QED
    BY <1>1, <1>2, <1>3, <1>4, <1>5 DEF Changing, Active

\* Beside a thread that changes something, nobody relies on anything that no lapse excuses.
LEMMA LonelyClaims ==
    ASSUME IInv, Orderly, NEW t \in Threads, Changing(t), NEW u \in Threads, u # t, thr'[u] = thr[u], lapses \subseteq lapses'
    PROVE  Claims(u)'
  <1>1. Alone(t, u) /\ (Changing(u) => Active(u))
    BY DEF Orderly, Changing, Active
  <1>2. /\ thr[u].at \in Relying \ {"stopped"} => Changing(u)
        /\ Stopped(u) => Changing(u)
        /\ thr[u].fix # None => Active(u)
    BY RelyingActive
  <1>3. Changing(u) => ~Free({"overlap"})' /\ ~Free({"overlap", "slip", "probe"})'
    BY <1>1 DEF Alone, Free
  <1>4. Active(u) /\ ~Changing(u) => ~Free({"probe"})'
    BY <1>1 DEF Alone, Free
  <1>5. (Stopped(u)' => Stopped(u)) /\ (Changing(u)' => Changing(u))
    BY DEF Stopped, At, Changing
  <1>6. CASE Changing(u)
    BY <1>3, <1>6 DEF Claims
  <1>7. CASE ~Changing(u)
    <2>1. thr[u].at \notin Relying \ {"stopped"} /\ ~Stopped(u)' /\ ~Changing(u)' /\ (thr[u].fix # None => ~Free({"probe"})')
      BY <1>2, <1>4, <1>5, <1>7
    <2>2. /\ thr[u].at \notin Bare \cup Caught \cup Boxless
          /\ thr[u].at \notin {"boxGatewayLate", "boxDogLate", "boxCheck", "boxRun", "boxStopGateway", "boxStopDog"}
      BY <2>1 DEF Relying, Bare, Caught, Boxless, HostStart
    <2>3. QED
      BY <2>1, <2>2 DEF Claims
  <1>8. QED
    BY <1>6, <1>7

LEMMA FoundClaims ==
    ASSUME IInv, Orderly, NEW t \in Threads, Claims(t), thr[t].at \in DOMAIN Finds, NEW p \in 0..MaxPid, Found(t, p),
           UNCHANGED <<proc, used, container, lapses>>,
           Finds[thr[t].at][1] = "dog" /\ Free({"overlap"}) /\ (Changing(t) \/ Free({"probe"})) => Are("dog") \subseteq {p}
    PROVE  Claims(t)'
  <1>1. /\ thr'[t].fix = None /\ thr'[t].op = thr[t].op /\ thr'[t].stage = thr[t].stage
        /\ thr'[t].at = (IF p = 0 THEN Finds[thr[t].at][3] ELSE Finds[thr[t].at][2])
        /\ thr'[t].dog = (IF At(t, "stopFindDog") THEN p ELSE thr[t].dog)
    BY FoundMoves DEF GoesOn
  <1>2. /\ thr'[t].at \in Bare => thr[t].at = "startWatched" /\ p = 0
        /\ thr'[t].at \in Caught => \/ thr[t].at = "stopFindDog"
                                    \/ thr[t].at = "stopFindGateway"
        /\ thr'[t].at \in Boxless => thr[t].at \in Boxless
        /\ thr'[t].at = "stopped" => thr[t].at = "statusDog"
        /\ thr'[t].at \notin {"boxGatewayLate", "boxDogLate", "boxCheck", "boxRun", "boxStopGateway", "boxStopDog"}
    BY <1>1, FindsDomain DEF Finds, Bare, Caught, Boxless, HostStart
  <1>3. Coherent(t)
    BY DEF Orderly
  <1>4. thr[t].at \in {"startWatched", "stopFindDog"} => Changing(t)
    BY <1>3, LifecycleAssumption
       DEF Coherent, Resting, Orphaned, Starting, Halting, Probing, Handling, Changing, Ops, Scripts, HostStart, HostStop, HostProbe,
           BoxStart, BoxHalt
  <1>5. ~Stopped(t)'
    BY <1>1, <1>2, <1>3, LifecycleAssumption
       DEF Coherent, Resting, Orphaned, Starting, Halting, Probing, Handling, Stopped, At, Ops, Scripts, HostStart, HostStop, HostProbe,
           BoxStart, BoxHalt
  <1>6. ASSUME Free({"overlap"})'
        PROVE  /\ thr'[t].at \in Bare => Are("dog")' = {}
               /\ thr'[t].at \in Caught => Are("dog")' \subseteq {thr'[t].dog}
               /\ thr'[t].at \in Boxless => container' = "none"
    <2>1. Free({"overlap"}) /\ Are("dog")' = Are("dog")
      BY <1>6 DEF Free, Are, Is, Alive
    <2>2. thr'[t].at \in Bare => Are("dog") = {}
      <3>1. thr'[t].at \in Bare => Are("dog") \subseteq {0} /\ Are("dog") \subseteq Pids /\ 0 \notin Pids
        BY <1>2, <1>4, <2>1 DEF Finds, Are, Pids
      <3>2. QED
        BY <3>1
    <2>3. thr'[t].at \in Caught => Are("dog") \subseteq {thr'[t].dog}
      <3>1. CASE thr[t].at = "stopFindDog"
        BY <1>1, <1>4, <2>1, <3>1 DEF Finds, At
      <3>2. CASE thr[t].at = "stopFindGateway"
        BY <1>1, <2>1, <3>2 DEF At, Claims, Caught
      <3>3. QED
        BY <1>2, <3>1, <3>2
    <2>4. thr'[t].at \in Boxless => container' = "none"
      BY <1>2, <2>1 DEF Claims
    <2>5. QED
      BY <2>1, <2>2, <2>3, <2>4
  <1>7. QED
    BY <1>1, <1>2, <1>5, <1>6 DEF Claims

LEMMA LookClaims ==
    ASSUME IInv, Orderly, OneDog, NEW t \in Threads, Claims(t), Look(t)
    PROVE  Claims(t)'
  <1> DEFINE kind == Finds[thr[t].at][1]
  <1>1. /\ thr[t].at \in DOMAIN Finds /\ thr[t].fix = None /\ UNCHANGED <<proc, used, container, lapses>>
        /\ Are("dog")' = Are("dog")
    BY DEF Look, machine, box, Are, Is, Alive
  <1>2. CASE Trusted(kind, FileOf(kind)) /\ FileOf(kind) \in 0..MaxPid /\ Found(t, FileOf(kind))
    <2>1. kind = "dog" /\ Free({"overlap"}) => Are("dog") \subseteq {FileOf(kind)}
      BY <1>2 DEF OneDog, Trusted, Are, Is, Alive
    <2>2. QED
      BY <1>1, <1>2, <2>1, FoundClaims
  <1>3. CASE /\ Moves(t) /\ GoesOn(t) /\ thr'[t].at = thr[t].at /\ thr'[t].dog = thr[t].dog
             /\ IF Are(kind) = {} THEN thr'[t].fix = 0 ELSE thr'[t].fix \in Are(kind)
    <2>1. kind = "dog" /\ Free({"overlap"}) => Are("dog") \subseteq {thr'[t].fix}
      BY <1>3 DEF OneDog
    <2>2. \A S : Free(S)' <=> Free(S)
      BY <1>1 DEF Free
    <2>3. Stopped(t)' <=> Stopped(t)
      BY <1>3 DEF Stopped, At, GoesOn
    <2>4. Is(thr[t].dog, "dog")' <=> Is(thr[t].dog, "dog")
      BY <1>1, <1>3 DEF Is, Alive
    <2>5. ASSUME Free({"overlap"})'
          PROVE  /\ thr'[t].at \in Bare => Are("dog")' = {}
                 /\ thr'[t].at \in Caught => Are("dog")' \subseteq {thr'[t].dog}
                 /\ thr'[t].at \in Boxless => container' = "none"
      BY <1>1, <1>3, <2>2, <2>5 DEF Claims
    <2>6. /\ thr'[t].at \notin {"boxGatewayLate", "boxDogLate", "boxCheck", "boxRun", "boxStopGateway", "boxStopDog", "stopped"}
      BY <1>1, <1>3, FindsDomain
    <2>7. ~Stopped(t)'
      BY <2>6 DEF Stopped, At
    <2>8. Free({"overlap"})' /\ Finds[thr'[t].at][1] = "dog" => Are("dog")' \subseteq {thr'[t].fix}
      BY <1>1, <1>3, <2>1, <2>2
    <2>9. QED
      BY <2>5, <2>6, <2>7, <2>8 DEF Claims
  <1>4. QED
    BY <1>2, <1>3, LookMoves

LEMMA FixClaims ==
    ASSUME IInv, Orderly, NEW t \in Threads, Claims(t), Fix(t)
    PROVE  Claims(t)'
  <1>1. /\ thr[t].at \in DOMAIN Finds /\ thr[t].fix \in 0..MaxPid /\ thr[t].fix # None /\ Found(t, thr[t].fix)
        /\ UNCHANGED <<proc, used, container, lapses>>
    BY DEF Fix, IInv, Keeps, TypeOK, RequestType, machine, box
  <1>2. Finds[thr[t].at][1] = "dog" /\ Free({"overlap"}) /\ (Changing(t) \/ Free({"probe"})) => Are("dog") \subseteq {thr[t].fix}
    BY <1>1 DEF Claims
  <1>3. QED
    BY <1>1, <1>2, FoundClaims

\* A script goes from a place to the next, and relies there on what it relied on, or has just made so.
LEMMA StepsClaim ==
    ASSUME IInv, NEW t \in Threads, NEW l \in Places, Steps(t, l), thr[t].fix = None, Claims(t),
           Are("dog")' \subseteq Are("dog"), lapses \subseteq lapses',
           Free({"overlap"}) /\ l \in Bare => Are("dog")' = {},
           Free({"overlap"}) /\ l \in Caught => Are("dog")' \subseteq {thr[t].dog},
           Free({"overlap"}) /\ l \in Boxless => container' = "none",
           Free({"overlap", "slip", "probe"}) /\ l \in {"boxCheck", "boxRun", "boxStopGateway", "boxStopDog"} => Are("dog")' = {},
           Free({"overlap", "slip", "probe"}) /\ l = "stopped" => container' = "none" /\ Are("dog")' = {},
           l \notin {"boxGatewayLate", "boxDogLate"}
    PROVE  Claims(t)'
  <1>1. thr'[t].at = l /\ thr'[t].fix = None /\ thr'[t].dog = thr[t].dog
    BY DEF Steps
  <1>2. (Free({"overlap"})' => Free({"overlap"})) /\ (Free({"overlap", "slip", "probe"})' => Free({"overlap", "slip", "probe"}))
    BY DEF Free
  <1>3. Stopped(t)' => l = "stopped"
    BY <1>1 DEF Stopped, At
  <1>4. QED
    BY <1>1, <1>2, <1>3 DEF Claims

\* No watchdog is left out of the file when nobody else launches one.
LEMMA FileKnows ==
    ASSUME IInv, Orderly, Known, NEW t \in Threads, Changing(t), thr[t].at # "startNote", Free({"overlap", "slip", "probe"})
    PROVE  Are("dog") \subseteq {dogfile}
  <1>1. SUFFICES ASSUME NEW d \in Are("dog"), d # dogfile PROVE FALSE
    OBVIOUS
  <1>2. PICK u \in Threads : thr[u].at = "startNote"
    BY <1>1 DEF Known, Noting
  <1>3. Changing(u) /\ Active(u) /\ u # t /\ Alone(t, u)
    BY <1>2, RelyingActive DEF Relying, Caught, Orderly, Changing, Active
  <1>4. QED
    BY <1>3 DEF Alone, Free

LEMMA HostClaims ==
    ASSUME IInv, Orderly, Tended, NEW t \in Threads, HostScript(t)
    PROVE  Claims(t)'
  <1>0. Claims(t) /\ OneDog /\ Known /\ lapses' = lapses
    BY DEF Tended, HostScript, Look, Fix, StartRemove, StartClear, StartLaunch, StartNote, GiveUp, StopAny, StopFallback,
           StopSignalDog, StopSignalGateway, StopAwaitGateway, StopAwaitDog, StopForget, StopClear
  <1>1. CASE Look(t) \/ Fix(t)
    BY <1>0, <1>1, LookClaims, FixClaims
  <1>2. CASE StartLaunch(t)
    <2>1. thr[t].at = "startLaunch" /\ thr'[t].at = "startNote" /\ thr'[t].fix = None /\ thr'[t].dog = Fresh /\ container' = container
      BY <1>2, LaunchMoves DEF StartLaunch, box
    <2>2. /\ Fresh \in Pids /\ ~Alive(Fresh) /\ \A p \in Pids \ {Fresh} : proc'[p] = proc[p]
      BY <1>2, FileTypes, Born DEF StartLaunch
    <2>3. Are("dog")' \subseteq Are("dog") \cup {Fresh}
      BY <2>2 DEF Are, Is, Alive
    <2>4. Free({"overlap"}) => Are("dog") = {} /\ container = "none"
      BY <1>0, <2>1 DEF Claims, Bare, Boxless, HostStart
    <2>5. (Free({"overlap"})' => Free({"overlap"})) /\ ~Stopped(t)'
      BY <1>0, <2>1 DEF Free, Stopped, At
    <2>6. QED
      BY <2>1, <2>3, <2>4, <2>5 DEF Claims, Bare
  <1>3. CASE StopFallback(t)
    <2>1. /\ thr[t].at = "stopFallback" /\ thr'[t].at = "stopSignalDog" /\ thr'[t].fix = None /\ thr'[t].dog = thr[t].dog
          /\ Are("dog")' = Are("dog")
      BY <1>3, FallbackMoves DEF StopFallback, machine, Are, Is, Alive
    <2>2. (Free({"overlap"})' => Free({"overlap"})) /\ ~Stopped(t)'
      BY <1>0, <2>1 DEF Free, Stopped, At
    <2>3. QED
      BY <1>0, <2>1, <2>2 DEF Claims, Caught, Bare, Boxless, HostStart
  <1>4. CASE \/ StartRemove(t) \/ StartClear(t) \/ StartNote(t) \/ GiveUp(t) \/ StopAny(t) \/ StopSignalDog(t)
             \/ StopSignalGateway(t) \/ StopAwaitGateway(t) \/ StopAwaitDog(t) \/ StopForget(t) \/ StopClear(t)
    <2>1. thr[t].fix = None /\ ~StartLaunch(t)
      BY <1>4, NoFix, FindsDomain
         DEF StartRemove, StartClear, StartNote, GiveUp, StopAny, StopSignalDog, StopSignalGateway, StopAwaitGateway,
             StopAwaitDog, StopForget, StopClear, At, StartLaunch
    <2>2. Are("dog")' \subseteq Are("dog")
      BY <1>4, <2>1, FileTypes, ThreadTame, TameWanes DEF HostScript, Waning
    <2>3. ASSUME NEW l \in Places, Goto(t, l),
                 Free({"overlap"}) /\ l \in Bare => Are("dog")' = {},
                 Free({"overlap"}) /\ l \in Caught => Are("dog")' \subseteq {thr[t].dog},
                 Free({"overlap"}) /\ l \in Boxless => container' = "none",
                 Free({"overlap", "slip", "probe"}) /\ l = "stopped" => container' = "none" /\ Are("dog")' = {},
                 l \notin {"boxCheck", "boxRun", "boxStopGateway", "boxStopDog", "boxGatewayLate", "boxDogLate"}
          PROVE  Claims(t)'
      BY <1>0, <2>1, <2>2, <2>3, GotoSteps, StepsClaim
    <2>4. CASE StartRemove(t)
      BY <2>3, <2>4 DEF StartRemove, RemoveBox, Places, Finds, Bare, Caught
    <2>5. CASE StartClear(t)
      BY <1>0, <2>2, <2>3, <2>5 DEF StartClear, At, box, Places, Claims, Bare, Caught, Boxless, HostStart
    <2>6. CASE StartNote(t) \/ GiveUp(t)
      BY <1>0, <2>3, <2>6, FindsDomain DEF StartNote, GiveUp, At, box, Places, Claims, Bare, Caught, Boxless, HostStart
    <2>7. CASE StopAny(t)
      <3>1. CASE pidfile = 0 /\ dogfile = 0
        <4>1. Changing(t) /\ thr[t].at # "startNote"
          <5>1. thr[t].at = "stopAny" /\ Coherent(t)
            BY <2>7 DEF StopAny, At, Orderly
          <5>2. Halting(t) \/ Orphaned(t)
            BY <5>1 DEF Coherent, Resting, Starting, Probing, Handling, HostStart, BoxStart, HostProbe
          <5>3. QED
            BY <5>1, <5>2, LifecycleAssumption DEF Halting, Orphaned, Changing, Ops, Scripts
        <4>2. Free({"overlap", "slip", "probe"}) => Are("dog") = {}
          <5>1. Free({"overlap", "slip", "probe"}) => Are("dog") \subseteq {0} /\ Are("dog") \subseteq Pids /\ 0 \notin Pids
            BY <1>0, <3>1, <4>1, FileKnows DEF Are, Pids
          <5>2. QED
            BY <5>1
        <4>3. QED
          BY <2>2, <2>3, <2>7, <3>1, <4>2 DEF StopAny, RemoveBox, Places, Outcomes, Bare, Caught, Boxless, HostStart
      <3>2. CASE ~(pidfile = 0 /\ dogfile = 0)
        BY <2>3, <2>7, <3>2, FindsDomain DEF StopAny, Places, Bare, Caught, Boxless, HostStart
      <3>3. QED
        BY <3>1, <3>2
    <2>8. CASE StopSignalDog(t) \/ StopSignalGateway(t) \/ StopAwaitGateway(t)
      BY <1>0, <2>2, <2>3, <2>8
         DEF StopSignalDog, StopSignalGateway, StopAwaitGateway, At, Places, Claims, Bare, Caught, Boxless, HostStart
    <2>9. CASE StopAwaitDog(t)
      <3>1. Free({"overlap"}) => Are("dog") = {}
        BY <1>0, <2>9 DEF StopAwaitDog, At, Claims, Caught, Are, Is
      <3>2. QED
        BY <2>2, <2>3, <2>9, <3>1 DEF StopAwaitDog, Places, Bare, Caught, Boxless, HostStart
    <2>10. CASE StopForget(t)
      BY <1>0, <2>2, <2>3, <2>10 DEF StopForget, At, Places, Claims, Bare, Caught, Boxless, HostStart
    <2>11. CASE StopClear(t)
      <3>1. Free({"overlap", "slip", "probe"}) => Are("dog") = {}
        BY <1>0, <2>11 DEF StopClear, At, Claims, Bare, Free
      <3>2. QED
        BY <2>2, <2>3, <2>11, <3>1 DEF StopClear, RemoveBox, Places, Outcomes, Bare, Caught, Boxless, HostStart
    <2>12. QED
      BY <1>4, <2>4, <2>5, <2>6, <2>7, <2>8, <2>9, <2>10, <2>11
  <1>5. QED
    BY <1>1, <1>2, <1>3, <1>4 DEF HostScript

LEMMA BoxClaims ==
    ASSUME IInv, Orderly, Apart, Tended, NEW t \in Threads, BoxScript(t)
    PROVE  Claims(t)'
  <1>0. Claims(t) /\ BoxAlone /\ Known /\ lapses \subseteq lapses' /\ MachineOK /\ Tame
    <2>1. ~StartLaunch(t)
      BY FindsDomain DEF BoxScript, BoxSignal, BoxKill, BoxCheck, BoxRun, BoxStop, BoxStopGateway, BoxStopDog, BoxStatus, StartLaunch, At
    <2>2. Tame
      BY <2>1, ThreadTame
    <2>3. lapses \subseteq lapses'
      BY DEF BoxScript, BoxSignal, BoxKill, BoxCheck, BoxRun, BoxStop, BoxStopGateway, BoxStopDog, BoxStatus
    <2>4. QED
      BY <2>2, <2>3, FileTypes DEF Tended
  <1>1. Are("dog")' \subseteq Are("dog")
    BY <1>0, TameWanes DEF Waning
  <1>2. (thr[t].fix = None /\ Changing(t)) \/ At(t, "boxStatus")
    <2>1. thr[t].at \in BoxPlaces /\ thr[t].at \notin DOMAIN Finds
      BY FindsDomain
         DEF BoxScript, BoxSignal, BoxKill, BoxCheck, BoxRun, BoxStop, BoxStopGateway, BoxStopDog, BoxStatus, At, BoxPlaces, BoxStart,
             BoxHalt
    <2>2. Coherent(t) /\ thr[t].fix = None
      BY <2>1, NoFix DEF Orderly
    <2>3. Orphaned(t) \/ Starting(t) \/ Halting(t) => Changing(t)
      BY LifecycleAssumption DEF Orphaned, Starting, Halting, Changing, Ops, Scripts
    <2>4. Orphaned(t) \/ Starting(t) \/ Halting(t) \/ At(t, "boxStatus")
      BY <2>1, <2>2 DEF Coherent, Resting, Probing, Handling, HostProbe, BoxPlaces, BoxStart, BoxHalt, At
    <2>5. QED
      BY <2>2, <2>3, <2>4
  <1>3. CASE BoxSignal(t, "boxGateway", "gateway", "boxGatewayLate")
    <2>1. thr'[t].at = "boxGatewayLate" /\ thr'[t].fix = None /\ thr'[t].dog = FileOf("gateway")
      BY <1>3, BoxSignalMoves, FindsDomain
    <2>2. FileOf("gateway") = pidfile
      BY DEF FileOf
    <2>3. pidfile \notin Are("dog")' /\ thr'[t].dog = pidfile
      BY <1>1, <2>1, <2>2 DEF Apart, Are, Is, Alive
    <2>4. ~Is(thr[t].dog, "dog")'
      BY <2>3 DEF Are, Is, Alive
    <2>5. QED
      BY <2>1, <2>4 DEF Claims, Bare, Caught, Boxless, HostStart, Stopped, At
  <1>4. CASE BoxSignal(t, "boxDog", "dog", "boxDogLate")
    <2>1. /\ thr[t].at = "boxDog" /\ thr'[t].at = "boxDogLate" /\ thr'[t].fix = None /\ thr'[t].dog = FileOf("dog")
          /\ Signal(dogfile, "sandbox") /\ lapses' = lapses /\ FileOf("dog") = dogfile
      BY <1>4, BoxSignalMoves, FindsDomain DEF BoxSignal, FileOf
    <2>2. Free({"overlap", "slip", "probe"})' => Are("dog")' \subseteq {thr'[t].dog}
      BY <1>1, <1>2, <2>1, <1>0, FileKnows DEF Free, At
    <2>3. Is(dogfile, "dog") => proc'[dogfile] = None \/ proc'[dogfile].termed
      <3>1. SUFFICES ASSUME Is(dogfile, "dog") PROVE proc'[dogfile] = None \/ proc'[dogfile].termed
        OBVIOUS
      <3>2. dogfile \in Pids /\ proc[dogfile] \in ProcessType /\ proc' = Termed(proc, dogfile) /\ proc \in [Pids -> ProcessType \cup {None}]
        BY <1>0, <2>1, <3>1, Running DEF Signal, Is, MachineOK
      <3>3. QED
        BY <3>2 DEF Termed, ProcessType
    <2>4. Is(dogfile, "dog")' => proc'[dogfile].termed
      <3>1. UNCHANGED dogfile
        BY <1>4 DEF BoxSignal, files
      <3>2. Is(dogfile, "dog")' => dogfile \in Are("dog") /\ proc'[dogfile] # None
        BY <1>1, <3>1 DEF Are, Is, Alive
      <3>3. QED
        BY <2>3, <3>1, <3>2 DEF Are
    <2>5. Is(thr[t].dog, "dog")' => proc'[thr'[t].dog].termed
      <3>1. UNCHANGED dogfile
        BY <1>4 DEF BoxSignal, files
      <3>2. QED
        BY <2>1, <2>4, <3>1 DEF Is, Alive
    <2>6. QED
      BY <2>1, <2>2, <2>5 DEF Claims, Bare, Caught, Boxless, HostStart, Stopped, At
  <1>5. ASSUME NEW l \in Places, thr[t].fix = None, Goto(t, l),
               Free({"overlap"}) /\ l \in Boxless => container' = "none",
               Free({"overlap", "slip", "probe"}) /\ l \in {"boxCheck", "boxRun", "boxStopGateway", "boxStopDog"} => Are("dog")' = {},
               Free({"overlap", "slip", "probe"}) /\ l = "stopped" => container' = "none" /\ Are("dog")' = {},
               l \notin Bare \cup Caught \cup {"boxGatewayLate", "boxDogLate"}
        PROVE  Claims(t)'
    BY <1>0, <1>1, <1>5, GotoSteps, StepsClaim
  <1>6. ~BoxStatus(t) /\ ~At(t, "boxStatus") => thr[t].fix = None
    BY <1>2
  <1>7. CASE BoxKill(t, "boxGatewayLate", "gateway", "boxDog")
    BY <1>5, <1>6, <1>7 DEF BoxKill, At, BoxStatus, Places, Bare, Caught, Boxless, HostStart
  <1>8. CASE BoxKill(t, "boxDogLate", "dog", "boxCheck")
    <2>1. Free({"overlap", "slip", "probe"}) => Are("dog") \subseteq {thr[t].dog}
      BY <1>0, <1>8 DEF BoxKill, At, Claims
    <2>2. Destroy(thr[t].dog)
      BY <1>8 DEF BoxKill
    <2>3. thr[t].dog \notin Are("dog")'
      BY <1>0, <2>2 DEF Destroy, Are, Is, Alive, MachineOK
    <2>4. Free({"overlap", "slip", "probe"}) => Are("dog")' = {}
      BY <1>1, <2>1, <2>3
    <2>5. QED
      BY <1>5, <1>6, <1>8, <2>4 DEF BoxKill, At, BoxStatus, Places, Bare, Caught, Boxless, HostStart
  <1>9. CASE BoxCheck(t) \/ BoxRun(t)
    <2>1. CASE BoxCheck(t)
      <3>1. Free({"overlap", "slip", "probe"}) => Are("dog")' = {}
        BY <1>0, <1>1, <2>1 DEF BoxCheck, At, Claims
      <3>2. QED
        BY <1>5, <1>6, <2>1, <3>1 DEF BoxCheck, At, BoxStatus, Places, Outcomes, Bare, Caught, Boxless, HostStart
    <2>2. CASE BoxRun(t)
      BY <1>5, <1>6, <2>2 DEF BoxRun, At, BoxStatus, Places, Outcomes, Bare, Caught, Boxless, HostStart
    <2>3. QED
      BY <1>9, <2>1, <2>2
  <1>10. CASE BoxStop(t)
    <2>1. thr[t].fix = None /\ container' = "none" /\ At(t, "boxStop")
      BY <1>6, <1>10 DEF BoxStop, At, BoxStatus, RemoveBox
    <2>2. CASE container = "none"
      <3>1. Goto(t, "stopped") /\ "skip" \in lapses'
        BY <1>10, <2>2 DEF BoxStop
      <3>2. thr'[t].at = "stopped" /\ thr'[t].fix = None
        BY <2>1, <3>1, GotoSteps DEF Steps, Places, Outcomes
      <3>3. QED
        BY <3>1, <3>2 DEF Claims, Bare, Caught, Boxless, HostStart, Free
    <2>3. CASE container # "none"
      <3>1. Goto(t, "boxStopGateway")
        BY <1>10, <2>3 DEF BoxStop
      <3>2. Free({"overlap", "slip", "probe"}) => Are("dog")' = {}
        BY <1>0, <1>1, <2>3 DEF BoxAlone
      <3>3. QED
        BY <1>5, <2>1, <3>1, <3>2 DEF Places, Bare, Caught
    <2>4. QED
      BY <2>2, <2>3
  <1>11. CASE BoxStopGateway(t)
    <2>1. thr[t].fix = None /\ At(t, "boxStopGateway") /\ Goto(t, "boxStopDog") /\ container' = container
      BY <1>6, <1>11 DEF BoxStopGateway, At, BoxStatus, box
    <2>2. Free({"overlap", "slip", "probe"}) => Are("dog")' = {}
      BY <1>0, <1>1, <2>1 DEF Claims, At
    <2>3. Free({"overlap"}) => container = "none"
      BY <1>0, <2>1 DEF Claims, At, Boxless
    <2>4. QED
      BY <1>5, <2>1, <2>2, <2>3 DEF Places, Bare, Caught
  <1>12. CASE BoxStopDog(t)
    <2>1. thr[t].fix = None /\ At(t, "boxStopDog") /\ Goto(t, "stopped") /\ container' = container
      BY <1>6, <1>12 DEF BoxStopDog, At, BoxStatus, box
    <2>2. Free({"overlap", "slip", "probe"}) => Are("dog")' = {} /\ Free({"overlap"})
      BY <1>0, <1>1, <2>1 DEF Claims, At, Free
    <2>3. Free({"overlap"}) => container = "none"
      BY <1>0, <2>1 DEF Claims, At, Boxless
    <2>4. QED
      BY <1>5, <2>1, <2>2, <2>3 DEF Places, Outcomes, Bare, Caught, Boxless, HostStart
  <1>13. CASE BoxStatus(t)
    <2>1. thr[t].at = "boxStatus" /\ thr[t].fix = None
      BY <1>13, NoFix, FindsDomain DEF BoxStatus, At
    <2>2. Probing(t)
      BY <2>1 DEF Orderly, Coherent, Resting, Orphaned, Starting, Halting, Handling, HostStart, HostStop, BoxStart, BoxHalt
    <2>3. PICK l \in {"running", "stopped"} : Goto(t, l)
      BY <1>13 DEF BoxStatus
    <2>4. thr'[t].at = l /\ thr'[t].fix = None /\ thr'[t].op = thr[t].op /\ thr'[t].stage = thr[t].stage
      BY <2>1, <2>3, GotoSteps DEF Steps, GoesOn, Places, Outcomes
    <2>5. ~Stopped(t)'
      BY <2>2, <2>4 DEF Probing, Stopped
    <2>6. QED
      BY <2>4, <2>5 DEF Claims, Bare, Caught, Boxless, HostStart
  <1>14. QED
    BY <1>3, <1>4, <1>7, <1>8, <1>9, <1>10, <1>11, <1>12, <1>13 DEF BoxScript

LEMMA HandlerMoves ==
    ASSUME IInv, NEW t \in Threads, Handler(t)
    PROVE  Moves(t) /\ thr'[t].fix = None /\ thr'[t].at \notin Relying \cup {"stopFindDog", "started", "already", "failed"}
  <1>1. CASE Checked(t) \/ Restarting(t)
    BY <1>1, CheckedMoves, RestartMoves, EntryPlaces, IdleType DEF Relying, Bare, Caught, Boxless, HostStart
  <1>2. CASE ~Checked(t) /\ ~Restarting(t)
    <2>1. (Return(t) \/ \E l \in {"reconcile", "deleteBox"} : Goto(t, l)) /\ (Return(t) \/ thr[t].at \notin DOMAIN Finds)
      BY <1>2, FindsDomain
         DEF Handler, Report, SaveConnector, Update, UpdateRaw, Reconcile, Reload, Delete, DeleteBox, Create, DockerEnds, At
    <2>2. CASE Return(t)
      BY <2>2, ReturnMoves, IdleType DEF Relying, Bare, Caught, Boxless, HostStart
    <2>3. CASE ~Return(t)
      BY <2>1, <2>3, NoFix, GotoSteps DEF Steps, Places, Relying, Bare, Caught, Boxless, HostStart
    <2>4. QED
      BY <2>2, <2>3
  <1>3. QED
    BY <1>1, <1>2

\* Only start.sh in host mode launches a watchdog, and only start.sh in sandbox mode a container.
LEMMA GatewayTame ==
    ASSUME MachineOK, NEW g \in Are("gateway"), Up(g) \/ End(g)
    PROVE  Tame
  <1>1. g \in Pids /\ proc[g] \in ProcessType
    BY Running DEF Are, Is
  <1>2. QED
    BY <1>1 DEF Up, End, Is, Tame, Firm, MachineOK, Alive, ProcessType

LEMMA NextEbbs ==
    ASSUME IInv, [Next]_vars, \A t \in Threads : ~StartLaunch(t)
    PROVE  Ebb
  <1>1. lapses \subseteq lapses' /\ MachineOK /\ Children
    BY LapsesGrow, FileTypes
  <1>2. ASSUME NEW d \in Are("dog"), DogStep(d) PROVE Ebb
    BY <1>1, <1>2, LaunchEbbs, DogTame, TameEbbs DEF DogStep, Are
  <1>3. ASSUME NEW g \in Are("gateway"), Up(g) \/ End(g) PROVE Ebb
    BY <1>1, <1>3, GatewayTame, TameEbbs
  <1>4. CASE Die
    <2>1. Tame
      BY <1>1, <1>4 DEF Die, Serving, Are, Tame, Firm, MachineOK, Alive
    <2>2. QED
      BY <1>1, <2>1, TameEbbs
  <1>5. CASE Reboot
    BY <1>1, <1>5 DEF Reboot, Ebb, Firm, Are, Is, Alive
  <1>6. CASE Stranger
    <2>1. /\ Fresh \in Pids /\ ~Alive(Fresh) /\ (\A p \in Pids \ {Fresh} : proc'[p] = proc[p])
          /\ proc'[Fresh].kind = "other"
      BY <1>1, <1>6, Born DEF Stranger
    <2>2. Are("dog")' \subseteq Are("dog")
      BY <2>1 DEF Are, Is, Alive
    <2>3. Firm
      BY <2>1 DEF Firm
    <2>4. QED
      BY <1>1, <2>2, <2>3 DEF Ebb
  <1>7. ASSUME NEW t \in Threads, ThreadStep(t) PROVE Ebb
    BY <1>1, <1>7, ThreadTame, TameEbbs DEF ThreadStep
  <1>8. ASSUME UNCHANGED machine PROVE Ebb
    BY <1>1, <1>8, SameMachine, TameEbbs
  <1>9. ASSUME NEW t \in Threads, Cut(t) \/ ProbeFails(t) PROVE Ebb
    BY <1>8, <1>9 DEF Cut, ProbeFails
  <1>10. ASSUME NEW t \in Threads, NEW op \in Ops, Begin(t, op) PROVE Ebb
    BY <1>8, <1>10 DEF Begin
  <1>11. CASE UNCHANGED vars
    BY <1>8, <1>11 DEF vars
  <1>12. QED
    BY <1>2, <1>3, <1>4, <1>5, <1>6, <1>7, <1>9, <1>10, <1>11 DEF Next

LEMMA NextBox ==
    ASSUME [Next]_vars, \A t \in Threads : ~BoxRun(t)
    PROVE  /\ container = "none" => container' = "none"
           /\ container # "running" => container' # "running"
  <1>1. ASSUME NEW t \in Threads, ThreadStep(t)
        PROVE  container' \in {container, "none"} \/ (container = "running" /\ container' = "exited")
    <2>1. CASE HostScript(t)
      BY <2>1 DEF HostScript, Look, Fix, StartRemove, StartClear, StartLaunch, StartNote, GiveUp, StopAny, StopFallback,
                  StopSignalDog, StopSignalGateway, StopAwaitGateway, StopAwaitDog, StopForget, StopClear, RemoveBox, box
    <2>2. CASE BoxScript(t)
      BY <2>2 DEF BoxScript, BoxSignal, BoxKill, BoxCheck, BoxStop, BoxStopGateway, BoxStopDog, BoxStatus, RemoveBox, box
    <2>3. CASE Handler(t)
      BY <2>3 DEF Handler, Checked, Restarting, Report, SaveConnector, Update, UpdateRaw, SaveMode, Reconcile,
                  Reload, Delete, DeleteBox, Create, DockerEnds, RemoveBox, box
    <2>4. QED
      BY <1>1, <2>1, <2>2, <2>3 DEF ThreadStep
  <1>2. QED
    BY <1>1 DEF Next, DogStep, Up, End, Die, Reboot, Stranger, Cut, ProbeFails, Begin, vars, box

LEMMA NoLaunch ==
    ASSUME IInv, NEW t \in Threads, thr'[t].at = thr[t].at \/ thr'[t].at \notin {"startNote", "failed", "started"}
    PROVE  ~StartLaunch(t) /\ ~BoxRun(t)
  <1>1. StartLaunch(t) => thr[t].at = "startLaunch" /\ thr'[t].at = "startNote"
    BY LaunchMoves
  <1>2. BoxRun(t) => thr[t].at = "boxRun" /\ thr'[t].at \in {"failed", "started"}
    BY GotoSteps DEF BoxRun, At, Steps, Places, Outcomes
  <1>3. QED
    BY <1>1, <1>2

LEMMA NextClaims ==
    ASSUME IInv, Orderly, Apart, Tended, [Next]_vars, NEW u \in Threads
    PROVE  Claims(u)'
  <1>1. Claims(u) /\ lapses \subseteq lapses'
    BY LapsesGrow DEF Tended
  <1>2. ASSUME thr'[u] = thr[u], \A t \in Threads : ~StartLaunch(t) /\ ~BoxRun(t)
        PROVE  Claims(u)'
    BY <1>1, <1>2, NextEbbs, NextBox, EbbClaims DEF Changing
  <1>3. ASSUME thr' = thr PROVE Claims(u)'
    <2>1. \A t \in Threads : ~StartLaunch(t) /\ ~BoxRun(t)
      BY <1>3, NoLaunch
    <2>2. QED
      BY <1>2, <1>3, <2>1
  <1>4. ASSUME NEW t \in Threads, ThreadStep(t) PROVE Claims(u)'
    <2>1. CASE u = t
      BY <1>4, <2>1, HostClaims, BoxClaims, HandlerMoves, NoClaims DEF ThreadStep
    <2>2. CASE u # t
      <3>1. thr'[u] = thr[u] /\ \A v \in Threads : v # t => thr'[v] = thr[v]
        BY <1>4, <2>2, HostScriptMoves, BoxScriptMoves, HandlerMoves DEF ThreadStep, ScriptMoves, Moves
      <3>2. CASE StartLaunch(t) \/ BoxRun(t)
        <4>1. thr[t].at \in Relying \ {"stopped"}
          BY <3>2 DEF StartLaunch, BoxRun, At, Relying, Bare
        <4>2. QED
          BY <1>1, <2>2, <3>1, <4>1, RelyingActive, LonelyClaims
      <3>3. CASE ~StartLaunch(t) /\ ~BoxRun(t)
        <4>1. \A v \in Threads : ~StartLaunch(v) /\ ~BoxRun(v)
          BY <3>1, <3>3, NoLaunch
        <4>2. QED
          BY <1>2, <3>1, <4>1
      <3>4. QED
        BY <3>2, <3>3
    <2>3. QED
      BY <2>1, <2>2
  <1>5. ASSUME NEW t \in Threads, Moves(t), thr'[t].fix = None,
               thr'[t].at \notin Relying \cup {"startNote", "failed", "started"}
        PROVE  Claims(u)'
    <2>1. \A v \in Threads : ~StartLaunch(v) /\ ~BoxRun(v)
      BY <1>5, NoLaunch DEF Moves
    <2>2. CASE u = t
      BY <1>5, <2>2, NoClaims
    <2>3. CASE u # t
      BY <1>2, <1>5, <2>1, <2>3 DEF Moves
    <2>4. QED
      BY <2>2, <2>3
  <1>6. ASSUME NEW t \in Threads, NEW op \in Ops, Begin(t, op) PROVE Claims(u)'
    BY <1>5, <1>6, FirstMoves, EntryPlaces DEF Relying, Bare, Caught, Boxless, HostStart
  <1>7. ASSUME NEW t \in Threads, Cut(t) \/ ProbeFails(t) PROVE Claims(u)'
    <2>1. CASE ProbeFails(t)
      BY <1>5, <2>1, ProbeMoves DEF Relying, Bare, Caught, Boxless, HostStart
    <2>2. CASE Cut(t)
      <3>1. Moves(t) /\ thr[t].op \in Scripts /\ (Survives(t) \/ thr'[t] = Idle \/ Lingers(t))
        BY <2>2, CutMoves
      <3>2. thr'[t].at = thr[t].at \/ thr'[t].at \in {"idle", "boxRun", "lateStop", "lateRemove"}
        BY <3>1, LatePlaces, IdleType DEF Survives, Lingers
      <3>3. \A v \in Threads : ~StartLaunch(v) /\ ~BoxRun(v)
        BY <3>1, <3>2, NoLaunch DEF Moves
      <3>4. Ebb /\ (container = "none" => container' = "none")
        BY <3>3, NextEbbs, NextBox
      <3>5. CASE u # t
        BY <1>2, <3>1, <3>3, <3>5 DEF Moves
      <3>6. CASE u = t /\ Survives(t)
        BY <1>1, <3>1, <3>4, <3>6, EbbClaims, LifecycleAssumption DEF Changing, Scripts, Ops
      <3>7. CASE u = t /\ ~Survives(t) /\ thr'[t].at # "boxRun"
        BY <3>1, <3>2, <3>7, LatePlaces, IdleType, NoClaims DEF Lingers, Relying, Bare, Caught, Boxless, HostStart
      <3>8. CASE u = t /\ ~Survives(t) /\ thr'[t].at = "boxRun"
        <4>1. Lingers(t) /\ thr[t].at = "boxRun" /\ thr'[t].fix = None
          BY <3>1, <3>8, LatePlaces, IdleType DEF Lingers, At
        <4>2. Free({"overlap", "slip", "probe"})' => Are("dog")' = {}
          BY <1>1, <3>4, <3>8, <4>1 DEF Claims, Ebb, Free
        <4>3. QED
          BY <3>8, <4>1, <4>2 DEF Claims, Bare, Caught, Boxless, HostStart, Stopped, At
      <3>9. QED
        BY <3>5, <3>6, <3>7, <3>8
    <2>3. QED
      BY <1>7, <2>1, <2>2
  <1>8. CASE Reboot
    <2>1. thr'[u].at = "idle" /\ thr'[u].fix = None
      BY <1>8, IdleType DEF Reboot
    <2>2. QED
      BY <2>1, NoClaims DEF Relying, Bare, Caught, Boxless, HostStart
  <1>9. QED
    BY <1>3, <1>4, <1>6, <1>7, <1>8 DEF Next, DogStep, Up, End, Die, Stranger, vars

----------------------------------------------------------------------------
\* The other parts of the invariant.

LEMMA LaunchDogs ==
    ASSUME IInv, NEW t \in Threads, StartLaunch(t)
    PROVE  /\ Are("dog")' \subseteq Are("dog") \cup {Fresh} /\ Are("gateway")' \subseteq Are("gateway")
           /\ RestDogs /\ Fresh \in Are("dog")' /\ proc'[Fresh] = Process("dog")
           /\ thr[t].at = "startLaunch" /\ thr'[t].at = "startNote" /\ thr'[t].dog = Fresh
           /\ UNCHANGED <<config, files, box, lapses>>
  <1>1. /\ Fresh \in Pids /\ ~Alive(Fresh) /\ (\A p \in Pids \ {Fresh} : proc'[p] = proc[p])
        /\ proc'[Fresh].kind = "dog" /\ proc'[Fresh] # None
    BY FileTypes, Born DEF StartLaunch
  <1>2. /\ Are("dog")' \subseteq Are("dog") \cup {Fresh} /\ Are("gateway")' \subseteq Are("gateway")
        /\ RestDogs /\ Fresh \in Are("dog")'
    BY <1>1 DEF Are, Is, Alive, RestDogs
  <1>3. proc'[Fresh] = Process("dog")
    BY <1>1, FileTypes DEF StartLaunch, MachineOK
  <1>4. QED
    BY <1>2, <1>3, LaunchMoves DEF StartLaunch

LEMMA NextOneDog ==
    ASSUME IInv, Tended, [Next]_vars
    PROVE  OneDog'
  <1>1. SUFFICES ASSUME Free({"overlap"})', NEW d \in Are("dog")', NEW e \in Are("dog")' PROVE d = e
    BY DEF OneDog
  <1>2. Free({"overlap"}) /\ OneDog /\ \A t \in Threads : Claims(t)
    BY <1>1, LapsesGrow DEF Free, Tended
  <1>3. CASE \E t \in Threads : StartLaunch(t)
    <2>1. PICK t \in Threads : StartLaunch(t)
      BY <1>3
    <2>2. Are("dog") = {}
      BY <1>2, <2>1, LaunchDogs DEF Claims, Bare
    <2>3. QED
      BY <1>1, <2>1, <2>2, LaunchDogs
  <1>4. CASE \A t \in Threads : ~StartLaunch(t)
    BY <1>1, <1>2, <1>4, NextEbbs DEF OneDog, Ebb
  <1>5. QED
    BY <1>3, <1>4

LEMMA NextBoxAlone ==
    ASSUME IInv, Tended, [Next]_vars
    PROVE  BoxAlone'
  <1>1. SUFFICES ASSUME Free({"overlap", "slip", "probe"})', container' # "none" PROVE Are("dog")' = {}
    BY DEF BoxAlone
  <1>2. Free({"overlap", "slip", "probe"}) /\ Free({"overlap"}) /\ BoxAlone /\ \A t \in Threads : Claims(t)
    BY <1>1, LapsesGrow DEF Free, Tended
  <1>3. CASE \E t \in Threads : StartLaunch(t)
    <2>1. PICK t \in Threads : StartLaunch(t)
      BY <1>3
    <2>2. thr[t].at \in Boxless /\ container' = container
      BY <2>1, LaunchDogs DEF Boxless, HostStart, box
    <2>3. QED
      BY <1>1, <1>2, <2>2 DEF Claims
  <1>4. CASE \A t \in Threads : ~StartLaunch(t)
    <2>1. Are("dog")' \subseteq Are("dog")
      BY <1>4, NextEbbs DEF Ebb
    <2>2. ASSUME NEW t \in Threads, BoxRun(t) PROVE Are("dog") = {}
      BY <1>2, <2>2 DEF BoxRun, At, Claims
    <2>3. CASE \A t \in Threads : ~BoxRun(t)
      BY <1>1, <1>2, <2>1, <2>3, NextBox DEF BoxAlone
    <2>4. QED
      BY <2>1, <2>2, <2>3
  <1>5. QED
    BY <1>3, <1>4

\* What the steps do to the file of the watchdog's id.
LEMMA ThreadKnown ==
    ASSUME IInv, Orderly, Apart, Tended, NEW t \in Threads, ThreadStep(t), ~StartLaunch(t),
           Free({"overlap", "slip", "probe"})', NEW d \in Are("dog")'
    PROVE  dogfile' = d \/ Noting(d)'
  <1>1. Are("dog")' \subseteq Are("dog") /\ lapses \subseteq lapses'
    <2>1. Tame /\ MachineOK
      BY ThreadTame, FileTypes DEF ThreadStep
    <2>2. QED
      BY <2>1, LapsesGrow, TameWanes DEF Waning, Next
  <1>2. Free({"overlap", "slip", "probe"}) /\ Free({"overlap"}) /\ Free({"probe"})
    BY <1>1 DEF Free
  <1>3. d \in Are("dog") /\ (dogfile = d \/ Noting(d)) /\ Claims(t)
    BY <1>1, <1>2 DEF Tended, Known
  <1>4. CASE dogfile' = dogfile /\ thr[t].at # "startNote"
    <2>1. \A u \in Threads \ {t} : thr'[u] = thr[u]
      BY HostScriptMoves, BoxScriptMoves, HandlerMoves DEF ThreadStep, ScriptMoves, Moves
    <2>2. Noting(d) => Noting(d)'
      BY <1>4, <2>1 DEF Noting
    <2>3. QED
      BY <1>3, <1>4, <2>2
  <1>5. CASE Fix(t)
    <2>1. thr[t].at \in DOMAIN Finds /\ thr[t].fix # None
      BY <1>5 DEF Fix, IInv, Keeps
    <2>2. CASE Finds[thr[t].at][1] = "dog"
      BY <1>2, <1>3, <1>5, <2>1, <2>2 DEF Fix, SetFile, Claims
    <2>3. CASE Finds[thr[t].at][1] # "dog"
      BY <1>4, <1>5, <2>1, <2>3, FindsDomain DEF Fix, SetFile
    <2>4. QED
      BY <2>2, <2>3
  <1>6. CASE StartNote(t)
    BY <1>2, <1>3, <1>6 DEF StartNote, At, Claims, Caught
  <1>7. CASE StopForget(t)
    BY <1>2, <1>3, <1>7 DEF StopForget, At, Claims, Bare
  <1>8. CASE BoxScript(t)
    <2>1. CASE BoxKill(t, "boxDogLate", "dog", "boxCheck")
      <3>1. thr'[t].at = "boxCheck" /\ Claims(t)'
        BY <1>8, <2>1, GotoSteps, BoxClaims DEF BoxKill, Steps, Places
      <3>2. QED
        BY <3>1 DEF Claims
    <2>2. CASE BoxStopDog(t)
      BY <1>2, <1>3, <2>2 DEF BoxStopDog, At, Claims
    <2>3. CASE ~BoxKill(t, "boxDogLate", "dog", "boxCheck") /\ ~BoxStopDog(t)
      BY <1>4, <1>8, <2>3 DEF BoxScript, BoxSignal, BoxKill, BoxCheck, BoxRun, BoxStop, BoxStopGateway, BoxStatus, At, files, SetFile
    <2>4. QED
      BY <2>1, <2>2, <2>3
  <1>9. CASE HostScript(t) /\ ~Fix(t) /\ ~StartNote(t) /\ ~StopForget(t)
    <2>1. dogfile' = dogfile
      BY <1>9 DEF HostScript, Look, StartRemove, StartClear, StartLaunch, GiveUp, StopAny, StopFallback, StopSignalDog,
                  StopSignalGateway, StopAwaitGateway, StopAwaitDog, StopClear, files
    <2>2. thr[t].at # "startNote"
      BY <1>9, FindsDomain
         DEF HostScript, Look, StartRemove, StartClear, StartLaunch, GiveUp, StopAny, StopFallback, StopSignalDog,
             StopSignalGateway, StopAwaitGateway, StopAwaitDog, StopClear, At
    <2>3. QED
      BY <1>4, <2>1, <2>2
  <1>10. CASE Handler(t)
    <2>1. dogfile' = dogfile
      BY <1>10 DEF Handler, Checked, Restarting, Report, SaveConnector, Update, UpdateRaw, SaveMode, Reconcile, Reload, Delete,
                   DeleteBox, Create, DockerEnds, files
    <2>2. thr[t].at # "startNote"
      BY <1>10 DEF Handler, Checked, Restarting, Report, SaveConnector, Update, UpdateRaw, Reconcile, Reload, Delete,
                   DeleteBox, Create, DockerEnds, Ended, Outcomes, At
    <2>3. QED
      BY <1>4, <2>1, <2>2
  <1>11. QED
    BY <1>5, <1>6, <1>7, <1>8, <1>9, <1>10 DEF ThreadStep

LEMMA NextKnown ==
    ASSUME IInv, Orderly, Apart, Tended, [Next]_vars
    PROVE  Known'
  <1>1. SUFFICES ASSUME Free({"overlap", "slip", "probe"})', NEW d \in Are("dog")' PROVE dogfile' = d \/ Noting(d)'
    BY DEF Known
  <1>2. /\ Free({"overlap", "slip", "probe"}) /\ Free({"overlap"}) /\ Known /\ OneDog /\ \A t \in Threads : Claims(t)
    BY <1>1, LapsesGrow DEF Free, Tended
  <1>3. CASE \E t \in Threads : StartLaunch(t)
    <2>1. PICK t \in Threads : StartLaunch(t)
      BY <1>3
    <2>2. Are("dog") = {}
      BY <1>2, <2>1, LaunchDogs DEF Claims, Bare
    <2>3. QED
      BY <1>1, <2>1, <2>2, LaunchDogs DEF Noting
  <1>4. CASE \A t \in Threads : ~StartLaunch(t)
    <2>1. d \in Are("dog") /\ (dogfile = d \/ Noting(d))
      BY <1>1, <1>2, <1>4, NextEbbs DEF Ebb, Known
    <2>2. ASSUME UNCHANGED <<files, thr>> PROVE dogfile' = d \/ Noting(d)'
      BY <2>1, <2>2 DEF files, Noting
    <2>3. ASSUME NEW e \in Are("dog"), DogStep(e) PROVE dogfile' = d \/ Noting(d)'
      <3>1. e = d /\ e \in Pids /\ proc \in [Pids -> ProcessType \cup {None}]
        BY <1>2, <2>1, FileTypes DEF OneDog, Are, MachineOK
      <3>2. ASSUME NEW ps, ps \in [Pids -> ProcessType \cup {None}], Leave(e, ps) PROVE FALSE
        BY <1>1, <3>1, <3>2 DEF Leave, Are, Is, Alive
      <3>3. ~(CheckStop(e) /\ stopfile) /\ ~(Decide(e) /\ stopfile)
        BY <3>1, <3>2 DEF CheckStop, Decide
      <3>4. ~Reap(e)
        <4>1. [p \in Pids |-> IF p = proc[e].child THEN None ELSE proc[p]] \in [Pids -> ProcessType \cup {None}]
          BY <3>1
        <4>2. QED
          BY <3>2, <4>1 DEF Reap
      <3>5. dogfile' = dogfile \/ dogfile' = e
        BY <2>3, <3>3, <3>4 DEF DogStep, Attend, CheckStop, Launch, Note, Wake, Decide, Resume, OnTerm, files
      <3>6. thr' = thr
        BY <2>3 DEF DogStep
      <3>7. QED
        BY <2>1, <3>1, <3>5, <3>6 DEF Noting
    <2>4. ASSUME NEW t \in Threads, ThreadStep(t) PROVE dogfile' = d \/ Noting(d)'
      BY <1>1, <1>4, <2>4, ThreadKnown
    <2>5. ASSUME NEW t \in Threads, Moves(t), thr[t].at # "startNote", UNCHANGED files PROVE dogfile' = d \/ Noting(d)'
      BY <2>1, <2>5 DEF Moves, files, Noting
    <2>6. ASSUME NEW t \in Threads, Cut(t) \/ ProbeFails(t) PROVE dogfile' = d \/ Noting(d)'
      <3>1. UNCHANGED files
        BY <2>6 DEF Cut, ProbeFails
      <3>2. CASE ProbeFails(t)
        <4>1. thr[t].at # "startNote"
          BY <1>2, <3>2, LifecycleAssumption DEF ProbeFails, Claims, Caught, Orderly, Coherent, Resting, Orphaned, Starting,
             Halting, Probing, Handling, HostProbe, HostStop, BoxHalt, Ops, Scripts
        <4>2. QED
          BY <2>5, <3>1, <3>2, <4>1, ProbeMoves
      <3>3. CASE Cut(t) /\ Survives(t)
        BY <2>1, <3>1, <3>3, CutMoves DEF Moves, Survives, files, Noting
      <3>4. CASE Cut(t) /\ ~Survives(t)
        <4>1. ~Inner(t) /\ Moves(t)
          BY <3>4, CutMoves
        <4>2. thr[t].at # "startNote"
          BY <1>1, <3>4, <4>1 DEF Cut, At, Free
        <4>3. QED
          BY <2>5, <3>1, <4>1, <4>2
      <3>5. QED
        BY <2>6, <3>2, <3>3, <3>4
    <2>7. ASSUME NEW t \in Threads, NEW op \in Ops, Begin(t, op) PROVE dogfile' = d \/ Noting(d)'
      BY <2>5, <2>7, FirstMoves DEF At
    <2>8. ~Reboot
      BY <1>1 DEF Reboot, Are, Is, Alive
    <2>9. CASE \/ \E g \in Are("gateway") : Up(g) \/ End(g)
               \/ Die \/ Stranger \/ UNCHANGED vars
      BY <2>2, <2>9 DEF Up, End, Die, Stranger, vars
    <2>10. QED
      BY <2>3, <2>4, <2>6, <2>7, <2>8, <2>9 DEF Next
  <1>5. QED
    BY <1>3, <1>4

\* Fewer serve and watch, unless a script launches a watchdog or a watchdog a gateway.
LEMMA NextWanes ==
    ASSUME IInv, [Next]_vars, \A t \in Threads : ~StartLaunch(t), \A d \in Are("dog") : ~Launch(d)
    PROVE  Waning
  <1>1. MachineOK /\ Children
    BY FileTypes
  <1>2. ASSUME NEW d \in Are("dog"), DogStep(d) PROVE Waning
    BY <1>1, <1>2, DogTame, TameWanes DEF DogStep, Are
  <1>3. ASSUME NEW g \in Are("gateway"), Up(g) \/ End(g) PROVE Waning
    BY <1>1, <1>3, GatewayTame, TameWanes
  <1>4. CASE Die
    <2>1. Tame
      BY <1>1, <1>4 DEF Die, Serving, Are, Tame, Firm, MachineOK, Alive
    <2>2. QED
      BY <1>1, <2>1, TameWanes
  <1>5. CASE Reboot
    BY <1>5 DEF Reboot, Waning, Serving, Watching, Are, Is, Alive
  <1>6. CASE Stranger
    <2>1. /\ Fresh \in Pids /\ ~Alive(Fresh) /\ (\A p \in Pids \ {Fresh} : proc'[p] = proc[p])
          /\ proc'[Fresh].kind = "other"
      BY <1>1, <1>6, Born DEF Stranger
    <2>2. QED
      BY <2>1 DEF Waning, Serving, Watching, Are, Is, Alive
  <1>7. ASSUME NEW t \in Threads, ThreadStep(t) PROVE Waning
    BY <1>1, <1>7, ThreadTame, TameWanes DEF ThreadStep
  <1>8. ASSUME UNCHANGED machine PROVE Waning
    BY <1>1, <1>8, SameMachine, TameWanes
  <1>9. ASSUME NEW t \in Threads, Cut(t) \/ ProbeFails(t) PROVE Waning
    BY <1>8, <1>9 DEF Cut, ProbeFails
  <1>10. ASSUME NEW t \in Threads, NEW op \in Ops, Begin(t, op) PROVE Waning
    BY <1>8, <1>10 DEF Begin
  <1>11. CASE UNCHANGED vars
    BY <1>8, <1>11 DEF vars
  <1>12. QED
    BY <1>2, <1>3, <1>4, <1>5, <1>6, <1>7, <1>9, <1>10, <1>11 DEF Next

\* Only the handlers that write a configuration change the mode, and they move nothing else.
LEMMA NextMode ==
    ASSUME [Next]_vars
    PROVE  mode' = mode \/ (/\ NewConfig(mode') /\ UNCHANGED <<machine, box>>
                            /\ \E t \in Threads : At(t, "handler") /\ thr[t].op # "reload")
  <1>1. ASSUME NEW t \in Threads, ThreadStep(t), mode' # mode
        PROVE  NewConfig(mode') /\ UNCHANGED <<machine, box>> /\ At(t, "handler") /\ thr[t].op # "reload"
    <2>1. CASE HostScript(t)
      BY <1>1, <2>1
         DEF HostScript, Look, Fix, StartRemove, StartClear, StartLaunch, StartNote, GiveUp, StopAny, StopFallback,
             StopSignalDog, StopSignalGateway, StopAwaitGateway, StopAwaitDog, StopForget, StopClear, config
    <2>2. CASE BoxScript(t)
      BY <1>1, <2>2
         DEF BoxScript, BoxSignal, BoxKill, BoxCheck, BoxRun, BoxStop, BoxStopGateway, BoxStopDog, BoxStatus, config
    <2>3. CASE Handler(t)
      BY <1>1, <2>3
         DEF Handler, Checked, Restarting, Report, SaveConnector, Update, UpdateRaw, SaveMode, NewConfig, Modes, Reconcile,
             Reload, Delete, DeleteBox, Create, DockerEnds, config
    <2>4. QED
      BY <1>1, <2>1, <2>2, <2>3 DEF ThreadStep
  <1>2. QED
    BY <1>1 DEF Next, DogStep, Up, End, Die, Reboot, Stranger, Cut, ProbeFails, Begin, vars, config

\* Counting the runtimes.
LEMMA Count ==
    ASSUME MachineOK
    PROVE  /\ IsFiniteSet(Serving) /\ Cardinality(Serving) \in Nat
           /\ Runtimes = 0 <=> Serving = {} /\ container # "running"
           /\ (container # "running" \/ Serving = {}) /\ (\A g, h \in Serving : g = h) => Runtimes <= 1
  <1>1. IsFiniteSet(Pids)
    BY FS_Interval, LifecycleAssumption DEF Pids
  <1>2. Serving \subseteq Pids
    BY DEF Serving, Are
  <1>3. IsFiniteSet(Serving) /\ Cardinality(Serving) \in Nat
    BY <1>1, <1>2, FS_Subset, FS_CardinalityType
  <1>4. Cardinality(Serving) = 0 <=> Serving = {}
    BY <1>3, FS_EmptySet
  <1>5. (\A g, h \in Serving : g = h) => Cardinality(Serving) <= 1
    <2>1. CASE Serving = {}
      BY <1>4, <2>1
    <2>2. CASE \E g \in Serving : \A h \in Serving : g = h
      <3>1. PICK g \in Serving : \A h \in Serving : g = h
        BY <2>2
      <3>2. Serving = {g}
        BY <3>1
      <3>3. QED
        BY <1>3, <3>2, FS_Singleton
    <2>3. QED
      BY <2>1, <2>2
  <1>6. Runtimes = 0 <=> Serving = {} /\ container # "running"
    BY <1>3, <1>4 DEF Runtimes
  <1>7. ASSUME container # "running" \/ Serving = {}, \A g, h \in Serving : g = h PROVE Runtimes <= 1
    BY <1>3, <1>4, <1>5, <1>7 DEF Runtimes
  <1>8. QED
    BY <1>3, <1>6, <1>7

LEMMA NextModeRuns ==
    ASSUME IInv, Orderly, Tended, [Next]_vars
    PROVE  ModeRuns'
  <1>1. SUFFICES ASSUME Free({"overlap", "switch"})'
                 PROVE  /\ mode' = "sandbox" => Watching' = {} /\ Serving' = {}
                        /\ mode' = "host" => container' # "running"
    BY DEF ModeRuns
  <1>2. /\ Free({"overlap", "switch"}) /\ Free({"overlap"})
        /\ mode = "sandbox" => Watching = {} /\ Serving = {}
        /\ mode = "host" => container # "running"
    BY <1>1, LapsesGrow DEF Free, Tended, ModeRuns
  <1>3. CASE mode' # mode
    <2>1. NewConfig(mode') /\ UNCHANGED <<machine, box>>
      BY <1>3, NextMode
    <2>2. Runtimes = 0 /\ Watching = {}
      <3>1. ~(Runtimes > 0 \/ Watching # {})
        BY <1>1, <2>1 DEF NewConfig, Free
      <3>2. Runtimes \in Nat
        BY FileTypes, Count DEF Runtimes
      <3>3. QED
        BY <3>1, <3>2
    <2>3. Serving = {} /\ container # "running"
      BY <2>2, FileTypes, Count
    <2>4. Watching' = Watching /\ Serving' = Serving /\ container' = container
      BY <2>1 DEF Watching, Serving, Are, Is, Alive, machine, box
    <2>5. QED
      BY <2>2, <2>3, <2>4
  <1>4. CASE mode' = mode
    <2>1. ASSUME NEW t \in Threads, StartLaunch(t) \/ BoxRun(t) PROVE mode = (IF StartLaunch(t) THEN "host" ELSE "sandbox")
      <3>1. thr[t].at = (IF StartLaunch(t) THEN "startLaunch" ELSE "boxRun")
        BY <2>1 DEF StartLaunch, BoxRun, At
      <3>2. Changing(t) /\ RightMode(t)
        BY <3>1, RelyingActive DEF Orderly, Relying, Bare
      <3>3. QED
        BY <1>2, <3>1, <3>2 DEF RightMode, HostPlaces, BoxPlaces, HostStart, BoxStart
    <2>2. CASE \E t \in Threads : StartLaunch(t)
      BY <1>2, <1>4, <2>1, <2>2, LaunchDogs DEF box
    <2>3. CASE \E d \in Are("dog") : Launch(d)
      <3>1. Watching # {}
        BY <2>3 DEF Launch, Dog, Watching
      <3>2. mode = "host" /\ container # "running"
        BY <1>2, <3>1, FileTypes DEF ConfigOK, Modes
      <3>3. \A t \in Threads : ~BoxRun(t)
        BY <2>1, <3>2 DEF StartLaunch, BoxRun, At
      <3>4. QED
        BY <1>4, <3>2, <3>3, NextBox
    <2>4. CASE (\A t \in Threads : ~StartLaunch(t)) /\ (\A d \in Are("dog") : ~Launch(d))
      <3>1. Watching' \subseteq Watching /\ Serving' \subseteq Serving
        BY <2>4, NextWanes DEF Waning
      <3>2. CASE \E t \in Threads : BoxRun(t)
        BY <1>2, <1>4, <2>1, <2>4, <3>1, <3>2
      <3>3. CASE \A t \in Threads : ~BoxRun(t)
        BY <1>2, <1>4, <3>1, <3>3, NextBox
      <3>4. QED
        BY <3>2, <3>3
    <2>5. QED
      BY <2>2, <2>3, <2>4
  <1>5. QED
    BY <1>3, <1>4

LEMMA InitTended == Init => Tended
  <1>1. SUFFICES ASSUME Init PROVE Tended
    OBVIOUS
  <1>2. /\ \A t \in Threads : thr[t] = Idle
        /\ Are("dog") = {} /\ Serving = {} /\ Watching = {} /\ container = "none"
    BY <1>1 DEF Init, Are, Serving, Watching, Is, Alive
  <1>3. ASSUME NEW t \in Threads PROVE Claims(t)
    BY <1>2, IdleType DEF Claims, Bare, Caught, Boxless, HostStart, Stopped, At
  <1>4. QED
    BY <1>2, <1>3 DEF Tended, OneDog, Parents, BoxAlone, Known, ModeRuns

LEMMA NextTended == IInv /\ Orderly /\ Apart /\ Tended /\ [Next]_vars => Tended'
  BY NextOneDog, NextParents, NextBoxAlone, NextKnown, NextModeRuns, NextClaims DEF Tended

LEMMA AlwaysTended == Spec => [](IInv /\ Orderly /\ Apart /\ Tended)
  <1>1. Init => IInv /\ Orderly /\ Apart /\ Tended
    BY InitInv, InitOrderly, InitApart, InitTended
  <1>2. IInv /\ Orderly /\ Apart /\ Tended /\ [Next]_vars => (IInv /\ Orderly /\ Apart /\ Tended)'
    BY NextInv, NextOrderly, NextApart, NextTended
  <1>3. QED
    BY <1>1, <1>2, PTL DEF Spec

\* However starts, stops, restarts, relaunches, crashes, reboots and changes of mode follow one
\* another, at most one runtime works on the workspace, unless two operations ran at the same time,
\* a gateway slipped away from its watchdog, or an instance that ran was moved to another mode while
\* its status was asked for: one watchdog at most, what serves is its child, and there is no
\* container beside it (start.sh, watchdog.sh, update_softnix_instance).
THEOREM ServedOnce == Spec => []OneRuntime
  <1>1. IInv /\ Orderly /\ Apart /\ Tended => OneRuntime
    <2>1. SUFFICES ASSUME IInv, Tended, Free({"overlap", "slip"}), ~({"probe", "switch"} \subseteq lapses)
                   PROVE  Runtimes <= 1
      BY DEF OneRuntime, Free
    <2>2. OneDog /\ Parents /\ BoxAlone /\ ModeRuns /\ MachineOK /\ mode \in Modes
      BY <2>1, FileTypes DEF Tended, ConfigOK
    <2>3. Free({"overlap"})
      BY <2>1 DEF Free
    <2>4. \A g, h \in Serving : g = h
      BY <2>1, <2>2, <2>3 DEF Parents, Parented, OneDog
    <2>5. container # "running" \/ Serving = {}
      <3>1. CASE Free({"probe"})
        <4>1. Free({"overlap", "slip", "probe"})
          BY <2>1, <3>1 DEF Free
        <4>2. QED
          BY <2>1, <2>2, <4>1 DEF BoxAlone, Parents, Parented
      <3>2. CASE ~Free({"probe"})
        <4>1. Free({"overlap", "switch"})
          BY <2>1, <3>2 DEF Free
        <4>2. QED
          BY <2>2, <4>1 DEF ModeRuns, Modes
      <3>3. QED
        BY <3>1, <3>2
    <2>6. QED
      BY <2>2, <2>4, <2>5, Count
  <1>2. QED
    BY <1>1, AlwaysTended, PTL

\* A stop, or the first half of a restart, that has said "stopped" leaves nothing behind: no
\* watchdog that would launch a gateway, no gateway that has not been told to end, no container;
\* unless something ran beside it, a gateway slipped away from its watchdog, or stop.sh of sandbox
\* mode found no container and looked no further (stop.sh, watchdog.sh).
THEOREM StoppedIsStopped == Spec => []StopMeansStopped
  <1>1. IInv /\ Orderly /\ Apart /\ Tended => StopMeansStopped
    <2>1. SUFFICES ASSUME IInv, Tended, lapses \cap {"overlap", "probe", "slip", "skip"} = {}, NEW t \in Threads, Stopped(t)
                   PROVE  Runtimes = 0 /\ Watching = {}
      BY DEF StopMeansStopped
    <2>2. Free({"overlap", "slip", "probe"}) /\ Free({"skip"}) /\ Free({"overlap", "slip"}) /\ MachineOK
      BY <2>1, FileTypes DEF Free
    <2>3. container = "none" /\ Are("dog") = {} /\ Parents
      BY <2>1, <2>2 DEF Tended, Claims
    <2>4. Watching = {} /\ Serving = {}
      BY <2>2, <2>3 DEF Watching, Parents, Parented
    <2>5. QED
      BY <2>2, <2>3, <2>4, Count
  <1>2. QED
    BY <1>1, AlwaysTended, PTL

----------------------------------------------------------------------------
\* What a start that reports success leaves: the invariant.

\* Nothing has happened that excuses a start.
Clear == Free({"overlap", "slip", "left", "switch"})

\* A watchdog knows a gateway only while it watches it, or waits for its end.
Childless ==
    \A d \in Are("dog") : /\ proc[d].pc \in {"boot", "check", "launch", "woken", "pause"} => proc[d].child = 0
                          /\ proc[d].pc = "reap" => proc[d].termed

\* Every gateway is the child of a watchdog.
Minded == \A g \in Are("gateway") : \E d \in Are("dog") : proc[d].child = g

\* A watchdog ends only on behalf of a stop that is under way, and there is none in sandbox mode.
Halts == {"stopFindDog", "stopFindGateway", "stopFallback", "stopSignalDog", "stopSignalGateway", "stopAwaitGateway",
          "stopAwaitDog"}
Pursued == \A d \in Are("dog") : proc[d].termed \/ stopfile => \E t \in Threads : thr[t].at \in Halts
Houses == mode = "sandbox" => Are("dog") = {}

\* What a script goes on to say: that a watchdog is there, since it has launched one, or found one or its gateway.
Launched == {"startNote", "startLone", "awaitDog", "awaitGateway", "lateDog", "lateGateway"}
Promised(t) ==
    \/ thr[t].at \in Launched
    \/ thr[t].at \in {"startRunning", "startWatched"} /\ thr[t].fix \notin {None, 0}
    \/ thr[t].at \in {"started", "already"} /\ mode = "host"
Promises(t) ==
    /\ thr[t].at \in Halts /\ Are("dog") # {} => stopfile
    /\ thr[t].at = "startLaunch" => ~stopfile
    /\ Promised(t) => Are("dog") # {}
    /\ thr[t].at \in {"started", "already"} /\ mode = "sandbox" => container # "none"

Steady == Clear => Childless /\ Minded /\ Pursued /\ Houses /\ \A t \in Threads : Promises(t)

----------------------------------------------------------------------------
\* Watchdogs end only when they are told to.

LEMMA DogChildless ==
    ASSUME IInv, Apart, Childless, NEW d \in Are("dog"), DogStep(d)
    PROVE  Childless'
  <1>1. d \in Pids /\ MachineOK /\ proc \in [Pids -> ProcessType \cup {None}] /\ proc[d] \in ProcessType
    BY FileTypes, Running DEF Are, Is, MachineOK
  <1>2. SUFFICES ASSUME NEW e \in Are("dog")'
                 PROVE  /\ proc'[e].pc \in {"boot", "check", "launch", "woken", "pause"} => proc'[e].child = 0
                        /\ proc'[e].pc = "reap" => proc'[e].termed
    BY DEF Childless
  <1>3. e \in Are("dog")
    <2>1. Ebb
      BY <1>1, FileTypes, LaunchEbbs, DogTame, LapsesGrow, TameEbbs DEF DogStep, Next
    <2>2. QED
      BY <2>1 DEF Ebb
  <1>4. /\ proc[e].pc \in {"boot", "check", "launch", "woken", "pause"} => proc[e].child = 0
        /\ proc[e].pc = "reap" => proc[e].termed
    BY <1>3 DEF Childless
  <1>5. CASE e # d
    BY <1>3, <1>4, <1>5, OtherDogs
  <1>6. CASE e = d
    <2>1. CASE Launch(d)
      BY <1>1, <1>6, <2>1, LaunchBears DEF ProcessType
    <2>2. CASE OnTerm(d)
      BY <1>1, <1>6, <2>2 DEF OnTerm, ProcessType
    <2>3. CASE Attend(d) \/ CheckStop(d) \/ Note(d) \/ Wake(d) \/ Decide(d) \/ Resume(d) \/ Reap(d)
      BY <1>1, <1>2, <1>4, <1>6, <2>3
         DEF Attend, CheckStop, Note, Wake, Decide, Resume, Reap, Leave, Dog, ProcessType, Are, Is, Alive
    <2>4. QED
      BY <2>1, <2>2, <2>3 DEF DogStep
  <1>7. QED
    BY <1>5, <1>6

\* What a signal does to a watchdog.
LEMMA SignalDogs ==
    ASSUME MachineOK, NEW p, NEW s, Signal(p, s), NEW d \in Are("dog")
    PROVE  \/ proc'[d] = proc[d]
           \/ d = p /\ proc[d].pc = "boot" /\ proc'[d] = None
           \/ d = p /\ proc'[d] = [proc[d] EXCEPT !.termed = TRUE]
  <1>1. d \in Pids /\ proc \in [Pids -> ProcessType \cup {None}] /\ proc[d] \in ProcessType
    BY Running DEF Are, Is, MachineOK
  <1>2. QED
    BY <1>1 DEF Signal, Termed, ProcessType, Alive, Are, Is

LEMMA ClearBefore == ASSUME [Next]_vars, Clear' PROVE Clear /\ Free({"overlap"}) /\ Free({"slip"})' /\ Free({"left"})'
  BY LapsesGrow DEF Clear, Free

\* What a script does to the watchdogs.
LEMMA ThreadDogs ==
    ASSUME IInv, Orderly, Apart, Houses, Clear, NEW t \in Threads, ThreadStep(t), ~StartLaunch(t), NEW d \in Are("dog")
    PROVE  \/ proc'[d] = proc[d]
           \/ /\ At(t, "stopSignalDog") /\ StopSignalDog(t)
              /\ \/ proc[d].pc = "boot" /\ proc'[d] = None
                 \/ proc'[d] = [proc[d] EXCEPT !.termed = TRUE]
  <1>1. MachineOK /\ d \in Pids /\ proc \in [Pids -> ProcessType \cup {None}] /\ proc[d] # None
    BY FileTypes DEF MachineOK, Are, Is, Alive
  <1>2. CASE StopSignalDog(t)
    BY <1>1, <1>2, SignalDogs DEF StopSignalDog
  <1>3. CASE StopSignalGateway(t) \/ StopAwaitGateway(t)
    <2>1. d # thr[t].gateway
      BY <1>3 DEF StopSignalGateway, StopAwaitGateway, At, Apart, Spares, NotDog, Are
    <2>2. QED
      BY <1>1, <1>3, <2>1, SignalDogs DEF StopSignalGateway, StopAwaitGateway, Destroy
  <1>4. CASE HostScript(t) /\ ~StopSignalDog(t) /\ ~StopSignalGateway(t) /\ ~StopAwaitGateway(t)
    BY <1>4 DEF HostScript, Look, Fix, StartRemove, StartClear, StartNote, GiveUp, StopAny, StopFallback,
                StopAwaitDog, StopForget, StopClear, machine
  <1>5. CASE BoxScript(t)
    <2>1. CASE BoxStatus(t)
      BY <2>1 DEF BoxStatus, machine
    <2>2. CASE ~BoxStatus(t)
      <3>1. thr[t].at \in BoxStart \cup BoxHalt
        BY <1>5, <2>2
           DEF BoxScript, BoxSignal, BoxKill, BoxCheck, BoxRun, BoxStop, BoxStopGateway, BoxStopDog, At, BoxStart, BoxHalt
      <3>2. Coherent(t) /\ RightMode(t)
        BY DEF Orderly
      <3>3. Changing(t)
        BY <3>1, <3>2, LifecycleAssumption
           DEF Coherent, Resting, Orphaned, Starting, Halting, Probing, Handling, HostProbe, BoxStart, BoxHalt, Changing, Ops, Scripts
      <3>4. mode = "sandbox"
        BY <3>1, <3>2, <3>3 DEF RightMode, Clear, Free, BoxPlaces
      <3>5. QED
        BY <3>4 DEF Houses
    <2>3. QED
      BY <2>1, <2>2
  <1>6. CASE Handler(t)
    BY <1>1, <1>6
       DEF Handler, Checked, Restarting, Report, SaveConnector, Update, UpdateRaw, SaveMode, Reconcile, Reload, Delete, DeleteBox,
           Create, DockerEnds, machine, Are, Is
  <1>7. QED
    BY <1>2, <1>3, <1>4, <1>5, <1>6 DEF ThreadStep

\* A watchdog forgets a gateway when that is gone, and leaves when a stop tells it to, with its gateway.
LEMMA DogLeaves ==
    ASSUME IInv, Apart, Childless, NEW d \in Are("dog"), DogStep(d), ~Launch(d), Free({"slip"})'
    PROVE  /\ \/ d \in Are("dog")' /\ proc'[d].child = proc[d].child
              \/ \A g \in Pids : g = proc[d].child => proc'[g] = None
           /\ d \in Are("dog")' \/ proc[d].termed \/ stopfile
  <1>1. d \in Pids /\ MachineOK /\ proc \in [Pids -> ProcessType \cup {None}] /\ proc[d] \in ProcessType /\ proc[d] # None
        /\ proc[d].kind = "dog" /\ 0 \notin Pids
    BY FileTypes, Running DEF Are, Is, MachineOK, Alive, Pids
  <1>2. /\ proc[d].pc \in {"boot", "check", "launch", "woken", "pause"} => proc[d].child = 0
        /\ proc[d].pc = "reap" => proc[d].termed
    BY DEF Childless
  <1>3. ASSUME NEW l \in {"check", "launch", "wait", "pause", "reap"}, proc'[d] = [proc[d] EXCEPT !.pc = l]
        PROVE  d \in Are("dog")' /\ proc'[d].child = proc[d].child
    <2>1. proc'[d] \in ProcessType /\ proc'[d].kind = "dog" /\ proc'[d].child = proc[d].child
      BY <1>1, <1>3 DEF ProcessType
    <2>2. QED
      BY <1>1, <2>1, LifecycleAssumption DEF Are, Is, Alive
  <1>4. CASE CheckStop(d) \/ Decide(d)
    <2>1. proc[d].child = 0
      BY <1>2, <1>4 DEF CheckStop, Decide, Dog
    <2>2. CASE stopfile
      BY <1>1, <2>1, <2>2
    <2>3. CASE ~stopfile
      <3>1. proc'[d] = [proc[d] EXCEPT !.pc = "launch"] \/ proc'[d] = [proc[d] EXCEPT !.pc = "pause"]
        BY <1>1, <1>4, <2>3 DEF CheckStop, Decide
      <3>2. QED
        BY <1>3, <3>1
    <2>4. QED
      BY <2>2, <2>3
  <1>5. CASE Reap(d)
    BY <1>1, <1>2, <1>5 DEF Reap, Leave
  <1>6. CASE Wake(d)
    <2>1. \A g \in Pids : g = proc[d].child => proc'[g] = None
      BY <1>1, <1>6 DEF Wake, Dog, Alive, Is
    <2>2. proc'[d] = [proc[d] EXCEPT !.pc = "woken", !.child = 0] /\ 0 \in 0..MaxPid
      BY <1>1, <1>6, FileTypes DEF Wake
    <2>3. proc'[d] \in ProcessType /\ proc'[d].kind = "dog"
      BY <1>1, <2>2 DEF ProcessType
    <2>4. d \in Are("dog")'
      BY <1>1, <2>3, LifecycleAssumption DEF Are, Is, Alive
    <2>5. QED
      BY <2>1, <2>4
  <1>7. CASE Attend(d) \/ Note(d) \/ Resume(d)
    BY <1>1, <1>3, <1>7 DEF Attend, Note, Resume
  <1>8. CASE OnTerm(d)
    <2>1. proc[d].pc # "forked"
      BY <1>8 DEF OnTerm, Free
    <2>2. proc'[d] = [proc[d] EXCEPT !.pc = "reap"]
      BY <1>1, <1>8, <2>1 DEF OnTerm
    <2>3. QED
      BY <1>3, <2>2
  <1>9. QED
    BY <1>4, <1>5, <1>6, <1>7, <1>8 DEF DogStep

\* A step is one of a watchdog, of a script or handler, a reboot, or leaves the watchdogs and the files alone.
LEMMA StepDogs ==
    ASSUME IInv, [Next]_vars
    PROVE  \/ \E d \in Are("dog") : DogStep(d)
           \/ \E t \in Threads : ThreadStep(t)
           \/ Reboot
           \/ /\ RestDogs /\ Are("gateway")' \subseteq Are("gateway") /\ UNCHANGED <<config, files>>
              /\ container' # container => container = "running" /\ container' = "exited"
              /\ thr' = thr \/ \E t \in Threads : Cut(t) \/ ProbeFails(t) \/ \E op \in Ops : Begin(t, op)
  <1>1. MachineOK /\ proc \in [Pids -> ProcessType \cup {None}]
    BY FileTypes DEF MachineOK
  <1>2. ASSUME UNCHANGED proc PROVE RestDogs /\ Are("gateway")' \subseteq Are("gateway")
    BY <1>2 DEF RestDogs, Are, Is, Alive
  <1>3. ASSUME NEW g \in Are("gateway"), Up(g) \/ End(g)
        PROVE  RestDogs /\ Are("gateway")' \subseteq Are("gateway") /\ UNCHANGED <<config, files, container, thr>>
    <2>1. Are("gateway")' \subseteq Are("gateway")
      BY <1>1, <1>3, GatewayTame, TameWanes DEF Waning
    <2>2. RestDogs
      BY <1>1, <1>3 DEF Up, End, RestDogs, Are, Is, Alive
    <2>3. QED
      BY <1>3, <2>1, <2>2 DEF Up, End, box
  <1>4. CASE Die
    <2>1. RestDogs /\ Are("gateway")' \subseteq Are("gateway")
      BY <1>1, <1>4 DEF Die, Serving, RestDogs, Are, Is, Alive
    <2>2. QED
      BY <1>4, <2>1 DEF Die
  <1>5. CASE Stranger
    <2>1. /\ Fresh \in Pids /\ ~Alive(Fresh) /\ (\A p \in Pids \ {Fresh} : proc'[p] = proc[p])
          /\ proc'[Fresh].kind = "other"
      BY <1>1, <1>5, Born DEF Stranger
    <2>2. RestDogs /\ Are("gateway")' \subseteq Are("gateway")
      BY <2>1 DEF RestDogs, Are, Is, Alive
    <2>3. QED
      BY <1>5, <2>2 DEF Stranger, box
  <1>6. ASSUME NEW t \in Threads, Cut(t) \/ ProbeFails(t) \/ \E op \in Ops : Begin(t, op)
        PROVE  RestDogs /\ Are("gateway")' \subseteq Are("gateway") /\ UNCHANGED <<config, files, container>>
    BY <1>2, <1>6 DEF Cut, ProbeFails, Begin, machine, box
  <1>7. CASE UNCHANGED vars
    BY <1>2, <1>7 DEF vars, machine, box
  <1>8. QED
    BY <1>3, <1>4, <1>5, <1>6, <1>7 DEF Next

\* A watchdog is asked to end by a script, and only then says itself that a stop is under way.
LEMMA DogTermed ==
    ASSUME IInv, Apart, NEW d \in Are("dog"), DogStep(d)
    PROVE  /\ d \in Are("dog")' /\ proc'[d].termed => proc[d].termed
           /\ stopfile' => stopfile \/ proc[d].termed
           /\ stopfile => stopfile' \/ d \notin Are("dog")'
  <1>1. d \in Pids /\ MachineOK /\ proc \in [Pids -> ProcessType \cup {None}] /\ proc[d] \in ProcessType
    BY FileTypes, Running DEF Are, Is, MachineOK
  <1>2. CASE Launch(d)
    BY <1>1, <1>2, LaunchBears DEF Launch, files, ProcessType
  <1>3. CASE OnTerm(d)
    BY <1>3 DEF OnTerm
  <1>4. CASE Attend(d) \/ CheckStop(d) \/ Note(d) \/ Wake(d) \/ Decide(d) \/ Resume(d) \/ Reap(d)
    <2>1. d \in Are("dog")' /\ proc'[d].termed => proc[d].termed
      BY <1>1, <1>4 DEF Attend, CheckStop, Note, Wake, Decide, Resume, Reap, Leave, ProcessType, Are, Is, Alive
    <2>2. stopfile' => stopfile
      BY <1>4 DEF Attend, CheckStop, Note, Wake, Decide, Resume, Reap, files
    <2>3. stopfile => stopfile' \/ d \notin Are("dog")'
      BY <1>1, <1>4 DEF Attend, CheckStop, Note, Wake, Decide, Resume, Reap, Leave, files, Are, Is, Alive
    <2>4. QED
      BY <2>1, <2>2, <2>3
  <1>5. QED
    BY <1>2, <1>3, <1>4 DEF DogStep

LEMMA NextChildless ==
    ASSUME IInv, Orderly, Apart, Tended, Steady, [Next]_vars, Clear'
    PROVE  Childless'
  <1>1. Clear /\ Childless /\ Houses /\ MachineOK
    BY ClearBefore, FileTypes DEF Steady
  <1>2. ASSUME RestDogs, Are("dog")' \subseteq Are("dog") PROVE Childless'
    BY <1>1, <1>2 DEF RestDogs, Childless
  <1>3. CASE \E t \in Threads : StartLaunch(t)
    <2>1. PICK t \in Threads : StartLaunch(t)
      BY <1>3
    <2>2. RestDogs /\ Are("dog")' \subseteq Are("dog") \cup {Fresh} /\ proc'[Fresh] = Process("dog")
      BY <2>1, LaunchDogs
    <2>3. QED
      BY <1>1, <2>2 DEF RestDogs, Childless, Process
  <1>4. CASE \A t \in Threads : ~StartLaunch(t)
    <2>1. Are("dog")' \subseteq Are("dog")
      BY <1>4, NextEbbs DEF Ebb
    <2>2. ASSUME NEW t \in Threads, ThreadStep(t), NEW d \in Are("dog")'
          PROVE  proc'[d].pc = proc[d].pc /\ proc'[d].child = proc[d].child /\ (proc[d].termed => proc'[d].termed)
      <3>1. d \in Are("dog") /\ proc[d] \in ProcessType /\ proc'[d] # None
        BY <1>1, <2>1, <2>2, Running DEF Are, Is, Alive
      <3>2. QED
        BY <1>1, <1>4, <2>2, <3>1, ThreadDogs DEF ProcessType
    <2>3. ASSUME NEW t \in Threads, ThreadStep(t) PROVE Childless'
      BY <1>1, <2>1, <2>2, <2>3 DEF Childless
    <2>4. CASE Reboot
      BY <2>4 DEF Reboot, Childless, Are, Is, Alive
    <2>5. QED
      BY <1>1, <1>2, <2>1, <2>3, <2>4, StepDogs, DogChildless
  <1>5. QED
    BY <1>3, <1>4

\* Every gateway keeps its watchdog.
LEMMA NextMinded ==
    ASSUME IInv, Orderly, Apart, Tended, Steady, [Next]_vars, Clear'
    PROVE  Minded'
  <1>1. Clear /\ Free({"overlap"}) /\ Free({"slip"})' /\ Childless /\ Minded /\ Houses /\ OneDog /\ MachineOK /\ 0 \notin Pids
    BY ClearBefore, FileTypes DEF Steady, Tended, Pids
  <1>2. SUFFICES ASSUME NEW g \in Are("gateway")' PROVE \E d \in Are("dog")' : proc'[d].child = g
    BY DEF Minded
  <1>3. g \in Pids /\ proc'[g] # None /\ (g \in Are("gateway") => \E d \in Are("dog") : proc[d].child = g)
    BY <1>1 DEF Minded, Are, Is, Alive
  <1>4. ASSUME RestDogs, Are("gateway")' \subseteq Are("gateway") PROVE \E d \in Are("dog")' : proc'[d].child = g
    BY <1>2, <1>3, <1>4 DEF RestDogs, Are, Is, Alive
  <1>5. CASE \E t \in Threads : StartLaunch(t)
    BY <1>4, <1>5, LaunchDogs
  <1>6. ASSUME NEW e \in Are("dog"), DogStep(e) PROVE \E d \in Are("dog")' : proc'[d].child = g
    <2>1. CASE Launch(e)
      <3>0. e \in Pids /\ proc[e] \in ProcessType
        BY <1>1, Running DEF Are, Is
      <3>1. /\ Is(e, "dog") /\ proc[e].pc = "launch" /\ Fresh \in Pids
            /\ proc'[e] = [proc[e] EXCEPT !.pc = "forked", !.child = Fresh] /\ \A p \in Pids \ {Fresh, e} : proc'[p] = proc[p]
        BY <1>1, <2>1, <3>0, LaunchBears
      <3>2. proc[e].child = 0
        BY <1>1, <3>1 DEF Childless
      <3>3. g # e
        BY <1>2, <3>0, <3>1 DEF ProcessType, Are, Is
      <3>4. g = Fresh
        <4>1. SUFFICES ASSUME g # Fresh PROVE FALSE
          OBVIOUS
        <4>2. g \in Are("gateway")
          BY <1>2, <1>3, <3>1, <3>3, <4>1 DEF Are, Is, Alive
        <4>3. PICK d \in Are("dog") : proc[d].child = g
          BY <1>3, <4>2
        <4>4. d = e
          BY <1>1 DEF OneDog
        <4>5. QED
          BY <1>1, <1>3, <3>2, <4>3, <4>4
      <3>5. proc'[e].child = g /\ proc'[e] \in ProcessType /\ proc'[e].kind = "dog"
        <4>1. g \in 0..MaxPid /\ proc[e].kind = "dog"
          BY <1>3, <3>1 DEF Pids, Is
        <4>2. QED
          BY <3>0, <3>1, <3>4, <4>1 DEF ProcessType
      <3>6. e \in Are("dog")'
        BY <3>0, <3>5, LifecycleAssumption DEF Are, Is, Alive
      <3>7. QED
        BY <3>5, <3>6
    <2>2. CASE ~Launch(e)
      <3>1. g \in Are("gateway")
        BY <1>1, <1>2, <1>6, <2>2, FileTypes, DogTame, TameWanes DEF DogStep, Are, Waning
      <3>2. PICK d \in Are("dog") : proc[d].child = g
        BY <1>3, <3>1
      <3>3. d = e
        BY <1>1 DEF OneDog
      <3>4. QED
        BY <1>1, <1>3, <1>6, <2>2, <3>2, <3>3, DogLeaves
    <2>3. QED
      BY <2>1, <2>2
  <1>7. ASSUME NEW t \in Threads, ThreadStep(t), ~StartLaunch(t) PROVE \E d \in Are("dog")' : proc'[d].child = g
    <2>1. g \in Are("gateway")
      BY <1>1, <1>2, <1>7, ThreadTame, TameWanes DEF ThreadStep, Waning
    <2>2. PICK d \in Are("dog") : proc[d].child = g
      BY <1>3, <2>1
    <2>3. d \in Pids /\ proc[d] \in ProcessType /\ proc[d] # None /\ proc[d].kind = "dog"
      BY <1>1, Running DEF Are, Is, Alive
    <2>4. proc[d].pc # "boot"
      BY <1>1, <1>3, <2>2 DEF Childless
    <2>5. proc'[d] = proc[d] \/ proc'[d] = [proc[d] EXCEPT !.termed = TRUE]
      BY <1>1, <1>7, <2>4, ThreadDogs
    <2>6. proc'[d] \in ProcessType /\ proc'[d].kind = "dog" /\ proc'[d].child = g
      BY <2>2, <2>3, <2>5 DEF ProcessType
    <2>7. d \in Are("dog")'
      BY <2>3, <2>6, LifecycleAssumption DEF Are, Is, Alive
    <2>8. QED
      BY <2>6, <2>7
  <1>8. CASE Reboot
    BY <1>3, <1>8 DEF Reboot
  <1>9. QED
    BY <1>4, <1>5, <1>6, <1>7, <1>8, StepDogs

\* Who halts is alone in changing something.
LEMMA HaltsAlone ==
    ASSUME IInv, Orderly, Clear, NEW t \in Threads, thr[t].at \in Halts, NEW u \in Threads, Changing(u)
    PROVE  u = t
  <1>1. Coherent(t) /\ Alone(t, u) /\ Active(u)
    BY DEF Orderly, Changing, Active
  <1>2. Halting(t) \/ Orphaned(t)
    BY <1>1 DEF Coherent, Resting, Starting, Probing, Handling, HostStart, HostProbe, BoxStart, Halts
  <1>3. Changing(t)
    BY <1>2, LifecycleAssumption DEF Halting, Orphaned, Changing, Ops, Scripts
  <1>4. QED
    BY <1>1, <1>3 DEF Alone, Clear, Free

LEMMA HaltsGo ==
    ASSUME IInv, NEW t \in Threads, ThreadStep(t), thr[t].at \in Halts
    PROVE  HostScript(t) /\ (thr'[t].at \in Halts \/ StopAwaitDog(t))
  <1>1. HostScript(t)
    BY DEF ThreadStep, Halts, BoxScript, BoxSignal, BoxKill, BoxCheck, BoxRun, BoxStop, BoxStopGateway, BoxStopDog, BoxStatus,
           Handler, Checked, Restarting, Report, SaveConnector, Update, UpdateRaw, Reconcile, Reload, Delete, DeleteBox, Create, DockerEnds,
           Ended, Outcomes, At
  <1>2. CASE Look(t) \/ Fix(t)
    <2>1. ASSUME NEW p \in 0..MaxPid, Found(t, p), thr[t].at \in DOMAIN Finds PROVE thr'[t].at \in Halts
      BY <2>1, FoundMoves, FindsDomain DEF Finds, Halts
    <2>2. Fix(t) => thr[t].at \in DOMAIN Finds /\ thr[t].fix \in 0..MaxPid /\ Found(t, thr[t].fix)
      BY DEF Fix, IInv, Keeps, TypeOK, RequestType
    <2>3. Look(t) => thr'[t].at \in Halts
      BY <2>1, LookMoves
    <2>4. QED
      BY <1>1, <1>2, <2>1, <2>2, <2>3
  <1>3. CASE StopFallback(t)
    BY <1>1, <1>3, FallbackMoves DEF Halts
  <1>4. CASE StopSignalDog(t) \/ StopSignalGateway(t) \/ StopAwaitGateway(t)
    BY <1>1, <1>4, GotoSteps DEF StopSignalDog, StopSignalGateway, StopAwaitGateway, Steps, Halts, Places
  <1>5. CASE StopAwaitDog(t)
    BY <1>1, <1>5
  <1>6. QED
    BY <1>1, <1>2, <1>3, <1>4, <1>5
       DEF HostScript, StartRemove, StartClear, StartLaunch, StartNote, GiveUp, StopAny, StopForget, StopClear, At, Halts

\* Only stop.sh says that a stop is under way.
LEMMA StopSaid ==
    ASSUME IInv, NEW t \in Threads, ThreadStep(t), stopfile', ~stopfile
    PROVE  thr'[t].at = "stopFindDog" /\ thr[t].at = "stopAny"
  <1>1. CASE HostScript(t)
    <2>1. StopAny(t)
      BY <1>1 DEF HostScript, Look, Fix, StartRemove, StartClear, StartLaunch, StartNote, GiveUp, StopAny, StopFallback,
                  StopSignalDog, StopSignalGateway, StopAwaitGateway, StopAwaitDog, StopForget, StopClear, files
    <2>2. Goto(t, "stopFindDog") /\ At(t, "stopAny")
      BY <2>1 DEF StopAny
    <2>3. QED
      BY <2>2, GotoSteps, FindsDomain DEF Steps, Places, At
  <1>2. CASE BoxScript(t)
    BY <1>2 DEF BoxScript, BoxSignal, BoxKill, BoxCheck, BoxRun, BoxStop, BoxStopGateway, BoxStopDog, BoxStatus, files
  <1>3. CASE Handler(t)
    BY <1>3 DEF Handler, Checked, Restarting, Report, SaveConnector, Update, UpdateRaw, SaveMode, Reconcile, Reload, Delete,
                DeleteBox, Create, DockerEnds, files
  <1>4. QED
    BY <1>1, <1>2, <1>3 DEF ThreadStep

LEMMA ThreadMoves ==
    ASSUME IInv, NEW t \in Threads, ThreadStep(t)
    PROVE  Moves(t)
  BY HostScriptMoves, BoxScriptMoves, HandlerMoves DEF ThreadStep, ScriptMoves

\* A watchdog that is asked to end has a script that waits for it.
LEMMA NextPursued ==
    ASSUME IInv, Orderly, Apart, Tended, Steady, [Next]_vars, Clear'
    PROVE  Pursued'
  <1>1. /\ Clear /\ Free({"overlap"}) /\ Free({"left"})' /\ Pursued /\ Houses /\ OneDog /\ MachineOK
        /\ \A t \in Threads : Promises(t) /\ Claims(t) /\ Claims(t)'
    BY ClearBefore, FileTypes, NextClaims DEF Steady, Tended
  <1>2. SUFFICES ASSUME NEW d \in Are("dog")', proc'[d].termed \/ stopfile' PROVE \E u \in Threads : thr'[u].at \in Halts
    BY DEF Pursued
  <1>3. CASE \E t \in Threads : StartLaunch(t)
    <2>1. PICK t \in Threads : StartLaunch(t)
      BY <1>3
    <2>2. d = Fresh /\ stopfile' = stopfile
      BY <1>1, <1>2, <2>1, LaunchDogs DEF Claims, Bare, files
    <2>3. ~stopfile /\ ~proc'[d].termed
      BY <1>1, <2>1, <2>2, LaunchDogs DEF Promises, Process
    <2>4. QED
      BY <1>2, <2>2, <2>3
  <1>4. CASE \A t \in Threads : ~StartLaunch(t)
    <2>1. d \in Are("dog")
      BY <1>2, <1>4, NextEbbs DEF Ebb
    <2>2. proc[d].termed \/ stopfile => \E u \in Threads : thr[u].at \in Halts
      BY <1>1, <2>1 DEF Pursued
    <2>3. ASSUME NEW e \in Are("dog"), DogStep(e) PROVE \E u \in Threads : thr'[u].at \in Halts
      <3>1. e = d /\ thr' = thr
        BY <1>1, <2>1, <2>3 DEF OneDog, DogStep
      <3>2. proc[d].termed \/ stopfile
        BY <1>2, <2>3, <3>1, DogTermed
      <3>3. QED
        BY <2>2, <3>1, <3>2
    <2>4. ASSUME NEW t \in Threads, ThreadStep(t) PROVE \E u \in Threads : thr'[u].at \in Halts
      <3>1. CASE proc[d].termed \/ stopfile
        <4>1. PICK u \in Threads : thr[u].at \in Halts
          BY <2>2, <3>1
        <4>2. CASE u # t
          BY <2>4, <4>1, <4>2, ThreadMoves DEF Moves
        <4>3. CASE u = t
          <5>1. thr'[u].at = "stopForget" => FALSE
            BY <1>1, <1>2, ClearBefore DEF Claims, Bare, Clear, Free
          <5>2. StopAwaitDog(u) => thr'[u].at = "stopForget"
            BY GotoSteps DEF StopAwaitDog, Steps, Places
          <5>3. QED
            BY <2>4, <4>1, <4>3, <5>1, <5>2, HaltsGo
        <4>4. QED
          BY <4>2, <4>3
      <3>2. CASE ~proc[d].termed /\ ~stopfile
        <4>1. CASE stopfile'
          <5>1. thr'[t].at = "stopFindDog"
            BY <2>4, <3>2, <4>1, StopSaid
          <5>2. QED
            BY <5>1 DEF Halts
        <4>2. CASE ~stopfile'
          <5>1. proc'[d] # proc[d]
            BY <1>2, <3>2, <4>2
          <5>2. StopSignalDog(t)
            BY <1>1, <1>4, <2>1, <2>4, <5>1, ThreadDogs
          <5>3. thr'[t].at = "stopSignalGateway"
            BY <5>2, GotoSteps DEF StopSignalDog, Steps, Places
          <5>4. QED
            BY <5>3 DEF Halts
        <4>3. QED
          BY <4>1, <4>2
      <3>3. QED
        BY <3>1, <3>2
    <2>5. CASE Reboot
      BY <1>2, <2>5 DEF Reboot, Are, Is, Alive
    <2>6. CASE RestDogs /\ UNCHANGED files /\ (thr' = thr \/ \E t \in Threads : Cut(t) \/ ProbeFails(t) \/ \E op \in Ops : Begin(t, op))
      <3>1. PICK u \in Threads : thr[u].at \in Halts
        <4>1. proc'[d] = proc[d] /\ stopfile' = stopfile
          BY <2>1, <2>6 DEF RestDogs, files
        <4>2. QED
          BY <1>2, <2>2, <4>1
      <3>2. ASSUME NEW t \in Threads, Cut(t) \/ ProbeFails(t) PROVE thr'[u].at \in Halts
        <4>1. stopfile
          BY <1>1, <2>1, <3>1 DEF Promises
        <4>2. CASE u # t
          BY <3>1, <3>2, <4>2, CutMoves, ProbeMoves DEF Moves
        <4>3. CASE u = t /\ Cut(t)
          <5>1. Survives(t)
            BY <1>1, <4>1, <4>3, CutMoves DEF Cut, Free
          <5>2. QED
            BY <3>1, <4>3, <5>1 DEF Survives
        <4>4. CASE u = t /\ ProbeFails(t)
          <5>1. Coherent(t) /\ (thr[t].stage = "probe" \/ thr[t].op = "status")
            BY <4>4, ProbeMoves DEF Orderly
          <5>2. QED
            BY <3>1, <4>4, <5>1, LifecycleAssumption
               DEF Coherent, Resting, Orphaned, Starting, Halting, Probing, Handling, HostProbe, Halts, Ops, Scripts
        <4>5. QED
          BY <3>2, <4>2, <4>3, <4>4
      <3>3. ASSUME NEW t \in Threads, NEW op \in Ops, Begin(t, op) PROVE u # t /\ thr'[u] = thr[u]
        BY <3>1, <3>3, FirstMoves DEF At, Moves, Halts
      <3>4. QED
        BY <2>6, <3>1, <3>2, <3>3
    <2>7. QED
      BY <2>3, <2>4, <2>5, <2>6, StepDogs
  <1>5. QED
    BY <1>3, <1>4

\* While nobody stops the instance, its watchdog stays.
LEMMA DogsStay ==
    ASSUME IInv, Orderly, Apart, Tended, Steady, [Next]_vars, Clear', ~Reboot, \A u \in Threads : thr[u].at \notin Halts
    PROVE  Are("dog") \subseteq Are("dog")'
  <1>1. Clear /\ Free({"overlap"}) /\ Free({"slip"})' /\ Childless /\ Pursued /\ Houses /\ OneDog /\ MachineOK
    BY ClearBefore, FileTypes DEF Steady, Tended
  <1>2. SUFFICES ASSUME NEW d \in Are("dog") PROVE d \in Are("dog")'
    OBVIOUS
  <1>3. /\ ~proc[d].termed /\ ~stopfile
        /\ d \in Pids /\ proc[d] # None /\ proc[d].kind = "dog" /\ proc[d] \in ProcessType
    BY <1>1, Running DEF Pursued, Are, Is, Alive
  <1>4. ASSUME proc'[d] = proc[d] PROVE d \in Are("dog")'
    BY <1>3, <1>4 DEF Are, Is, Alive
  <1>5. CASE \E t \in Threads : StartLaunch(t)
    BY <1>4, <1>5, LaunchDogs DEF RestDogs
  <1>6. ASSUME NEW e \in Are("dog"), DogStep(e) PROVE d \in Are("dog")'
    <2>1. e = d
      BY <1>1 DEF OneDog
    <2>2. CASE Launch(d)
      <3>1. proc'[d] = [proc[d] EXCEPT !.pc = "forked", !.child = Fresh] /\ Fresh \in Pids
        BY <1>1, <1>3, <2>2, LaunchBears
      <3>2. Fresh \in 0..MaxPid
        BY <3>1, LifecycleAssumption DEF Pids
      <3>3. proc'[d] \in ProcessType /\ proc'[d].kind = "dog"
        BY <1>3, <3>1, <3>2 DEF ProcessType
      <3>4. QED
        BY <1>3, <3>3, LifecycleAssumption DEF Are, Is, Alive
    <2>3. CASE ~Launch(d)
      BY <1>1, <1>3, <1>6, <2>1, <2>3, DogLeaves
    <2>4. QED
      BY <2>2, <2>3
  <1>7. ASSUME NEW t \in Threads, ThreadStep(t), ~StartLaunch(t) PROVE d \in Are("dog")'
    BY <1>1, <1>4, <1>7, ThreadDogs DEF At, Halts
  <1>8. QED
    BY <1>4, <1>5, <1>6, <1>7, StepDogs DEF RestDogs

\* A change of mode finds no watchdog that has been asked to end, since no stop is under way beside it.
LEMMA NextHouses ==
    ASSUME IInv, Orderly, Apart, Tended, Steady, [Next]_vars, Clear'
    PROVE  Houses'
  <1>1. Clear /\ Free({"overlap"}) /\ Free({"switch"})' /\ Pursued /\ Houses /\ MachineOK
    BY ClearBefore, FileTypes DEF Steady, Clear, Free
  <1>2. SUFFICES ASSUME mode' = "sandbox" PROVE Are("dog")' = {}
    BY DEF Houses
  <1>3. CASE mode' = mode
    <2>1. Are("dog") = {}
      BY <1>1, <1>2, <1>3 DEF Houses
    <2>2. ASSUME NEW t \in Threads, StartLaunch(t) PROVE FALSE
      <3>1. thr[t].at = "startLaunch"
        BY <2>2 DEF StartLaunch, At
      <3>2. Changing(t) /\ RightMode(t)
        BY <3>1, RelyingActive DEF Orderly, Relying, Bare
      <3>3. QED
        BY <1>1, <1>2, <1>3, <3>1, <3>2 DEF RightMode, HostPlaces, HostStart
    <2>3. QED
      BY <2>1, <2>2, NextEbbs DEF Ebb
  <1>4. CASE mode' # mode
    <2>1. PICK t \in Threads : NewConfig(mode') /\ UNCHANGED machine /\ At(t, "handler") /\ thr[t].op # "reload"
      BY <1>4, NextMode
    <2>2. Watching = {}
      BY <1>1, <2>1 DEF NewConfig, Free
    <2>3. Changing(t)
      <3>1. Handling(t)
        BY <2>1 DEF Orderly, At, Coherent, Resting, Orphaned, Starting, Halting, Probing, HostStart, HostStop, HostProbe, BoxStart, BoxHalt
      <3>2. QED
        BY <2>1, <3>1, LifecycleAssumption DEF Handling, Changing, Ops, Scripts
    <2>4. Are("dog") = {}
      <3>1. SUFFICES ASSUME NEW d \in Are("dog") PROVE FALSE
        OBVIOUS
      <3>2. proc[d].termed
        BY <2>2 DEF Watching
      <3>3. PICK u \in Threads : thr[u].at \in Halts
        BY <1>1, <3>2 DEF Pursued
      <3>4. QED
        BY <1>1, <2>1, <2>3, <3>3, HaltsAlone DEF At, Halts
    <2>5. QED
      BY <2>1, <2>4 DEF machine, Are, Is, Alive
  <1>5. QED
    BY <1>3, <1>4

----------------------------------------------------------------------------
\* What the scripts promise.

\* The places of the operations that change something, and those at which a promise is made.
Busy == HostStart \cup HostStop \cup BoxStart \cup BoxHalt \cup {"started", "already", "reconcile", "deleteBox",
         "lateRemove"}
Depends == Halts \cup Launched \cup {"startRunning", "startWatched", "startLaunch", "started", "already"}

LEMMA BusyChanging ==
    ASSUME Orderly, NEW t \in Threads, thr[t].at \in Busy \/ (thr[t].at = "handler" /\ thr[t].op # "reload")
    PROVE  Changing(t)
  <1>1. Coherent(t)
    BY DEF Orderly
  <1>2. Orphaned(t) \/ (Starting(t) /\ thr[t].op \in {"start", "restart"})
        \/ (Halting(t) /\ thr[t].op \in {"stop", "restart"}) \/ Handling(t)
    BY <1>1
       DEF Coherent, Resting, Starting, Halting, Probing, Handling, Busy, HostStart, HostStop, HostProbe, BoxStart, BoxHalt
  <1>3. Handling(t) => thr[t].op \notin {None, "reload", "status"}
    <2>1. Handling(t) => thr[t].op \in Ops \ {"status"} /\ thr[t].op # "reload"
      BY DEF Handling, Busy, HostStart, HostStop, BoxStart, BoxHalt
    <2>2. QED
      BY <2>1, LifecycleAssumption
  <1>4. Orphaned(t) \/ thr[t].op \in {"start", "stop", "restart"} => thr[t].op \notin {None, "reload", "status"}
    BY LifecycleAssumption DEF Orphaned, Ops, Scripts
  <1>5. QED
    BY <1>2, <1>3, <1>4 DEF Changing

\* Only one thread is at such a place.
LEMMA BusyAlone ==
    ASSUME Orderly, Clear, NEW t \in Threads, thr[t].at \in Busy,
           NEW u \in Threads, thr[u].at \in Busy \/ (thr[u].at = "handler" /\ thr[u].op # "reload")
    PROVE  u = t
  <1>1. Changing(t) /\ Changing(u) /\ Active(u) /\ Alone(t, u)
    BY BusyChanging DEF Orderly, Changing, Active
  <1>2. QED
    BY <1>1 DEF Alone, Clear, Free

LEMMA DependsBusy == Depends \subseteq Busy
  BY DEF Depends, Busy, Halts, Launched, HostStart, HostStop

\* A start works in its mode.
LEMMA StartMode ==
    ASSUME Orderly, Clear, NEW t \in Threads
    PROVE  /\ thr[t].at \in HostStart => mode = "host"
           /\ thr[t].at \in BoxStart => mode = "sandbox"
  <1>1. RightMode(t) /\ (thr[t].at \in HostStart \cup BoxStart => Changing(t))
    BY BusyChanging DEF Orderly, Busy
  <1>2. QED
    BY <1>1 DEF RightMode, Clear, Free, HostPlaces, BoxPlaces

\* Who takes back the word that a stop is under way, and who removes the container.
LEMMA StopCleared ==
    ASSUME NEW t \in Threads, ThreadStep(t), stopfile, ~stopfile'
    PROVE  thr[t].at \in {"startClear", "stopClear", "boxCheck", "boxStopDog"}
  <1>1. CASE HostScript(t)
    BY <1>1 DEF HostScript, Look, Fix, StartRemove, StartClear, StartLaunch, StartNote, GiveUp, StopAny, StopFallback,
                StopSignalDog, StopSignalGateway, StopAwaitGateway, StopAwaitDog, StopForget, StopClear, files, At
  <1>2. CASE BoxScript(t)
    BY <1>2 DEF BoxScript, BoxSignal, BoxKill, BoxCheck, BoxRun, BoxStop, BoxStopGateway, BoxStopDog, BoxStatus, files, At
  <1>3. CASE Handler(t)
    BY <1>3 DEF Handler, Checked, Restarting, Report, SaveConnector, Update, UpdateRaw, SaveMode, Reconcile, Reload, Delete,
                DeleteBox, Create, DockerEnds, files
  <1>4. QED
    BY <1>1, <1>2, <1>3 DEF ThreadStep

LEMMA BoxRemoved ==
    ASSUME NEW t \in Threads, ThreadStep(t), container' = "none", container # "none"
    PROVE  thr[t].at \in {"startContainer", "stopAny", "stopClear", "boxCheck", "boxStop", "reconcile", "deleteBox", "lateRemove"}
  <1>1. CASE HostScript(t)
    BY <1>1 DEF HostScript, Look, Fix, StartRemove, StartClear, StartLaunch, StartNote, GiveUp, StopAny, StopFallback,
                StopSignalDog, StopSignalGateway, StopAwaitGateway, StopAwaitDog, StopForget, StopClear, box, At
  <1>2. CASE BoxScript(t)
    BY <1>2 DEF BoxScript, BoxSignal, BoxKill, BoxCheck, BoxRun, BoxStop, BoxStopGateway, BoxStopDog, BoxStatus, box, At
  <1>3. CASE Handler(t)
    BY <1>3 DEF Handler, Checked, Restarting, Report, SaveConnector, Update, UpdateRaw, SaveMode, Reconcile, Reload, Delete,
                DeleteBox, Create, DockerEnds, box, At
  <1>4. QED
    BY <1>1, <1>2, <1>3 DEF ThreadStep

\* Whoever does not move keeps what it has promised.
LEMMA RestPromises ==
    ASSUME IInv, Orderly, Apart, Tended, Steady, [Next]_vars, Clear', ~Reboot, NEW u \in Threads,
           thr'[u].at = thr[u].at, thr'[u].fix = thr[u].fix
    PROVE  Promises(u)'
  <1>1. /\ Clear /\ Free({"overlap"}) /\ OneDog /\ Promises(u) /\ Claims(u)
    BY ClearBefore DEF Steady, Tended
  <1>2. CASE thr[u].at \notin Depends
    BY <1>2 DEF Promises, Promised, Depends, Halts, Launched
  <1>3. CASE thr[u].at \in Depends
    <2>1. thr[u].at \in Busy
      BY <1>3, DependsBusy
    <2>2. ASSUME NEW v \in Threads, thr[v].at \in Busy \/ (thr[v].at = "handler" /\ thr[v].op # "reload") PROVE v = u
      BY <1>1, <2>1, <2>2, BusyAlone
    <2>3. \A v \in Threads : ~StartLaunch(v) /\ ~BoxRun(v)
      <3>1. ~StartLaunch(u) /\ ~BoxRun(u)
        BY NoLaunch
      <3>2. \A v \in Threads : StartLaunch(v) \/ BoxRun(v) => thr[v].at \in Busy
        BY DEF StartLaunch, BoxRun, At, Busy, HostStart, BoxStart
      <3>3. QED
        BY <2>2, <3>1, <3>2
    <2>4. mode' = mode
      <3>1. ASSUME NEW v \in Threads, At(v, "handler"), thr[v].op # "reload" PROVE FALSE
        BY <1>3, <2>2, <3>1 DEF At, Depends, Halts, Launched
      <3>2. QED
        BY <3>1, NextMode
    <2>5. Are("dog")' \subseteq Are("dog")
      BY <2>3, NextEbbs DEF Ebb
    <2>6. thr[u].at \in Halts /\ Are("dog")' # {} => stopfile'
      <3>1. SUFFICES ASSUME thr[u].at \in Halts, Are("dog")' # {}, ~stopfile' PROVE FALSE
        BY FileTypes DEF FilesOK
      <3>2. stopfile
        BY <1>1, <2>5, <3>1 DEF Promises
      <3>3. ASSUME NEW d \in Are("dog"), DogStep(d) PROVE FALSE
        <4>1. d \notin Are("dog")'
          BY <3>1, <3>2, <3>3, DogTermed
        <4>2. QED
          BY <1>1, <2>5, <3>1, <4>1 DEF OneDog
      <3>4. ASSUME NEW v \in Threads, ThreadStep(v) PROVE FALSE
        <4>1. thr[v].at \in {"startClear", "stopClear", "boxCheck", "boxStopDog"}
          BY <3>1, <3>2, <3>4, StopCleared
        <4>2. v = u
          BY <2>2, <4>1 DEF Busy, HostStart, HostStop, BoxStart, BoxHalt
        <4>3. QED
          BY <3>1, <4>1, <4>2 DEF Halts
      <3>5. QED
        BY <3>1, <3>2, <3>3, <3>4, StepDogs DEF files
    <2>7. thr[u].at = "startLaunch" => ~stopfile'
      <3>1. SUFFICES ASSUME thr[u].at = "startLaunch", stopfile' PROVE FALSE
        OBVIOUS
      <3>2. ~stopfile /\ Are("dog") = {}
        BY <1>1, <3>1 DEF Promises, Claims, Bare
      <3>3. ASSUME NEW v \in Threads, ThreadStep(v) PROVE FALSE
        <4>1. thr[v].at = "stopAny"
          BY <3>1, <3>2, <3>3, StopSaid
        <4>2. v = u
          BY <2>2, <4>1 DEF Busy, HostStop
        <4>3. QED
          BY <3>1, <4>1, <4>2
      <3>4. QED
        BY <3>1, <3>2, <3>3, StepDogs DEF files
    <2>8. Promised(u)' => Are("dog")' # {}
      <3>1. SUFFICES ASSUME Promised(u)' PROVE Are("dog")' # {}
        OBVIOUS
      <3>2. Promised(u) /\ thr[u].at \notin Halts
        BY <2>4, <3>1 DEF Promised, Launched, Halts
      <3>3. Halts \subseteq Busy
        BY DEF Halts, Busy, HostStop
      <3>4. \A v \in Threads : thr[v].at \notin Halts
        BY <2>2, <3>2, <3>3
      <3>5. Are("dog") \subseteq Are("dog")'
        BY <3>4, DogsStay
      <3>6. QED
        BY <1>1, <3>2, <3>5 DEF Promises
    <2>9. thr[u].at \in {"started", "already"} /\ mode' = "sandbox" => container' # "none"
      <3>1. SUFFICES ASSUME thr[u].at \in {"started", "already"}, mode' = "sandbox", container' = "none" PROVE FALSE
        OBVIOUS
      <3>2. container # "none"
        BY <1>1, <2>4, <3>1 DEF Promises
      <3>3. ASSUME NEW v \in Threads, ThreadStep(v) PROVE FALSE
        <4>1. thr[v].at \in {"startContainer", "stopAny", "stopClear", "boxCheck", "boxStop", "reconcile", "deleteBox",
                             "lateRemove"}
          BY <3>1, <3>2, <3>3, BoxRemoved
        <4>2. v = u
          BY <2>2, <4>1 DEF Busy, HostStart, HostStop, BoxStart, BoxHalt
        <4>3. QED
          BY <3>1, <4>1, <4>2
      <3>4. QED
        BY <3>1, <3>2, <3>3, StepDogs DEF DogStep, box
    <2>10. QED
      BY <2>6, <2>7, <2>8, <2>9 DEF Promises
  <1>4. QED
    BY <1>2, <1>3

\* A script that has looked promises no more than it has found.
LEMMA FoundPromises ==
    ASSUME IInv, Orderly, Clear, NEW t \in Threads, NEW p \in 0..MaxPid, thr[t].at \in DOMAIN Finds, Found(t, p), Promises(t),
           UNCHANGED <<mode, stopfile, proc>>,
           p # 0 /\ thr[t].at \in {"startRunning", "startWatched"} => Are("dog") # {}
    PROVE  Promises(t)'
  <1>1. thr'[t].fix = None /\ thr'[t].at = (IF p = 0 THEN Finds[thr[t].at][3] ELSE Finds[thr[t].at][2])
    BY FoundMoves
  <1>2. /\ thr'[t].at \in Halts => thr[t].at \in Halts
        /\ thr'[t].at # "startLaunch"
        /\ thr'[t].at \in Launched => thr[t].at \in Launched \/ (thr[t].at = "startRunning" /\ p # 0)
        /\ thr'[t].at \in {"started", "already"} => thr[t].at \in Launched \/ (thr[t].at = "startWatched" /\ p # 0)
    BY <1>1, FindsDomain DEF Finds, Halts, Launched
  <1>3. Are("dog")' = Are("dog")
    BY DEF Are, Is, Alive
  <1>4. Promised(t)' => Are("dog") # {}
    BY <1>1, <1>2 DEF Promised, Promises
  <1>5. thr'[t].at \in {"started", "already"} => mode = "host"
    BY <1>2, StartMode DEF Launched, HostStart
  <1>6. QED
    BY <1>2, <1>3, <1>4, <1>5 DEF Promises

LEMMA LookPromises ==
    ASSUME IInv, Orderly, Clear, Minded, NEW t \in Threads, Promises(t), Look(t) \/ Fix(t)
    PROVE  Promises(t)'
  <1>1. UNCHANGED <<mode, stopfile, proc, container>> /\ thr[t].at \in DOMAIN Finds
    BY DEF Look, Fix, config, files, machine, box, IInv, Keeps
  <1>2. ASSUME NEW p, NEW kind \in {"dog", "gateway"}, p \in Are(kind) PROVE Are("dog") # {}
    BY <1>2 DEF Minded
  <1>3. CASE Fix(t)
    <2>1. thr[t].fix \in 0..MaxPid /\ thr[t].fix # None /\ Found(t, thr[t].fix)
      BY <1>3 DEF Fix, IInv, TypeOK, RequestType
    <2>2. thr[t].fix # 0 /\ thr[t].at \in {"startRunning", "startWatched"} => Are("dog") # {}
      BY <2>1 DEF Promises, Promised
    <2>3. QED
      BY <1>1, <2>1, <2>2, FoundPromises
  <1>4. CASE Look(t)
    <2> DEFINE kind == Finds[thr[t].at][1]
    <2>1. kind \in {"dog", "gateway"}
      BY <1>1, FindsType
    <2>2. CASE Trusted(kind, FileOf(kind)) /\ FileOf(kind) \in 0..MaxPid /\ Found(t, FileOf(kind))
      <3>1. FileOf(kind) \in Are(kind)
        BY <2>2 DEF Trusted, Are, Is, Alive
      <3>2. QED
        BY <1>1, <1>2, <2>1, <2>2, <3>1, FoundPromises
    <2>3. CASE /\ Moves(t) /\ GoesOn(t) /\ thr'[t].at = thr[t].at
               /\ IF Are(kind) = {} THEN thr'[t].fix = 0 ELSE thr'[t].fix \in Are(kind)
      <3>1. thr'[t].fix # 0 => Are("dog") # {}
        BY <1>2, <2>1, <2>3
      <3>2. Are("dog")' = Are("dog")
        BY <1>1 DEF Are, Is, Alive
      <3>3. Promised(t)' => Are("dog") # {}
        BY <1>1, <2>3, <3>1 DEF Promises, Promised
      <3>4. QED
        BY <1>1, <2>3, <3>2, <3>3 DEF Promises
    <2>4. QED
      BY <1>4, <2>2, <2>3, LookMoves
  <1>5. QED
    BY <1>3, <1>4

LEMMA HostPromises ==
    ASSUME IInv, Orderly, Apart, Tended, Steady, [Next]_vars, Clear', NEW t \in Threads, ThreadStep(t), HostScript(t)
    PROVE  Promises(t)'
  <1>1. Clear /\ Minded /\ Promises(t)
    BY ClearBefore DEF Steady
  <1>2. CASE Look(t) \/ Fix(t)
    BY <1>1, <1>2, LookPromises
  <1>3. CASE StartLaunch(t)
    <2>1. Are("dog")' # {} /\ thr'[t].at = "startNote"
      BY <1>3, LaunchDogs
    <2>2. QED
      BY <2>1 DEF Promises, Halts
  <1>4. CASE StartClear(t)
    <2>1. thr'[t].at = "startLaunch" /\ ~stopfile'
      BY <1>4, GotoSteps DEF StartClear, Steps, Places
    <2>2. QED
      BY <2>1 DEF Promises, Promised, Halts, Launched
  <1>5. CASE StartNote(t) \/ GiveUp(t)
    <2>1. thr'[t].at \in {"awaitDog", "lateDog"} /\ thr[t].at \in Launched /\ UNCHANGED proc
      BY <1>5, GotoSteps, FindsDomain DEF StartNote, GiveUp, At, Steps, Places, Launched, machine
    <2>2. Are("dog")' = Are("dog") /\ Are("dog") # {}
      BY <1>1, <2>1 DEF Promises, Promised, Are, Is, Alive
    <2>3. QED
      BY <2>1, <2>2 DEF Promises, Halts
  <1>6. CASE StopAny(t)
    <2>1. thr'[t].at = "stopped" \/ (thr'[t].at = "stopFindDog" /\ stopfile')
      BY <1>6, GotoSteps, FindsDomain DEF StopAny, Steps, Places, Outcomes
    <2>2. QED
      BY <2>1 DEF Promises, Promised, Halts, Launched
  <1>7. CASE StopFallback(t) \/ StopSignalDog(t) \/ StopSignalGateway(t) \/ StopAwaitGateway(t)
    <2>1. thr'[t].at \in Halts /\ thr[t].at \in Halts /\ UNCHANGED stopfile
      BY <1>7, FallbackMoves, GotoSteps
         DEF StopFallback, StopSignalDog, StopSignalGateway, StopAwaitGateway, At, Steps, Places, Halts, files
    <2>2. ~StartLaunch(t) /\ MachineOK
      BY <2>1, FileTypes DEF StartLaunch, At, Halts
    <2>3. Are("dog")' \subseteq Are("dog")
      BY <2>2, ThreadTame, TameWanes DEF Waning
    <2>4. QED
      BY <1>1, <2>1, <2>3 DEF Promises, Promised, Halts, Launched
  <1>8. CASE StartRemove(t) \/ StopAwaitDog(t) \/ StopForget(t) \/ StopClear(t)
    <2>1. thr'[t].at \in {"startDog", "stopForget", "stopClear", "stopped"}
      BY <1>8, GotoSteps, FindsDomain DEF StartRemove, StopAwaitDog, StopForget, StopClear, Steps, Places, Outcomes
    <2>2. QED
      BY <2>1 DEF Promises, Promised, Halts, Launched
  <1>9. QED
    BY <1>2, <1>3, <1>4, <1>5, <1>6, <1>7, <1>8 DEF HostScript

LEMMA BoxPromises ==
    ASSUME IInv, Orderly, Clear, NEW t \in Threads, BoxScript(t)
    PROVE  Promises(t)'
  <1>1. CASE BoxCheck(t) \/ BoxRun(t)
    <2>1. thr[t].at \in {"boxCheck", "boxRun"} /\ thr'[t].at \in {"started", "already", "failed", "boxRun"} /\ mode' = mode
          /\ (thr'[t].at \in {"started", "already"} => container' = "running")
      <3>1. CASE BoxCheck(t)
        BY <3>1, GotoSteps DEF BoxCheck, At, Steps, Places, Outcomes, config, box
      <3>2. CASE BoxRun(t)
        BY <3>2, GotoSteps DEF BoxRun, At, Steps, Places, Outcomes, config, box
      <3>3. QED
        BY <1>1, <3>1, <3>2
    <2>2. mode = "sandbox"
      BY <2>1, StartMode DEF BoxStart
    <2>3. QED
      BY <2>1, <2>2 DEF Promises, Promised, Halts, Launched
  <1>2. CASE BoxSignal(t, "boxGateway", "gateway", "boxGatewayLate") \/ BoxSignal(t, "boxDog", "dog", "boxDogLate")
    <2>1. thr'[t].at \in {"boxGatewayLate", "boxDogLate"}
      BY <1>2, BoxSignalMoves, FindsDomain
    <2>2. QED
      BY <2>1 DEF Promises, Promised, Halts, Launched
  <1>3. CASE \/ BoxKill(t, "boxGatewayLate", "gateway", "boxDog") \/ BoxKill(t, "boxDogLate", "dog", "boxCheck")
             \/ BoxStop(t) \/ BoxStopGateway(t) \/ BoxStopDog(t) \/ BoxStatus(t)
    <2>1. thr'[t].at \in {"boxDog", "boxCheck", "boxRun", "boxStopGateway", "boxStopDog", "stopped", "running"}
      BY <1>3, GotoSteps DEF BoxKill, BoxStop, BoxStopGateway, BoxStopDog, BoxStatus, Steps, Places, Outcomes
    <2>2. QED
      BY <2>1 DEF Promises, Promised, Halts, Launched
  <1>4. QED
    BY <1>1, <1>2, <1>3 DEF BoxScript

LEMMA NextPromises ==
    ASSUME IInv, Orderly, Apart, Tended, Steady, [Next]_vars, Clear', NEW u \in Threads
    PROVE  Promises(u)'
  <1>1. Clear
    BY ClearBefore
  <1>2. ASSUME thr'[u].at \notin Depends PROVE Promises(u)'
    BY <1>2 DEF Promises, Promised, Depends
  <1>3. CASE Reboot
    <2>1. thr'[u].at = "idle"
      BY <1>3, IdleType DEF Reboot
    <2>2. QED
      BY <1>2, <2>1 DEF Depends, Halts, Launched
  <1>4. CASE thr'[u] = thr[u] /\ ~Reboot
    BY <1>4, RestPromises
  <1>5. ASSUME NEW t \in Threads, ThreadStep(t), ~Reboot PROVE Promises(u)'
    <2>1. CASE u # t
      BY <1>4, <1>5, <2>1, ThreadMoves DEF Moves
    <2>2. CASE u = t /\ Handler(t)
      <3>1. thr'[u].at \notin Relying \cup {"stopFindDog", "started", "already", "failed"}
        BY <2>2, HandlerMoves
      <3>2. QED
        BY <1>2, <3>1 DEF Depends, Halts, Launched, Relying, Bare, Caught, Boxless, HostStart
    <2>3. QED
      BY <1>1, <1>5, <2>1, <2>2, HostPromises, BoxPromises DEF ThreadStep
  <1>6. ASSUME NEW t \in Threads, Cut(t) \/ ProbeFails(t) \/ (\E op \in Ops : Begin(t, op)), ~Reboot PROVE Promises(u)'
    <2>1. Moves(t) /\ (thr'[t].at \notin Depends \/ (thr'[t].at = thr[t].at /\ thr'[t].fix = thr[t].fix))
      <3>1. CASE Cut(t)
        BY <3>1, CutMoves, LatePlaces, IdleType DEF Survives, Lingers, Depends, Halts, Launched
      <3>2. CASE ProbeFails(t)
        BY <3>2, ProbeMoves DEF Depends, Halts, Launched
      <3>3. CASE \E op \in Ops : Begin(t, op)
        BY <3>3, FirstMoves, EntryPlaces DEF Depends, Halts, Launched
      <3>4. QED
        BY <1>6, <3>1, <3>2, <3>3
    <2>2. QED
      BY <1>2, <1>6, <2>1, RestPromises DEF Moves
  <1>7. QED
    BY <1>3, <1>4, <1>5, <1>6, StepDogs DEF DogStep

LEMMA InitSteady == Init => Steady
  <1>1. SUFFICES ASSUME Init PROVE Steady
    OBVIOUS
  <1>2. \A k \in {"dog", "gateway"} : Are(k) = {}
    BY <1>1 DEF Init, Are, Is, Alive
  <1>3. \A t \in Threads : thr[t].at = "idle"
    BY <1>1, IdleType DEF Init
  <1>4. Childless /\ Minded /\ Pursued /\ Houses
    BY <1>2 DEF Childless, Minded, Pursued, Houses
  <1>5. \A t \in Threads : Promises(t)
    BY <1>3 DEF Promises, Promised, Halts, Launched
  <1>6. QED
    BY <1>4, <1>5 DEF Steady

LEMMA NextSteady == IInv /\ Orderly /\ Apart /\ Tended /\ Steady /\ [Next]_vars => Steady'
  BY NextChildless, NextMinded, NextPursued, NextHouses, NextPromises DEF Steady

LEMMA AlwaysSteady == Spec => [](IInv /\ Orderly /\ Apart /\ Tended /\ Steady)
  BY InitSteady, NextSteady, InitInv, NextInv, InitOrderly, NextOrderly, InitApart, NextApart, InitTended, NextTended, PTL DEF Spec

\* A start or restart that does not fail leaves a watchdog that is not asked to end, something that
\* serves, or a container that has died since (start.sh, execute_instance_action): a watchdog ends
\* only for a stop under way, and beside a stop no start says anything.
THEOREM StartsHold == Spec => []StartMeansRunning
  <1>1. IInv /\ Orderly /\ Steady => StartMeansRunning
    <2>1. SUFFICES ASSUME IInv, Orderly, Steady, Clear, NEW t \in Threads, Ended(t, "script"), thr[t].op \in {"start", "restart"},
                          ~At(t, "failed")
                   PROVE  Watching # {} \/ Runtimes > 0 \/ container = "exited"
      BY DEF StartMeansRunning, Clear, Free
    <2>2. thr[t].at \in {"started", "already"}
      <3>1. Coherent(t) /\ thr[t].at \in Outcomes /\ thr[t].stage = "script" /\ thr[t].op \notin {None, "stop", "status", "connector"}
        BY <2>1, LifecycleAssumption DEF Orderly, Ended, Ops, Scripts
      <3>2. Starting(t)
        BY <2>1, <3>1, LifecycleAssumption DEF Coherent, Resting, Orphaned, Halting, Probing, Handling, Ops, Scripts
      <3>3. QED
        BY <2>1, <3>1, <3>2, FindsDomain DEF Starting, Outcomes, At, HostStart, BoxStart
    <2>3. Promises(t) /\ Pursued /\ mode \in Modes /\ container \in {"none", "running", "exited"} /\ MachineOK
      BY <2>1, FileTypes DEF Steady, ConfigOK
    <2>4. CASE mode = "host"
      <3>1. PICK d \in Are("dog") : TRUE
        BY <2>2, <2>3, <2>4 DEF Promises, Promised
      <3>2. \A u \in Threads : thr[u].at \notin Halts
        <4>1. Halts \subseteq Busy
          BY DEF Halts, Busy, HostStop
        <4>2. thr[t].at \in Busy /\ thr[t].at \notin Halts
          BY <2>2 DEF Busy, Halts
        <4>3. QED
          BY <2>1, <4>1, <4>2, BusyAlone
      <3>3. d \in Watching
        BY <2>3, <3>1, <3>2 DEF Pursued, Watching
      <3>4. QED
        BY <3>3
    <2>5. CASE mode = "sandbox"
      <3>1. container \in {"running", "exited"}
        BY <2>2, <2>3, <2>5 DEF Promises
      <3>2. container = "running" => Runtimes # 0 /\ Runtimes \in Nat
        BY <2>3, Count DEF Runtimes
      <3>3. QED
        BY <3>1, <3>2
    <2>6. QED
      BY <2>3, <2>4, <2>5 DEF Modes
  <1>2. QED
    BY <1>1, AlwaysSteady, PTL

----------------------------------------------------------------------------
\* What restart_required tells: the invariant.

\* Nothing has happened that excuses the flag.
Frank == Free({"overlap", "probe", "slip", "already", "switch", "blind"})

Told == (\E g \in Serving : proc[g].stale) \/ (container = "running" /\ boxStale) => flag
NoneStale == \A g \in Are("gateway") : ~proc[g].stale

\* A start that goes on has seen that no gateway runs; who says "stopped" that nothing does.
Anew == {"startWatched", "startClear", "startLaunch", "startNote", "awaitDog", "awaitGateway", "lateDog", "lateGateway"}
Knows(t) ==
    /\ \/ thr[t].at \in Anew
       \/ thr[t].at = "startRunning" /\ thr[t].fix = 0
       \/ thr[t].at = "started" /\ mode = "host"
       => NoneStale
    /\ thr[t].at = "started" /\ mode = "sandbox" => ~boxStale
    /\ thr[t].at = "stopped" /\ Changing(t) => /\ mode = "host" => Are("dog") = {}
                                               /\ mode = "sandbox" => container # "running"

Honest == Frank => Told /\ \A t \in Threads : Knows(t)

LEMMA FrankBefore ==
    ASSUME [Next]_vars, Frank'
    PROVE  Frank /\ Free({"overlap"}) /\ Free({"overlap", "slip"}) /\ Free({"overlap", "switch"}) /\ Free({"overlap", "slip", "probe"})
  BY LapsesGrow DEF Frank, Free

----------------------------------------------------------------------------
\* Only a connector's change makes a configuration an old one.

Unaged ==
    \A p \in Pids : Alive(p)' /\ proc'[p].stale => /\ Alive(p) /\ proc[p].stale /\ proc'[p].kind = proc[p].kind
                                                   /\ proc[p].termed => proc'[p].termed

LEMMA TameUnaged ==
    ASSUME Tame, \A p \in Pids : Alive(p) /\ Alive(p)' => proc'[p].stale = proc[p].stale
    PROVE  Unaged
  BY DEF Tame, Firm, Unaged

LEMMA DogAges ==
    ASSUME IInv, NEW d \in Are("dog"), DogStep(d)
    PROVE  Unaged
  <1>1. MachineOK /\ Children /\ d \in Pids /\ proc[d] \in ProcessType /\ proc[d] # None /\ 0 \in 0..MaxPid
        /\ proc \in [Pids -> ProcessType \cup {None}] /\ \A p \in Pids : Alive(p) => proc[p] \in ProcessType
    BY FileTypes, Running, LifecycleAssumption DEF Are, Is, Alive, MachineOK
  <1>2. CASE Launch(d)
    <2>1. /\ \A p \in Pids \ {Fresh, d} : proc'[p] = proc[p]
          /\ proc'[Fresh] = Process("gateway") /\ Fresh \in Pids /\ Fresh # d
          /\ proc'[d] = [proc[d] EXCEPT !.pc = "forked", !.child = Fresh]
      BY <1>1, <1>2, LaunchBears
    <2>2. ~proc'[Fresh].stale
      BY <2>1 DEF Process
    <2>3. proc'[d].stale = proc[d].stale /\ proc'[d].kind = proc[d].kind /\ proc'[d].termed = proc[d].termed
      BY <1>1, <2>1 DEF ProcessType
    <2>4. QED
      BY <1>1, <2>1, <2>2, <2>3 DEF Unaged, Alive
  <1>3. CASE OnTerm(d)
    <2>1. Tame
      BY <1>1, <1>3, DogTame
    <2>2. \A p \in Pids : p # d => proc'[p] = proc[p] \/ (Alive(p) /\ proc'[p] = [proc[p] EXCEPT !.termed = TRUE])
      BY <1>1, <1>3 DEF OnTerm
    <2>3. proc'[d] \in {[proc[d] EXCEPT !.pc = "reap", !.child = 0], [proc[d] EXCEPT !.pc = "reap"]}
      BY <1>1, <1>3 DEF OnTerm
    <2>4. \A p \in Pids : Alive(p) => proc'[p].stale = proc[p].stale
      <3>1. proc'[d].stale = proc[d].stale
        BY <1>1, <2>3 DEF ProcessType
      <3>2. ASSUME NEW p \in Pids, p # d, Alive(p) PROVE proc'[p].stale = proc[p].stale
        BY <1>1, <2>2, <3>2 DEF ProcessType
      <3>3. QED
        BY <3>1, <3>2
    <2>5. QED
      BY <2>1, <2>4, TameUnaged
  <1>4. CASE Attend(d) \/ CheckStop(d) \/ Note(d) \/ Wake(d) \/ Decide(d) \/ Resume(d) \/ Reap(d)
    <2>1. Tame
      BY <1>1, <1>4, DogTame
    <2>2. \A p \in Pids : p # d => proc'[p] = proc[p] \/ proc'[p] = None
      BY <1>1, <1>4 DEF Attend, CheckStop, Note, Wake, Decide, Resume, Reap, Leave
    <2>3. proc'[d] = None \/ proc'[d].stale = proc[d].stale
      BY <1>1, <1>4 DEF Attend, CheckStop, Note, Wake, Decide, Resume, Reap, Leave, ProcessType
    <2>4. QED
      BY <2>1, <2>2, <2>3, TameUnaged DEF Alive
  <1>5. QED
    BY <1>2, <1>3, <1>4 DEF DogStep

LEMMA BornUnaged ==
    ASSUME MachineOK, NEW kind \in {"dog", "other"}, Fresh \in Pids, proc' = [proc EXCEPT ![Fresh] = Process(kind)]
    PROVE  Unaged
  <1>1. \A p \in Pids \ {Fresh} : proc'[p] = proc[p]
    BY Born
  <1>2. ~proc'[Fresh].stale
    BY DEF Process, MachineOK
  <1>3. QED
    BY <1>1, <1>2 DEF Unaged, Alive

LEMMA ThreadAges ==
    ASSUME IInv, NEW t \in Threads, ThreadStep(t), ~SaveConnector(t)
    PROVE  Unaged
  <1>1. MachineOK /\ proc \in [Pids -> ProcessType \cup {None}] /\ \A p \in Pids : Alive(p) => proc[p] \in ProcessType
    BY FileTypes, Running DEF MachineOK
  <1>2. CASE StartLaunch(t)
    BY <1>1, <1>2, BornUnaged DEF StartLaunch
  <1>3. ASSUME ~StartLaunch(t), \A p \in Pids : Alive(p) /\ Alive(p)' => proc'[p].stale = proc[p].stale PROVE Unaged
    BY <1>3, ThreadTame, TameUnaged DEF ThreadStep
  <1>4. ASSUME ~StartLaunch(t), NEW p, NEW s, Signal(p, s) PROVE Unaged
    <2>1. \A q \in Pids : proc'[q] = proc[q] \/ proc'[q] = None \/ (Alive(q) /\ proc'[q] = [proc[q] EXCEPT !.termed = TRUE])
      BY <1>1, <1>4 DEF Signal, Termed
    <2>2. ASSUME NEW q \in Pids, Alive(q), Alive(q)' PROVE proc'[q].stale = proc[q].stale
      BY <1>1, <2>1, <2>2 DEF ProcessType, Alive
    <2>3. QED
      BY <1>3, <1>4, <2>2
  <1>5. ASSUME ~StartLaunch(t), NEW p, Destroy(p) PROVE Unaged
    BY <1>1, <1>3, <1>5 DEF Destroy, Alive
  <1>6. ASSUME ~StartLaunch(t), UNCHANGED machine PROVE Unaged
    BY <1>3, <1>6 DEF machine
  <1>7. CASE StopSignalDog(t) \/ StopSignalGateway(t) \/ StopAwaitGateway(t)
    <2>1. ~StartLaunch(t)
      BY <1>7 DEF StopSignalDog, StopSignalGateway, StopAwaitGateway, StartLaunch, At
    <2>2. QED
      BY <1>4, <1>5, <1>7, <2>1 DEF StopSignalDog, StopSignalGateway, StopAwaitGateway
  <1>8. CASE BoxScript(t)
    <2>1. ~StartLaunch(t)
      BY <1>8 DEF BoxScript, BoxSignal, BoxKill, BoxCheck, BoxRun, BoxStop, BoxStopGateway, BoxStopDog, BoxStatus, StartLaunch, At
    <2>2. QED
      BY <1>4, <1>5, <1>6, <1>8, <2>1
         DEF BoxScript, BoxSignal, BoxKill, BoxCheck, BoxRun, BoxStop, BoxStopGateway, BoxStopDog, BoxStatus
  <1>9. CASE Handler(t)
    <2>1. ~StartLaunch(t)
      BY <1>9 DEF Handler, Checked, Restarting, Report, SaveConnector, Update, UpdateRaw, Reconcile, Reload, Delete, DeleteBox,
                  Create, DockerEnds, Ended, Outcomes, StartLaunch, At
    <2>2. CASE Reload(t)
      BY <1>1, <1>3, <2>1, <2>2 DEF Reload, Alive
    <2>3. CASE ~Reload(t)
      BY <1>6, <1>9, <2>1, <2>3
         DEF Handler, Checked, Restarting, Report, Update, UpdateRaw, SaveMode, Reconcile, Delete, DeleteBox, Create, DockerEnds
    <2>4. QED
      BY <2>2, <2>3
  <1>10. CASE /\ HostScript(t) /\ ~StopSignalDog(t) /\ ~StopSignalGateway(t) /\ ~StopAwaitGateway(t) /\ ~StartLaunch(t)
    BY <1>6, <1>10 DEF HostScript, Look, Fix, StartRemove, StartClear, StartNote, GiveUp, StopAny, StopFallback,
                       StopAwaitDog, StopForget, StopClear
  <1>11. QED
    BY <1>2, <1>7, <1>8, <1>9, <1>10 DEF ThreadStep

LEMMA NextUnaged ==
    ASSUME IInv, [Next]_vars, \A t \in Threads : ~SaveConnector(t)
    PROVE  Unaged
  <1>1. MachineOK
    BY FileTypes
  <1>2. ASSUME NEW g \in Are("gateway"), Up(g) \/ End(g) PROVE Unaged
    <2>1. g \in Pids /\ proc[g] \in ProcessType
      BY <1>1, Running DEF Are, Is
    <2>2. \A p \in Pids : Alive(p) /\ Alive(p)' => proc'[p].stale = proc[p].stale
      BY <1>1, <1>2, <2>1 DEF Up, End, MachineOK, Alive, ProcessType
    <2>3. QED
      BY <1>1, <1>2, <2>2, GatewayTame, TameUnaged
  <1>3. CASE Die
    <2>1. Tame
      BY <1>1, <1>3 DEF Die, Serving, Are, Tame, Firm, MachineOK, Alive
    <2>2. \A p \in Pids : Alive(p) /\ Alive(p)' => proc'[p].stale = proc[p].stale
      BY <1>1, <1>3 DEF Die, MachineOK, Alive
    <2>3. QED
      BY <2>1, <2>2, TameUnaged
  <1>4. CASE Reboot
    BY <1>4 DEF Reboot, Unaged, Alive
  <1>5. CASE Stranger
    BY <1>1, <1>5, BornUnaged DEF Stranger
  <1>6. ASSUME UNCHANGED machine PROVE Unaged
    BY <1>6 DEF machine, Unaged, Alive
  <1>7. ASSUME NEW t \in Threads, Cut(t) \/ ProbeFails(t) PROVE Unaged
    BY <1>6, <1>7 DEF Cut, ProbeFails
  <1>8. ASSUME NEW t \in Threads, NEW op \in Ops, Begin(t, op) PROVE Unaged
    BY <1>6, <1>8 DEF Begin
  <1>9. CASE UNCHANGED vars
    BY <1>6, <1>9 DEF vars
  <1>10. QED
    BY <1>2, <1>3, <1>4, <1>5, <1>7, <1>8, <1>9, DogAges, ThreadAges DEF Next

\* The same of the container, and of the flag.
LEMMA NextBoxUnaged ==
    ASSUME [Next]_vars, \A t \in Threads : ~SaveConnector(t)
    PROVE  /\ boxStale' => boxStale
           /\ container' = "running" /\ boxStale' => container = "running"
  <1>1. ASSUME NEW t \in Threads, ThreadStep(t)
        PROVE  (boxStale' => boxStale) /\ (container' = "running" /\ boxStale' => container = "running")
    <2>1. CASE HostScript(t)
      BY <2>1 DEF HostScript, Look, Fix, StartRemove, StartClear, StartLaunch, StartNote, GiveUp, StopAny, StopFallback,
                  StopSignalDog, StopSignalGateway, StopAwaitGateway, StopAwaitDog, StopForget, StopClear, RemoveBox, box
    <2>2. CASE BoxScript(t)
      BY <2>2 DEF BoxScript, BoxSignal, BoxKill, BoxCheck, BoxRun, BoxStop, BoxStopGateway, BoxStopDog, BoxStatus, RemoveBox, box
    <2>3. CASE Handler(t)
      <3>1. ~SaveConnector(t)
        OBVIOUS
      <3>2. UNCHANGED box \/ RemoveBox \/ (container' \in {"exited", container} /\ boxStale' = boxStale)
        BY <2>3, <3>1 DEF Handler, Checked, Restarting, Report, Update, UpdateRaw, SaveMode, Reconcile, Reload, Delete,
                          DeleteBox, Create, DockerEnds
      <3>3. QED
        BY <3>2 DEF RemoveBox, box
    <2>4. QED
      BY <1>1, <2>1, <2>2, <2>3 DEF ThreadStep
  <1>2. CASE Die \/ Reboot
    BY <1>2 DEF Die, Reboot
  <1>3. ASSUME NEW t \in Threads, Cut(t) \/ ProbeFails(t) PROVE UNCHANGED box
    BY <1>3 DEF Cut, ProbeFails
  <1>4. QED
    BY <1>1, <1>2, <1>3 DEF Next, DogStep, Up, End, Stranger, Begin, vars, box

LEMMA NextFlag ==
    ASSUME [Next]_vars
    PROVE  flag' = flag \/ \E t \in Threads : Report(t) \/ SaveConnector(t) \/ Create(t)
  <1>1. ASSUME NEW t \in Threads, ThreadStep(t), ~Report(t), ~SaveConnector(t), ~Create(t) PROVE flag' = flag
    <2>1. CASE HostScript(t)
      BY <2>1 DEF HostScript, Look, Fix, StartRemove, StartClear, StartLaunch, StartNote, GiveUp, StopAny, StopFallback,
                  StopSignalDog, StopSignalGateway, StopAwaitGateway, StopAwaitDog, StopForget, StopClear, config
    <2>2. CASE BoxScript(t)
      BY <2>2 DEF BoxScript, BoxSignal, BoxKill, BoxCheck, BoxRun, BoxStop, BoxStopGateway, BoxStopDog, BoxStatus, config
    <2>3. CASE Handler(t)
      BY <1>1, <2>3
         DEF Handler, Checked, Restarting, Update, UpdateRaw, SaveMode, Reconcile, Reload, Delete, DeleteBox, DockerEnds, config
    <2>4. QED
      BY <1>1, <2>1, <2>2, <2>3 DEF ThreadStep
  <1>2. QED
    BY <1>1 DEF Next, DogStep, Up, End, Die, Reboot, Stranger, Cut, ProbeFails, Begin, vars, config

----------------------------------------------------------------------------
\* What the scripts know.

LEMMA FoundKnows ==
    ASSUME IInv, Orderly, Frank, NEW t \in Threads, NEW p \in 0..MaxPid, thr[t].at \in DOMAIN Finds, Found(t, p), Knows(t),
           UNCHANGED <<mode, proc, container, boxStale>>,
           thr[t].at = "startRunning" /\ p = 0 => NoneStale,
           thr[t].at = "statusDog" /\ p = 0 /\ Changing(t) => Are("dog") = {}
    PROVE  Knows(t)'
  <1>1. thr'[t].fix = None /\ thr'[t].at = (IF p = 0 THEN Finds[thr[t].at][3] ELSE Finds[thr[t].at][2]) /\ thr'[t].op = thr[t].op
    BY FoundMoves DEF GoesOn
  <1>2. /\ thr'[t].at \in Anew => thr[t].at \in Anew \/ (thr[t].at = "startRunning" /\ p = 0)
        /\ thr'[t].at = "started" => thr[t].at \in Anew
        /\ thr'[t].at = "stopped" => thr[t].at = "statusDog" /\ p = 0
        /\ None # 0
    BY <1>1, FindsDomain, LifecycleAssumption DEF Finds, Anew
  <1>3. Are("dog")' = Are("dog") /\ Are("gateway")' = Are("gateway") /\ (NoneStale <=> NoneStale')
    BY DEF Are, Is, Alive, NoneStale
  <1>4. thr'[t].at \in Anew \/ (thr'[t].at = "startRunning" /\ thr'[t].fix = 0) \/ (thr'[t].at = "started" /\ mode = "host")
        => NoneStale
    BY <1>1, <1>2 DEF Knows, Anew
  <1>5. thr'[t].at = "started" => mode = "host"
    <2>1. thr'[t].at = "started" => thr[t].at \in HostStart
      BY <1>2 DEF Anew, HostStart
    <2>2. RightMode(t) /\ (thr[t].at \in HostStart => Changing(t))
      BY BusyChanging DEF Orderly, Busy
    <2>3. QED
      BY <2>1, <2>2 DEF RightMode, Frank, Free, HostPlaces
  <1>6. thr'[t].at = "stopped" /\ Changing(t)' => Are("dog") = {} /\ mode # "sandbox"
    <2>1. Changing(t)' <=> Changing(t)
      BY <1>1 DEF Changing
    <2>2. thr[t].at = "statusDog" /\ Changing(t) => mode # "sandbox"
      BY DEF Orderly, RightMode, Frank, Free, HostPlaces, HostProbe
    <2>3. QED
      BY <1>2, <2>1, <2>2
  <1>7. QED
    BY <1>3, <1>4, <1>5, <1>6 DEF Knows

LEMMA LookKnows ==
    ASSUME IInv, Orderly, Tended, Frank, NEW t \in Threads, Knows(t), Look(t) \/ Fix(t)
    PROVE  Knows(t)'
  <1>1. UNCHANGED <<mode, proc, container, boxStale>> /\ thr[t].at \in DOMAIN Finds /\ Claims(t) /\ Free({"overlap"}) /\ 0 \notin Pids
    BY DEF Look, Fix, config, machine, box, IInv, Keeps, Tended, Frank, Free, Pids
  <1>2. Are("gateway") = {} => NoneStale
    BY DEF NoneStale
  <1>3. CASE Fix(t)
    <2>1. thr[t].fix \in 0..MaxPid /\ thr[t].fix # None /\ Found(t, thr[t].fix)
      BY <1>3 DEF Fix, IInv, TypeOK, RequestType
    <2>2. thr[t].at = "startRunning" /\ thr[t].fix = 0 => NoneStale
      BY DEF Knows
    <2>3. thr[t].at = "statusDog" /\ thr[t].fix = 0 /\ Changing(t) => Are("dog") = {}
      <3>1. thr[t].at = "statusDog" /\ thr[t].fix = 0 /\ Changing(t) => Are("dog") \subseteq {0} /\ Are("dog") \subseteq Pids
        BY <1>1, <2>1 DEF Claims, Finds, Are
      <3>2. QED
        BY <1>1, <3>1
    <2>4. QED
      BY <1>1, <2>1, <2>2, <2>3, FoundKnows
  <1>4. CASE Look(t)
    <2> DEFINE kind == Finds[thr[t].at][1]
    <2>1. CASE Trusted(kind, FileOf(kind)) /\ FileOf(kind) \in 0..MaxPid /\ Found(t, FileOf(kind))
      <3>1. FileOf(kind) # 0
        BY <1>1, <2>1 DEF Trusted, Is, Alive
      <3>2. QED
        BY <1>1, <2>1, <3>1, FoundKnows
    <2>2. CASE /\ Moves(t) /\ GoesOn(t) /\ thr'[t].at = thr[t].at
               /\ IF Are(kind) = {} THEN thr'[t].fix = 0 ELSE thr'[t].fix \in Are(kind)
      <3>1. thr'[t].at = "startRunning" /\ thr'[t].fix = 0 => NoneStale
        <4>1. thr[t].at = "startRunning" => kind = "gateway"
          BY DEF Finds
        <4>2. thr'[t].fix = 0 => Are(kind) = {}
          BY <1>1, <2>2 DEF Are
        <4>3. QED
          BY <1>2, <2>2, <4>1, <4>2
      <3>2. NoneStale' <=> NoneStale
        BY <1>1 DEF NoneStale, Are, Is, Alive
      <3>3. thr'[t].at \notin {"started", "stopped"}
        BY <1>1, <2>2, FindsDomain
      <3>4. QED
        BY <2>2, <3>1, <3>2, <3>3 DEF Knows
    <2>3. QED
      BY <1>4, <2>1, <2>2, LookMoves
  <1>5. QED
    BY <1>3, <1>4

\* Whoever does not move keeps what it knows.
LEMMA RestKnows ==
    ASSUME IInv, Orderly, Tended, Honest, [Next]_vars, Frank', NEW u \in Threads, thr'[u] = thr[u] \/ Survives(u)
    PROVE  Knows(u)'
  <1>1. Frank /\ Knows(u)
    BY FrankBefore DEF Honest
  <1>0. thr'[u].at = thr[u].at /\ thr'[u].fix = thr[u].fix /\ (Changing(u)' <=> Changing(u))
    BY LifecycleAssumption DEF Survives, Inner, Changing, Ops, Scripts
  <1>2. CASE thr[u].at \notin Anew \cup {"startRunning", "started", "stopped"} \/ (thr[u].at = "stopped" /\ ~Changing(u))
    BY <1>0, <1>2 DEF Knows, Anew
  <1>3. CASE thr[u].at \in Anew \cup {"startRunning", "started"} \/ (thr[u].at = "stopped" /\ Changing(u))
    <2>1. Changing(u)
      <3>1. Anew \cup {"startRunning", "started"} \subseteq Busy
        BY DEF Anew, Busy, HostStart
      <3>2. QED
        BY <1>3, <3>1, BusyChanging
    <2>2. ASSUME NEW v \in Threads, Changing(v) PROVE v = u
      BY <1>1, <2>1, <2>2 DEF Orderly, Alone, Changing, Active, Frank, Free
    <2>3. \A v \in Threads : ~StartLaunch(v) /\ ~BoxRun(v)
      <3>1. ~StartLaunch(u) /\ ~BoxRun(u)
        BY <1>0, NoLaunch
      <3>2. \A v \in Threads : StartLaunch(v) \/ BoxRun(v) => Changing(v)
        BY BusyChanging DEF StartLaunch, BoxRun, At, Busy, HostStart, BoxStart
      <3>3. QED
        BY <2>2, <3>1, <3>2
    <2>4. \A v \in Threads : ~SaveConnector(v)
      <3>1. ASSUME NEW v \in Threads, SaveConnector(v) PROVE FALSE
        <4>1. thr[v].op = "connector" /\ thr'[v].at = "idle"
          BY <3>1, ReturnMoves, IdleType DEF SaveConnector
        <4>2. Changing(v)
          BY <4>1, LifecycleAssumption DEF Changing, Ops
        <4>3. QED
          BY <1>0, <1>3, <2>2, <4>1, <4>2 DEF Anew
      <3>2. QED
        BY <3>1
    <2>5. mode' = mode
      <3>1. ASSUME NEW v \in Threads, At(v, "handler"), thr[v].op # "reload" PROVE FALSE
        BY <1>3, <2>2, <3>1, BusyChanging DEF At, Anew
      <3>2. QED
        BY <3>1, NextMode
    <2>6. Are("dog")' \subseteq Are("dog") /\ (container # "running" => container' # "running") /\ (boxStale' => boxStale)
      BY <2>3, <2>4, NextEbbs, NextBox, NextBoxUnaged DEF Ebb
    <2>7. NoneStale => NoneStale'
      BY <2>4, NextUnaged DEF NoneStale, Unaged, Are, Is, Alive
    <2>8. QED
      BY <1>0, <1>1, <2>5, <2>6, <2>7 DEF Knows
  <1>4. QED
    BY <1>2, <1>3

LEMMA HostKnows ==
    ASSUME IInv, Orderly, Tended, Honest, [Next]_vars, Frank', NEW t \in Threads, ThreadStep(t), HostScript(t)
    PROVE  Knows(t)'
  <1>1. Frank /\ Knows(t) /\ mode' = mode /\ Claims(t)'
    BY FrankBefore, HostClaims DEF Honest, HostScript, Look, Fix, StartRemove, StartClear, StartLaunch, StartNote, GiveUp,
       StopAny, StopFallback, StopSignalDog, StopSignalGateway, StopAwaitGateway, StopAwaitDog, StopForget, StopClear, config
  <1>2. CASE Look(t) \/ Fix(t)
    BY <1>1, <1>2, LookKnows
  <1>3. CASE StartClear(t) \/ StartLaunch(t) \/ StartNote(t) \/ GiveUp(t)
    <2>1. thr[t].at \in Anew /\ thr'[t].at \in {"startLaunch", "startNote", "awaitDog", "lateDog"}
      BY <1>3, LaunchMoves, GotoSteps, FindsDomain
         DEF StartClear, StartNote, GiveUp, At, Steps, Places, Anew
    <2>2. \A v \in Threads : ~SaveConnector(v)
      <3>1. ASSUME NEW v \in Threads, SaveConnector(v) PROVE FALSE
        <4>1. thr'[v].at = "idle" /\ thr[v].at \in Outcomes
          BY <3>1, ReturnMoves, IdleType DEF SaveConnector, Ended
        <4>2. CASE v = t
          BY <2>1, <4>1, <4>2
        <4>3. CASE v # t
          BY <1>3, <3>1, <4>1, <4>3, ThreadMoves, FindsDomain DEF Moves, Outcomes
        <4>4. QED
          BY <4>2, <4>3
      <3>2. QED
        BY <3>1
    <2>3. NoneStale'
      BY <1>1, <2>1, <2>2, NextUnaged DEF Knows, NoneStale, Unaged, Are, Is, Alive
    <2>4. QED
      BY <2>1, <2>3 DEF Knows
  <1>4. CASE StopAny(t) \/ StopClear(t)
    <2>1. /\ thr'[t].at \in {"stopFindDog", "stopped"} /\ thr'[t].op = thr[t].op /\ thr'[t].stage = thr[t].stage
          /\ thr[t].at \in {"stopAny", "stopClear"}
      BY <1>4, GotoSteps, FindsDomain DEF StopAny, StopClear, At, Steps, GoesOn, Places, Outcomes
    <2>4. thr'[t].at = "stopped" => Are("dog")' = {} /\ container' = "none"
      <3>1. Frank' => Free({"overlap", "slip", "probe"})'
        BY DEF Frank, Free
      <3>2. thr'[t].at = "stopped" => container' = "none"
        BY <1>4, <2>1, GotoSteps, FindsDomain DEF StopAny, StopClear, RemoveBox, Steps, Places
      <3>3. thr'[t].at = "stopped" => Are("dog")' = {}
        <4>1. Known /\ Claims(t) /\ Free({"overlap", "slip", "probe"}) /\ Changing(t) /\ Free({"overlap"}) /\ 0 \notin Pids
          <5>1. Changing(t)
            BY <2>1, BusyChanging DEF Busy, HostStop
          <5>2. QED
            BY <1>1, <5>1 DEF Tended, Frank, Free, Pids
        <4>2. ~StartLaunch(t) /\ Are("dog")' \subseteq Are("dog")
          <5>1. ~StartLaunch(t)
            BY <2>1 DEF StartLaunch, At
          <5>2. QED
            BY <5>1, FileTypes, ThreadTame, TameWanes DEF Waning
        <4>3. CASE thr[t].at = "stopClear"
          BY <4>1, <4>2, <4>3 DEF Claims, Bare
        <4>4. CASE thr[t].at = "stopAny" /\ thr'[t].at = "stopped"
          <5>1. pidfile = 0 /\ dogfile = 0
            BY <1>4, <4>4, GotoSteps, FindsDomain DEF StopAny, StopClear, At, Steps, Places
          <5>2. Are("dog") \subseteq {0} /\ Are("dog") \subseteq Pids
            BY <4>1, <4>4, <5>1, FileKnows DEF Are
          <5>3. QED
            BY <4>1, <4>2, <5>2
        <4>5. QED
          BY <2>1, <4>3, <4>4
      <3>4. QED
        BY <3>2, <3>3
    <2>5. QED
      BY <2>1, <2>4 DEF Knows, Anew
  <1>5. CASE StartRemove(t) \/ StopSignalDog(t) \/ StopSignalGateway(t) \/ StopAwaitGateway(t) \/ StopAwaitDog(t) \/ StopForget(t)
    <2>1. thr'[t].at \in {"startDog", "stopSignalGateway", "stopAwaitGateway", "stopAwaitDog", "stopForget", "stopClear"}
      BY <1>5, GotoSteps, FindsDomain
         DEF StartRemove, StopSignalDog, StopSignalGateway, StopAwaitGateway, StopAwaitDog, StopForget, Steps, Places
    <2>2. QED
      BY <2>1 DEF Knows, Anew
  <1>6. CASE StopFallback(t)
    BY <1>6, FallbackMoves DEF Knows, Anew
  <1>7. QED
    BY <1>2, <1>3, <1>4, <1>5, <1>6 DEF HostScript

LEMMA BoxKnows ==
    ASSUME IInv, Orderly, Tended, Frank, NEW t \in Threads, BoxScript(t)
    PROVE  Knows(t)'
  <1>1. RightMode(t) /\ Free({"overlap"}) /\ mode' = mode /\ Claims(t)
    BY DEF Orderly, Tended, Frank, Free, BoxScript, BoxSignal, BoxKill, BoxCheck, BoxRun, BoxStop, BoxStopGateway, BoxStopDog, BoxStatus,
           config
  <1>2. CASE BoxCheck(t) \/ BoxRun(t)
    <2>1. thr[t].at \in {"boxCheck", "boxRun"}
          /\ (thr'[t].at \in {"already", "boxRun", "failed"} \/ (thr'[t].at = "started" /\ boxStale' = FALSE))
      <3>1. CASE BoxCheck(t)
        BY <3>1, GotoSteps DEF BoxCheck, At, Steps, Places, Outcomes
      <3>2. CASE BoxRun(t)
        BY <3>2, GotoSteps DEF BoxRun, At, Steps, Places, Outcomes
      <3>3. QED
        BY <1>2, <3>1, <3>2
    <2>2. mode = "sandbox"
      BY <1>1, <2>1, BusyChanging DEF RightMode, Busy, BoxStart, BoxPlaces
    <2>3. QED
      BY <1>1, <2>1, <2>2 DEF Knows, Anew
  <1>3. CASE BoxStop(t) \/ BoxStopDog(t) \/ BoxStatus(t)
    <2>1. /\ thr[t].at \in {"boxStop", "boxStopDog", "boxStatus"} /\ thr'[t].op = thr[t].op
          /\ thr'[t].at \in {"boxStopGateway", "stopped", "running"}
          /\ thr'[t].at = "stopped" => container' # "running"
      <3>1. CASE BoxStop(t)
        BY <3>1, GotoSteps DEF BoxStop, At, Steps, GoesOn, Places, Outcomes, RemoveBox
      <3>2. CASE BoxStopDog(t)
        BY <1>1, <3>2, GotoSteps DEF BoxStopDog, At, Steps, GoesOn, Places, Outcomes, Claims, Boxless, box
      <3>3. CASE BoxStatus(t)
        <4>1. CASE container = "running"
          BY <3>3, <4>1, GotoSteps DEF BoxStatus, At, Steps, GoesOn, Places, Outcomes
        <4>2. CASE container # "running"
          BY <3>3, <4>2, GotoSteps DEF BoxStatus, At, Steps, GoesOn, Places, Outcomes, box
        <4>3. QED
          BY <4>1, <4>2
      <3>4. QED
        BY <1>3, <3>1, <3>2, <3>3
    <2>2. Changing(t) => mode = "sandbox"
      BY <1>1, <2>1 DEF RightMode, BoxPlaces, BoxHalt
    <2>3. Changing(t)' <=> Changing(t)
      BY <2>1 DEF Changing
    <2>4. QED
      BY <1>1, <2>1, <2>2, <2>3 DEF Knows, Anew
  <1>4. CASE BoxSignal(t, "boxGateway", "gateway", "boxGatewayLate") \/ BoxSignal(t, "boxDog", "dog", "boxDogLate")
    <2>1. thr'[t].at \in {"boxGatewayLate", "boxDogLate"}
      BY <1>4, BoxSignalMoves, FindsDomain
    <2>2. QED
      BY <2>1 DEF Knows, Anew
  <1>5. CASE BoxKill(t, "boxGatewayLate", "gateway", "boxDog") \/ BoxKill(t, "boxDogLate", "dog", "boxCheck") \/ BoxStopGateway(t)
    <2>1. thr'[t].at \in {"boxDog", "boxCheck", "boxStopDog"}
      BY <1>5, GotoSteps DEF BoxKill, BoxStopGateway, Steps, Places
    <2>2. QED
      BY <2>1 DEF Knows, Anew
  <1>6. QED
    BY <1>2, <1>3, <1>4, <1>5 DEF BoxScript

LEMMA NextKnows ==
    ASSUME IInv, Orderly, Tended, Honest, [Next]_vars, Frank', NEW u \in Threads
    PROVE  Knows(u)'
  <1>1. Frank
    BY FrankBefore
  <1>2. ASSUME thr'[u].at \notin Anew \cup {"startRunning", "started", "stopped"} PROVE Knows(u)'
    BY <1>2 DEF Knows
  <1>3. CASE thr'[u] = thr[u]
    BY <1>3, RestKnows
  <1>4. CASE Reboot
    <2>1. thr'[u].at = "idle"
      BY <1>4, IdleType DEF Reboot
    <2>2. QED
      BY <1>2, <2>1 DEF Anew
  <1>5. ASSUME NEW t \in Threads, ThreadStep(t) PROVE Knows(u)'
    <2>1. CASE u # t
      BY <1>3, <1>5, <2>1, ThreadMoves DEF Moves
    <2>2. CASE u = t /\ Handler(t)
      <3>1. thr'[u].at \notin Relying \cup {"stopFindDog", "started", "already", "failed"}
        BY <2>2, HandlerMoves
      <3>2. QED
        BY <1>2, <3>1 DEF Anew, Relying, Bare, Caught, Boxless, HostStart
    <2>3. QED
      BY <1>1, <1>5, <2>1, <2>2, HostKnows, BoxKnows DEF ThreadStep
  <1>6. ASSUME NEW t \in Threads, Cut(t) \/ ProbeFails(t) \/ \E op \in Ops : Begin(t, op) PROVE Knows(u)'
    <2>1. Moves(t) /\ (thr'[t].at \notin Anew \cup {"startRunning", "started", "stopped"} \/ Survives(t))
      <3>1. CASE Cut(t)
        BY <3>1, CutMoves, LatePlaces, IdleType DEF Lingers, Anew
      <3>2. CASE ProbeFails(t)
        BY <3>2, ProbeMoves DEF Anew
      <3>3. CASE \E op \in Ops : Begin(t, op)
        BY <3>3, FirstMoves, EntryPlaces DEF Anew
      <3>4. QED
        BY <1>6, <3>1, <3>2, <3>3
    <2>2. QED
      BY <1>2, <1>3, <2>1, RestKnows DEF Moves
  <1>7. QED
    BY <1>3, <1>4, <1>5, <1>6, StepDogs DEF DogStep

\* Who says "stopped" may clear the flag, and so may a start that has launched a runtime.
LEMMA StoppedBare ==
    ASSUME IInv, Orderly, Tended, Frank, NEW t \in Threads, Knows(t), thr[t].at = "stopped", Changing(t)
    PROVE  Serving = {} /\ container # "running"
  <1>1. /\ Free({"overlap", "slip"}) /\ Free({"overlap", "switch"}) /\ mode \in Modes
        /\ mode = "host" => Are("dog") = {}
        /\ mode = "sandbox" => container # "running"
    BY FileTypes DEF Frank, Free, Knows, ConfigOK
  <1>2. CASE mode = "host"
    BY <1>1, <1>2 DEF Tended, Parents, Parented, ModeRuns
  <1>3. CASE mode = "sandbox"
    BY <1>1, <1>3 DEF Tended, ModeRuns
  <1>4. QED
    BY <1>1, <1>2, <1>3 DEF Modes

LEMMA StartedFresh ==
    ASSUME IInv, Tended, Frank, NEW t \in Threads, Knows(t), thr[t].at = "started"
    PROVE  ~((\E g \in Serving : proc[g].stale) \/ (container = "running" /\ boxStale))
  <1>1. Free({"overlap", "switch"}) /\ mode \in Modes
    BY FileTypes DEF Frank, Free, ConfigOK
  <1>2. CASE mode = "host"
    BY <1>1, <1>2 DEF Tended, ModeRuns, Knows, NoneStale, Serving
  <1>3. CASE mode = "sandbox"
    BY <1>1, <1>3 DEF Tended, ModeRuns, Knows
  <1>4. QED
    BY <1>1, <1>2, <1>3 DEF Modes

LEMMA NextTold ==
    ASSUME IInv, Orderly, Tended, Honest, [Next]_vars, Frank'
    PROVE  Told'
  <1>1. Frank /\ Told /\ (\A t \in Threads : Knows(t)) /\ MachineOK
    BY FrankBefore, FileTypes DEF Honest
  <1>2. ASSUME NEW t \in Threads, SaveConnector(t) PROVE Told'
    <2>1. CASE At(t, "running")
      BY <1>2, <2>1 DEF SaveConnector, Told
    <2>2. CASE ~At(t, "running")
      <3>1. thr[t].at = "stopped" /\ Changing(t)
        <4>1. Coherent(t) /\ thr[t].op = "connector" /\ thr[t].stage = "probe" /\ thr[t].at \in Outcomes
          BY <1>2 DEF SaveConnector, Ended, Orderly
        <4>2. Probing(t)
          BY <4>1, LifecycleAssumption DEF Coherent, Resting, Orphaned, Starting, Halting, Handling, Ops
        <4>3. QED
          BY <1>2, <2>2, <4>1, <4>2, LifecycleAssumption
             DEF Probing, HostProbe, Outcomes, At, Changing, Ops, SaveConnector, Frank, Free
      <3>2. Serving = {} /\ container # "running"
        BY <1>1, <3>1, StoppedBare
      <3>3. Serving' \subseteq Serving
        BY <1>1, <1>2, SaveConnectorTame, TameWanes DEF Waning
      <3>4. container' = container
        BY <1>2 DEF SaveConnector
      <3>5. QED
        BY <3>2, <3>3, <3>4 DEF Told
    <2>3. QED
      BY <2>1, <2>2
  <1>3. ASSUME NEW t \in Threads, Report(t), flag' # flag PROVE Told'
    <2>1. /\ thr[t].at \in Outcomes /\ thr[t].stage = "script" /\ thr[t].op \in Scripts /\ ~At(t, "failed") /\ ~At(t, "already")
          /\ UNCHANGED <<machine, box>> /\ Coherent(t)
      BY <1>3 DEF Report, Ended, Frank, Free, Orderly
    <2>2. thr[t].at = "started" \/ (thr[t].at = "stopped" /\ Changing(t))
      <3>1. Starting(t) \/ Halting(t)
        BY <2>1, LifecycleAssumption DEF Coherent, Resting, Orphaned, Probing, Handling, Scripts, Ops
      <3>2. Changing(t)
        BY <2>1, LifecycleAssumption DEF Changing, Scripts, Ops
      <3>3. QED
        BY <2>1, <3>1, <3>2, FindsDomain DEF Starting, Halting, Outcomes, At, HostStart, HostStop, BoxStart, BoxHalt
    <2>3. ~((\E g \in Serving : proc[g].stale) \/ (container = "running" /\ boxStale))
      BY <1>1, <2>2, StoppedBare, StartedFresh
    <2>4. QED
      BY <2>1, <2>3 DEF machine, box, Told, Serving, Are, Is, Alive
  <1>4. ASSUME NEW t \in Threads, Create(t) PROVE Told'
    <2>1. ~(Runtimes > 0) /\ UNCHANGED <<machine, box>>
      BY <1>4 DEF Create, NewConfig, Frank, Free
    <2>2. Runtimes \in Nat
      BY <1>1, Count DEF Runtimes
    <2>3. Serving = {} /\ container # "running"
      BY <1>1, <2>1, <2>2, Count
    <2>4. QED
      BY <2>1, <2>3 DEF machine, box, Told, Serving, Are, Is, Alive
  <1>5. CASE flag' = flag /\ \A t \in Threads : ~SaveConnector(t)
    <2>1. Unaged /\ (container' = "running" /\ boxStale' => container = "running" /\ boxStale)
      BY <1>5, NextUnaged, NextBoxUnaged
    <2>2. \A g \in Serving' : proc'[g].stale => g \in Serving /\ proc[g].stale
      BY <2>1 DEF Serving, Are, Is, Alive, Unaged
    <2>3. QED
      BY <1>1, <1>5, <2>1, <2>2 DEF Told
  <1>6. QED
    BY <1>2, <1>3, <1>4, <1>5, NextFlag

LEMMA InitHonest == Init => Honest
  <1>1. SUFFICES ASSUME Init PROVE Honest
    OBVIOUS
  <1>2. Serving = {} /\ container = "none"
    BY <1>1 DEF Init, Serving, Are, Is, Alive
  <1>3. \A t \in Threads : thr[t].at = "idle"
    BY <1>1, IdleType DEF Init
  <1>4. QED
    BY <1>2, <1>3 DEF Honest, Told, Knows, Anew

LEMMA NextHonest == IInv /\ Orderly /\ Tended /\ Honest /\ [Next]_vars => Honest'
  BY NextTold, NextKnows DEF Honest

LEMMA AlwaysHonest == Spec => [](IInv /\ Orderly /\ Apart /\ Tended /\ Honest)
  BY InitHonest, NextHonest, InitInv, NextInv, InitOrderly, NextOrderly, InitApart, NextApart, InitTended, NextTended, PTL DEF Spec

\* As long as a gateway or a container runs that has read an older configuration of the connectors,
\* restart_required is set (set_connector_enabled, execute_instance_action): only a script whose end
\* leaves nothing that is older clears it, and a new connector is saved without it only where nothing
\* serves.
THEOREM FlagIsTold == Spec => []FlagTells
  <1>1. Honest => FlagTells
    BY DEF Honest, Frank, Free, Told, FlagTells
  <1>2. QED
    BY <1>1, AlwaysHonest, PTL
=============================================================================
