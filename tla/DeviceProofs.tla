----------------------------- MODULE DeviceProofs -----------------------------
(***************************************************************************)
(* Proofs about DeviceAccess, for any number of threads, devices and ids.  *)
(*                                                                         *)
(* Types is inductive: a file holds whole records, each id in it was       *)
(* issued for that file, and a request in hand fits the step of its plan   *)
(* it is at (JobOK).  LoadIs, SaveIs and AsideIs say what a step does to   *)
(* the requests; the invariants use these and not the actions.             *)
(*                                                                         *)
(* Each safety property then has an invariant of its own, which says what  *)
(* a request that has loaded a file and not saved it yet may count on, as  *)
(* long as nobody else has replaced the file: UsedInv (an open id has not  *)
(* been used), DeadInv (a session of a deleted device is out in the file   *)
(* and in every copy of it) and ListInv (a copy adds or drops one device,  *)
(* and the lists cover each other).                                        *)
(***************************************************************************)
EXTENDS DeviceAccess, FiniteSetTheorems, SequenceTheorems, TLAPS

Fields == {"op", "at", "id", "key", "device", "list", "copy", "on", "old", "stale"}
StepsOf(op) == {Plan(op)[i] : i \in 1..Len(Plan(op))}
Follows(op, a, b) == \E n \in 2..Len(Plan(op)) : Plan(op)[n - 1] = a /\ Plan(op)[n] = b

LEMMA Plans ==
  /\ Plan("pair") = <<"addPairing">>
  /\ Plan("register") = <<"usePairing", "upsertDevice", "recordRequest">>
  /\ Plan("approve") = <<"allow", "dropRequest", "sync", "apply">>
  /\ Plan("reject") = <<"dropRequest">>
  /\ Plan("delete") = <<"revokeDevice", "dropDevice", "disallow", "sync", "apply">>
  /\ Plan("channel") = <<"setAllow", "apply">>
  /\ Plan("init") = <<"addTicket">>
  /\ Plan("status") = <<"getTicket">>
  /\ Plan("login") = <<"token", "allowed", "approveTicket">>
  /\ Plan("exchange") = <<"useTicket", "addWeb">>
  /\ Plan("chat") = <<"getWeb", "known", "allowed", "touchWeb", "relay">>
  /\ Plan("logout") = <<"getWeb", "known", "allowed", "touchWeb", "revokeWeb">>
  /\ Plan("message") = <<"token", "relay">>
  /\ Plan("transfer") = <<"token", "addTransfer">>
  /\ Plan("claim") = <<"useTransfer", "seen">>
  /\ Plan("note") = <<"noteOther">>
  BY DEF Plan

LEMMA One ==
  ASSUME NEW op, NEW a, Plan(op) = <<a>>
  PROVE  /\ StepsOf(op) = {a}
         /\ \A x, y : ~Follows(op, x, y)
  <1>1. Len(Plan(op)) = 1 /\ Plan(op)[1] = a
    OBVIOUS
  <1>2. 1..1 = {1} /\ 2..1 = {}
    OBVIOUS
  <1>3. StepsOf(op) = {a}
    <2>1. \A s : s \in StepsOf(op) <=> \E i \in 1..1 : s = Plan(op)[i]
      BY <1>1, Zenon DEF StepsOf
    <2>2. \A s : s \in StepsOf(op) <=> s \in {a}
      BY <1>1, <1>2, <2>1
    <2> QED
      BY <2>2, Zenon
  <1>4. \A x, y : ~Follows(op, x, y)
    BY <1>1, <1>2 DEF Follows
  <1> QED
    BY <1>3, <1>4

LEMMA Two ==
  ASSUME NEW op, NEW a, NEW b, Plan(op) = <<a, b>>
  PROVE  /\ StepsOf(op) = {a, b}
         /\ \A x, y : Follows(op, x, y) <=> (x = a /\ y = b)
  <1>1. Len(Plan(op)) = 2 /\ Plan(op)[1] = a /\ Plan(op)[2] = b
    OBVIOUS
  <1>2. 1..2 = {1, 2} /\ 2..2 = {2}
    OBVIOUS
  <1>3. StepsOf(op) = {a, b}
    <2>1. \A s : s \in StepsOf(op) <=> \E i \in 1..2 : s = Plan(op)[i]
      BY <1>1, Zenon DEF StepsOf
    <2>2. \A s : s \in StepsOf(op) <=> s \in {a, b}
      BY <1>1, <1>2, <2>1
    <2> QED
      BY <2>2, Zenon
  <1>4. \A x, y : Follows(op, x, y) <=> (x = a /\ y = b)
    BY <1>1, <1>2 DEF Follows
  <1> QED
    BY <1>3, <1>4

LEMMA Three ==
  ASSUME NEW op, NEW a, NEW b, NEW c, Plan(op) = <<a, b, c>>
  PROVE  /\ StepsOf(op) = {a, b, c}
         /\ \A x, y : Follows(op, x, y) <=> (x = a /\ y = b) \/ (x = b /\ y = c)
  <1>1. Len(Plan(op)) = 3 /\ Plan(op)[1] = a /\ Plan(op)[2] = b /\ Plan(op)[3] = c
    OBVIOUS
  <1>2. 1..3 = {1, 2, 3} /\ 2..3 = {2, 3}
    OBVIOUS
  <1>3. StepsOf(op) = {a, b, c}
    <2>1. \A s : s \in StepsOf(op) <=> \E i \in 1..3 : s = Plan(op)[i]
      BY <1>1, Zenon DEF StepsOf
    <2>2. \A s : s \in StepsOf(op) <=> s \in {a, b, c}
      BY <1>1, <1>2, <2>1
    <2> QED
      BY <2>2, Zenon
  <1>4. \A x, y : Follows(op, x, y) <=> (x = a /\ y = b) \/ (x = b /\ y = c)
    BY <1>1, <1>2 DEF Follows
  <1> QED
    BY <1>3, <1>4

LEMMA Four ==
  ASSUME NEW op, NEW a, NEW b, NEW c, NEW d, Plan(op) = <<a, b, c, d>>
  PROVE  /\ StepsOf(op) = {a, b, c, d}
         /\ \A x, y : Follows(op, x, y) <=> \/ (x = a /\ y = b) \/ (x = b /\ y = c)
                                        \/ (x = c /\ y = d)
  <1>1. /\ Len(Plan(op)) = 4 /\ Plan(op)[1] = a /\ Plan(op)[2] = b /\ Plan(op)[3] = c
        /\ Plan(op)[4] = d
    OBVIOUS
  <1>2. 1..4 = {1, 2, 3, 4} /\ 2..4 = {2, 3, 4}
    OBVIOUS
  <1>3. StepsOf(op) = {a, b, c, d}
    <2>1. \A s : s \in StepsOf(op) <=> \E i \in 1..4 : s = Plan(op)[i]
      BY <1>1, Zenon DEF StepsOf
    <2>2. \A s : s \in StepsOf(op) <=> s \in {a, b, c, d}
      BY <1>1, <1>2, <2>1
    <2> QED
      BY <2>2, Zenon
  <1>4. \A x, y : Follows(op, x, y) <=> \/ (x = a /\ y = b) \/ (x = b /\ y = c)
                                        \/ (x = c /\ y = d)
    BY <1>1, <1>2 DEF Follows
  <1> QED
    BY <1>3, <1>4

LEMMA Five ==
  ASSUME NEW op, NEW a, NEW b, NEW c, NEW d, NEW e, Plan(op) = <<a, b, c, d, e>>
  PROVE  /\ StepsOf(op) = {a, b, c, d, e}
         /\ \A x, y : Follows(op, x, y) <=> \/ (x = a /\ y = b) \/ (x = b /\ y = c)
                                        \/ (x = c /\ y = d) \/ (x = d /\ y = e)
  <1>1. /\ Len(Plan(op)) = 5 /\ Plan(op)[1] = a /\ Plan(op)[2] = b /\ Plan(op)[3] = c
        /\ Plan(op)[4] = d /\ Plan(op)[5] = e
    OBVIOUS
  <1>2. 1..5 = {1, 2, 3, 4, 5} /\ 2..5 = {2, 3, 4, 5}
    OBVIOUS
  <1>3. StepsOf(op) = {a, b, c, d, e}
    <2>1. \A s : s \in StepsOf(op) <=> \E i \in 1..5 : s = Plan(op)[i]
      BY <1>1, Zenon DEF StepsOf
    <2>2. \A s : s \in StepsOf(op) <=> s \in {a, b, c, d, e}
      BY <1>1, <1>2, <2>1
    <2> QED
      BY <2>2, Zenon
  <1>4. \A x, y : Follows(op, x, y) <=> \/ (x = a /\ y = b) \/ (x = b /\ y = c)
                                        \/ (x = c /\ y = d) \/ (x = d /\ y = e)
    BY <1>1, <1>2 DEF Follows
  <1> QED
    BY <1>3, <1>4

LEMMA StepSets ==
  /\ StepsOf("pair") = {"addPairing"}
  /\ StepsOf("register") = {"usePairing", "upsertDevice", "recordRequest"}
  /\ StepsOf("approve") = {"allow", "dropRequest", "sync", "apply"}
  /\ StepsOf("reject") = {"dropRequest"}
  /\ StepsOf("delete") = {"revokeDevice", "dropDevice", "disallow", "sync", "apply"}
  /\ StepsOf("channel") = {"setAllow", "apply"}
  /\ StepsOf("init") = {"addTicket"}
  /\ StepsOf("status") = {"getTicket"}
  /\ StepsOf("login") = {"token", "allowed", "approveTicket"}
  /\ StepsOf("exchange") = {"useTicket", "addWeb"}
  /\ StepsOf("chat") = {"getWeb", "known", "allowed", "touchWeb", "relay"}
  /\ StepsOf("logout") = {"getWeb", "known", "allowed", "touchWeb", "revokeWeb"}
  /\ StepsOf("message") = {"token", "relay"}
  /\ StepsOf("transfer") = {"token", "addTransfer"}
  /\ StepsOf("claim") = {"useTransfer", "seen"}
  /\ StepsOf("note") = {"noteOther"}
  <1>1. StepsOf("pair") = {"addPairing"}
    BY Plans, One
  <1>2. StepsOf("register") = {"usePairing", "upsertDevice", "recordRequest"}
    BY Plans, Three
  <1>3. StepsOf("approve") = {"allow", "dropRequest", "sync", "apply"}
    BY Plans, Four
  <1>4. StepsOf("reject") = {"dropRequest"}
    BY Plans, One
  <1>5. StepsOf("delete") = {"revokeDevice", "dropDevice", "disallow", "sync", "apply"}
    BY Plans, Five
  <1>6. StepsOf("channel") = {"setAllow", "apply"}
    BY Plans, Two
  <1>7. StepsOf("init") = {"addTicket"}
    BY Plans, One
  <1>8. StepsOf("status") = {"getTicket"}
    BY Plans, One
  <1>9. StepsOf("login") = {"token", "allowed", "approveTicket"}
    BY Plans, Three
  <1>10. StepsOf("exchange") = {"useTicket", "addWeb"}
    BY Plans, Two
  <1>11. StepsOf("chat") = {"getWeb", "known", "allowed", "touchWeb", "relay"}
    BY Plans, Five
  <1>12. StepsOf("logout") = {"getWeb", "known", "allowed", "touchWeb", "revokeWeb"}
    BY Plans, Five
  <1>13. StepsOf("message") = {"token", "relay"}
    BY Plans, Two
  <1>14. StepsOf("transfer") = {"token", "addTransfer"}
    BY Plans, Two
  <1>15. StepsOf("claim") = {"useTransfer", "seen"}
    BY Plans, Two
  <1>16. StepsOf("note") = {"noteOther"}
    BY Plans, One
  <1> QED
    BY <1>1, <1>2, <1>3, <1>4, <1>5, <1>6, <1>7, <1>8, <1>9, <1>10, <1>11, <1>12, <1>13, <1>14, <1>15, <1>16

\* The ways a request goes on from a step.
Ways(op) ==
  CASE op = "register" -> {<<"usePairing", "upsertDevice">>, <<"upsertDevice", "recordRequest">>}
    [] op = "approve" -> {<<"allow", "dropRequest">>, <<"dropRequest", "sync">>, <<"sync", "apply">>}
    [] op = "delete" -> {<<"revokeDevice", "dropDevice">>, <<"dropDevice", "disallow">>,
                         <<"disallow", "sync">>, <<"sync", "apply">>}
    [] op = "channel" -> {<<"setAllow", "apply">>}
    [] op = "login" -> {<<"token", "allowed">>, <<"allowed", "approveTicket">>}
    [] op = "exchange" -> {<<"useTicket", "addWeb">>}
    [] op = "chat" -> {<<"getWeb", "known">>, <<"known", "allowed">>, <<"allowed", "touchWeb">>,
                       <<"touchWeb", "relay">>}
    [] op = "logout" -> {<<"getWeb", "known">>, <<"known", "allowed">>, <<"allowed", "touchWeb">>,
                         <<"touchWeb", "revokeWeb">>}
    [] op = "message" -> {<<"token", "relay">>}
    [] op = "transfer" -> {<<"token", "addTransfer">>}
    [] op = "claim" -> {<<"useTransfer", "seen">>}
    [] OTHER -> {}

LEMMA FollowsWays ==
  ASSUME NEW op \in Ops, NEW a, NEW b
  PROVE  Follows(op, a, b) <=> <<a, b>> \in Ways(op)
  <1>1. CASE op \in {"pair", "reject", "init", "status", "note"}
    BY <1>1, Plans, One DEF Ways
  <1>2. CASE op \in {"channel", "exchange", "message", "transfer", "claim"}
    BY <1>2, Plans, Two DEF Ways
  <1>3. CASE op \in {"register", "login"}
    BY <1>3, Plans, Three DEF Ways
  <1>4. CASE op = "approve"
    BY <1>4, Plans, Four DEF Ways
  <1>5. CASE op \in {"delete", "chat", "logout"}
    BY <1>5, Plans, Five DEF Ways
  <1> QED
    BY <1>1, <1>2, <1>3, <1>4, <1>5 DEF Ops

LEMMA AfterFollows ==
  ASSUME NEW j
  PROVE  /\ j.on /\ (\E b : Follows(j.op, j.at, b)) => Follows(j.op, j.at, After(j))
         /\ ~(j.on /\ \E b : Follows(j.op, j.at, b)) => After(j) = "idle"
  <1> DEFINE steps == Plan(j.op)
             next == {n \in 2..Len(steps) : steps[n - 1] = j.at}
  <1>1. (\E b : Follows(j.op, j.at, b)) <=> next # {}
    BY DEF Follows
  <1>2. CASE j.on /\ next # {}
    <2>1. (CHOOSE n \in next : TRUE) \in next
      BY <1>2
    <2>2. After(j) = steps[CHOOSE n \in next : TRUE]
      BY <1>2 DEF After
    <2> QED
      BY <1>1, <1>2, <2>1, <2>2 DEF Follows
  <1>3. CASE ~(j.on /\ next # {})
    BY <1>1, <1>3 DEF After
  <1> QED
    BY <1>2, <1>3

LEMMA GoesOn ==
  ASSUME NEW j, j.op \in Ops
  PROVE  /\ After(j) = "idle" \/ (j.on /\ <<j.at, After(j)>> \in Ways(j.op))
         /\ \A c : j.on /\ <<j.at, c>> \in Ways(j.op) => After(j) = c
  <1>1. \A c, b : <<j.at, c>> \in Ways(j.op) /\ <<j.at, b>> \in Ways(j.op) => b = c
    BY DEF Ways
  <1> QED
    BY <1>1, AfterFollows, FollowsWays

----------------------------------------------------------------------------
\* Types: what the files hold and what a request has in hand at a step, when s are
\* the ids issued so far.

IdFiles == {"pairing", "tickets", "web", "transfers"}
Owner == Devices \cup {0}

Kind(F) ==
    CASE F = "pairing" -> "addPairing"
      [] F = "tickets" -> "addTicket"
      [] F = "web" -> "addWeb"
      [] F = "transfers" -> "addTransfer"

Sort(F, s) ==
    CASE F = "pairing" -> [id : DOMAIN s, used : BOOLEAN]
      [] F = "tickets" -> [id : DOMAIN s, status : {"pending", "approved", "exchanged"}, device : Owner]
      [] F = "web" -> [id : DOMAIN s, device : Owner, revoked : BOOLEAN]
      [] F = "transfers" -> [id : DOMAIN s, device : Owner]
      [] F = "devices" -> [device : Devices, key : Nat]
      [] F \in {"config", "requests"} -> Devices

\* A file in which ids, or devices, are unique and each id was issued for this file.
Whole(F, f, s) ==
    /\ f \subseteq Sort(F, s)
    /\ F \in IdFiles => \A r \in f : s[r.id] = Kind(F) /\ \A q \in f : r.id = q.id => r = q
    /\ F = "devices" => \A r, q \in f : r.device = q.device => r = q

\* Where a request can be: on its plan, or revoking the session it came with.
OnPlan(j) ==
    \/ j.op = "none" /\ j.at = "idle"
    \/ j.op \in Ops /\ j.at \in StepsOf(j.op)
    \/ j.op \in {"chat", "logout"} /\ j.at = "revokeWeb"

Copies(j) == j.copy # None
IssuedFor(j, kind, s) == j.id \in DOMAIN s /\ s[j.id] = kind

JobOK(j, s) ==
    /\ DOMAIN j = Fields /\ OnPlan(j) /\ j.on \in BOOLEAN
    /\ j.device \in Owner /\ (j.op \in {"register", "approve", "reject", "delete"} => j.device \in Devices)
    /\ j.list \subseteq Devices
    /\ j.old \subseteq DOMAIN s /\ (j.op # "delete" => j.old = {})
    /\ j.op = "register" => IssuedFor(j, "addPairing", s)
    /\ j.op = "exchange" => IssuedFor(j, "addTicket", s)
    /\ j.op = "claim" => IssuedFor(j, "addTransfer", s)
    /\ j.op = "approve" /\ (Copies(j) \/ j.at = "dropRequest") => j.device \in j.list
    /\ Copies(j) => /\ FileOf(j.at) # "none" /\ Whole(FileOf(j.at), j.copy, s)
                    /\ j.at \notin Seeks => j.on
                    /\ j.at \in {"allow", "disallow"} => j.list = j.copy

Types ==
    /\ setup \in Setups
    /\ issued \in Seq(Issuing) /\ Len(issued) <= MaxIds
    /\ uses \in [Ids -> Nat] /\ \A n \in Ids : n > Len(issued) => uses[n] = 0
    /\ dead \subseteq DOMAIN issued
    /\ files = [F \in Files |-> files[F]] /\ \A F \in Files : Whole(F, files[F], issued)
    /\ relay = None \/ relay \subseteq Devices
    /\ job = [t \in Threads |-> job[t]] /\ \A t \in Threads : JobOK(job[t], issued)

LEMMA Where ==
  ASSUME NEW j, OnPlan(j)
  PROVE  /\ j.at = "addPairing" => j.op = "pair"
         /\ j.at \in {"usePairing", "upsertDevice", "recordRequest"} => j.op = "register"
         /\ j.at = "allow" => j.op = "approve"
         /\ j.at = "dropRequest" => j.op \in {"approve", "reject"}
         /\ j.at = "sync" => j.op \in {"approve", "delete"}
         /\ j.at = "apply" => j.op \in {"approve", "delete", "channel"}
         /\ j.at \in {"revokeDevice", "dropDevice", "disallow"} => j.op = "delete"
         /\ j.at = "setAllow" => j.op = "channel"
         /\ j.at = "noteOther" => j.op = "note"
         /\ j.at = "addTicket" => j.op = "init"
         /\ j.at = "getTicket" => j.op = "status"
         /\ j.at = "token" => j.op \in {"login", "message", "transfer"}
         /\ j.at = "allowed" => j.op \in {"login", "chat", "logout"}
         /\ j.at = "approveTicket" => j.op = "login"
         /\ j.at \in {"useTicket", "addWeb"} => j.op = "exchange"
         /\ j.at \in {"getWeb", "known", "touchWeb", "revokeWeb"} => j.op \in {"chat", "logout"}
         /\ j.at = "relay" => j.op \in {"chat", "message"}
         /\ j.at = "addTransfer" => j.op = "transfer"
         /\ j.at \in {"useTransfer", "seen"} => j.op = "claim"
         /\ j.at # "idle" => j.op \in Ops
         /\ j.op = "none" => j.at = "idle"
  <1>1. CASE j.op = "none" /\ j.at = "idle"
    BY <1>1 DEF Ops
  <1>2. CASE j.op \in Ops /\ j.at \in StepsOf(j.op)
    BY <1>2, StepSets DEF Ops
  <1>3. CASE j.op \in {"chat", "logout"} /\ j.at = "revokeWeb"
    BY <1>3 DEF Ops
  <1> QED
    BY <1>1, <1>2, <1>3 DEF OnPlan

LEMMA IdleIs ==
  /\ DOMAIN Idle = Fields /\ Idle.op = "none" /\ Idle.at = "idle" /\ Idle.device = 0 /\ Idle.list = {}
  /\ Idle.copy = None /\ Idle.on = TRUE /\ Idle.old = {} /\ Idle.stale = {}
  BY DEF Idle, Fields

LEMMA IdleOK == \A s : JobOK(Idle, s)
  BY IdleIs DEF JobOK, OnPlan, Owner, Copies, Fields

LEMMA MoveIs ==
  ASSUME NEW j, NEW at, DOMAIN j = Fields
  PROVE  /\ at = "idle" => Move(j, at) = Idle
         /\ at # "idle" => LET m == Move(j, at) IN
              /\ DOMAIN m = Fields /\ m.at = at /\ m.copy = None
              /\ m.op = j.op /\ m.id = j.id /\ m.key = j.key /\ m.device = j.device /\ m.list = j.list
              /\ m.on = j.on /\ m.old = j.old /\ m.stale = j.stale
         /\ Move(j, at).copy = None
         /\ Move(j, at).old \subseteq j.old /\ Move(j, at).at = at
  BY IdleIs DEF Move, Fields

\* Where a request may move.
Ahead(j, at) ==
    \/ at = "idle"
    \/ at \in StepsOf(j.op) /\ (j.op = "approve" /\ at = "dropRequest" => j.device \in j.list)
    \/ at = "revokeWeb" /\ j.op \in {"chat", "logout"}

LEMMA MoveOK ==
  ASSUME NEW j, NEW at, NEW s, JobOK(j, s), j.op \in Ops, Ahead(j, at)
  PROVE  JobOK(Move(j, at), s)
  <1>1. CASE at = "idle"
    BY <1>1, MoveIs, IdleOK DEF JobOK
  <1>2. CASE at # "idle"
    <2> DEFINE m == Move(j, at)
    <2>1. /\ DOMAIN m = Fields /\ m.at = at /\ m.copy = None
          /\ m.op = j.op /\ m.id = j.id /\ m.device = j.device /\ m.list = j.list /\ m.on = j.on /\ m.old = j.old
      BY <1>2, MoveIs DEF JobOK
    <2> HIDE DEF m
    <2>2. OnPlan(m)
      BY <1>2, <2>1 DEF OnPlan, Ahead
    <2>3. m.op = "approve" /\ m.at = "dropRequest" => m.device \in m.list
      BY <1>2, <2>1 DEF Ahead
    <2>4. JobOK(m, s)
      BY <2>1, <2>2, <2>3 DEF JobOK, Copies, IssuedFor
    <2> QED
      BY <2>4 DEF m
  <1> QED
    BY <1>1, <1>2

\* One more id.
LEMMA Longer ==
  ASSUME NEW s \in Seq(Issuing), NEW e \in Issuing
  PROVE  LET s2 == Append(s, e) IN
         /\ s2 \in Seq(Issuing) /\ Len(s2) = Len(s) + 1 /\ s2[Len(s) + 1] = e
         /\ DOMAIN s = 1..Len(s) /\ DOMAIN s2 = 1..(Len(s) + 1) /\ DOMAIN s \subseteq DOMAIN s2
         /\ Len(s) + 1 \in DOMAIN s2 /\ Len(s) + 1 \notin DOMAIN s
         /\ \A n \in DOMAIN s : s2[n] = s[n]
  BY AppendProperties

LEMMA WholeGrows ==
  ASSUME NEW s \in Seq(Issuing), NEW e \in Issuing, NEW F \in Files, NEW f, Whole(F, f, s)
  PROVE  Whole(F, f, Append(s, e))
  <1> DEFINE s2 == Append(s, e)
  <1>1. DOMAIN s \subseteq DOMAIN s2 /\ \A n \in DOMAIN s : s2[n] = s[n]
    BY Longer
  <1> HIDE DEF s2
  <1>2. Sort(F, s) \subseteq Sort(F, s2)
    BY <1>1 DEF Sort, Files
  <1>3. F \in IdFiles => \A r \in f : r.id \in DOMAIN s
    BY DEF Whole, Sort, IdFiles
  <1>4. Whole(F, f, s2)
    BY <1>1, <1>2, <1>3 DEF Whole
  <1> QED
    BY <1>4 DEF s2

LEMMA FileOfIs ==
  ASSUME NEW at
  PROVE  /\ FileOf(at) \in Files \cup {"none"}
         /\ FileOf(at) = "pairing" <=> at \in {"addPairing", "usePairing"}
         /\ FileOf(at) = "devices" <=> at \in {"upsertDevice", "dropDevice", "seen"}
         /\ FileOf(at) = "tickets" <=> at \in {"addTicket", "getTicket", "approveTicket", "useTicket"}
         /\ FileOf(at) = "web" <=> at \in {"addWeb", "getWeb", "touchWeb", "revokeWeb", "revokeDevice"}
         /\ FileOf(at) = "transfers" <=> at \in {"addTransfer", "useTransfer"}
         /\ FileOf(at) = "config" <=> at \in {"allow", "disallow", "setAllow"}
         /\ FileOf(at) = "requests" <=> at \in {"recordRequest", "dropRequest", "noteOther"}
  BY DEF FileOf, Files

LEMMA JobGrows ==
  ASSUME NEW s \in Seq(Issuing), NEW e \in Issuing, NEW j, JobOK(j, s)
  PROVE  JobOK(j, Append(s, e))
  <1> DEFINE s2 == Append(s, e)
  <1>1. DOMAIN s \subseteq DOMAIN s2 /\ \A n \in DOMAIN s : s2[n] = s[n]
    BY Longer
  <1>2. Copies(j) => Whole(FileOf(j.at), j.copy, s2)
    BY WholeGrows, FileOfIs DEF JobOK
  <1> HIDE DEF s2
  <1>3. JobOK(j, s2)
    BY <1>1, <1>2 DEF JobOK, IssuedFor
  <1> QED
    BY <1>3 DEF s2

\* A file some of whose records are dropped and one is added, or some are replaced.
LEMMA AddedWhole ==
  ASSUME NEW s \in Seq(Issuing), NEW F \in IdFiles, NEW f, Whole(F, f, s), NEW g, g \subseteq f,
         NEW r, r \in Sort(F, Append(s, Kind(F))), r.id = Len(s) + 1
  PROVE  Whole(F, g \cup {r}, Append(s, Kind(F)))
  <1> DEFINE s2 == Append(s, Kind(F))
             n == Len(s) + 1
  <1>0. Kind(F) \in Issuing /\ F \in Files /\ F # "devices"
    BY DEF Kind, Issuing, IdFiles, Files
  <1>1. n \notin DOMAIN s /\ s2[n] = Kind(F)
    BY <1>0, Longer
  <1>2. \A q \in f : q.id \in DOMAIN s
    BY DEF Whole, Sort, IdFiles
  <1>3. Whole(F, f, s2)
    BY <1>0, WholeGrows
  <1>4. r \in Sort(F, s2) /\ r.id = n
    OBVIOUS
  <1> HIDE DEF n, s2
  <1>5. g \cup {r} \subseteq Sort(F, s2)
    BY <1>3, <1>4 DEF Whole
  <1>6. \A x \in g \cup {r} : s2[x.id] = Kind(F)
    BY <1>1, <1>3, <1>4 DEF Whole
  <1>7. \A x, q \in g \cup {r} : x.id = q.id => x = q
    BY <1>1, <1>2, <1>3, <1>4 DEF Whole
  <1>8. Whole(F, g \cup {r}, s2)
    BY <1>0, <1>5, <1>6, <1>7 DEF Whole
  <1> QED
    BY <1>8 DEF s2

\* In g the records X of f are left out or replaced by what u makes of them.
Marks(F, f, X, u, g, s) ==
    /\ X \subseteq f /\ \A p \in X : u[p] \in Sort(F, s) /\ u[p].id = p.id
    /\ \A r \in g : r \in f \ X \/ \E p \in X : r = u[p]

LEMMA MarkedWhole ==
  ASSUME NEW s, NEW F \in IdFiles, NEW f, Whole(F, f, s), NEW X, NEW u, NEW g, Marks(F, f, X, u, g, s)
  PROVE  Whole(F, g, s)
  <1>1. F # "devices"
    BY DEF IdFiles
  <1>2. g \subseteq Sort(F, s)
    BY DEF Whole, Marks
  <1>3. \A r \in g : \E p \in f : r.id = p.id /\ ((p \notin X /\ r = p) \/ (p \in X /\ r = u[p]))
    BY DEF Marks
  <1>4. \A r \in g : s[r.id] = Kind(F) /\ \A q \in g : r.id = q.id => r = q
    BY <1>3 DEF Whole
  <1> QED
    BY <1>1, <1>2, <1>4 DEF Whole

LEMMA SmallerWhole ==
  ASSUME NEW s, NEW F \in Files, NEW f, Whole(F, f, s), NEW g, g \subseteq f
  PROVE  Whole(F, g, s)
  BY DEF Whole

LEMMA SortIs ==
  ASSUME NEW s
  PROVE  /\ Sort("pairing", s) = [id : DOMAIN s, used : BOOLEAN]
         /\ Sort("tickets", s) = [id : DOMAIN s, status : {"pending", "approved", "exchanged"}, device : Owner]
         /\ Sort("web", s) = [id : DOMAIN s, device : Owner, revoked : BOOLEAN]
         /\ Sort("transfers", s) = [id : DOMAIN s, device : Owner]
         /\ Sort("devices", s) = [device : Devices, key : Nat]
         /\ Sort("config", s) = Devices /\ Sort("requests", s) = Devices
  BY DEF Sort

\* What the steps make of a whole file is whole.
LEMMA PairingWhole ==
  ASSUME NEW s \in Seq(Issuing), NEW j, NEW f, Whole("pairing", f, s)
  PROVE  LET g == EditPairing(j, f, Len(s) + 1) IN
         /\ j.at = "addPairing" => Whole("pairing", g, Append(s, "addPairing"))
         /\ j.at \in {"usePairing"} => Whole("pairing", g, s)
  <1> DEFINE g == EditPairing(j, f, Len(s) + 1)
  <1>0. "pairing" \in IdFiles /\ "pairing" \in Files
    BY DEF IdFiles, Files
  <1>1. CASE j.at = "addPairing"
    <2> DEFINE s2 == Append(s, "addPairing")
               new == [id |-> Len(s) + 1, used |-> FALSE]
    <2>1. Kind("pairing") = "addPairing" /\ "addPairing" \in Issuing
      BY DEF Kind, Issuing
    <2>2. new \in Sort("pairing", s2) /\ new.id = Len(s) + 1
      <3>1. Len(s) + 1 \in DOMAIN s2
        BY <2>1, Longer
      <3>2. Sort("pairing", s2) = [id : DOMAIN s2, used : BOOLEAN]
        BY SortIs
      <3> QED
        BY <3>1, <3>2 DEF Owner
    <2>3. g = {p \in f : Fresh(p)} \cup {new}
      BY <1>1 DEF EditPairing
    <2> HIDE DEF new, g
    <2>4. Whole("pairing", {p \in f : Fresh(p)} \cup {new}, s2)
      BY <1>0, <2>1, <2>2, AddedWhole
    <2> QED
      BY <1>1, <2>3, <2>4 DEF g
  <1>2. CASE j.at = "usePairing"
    <2> DEFINE X == Its(j, f)
               rest == f \ Its(j, f)
               mark(p) == [p EXCEPT !.used = TRUE]
               u == [p \in X |-> mark(p)]
    <2>1. X \subseteq f
      BY DEF Its
    <2>2. \A p \in X : mark(p) \in Sort("pairing", s) /\ mark(p).id = p.id
      <3>1. Sort("pairing", s) = [id : DOMAIN s, used : BOOLEAN]
        BY SortIs
      <3>2. \A p \in [id : DOMAIN s, used : BOOLEAN] : mark(p) \in [id : DOMAIN s, used : BOOLEAN] /\ mark(p).id = p.id
        BY DEF Owner
      <3> QED
        BY <2>1, <3>1, <3>2 DEF Whole
    <2>3. g = rest \cup {mark(p) : p \in X} /\ rest \subseteq f \ X
      <3>1. g = rest \cup {mark(p) : p \in X}
        BY <1>2 DEF EditPairing
      <3>2. rest \subseteq f \ X
        BY DEF Its
      <3> QED
        BY <3>1, <3>2
    <2> HIDE DEF g, mark, X, rest
    <2>4. \A p \in X : u[p] = mark(p)
      OBVIOUS
    <2>5. \A r \in g : r \in f \ X \/ \E p \in X : r = u[p]
      BY <2>3, <2>4
    <2> HIDE DEF u
    <2>6. \A p \in X : u[p] \in Sort("pairing", s) /\ u[p].id = p.id
      BY <2>2, <2>4
    <2>7. Marks("pairing", f, X, u, g, s)
      BY <2>1, <2>5, <2>6 DEF Marks
    <2>8. Whole("pairing", g, s)
      BY <1>0, <2>7, MarkedWhole
    <2> QED
      BY <1>2, <2>8 DEF g
  <1> QED
    BY <1>1, <1>2

LEMMA TicketsWhole ==
  ASSUME NEW s \in Seq(Issuing), NEW j, NEW f, Whole("tickets", f, s), j.device \in Owner
  PROVE  LET g == EditTickets(j, f, Len(s) + 1) IN
         /\ j.at = "addTicket" => Whole("tickets", g, Append(s, "addTicket"))
         /\ j.at \in {"getTicket", "approveTicket", "useTicket"} => Whole("tickets", g, s)
  <1> DEFINE g == EditTickets(j, f, Len(s) + 1)
  <1>0. "tickets" \in IdFiles /\ "tickets" \in Files
    BY DEF IdFiles, Files
  <1>1. CASE j.at = "addTicket"
    <2> DEFINE s2 == Append(s, "addTicket")
               new == [id |-> Len(s) + 1, status |-> "pending", device |-> 0]
    <2>1. Kind("tickets") = "addTicket" /\ "addTicket" \in Issuing
      BY DEF Kind, Issuing
    <2>2. new \in Sort("tickets", s2) /\ new.id = Len(s) + 1
      <3>1. Len(s) + 1 \in DOMAIN s2
        BY <2>1, Longer
      <3>2. Sort("tickets", s2) = [id : DOMAIN s2, status : {"pending", "approved", "exchanged"}, device : Owner]
        BY SortIs
      <3> QED
        BY <3>1, <3>2 DEF Owner
    <2>3. g = {t \in f : Live(t) /\ t.status # "exchanged"} \cup {new}
      BY <1>1 DEF EditTickets
    <2> HIDE DEF new, g
    <2>4. Whole("tickets", {t \in f : Live(t) /\ t.status # "exchanged"} \cup {new}, s2)
      BY <1>0, <2>1, <2>2, AddedWhole
    <2> QED
      BY <1>1, <2>3, <2>4 DEF g
  <1>2. CASE j.at = "getTicket"
    <2>1. g \subseteq f
      BY <1>2 DEF EditTickets
    <2> QED
      BY <1>0, <1>2, <2>1, SmallerWhole
  <1>3. CASE j.at = "approveTicket"
    <2> DEFINE X == {x \in Its(j, f) : Live(x) /\ x.status # "exchanged"}
               rest == f \ Its(j, f)
               mark(p) == [p EXCEPT !.status = "approved", !.device = j.device]
               u == [p \in X |-> mark(p)]
    <2>1. X \subseteq f
      BY DEF Its
    <2>2. \A p \in X : mark(p) \in Sort("tickets", s) /\ mark(p).id = p.id
      <3>1. Sort("tickets", s) = [id : DOMAIN s, status : {"pending", "approved", "exchanged"}, device : Owner]
        BY SortIs
      <3>2. \A p \in [id : DOMAIN s, status : {"pending", "approved", "exchanged"}, device : Owner] : mark(p) \in [id : DOMAIN s, status : {"pending", "approved", "exchanged"}, device : Owner] /\ mark(p).id = p.id
        BY DEF Owner
      <3> QED
        BY <2>1, <3>1, <3>2 DEF Whole
    <2>3. g = rest \cup {mark(p) : p \in X} /\ rest \subseteq f \ X
      <3>1. g = rest \cup {mark(p) : p \in X}
        BY <1>3 DEF EditTickets
      <3>2. rest \subseteq f \ X
        BY DEF Its
      <3> QED
        BY <3>1, <3>2
    <2> HIDE DEF g, mark, X, rest
    <2>4. \A p \in X : u[p] = mark(p)
      OBVIOUS
    <2>5. \A r \in g : r \in f \ X \/ \E p \in X : r = u[p]
      BY <2>3, <2>4
    <2> HIDE DEF u
    <2>6. \A p \in X : u[p] \in Sort("tickets", s) /\ u[p].id = p.id
      BY <2>2, <2>4
    <2>7. Marks("tickets", f, X, u, g, s)
      BY <2>1, <2>5, <2>6 DEF Marks
    <2>8. Whole("tickets", g, s)
      BY <1>0, <2>7, MarkedWhole
    <2> QED
      BY <1>3, <2>8 DEF g
  <1>4. CASE j.at = "useTicket"
    <2> DEFINE X == {x \in Its(j, f) : Live(x) /\ x.status = "approved"}
               rest == {t \in f : Live(t) /\ (t.id = j.id => t.status # "approved")}
               mark(p) == [p EXCEPT !.status = "exchanged"]
               u == [p \in X |-> mark(p)]
    <2>1. X \subseteq f
      BY DEF Its
    <2>2. \A p \in X : mark(p) \in Sort("tickets", s) /\ mark(p).id = p.id
      <3>1. Sort("tickets", s) = [id : DOMAIN s, status : {"pending", "approved", "exchanged"}, device : Owner]
        BY SortIs
      <3>2. \A p \in [id : DOMAIN s, status : {"pending", "approved", "exchanged"}, device : Owner] : mark(p) \in [id : DOMAIN s, status : {"pending", "approved", "exchanged"}, device : Owner] /\ mark(p).id = p.id
        BY DEF Owner
      <3> QED
        BY <2>1, <3>1, <3>2 DEF Whole
    <2>3. g = rest \cup {mark(p) : p \in X} /\ rest \subseteq f \ X
      <3>1. g = rest \cup {mark(p) : p \in X}
        BY <1>4 DEF EditTickets, Exchange
      <3>2. rest \subseteq f \ X
        BY DEF Its
      <3> QED
        BY <3>1, <3>2
    <2> HIDE DEF g, mark, X, rest
    <2>4. \A p \in X : u[p] = mark(p)
      OBVIOUS
    <2>5. \A r \in g : r \in f \ X \/ \E p \in X : r = u[p]
      BY <2>3, <2>4
    <2> HIDE DEF u
    <2>6. \A p \in X : u[p] \in Sort("tickets", s) /\ u[p].id = p.id
      BY <2>2, <2>4
    <2>7. Marks("tickets", f, X, u, g, s)
      BY <2>1, <2>5, <2>6 DEF Marks
    <2>8. Whole("tickets", g, s)
      BY <1>0, <2>7, MarkedWhole
    <2> QED
      BY <1>4, <2>8 DEF g
  <1> QED
    BY <1>1, <1>2, <1>3, <1>4

LEMMA WebWhole ==
  ASSUME NEW s \in Seq(Issuing), NEW j, NEW f, Whole("web", f, s), j.device \in Owner
  PROVE  LET g == EditWeb(j, f, Len(s) + 1) IN
         /\ j.at = "addWeb" => Whole("web", g, Append(s, "addWeb"))
         /\ j.at \in {"getWeb", "touchWeb", "revokeWeb", "revokeDevice"} => Whole("web", g, s)
  <1> DEFINE g == EditWeb(j, f, Len(s) + 1)
  <1>0. "web" \in IdFiles /\ "web" \in Files
    BY DEF IdFiles, Files
  <1>1. CASE j.at = "addWeb"
    <2> DEFINE s2 == Append(s, "addWeb")
               new == [id |-> Len(s) + 1, device |-> j.device, revoked |-> FALSE]
    <2>1. Kind("web") = "addWeb" /\ "addWeb" \in Issuing
      BY DEF Kind, Issuing
    <2>2. new \in Sort("web", s2) /\ new.id = Len(s) + 1
      <3>1. Len(s) + 1 \in DOMAIN s2
        BY <2>1, Longer
      <3>2. Sort("web", s2) = [id : DOMAIN s2, device : Owner, revoked : BOOLEAN]
        BY SortIs
      <3> QED
        BY <3>1, <3>2 DEF Owner
    <2>3. g = {w \in f : Usable(w)} \cup {new}
      BY <1>1 DEF EditWeb
    <2> HIDE DEF new, g
    <2>4. Whole("web", {w \in f : Usable(w)} \cup {new}, s2)
      BY <1>0, <2>1, <2>2, AddedWhole
    <2> QED
      BY <1>1, <2>3, <2>4 DEF g
  <1>2. CASE j.at \in {"getWeb", "touchWeb"}
    <2>1. g \subseteq f
      BY <1>2 DEF EditWeb, Touch
    <2> QED
      BY <1>0, <1>2, <2>1, SmallerWhole
  <1>3. CASE j.at = "revokeWeb"
    <2> DEFINE X == Its(j, f)
               rest == f \ Its(j, f)
               mark(p) == [p EXCEPT !.revoked = TRUE]
               u == [p \in X |-> mark(p)]
    <2>1. X \subseteq f
      BY DEF Its
    <2>2. \A p \in X : mark(p) \in Sort("web", s) /\ mark(p).id = p.id
      <3>1. Sort("web", s) = [id : DOMAIN s, device : Owner, revoked : BOOLEAN]
        BY SortIs
      <3>2. \A p \in [id : DOMAIN s, device : Owner, revoked : BOOLEAN] : mark(p) \in [id : DOMAIN s, device : Owner, revoked : BOOLEAN] /\ mark(p).id = p.id
        BY DEF Owner
      <3> QED
        BY <2>1, <3>1, <3>2 DEF Whole
    <2>3. g = rest \cup {mark(p) : p \in X} /\ rest \subseteq f \ X
      <3>1. g = rest \cup {mark(p) : p \in X}
        BY <1>3 DEF EditWeb
      <3>2. rest \subseteq f \ X
        BY DEF Its
      <3> QED
        BY <3>1, <3>2
    <2> HIDE DEF g, mark, X, rest
    <2>4. \A p \in X : u[p] = mark(p)
      OBVIOUS
    <2>5. \A r \in g : r \in f \ X \/ \E p \in X : r = u[p]
      BY <2>3, <2>4
    <2> HIDE DEF u
    <2>6. \A p \in X : u[p] \in Sort("web", s) /\ u[p].id = p.id
      BY <2>2, <2>4
    <2>7. Marks("web", f, X, u, g, s)
      BY <2>1, <2>5, <2>6 DEF Marks
    <2>8. Whole("web", g, s)
      BY <1>0, <2>7, MarkedWhole
    <2> QED
      BY <1>3, <2>8 DEF g
  <1>4. CASE j.at = "revokeDevice"
    <2> DEFINE X == {w \in f : w.device = j.device}
               rest == f \ {w \in f : w.device = j.device}
               mark(p) == [p EXCEPT !.revoked = TRUE]
               u == [p \in X |-> mark(p)]
    <2>1. X \subseteq f
      BY DEF Its
    <2>2. \A p \in X : mark(p) \in Sort("web", s) /\ mark(p).id = p.id
      <3>1. Sort("web", s) = [id : DOMAIN s, device : Owner, revoked : BOOLEAN]
        BY SortIs
      <3>2. \A p \in [id : DOMAIN s, device : Owner, revoked : BOOLEAN] : mark(p) \in [id : DOMAIN s, device : Owner, revoked : BOOLEAN] /\ mark(p).id = p.id
        BY DEF Owner
      <3> QED
        BY <2>1, <3>1, <3>2 DEF Whole
    <2>3. g = rest \cup {mark(p) : p \in X} /\ rest \subseteq f \ X
      <3>1. g = rest \cup {mark(p) : p \in X}
        BY <1>4 DEF EditWeb
      <3>2. rest \subseteq f \ X
        BY DEF Its
      <3> QED
        BY <3>1, <3>2
    <2> HIDE DEF g, mark, X, rest
    <2>4. \A p \in X : u[p] = mark(p)
      OBVIOUS
    <2>5. \A r \in g : r \in f \ X \/ \E p \in X : r = u[p]
      BY <2>3, <2>4
    <2> HIDE DEF u
    <2>6. \A p \in X : u[p] \in Sort("web", s) /\ u[p].id = p.id
      BY <2>2, <2>4
    <2>7. Marks("web", f, X, u, g, s)
      BY <2>1, <2>5, <2>6 DEF Marks
    <2>8. Whole("web", g, s)
      BY <1>0, <2>7, MarkedWhole
    <2> QED
      BY <1>4, <2>8 DEF g
  <1> QED
    BY <1>1, <1>2, <1>3, <1>4

LEMMA TransfersWhole ==
  ASSUME NEW s \in Seq(Issuing), NEW j, NEW f, Whole("transfers", f, s), j.device \in Owner
  PROVE  LET g == EditTransfers(j, f, Len(s) + 1) IN
         /\ j.at = "addTransfer" => Whole("transfers", g, Append(s, "addTransfer"))
         /\ j.at \in {"useTransfer"} => Whole("transfers", g, s)
  <1> DEFINE g == EditTransfers(j, f, Len(s) + 1)
  <1>0. "transfers" \in IdFiles /\ "transfers" \in Files
    BY DEF IdFiles, Files
  <1>1. CASE j.at = "addTransfer"
    <2> DEFINE s2 == Append(s, "addTransfer")
               new == [id |-> Len(s) + 1, device |-> j.device]
    <2>1. Kind("transfers") = "addTransfer" /\ "addTransfer" \in Issuing
      BY DEF Kind, Issuing
    <2>2. new \in Sort("transfers", s2) /\ new.id = Len(s) + 1
      <3>1. Len(s) + 1 \in DOMAIN s2
        BY <2>1, Longer
      <3>2. Sort("transfers", s2) = [id : DOMAIN s2, device : Owner]
        BY SortIs
      <3> QED
        BY <3>1, <3>2 DEF Owner
    <2>3. g = {x \in f : Live(x)} \cup {new}
      BY <1>1 DEF EditTransfers
    <2> HIDE DEF new, g
    <2>4. Whole("transfers", {x \in f : Live(x)} \cup {new}, s2)
      BY <1>0, <2>1, <2>2, AddedWhole
    <2> QED
      BY <1>1, <2>3, <2>4 DEF g
  <1>2. CASE j.at = "useTransfer"
    <2>1. g \subseteq f
      BY <1>2 DEF EditTransfers
    <2> QED
      BY <1>0, <1>2, <2>1, SmallerWhole
  <1> QED
    BY <1>1, <1>2

LEMMA DevicesWhole ==
  ASSUME NEW s, NEW s2, NEW j, NEW f, Whole("devices", f, s), NEW n \in Nat, j.at = "upsertDevice" => j.device \in Devices,
         j.at \in {"upsertDevice", "dropDevice", "seen"}
  PROVE  Whole("devices", EditDevices(j, f, n), s2)
  <1>1. "devices" \notin IdFiles
    BY DEF IdFiles
  <1>2. f \subseteq [device : Devices, key : Nat] /\ \A r, q \in f : r.device = q.device => r = q
    BY SortIs DEF Whole
  <1>3. Sort("devices", s2) = [device : Devices, key : Nat]
    BY SortIs
  <1>4. CASE j.at = "upsertDevice"
    <2> DEFINE new == [device |-> j.device, key |-> n]
    <2>1. new \in [device : Devices, key : Nat] /\ new.device = j.device
      BY <1>4
    <2>2. EditDevices(j, f, n) = {r \in f : r.device # j.device} \cup {new}
      BY <1>4 DEF EditDevices
    <2> HIDE DEF new
    <2>3. EditDevices(j, f, n) \subseteq [device : Devices, key : Nat]
      BY <1>2, <2>1, <2>2
    <2>4. \A r, q \in EditDevices(j, f, n) : r.device = q.device => r = q
      BY <1>2, <2>1, <2>2
    <2> QED
      BY <1>1, <1>3, <2>3, <2>4 DEF Whole
  <1>5. CASE j.at \in {"dropDevice", "seen"}
    <2>1. EditDevices(j, f, n) \subseteq f
      BY <1>5 DEF EditDevices
    <2> QED
      BY <1>1, <1>2, <1>3, <2>1 DEF Whole
  <1> QED
    BY <1>4, <1>5

\* The ids issued after a step has taken one.
Issues(j, s) == IF j.at \in Issuing THEN Append(s, j.at) ELSE s

LEMMA IssuingIs ==
  ASSUME NEW j, NEW s
  PROVE  /\ j.at \in {"addPairing", "upsertDevice", "addTicket", "addWeb", "addTransfer"} => Issues(j, s) = Append(s, j.at)
         /\ j.at \notin {"addPairing", "upsertDevice", "addTicket", "addWeb", "addTransfer"} => Issues(j, s) = s
  BY DEF Issues, Issuing

LEMMA EditWhole ==
  ASSUME NEW s \in Seq(Issuing), NEW j, JobOK(j, s), FileOf(j.at) # "none", NEW f, Whole(FileOf(j.at), f, s)
  PROVE  Whole(FileOf(j.at), Edit(j, f, Len(s) + 1), Issues(j, s))
  <1> DEFINE F == FileOf(j.at)
             n == Len(s) + 1
  <1>0. /\ F \in Files /\ n \in Nat /\ j.device \in Owner /\ OnPlan(j) /\ j.list \subseteq Devices
        /\ j.op \in {"register", "approve", "reject", "delete"} => j.device \in Devices
    BY FileOfIs DEF JobOK
  <1>1. CASE F = "pairing"
    <2>1. j.at = "addPairing" \/ j.at \in {"usePairing"}
      BY <1>1, FileOfIs
    <2>2. Edit(j, f, n) = EditPairing(j, f, n)
      BY <1>1 DEF Edit
    <2>3. Issues(j, s) = IF j.at = "addPairing" THEN Append(s, "addPairing") ELSE s
      BY <2>1, IssuingIs
    <2>4. Whole("pairing", EditPairing(j, f, n), Issues(j, s))
      BY <1>1, <2>1, <2>3, PairingWhole
    <2> QED
      BY <1>1, <2>2, <2>4
  <1>2. CASE F = "tickets"
    <2>1. j.at = "addTicket" \/ j.at \in {"getTicket", "approveTicket", "useTicket"}
      BY <1>2, FileOfIs
    <2>2. Edit(j, f, n) = EditTickets(j, f, n)
      BY <1>2 DEF Edit
    <2>3. Issues(j, s) = IF j.at = "addTicket" THEN Append(s, "addTicket") ELSE s
      BY <2>1, IssuingIs
    <2>4. Whole("tickets", EditTickets(j, f, n), Issues(j, s))
      BY <1>0, <1>2, <2>1, <2>3, TicketsWhole
    <2> QED
      BY <1>2, <2>2, <2>4
  <1>3. CASE F = "web"
    <2>1. j.at = "addWeb" \/ j.at \in {"getWeb", "touchWeb", "revokeWeb", "revokeDevice"}
      BY <1>3, FileOfIs
    <2>2. Edit(j, f, n) = EditWeb(j, f, n)
      BY <1>3 DEF Edit
    <2>3. Issues(j, s) = IF j.at = "addWeb" THEN Append(s, "addWeb") ELSE s
      BY <2>1, IssuingIs
    <2>4. Whole("web", EditWeb(j, f, n), Issues(j, s))
      BY <1>0, <1>3, <2>1, <2>3, WebWhole
    <2> QED
      BY <1>3, <2>2, <2>4
  <1>4. CASE F = "transfers"
    <2>1. j.at = "addTransfer" \/ j.at \in {"useTransfer"}
      BY <1>4, FileOfIs
    <2>2. Edit(j, f, n) = EditTransfers(j, f, n)
      BY <1>4 DEF Edit
    <2>3. Issues(j, s) = IF j.at = "addTransfer" THEN Append(s, "addTransfer") ELSE s
      BY <2>1, IssuingIs
    <2>4. Whole("transfers", EditTransfers(j, f, n), Issues(j, s))
      BY <1>0, <1>4, <2>1, <2>3, TransfersWhole
    <2> QED
      BY <1>4, <2>2, <2>4
  <1>5. CASE F = "devices"
    <2>1. j.at \in {"upsertDevice", "dropDevice", "seen"} /\ (j.at = "upsertDevice" => j.device \in Devices)
      BY <1>0, <1>5, FileOfIs, Where
    <2>2. Whole("devices", EditDevices(j, f, n), Issues(j, s))
      BY <1>0, <1>5, <2>1, DevicesWhole
    <2> QED
      BY <1>5, <2>2 DEF Edit
  <1>6. CASE F = "config"
    <2>1. j.at \in {"allow", "disallow", "setAllow"} /\ (j.at = "allow" => j.device \in Devices)
      BY <1>0, <1>6, FileOfIs, Where
    <2>2. f \subseteq Devices
      BY <1>6, SortIs DEF Whole
    <2>3. EditConfig(j, f) \subseteq Devices
      BY <1>0, <2>1, <2>2 DEF EditConfig
    <2>4. Whole("config", EditConfig(j, f), Issues(j, s))
      BY <2>3, SortIs DEF Whole, IdFiles
    <2> QED
      BY <1>6, <2>4 DEF Edit
  <1>7. CASE F = "requests"
    <2>1. j.at \in {"recordRequest", "dropRequest", "noteOther"} /\ (j.at # "noteOther" => j.device \in Devices)
      BY <1>0, <1>7, FileOfIs, Where
    <2>2. f \subseteq Devices
      BY <1>7, SortIs DEF Whole
    <2>3. EditRequests(j, f) \subseteq Devices
      BY <2>1, <2>2 DEF EditRequests
    <2>4. Whole("requests", EditRequests(j, f), Issues(j, s))
      BY <2>3, SortIs DEF Whole, IdFiles
    <2> QED
      BY <1>7, <2>4 DEF Edit
  <1> QED
    BY <1>0, <1>1, <1>2, <1>3, <1>4, <1>5, <1>6, <1>7 DEF Files

----------------------------------------------------------------------------
\* What a request starts with.

LEMMA FirstSteps ==
  ASSUME NEW op \in Ops
  PROVE  /\ Plan(op)[1] \in StepsOf(op)
         /\ Plan(op)[1] \notin {"upsertDevice", "recordRequest", "dropDevice", "disallow", "sync", "apply", "idle"}
         /\ Plan(op)[1] = "dropRequest" => op = "reject"
         /\ op = "delete" => Plan(op)[1] = "revokeDevice"
  BY Plans, StepSets DEF Ops

Starts(r) ==
    /\ DOMAIN r = Fields /\ r.op \in Ops /\ r.at = Plan(r.op)[1] /\ r.copy = None
    /\ r.on = TRUE /\ r.stale = {}

LEMMA RequestIs ==
  ASSUME NEW r \in Requests
  PROVE  /\ Starts(r)
         /\ r.device \in Devices \cup {0} /\ r.list \subseteq Devices
         /\ r.op \in {"register", "approve", "reject", "delete"} => r.device \in Devices
         /\ r.op = "delete" => r.old = SessionsOf(r.device)
         /\ r.op # "delete" => r.old = {}
         /\ r.op = "register" => r.id \in Held("addPairing")
         /\ r.op = "exchange" => r.id \in Held("addTicket")
         /\ r.op = "claim" => r.id \in Held("addTransfer")
  <1>1. CASE r \in {Ask(op, 0) : op \in {"pair", "init", "note"}}
    <2>1. PICK op \in {"pair", "init", "note"} : r = Ask(op, 0)
      BY <1>1
    <2>2. Starts(r) /\ r.op = op /\ r.device = 0 /\ r.list = {} /\ r.old = {}
      BY <2>1 DEF Ask, Idle, Fields, Starts, Ops
    <2> QED
      BY <2>1, <2>2
  <1>2. CASE r \in {[Ask("register", n) EXCEPT !.device = d] : n \in Held("addPairing"), d \in Devices}
    <2>1. PICK n \in Held("addPairing"), d \in Devices : r = [Ask("register", n) EXCEPT !.device = d]
      BY <1>2
    <2>2. Starts(r) /\ r.op = "register" /\ r.device = d /\ r.list = {} /\ r.old = {} /\ r.id = n
      BY <2>1 DEF Ask, Idle, Fields, Starts, Ops
    <2> QED
      BY <2>1, <2>2
  <1>3. CASE r \in {For(op, d) : op \in {"approve", "reject"}, d \in Devices}
    <2>1. PICK op \in {"approve", "reject"}, d \in Devices : r = [Ask(op, 0) EXCEPT !.device = d]
      BY <1>3 DEF For, By
    <2>2. Starts(r) /\ r.op = op /\ r.device = d /\ r.list = {} /\ r.old = {}
      BY <2>1 DEF Ask, Idle, Fields, Starts, Ops
    <2> QED
      BY <2>1, <2>2
  <1>4. CASE r \in {[For("delete", d) EXCEPT !.old = SessionsOf(d)] : d \in Devices}
    <2>1. PICK d \in Devices : r = [[Ask("delete", 0) EXCEPT !.device = d] EXCEPT !.old = SessionsOf(d)]
      BY <1>4 DEF For, By
    <2>2. Starts(r) /\ r.op = "delete" /\ r.device = d /\ r.list = {} /\ r.old = SessionsOf(d)
      BY <2>1 DEF Ask, Idle, Fields, Starts, Ops
    <2> QED
      BY <2>1, <2>2
  <1>5. CASE r \in {[Ask("channel", 0) EXCEPT !.list = S] : S \in SUBSET Devices}
    <2>1. PICK S \in SUBSET Devices : r = [Ask("channel", 0) EXCEPT !.list = S]
      BY <1>5
    <2>2. Starts(r) /\ r.op = "channel" /\ r.device = 0 /\ r.list = S /\ r.old = {}
      BY <2>1 DEF Ask, Idle, Fields, Starts, Ops
    <2> QED
      BY <2>1, <2>2
  <1>6. CASE r \in {Ask(op, n) : op \in {"status", "exchange"}, n \in Held("addTicket")}
    <2>1. PICK op \in {"status", "exchange"}, n \in Held("addTicket") : r = Ask(op, n)
      BY <1>6
    <2>2. Starts(r) /\ r.op = op /\ r.device = 0 /\ r.list = {} /\ r.old = {} /\ r.id = n
      BY <2>1 DEF Ask, Idle, Fields, Starts, Ops
    <2> QED
      BY <2>1, <2>2
  <1>7. CASE r \in {By("login", n, k) : n \in Held("addTicket"), k \in Held("upsertDevice")}
    <2>1. PICK n \in Held("addTicket"), k \in Held("upsertDevice") : r = [Ask("login", n) EXCEPT !.key = k]
      BY <1>7 DEF For, By
    <2>2. Starts(r) /\ r.op = "login" /\ r.device = 0 /\ r.list = {} /\ r.old = {}
      BY <2>1 DEF Ask, Idle, Fields, Starts, Ops
    <2> QED
      BY <2>1, <2>2
  <1>8. CASE r \in {By(op, 0, k) : op \in {"message", "transfer"}, k \in Held("upsertDevice")}
    <2>1. PICK op \in {"message", "transfer"}, k \in Held("upsertDevice") : r = [Ask(op, 0) EXCEPT !.key = k]
      BY <1>8 DEF For, By
    <2>2. Starts(r) /\ r.op = op /\ r.device = 0 /\ r.list = {} /\ r.old = {}
      BY <2>1 DEF Ask, Idle, Fields, Starts, Ops
    <2> QED
      BY <2>1, <2>2
  <1>9. CASE r \in {Ask(op, n) : op \in {"chat", "logout"}, n \in Held("addWeb")}
    <2>1. PICK op \in {"chat", "logout"}, n \in Held("addWeb") : r = Ask(op, n)
      BY <1>9
    <2>2. Starts(r) /\ r.op = op /\ r.device = 0 /\ r.list = {} /\ r.old = {}
      BY <2>1 DEF Ask, Idle, Fields, Starts, Ops
    <2> QED
      BY <2>1, <2>2
  <1>10. CASE r \in {Ask("claim", n) : n \in Held("addTransfer")}
    <2>1. PICK n \in Held("addTransfer") : r = Ask("claim", n)
      BY <1>10
    <2>2. Starts(r) /\ r.op = "claim" /\ r.device = 0 /\ r.list = {} /\ r.old = {} /\ r.id = n
      BY <2>1 DEF Ask, Idle, Fields, Starts, Ops
    <2> QED
      BY <2>1, <2>2
  <1> QED
    BY <1>1, <1>2, <1>3, <1>4, <1>5, <1>6, <1>7, <1>8, <1>9, <1>10 DEF Requests

LEMMA RequestOK ==
  ASSUME Types, NEW r \in Requests
  PROVE  JobOK(r, issued)
  <1>1. /\ Starts(r)
        /\ r.device \in Devices \cup {0} /\ r.list \subseteq Devices
        /\ r.op \in {"register", "approve", "reject", "delete"} => r.device \in Devices
        /\ r.op = "delete" => r.old = SessionsOf(r.device)
        /\ r.op # "delete" => r.old = {}
        /\ r.op = "register" => r.id \in Held("addPairing")
        /\ r.op = "exchange" => r.id \in Held("addTicket")
        /\ r.op = "claim" => r.id \in Held("addTransfer")
    BY RequestIs, Zenon
  <1>2. r.old \subseteq DOMAIN issued
    <2>1. Whole("web", files.web, issued)
      BY DEF Types, Files
    <2>2. \A w \in files.web : w.id \in DOMAIN issued
      <3>1. files.web \subseteq Sort("web", issued)
        BY <2>1 DEF Whole
      <3>2. Sort("web", issued) = [id : DOMAIN issued, device : Owner, revoked : BOOLEAN]
        BY SortIs
      <3> QED
        BY <3>1, <3>2
    <2>3. SessionsOf(r.device) \subseteq DOMAIN issued
      BY <2>2 DEF SessionsOf
    <2> QED
      BY <1>1, <2>3
  <1>3. OnPlan(r)
    BY <1>1, FirstSteps DEF OnPlan, Starts
  <1>4. r.at = "dropRequest" => r.op # "approve"
    BY <1>1, FirstSteps DEF Starts
  <1> QED
    BY <1>1, <1>2, <1>3, <1>4 DEF JobOK, Owner, Copies, Held, IssuedFor, Starts

----------------------------------------------------------------------------
\* What the steps do to the requests.

LEMMA WaysSteps ==
  ASSUME NEW op \in Ops, NEW a, NEW b, <<a, b>> \in Ways(op)
  PROVE  /\ b \in StepsOf(op) /\ b # "idle" /\ b # "revokeDevice"
         /\ op = "approve" /\ b = "dropRequest" => a = "allow"
         /\ b = "sync" => a \in {"dropRequest", "disallow"}
         /\ b = "disallow" => a = "dropDevice"
         /\ b = "recordRequest" => a = "upsertDevice"
         /\ b \in {"usePairing", "upsertDevice"} => a = "usePairing"
  <1>1. b \in StepsOf(op)
    BY FollowsWays DEF Follows, StepsOf
  <1> QED
    BY <1>1 DEF Ways, Ops

LEMMA AheadAfter ==
  ASSUME NEW j, NEW s, JobOK(j, s), j.op \in Ops, j.at = "allow" => j.device \in j.list
  PROVE  Ahead(j, After(j))
  <1>1. CASE After(j) = "idle"
    BY <1>1 DEF Ahead
  <1>2. CASE <<j.at, After(j)>> \in Ways(j.op)
    BY <1>2, WaysSteps DEF Ahead
  <1> QED
    BY <1>1, <1>2, GoesOn

\* q is p, but for copies that are out of date.
Same(p, q) ==
    /\ DOMAIN q = Fields /\ q.op = p.op /\ q.at = p.at /\ q.id = p.id /\ q.device = p.device /\ q.list = p.list
    /\ q.copy = p.copy /\ q.on = p.on /\ q.old = p.old /\ p.stale \subseteq q.stale

LEMMA SameOK ==
  ASSUME NEW p, NEW q, NEW s, JobOK(p, s), Same(p, q)
  PROVE  JobOK(q, s)
  BY DEF JobOK, Same, OnPlan, Copies, IssuedFor

LEMMA NothingWhole == \A s : Whole("requests", {}, s)
  BY DEF Whole, IdFiles

\* k is the request j once it has read the content f of its file, of which it makes new.
Loaded(j, k, f, new) ==
    /\ DOMAIN k = Fields /\ k.op = j.op /\ k.at = j.at /\ k.id = j.id /\ k.old = j.old /\ k.copy = None
    /\ k.on \in BOOLEAN /\ (k.on <=> (j.at \in Seeks => Found(j, f) # {}))
    /\ IF k.on /\ j.at \in {"useTicket", "getWeb", "useTransfer"} THEN \E r \in Found(j, f) : k.device = r.device
       ELSE k.device = j.device
    /\ k.list = IF FileOf(j.at) = "config" THEN new ELSE j.list
    /\ k.stale = IF f = files[FileOf(j.at)] THEN j.stale \ {FileOf(j.at)} ELSE j.stale \cup {FileOf(j.at)}

\* What a step can read of its file.
Reads(F, f) == f = files[F] \/ (F = "requests" /\ f = {})

\* A file step that has nothing to save.
NoSave(j, k, f, new) == (j.at = "usePairing" /\ ~k.on) \/ j.at = "seen" \/ (j.at \notin Rewrites /\ new = f)

LEMMA LoadIs ==
  ASSUME Types, NEW t \in Threads, Load(t)
  PROVE  LET j == job[t] IN
         /\ FileOf(j.at) # "none" /\ j.copy = None /\ j.op \in Ops /\ JobOK(j, issued)
         /\ issued' = Issues(j, issued) /\ (j.at \in Issuing => Len(issued) + 1 <= MaxIds)
         /\ \E f, k : LET new == Edit(j, f, Len(issued) + 1) IN
              /\ Reads(FileOf(j.at), f) /\ Loaded(j, k, f, new)
              /\ \/ NoSave(j, k, f, new) /\ job' = [job EXCEPT ![t] = Move(k, After(k))]
                 \/ ~(j.at = "usePairing" /\ ~k.on) /\ job' = [job EXCEPT ![t] = [k EXCEPT !.copy = new]]
         /\ OnlyJob
  <1> DEFINE j == job[t]
             F == FileOf(j.at)
             Made(f) == Edit(j, f, Len(issued) + 1)
             On(f) == j.at \in Seeks => Found(j, f) # {}
             Device(f) == IF On(f) /\ j.at \in {"useTicket", "getWeb", "useTransfer"}
                          THEN (CHOOSE r \in Found(j, f) : TRUE).device ELSE j.device
             Taken(f) == [j EXCEPT !.on = On(f), !.device = Device(f), !.list = IF F = "config" THEN Made(f) ELSE @,
                                   !.stale = IF f = files[F] THEN @ \ {F} ELSE @ \cup {F}]
  <1>1. /\ F # "none" /\ j.copy = None /\ issued' = Issues(j, issued) /\ (j.at \in Issuing => Len(issued) + 1 <= MaxIds)
        /\ OnlyJob
    BY DEF Load, Issues
  <1>2. JobOK(j, issued)
    BY DEF Types
  <1>3. j.op \in Ops
    <2>1. j.at # "idle"
      BY <1>1 DEF FileOf
    <2> QED
      BY <1>2, <2>1, Where DEF JobOK
  <1>4. PICK f \in Contents(t) :
          IF \/ j.at = "usePairing" /\ ~On(f)
             \/ j.at = "seen" /\ j.device \notin Registered
             \/ j.at \notin Rewrites /\ Made(f) = f
          THEN job' = [job EXCEPT ![t] = Move(Taken(f), After(Taken(f)))]
          ELSE job' = [job EXCEPT ![t] = [Taken(f) EXCEPT !.copy = Made(f)]]
    BY DEF Load, Become
  <1> DEFINE new == Made(f)
             found == Found(j, f)
             on == On(f)
             device == Device(f)
             k == Taken(f)
             stale == IF f = files[F] THEN j.stale \ {F} ELSE j.stale \cup {F}
  <1>5. on /\ j.at \in {"useTicket", "getWeb", "useTransfer"} => \E r \in found : device = r.device
    <2> SUFFICES ASSUME on, j.at \in {"useTicket", "getWeb", "useTransfer"} PROVE \E r \in found : device = r.device
      OBVIOUS
    <2>1. found # {}
      BY DEF Seeks
    <2> QED
      BY <2>1
  <1>6. ~(on /\ j.at \in {"useTicket", "getWeb", "useTransfer"}) => device = j.device
    OBVIOUS
  <1>7. DOMAIN j = Fields
    BY <1>2 DEF JobOK
  <1>8. Reads(F, f)
    BY DEF Contents, Reads
  <1>9. IF (j.at = "usePairing" /\ ~on) \/ (j.at = "seen" /\ j.device \notin Registered) \/ (j.at \notin Rewrites /\ new = f)
        THEN job' = [job EXCEPT ![t] = Move(k, After(k))] ELSE job' = [job EXCEPT ![t] = [k EXCEPT !.copy = new]]
    BY <1>4
  <1>10. on \in BOOLEAN /\ (on <=> (j.at \in Seeks => Found(j, f) # {}))
    OBVIOUS
  <1>11. k = [j EXCEPT !.on = on, !.device = device, !.list = IF F = "config" THEN new ELSE @, !.stale = stale]
    OBVIOUS
  <1> HIDE DEF F, found, new, j, device, on, k, stale, Made, On, Device, Taken
  <1>12. /\ DOMAIN k = Fields /\ k.op = j.op /\ k.at = j.at /\ k.id = j.id /\ k.old = j.old /\ k.copy = j.copy
         /\ k.on = on /\ k.device = device /\ k.list = (IF F = "config" THEN new ELSE j.list) /\ k.stale = stale
    BY <1>7, <1>11 DEF Fields
  <1>13. Loaded(j, k, f, new)
    BY <1>1, <1>5, <1>6, <1>10, <1>12 DEF Loaded, found, F, stale
  <1>14. \/ NoSave(j, k, f, new) /\ job' = [job EXCEPT ![t] = Move(k, After(k))]
         \/ ~(j.at = "usePairing" /\ ~k.on) /\ job' = [job EXCEPT ![t] = [k EXCEPT !.copy = new]]
    BY <1>9, <1>12 DEF NoSave
  <1> QED
    BY <1>1, <1>2, <1>3, <1>8, <1>13, <1>14 DEF F, new, Made, j

LEMMA CopyIs ==
  ASSUME NEW k, NEW new, DOMAIN k = Fields
  PROVE  LET q == [k EXCEPT !.copy = new] IN
         /\ DOMAIN q = Fields /\ q.op = k.op /\ q.at = k.at /\ q.id = k.id /\ q.device = k.device /\ q.list = k.list
         /\ q.copy = new /\ q.on = k.on /\ q.old = k.old /\ q.stale = k.stale
  BY DEF Fields

\* The record a step finds belongs to a known device.
LEMMA FoundOwner ==
  ASSUME NEW s, NEW j, NEW f, Whole(FileOf(j.at), f, s), j.at \in {"useTicket", "getWeb", "useTransfer"},
         NEW r \in Found(j, f)
  PROVE  r.device \in Owner
  <1>0. r \in f
    BY DEF Found, Its
  <1>1. CASE j.at = "useTicket"
    <2>1. Sort("tickets", s) = [id : DOMAIN s, status : {"pending", "approved", "exchanged"}, device : Owner]
      BY DEF Sort
    <2>2. f \subseteq Sort("tickets", s)
      BY <1>1 DEF Whole, FileOf
    <2>3. r \in [id : DOMAIN s, status : {"pending", "approved", "exchanged"}, device : Owner]
      BY <1>0, <2>1, <2>2
    <2> QED
      BY <2>3
  <1>2. CASE j.at = "getWeb"
    <2>1. Sort("web", s) = [id : DOMAIN s, device : Owner, revoked : BOOLEAN]
      BY DEF Sort
    <2>2. f \subseteq Sort("web", s)
      BY <1>2 DEF Whole, FileOf
    <2>3. r \in [id : DOMAIN s, device : Owner, revoked : BOOLEAN]
      BY <1>0, <2>1, <2>2
    <2> QED
      BY <2>3
  <1>3. CASE j.at = "useTransfer"
    <2>1. Sort("transfers", s) = [id : DOMAIN s, device : Owner]
      BY DEF Sort
    <2>2. f \subseteq Sort("transfers", s)
      BY <1>3 DEF Whole, FileOf
    <2>3. r \in [id : DOMAIN s, device : Owner]
      BY <1>0, <2>1, <2>2
    <2> QED
      BY <2>3
  <1> QED
    BY <1>1, <1>2, <1>3

LEMMA LoadedOK ==
  ASSUME NEW s \in Seq(Issuing), NEW j, JobOK(j, s), FileOf(j.at) # "none", j.op \in Ops,
         NEW f, Whole(FileOf(j.at), f, s), NEW k, Loaded(j, k, f, Edit(j, f, Len(s) + 1))
  PROVE  /\ JobOK(k, Issues(j, s)) /\ (j.at = "allow" => k.device \in k.list)
         /\ ~(j.at = "usePairing" /\ ~k.on) => JobOK([k EXCEPT !.copy = Edit(j, f, Len(s) + 1)], Issues(j, s))
  <1> DEFINE F == FileOf(j.at)
             new == Edit(j, f, Len(s) + 1)
             s2 == Issues(j, s)
  <1>1. Whole(F, new, s2)
    BY EditWhole
  <1>2. JobOK(j, s2)
    BY JobGrows, IssuingIs DEF Issues, Issuing
  <1>3. OnPlan(k) /\ OnPlan(j)
    BY <1>2 DEF OnPlan, Loaded, JobOK
  <1>4. k.device \in Owner /\ (j.op \in {"register", "approve", "reject", "delete"} => k.device = j.device /\ j.device \in Devices)
    <2>1. CASE k.on /\ j.at \in {"useTicket", "getWeb", "useTransfer"}
      BY <1>3, <2>1, FoundOwner, Where DEF Loaded
    <2>2. CASE ~(k.on /\ j.at \in {"useTicket", "getWeb", "useTransfer"})
      BY <1>2, <2>2 DEF Loaded, JobOK
    <2>3. j.op \in {"register", "approve", "reject", "delete"} => j.at \notin {"useTicket", "getWeb", "useTransfer"}
      BY <1>3, Where
    <2> QED
      BY <1>2, <2>1, <2>2, <2>3 DEF Loaded, JobOK
  <1>5. k.list \subseteq Devices
    BY <1>1, <1>2, SortIs DEF Loaded, JobOK, Whole
  <1>6. j.op = "approve" => F # "config" \/ (j.at = "allow" /\ k.device \in k.list)
    <2>1. j.op = "approve" /\ F = "config" => j.at = "allow"
      BY <1>3, Where, FileOfIs
    <2>2. j.at = "allow" => new = f \cup {j.device}
      BY FileOfIs DEF Edit, EditConfig
    <2> QED
      BY <1>4, <2>1, <2>2 DEF Loaded
  <1>7. j.at = "allow" => k.device \in k.list
    BY <1>3, <1>6, Where, FileOfIs
  <1>8. k.op = "approve" /\ k.at = "dropRequest" => k.device \in k.list
    BY <1>2, <1>4, <1>6 DEF Loaded, JobOK
  <1> HIDE DEF s2
  <1>9. JobOK(k, s2)
    BY <1>2, <1>3, <1>4, <1>5, <1>8 DEF Loaded, JobOK, Copies, IssuedFor
  <1>10. ASSUME ~(j.at = "usePairing" /\ ~k.on) PROVE JobOK([k EXCEPT !.copy = new], s2)
    <2> DEFINE q == [k EXCEPT !.copy = new]
    <2>1. /\ DOMAIN q = Fields /\ q.op = k.op /\ q.at = k.at /\ q.id = k.id /\ q.device = k.device /\ q.list = k.list
          /\ q.copy = new /\ q.on = k.on /\ q.old = k.old
      BY CopyIs DEF Loaded
    <2> HIDE DEF q, new
    <2>2. OnPlan(q)
      BY <1>3, <2>1 DEF OnPlan
    <2>3. q.op = "approve" => q.device \in q.list
      <3>1. q.op = "approve" => F = "config" \/ q.at = "dropRequest"
        <4>1. q.op = "approve" => q.at \in {"allow", "dropRequest", "sync", "apply"}
          BY <2>2, StepSets DEF OnPlan, Ops
        <4>2. FileOf("sync") = "none" /\ FileOf("apply") = "none"
          BY DEF FileOf
        <4>3. FileOf(q.at) # "none"
          BY <2>1 DEF Loaded
        <4> QED
          BY <2>1, <4>1, <4>2, <4>3, FileOfIs DEF Loaded
      <3> QED
        BY <1>6, <1>8, <2>1, <3>1 DEF Loaded
    <2>4. q.at \notin Seeks => q.on
      BY <2>1 DEF Loaded
    <2>5. q.at \in {"allow", "disallow"} => q.list = q.copy
      BY <2>1, FileOfIs DEF Loaded, new
    <2>6. FileOf(q.at) = F /\ F # "none" /\ Whole(F, q.copy, s2)
      BY <1>1, <2>1 DEF Loaded, new, s2
    <2>7. JobOK(q, s2)
      BY <1>9, <2>1, <2>2, <2>3, <2>4, <2>5, <2>6 DEF JobOK, IssuedFor
    <2> QED
      BY <2>7 DEF q
  <1> QED
    BY <1>7, <1>9, <1>10 DEF s2

LEMMA SaveIs ==
  ASSUME Types, NEW t \in Threads, Save(t)
  PROVE  LET j == job[t]
             F == FileOf(j.at)
         IN /\ F \in Files /\ j.copy # None /\ j.op \in Ops /\ JobOK(j, issued)
            /\ job'[t] = Move(j, After(j))
            /\ \A o \in Threads \ {t} :
                 /\ Same(job[o], job'[o])
                 /\ j.copy # files[F] =>
                      /\ FileOf(job[o].at) = F /\ job[o].copy # None => F \in job'[o].stale
                      /\ F = "config" /\ job[o].op \in {"approve", "delete"} /\ job[o].at \in {"dropRequest", "sync"}
                           => F \in job'[o].stale
                      /\ j.at = "upsertDevice" /\ job[o].at = "disallow" /\ job[o].device = j.device => F \in job'[o].stale
            /\ job' = [o \in Threads |-> job'[o]]
            /\ files' = [G \in Files |-> files'[G]] /\ files'[F] = j.copy /\ \A G \in Files \ {F} : files'[G] = files[G]
  <1> DEFINE j == job[t]
             F == FileOf(j.at)
             outdated(o) == /\ j.copy # files[F]
                            /\ \/ FileOf(o.at) = F /\ o.copy # None
                               \/ F = "config" /\ o.op \in {"approve", "delete"} /\ o.at \in {"dropRequest", "sync"}
                               \/ j.at = "upsertDevice" /\ o.at = "disallow" /\ o.device = j.device
  <1>1. F # "none" /\ j.copy # None /\ files' = [files EXCEPT ![F] = j.copy]
        /\ job' = [o \in Threads |-> IF o = t THEN Move(j, After(j))
                                     ELSE IF outdated(job[o]) THEN [job[o] EXCEPT !.stale = @ \cup {F}] ELSE job[o]]
    BY DEF Save
  <1>2. F \in Files
    BY <1>1, FileOfIs
  <1>3. JobOK(j, issued)
    BY DEF Types
  <1>4. j.op \in Ops
    <2>1. j.at # "idle"
      BY <1>1 DEF FileOf
    <2> QED
      BY <1>3, <2>1, Where DEF JobOK
  <1>5. ASSUME NEW o \in Threads \ {t}
        PROVE  Same(job[o], job'[o]) /\ (outdated(job[o]) => F \in job'[o].stale)
    <2>1. DOMAIN job[o] = Fields
      BY DEF Types, JobOK
    <2>2. CASE outdated(job[o])
      <3>1. job'[o] = [job[o] EXCEPT !.stale = @ \cup {F}]
        BY <1>1, <2>2
      <3> HIDE DEF F, outdated
      <3> QED
        BY <2>1, <3>1 DEF Same, Fields
    <2>3. CASE ~outdated(job[o])
      <3>1. job'[o] = job[o]
        BY <1>1, <2>3
      <3> HIDE DEF F, outdated
      <3> QED
        BY <2>1, <2>3, <3>1 DEF Same
    <2> QED
      BY <2>2, <2>3
  <1>6. files = [G \in Files |-> files[G]]
    BY DEF Types
  <1>7. files' = [G \in Files |-> files'[G]] /\ files'[F] = j.copy /\ \A G \in Files \ {F} : files'[G] = files[G]
    <2> HIDE DEF F, j
    <2> QED
      BY <1>1, <1>2, <1>6
  <1>8. job'[t] = Move(j, After(j)) /\ job' = [o \in Threads |-> job'[o]]
    BY <1>1
  <1> QED
    BY <1>1, <1>2, <1>3, <1>4, <1>5, <1>7, <1>8

\* A request that moves on, if it does not take its copy along.
LEMMA MovesOn ==
  ASSUME NEW s, NEW j, JobOK(j, s), j.op \in Ops, j.at # "allow" \/ Copies(j)
  PROVE  JobOK(Move(j, After(j)), s)
  <1>1. j.at = "allow" => j.device \in j.list
    BY Where DEF JobOK
  <1> QED
    BY <1>1, AheadAfter, MoveOK

Asides == {"token", "known", "allowed", "relay", "sync", "apply"}
Aside(t) == Token(t) \/ Known(t) \/ Allowed(t) \/ Relay(t) \/ Sync(t) \/ Apply(t)

\* Where such a step does not lead, but for the requests that listen to their list.
Apart(m) == m.at \notin {"revokeDevice", "recordRequest", "dropRequest", "sync", "disallow"}

LEMMA AsideAfter ==
  ASSUME NEW j, NEW s, JobOK(j, s), j.at \in Asides
  PROVE  /\ j.op \in Ops /\ JobOK(Move(j, After(j)), s) /\ Apart(Move(j, After(j)))
         /\ j.op \in {"chat", "logout"} => JobOK(Move(j, "revokeWeb"), s) /\ Apart(Move(j, "revokeWeb"))
  <1>1. j.op \in Ops /\ j.at # "allow" /\ j.at \notin {"dropRequest", "disallow", "dropDevice", "upsertDevice"}
    BY Where DEF JobOK, Asides
  <1>2. JobOK(Move(j, After(j)), s)
    BY <1>1, MovesOn
  <1>3. j.op \in {"chat", "logout"} => JobOK(Move(j, "revokeWeb"), s)
    BY <1>1, MoveOK DEF Ahead
  <1>4. Move(j, After(j)).at = After(j) /\ Move(j, "revokeWeb").at = "revokeWeb"
    BY MoveIs DEF JobOK
  <1>5. Apart(Move(j, After(j)))
    <2>1. CASE After(j) = "idle"
      BY <1>4, <2>1 DEF Apart
    <2>2. CASE <<j.at, After(j)>> \in Ways(j.op)
      <3>1. After(j) \notin {"revokeDevice", "recordRequest", "sync", "disallow"}
        BY <1>1, <2>2, WaysSteps
      <3>2. After(j) # "dropRequest"
        BY <1>1, <2>2 DEF Ways, Ops
      <3> QED
        BY <1>4, <3>1, <3>2 DEF Apart
    <2> QED
      BY <1>1, <2>1, <2>2, GoesOn
  <1> QED
    BY <1>1, <1>2, <1>3, <1>4, <1>5 DEF Apart

LEMMA AsideIs ==
  ASSUME Types, NEW t \in Threads, Aside(t)
  PROVE  /\ job[t].at \in Asides
         /\ \E m : /\ job' = [job EXCEPT ![t] = m] /\ JobOK(m, issued) /\ m.copy = None /\ Apart(m)
                   /\ m.old \subseteq job[t].old
         /\ UNCHANGED <<setup, files, issued, uses, dead, edited, refused, strangers, over>>
         /\ relay' \in {relay, job[t].list} /\ (relay' # relay => Sync(t)) /\ lost \subseteq lost'
  <1> DEFINE j == job[t]
  <1>1. j.at \in Asides
    BY DEF Aside, Token, Known, Allowed, Relay, Sync, Apply, Asides
  <1>2. JobOK(j, issued) /\ DOMAIN j = Fields
    BY DEF Types, JobOK
  <1>3. /\ UNCHANGED <<setup, files, issued, uses, dead, edited, refused, strangers, over>>
        /\ relay' \in {relay, job[t].list} /\ (relay' # relay => Sync(t)) /\ lost \subseteq lost'
    BY DEF Aside, Token, Known, Allowed, Relay, Sync, Apply, OnlyJob, history
  <1>4. \A at : Move(j, at).copy = None /\ Move(j, at).old \subseteq j.old
    BY <1>2, MoveIs
  <1>5. JobOK(Idle, issued) /\ Idle.copy = None /\ Idle.old \subseteq j.old /\ Apart(Idle)
    BY IdleOK, IdleIs DEF Apart
  <1>6. CASE Token(t)
    <2>1. CASE {r \in files.devices : r.key = j.key} = {}
      <3>1. job' = [job EXCEPT ![t] = Idle]
        BY <1>6, <2>1 DEF Token, Become
      <3> QED
        BY <1>1, <1>3, <1>5, <3>1
    <2>2. CASE {r \in files.devices : r.key = j.key} # {}
      <3> DEFINE k == [j EXCEPT !.device = (CHOOSE r \in {r \in files.devices : r.key = j.key} : TRUE).device]
      <3>1. (CHOOSE r \in {r \in files.devices : r.key = j.key} : TRUE) \in files.devices
        BY <2>2
      <3>2. job' = [job EXCEPT ![t] = Move(k, After(k))]
        BY <1>6, <2>2 DEF Token, Become
      <3>3. (CHOOSE r \in {r \in files.devices : r.key = j.key} : TRUE).device \in Devices
        <4>1. files.devices \subseteq [device : Devices, key : Nat]
          BY SortIs DEF Types, Whole, Files
        <4> QED
          BY <3>1, <4>1
      <3>4. /\ DOMAIN k = Fields /\ k.op = j.op /\ k.at = j.at /\ k.id = j.id /\ k.device \in Devices /\ k.list = j.list
            /\ k.copy = j.copy /\ k.on = j.on /\ k.old = j.old
        BY <1>2, <3>3 DEF Fields
      <3> HIDE DEF k
      <3>5. JobOK(k, issued)
        <4>1. j.op \in {"login", "message", "transfer"}
          BY <1>2, <1>6, Where DEF JobOK, Token
        <4>2. OnPlan(k)
          BY <1>2, <3>4 DEF JobOK, OnPlan
        <4> QED
          BY <1>2, <3>4, <4>1, <4>2 DEF JobOK, Owner, Copies
      <3>6. k.at \in Asides
        BY <1>1, <3>4
      <3>7. JobOK(Move(k, After(k)), issued) /\ Apart(Move(k, After(k)))
        BY <3>5, <3>6, AsideAfter
      <3>8. Move(k, After(k)).copy = None /\ Move(k, After(k)).old \subseteq j.old
        BY <3>4, MoveIs
      <3> QED
        BY <1>1, <1>3, <3>2, <3>7, <3>8
    <2> QED
      BY <2>1, <2>2
  <1>7. CASE Known(t) \/ Allowed(t)
    <2>1. j.op \in {"login", "chat", "logout"} /\ (Known(t) => j.op # "login")
      BY <1>2, <1>7, Where DEF JobOK, Known, Allowed
    <2>2. \E at : job' = [job EXCEPT ![t] = Move(j, at)] /\ (at \in {"idle", After(j)} \/ (at = "revokeWeb" /\ j.op # "login"))
      BY <1>7, <2>1 DEF Known, Allowed, Become
    <2>3. Move(j, "idle") = Idle
      BY <1>2, MoveIs
    <2> QED
      BY <1>1, <1>2, <1>3, <1>4, <1>5, <2>1, <2>2, <2>3, AsideAfter
  <1>8. CASE Relay(t) \/ Sync(t)
    <2>1. job' = [job EXCEPT ![t] = Move(j, After(j))]
      BY <1>8 DEF Relay, Sync, Become
    <2> QED
      BY <1>1, <1>2, <1>3, <1>4, <2>1, AsideAfter
  <1>9. CASE Apply(t)
    <2>1. job' = [job EXCEPT ![t] = Idle]
      BY <1>9 DEF Apply, Become
    <2> QED
      BY <1>1, <1>3, <1>5, <2>1
  <1> QED
    BY <1>6, <1>7, <1>8, <1>9 DEF Aside

\* The gateway is ended while it records a sender of another channel.
LEMMA BreaksIs ==
  ASSUME Types, NEW t \in Threads, Breaks(t)
  PROVE  /\ job[t].at = "noteOther" /\ job' = [job EXCEPT ![t] = Idle]
         /\ job'[t] = Idle /\ \A o \in Threads : o = t \/ job'[o] = job[o]
         /\ UNCHANGED <<setup, relay, issued, over, uses, dead, refused, strangers, edited>> /\ lost \subseteq lost'
         /\ files' = [F \in Files |-> files'[F]] /\ \A F \in Files : F # "requests" => files'[F] = files[F]
         /\ files'["requests"] = files["requests"] \/ (files'["requests"] = {} /\ "requests" \in lost')
  <1>1. job[t].op = "note" /\ JobOK(job[t], issued)
    BY DEF Breaks, Types
  <1>2. job[t].at = "noteOther"
    BY <1>1, StepSets DEF JobOK, OnPlan
  <1>3. files = [F \in Files |-> files[F]] /\ "requests" \in Files
    BY DEF Types, Files
  <1>4. files' = files \/ (files' = [files EXCEPT !["requests"] = {}] /\ "requests" \in lost')
    BY DEF Breaks
  <1>5. files' = [F \in Files |-> files'[F]] /\ (\A F \in Files : F # "requests" => files'[F] = files[F])
        /\ (files'["requests"] = files["requests"] \/ (files'["requests"] = {} /\ "requests" \in lost'))
    BY <1>3, <1>4
  <1>6. job' = [job EXCEPT ![t] = Idle] /\ lost \subseteq lost'
        /\ UNCHANGED <<setup, relay, issued, over, uses, dead, refused, strangers, edited>>
    BY DEF Breaks, Become
  <1>7. job'[t] = Idle /\ \A o \in Threads : o = t \/ job'[o] = job[o]
    BY <1>6 DEF Types
  <1> QED
    BY <1>2, <1>5, <1>6, <1>7

----------------------------------------------------------------------------
\* The files and the requests keep their types.

LEMMA InitIs ==
  ASSUME Init
  PROVE  \E n \in 0..MaxIds :
            /\ Cardinality(Paired) = n /\ Paired = 1..n /\ (setup.chatting => 2 * n + 1 <= MaxIds)
            /\ 1..n \subseteq Devices
  <1>1. PICK n \in 0..MaxIds : setup.paired = 1..n /\ (setup.chatting => 2 * n + 1 <= MaxIds)
    BY DeviceAssumption DEF Init
  <1>2. Cardinality(1..n) = n
    BY <1>1, FS_Interval, DeviceAssumption
  <1>3. 1..n \subseteq Devices
    BY <1>1, DeviceAssumption DEF Init
  <1> QED
    BY <1>1, <1>2, <1>3 DEF Paired

LEMMA TypesInit == Init => Types
  <1> SUFFICES ASSUME Init PROVE Types
    OBVIOUS
  <1>1. PICK n \in 0..MaxIds :
            /\ Cardinality(Paired) = n /\ Paired = 1..n /\ (setup.chatting => 2 * n + 1 <= MaxIds)
            /\ 1..n \subseteq Devices
    BY InitIs
  <1> DEFINE K == IF setup.chatting THEN 2 * n + 1 ELSE n
             kind(m) == IF m <= n THEN "upsertDevice" ELSE IF m <= 2 * n THEN "addWeb" ELSE "addPairing"
  <1>2. K \in Nat /\ K <= MaxIds /\ n \in Nat
    BY <1>1, DeviceAssumption
  <1>3. issued = [m \in 1..K |-> kind(m)]
    BY <1>1 DEF Init
  <1>4. \A m \in 1..K : kind(m) \in Issuing
    BY DEF Issuing
  <1>5. issued \in Seq(Issuing) /\ Len(issued) = K /\ DOMAIN issued = 1..K
    <2> HIDE DEF K, kind
    <2> QED
      BY <1>2, <1>3, <1>4
  <1>6. \A d \in 1..n : setup.chatting => n + d \in DOMAIN issued /\ issued[n + d] = "addWeb"
    BY <1>2, <1>3, <1>5
  <1>7. setup.chatting => 2 * n + 1 \in DOMAIN issued /\ issued[2 * n + 1] = "addPairing"
    BY <1>2, <1>3, <1>5
  <1> HIDE DEF K, kind
  <1>8. Whole("pairing", files.pairing, issued)
    <2>1. files.pairing = {} \/ (setup.chatting /\ files.pairing = {[id |-> 2 * n + 1, used |-> FALSE]})
      BY <1>1 DEF Init
    <2>2. Sort("pairing", issued) = [id : DOMAIN issued, used : BOOLEAN] /\ Kind("pairing") = "addPairing"
      BY SortIs DEF Kind
    <2>3. CASE setup.chatting /\ files.pairing = {[id |-> 2 * n + 1, used |-> FALSE]}
      <3>1. [id |-> 2 * n + 1, used |-> FALSE] \in [id : DOMAIN issued, used : BOOLEAN]
        BY <1>7, <2>3
      <3>2. \A r \in files.pairing : r = [id |-> 2 * n + 1, used |-> FALSE] /\ issued[r.id] = "addPairing"
        BY <1>7, <2>3
      <3> QED
        BY <2>2, <2>3, <3>1, <3>2 DEF Whole
    <2> QED
      BY <2>1, <2>3 DEF Whole
  <1>9. Whole("web", files.web, issued)
    <2>1. files.web = {} \/ (setup.chatting /\ files.web = {[id |-> n + d, device |-> d, revoked |-> FALSE] : d \in 1..n})
      BY <1>1 DEF Init
    <2>2. CASE setup.chatting /\ files.web = {[id |-> n + d, device |-> d, revoked |-> FALSE] : d \in 1..n}
      <3>1. \A w \in files.web : \E d \in 1..n : w = [id |-> n + d, device |-> d, revoked |-> FALSE]
        BY <2>2
      <3>2. \A w \in files.web : w.device \in 1..n /\ w = [id |-> n + w.device, device |-> w.device, revoked |-> FALSE]
        BY <3>1
      <3>3. \A w \in files.web : w.id = n + w.device /\ w \in [id : DOMAIN issued, device : Owner, revoked : BOOLEAN]
        <4>1. \A d \in 1..n : d \in Owner /\ n + d \in DOMAIN issued
          BY <1>1, <1>6, <2>2 DEF Owner
        <4>2. \A d \in 1..n : [id |-> n + d, device |-> d, revoked |-> FALSE]
                               \in [id : DOMAIN issued, device : Owner, revoked : BOOLEAN]
          BY <4>1
        <4>3. ASSUME NEW w \in files.web
              PROVE  w.id = n + w.device /\ w \in [id : DOMAIN issued, device : Owner, revoked : BOOLEAN]
          <5>1. PICK d \in 1..n : w = [id |-> n + d, device |-> d, revoked |-> FALSE]
            BY <3>1
          <5>2. w.id = n + d /\ w.device = d
            BY <5>1
          <5>3. w \in [id : DOMAIN issued, device : Owner, revoked : BOOLEAN]
            BY <4>2, <5>1
          <5> QED
            BY <5>2, <5>3
        <4> QED
          BY <4>3
      <3>4. \A w \in files.web : issued[w.id] = "addWeb"
        BY <1>6, <2>2, <3>2, <3>3
      <3>5. \A w, v \in files.web : w.id = v.id => w = v
        BY <1>2, <3>2, <3>3
      <3> QED
        BY <3>3, <3>4, <3>5, SortIs DEF Whole, IdFiles, Kind
    <2> QED
      BY <2>1, <2>2 DEF Whole
  <1>10. Whole("devices", files.devices, issued)
    <2>1. files.devices = {[device |-> d, key |-> d] : d \in 1..n}
      BY <1>1 DEF Init
    <2>2. files.devices \subseteq [device : Devices, key : Nat]
      BY <1>1, <2>1
    <2>3. \A r, q \in files.devices : r.device = q.device => r = q
      BY <2>1
    <2> QED
      BY <2>2, <2>3, SortIs DEF Whole, IdFiles
  <1>11. Whole("tickets", files.tickets, issued) /\ Whole("transfers", files.transfers, issued)
    BY DEF Init, Whole
  <1>12. Whole("config", files.config, issued) /\ Whole("requests", files.requests, issued)
    BY <1>1, SortIs DEF Init, Whole, IdFiles
  <1>13. files = [F \in Files |-> files[F]]
    BY DEF Init, Files
  <1>14. \A F \in Files : Whole(F, files[F], issued)
    BY <1>8, <1>9, <1>10, <1>11, <1>12 DEF Files
  <1>15. job = [t \in Threads |-> job[t]] /\ \A t \in Threads : JobOK(job[t], issued)
    BY IdleOK DEF Init
  <1>16. uses \in [Ids -> Nat] /\ (\A m \in Ids : m > Len(issued) => uses[m] = 0) /\ dead \subseteq DOMAIN issued
    BY DEF Init
  <1>17. setup \in Setups /\ (relay = None \/ relay \subseteq Devices)
    BY <1>1 DEF Init
  <1> QED
    BY <1>2, <1>5, <1>13, <1>14, <1>15, <1>16, <1>17 DEF Types

\* Steps that touch neither a file nor what was issued.
LEMMA TypesAside ==
  ASSUME Types, UNCHANGED <<setup, files, issued, uses, dead>>, relay' = None \/ relay' \subseteq Devices,
         job' = [t \in Threads |-> job'[t]], \A t \in Threads : JobOK(job'[t], issued)
  PROVE  Types'
  BY DEF Types

LEMMA TypesLoad ==
  ASSUME Types, NEW t \in Threads, Load(t)
  PROVE  Types'
  <1> DEFINE j == job[t]
             F == FileOf(j.at)
  <1>1. /\ F # "none" /\ j.op \in Ops /\ JobOK(j, issued)
        /\ issued' = Issues(j, issued) /\ (j.at \in Issuing => Len(issued) + 1 <= MaxIds)
        /\ OnlyJob
    BY LoadIs
  <1> DEFINE Made(f) == Edit(j, f, Len(issued) + 1)
  <1>0. PICK f, k : /\ Reads(F, f) /\ Loaded(j, k, f, Made(f))
                    /\ \/ NoSave(j, k, f, Made(f)) /\ job' = [job EXCEPT ![t] = Move(k, After(k))]
                       \/ ~(j.at = "usePairing" /\ ~k.on) /\ job' = [job EXCEPT ![t] = [k EXCEPT !.copy = Made(f)]]
    BY LoadIs
  <1> DEFINE new == Made(f)
  <1>2. /\ Loaded(j, k, f, new)
        /\ \/ NoSave(j, k, f, new) /\ job' = [job EXCEPT ![t] = Move(k, After(k))]
           \/ ~(j.at = "usePairing" /\ ~k.on) /\ job' = [job EXCEPT ![t] = [k EXCEPT !.copy = new]]
    BY <1>0
  <1>3. issued \in Seq(Issuing) /\ F \in Files /\ Whole(F, f, issued)
    <2>1. F \in Files /\ Whole(F, files[F], issued)
      BY <1>1, FileOfIs DEF Types
    <2> QED
      BY <1>0, <2>1, NothingWhole DEF Types, Reads
  <1>4. JobOK(k, issued') /\ (j.at = "allow" => k.device \in k.list)
        /\ (~(j.at = "usePairing" /\ ~k.on) => JobOK([k EXCEPT !.copy = new], issued'))
    BY <1>1, <1>2, <1>3, LoadedOK
  <1>5. JobOK(Move(k, After(k)), issued')
    <2>1. k.op = j.op /\ k.at = j.at
      BY <1>2 DEF Loaded
    <2>2. Ahead(k, After(k))
      BY <1>1, <1>4, <2>1, AheadAfter
    <2> QED
      BY <1>1, <1>4, <2>1, <2>2, MoveOK
  <1> HIDE DEF F, new, Made
  <1>6. \A o \in Threads : JobOK(job[o], issued')
    BY <1>1, <1>3, JobGrows DEF Types, Issues
  <1>7. job' = [o \in Threads |-> job'[o]] /\ \A o \in Threads : JobOK(job'[o], issued')
    BY <1>2, <1>4, <1>5, <1>6 DEF Types
  <1>8. /\ issued' \in Seq(Issuing) /\ Len(issued') <= MaxIds /\ Len(issued) <= Len(issued')
        /\ DOMAIN issued \subseteq DOMAIN issued'
    <2>1. CASE j.at \in Issuing
      BY <1>1, <1>3, <2>1, Longer, DeviceAssumption DEF Issues, Types
    <2>2. CASE j.at \notin Issuing
      BY <1>1, <1>3, <2>2 DEF Issues, Types
    <2> QED
      BY <2>1, <2>2
  <1>9. \A G \in Files : Whole(G, files[G], issued')
    BY <1>1, <1>3, WholeGrows DEF Types, Issues
  <1>10. files' = files /\ uses' = uses /\ dead' = dead /\ setup' = setup /\ relay' = relay
    BY <1>1 DEF OnlyJob, history
  <1>11. \A m \in Ids : m > Len(issued') => uses[m] = 0
    <2>1. Len(issued) \in Nat /\ Len(issued') \in Nat
      BY <1>3, <1>8
    <2> QED
      BY <1>8, <2>1 DEF Types, Ids
  <1> QED
    BY <1>7, <1>8, <1>9, <1>10, <1>11 DEF Types

LEMMA TypesSave ==
  ASSUME Types, NEW t \in Threads, Save(t)
  PROVE  Types'
  <1> DEFINE j == job[t]
             F == FileOf(j.at)
  <1>1. /\ F \in Files /\ j.copy # None /\ j.op \in Ops /\ JobOK(j, issued)
        /\ job'[t] = Move(j, After(j)) /\ \A o \in Threads \ {t} : Same(job[o], job'[o])
        /\ job' = [o \in Threads |-> job'[o]]
        /\ files' = [G \in Files |-> files'[G]] /\ files'[F] = j.copy /\ \A G \in Files \ {F} : files'[G] = files[G]
    BY SaveIs
  <1>2. JobOK(job'[t], issued)
    BY <1>1, MovesOn DEF Copies
  <1>3. \A o \in Threads \ {t} : JobOK(job'[o], issued)
    BY <1>1, SameOK DEF Types
  <1>4. Whole(F, j.copy, issued)
    BY <1>1 DEF JobOK, Copies
  <1>5. \A G \in Files : Whole(G, files'[G], issued)
    BY <1>1, <1>4 DEF Types
  <1>6. uses' \in [Ids -> Nat] /\ \A m \in Ids : m > Len(issued) => uses'[m] = 0
    <2>1. uses' = uses \/ (j.at \in Uses /\ uses' = [uses EXCEPT ![j.id] = @ + 1])
      BY DEF Save
    <2>2. j.at \in Uses => j.id \in DOMAIN issued
      BY <1>1, Where DEF Uses, JobOK, IssuedFor
    <2>3. DOMAIN issued = 1..Len(issued) /\ Len(issued) \in Nat /\ uses \in [Ids -> Nat]
          /\ (\A m \in Ids : m > Len(issued) => uses[m] = 0)
      BY DEF Types
    <2> HIDE DEF j
    <2>4. CASE j.at \in Uses /\ uses' = [uses EXCEPT ![j.id] = @ + 1]
      <3>1. \A m \in Ids : uses'[m] = IF m = j.id THEN uses[m] + 1 ELSE uses[m]
        BY <2>3, <2>4
      <3>2. j.id \in Nat /\ j.id <= Len(issued)
        BY <2>2, <2>3, <2>4
      <3>3. uses' \in [Ids -> Nat]
        <4>1. uses' = [m \in Ids |-> IF m = j.id THEN uses[m] + 1 ELSE uses[m]]
          BY <2>3, <2>4
        <4> QED
          BY <2>3, <4>1
      <3> QED
        BY <2>3, <3>1, <3>2, <3>3 DEF Ids
    <2> QED
      BY <2>1, <2>3, <2>4
  <1>7. dead' \subseteq DOMAIN issued
    BY <1>1 DEF Save, Types, JobOK
  <1>8. UNCHANGED <<setup, issued, relay>>
    BY DEF Save
  <1> HIDE DEF F
  <1> QED
    BY <1>1, <1>2, <1>3, <1>5, <1>6, <1>7, <1>8 DEF Types

LEMMA TypesNext ==
  ASSUME Types, [Next]_vars
  PROVE  Types'
  <1>1. ASSUME NEW t \in Threads, Begin(t) PROVE Types'
    <2>1. PICK r \in Requests : job' = [job EXCEPT ![t] = r]
      BY <1>1 DEF Begin, Become
    <2>2. UNCHANGED <<setup, files, issued, uses, dead, relay>>
      BY <1>1 DEF Begin, history
    <2>3. job' = [o \in Threads |-> job'[o]] /\ \A o \in Threads : JobOK(job'[o], issued)
      BY <2>1, RequestOK DEF Types
    <2> QED
      BY <2>2, <2>3, TypesAside DEF Types
  <1>2. ASSUME NEW t \in Threads, Aside(t) PROVE Types'
    <2>1. PICK m : job' = [job EXCEPT ![t] = m] /\ JobOK(m, issued)
      BY <1>2, AsideIs
    <2>2. UNCHANGED <<setup, files, issued, uses, dead>> /\ relay' \in {relay, job[t].list}
      BY <1>2, AsideIs
    <2>3. job' = [o \in Threads |-> job'[o]] /\ \A o \in Threads : JobOK(job'[o], issued)
      BY <2>1 DEF Types
    <2>4. relay' = None \/ relay' \subseteq Devices
      BY <2>2 DEF Types, JobOK
    <2> QED
      BY <2>2, <2>3, <2>4, TypesAside
  <1>3. ASSUME Reload \/ Poll \/ Halt \/ Start \/ (\E n \in Ids : Deadline(n)) \/ UNCHANGED vars PROVE Types'
    <2>1. UNCHANGED <<setup, files, issued, uses, dead, relay, job>>
      BY <1>3 DEF Reload, Poll, Halt, Start, Deadline, vars, history
    <2> QED
      BY <2>1, TypesAside DEF Types
  <1>4. ASSUME NEW t \in Threads, Breaks(t) PROVE Types'
    <2>1. UNCHANGED <<setup, issued, uses, dead, relay>> /\ job' = [job EXCEPT ![t] = Idle]
          /\ files' = [F \in Files |-> files'[F]] /\ (\A F \in Files : F # "requests" => files'[F] = files[F])
          /\ (files'["requests"] = files["requests"] \/ files'["requests"] = {})
      BY <1>4, BreaksIs
    <2>2. \A F \in Files : Whole(F, files'[F], issued)
      BY <2>1, NothingWhole DEF Types
    <2>3. job' = [o \in Threads |-> job'[o]] /\ \A o \in Threads : JobOK(job'[o], issued)
      BY <2>1, IdleOK DEF Types
    <2> QED
      BY <2>1, <2>2, <2>3 DEF Types
  <1> QED
    BY <1>1, <1>2, <1>3, <1>4, TypesLoad, TypesSave DEF Next, Aside

\* Ids and devices stay unique in their files, the lists hold known devices and a copy
\* belongs to a step that saves, for any number of threads, devices and ids.
THEOREM TypeCorrect == Spec => []TypeOK
  <1>1. Init => Types
    BY TypesInit
  <1>2. Types /\ [Next]_vars => Types'
    BY TypesNext
  <1>3. Types => TypeOK
    <2> SUFFICES ASSUME Types PROVE TypeOK
      OBVIOUS
    <2>1. \A F \in Files : Whole(F, files[F], issued)
      BY DEF Types
    <2>2. DOMAIN issued \subseteq Ids
      BY DeviceAssumption DEF Types, Ids
    <2>3. ASSUME NEW F \in IdFiles PROVE \A r, q \in files[F] : r.id \in Ids /\ (r.id = q.id => r = q)
      <3>1. \A r \in files[F] : r.id \in DOMAIN issued
        BY <2>1 DEF Whole, Sort, IdFiles, Files
      <3> QED
        BY <2>1, <2>2, <3>1 DEF Whole, IdFiles, Files
    <2>4. files.config \subseteq Devices /\ files.requests \subseteq Devices
      BY <2>1, SortIs DEF Whole, Files
    <2>5. \A r, q \in files.devices : r.device = q.device => r = q
      BY <2>1 DEF Whole, Files
    <2> QED
      BY <2>3, <2>4, <2>5 DEF TypeOK, IdFiles, Types, JobOK, Copies
  <1> QED
    BY <1>1, <1>2, <1>3, PTL DEF Spec

----------------------------------------------------------------------------
\* What is used up once: the ids that are still open in a file.

UseFiles == {"pairing", "tickets", "transfers"}

Open(F, r) ==
    CASE F = "pairing" -> ~r.used
      [] F = "tickets" -> r.status # "exchanged"
      [] F = "transfers" -> TRUE

OpenIds(F, f) == {r.id : r \in {x \in f : Open(F, x)}}

\* A request about to save the file F on the strength of its present content.
Holds(j, F) == FileOf(j.at) = F /\ Copies(j) /\ F \notin j.stale

Unspent(F) ==
    /\ \A n \in OpenIds(F, files[F]) : uses[n] = 0
    /\ \A t \in Threads : Holds(job[t], F) =>
        /\ \A n \in OpenIds(F, job[t].copy) : uses[n] = 0
        /\ job[t].at \in Uses /\ job[t].on =>
             job[t].id \in OpenIds(F, files[F]) \ OpenIds(F, job[t].copy)

UsedInv ==
    /\ \A F \in UseFiles : F \notin lost => Unspent(F)
    /\ \A n \in DOMAIN issued : uses[n] # 0 =>
        \E F \in UseFiles : issued[n] = Kind(F) /\ (F \notin lost => uses[n] = 1)

\* A step that makes g of f opens an id only by issuing it, n, and one that uses an id
\* up closes it.
Closes(F, j, f, n, g) ==
    /\ \A m \in OpenIds(F, g) : m \in OpenIds(F, f) \/ (j.at \in Issuing /\ m = n)
    /\ j.at \in Uses /\ Found(j, f) # {} => j.id \in OpenIds(F, f) \ OpenIds(F, g)

LEMMA OpenPairing ==
  ASSUME NEW s, NEW j, NEW f, Whole("pairing", f, s), NEW n, j.at \in {"addPairing", "usePairing"}
  PROVE  Closes("pairing", j, f, n, EditPairing(j, f, n))
  <1> DEFINE g == EditPairing(j, f, n)
  <1>1. ASSUME j.at = "addPairing" PROVE OpenIds("pairing", g) \subseteq OpenIds("pairing", f) \cup {n}
    <2> DEFINE new == [id |-> n, used |-> FALSE]
    <2>1. g \subseteq f \cup {new} /\ new.id = n
      BY <1>1 DEF EditPairing
    <2> HIDE DEF new
    <2> QED
      BY <2>1 DEF OpenIds
  <1>2. ASSUME j.at = "usePairing"
        PROVE  /\ OpenIds("pairing", g) \subseteq OpenIds("pairing", f) \ {j.id}
               /\ Found(j, f) # {} => j.id \in OpenIds("pairing", f)
    <2>1. \A r \in g : Open("pairing", r) => r \in f /\ r.id # j.id
      <3> DEFINE mark(p) == [p EXCEPT !.used = TRUE]
      <3>1. g = (f \ Its(j, f)) \cup {mark(p) : p \in Its(j, f)}
        BY <1>2 DEF EditPairing
      <3>2. \A p \in Its(j, f) : p \in [id : DOMAIN s, used : BOOLEAN]
        BY SortIs DEF Whole, Its
      <3>3. \A p \in Its(j, f) : mark(p).used = TRUE
        BY <3>2
      <3>4. \A p \in Its(j, f) : ~Open("pairing", mark(p))
        BY <3>3 DEF Open
      <3> HIDE DEF mark
      <3> QED
        BY <3>1, <3>4 DEF Its
    <2>2. \A r \in Found(j, f) : r \in f /\ r.id = j.id /\ Open("pairing", r)
      BY <1>2 DEF Found, Its, Fresh, Open
    <2> QED
      BY <2>1, <2>2 DEF OpenIds
  <1> QED
    BY <1>1, <1>2 DEF Closes, Issuing, Uses

LEMMA OpenTransfers ==
  ASSUME NEW j, NEW f, NEW n, j.at \in {"addTransfer", "useTransfer"}
  PROVE  Closes("transfers", j, f, n, EditTransfers(j, f, n))
  <1> DEFINE g == EditTransfers(j, f, n)
  <1>1. ASSUME j.at = "addTransfer" PROVE OpenIds("transfers", g) \subseteq OpenIds("transfers", f) \cup {n}
    <2> DEFINE new == [id |-> n, device |-> j.device]
    <2>1. g \subseteq f \cup {new} /\ new.id = n
      BY <1>1 DEF EditTransfers
    <2> HIDE DEF new
    <2> QED
      BY <2>1 DEF OpenIds
  <1>2. ASSUME j.at = "useTransfer"
        PROVE  /\ OpenIds("transfers", g) \subseteq OpenIds("transfers", f) \ {j.id}
               /\ Found(j, f) # {} => j.id \in OpenIds("transfers", f)
    <2>1. \A r \in g : r \in f /\ r.id # j.id
      BY <1>2 DEF EditTransfers
    <2>2. \A r \in Found(j, f) : r \in f /\ r.id = j.id /\ Open("transfers", r)
      BY <1>2 DEF Found, Its, Open
    <2> QED
      BY <2>1, <2>2 DEF OpenIds
  <1> QED
    BY <1>1, <1>2 DEF Closes, Issuing, Uses

LEMMA OpenTickets ==
  ASSUME NEW s, NEW j, NEW f, Whole("tickets", f, s), NEW n, j.at \in {"addTicket", "getTicket", "approveTicket", "useTicket"}
  PROVE  Closes("tickets", j, f, n, EditTickets(j, f, n))
  <1> DEFINE g == EditTickets(j, f, n)
  <1>0. /\ \A r \in f : r \in [id : DOMAIN s, status : {"pending", "approved", "exchanged"}, device : Owner]
        /\ \A r, q \in f : r.id = q.id => r = q
    BY SortIs DEF Whole, IdFiles
  <1>1. ASSUME j.at = "addTicket" PROVE OpenIds("tickets", g) \subseteq OpenIds("tickets", f) \cup {n}
    <2> DEFINE new == [id |-> n, status |-> "pending", device |-> 0]
    <2>1. g \subseteq f \cup {new} /\ new.id = n
      BY <1>1 DEF EditTickets
    <2> HIDE DEF new
    <2> QED
      BY <2>1 DEF OpenIds
  <1>2. j.at = "getTicket" => OpenIds("tickets", g) \subseteq OpenIds("tickets", f)
    BY DEF EditTickets, OpenIds
  <1>3. ASSUME j.at = "approveTicket" PROVE OpenIds("tickets", g) \subseteq OpenIds("tickets", f)
    <2> DEFINE mark(p) == [p EXCEPT !.status = "approved", !.device = j.device]
               X == {x \in Its(j, f) : Live(x) /\ x.status # "exchanged"}
    <2>1. g = (f \ Its(j, f)) \cup {mark(p) : p \in X}
      BY <1>3 DEF EditTickets
    <2>2. \A p \in X : p \in f /\ mark(p).id = p.id /\ Open("tickets", p)
      BY <1>0 DEF Its, Open
    <2> HIDE DEF mark, X
    <2> QED
      BY <2>1, <2>2 DEF OpenIds
  <1>4. ASSUME j.at = "useTicket"
        PROVE  /\ OpenIds("tickets", g) \subseteq OpenIds("tickets", f)
               /\ Found(j, f) # {} => j.id \in OpenIds("tickets", f) \ OpenIds("tickets", g)
    <2> DEFINE mark(p) == [p EXCEPT !.status = "exchanged"]
               X == {x \in Its(j, f) : Live(x) /\ x.status = "approved"}
    <2>1. g = {t \in f : Live(t) /\ (t.id = j.id => t.status # "approved")} \cup {mark(p) : p \in X}
      BY <1>4 DEF EditTickets, Exchange
    <2>2. \A p \in X : ~Open("tickets", mark(p))
      <3>1. \A p \in X : p \in [id : DOMAIN s, status : {"pending", "approved", "exchanged"}, device : Owner]
        BY <1>0 DEF Its
      <3>2. \A p \in X : mark(p).status = "exchanged"
        BY <3>1
      <3> HIDE DEF mark, X
      <3> QED
        BY <3>2 DEF Open
    <2> HIDE DEF mark
    <2>3. \A r \in g : Open("tickets", r) => r \in f /\ (r.id = j.id => r.status # "approved")
      BY <2>1, <2>2
    <2>4. \A r \in Found(j, f) : r \in f /\ r.id = j.id /\ r.status = "approved" /\ Open("tickets", r)
      BY <1>4 DEF Found, Its, Open
    <2>5. \A r \in Found(j, f) : \A q \in g : Open("tickets", q) => q.id # j.id
      BY <1>0, <2>3, <2>4
    <2> QED
      BY <2>3, <2>4, <2>5 DEF OpenIds
  <1> QED
    BY <1>1, <1>2, <1>3, <1>4 DEF Closes, Issuing, Uses

\* What a request that has loaded a file with ids to use up is about to save.
LEMMA OpenEdited ==
  ASSUME NEW s \in Seq(Issuing), NEW j, FileOf(j.at) \in UseFiles, NEW f, Whole(FileOf(j.at), f, s)
  PROVE  Closes(FileOf(j.at), j, f, Len(s) + 1, Edit(j, f, Len(s) + 1))
  <1> DEFINE F == FileOf(j.at)
             new == Edit(j, f, Len(s) + 1)
  <1>1. CASE F = "pairing"
    <2>1. j.at \in {"addPairing", "usePairing"} /\ new = EditPairing(j, f, Len(s) + 1)
      BY <1>1, FileOfIs DEF Edit
    <2> QED
      BY <1>1, <2>1, OpenPairing
  <1>2. CASE F = "tickets"
    <2>1. j.at \in {"addTicket", "getTicket", "approveTicket", "useTicket"} /\ new = EditTickets(j, f, Len(s) + 1)
      BY <1>2, FileOfIs DEF Edit
    <2> QED
      BY <1>2, <2>1, OpenTickets
  <1>3. CASE F = "transfers"
    <2>1. j.at \in {"addTransfer", "useTransfer"} /\ new = EditTransfers(j, f, Len(s) + 1)
      BY <1>3, FileOfIs DEF Edit
    <2> QED
      BY <1>3, <2>1, OpenTransfers
  <1> QED
    BY <1>1, <1>2, <1>3 DEF UseFiles

\* Ids of one file are not ids of another.
LEMMA OpenKind ==
  ASSUME NEW s, NEW F \in UseFiles, NEW f, Whole(F, f, s), NEW n \in OpenIds(F, f)
  PROVE  n \in DOMAIN s /\ s[n] = Kind(F)
  BY DEF Whole, Sort, OpenIds, UseFiles, IdFiles

LEMMA KindsDiffer ==
  ASSUME NEW F \in IdFiles, NEW G \in IdFiles, Kind(F) = Kind(G)
  PROVE  F = G
  BY DEF IdFiles, Kind

LEMMA UsedInit == Init => UsedInv
  <1> SUFFICES ASSUME Init PROVE UsedInv
    OBVIOUS
  <1>1. uses = [i \in Ids |-> 0] /\ \A t \in Threads : job[t] = Idle
    BY DEF Init
  <1>2. \A F \in Files : Whole(F, files[F], issued)
    BY TypesInit DEF Types
  <1>3. DOMAIN issued \subseteq Ids
    BY TypesInit, DeviceAssumption DEF Types, Ids
  <1>4. \A F \in UseFiles : \A n \in OpenIds(F, files[F]) : n \in DOMAIN issued
    BY <1>2, OpenKind DEF UseFiles, Files
  <1>5. \A t \in Threads : ~Copies(job[t])
    BY <1>1, IdleIs DEF Copies
  <1> QED
    BY <1>1, <1>3, <1>4, <1>5 DEF UsedInv, Unspent, Holds

\* Steps that leave the files, the history of uses and the copies alone.
LEMMA UsedAside ==
  ASSUME UsedInv, UNCHANGED <<issued, uses>>, \A F \in UseFiles : files'[F] = files[F], lost \subseteq lost',
         \A t \in Threads : job'[t] = job[t] \/ job'[t].copy = None
  PROVE  UsedInv'
  BY DEF UsedInv, Unspent, Holds, Copies

LEMMA UsedLoad ==
  ASSUME Types, UsedInv, NEW t \in Threads, Load(t)
  PROVE  UsedInv'
  <1> DEFINE j == job[t]
             F == FileOf(j.at)
  <1>1. /\ F # "none" /\ j.op \in Ops /\ JobOK(j, issued)
        /\ issued' = Issues(j, issued) /\ (j.at \in Issuing => Len(issued) + 1 <= MaxIds)
        /\ UNCHANGED <<files, uses, lost>>
    BY LoadIs DEF OnlyJob, history
  <1> DEFINE Made(f) == Edit(j, f, Len(issued) + 1)
  <1>0. PICK f, k : /\ Reads(F, f) /\ Loaded(j, k, f, Made(f))
                    /\ \/ NoSave(j, k, f, Made(f)) /\ job' = [job EXCEPT ![t] = Move(k, After(k))]
                       \/ ~(j.at = "usePairing" /\ ~k.on) /\ job' = [job EXCEPT ![t] = [k EXCEPT !.copy = Made(f)]]
    BY LoadIs
  <1> DEFINE new == Made(f)
  <1>2. /\ Loaded(j, k, f, new)
        /\ \/ NoSave(j, k, f, new) /\ job' = [job EXCEPT ![t] = Move(k, After(k))]
           \/ ~(j.at = "usePairing" /\ ~k.on) /\ job' = [job EXCEPT ![t] = [k EXCEPT !.copy = new]]
    BY <1>0
  <1>3. issued \in Seq(Issuing) /\ F \in Files /\ Whole(F, f, issued) /\ DOMAIN issued = 1..Len(issued)
    <2>1. F \in Files /\ Whole(F, files[F], issued)
      BY <1>1, FileOfIs DEF Types
    <2>2. Whole(F, f, issued)
      BY <1>0, <2>1, NothingWhole DEF Reads
    <2>3. issued \in Seq(Issuing) /\ DOMAIN issued = 1..Len(issued)
      BY DEF Types
    <2> QED
      BY <2>1, <2>2, <2>3
  <1>4. Move(k, After(k)).copy = None
    BY <1>2, MoveIs DEF Loaded
  <1>5. \A m \in DOMAIN issued' : /\ m \in DOMAIN issued => issued'[m] = issued[m]
                                  /\ m \notin DOMAIN issued => m \in Ids /\ uses[m] = 0
    <2>1. CASE j.at \in Issuing
      <3>1. Len(issued) + 1 \in Ids /\ uses[Len(issued) + 1] = 0
        BY <1>1, <1>3, <2>1 DEF Types, Ids
      <3> QED
        BY <1>1, <1>3, <2>1, <3>1, Longer DEF Issues
    <2>2. CASE j.at \notin Issuing
      BY <1>1, <2>2 DEF Issues
    <2> QED
      BY <2>1, <2>2
  <1>6. \A o \in Threads \ {t} : job'[o] = job[o]
    <2> HIDE DEF j, new, Made
    <2> QED
      BY <1>2 DEF Types
  <1>7. ASSUME NEW G \in UseFiles, G \notin lost PROVE Unspent(G)'
    <2>1. Unspent(G)
      BY <1>7 DEF UsedInv
    <2>2. ASSUME Holds(job'[t], G)
          PROVE  /\ \A n \in OpenIds(G, job'[t].copy) : uses[n] = 0
                 /\ job'[t].at \in Uses /\ job'[t].on =>
                      job'[t].id \in OpenIds(G, files[G]) \ OpenIds(G, job'[t].copy)
      <3>1. job'[t] = [k EXCEPT !.copy = new]
        BY <1>2, <1>4, <2>2 DEF Types, Holds, Copies
      <3>2. job'[t].copy = new /\ job'[t].at = j.at /\ job'[t].on = k.on /\ job'[t].id = j.id
        BY <1>2, <3>1, CopyIs DEF Loaded
      <3>3. G = F
        BY <2>2, <3>2 DEF Holds
      <3>8. f = files[F]
        BY <1>0, <3>3 DEF Reads, UseFiles
      <3>4. j.at \in Issuing => uses[Len(issued) + 1] = 0
        BY <1>1, <1>3 DEF Types, Ids
      <3>5. \A n \in OpenIds(F, f) : uses[n] = 0
        BY <2>1, <3>3, <3>8 DEF Unspent
      <3>6. Closes(F, j, f, Len(issued) + 1, new)
        BY <1>3, <3>3, OpenEdited
      <3>7. j.at \in Uses /\ k.on => Found(j, f) # {}
        BY <1>2 DEF Loaded, Seeks, Uses
      <3> HIDE DEF j, F, new, Made
      <3> QED
        BY <3>2, <3>3, <3>4, <3>5, <3>6, <3>7, <3>8 DEF Closes
    <2> HIDE DEF j, F, new, Made
    <2> QED
      BY <1>1, <1>6, <2>1, <2>2 DEF Unspent
  <1> HIDE DEF j, F, new, Made
  <1> QED
    BY <1>1, <1>5, <1>7 DEF UsedInv

LEMMA UsedSave ==
  ASSUME Types, UsedInv, NEW t \in Threads, Save(t)
  PROVE  UsedInv'
  <1> DEFINE j == job[t]
             F == FileOf(j.at)
             spent == j.at \in Uses /\ j.on
  <1>1. /\ F \in Files /\ j.copy # None /\ j.op \in Ops /\ JobOK(j, issued)
        /\ job'[t] = Move(j, After(j))
        /\ \A o \in Threads \ {t} :
             /\ Same(job[o], job'[o])
             /\ j.copy # files[F] /\ FileOf(job[o].at) = F /\ job[o].copy # None => F \in job'[o].stale
        /\ files'[F] = j.copy /\ \A G \in Files \ {F} : files'[G] = files[G]
    BY SaveIs
  <1>2. lost' = lost \cup j.stale /\ issued' = issued /\ uses' = IF spent THEN [uses EXCEPT ![j.id] = @ + 1] ELSE uses
    BY DEF Save
  <1>3. job'[t].copy = None
    BY <1>1, MoveIs DEF JobOK
  <1>4. spent => F \in UseFiles /\ IssuedFor(j, Kind(F), issued)
    BY <1>1, Where, FileOfIs DEF Uses, UseFiles, Kind, JobOK
  <1>5. DOMAIN issued \subseteq Ids /\ uses \in [Ids -> Nat]
    BY DeviceAssumption DEF Types, Ids
  <1>6. \A n \in Ids : uses'[n] = IF spent /\ n = j.id THEN uses[n] + 1 ELSE uses[n]
    <2> HIDE DEF spent, j
    <2> QED
      BY <1>2, <1>5
  <1>7. ASSUME NEW G \in UseFiles, NEW f, Whole(G, f, issued), NEW n \in OpenIds(G, f), G # F \/ ~spent \/ n # j.id
        PROVE  uses'[n] = uses[n]
    <2>1. n \in DOMAIN issued /\ issued[n] = Kind(G)
      BY <1>7, OpenKind
    <2>2. spent /\ n = j.id => G = F
      BY <1>4, <2>1, KindsDiffer DEF IssuedFor, UseFiles, IdFiles
    <2> QED
      BY <1>5, <1>6, <1>7, <2>1, <2>2
  <1>8. \A G \in UseFiles : Whole(G, files[G], issued) /\ \A o \in Threads : FileOf(job[o].at) = G /\ Copies(job[o])
                                                            => Whole(G, job[o].copy, issued)
    BY DEF Types, JobOK, UseFiles, Files
  <1>9. F \notin lost' => F \notin lost /\ Holds(j, F)
    BY <1>1, <1>2 DEF Holds, Copies
  <1> HIDE DEF F, j
  <1>10. ASSUME NEW G \in UseFiles, G \notin lost' PROVE Unspent(G)'
    <2>1. Unspent(G)
      BY <1>2, <1>10 DEF UsedInv
    <2>2. CASE G = F
      <3>1. /\ \A n \in OpenIds(F, j.copy) : uses[n] = 0
            /\ spent => j.id \in OpenIds(F, files[F]) \ OpenIds(F, j.copy)
        BY <1>9, <1>10, <2>1, <2>2 DEF Unspent, j
      <3>2. Whole(F, j.copy, issued)
        BY <1>8, <1>9, <1>10, <2>2 DEF Holds, j
      <3>3. \A n \in OpenIds(F, j.copy) : uses'[n] = 0
        BY <1>7, <2>2, <3>1, <3>2
      <3>4. ASSUME NEW o \in Threads, Holds(job'[o], F)
            PROVE  /\ j.copy = files[F] /\ ~spent
                   /\ job'[o].copy = job[o].copy /\ job'[o].at = job[o].at /\ job'[o].on = job[o].on /\ job'[o].id = job[o].id
                   /\ Holds(job[o], F) /\ Whole(F, job[o].copy, issued)
        <4>1. o # t
          BY <1>3, <3>4 DEF Holds, Copies
        <4>2. Same(job[o], job'[o]) /\ FileOf(job[o].at) = F /\ job[o].copy # None
          BY <1>1, <3>4, <4>1 DEF Same, Holds, Copies
        <4>3. j.copy = files[F]
          BY <1>1, <3>4, <4>1, <4>2 DEF Holds
        <4>4. Holds(job[o], F)
          BY <3>4, <4>2 DEF Holds, Copies, Same
        <4> QED
          BY <1>8, <2>2, <3>1, <4>2, <4>3, <4>4 DEF Same, Copies
      <3>5. ASSUME NEW o \in Threads, Holds(job'[o], F)
            PROVE  /\ \A n \in OpenIds(F, job'[o].copy) : uses'[n] = 0
                   /\ job'[o].at \in Uses /\ job'[o].on =>
                        job'[o].id \in OpenIds(F, files'[F]) \ OpenIds(F, job'[o].copy)
        <4>1. /\ \A n \in OpenIds(F, job[o].copy) : uses[n] = 0
              /\ job[o].at \in Uses /\ job[o].on => job[o].id \in OpenIds(F, files[F]) \ OpenIds(F, job[o].copy)
          BY <2>1, <2>2, <3>4, <3>5 DEF Unspent
        <4>2. \A n \in OpenIds(F, job[o].copy) : uses'[n] = uses[n]
          BY <1>7, <2>2, <3>4, <3>5
        <4> QED
          BY <1>1, <3>4, <3>5, <4>1, <4>2
      <3> QED
        BY <1>1, <2>2, <3>3, <3>5 DEF Unspent
    <2>3. CASE G # F
      <3>1. files'[G] = files[G]
        BY <1>1, <2>3 DEF UseFiles, Files
      <3>2. \A n \in OpenIds(G, files[G]) : uses'[n] = 0
        BY <1>7, <1>8, <2>1, <2>3 DEF Unspent
      <3>3. ASSUME NEW o \in Threads, Holds(job'[o], G)
            PROVE  /\ \A n \in OpenIds(G, job'[o].copy) : uses'[n] = 0
                   /\ job'[o].at \in Uses /\ job'[o].on =>
                        job'[o].id \in OpenIds(G, files'[G]) \ OpenIds(G, job'[o].copy)
        <4>1. o # t
          BY <1>3, <3>3 DEF Holds, Copies
        <4>2. Same(job[o], job'[o])
          BY <1>1, <4>1
        <4>3. Holds(job[o], G)
          BY <3>3, <4>2 DEF Holds, Copies, Same
        <4>4. Whole(G, job[o].copy, issued)
          BY <1>8, <4>3 DEF Holds
        <4>5. \A n \in OpenIds(G, job[o].copy) : uses'[n] = uses[n]
          BY <1>7, <2>3, <4>4
        <4> QED
          BY <2>1, <3>1, <4>2, <4>3, <4>5 DEF Unspent, Same
      <3> QED
        BY <3>1, <3>2, <3>3 DEF Unspent
    <2> QED
      BY <2>2, <2>3
  <1>11. ASSUME NEW n \in DOMAIN issued, uses'[n] # 0
         PROVE  \E G \in UseFiles : issued[n] = Kind(G) /\ (G \notin lost' => uses'[n] = 1)
    <2>1. CASE spent /\ n = j.id
      <3>1. F \in UseFiles /\ issued[n] = Kind(F)
        BY <1>4, <2>1 DEF IssuedFor
      <3>2. F \notin lost' => uses[n] = 0
        <4> SUFFICES ASSUME F \notin lost' PROVE uses[n] = 0
          OBVIOUS
        <4>1. Unspent(F)
          BY <1>9, <3>1 DEF UsedInv
        <4>2. n \in OpenIds(F, files[F])
          BY <1>9, <2>1, <4>1 DEF Unspent, j
        <4> QED
          BY <4>1, <4>2 DEF Unspent
      <3> QED
        BY <1>5, <1>6, <2>1, <3>1, <3>2
    <2>2. CASE ~(spent /\ n = j.id)
      <3>1. uses'[n] = uses[n]
        BY <1>5, <1>6, <2>2
      <3> QED
        BY <1>2, <1>11, <3>1 DEF UsedInv
    <2> QED
      BY <2>1, <2>2
  <1> QED
    BY <1>2, <1>10, <1>11 DEF UsedInv

LEMMA UsedNext ==
  ASSUME Types, UsedInv, [Next]_vars
  PROVE  UsedInv'
  <1>1. ASSUME NEW t \in Threads, Begin(t) PROVE UsedInv'
    <2>1. PICK r \in Requests : job' = [job EXCEPT ![t] = r]
      BY <1>1 DEF Begin, Become
    <2>2. r.copy = None
      BY RequestIs DEF Starts
    <2>3. UNCHANGED <<files, issued, uses>> /\ lost' = lost
      BY <1>1 DEF Begin, history
    <2>4. \A o \in Threads : job'[o] = job[o] \/ job'[o].copy = None
      BY <2>1, <2>2 DEF Types
    <2> QED
      BY <2>3, <2>4, UsedAside
  <1>2. ASSUME NEW t \in Threads, Aside(t) PROVE UsedInv'
    <2>1. PICK m : job' = [job EXCEPT ![t] = m] /\ m.copy = None
      BY <1>2, AsideIs
    <2>2. UNCHANGED <<files, issued, uses>> /\ lost \subseteq lost'
      BY <1>2, AsideIs
    <2>3. \A o \in Threads : job'[o] = job[o] \/ job'[o].copy = None
      BY <2>1 DEF Types
    <2> QED
      BY <2>2, <2>3, UsedAside
  <1>3. ASSUME Reload \/ Poll \/ Halt \/ Start \/ (\E n \in Ids : Deadline(n)) \/ UNCHANGED vars PROVE UsedInv'
    <2>1. UNCHANGED <<files, issued, uses, lost, job>>
      BY <1>3 DEF Reload, Poll, Halt, Start, Deadline, vars, history
    <2> QED
      BY <2>1, UsedAside
  <1>4. ASSUME NEW t \in Threads, Breaks(t) PROVE UsedInv'
    <2>1. UNCHANGED <<issued, uses>> /\ lost \subseteq lost' /\ \A F \in UseFiles : files'[F] = files[F]
      BY <1>4, BreaksIs DEF UseFiles, Files
    <2>2. \A o \in Threads : job'[o] = job[o] \/ job'[o].copy = None
      BY <1>4, BreaksIs, IdleIs
    <2> QED
      BY <2>1, <2>2, UsedAside
  <1> QED
    BY <1>1, <1>2, <1>3, <1>4, UsedLoad, UsedSave DEF Next, Aside

\* A pairing token pairs one device, a log-in ticket opens one web session and a transfer
\* is claimed once, for any number of threads and ids, unless the mark of its use was
\* undone or ignored by a request that had loaded the file before.
THEOREM IdsUsedOnce == Spec => []UsedOnce
  <1>1. Init => Types /\ UsedInv
    BY TypesInit, UsedInit
  <1>2. Types /\ UsedInv /\ [Next]_vars => (Types /\ UsedInv)'
    BY TypesNext, UsedNext
  <1>3. Types /\ UsedInv => UsedOnce
    <2> SUFFICES ASSUME Types, UsedInv, NEW n \in DOMAIN issued, uses[n] > 1
                 PROVE  CASE issued[n] = "addPairing" -> "pairing" \in lost
                          [] issued[n] = "addTicket" -> "tickets" \in lost
                          [] OTHER -> "transfers" \in lost
      BY DEF UsedOnce
    <2>1. uses[n] # 0 /\ uses[n] # 1
      OBVIOUS
    <2>2. PICK F \in UseFiles : issued[n] = Kind(F) /\ (F \notin lost => uses[n] = 1)
      BY <2>1 DEF UsedInv
    <2> QED
      BY <2>1, <2>2 DEF UseFiles, Kind
  <1> QED
    BY <1>1, <1>2, <1>3, PTL DEF Spec

----------------------------------------------------------------------------
\* Sessions from before a deletion.

\* A record of f is the same session, and is not revoked if w is not.
WasIn(w, f) == \E v \in f : v.id = w.id /\ v.device = w.device /\ (v.revoked => w.revoked)

\* A session that nothing knows of but the request that opens it.
Unheard(n) ==
    /\ n \notin dead /\ \A w \in files.web : w.id # n
    /\ \A t \in Threads : n \notin job[t].old

\* A session of the file that j's deletion is about: to be revoked, or out.
Seized(j, w) == IF j.at = "revokeDevice" THEN w.device = j.device ELSE ~Usable(w)

SessionsOut ==
    \A w \in files.web :
        /\ w.id \in dead => ~Usable(w)
        /\ \A t \in Threads : w.id \in job[t].old => Seized(job[t], w)

CopiesOut ==
    \A t \in Threads : Holds(job[t], "web") => \A w \in job[t].copy :
        /\ WasIn(w, files.web) \/ Unheard(w.id)
        /\ job[t].at = "revokeDevice" /\ w.device = job[t].device => w.revoked

DeadInv == "web" \notin lost => SessionsOut /\ CopiesOut

\* What a step makes of the sessions.
LEMMA EditedWeb ==
  ASSUME NEW s, NEW j, NEW f, Whole("web", f, s), NEW n,
         j.at \in {"addWeb", "getWeb", "touchWeb", "revokeWeb", "revokeDevice"}
  PROVE  \A w \in EditWeb(j, f, n) : /\ WasIn(w, f) \/ (j.at = "addWeb" /\ w.id = n)
                                     /\ j.at = "revokeDevice" /\ w.device = j.device => w.revoked
  <1> DEFINE g == EditWeb(j, f, n)
             mark(w) == [w EXCEPT !.revoked = TRUE]
  <1>1. \A w \in f : WasIn(w, f)
    BY DEF WasIn
  <1>2. CASE j.at = "addWeb"
    <2> DEFINE new == [id |-> n, device |-> j.device, revoked |-> FALSE]
    <2>1. g \subseteq f \cup {new} /\ new.id = n
      BY <1>2 DEF EditWeb
    <2> HIDE DEF new
    <2> QED
      BY <1>1, <1>2, <2>1
  <1>3. CASE j.at \in {"getWeb", "touchWeb"}
    <2>1. g \subseteq f
      BY <1>3 DEF EditWeb, Touch
    <2> QED
      BY <1>1, <1>3, <2>1
  <1>4. \A w \in f : mark(w).id = w.id /\ mark(w).device = w.device /\ mark(w).revoked = TRUE
    <2>1. \A w \in f : w \in [id : DOMAIN s, device : Owner, revoked : BOOLEAN]
      BY SortIs DEF Whole
    <2> QED
      BY <2>1
  <1>5. ASSUME NEW S \in SUBSET f, g = (f \ S) \cup {mark(w) : w \in S}
        PROVE  \A w \in g : WasIn(w, f) /\ (w \in f \ S \/ w.revoked)
    <2> HIDE DEF mark, g
    <2> QED
      BY <1>1, <1>4, <1>5 DEF WasIn
  <1>6. CASE j.at = "revokeWeb"
    <2>1. g = (f \ Its(j, f)) \cup {mark(w) : w \in Its(j, f)}
      BY <1>6 DEF EditWeb
    <2>2. Its(j, f) \in SUBSET f
      BY DEF Its
    <2> HIDE DEF g, mark
    <2>3. \A w \in g : WasIn(w, f)
      BY <1>5, <2>1, <2>2
    <2> QED
      BY <1>6, <2>3 DEF g
  <1>7. CASE j.at = "revokeDevice"
    <2> DEFINE S == {w \in f : w.device = j.device}
    <2>1. g = (f \ S) \cup {mark(w) : w \in S}
      BY <1>7 DEF EditWeb
    <2>2. \A w \in g : WasIn(w, f) /\ (w \in f \ S \/ w.revoked)
      <3> HIDE DEF g, mark
      <3> QED
        BY <1>5, <2>1
    <2> HIDE DEF g
    <2> QED
      BY <1>7, <2>2 DEF g
  <1> QED
    BY <1>2, <1>3, <1>6, <1>7

LEMMA WebIs ==
  ASSUME Types
  PROVE  /\ \A w \in files.web : w.id \in DOMAIN issued /\ \A v \in files.web : v.id = w.id => v = w
         /\ Whole("web", files.web, issued)
         /\ DOMAIN issued = 1..Len(issued) /\ Len(issued) \in Nat
  <1>1. Whole("web", files.web, issued)
    BY DEF Types, Files
  <1>2. files.web \subseteq [id : DOMAIN issued, device : Owner, revoked : BOOLEAN]
    BY <1>1, SortIs DEF Whole
  <1> QED
    BY <1>1, <1>2 DEF Whole, IdFiles, Types

LEMMA DeadInit == Init => DeadInv
  BY IdleIs DEF Init, DeadInv, SessionsOut, CopiesOut, Holds, Copies

\* Steps that leave the sessions and the copies alone; deadlines pass.
LEMMA DeadAside ==
  ASSUME DeadInv, dead' = dead, files'.web = files.web, lost \subseteq lost', over \subseteq over',
         \A t \in Threads : \/ job'[t] = job[t]
                            \/ /\ job'[t].copy = None /\ job'[t].old \subseteq job[t].old
                               /\ job[t].at # "revokeDevice" /\ job'[t].at # "revokeDevice"
  PROVE  DeadInv'
  <1> SUFFICES ASSUME "web" \notin lost' PROVE SessionsOut' /\ CopiesOut'
    BY DEF DeadInv
  <1>1. SessionsOut /\ CopiesOut
    BY DEF DeadInv
  <1>2. \A w : ~Usable(w) => ~Usable(w)'
    BY DEF Usable, Live
  <1>3. SessionsOut'
    BY <1>1, <1>2 DEF SessionsOut, Seized
  <1>4. \A n : Unheard(n) => Unheard(n)'
    BY DEF Unheard
  <1>5. CopiesOut'
    <2> SUFFICES ASSUME NEW t \in Threads, Holds(job'[t], "web"), NEW w \in job'[t].copy
                 PROVE  /\ WasIn(w, files'.web) \/ Unheard(w.id)'
                        /\ job'[t].at = "revokeDevice" /\ w.device = job'[t].device => w.revoked
      BY Zenon DEF CopiesOut, Holds, Copies
    <2>1. job'[t] = job[t]
      BY DEF Holds, Copies
    <2> QED
      BY <1>1, <1>4, <2>1 DEF CopiesOut
  <1> QED
    BY <1>3, <1>5

LEMMA DeadBegin ==
  ASSUME Types, DeadInv, NEW t \in Threads, Begin(t)
  PROVE  DeadInv'
  <1>1. PICK r \in Requests : job' = [job EXCEPT ![t] = r]
    BY DEF Begin, Become
  <1>2. r.copy = None /\ r.at = Plan(r.op)[1] /\ r.op \in Ops
        /\ (r.op = "delete" => r.old = SessionsOf(r.device)) /\ (r.op # "delete" => r.old = {})
    BY RequestIs DEF Starts
  <1>3. UNCHANGED <<files, dead, lost, over>> /\ job[t] = Idle
    BY DEF Begin, history
  <1>4. job'[t] = r /\ \A o \in Threads : o = t \/ job'[o] = job[o]
    BY <1>1 DEF Types
  <1> SUFFICES ASSUME "web" \notin lost PROVE SessionsOut' /\ CopiesOut'
    BY <1>3 DEF DeadInv
  <1>5. SessionsOut /\ CopiesOut
    BY DEF DeadInv
  <1>6. \A w : Usable(w)' <=> Usable(w)
    BY <1>3 DEF Usable, Live
  <1>7. ASSUME NEW w \in files.web, w.id \in r.old PROVE Seized(r, w)
    <2>1. r.op = "delete" /\ r.at = "revokeDevice"
      BY <1>2, <1>7, FirstSteps
    <2>2. PICK x \in files.web : x.device = r.device /\ x.id = w.id
      BY <1>2, <1>7, <2>1 DEF SessionsOf
    <2> QED
      BY <2>1, <2>2, WebIs DEF Seized
  <1>8. \A w, o : Seized(o, w)' <=> Seized(o, w)
    BY <1>6 DEF Seized
  <1>9. SessionsOut'
    <2> SUFFICES ASSUME NEW w \in files.web
                 PROVE  /\ w.id \in dead => ~Usable(w)
                        /\ \A o \in Threads : w.id \in job'[o].old => Seized(job'[o], w)
      BY <1>3, <1>6, <1>8, Zenon DEF SessionsOut, Seized
    <2> QED
      BY <1>4, <1>5, <1>7 DEF SessionsOut
  <1>10. \A n : Unheard(n) => Unheard(n)'
    <2>1. \A n \in r.old : \E w \in files.web : w.id = n
      BY <1>2 DEF SessionsOf
    <2> QED
      BY <1>3, <1>4, <2>1 DEF Unheard
  <1>11. CopiesOut'
    <2> SUFFICES ASSUME NEW o \in Threads, Holds(job'[o], "web"), NEW w \in job'[o].copy
                 PROVE  /\ WasIn(w, files'.web) \/ Unheard(w.id)'
                        /\ job'[o].at = "revokeDevice" /\ w.device = job'[o].device => w.revoked
      BY Zenon DEF CopiesOut, Holds, Copies
    <2>1. job'[o] = job[o]
      BY <1>2, <1>4 DEF Holds, Copies
    <2> QED
      BY <1>3, <1>5, <1>10, <2>1 DEF CopiesOut
  <1> QED
    BY <1>9, <1>11

LEMMA DeadLoad ==
  ASSUME Types, DeadInv, NEW t \in Threads, Load(t)
  PROVE  DeadInv'
  <1> DEFINE j == job[t]
             F == FileOf(j.at)
             n == Len(issued) + 1
             m == job'[t]
  <1>1. F # "none" /\ j.op \in Ops /\ JobOK(j, issued) /\ UNCHANGED <<files, dead, lost, over>>
    BY LoadIs DEF OnlyJob, history
  <1> DEFINE Made(f) == Edit(j, f, n)
  <1>0. PICK f, k : /\ Reads(F, f) /\ Loaded(j, k, f, Made(f))
                    /\ \/ NoSave(j, k, f, Made(f)) /\ job' = [job EXCEPT ![t] = Move(k, After(k))]
                       \/ ~(j.at = "usePairing" /\ ~k.on) /\ job' = [job EXCEPT ![t] = [k EXCEPT !.copy = Made(f)]]
    BY LoadIs
  <1> DEFINE new == Made(f)
  <1>2. /\ Loaded(j, k, f, new)
        /\ \/ NoSave(j, k, f, new) /\ job' = [job EXCEPT ![t] = Move(k, After(k))]
           \/ ~(j.at = "usePairing" /\ ~k.on) /\ job' = [job EXCEPT ![t] = [k EXCEPT !.copy = new]]
    BY <1>0
  <1>3. DOMAIN k = Fields /\ k.op = j.op /\ k.at = j.at /\ k.old = j.old
    BY <1>2 DEF Loaded
  <1>4. j.at = "revokeDevice" => k.device = j.device
    BY <1>2 DEF Loaded
  <1>5. After(k) # "revokeDevice" /\ Move(k, After(k)).copy = None
        /\ Move(k, After(k)).at = After(k) /\ Move(k, After(k)).old \subseteq k.old
    <2>1. k.op \in Ops /\ DOMAIN k = Fields
      BY <1>1, <1>3
    <2> HIDE DEF j
    <2>2. After(k) # "revokeDevice"
      BY <2>1, GoesOn, WaysSteps
    <2> QED
      BY <2>1, <2>2, MoveIs
  <1>6. \A o \in Threads : o = t \/ job'[o] = job[o]
    <2> HIDE DEF j, new, Made
    <2> QED
      BY <1>2 DEF Types
  <1>7. F = "web" => \A w \in new : /\ WasIn(w, f) \/ (j.at = "addWeb" /\ w.id = n)
                                    /\ j.at = "revokeDevice" /\ w.device = j.device => w.revoked
    <2> SUFFICES ASSUME F = "web" PROVE \A w \in new : /\ WasIn(w, f) \/ (j.at = "addWeb" /\ w.id = n)
                                                       /\ j.at = "revokeDevice" /\ w.device = j.device => w.revoked
      OBVIOUS
    <2>1. new = EditWeb(j, f, n) /\ Whole("web", f, issued)
      BY <1>0, WebIs DEF Edit, Reads
    <2>2. j.at \in {"addWeb", "getWeb", "touchWeb", "revokeWeb", "revokeDevice"}
      BY FileOfIs
    <2> QED
      BY <2>1, <2>2, EditedWeb
  <1>8. \/ NoSave(j, k, f, new) /\ m = Move(k, After(k))
        \/ m.at = k.at /\ m.device = k.device /\ m.copy = new /\ m.old = k.old
    <2> HIDE DEF j, new, Made
    <2>1. \/ NoSave(j, k, f, new) /\ m = Move(k, After(k))
          \/ m = [k EXCEPT !.copy = new]
      BY <1>2 DEF Types
    <2> QED
      BY <1>3, <2>1 DEF Fields
  <1>9. (F = "web" => f = files[F]) /\ n \notin DOMAIN issued
    BY <1>0, WebIs DEF Reads
  <1>10. (j.at = "revokeDevice" => F = "web") /\ (j.at = "addWeb" => F = "web") /\ j = job[t]
         /\ (NoSave(j, k, f, new) /\ j.at = "revokeDevice" => new = f)
    BY FileOfIs DEF NoSave, Rewrites, Issuing
  <1>11. j.old \subseteq DOMAIN issued
    BY <1>1 DEF JobOK
  <1> HIDE DEF j, F, n, new, Made
  <1>12. /\ m.old \subseteq j.old /\ (m.copy # None => m.at = j.at /\ m.device = k.device /\ m.copy = new)
         /\ m.at # "revokeDevice" \/ (m.at = j.at /\ m.device = k.device)
    BY <1>3, <1>5, <1>8
  <1> SUFFICES ASSUME "web" \notin lost PROVE SessionsOut' /\ CopiesOut'
    BY <1>1 DEF DeadInv
  <1>13. SessionsOut /\ CopiesOut
    BY DEF DeadInv
  <1>14. \A w : Usable(w)' <=> Usable(w)
    BY <1>1 DEF Usable, Live
  <1>15. ASSUME NEW w \in files.web, w.id \in m.old PROVE Seized(m, w)
    <2>1. Seized(j, w)
      BY <1>10, <1>12, <1>13, <1>15 DEF SessionsOut
    <2>2. CASE j.at # "revokeDevice"
      BY <1>12, <2>1, <2>2 DEF Seized
    <2>3. CASE j.at = "revokeDevice" /\ m.at = "revokeDevice"
      BY <1>4, <1>12, <2>1, <2>3 DEF Seized
    <2>4. CASE j.at = "revokeDevice" /\ m.at # "revokeDevice"
      <3>1. NoSave(j, k, f, new)
        BY <1>3, <1>8, <2>4
      <3>2. new = f /\ F = "web" /\ w \in f
        BY <1>9, <1>10, <2>4, <3>1
      <3>3. w.device = j.device
        BY <2>1, <2>4 DEF Seized
      <3>4. w.revoked
        BY <1>7, <2>4, <3>2, <3>3
      <3> QED
        BY <2>4, <3>4 DEF Seized, Usable
    <2> QED
      BY <2>2, <2>3, <2>4
  <1>16. SessionsOut'
    <2> SUFFICES ASSUME NEW w \in files.web
                 PROVE  /\ w.id \in dead => ~Usable(w)
                        /\ \A o \in Threads : w.id \in job'[o].old => Seized(job'[o], w)
      BY <1>1, <1>14, Zenon DEF SessionsOut, Seized
    <2> QED
      BY <1>6, <1>13, <1>15 DEF SessionsOut
  <1>17. \A i : Unheard(i) => Unheard(i)'
    BY <1>1, <1>6, <1>10, <1>12 DEF Unheard
  <1>18. j.at = "addWeb" => Unheard(n)
    <2>1. \A w \in files.web : w.id \in DOMAIN issued
      BY WebIs
    <2>2. dead \subseteq DOMAIN issued /\ \A o \in Threads : job[o].old \subseteq DOMAIN issued
      BY DEF Types, JobOK
    <2> QED
      BY <1>9, <2>1, <2>2 DEF Unheard
  <1>19. CopiesOut'
    <2> SUFFICES ASSUME NEW o \in Threads, Holds(job'[o], "web"), NEW w \in job'[o].copy
                 PROVE  /\ WasIn(w, files.web) \/ Unheard(w.id)'
                        /\ job'[o].at = "revokeDevice" /\ w.device = job'[o].device => w.revoked
      BY <1>1, Zenon DEF CopiesOut, Holds, Copies
    <2>1. CASE o # t
      BY <1>6, <1>13, <1>17, <2>1 DEF CopiesOut
    <2>2. CASE o = t
      <3>1. m.at = j.at /\ m.device = k.device /\ m.copy = new /\ FileOf(m.at) = "web"
        BY <1>12, <2>2 DEF Holds, Copies
      <3>2. F = "web"
        BY <3>1 DEF F
      <3> QED
        BY <1>4, <1>7, <1>9, <1>17, <1>18, <2>2, <3>1, <3>2
    <2> QED
      BY <2>1, <2>2
  <1> QED
    BY <1>16, <1>19

LEMMA DeadSave ==
  ASSUME Types, DeadInv, NEW t \in Threads, Save(t)
  PROVE  DeadInv'
  <1> DEFINE j == job[t]
             F == FileOf(j.at)
             m == job'[t]
  <1>1. /\ F \in Files /\ j.copy # None /\ j.op \in Ops /\ JobOK(j, issued) /\ m = Move(j, After(j))
        /\ \A o \in Threads \ {t} :
             /\ Same(job[o], job'[o])
             /\ j.copy # files[F] /\ FileOf(job[o].at) = F /\ job[o].copy # None => F \in job'[o].stale
        /\ files'[F] = j.copy /\ \A G \in Files \ {F} : files'[G] = files[G]
    BY SaveIs
  <1>2. lost' = lost \cup j.stale /\ dead' = (IF j.at = "dropDevice" THEN dead \cup j.old ELSE dead) /\ over' = over
    BY DEF Save
  <1>3. DOMAIN j = Fields
    BY <1>1 DEF JobOK
  <1>4. After(j) # "revokeDevice" /\ m.copy = None /\ m.at = After(j) /\ m.old \subseteq j.old
    <2> HIDE DEF j, m
    <2>1. j.op \in Ops /\ m = Move(j, After(j))
      BY <1>1
    <2>2. After(j) # "revokeDevice"
      BY <2>1, GoesOn, WaysSteps
    <2> QED
      BY <1>3, <2>1, <2>2, MoveIs
  <1>5. (j.at = "revokeDevice" => F = "web") /\ (F = "web" => j.at # "dropDevice") /\ "web" \in Files /\ j = job[t]
    BY FileOfIs DEF Files
  <1>6. F = "web" /\ "web" \notin lost' => Holds(j, "web")
    BY <1>1, <1>2 DEF Holds, Copies
  <1>7. \A o \in Threads \ {t} : job'[o].old = job[o].old /\ (\A w : Seized(job'[o], w) <=> Seized(job[o], w))
                                 /\ job'[o].at = job[o].at /\ job'[o].device = job[o].device /\ job'[o].copy = job[o].copy
                                 /\ (Holds(job'[o], "web") => Holds(job[o], "web"))
    <2> SUFFICES ASSUME NEW o \in Threads \ {t}
                 PROVE  /\ job'[o].old = job[o].old /\ (\A w : Seized(job'[o], w) <=> Seized(job[o], w))
                        /\ job'[o].at = job[o].at /\ job'[o].device = job[o].device /\ job'[o].copy = job[o].copy
                        /\ (Holds(job'[o], "web") => Holds(job[o], "web"))
      OBVIOUS
    <2>1. Same(job[o], job'[o])
      BY <1>1
    <2>3. \A w : Seized(job'[o], w) <=> Seized(job[o], w)
      BY <2>1 DEF Same, Seized
    <2> QED
      BY <2>1, <2>3 DEF Same, Holds, Copies
  <1>8. \A w : Usable(w)' <=> Usable(w)
    BY <1>2 DEF Usable, Live
  <1> HIDE DEF j, F, m
  <1> SUFFICES ASSUME "web" \notin lost' PROVE SessionsOut' /\ CopiesOut'
    BY DEF DeadInv
  <1>9. SessionsOut /\ CopiesOut
    BY <1>2 DEF DeadInv
  <1>10. ASSUME NEW w \in files'.web
         PROVE  /\ w.id \in dead' => ~Usable(w)
                /\ w.id \in m.old => ~Usable(w)
                /\ \A o \in Threads \ {t} : w.id \in job[o].old => Seized(job[o], w)
    <2>1. CASE F = "web"
      <3>1. /\ WasIn(w, files.web) \/ Unheard(w.id)
            /\ j.at = "revokeDevice" /\ w.device = j.device => w.revoked
        BY <1>1, <1>5, <1>6, <1>9, <1>10, <2>1 DEF CopiesOut
      <3>2. CASE Unheard(w.id)
        BY <1>2, <1>4, <1>5, <2>1, <3>2 DEF Unheard
      <3>3. CASE WasIn(w, files.web)
        <4>1. PICK v \in files.web : v.id = w.id /\ v.device = w.device /\ (v.revoked => w.revoked)
          BY <3>3 DEF WasIn
        <4>2. ~Usable(v) => ~Usable(w)
          BY <4>1 DEF Usable, Live
        <4>3. \A o : Seized(o, v) => Seized(o, w)
          BY <4>1, <4>2 DEF Seized
        <4>4. w.id \in dead' => ~Usable(w)
          BY <1>2, <1>5, <1>9, <2>1, <4>1, <4>2 DEF SessionsOut
        <4>5. \A o \in Threads : w.id \in job[o].old => Seized(job[o], w)
          BY <1>9, <4>1, <4>3 DEF SessionsOut
        <4>6. w.id \in j.old => ~Usable(w)
          BY <1>5, <3>1, <4>5 DEF Seized, Usable
        <4> QED
          BY <1>4, <4>4, <4>5, <4>6
      <3> QED
        BY <3>1, <3>2, <3>3
    <2>2. CASE F # "web"
      <3>1. w \in files.web
        BY <1>1, <1>5, <1>10, <2>2
      <3>2. w.id \in j.old => ~Usable(w)
        BY <1>5, <1>9, <2>2, <3>1 DEF SessionsOut, Seized
      <3> QED
        BY <1>2, <1>4, <1>9, <3>1, <3>2 DEF SessionsOut
    <2> QED
      BY <2>1, <2>2
  <1>11. SessionsOut'
    <2>1. \A w : w.id \in m.old /\ ~Usable(w) => Seized(m, w)
      BY <1>4, <1>8 DEF Seized
    <2>2. m = job'[t]
      BY DEF m
    <2> SUFFICES ASSUME NEW w \in files'.web
                 PROVE  /\ w.id \in dead' => ~Usable(w)
                        /\ \A o \in Threads : w.id \in job'[o].old => Seized(job'[o], w)
      BY <1>8, Zenon DEF SessionsOut, Seized
    <2> QED
      BY <1>7, <1>8, <1>10, <2>1, <2>2
  <1>12. CopiesOut'
    <2> SUFFICES ASSUME NEW o \in Threads, Holds(job'[o], "web"), NEW w \in job'[o].copy
                 PROVE  /\ WasIn(w, files'.web) \/ Unheard(w.id)'
                        /\ job'[o].at = "revokeDevice" /\ w.device = job'[o].device => w.revoked
      BY DEF CopiesOut, Holds, Copies
    <2>1. o # t
      BY <1>4 DEF Holds, Copies, m
    <2>2. Holds(job[o], "web") /\ w \in job[o].copy
      BY <1>7, <2>1
    <2>3. /\ WasIn(w, files.web) \/ Unheard(w.id)
          /\ job[o].at = "revokeDevice" /\ w.device = job[o].device => w.revoked
      BY <1>9, <2>2 DEF CopiesOut
    <2>4. files'.web = files.web
      <3>1. CASE F = "web"
        <4>1. FileOf(job[o].at) = "web" /\ job[o].copy # None /\ "web" \notin job'[o].stale
          BY <2>2 DEF Holds, Copies
        <4> QED
          BY <1>1, <2>1, <3>1, <4>1
      <3> QED
        BY <1>1, <1>5, <3>1
    <2>5. Unheard(w.id) => Unheard(w.id)'
      <3> SUFFICES ASSUME Unheard(w.id) PROVE Unheard(w.id)'
        OBVIOUS
      <3>1. w.id \notin dead'
        BY <1>2, <1>5 DEF Unheard
      <3>2. \A p \in Threads : w.id \notin job'[p].old
        BY <1>4, <1>5, <1>7 DEF Unheard, m
      <3> QED
        BY <2>4, <3>1, <3>2 DEF Unheard
    <2> QED
      BY <1>7, <2>1, <2>3, <2>4, <2>5
  <1> QED
    BY <1>11, <1>12

LEMMA DeadNext ==
  ASSUME Types, DeadInv, [Next]_vars
  PROVE  DeadInv'
  <1>1. ASSUME NEW t \in Threads, Aside(t) PROVE DeadInv'
    <2>1. PICK m : job' = [job EXCEPT ![t] = m] /\ m.copy = None /\ Apart(m) /\ m.old \subseteq job[t].old
      BY <1>1, AsideIs
    <2>2. UNCHANGED <<files, dead, over>> /\ lost \subseteq lost' /\ job[t].at # "revokeDevice"
      BY <1>1, AsideIs DEF Asides
    <2>3. \A o \in Threads : \/ job'[o] = job[o]
                             \/ /\ job'[o].copy = None /\ job'[o].old \subseteq job[o].old
                                /\ job[o].at # "revokeDevice" /\ job'[o].at # "revokeDevice"
      BY <2>1, <2>2 DEF Types, Apart
    <2> QED
      BY <2>2, <2>3, DeadAside
  <1>2. ASSUME Reload \/ Poll \/ Halt \/ Start \/ (\E n \in Ids : Deadline(n)) \/ UNCHANGED vars PROVE DeadInv'
    <2>1. UNCHANGED <<files, dead, lost, job>> /\ over \subseteq over'
      BY <1>2 DEF Reload, Poll, Halt, Start, Deadline, vars, history
    <2> QED
      BY <2>1, DeadAside
  <1>3. ASSUME NEW t \in Threads, Breaks(t) PROVE DeadInv'
    <2>1. dead' = dead /\ over' = over /\ lost \subseteq lost' /\ files'.web = files.web
      BY <1>3, BreaksIs DEF Files
    <2>2. \A o \in Threads : job'[o] = job[o] \/ (job'[o].copy = None /\ job'[o].old = {} /\ job'[o].at = "idle"
                                                 /\ job[o].at = "noteOther")
      BY <1>3, BreaksIs, IdleIs DEF Idle
    <2> QED
      BY <2>1, <2>2, DeadAside
  <1> QED
    BY <1>1, <1>2, <1>3, DeadBegin, DeadLoad, DeadSave DEF Next, Aside

\* Deleting a device ends its web sessions for good, for any number of threads, devices
\* and ids and wherever the deletion is interleaved with the requests of these sessions,
\* unless the revocation was overwritten.
THEOREM DeletedStayOut == Spec => []DeletedSessionsStayOut
  <1>1. Init => Types /\ DeadInv
    BY TypesInit, DeadInit
  <1>2. Types /\ DeadInv /\ [Next]_vars => (Types /\ DeadInv)'
    BY TypesNext, DeadNext
  <1>3. DeadInv => DeletedSessionsStayOut
    BY DEF DeadInv, SessionsOut, DeletedSessionsStayOut
  <1> QED
    BY <1>1, <1>2, <1>3, PTL DEF Spec

----------------------------------------------------------------------------
\* The lists: the paired devices, allow_from and the pending requests.

Lists == {"devices", "config", "requests"}
Who(F, f) == IF F = "devices" THEN {r.device : r \in f} ELSE f

Joins == {"upsertDevice", "allow", "recordRequest"}
Leaves == {"dropDevice", "disallow", "dropRequest"}

\* What a step makes of its list: g of f.
Alters(j, F, f, g) ==
    /\ j.at \in Joins => Who(F, g) = Who(F, f) \cup {j.device}
    /\ j.at \in Leaves => Who(F, g) = Who(F, f) \ {j.device}
    /\ j.at \in {"seen", "noteOther"} => Who(F, g) = Who(F, f)

CopiesAlter == \A t \in Threads : \A F \in Lists \ lost : Holds(job[t], F) => Alters(job[t], F, files[F], job[t].copy)

Awaited == {job[t].device : t \in {x \in Threads : job[x].at = "recordRequest"}}
Leaving == {job[t].device : t \in {x \in Threads : job[x].op = "delete" /\ job[x].at = "sync"}}

\* The list the gateway goes by, once it has looked at the relay directory.
Heeded == IF relay = None THEN gate.allow ELSE relay

\* What a request takes to be so.
Knows(j) ==
    /\ j.op \in {"approve", "delete"} /\ j.at \in {"dropRequest", "sync"} /\ "config" \notin j.stale
         => j.list = files.config
    /\ j.at = "disallow" /\ "devices" \notin j.stale => j.device \notin Registered

Listed == Registered \subseteq files.config \cup files.requests \cup refused \cup Awaited
Heeds == Heeded \subseteq files.config \cup Leaving

ListInv ==
    /\ gate \in [up : BOOLEAN, allow : SUBSET Devices, signalled : BOOLEAN]
    /\ CopiesAlter
    /\ lost = {} /\ ~edited => Listed /\ (\A t \in Threads : Knows(job[t])) /\ Heeds /\ strangers = {}

LEMMA EditedList ==
  ASSUME NEW j, NEW f, NEW n, FileOf(j.at) \in Lists
  PROVE  Alters(j, FileOf(j.at), f, Edit(j, f, n))
  <1> DEFINE F == FileOf(j.at)
             g == Edit(j, f, n)
  <1>1. CASE F = "devices"
    <2>1. j.at \in {"upsertDevice", "dropDevice", "seen"} /\ g = EditDevices(j, f, n)
      BY <1>1, FileOfIs DEF Edit
    <2>2. CASE j.at = "upsertDevice"
      <3> DEFINE new == [device |-> j.device, key |-> n]
      <3>1. g = {r \in f : r.device # j.device} \cup {new} /\ new.device = j.device
        BY <2>1, <2>2 DEF EditDevices
      <3> HIDE DEF new, g
      <3>2. {r.device : r \in g} = {r.device : r \in f} \cup {j.device}
        BY <3>1
      <3> QED
        BY <1>1, <2>2, <3>2 DEF Alters, Who, Joins, Leaves, g
    <2>3. CASE j.at = "dropDevice"
      <3>1. g = {r \in f : r.device # j.device}
        BY <2>1, <2>3 DEF EditDevices
      <3>2. {r.device : r \in g} = {r.device : r \in f} \ {j.device}
        BY <3>1
      <3> QED
        BY <1>1, <2>3, <3>2 DEF Alters, Who, Joins, Leaves
    <2>4. CASE j.at = "seen"
      BY <1>1, <2>1, <2>4 DEF Alters, Joins, Leaves, EditDevices
    <2> QED
      BY <2>1, <2>2, <2>3, <2>4
  <1>2. CASE F = "config"
    <2>1. j.at \in {"allow", "disallow", "setAllow"} /\ g = EditConfig(j, f)
      BY <1>2, FileOfIs DEF Edit
    <2> QED
      BY <1>2, <2>1 DEF Alters, Who, Joins, Leaves, EditConfig
  <1>3. CASE F = "requests"
    <2>1. j.at \in {"recordRequest", "dropRequest", "noteOther"} /\ g = EditRequests(j, f)
      BY <1>3, FileOfIs DEF Edit
    <2> QED
      BY <1>3, <2>1 DEF Alters, Who, Joins, Leaves, EditRequests
  <1> QED
    BY <1>1, <1>2, <1>3 DEF Lists

LEMMA ListInit == Init => ListInv
  <1> SUFFICES ASSUME Init PROVE ListInv
    OBVIOUS
  <1>1. Paired \subseteq Devices
    BY InitIs
  <1>2. Registered = Paired /\ files.config = Paired
    <2>1. files.devices = {[device |-> d, key |-> d] : d \in Paired} /\ files.config = Paired
      BY DEF Init
    <2>2. {r.device : r \in {[device |-> d, key |-> d] : d \in Paired}} = Paired
      <3> DEFINE S == {[device |-> d, key |-> d] : d \in Paired}
      <3>1. \A d \in Paired : [device |-> d, key |-> d] \in S /\ [device |-> d, key |-> d].device = d
        OBVIOUS
      <3>2. \A r \in S : r.device \in Paired
        OBVIOUS
      <3>3. \A d \in Paired : \E r \in S : r.device = d
        BY <3>1
      <3> HIDE DEF S
      <3>4. {r.device : r \in S} = Paired
        BY <3>2, <3>3
      <3> QED
        BY <3>4 DEF S
    <2> QED
      BY <2>1, <2>2 DEF Registered
  <1>3. gate = [up |-> TRUE, allow |-> Paired, signalled |-> FALSE] /\ relay \in {None, Paired} /\ strangers = {}
    BY DEF Init
  <1>4. \A t \in Threads : job[t] = Idle
    BY DEF Init
  <1>5. \A t \in Threads : Knows(job[t])
    BY <1>4, IdleIs DEF Knows
  <1>6. CopiesAlter
    BY <1>4, IdleIs DEF CopiesAlter, Holds, Copies
  <1>7. Heeds /\ Listed
    BY <1>2, <1>3 DEF Heeds, Heeded, Listed
  <1> QED
    BY <1>1, <1>3, <1>5, <1>6, <1>7 DEF ListInv

\* Nobody that is awaited or about to leave is forgotten by a step of t.
Minds(t) ==
    /\ job[t].at = "recordRequest" => job'[t].at = "recordRequest" /\ job'[t].device = job[t].device
    /\ job[t].op = "delete" /\ job[t].at = "sync"
         => job'[t].op = "delete" /\ job'[t].at = "sync" /\ job'[t].device = job[t].device

LEMMA Minded ==
  ASSUME \A t \in Threads : Minds(t)
  PROVE  Awaited \subseteq Awaited' /\ Leaving \subseteq Leaving'
  BY DEF Minds, Awaited, Leaving

\* Steps of one request that leave the files alone and have nothing in hand.
LEMMA ListStep ==
  ASSUME Types, ListInv, UNCHANGED <<files, refused, strangers, relay, gate>>, lost \subseteq lost', edited' = edited,
         NEW t \in Threads, Minds(t), \A o \in Threads : o = t \/ job'[o] = job[o],
         \A F \in Lists : Holds(job'[t], F) => Alters(job'[t], F, files[F], job'[t].copy),
         lost = {} /\ ~edited => Knows(job'[t])
  PROVE  ListInv'
  <1>1. CopiesAlter'
    <2> SUFFICES ASSUME NEW o \in Threads, NEW F \in Lists \ lost', Holds(job'[o], F)
                 PROVE  Alters(job'[o], F, files[F], job'[o].copy)
      BY Zenon DEF CopiesAlter, Holds, Copies, Alters
    <2>1. o # t => job'[o] = job[o]
      OBVIOUS
    <2> QED
      BY <2>1 DEF ListInv, CopiesAlter
  <1>2. \A o \in Threads : Minds(o)
    BY DEF Minds
  <1>3. Awaited \subseteq Awaited' /\ Leaving \subseteq Leaving'
    BY <1>2, Minded
  <1>4. ASSUME lost' = {}, ~edited' PROVE (Listed /\ (\A o \in Threads : Knows(job[o])) /\ Heeds /\ strangers = {})'
    <2>1. lost = {} /\ ~edited
      BY <1>4
    <2>2. Listed /\ (\A o \in Threads : Knows(job[o])) /\ Heeds /\ strangers = {}
      BY <2>1 DEF ListInv
    <2>3. Registered' = Registered /\ Heeded' = Heeded
      BY DEF Registered, Heeded
    <2>4. Listed' /\ Heeds'
      BY <1>3, <2>2, <2>3 DEF Listed, Heeds
    <2>5. \A o \in Threads : Knows(job'[o])
      BY <2>1, <2>2
    <2>6. (\A o \in Threads : Knows(job[o]))'
      BY <2>3, <2>5 DEF Knows
    <2> QED
      BY <2>2, <2>4, <2>6
  <1> QED
    BY <1>1, <1>4 DEF ListInv

LEMMA ListBegin ==
  ASSUME Types, ListInv, NEW t \in Threads, Begin(t)
  PROVE  ListInv'
  <1>1. PICK r \in Requests : job' = [job EXCEPT ![t] = r]
    BY DEF Begin, Become
  <1>2. r.copy = None /\ r.at = Plan(r.op)[1] /\ r.op \in Ops
    BY RequestIs DEF Starts
  <1>3. UNCHANGED <<files, refused, strangers, relay, gate, lost, edited>> /\ job[t] = Idle
    BY DEF Begin, history
  <1>4. job'[t] = r /\ \A o \in Threads : o = t \/ job'[o] = job[o]
    BY <1>1 DEF Types
  <1>5. r.at \notin {"sync", "disallow"} /\ (r.at = "dropRequest" => r.op = "reject")
    BY <1>2, FirstSteps
  <1>6. Minds(t) /\ Knows(job'[t])
    BY <1>3, <1>4, <1>5, IdleIs DEF Minds, Knows
  <1>7. \A F \in Lists : ~Holds(job'[t], F)
    BY <1>2, <1>4 DEF Holds, Copies
  <1> QED
    BY <1>3, <1>4, <1>6, <1>7, ListStep

LEMMA ListLoad ==
  ASSUME Types, ListInv, NEW t \in Threads, Load(t)
  PROVE  ListInv'
  <1> DEFINE j == job[t]
             F == FileOf(j.at)
             m == job'[t]
  <1>1. F # "none" /\ j.op \in Ops /\ JobOK(j, issued)
        /\ UNCHANGED <<files, refused, strangers, relay, gate, lost, edited>>
    BY LoadIs DEF OnlyJob, history
  <1> DEFINE Made(f) == Edit(j, f, Len(issued) + 1)
  <1>0. PICK f, k : /\ Reads(F, f) /\ Loaded(j, k, f, Made(f))
                    /\ \/ NoSave(j, k, f, Made(f)) /\ job' = [job EXCEPT ![t] = Move(k, After(k))]
                       \/ ~(j.at = "usePairing" /\ ~k.on) /\ job' = [job EXCEPT ![t] = [k EXCEPT !.copy = Made(f)]]
    BY LoadIs
  <1> DEFINE new == Made(f)
  <1>2. /\ Loaded(j, k, f, new)
        /\ \/ NoSave(j, k, f, new) /\ job' = [job EXCEPT ![t] = Move(k, After(k))]
           \/ ~(j.at = "usePairing" /\ ~k.on) /\ job' = [job EXCEPT ![t] = [k EXCEPT !.copy = new]]
    BY <1>0
  <1>3. DOMAIN k = Fields /\ k.op = j.op /\ k.at = j.at
        /\ k.stale = (IF f = files[F] THEN j.stale \ {F} ELSE j.stale \cup {F})
        /\ k.list = (IF F = "config" THEN new ELSE j.list)
        /\ (j.at \notin {"useTicket", "getWeb", "useTransfer"} => k.device = j.device)
    BY <1>2 DEF Loaded
  <1>4. \A o \in Threads : o = t \/ job'[o] = job[o]
    <2> HIDE DEF j, new, Made
    <2> QED
      BY <1>2 DEF Types
  <1>5. \/ NoSave(j, k, f, new) /\ m = Move(k, After(k))
        \/ m.op = k.op /\ m.at = k.at /\ m.device = k.device /\ m.copy = new /\ m.list = k.list /\ m.stale = k.stale
    <2> HIDE DEF j, new, Made
    <2>1. \/ NoSave(j, k, f, new) /\ m = Move(k, After(k))
          \/ m = [k EXCEPT !.copy = new]
      BY <1>2 DEF Types
    <2> QED
      BY <1>3, <2>1 DEF Fields
  <1>6. F \in Lists => Alters(j, F, f, new)
    BY EditedList
  <1>7. (F # "requests" => f = files[F]) /\ j = job[t] /\ F = FileOf(j.at) /\ F \in Files /\ j.at # "sync"
    <2>1. F # "requests" => f = files[F]
      BY <1>0 DEF Reads
    <2>2. FileOf("sync") = "none"
      BY DEF FileOf
    <2> QED
      BY <1>1, <2>1, <2>2, FileOfIs
  <1>8. OnPlan(j)
    BY <1>1 DEF JobOK
  <1>9. lost = {} /\ ~edited => Knows(j)
    BY DEF ListInv
  <1> HIDE DEF j, F, new, Made, m
  <1>10. CASE ~(NoSave(j, k, f, new) /\ m = Move(k, After(k)))
    <2>1. m.op = j.op /\ m.at = j.at /\ m.copy = new /\ m.list = k.list /\ m.stale = k.stale
          /\ (j.at \notin {"useTicket", "getWeb", "useTransfer"} => m.device = j.device)
      BY <1>3, <1>5, <1>10
    <2>2. ASSUME NEW G \in Lists, Holds(m, G) PROVE Alters(m, G, files[G], m.copy)
      <3>1. G = F /\ f = files[F]
        BY <1>3, <1>7, <2>1, <2>2 DEF Holds
      <3>2. F \in Lists => j.at \notin {"useTicket", "getWeb", "useTransfer"}
        BY <1>7, FileOfIs DEF Lists
      <3> QED
        BY <1>6, <1>7, <2>1, <2>2, <3>1, <3>2 DEF Alters
    <2>3. Minds(t)
      BY <1>7, <2>1 DEF Minds, m
    <2>4. Knows(j) => Knows(m)
      <3>1. j.at \in {"dropRequest", "disallow"} => j.at \notin {"useTicket", "getWeb", "useTransfer"}
        OBVIOUS
      <3>2. (j.at = "dropRequest" => F = "requests") /\ (j.at = "disallow" => F = "config")
        BY <1>7, FileOfIs
      <3> QED
        BY <1>3, <1>7, <2>1, <3>1, <3>2 DEF Knows
    <2> QED
      BY <1>1, <1>4, <1>9, <2>2, <2>3, <2>4, ListStep DEF m
  <1>11. CASE NoSave(j, k, f, new) /\ m = Move(k, After(k))
    <2>1. m.copy = None /\ m.at = After(k)
      BY <1>3, <1>11, MoveIs
    <2>2. m.at # "idle" => m.op = j.op /\ m.device = k.device /\ m.list = k.list /\ m.stale = k.stale
                           /\ <<j.at, m.at>> \in Ways(j.op)
      BY <1>1, <1>3, <1>11, <2>1, MoveIs, GoesOn
    <2>3. j.at \notin {"recordRequest", "upsertDevice", "dropDevice"}
      BY <1>11 DEF NoSave, Rewrites, Issuing
    <2>4. j.at \in {"allow", "dropRequest", "disallow"} => new = f
      BY <1>11 DEF NoSave
    <2>5. Minds(t)
      BY <1>7, <2>3 DEF Minds
    <2>6. \A G \in Lists : ~Holds(m, G)
      BY <2>1 DEF Holds, Copies
    <2>7. Knows(j) => Knows(m)
      <3>1. (j.at = "dropRequest" => F = "requests") /\ (j.at \in {"allow", "disallow"} => F = "config")
        BY <1>7, FileOfIs
      <3>2. m.at # "disallow"
        BY <1>1, <2>2, <2>3, WaysSteps
      <3>3. ASSUME Knows(j), m.op \in {"approve", "delete"}, m.at \in {"dropRequest", "sync"}, "config" \notin m.stale
            PROVE  m.list = files.config
        <4>1. m.op = j.op /\ m.list = k.list /\ m.stale = k.stale /\ <<j.at, m.at>> \in Ways(j.op)
          BY <2>2, <3>3
        <4>2. j.at \in {"allow", "dropRequest", "disallow"}
          <5>1. m.op = "approve" /\ m.at = "dropRequest" => j.at = "allow"
            BY <1>1, <4>1, WaysSteps
          <5>2. m.at = "sync" => j.at \in {"dropRequest", "disallow"}
            BY <1>1, <4>1, WaysSteps
          <5>3. j.op = "delete" => m.at # "dropRequest"
            BY <4>1 DEF Ways
          <5> QED
            BY <3>3, <4>1, <5>1, <5>2, <5>3
        <4>3. CASE F = "config"
          BY <1>3, <1>7, <2>4, <4>1, <4>2, <4>3
        <4>4. CASE F # "config"
          BY <1>3, <3>1, <3>3, <4>1, <4>2, <4>4 DEF Knows
        <4> QED
          BY <4>3, <4>4
      <3> QED
        BY <3>2, <3>3 DEF Knows
    <2> QED
      BY <1>1, <1>4, <1>9, <2>5, <2>6, <2>7, ListStep DEF m
  <1> QED
    BY <1>10, <1>11

LEMMA ListSave ==
  ASSUME Types, ListInv, NEW t \in Threads, Save(t)
  PROVE  ListInv'
  <1> DEFINE j == job[t]
             F == FileOf(j.at)
             m == job'[t]
             d == j.device
  <1>1. /\ F \in Files /\ j.copy # None /\ j.op \in Ops /\ JobOK(j, issued) /\ m = Move(j, After(j))
        /\ \A o \in Threads \ {t} :
             /\ Same(job[o], job'[o])
             /\ j.copy # files[F] =>
                  /\ FileOf(job[o].at) = F /\ job[o].copy # None => F \in job'[o].stale
                  /\ F = "config" /\ job[o].op \in {"approve", "delete"} /\ job[o].at \in {"dropRequest", "sync"}
                       => F \in job'[o].stale
                  /\ j.at = "upsertDevice" /\ job[o].at = "disallow" /\ job[o].device = j.device => F \in job'[o].stale
        /\ files'[F] = j.copy /\ \A G \in Files \ {F} : files'[G] = files[G]
    BY SaveIs
  <1>2. /\ lost' = lost \cup j.stale /\ edited' = (edited \/ j.at = "setAllow") /\ UNCHANGED <<relay, gate, strangers>>
        /\ refused' = CASE j.at = "recordRequest" -> refused \ {d}
                        [] j.op = "reject" -> refused \cup {d}
                        [] OTHER -> refused
    BY DEF Save
  <1>3. DOMAIN j = Fields /\ OnPlan(j) /\ (j.at \in Joins \cup Leaves => j.on)
        /\ (j.at \in {"allow", "disallow"} => j.list = j.copy)
        /\ (j.op = "approve" /\ j.at = "dropRequest" => d \in j.list)
    BY <1>1 DEF JobOK, Joins, Leaves, Seeks, Copies
  <1>4. F # "none" /\ j = job[t] /\ {"devices", "config", "requests"} \subseteq Files /\ j.at # "sync"
    BY <1>1 DEF Files, FileOf
  <1>5. m.copy = None /\ m.at = After(j)
        /\ (m.at # "idle" => m.op = j.op /\ m.device = d /\ m.list = j.list /\ m.stale = j.stale)
    <2>1. m = Move(j, After(j)) /\ DOMAIN j = Fields
      BY <1>1, <1>3
    <2> HIDE DEF j, m
    <2> QED
      BY <2>1, MoveIs DEF d
  <1>6. After(j) = "idle" \/ <<j.at, After(j)>> \in Ways(j.op)
    BY <1>1, GoesOn
  <1>7. /\ j.at = "upsertDevice" => After(j) = "recordRequest"
        /\ j.at = "disallow" => After(j) = "sync"
    <2>1. j.op \in Ops /\ (j.at \in {"upsertDevice", "disallow"} => j.on)
      BY <1>1, <1>3 DEF Joins, Leaves
    <2>2. (j.at = "upsertDevice" => j.op = "register") /\ (j.at = "disallow" => j.op = "delete")
      BY <1>3, Where
    <2> HIDE DEF j
    <2>3. (j.op = "register" => <<"upsertDevice", "recordRequest">> \in Ways(j.op))
          /\ (j.op = "delete" => <<"disallow", "sync">> \in Ways(j.op))
      BY DEF Ways
    <2> QED
      BY <2>1, <2>2, <2>3, GoesOn
  <1>8. (F = "devices" <=> j.at \in {"upsertDevice", "dropDevice", "seen"})
        /\ (F = "config" <=> j.at \in {"allow", "disallow", "setAllow"})
        /\ (F = "requests" <=> j.at \in {"recordRequest", "dropRequest", "noteOther"})
    BY FileOfIs
  <1>9. /\ j.at \in {"recordRequest", "upsertDevice"} => j.op = "register"
        /\ j.at = "dropRequest" => j.op \in {"approve", "reject"}
        /\ j.op = "reject" => j.at = "dropRequest"
        /\ j.at \in {"disallow", "dropDevice"} => j.op = "delete"
        /\ j.at = "allow" => j.op = "approve"
    <2>1. j.op = "reject" => j.at = "dropRequest"
      BY <1>3, StepSets DEF OnPlan
    <2> QED
      BY <1>3, <2>1, Where
  <1>10. \A o \in Threads \ {t} : job'[o].op = job[o].op /\ job'[o].at = job[o].at /\ job'[o].device = job[o].device
           /\ job'[o].list = job[o].list /\ job'[o].copy = job[o].copy /\ job[o].stale \subseteq job'[o].stale
    BY <1>1 DEF Same
  <1> HIDE DEF j, F, m, d
  <1>11. CopiesAlter'
    <2> SUFFICES ASSUME NEW o \in Threads, NEW G \in Lists \ lost', Holds(job'[o], G)
                 PROVE  Alters(job'[o], G, files'[G], job'[o].copy)
      BY DEF CopiesAlter
    <2>1. o # t
      BY <1>5 DEF Holds, Copies, m
    <2>2. Holds(job[o], G)
      BY <1>10, <2>1 DEF Holds, Copies
    <2>3. files'[G] = files[G]
      <3>1. CASE G = F
        <4>1. FileOf(job[o].at) = F /\ job[o].copy # None /\ F \notin job'[o].stale
          BY <2>2, <3>1 DEF Holds, Copies
        <4> QED
          BY <1>1, <2>1, <3>1, <4>1
      <3> QED
        BY <1>1, <1>4, <3>1 DEF Lists
    <2>4. Alters(job[o], G, files[G], job[o].copy)
      BY <1>2, <2>2 DEF ListInv, CopiesAlter
    <2> QED
      BY <1>10, <2>1, <2>3, <2>4 DEF Alters
  <1>12. ASSUME lost' = {}, ~edited' PROVE (Listed /\ (\A o \in Threads : Knows(job[o])) /\ Heeds /\ strangers = {})'
    <2>1. lost = {} /\ ~edited /\ j.stale = {} /\ j.at # "setAllow"
      BY <1>2, <1>12
    <2>2. Listed /\ (\A o \in Threads : Knows(job[o])) /\ Heeds /\ strangers = {}
      BY <2>1 DEF ListInv
    <2>3. F \in Lists => Alters(j, F, files[F], files'[F])
      BY <1>1, <1>4, <2>1 DEF ListInv, CopiesAlter, Holds, Copies, F
    <2>4. /\ j.at = "upsertDevice" => Registered' = Registered \cup {d}
          /\ j.at = "dropDevice" => Registered' = Registered \ {d}
          /\ j.at \notin {"upsertDevice", "dropDevice"} => Registered' = Registered
      <3>1. F = "devices" => Registered = Who(F, files[F]) /\ Registered' = Who(F, files'[F])
        BY DEF Registered, Who
      <3>2. F # "devices" => Registered' = Registered
        BY <1>1, <1>4 DEF Registered
      <3> QED
        BY <1>8, <2>3, <3>1, <3>2 DEF Alters, Joins, Leaves, Lists, d
    <2>5. /\ j.at = "allow" => files'.config = files.config \cup {d}
          /\ j.at = "disallow" => files'.config = files.config \ {d}
          /\ j.at \notin {"allow", "disallow"} => files'.config = files.config
      <3>1. F = "config" => files.config = Who(F, files[F]) /\ files'.config = Who(F, files'[F])
        BY DEF Who
      <3>2. F # "config" => files'.config = files.config
        BY <1>1, <1>4
      <3> QED
        BY <1>8, <2>1, <2>3, <3>1, <3>2 DEF Alters, Joins, Leaves, Lists, d
    <2>6. /\ j.at = "recordRequest" => files'.requests = files.requests \cup {d}
          /\ j.at = "dropRequest" => files'.requests = files.requests \ {d}
          /\ j.at \notin {"recordRequest", "dropRequest"} => files'.requests = files.requests
      <3>1. F = "requests" => files.requests = Who(F, files[F]) /\ files'.requests = Who(F, files'[F])
        BY DEF Who
      <3>2. F # "requests" => files'.requests = files.requests
        BY <1>1, <1>4
      <3> QED
        BY <1>8, <2>1, <2>3, <3>1, <3>2 DEF Alters, Joins, Leaves, Lists, d
    <2>7. Knows(j)
      BY <1>4, <2>2
    <2>8. j.at = "disallow" => d \notin Registered
      BY <2>1, <2>7 DEF Knows, d
    <2>9. j.at = "dropRequest" /\ j.op = "approve" => d \in files.config
      BY <1>3, <2>1, <2>7 DEF Knows
    <2>10. /\ Awaited \ {d} \subseteq Awaited'
           /\ j.at # "recordRequest" => Awaited \subseteq Awaited'
           /\ m.at = "recordRequest" => d \in Awaited'
           /\ Leaving \subseteq Leaving'
           /\ m.at = "sync" /\ m.op = "delete" => d \in Leaving'
      <3>1. \A o \in Threads : job[o].at = "recordRequest" => o = t \/ job[o].device \in Awaited'
        BY <1>10 DEF Awaited
      <3>2. m.at = "recordRequest" => d \in Awaited'
        <4>1. m.at = "recordRequest" => job'[t].at = "recordRequest" /\ job'[t].device = d
          BY <1>5 DEF m
        <4> QED
          BY <4>1 DEF Awaited
      <3>3. \A o \in Threads : job[o].op = "delete" /\ job[o].at = "sync" => job[o].device \in Leaving'
        <4>1. \A o \in Threads : job[o].at = "sync" => o # t
          BY <1>4
        <4> QED
          BY <1>10, <4>1 DEF Leaving
      <3>4. m.at = "sync" /\ m.op = "delete" => d \in Leaving'
        <4>1. m.at = "sync" /\ m.op = "delete" => job'[t].at = "sync" /\ job'[t].op = "delete" /\ job'[t].device = d
          BY <1>5 DEF m
        <4> QED
          BY <4>1 DEF Leaving
      <3>5. \A x \in Awaited : x \in Awaited' \/ (j.at = "recordRequest" /\ x = d)
        BY <1>4, <3>1 DEF Awaited, d
      <3>6. Leaving \subseteq Leaving'
        BY <3>3 DEF Leaving
      <3> QED
        BY <3>2, <3>4, <3>5, <3>6
    <2>11. Listed'
      <3>1. Registered \subseteq files.config \cup files.requests \cup refused \cup Awaited
        BY <2>2 DEF Listed
      <3>2. Registered' \subseteq files'.config \cup files'.requests \cup refused' \cup Awaited'
        <4>1. CASE j.at = "upsertDevice"
          <5>1. m.at = "recordRequest" /\ refused' = refused
            BY <1>2, <1>5, <1>7, <1>9, <4>1
          <5> QED
            BY <2>4, <2>5, <2>6, <2>10, <3>1, <4>1, <5>1
        <4>2. CASE j.at \in {"allow", "disallow", "dropDevice"}
          <5>1. refused' = refused
            BY <1>2, <1>9, <4>2
          <5> QED
            BY <2>4, <2>5, <2>6, <2>8, <2>10, <3>1, <4>2, <5>1
        <4>3. CASE j.at = "recordRequest"
          <5>1. refused' = refused \ {d}
            BY <1>2, <1>9, <4>3
          <5> QED
            BY <2>4, <2>5, <2>6, <2>10, <3>1, <4>3, <5>1
        <4>4. CASE j.at = "dropRequest"
          <5>1. (j.op = "approve" /\ refused' = refused) \/ refused' = refused \cup {d}
            BY <1>2, <1>9, <4>4
          <5> QED
            BY <2>4, <2>5, <2>6, <2>9, <2>10, <3>1, <4>4, <5>1
        <4>5. CASE j.at \notin {"upsertDevice", "allow", "disallow", "dropDevice", "recordRequest", "dropRequest"}
          <5>1. refused' = refused
            BY <1>2, <1>9, <4>5
          <5> QED
            BY <2>4, <2>5, <2>6, <2>10, <3>1, <4>5, <5>1
        <4> QED
          BY <4>1, <4>2, <4>3, <4>4, <4>5
      <3> QED
        BY <3>2 DEF Listed
    <2>12. ASSUME NEW o \in Threads \ {t}
           PROVE  /\ job[o].op \in {"approve", "delete"} /\ job[o].at \in {"dropRequest", "sync"} /\ "config" \notin job'[o].stale
                       => job[o].list = files'.config
                  /\ job[o].at = "disallow" /\ "devices" \notin job'[o].stale => job[o].device \notin Registered'
      <3>1. Knows(job[o]) /\ job[o].stale \subseteq job'[o].stale
        BY <1>10, <2>2
      <3>2. ASSUME job[o].op \in {"approve", "delete"}, job[o].at \in {"dropRequest", "sync"}, "config" \notin job'[o].stale
            PROVE  job[o].list = files'.config
        <4>1. job[o].list = files.config
          BY <3>1, <3>2 DEF Knows
        <4>2. files'.config = files.config
          <5>1. F = "config" => j.copy = files[F]
            BY <1>1, <3>2
          <5> QED
            BY <1>1, <1>4, <5>1
        <4> QED
          BY <4>1, <4>2
      <3>3. ASSUME job[o].at = "disallow", "devices" \notin job'[o].stale PROVE job[o].device \notin Registered'
        <4>1. job[o].device \notin Registered
          BY <3>1, <3>3 DEF Knows
        <4>2. CASE j.at = "upsertDevice" /\ job[o].device = d
          <5>1. F = "devices"
            BY <1>8, <4>2
          <5>2. j.copy = files[F]
            BY <1>1, <3>3, <4>2, <5>1 DEF d
          <5>3. Registered' = Registered
            BY <1>1, <5>1, <5>2 DEF Registered
          <5> QED
            BY <4>1, <5>3
        <4> QED
          BY <2>4, <4>1, <4>2
      <3> QED
        BY <3>2, <3>3
    <2>13. /\ m.op \in {"approve", "delete"} /\ m.at \in {"dropRequest", "sync"} => m.list = files'.config
           /\ m.at = "disallow" => m.device \notin Registered'
      <3>1. m.at # "idle" => <<j.at, m.at>> \in Ways(j.op) /\ m.op = j.op /\ m.device = d /\ m.list = j.list
        BY <1>5, <1>6
      <3>2. ASSUME m.op \in {"approve", "delete"}, m.at \in {"dropRequest", "sync"} PROVE m.list = files'.config
        <4>1. m.op = j.op /\ m.list = j.list /\ <<j.at, m.at>> \in Ways(j.op)
          BY <3>1, <3>2
        <4>2. j.at \in {"allow", "dropRequest", "disallow"}
          <5>1. m.op = "approve" /\ m.at = "dropRequest" => j.at = "allow"
            BY <1>1, <4>1, WaysSteps
          <5>2. m.at = "sync" => j.at \in {"dropRequest", "disallow"}
            BY <1>1, <4>1, WaysSteps
          <5>3. j.op = "delete" => m.at # "dropRequest"
            BY <4>1 DEF Ways
          <5> QED
            BY <3>2, <4>1, <5>1, <5>2, <5>3
        <4>3. CASE j.at \in {"allow", "disallow"}
          BY <1>1, <1>3, <1>8, <4>1, <4>3
        <4>4. CASE j.at = "dropRequest"
          BY <2>1, <2>5, <2>7, <3>2, <4>1, <4>4 DEF Knows
        <4> QED
          BY <4>2, <4>3, <4>4
      <3>3. ASSUME m.at = "disallow" PROVE m.device \notin Registered'
        <4>1. m.device = d /\ <<j.at, "disallow">> \in Ways(j.op)
          BY <3>1, <3>3
        <4>2. j.at = "dropDevice"
          BY <1>1, <4>1, WaysSteps
        <4> QED
          BY <2>4, <4>1, <4>2
      <3> QED
        BY <3>2, <3>3
    <2>14. (\A o \in Threads : Knows(job[o]))'
      BY <1>10, <2>12, <2>13 DEF Knows, m
    <2>15. Heeds'
      <3>1. Heeded' = Heeded
        BY <1>2 DEF Heeded
      <3>2. j.at = "disallow" => m.at = "sync" /\ m.op = "delete"
        BY <1>5, <1>7, <1>9
      <3> QED
        BY <2>2, <2>5, <2>10, <3>1, <3>2 DEF Heeds
    <2> QED
      BY <1>2, <2>2, <2>11, <2>14, <2>15
  <1> QED
    BY <1>2, <1>11, <1>12 DEF ListInv

LEMMA ListAside ==
  ASSUME Types, ListInv, NEW t \in Threads, Aside(t)
  PROVE  ListInv'
  <1> DEFINE j == job[t]
  <1>1. PICK m : job' = [job EXCEPT ![t] = m] /\ m.copy = None /\ Apart(m)
    BY AsideIs
  <1>2. /\ j.at \in Asides /\ UNCHANGED <<files, edited, refused, strangers>> /\ lost \subseteq lost'
    BY AsideIs
  <1>3. job'[t] = m /\ \A o \in Threads : o = t \/ job'[o] = job[o]
    BY <1>1 DEF Types
  <1>4. Knows(m) /\ \A F \in Lists : ~Holds(m, F)
    BY <1>1 DEF Apart, Knows, Holds, Copies
  <1>5. ASSUME j.at # "sync", UNCHANGED <<relay, gate>> PROVE ListInv'
    <2>1. Minds(t)
      BY <1>2, <1>5 DEF Minds, Asides
    <2> QED
      BY <1>2, <1>3, <1>4, <1>5, <2>1, ListStep
  <1>6. CASE Token(t) \/ Known(t) \/ Allowed(t) \/ Relay(t)
    <2>1. j.at # "sync" /\ UNCHANGED <<relay, gate>>
      BY <1>6 DEF Token, Known, Allowed, Relay, OnlyJob
    <2> QED
      BY <1>5, <2>1
  <1>7. Registered' = Registered
    BY <1>2 DEF Registered
  <1>8. CopiesAlter'
    <2> SUFFICES ASSUME NEW o \in Threads, NEW F \in Lists \ lost', Holds(job'[o], F)
                 PROVE  Alters(job'[o], F, files'[F], job'[o].copy)
      BY DEF CopiesAlter
    <2> QED
      BY <1>2, <1>3, <1>4 DEF ListInv, CopiesAlter
  <1>9. \A o \in Threads : Knows(job[o]) => Knows(job'[o])
    BY <1>3, <1>4
  <1>10. (\A o \in Threads : Knows(job[o])) => (\A o \in Threads : Knows(job[o]))'
    BY <1>2, <1>7, <1>9 DEF Knows
  <1>11. Listed => Listed'
    <2>1. \A o \in Threads : job[o].at = "recordRequest" => job'[o] = job[o]
      BY <1>2, <1>3 DEF Asides
    <2>2. Awaited \subseteq Awaited'
      BY <2>1 DEF Awaited
    <2> QED
      BY <1>2, <1>7, <2>2 DEF Listed
  <1>12. CASE Sync(t)
    <2>1. relay' = j.list /\ gate' = gate /\ lost' = lost \cup j.stale /\ j.at = "sync"
      BY <1>12 DEF Sync
    <2>2. j.op \in {"approve", "delete"}
      BY <2>1, Where DEF Types, JobOK
    <2>3. ASSUME lost' = {}, ~edited' PROVE (Listed /\ (\A o \in Threads : Knows(job[o])) /\ Heeds /\ strangers = {})'
      <3>1. lost = {} /\ j.stale = {} /\ ~edited
        BY <1>2, <2>1, <2>3
      <3>2. Listed /\ (\A o \in Threads : Knows(job[o])) /\ strangers = {}
        BY <3>1 DEF ListInv
      <3>3. j.list = files.config
        BY <2>1, <2>2, <3>1, <3>2 DEF Knows
      <3>4. files.config \subseteq Devices
        BY SortIs DEF Types, Whole, Files
      <3>5. relay' = files'.config /\ relay' # None
        BY <1>2, <2>1, <3>3, <3>4, NoneAssumption
      <3> QED
        BY <1>2, <1>10, <1>11, <3>2, <3>5 DEF Heeds, Heeded
    <2> QED
      BY <1>8, <2>1, <2>3 DEF ListInv
  <1>13. CASE Apply(t)
    <2>1. j.at = "apply" /\ relay' = relay
          /\ gate' = CASE Restarts(j) -> [up |-> TRUE, allow |-> files.config, signalled |-> FALSE]
                       [] Signals(j) -> [gate EXCEPT !.signalled = TRUE]
                       [] OTHER -> gate
      BY <1>13 DEF Apply
    <2>2. files.config \subseteq Devices
      BY SortIs DEF Types, Whole, Files
    <2>3. gate \in [up : BOOLEAN, allow : SUBSET Devices, signalled : BOOLEAN]
      BY DEF ListInv
    <2>4. gate' \in [up : BOOLEAN, allow : SUBSET Devices, signalled : BOOLEAN] /\ gate'.allow \in {gate.allow, files.config}
      <3>1. gate' = [up |-> TRUE, allow |-> files.config, signalled |-> FALSE]
            \/ gate' = [gate EXCEPT !.signalled = TRUE] \/ gate' = gate
        BY <2>1 DEF Signals
      <3>2. CASE gate' = [gate EXCEPT !.signalled = TRUE]
        BY <2>3, <3>2
      <3>3. CASE gate' = [up |-> TRUE, allow |-> files.config, signalled |-> FALSE]
        BY <2>2, <3>3
      <3> QED
        BY <2>3, <3>1, <3>2, <3>3
    <2>5. Leaving \subseteq Leaving'
      <3>1. \A o \in Threads : job[o].at = "sync" => job'[o] = job[o]
        BY <1>3, <2>1
      <3> QED
        BY <3>1 DEF Leaving
    <2>6. Heeds => Heeds'
      BY <1>2, <2>1, <2>4, <2>5 DEF Heeds, Heeded
    <2> QED
      BY <1>2, <1>8, <1>10, <1>11, <2>4, <2>6 DEF ListInv
  <1> QED
    BY <1>6, <1>12, <1>13 DEF Aside

\* The gateway's steps and the deadlines.
LEMMA ListGateway ==
  ASSUME Types, ListInv, Reload \/ Poll \/ Halt \/ Start \/ (\E n \in Ids : Deadline(n)) \/ UNCHANGED vars
  PROVE  ListInv'
  <1>1. UNCHANGED <<files, relay, job, refused, edited, lost>>
    BY DEF Reload, Poll, Halt, Start, Deadline, vars, history
  <1>2. gate \in [up : BOOLEAN, allow : SUBSET Devices, signalled : BOOLEAN]
    BY DEF ListInv
  <1>3. files.config \subseteq Devices
    BY SortIs DEF Types, Whole, Files
  <1>4. /\ gate' \in [up : BOOLEAN, allow : SUBSET Devices, signalled : BOOLEAN]
        /\ gate'.allow \in {gate.allow, files.config, Heeded}
    <2>1. Heeded = gate.allow \/ Heeded \subseteq Devices
      BY DEF Heeded, Types
    <2>2. CASE Reload
      BY <1>2, <1>3, <2>2 DEF Reload
    <2>3. CASE Poll
      <3>1. gate' = [gate EXCEPT !.allow = Heeded]
        BY <1>2, <2>3 DEF Poll, Heeded
      <3> QED
        BY <1>2, <2>1, <3>1
    <2>4. CASE Halt
      BY <1>2, <2>4 DEF Halt
    <2>5. CASE Start
      BY <1>2, <1>3, <2>5 DEF Start
    <2>6. CASE (\E n \in Ids : Deadline(n)) \/ UNCHANGED vars
      BY <1>2, <2>6 DEF Deadline, vars
    <2> QED
      BY <2>2, <2>3, <2>4, <2>5, <2>6
  <1>5. CopiesAlter'
    BY <1>1 DEF ListInv, CopiesAlter
  <1>6. Heeds => Heeds'
    <2>1. Leaving' = Leaving
      BY <1>1 DEF Leaving
    <2>2. Heeded' \in {Heeded, files.config}
      BY <1>1, <1>4 DEF Heeded
    <2> QED
      BY <1>1, <2>1, <2>2 DEF Heeds
  <1>7. Listed' = Listed /\ (\A t \in Threads : Knows(job[t])) = (\A t \in Threads : Knows(job[t]))'
    BY <1>1 DEF Listed, Registered, Awaited, Knows
  <1>8. Heeds => strangers' = strangers
    <2>1. CASE Poll
      <3>1. gate'.allow = Heeded
        <4>1. gate' = [gate EXCEPT !.allow = Heeded]
          BY <1>2, <2>1 DEF Poll, Heeded
        <4> QED
          BY <1>2, <4>1
      <3>2. Quiet => Leaving = {}
        BY IdleIs DEF Quiet, Leaving
      <3> QED
        BY <2>1, <3>1, <3>2 DEF Poll, Heeds
    <2>2. CASE ~Poll
      BY <2>2 DEF Reload, Halt, Start, Deadline, vars, history
    <2> QED
      BY <2>1, <2>2
  <1> QED
    BY <1>1, <1>4, <1>5, <1>6, <1>7, <1>8 DEF ListInv

LEMMA ListBreaks ==
  ASSUME Types, ListInv, NEW t \in Threads, Breaks(t)
  PROVE  ListInv'
  <1>1. /\ job[t].at = "noteOther" /\ job'[t] = Idle /\ \A o \in Threads : o = t \/ job'[o] = job[o]
        /\ UNCHANGED <<relay, refused, strangers, edited>> /\ lost \subseteq lost'
        /\ files'.devices = files.devices /\ files'.config = files.config
        /\ files'.requests = files.requests \/ "requests" \in lost'
    BY BreaksIs DEF Files
  <1>2. gate \in [up : BOOLEAN, allow : SUBSET Devices, signalled : BOOLEAN]
    BY DEF ListInv
  <1>3. gate' \in [up : BOOLEAN, allow : SUBSET Devices, signalled : BOOLEAN] /\ gate'.allow = gate.allow
    BY <1>2 DEF Breaks
  <1>4. Idle.copy = None /\ Idle.at = "idle"
    BY IdleIs
  <1>5. CopiesAlter'
    <2> SUFFICES ASSUME NEW o \in Threads, NEW F \in Lists \ lost', Holds(job'[o], F)
                 PROVE  Alters(job'[o], F, files'[F], job'[o].copy)
      BY DEF CopiesAlter
    <2>1. job'[o] = job[o] /\ F \in Lists \ lost /\ files'[F] = files[F]
      BY <1>1, <1>4 DEF Holds, Copies, Lists
    <2> QED
      BY <2>1 DEF ListInv, CopiesAlter
  <1>6. ASSUME lost' = {}, ~edited' PROVE (Listed /\ (\A o \in Threads : Knows(job[o])) /\ Heeds /\ strangers = {})'
    <2>1. Listed /\ (\A o \in Threads : Knows(job[o])) /\ Heeds /\ strangers = {}
      BY <1>1, <1>6 DEF ListInv
    <2>2. Registered' = Registered /\ Heeded' = Heeded /\ files'.requests = files.requests
      BY <1>1, <1>3, <1>6 DEF Registered, Heeded
    <2>3. \A o \in Threads : job[o].at \in {"recordRequest", "sync"} => job'[o] = job[o]
      BY <1>1
    <2>4. Awaited \subseteq Awaited' /\ Leaving \subseteq Leaving'
      BY <2>3 DEF Awaited, Leaving
    <2>5. \A o \in Threads : Knows(job'[o])
      BY <1>1, <1>4, <2>1 DEF Knows
    <2>6. (\A o \in Threads : Knows(job[o]))'
      BY <1>1, <2>2, <2>5 DEF Knows
    <2> QED
      BY <1>1, <2>1, <2>2, <2>4, <2>6 DEF Listed, Heeds
  <1> QED
    BY <1>3, <1>5, <1>6 DEF ListInv

LEMMA ListNext ==
  ASSUME Types, ListInv, [Next]_vars
  PROVE  ListInv'
  BY ListBegin, ListLoad, ListSave, ListAside, ListBreaks, ListGateway DEF Next, Aside

\* When no request is under way a paired device is approved, waits or was rejected, for
\* any number of threads and devices, unless two writers of a list, one of them perhaps the
\* gateway, have overwritten or half read each other's or the list was edited.
THEOREM AllAccountedFor == Spec => []NobodyInLimbo
  <1>1. Init => Types /\ ListInv
    BY TypesInit, ListInit
  <1>2. Types /\ ListInv /\ [Next]_vars => (Types /\ ListInv)'
    BY TypesNext, ListNext
  <1>3. ListInv => NobodyInLimbo
    <2>1. Quiet => Awaited = {}
      BY IdleIs DEF Quiet, Awaited
    <2> QED
      BY <2>1 DEF ListInv, Listed, NobodyInLimbo
  <1> QED
    BY <1>1, <1>2, <1>3, PTL DEF Spec

\* When no request is under way the gateway accepts only devices on the list of
\* config.json, whether it has started, was signalled or reads the list in the relay
\* directory, unless the list was edited or requests have overwritten each other's.
THEOREM OnlyListedAccepted == Spec => []NoStrangers
  <1>1. Init => Types /\ ListInv
    BY TypesInit, ListInit
  <1>2. Types /\ ListInv /\ [Next]_vars => (Types /\ ListInv)'
    BY TypesNext, ListNext
  <1>3. ListInv => NoStrangers
    BY DEF ListInv, NoStrangers
  <1> QED
    BY <1>1, <1>2, <1>3, PTL DEF Spec
===============================================================================
