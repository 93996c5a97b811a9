---------------------------- MODULE AccountsProofs ----------------------------
(***************************************************************************)
(* The users file, the sessions file and the routes, however many threads  *)
(* of the admin server serve requests.                                     *)
(*                                                                         *)
(* EndedStayOut: as long as nobody overwrites sessions.json with a stale   *)
(* copy, a session whose revocation was saved stays revoked or gone.  The  *)
(* argument: a copy that is not stale was made from the file as it still   *)
(* is, and no step revives a session: it revokes some, drops some or adds  *)
(* one whose number nobody has used.  So what is dead in the file is dead  *)
(* in every such copy, but for the new session of a login.                 *)
(*                                                                         *)
(* AccountsSound: as long as no save of the users file was decided on an   *)
(* older state, there is an active owner and no name is taken twice.  The  *)
(* argument: what a request knows is current until another thread saves    *)
(* what contradicts it, and from then on the request is stale.  So the one *)
(* that saves a record has checked it against the file it replaces.        *)
(*                                                                         *)
(* NewPasswordEndsSessions: a live session matches the password of its     *)
(* user, or the request that changed the password has yet to revoke it.    *)
(* The argument: copies of the sessions file that are not stale keep live  *)
(* sessions as they are, or leave out those of the user, and a login that  *)
(* is not stale has the password of the file.                              *)
(*                                                                         *)
(* OperationsAuthorised, for every path: the permission that the first     *)
(* list of tests asks for covers the operation that the second one ends    *)
(* in - but for the switch of a connector under another spelling, which    *)
(* the first list does not know - and the role that the gate has compared  *)
(* with it is still in hand.                                               *)
(***************************************************************************)
EXTENDS AdminAccounts, FiniteSetTheorems, TLAPS

IsSession(r) == DOMAIN r = {"user", "pass", "revoked"}
IsJob(j) == DOMAIN j = {"op", "at", "sid", "target", "role", "status", "id", "user", "copy", "stale"}

\* A sessions file with at most n sessions.
Book(f, n) ==
    /\ f = [s \in Sids |-> f[s]]
    /\ \A s \in Sids : IF f[s] = None THEN TRUE ELSE s <= n /\ IsSession(f[s])

Dead(f, s) == f[s] = None \/ f[s].revoked

\* A job that is about to save the sessions file; the session a login adds in its copy.
Writes(j) == j.at \in SessionSteps /\ j.copy # None
Adds(j) == IF j.at = "issue" THEN {j.sid} ELSE {}

Shape ==
    /\ issued \in 0..MaxSessions /\ ended \subseteq 1..issued
    /\ Book(sessions, issued)
    /\ job = [t \in Threads |-> job[t]]
    /\ \A t \in Threads : IsJob(job[t]) /\ (Writes(job[t]) => Book(job[t].copy, issued))

\* The session of a login under way is in nobody else's file.
NewAlone ==
    \A t \in Threads : Writes(job[t]) =>
        \A s \in Adds(job[t]) :
            /\ s \in 1..issued \ ended /\ sessions[s] = None
            /\ \A o \in Threads \ {t} : Writes(job[o]) => job[o].copy[s] = None

\* A copy that is not stale revives nobody.
FreshIsHarmless ==
    \A t \in Threads : Writes(job[t]) /\ "sessions" \notin job[t].stale =>
        \A s \in Sids \ Adds(job[t]) : Dead(sessions, s) => Dead(job[t].copy, s)

EndedAreDead == "sessions" \notin lost => \A s \in ended : Dead(sessions, s)

IInv == Shape /\ NewAlone /\ FreshIsHarmless /\ EndedAreDead

files == <<sessions, ended, lost>>

----------------------------------------------------------------------------
\* Steps that leave the sessions file alone.

LEMMA IdleIsJob == IsJob(Idle) /\ ~Writes(Idle)
  BY DEF IsJob, Idle, Writes, SessionSteps

LEMMA StepIsJob ==
  ASSUME NEW j, IsJob(j), NEW at
  PROVE  IsJob(Step(j, at)) /\ ~Writes(Step(j, at))
  <1>1. CASE at = "idle"
    BY <1>1, IdleIsJob DEF Step
  <1>2. CASE at # "idle"
    <2>1. Step(j, at) = [j EXCEPT !.at = at, !.copy = None]
      BY <1>2 DEF Step
    <2>2. Step(j, at).copy = None
      BY <2>1 DEF IsJob
    <2> QED
      BY <2>1, <2>2 DEF IsJob, Writes
  <1> QED
    BY <1>1, <1>2

LEMMA WithIsJob ==
  ASSUME NEW j, IsJob(j), ~Writes(j), NEW u, NEW r
  PROVE  IsJob(With(j, u, r)) /\ ~Writes(With(j, u, r))
  BY DEF IsJob, With, Writes

\* A request before its first step.
Blank(j) == IsJob(j) /\ j.copy = None

\* What a request that comes with a session asks for.
Asks(op, s, n, x, y) ==
    /\ s \in 0..issued /\ x \in Roles \cup {None} /\ y \in Statuses \cup {None}
    /\ y # None => op \in {"create", "status"}
    /\ x # None => op \in {"create", "role"}
    /\ op = "create" => n \in Names /\ s \in 1..issued /\ x # None /\ y # None
    /\ op = "visit" => n[1] \in Methods

LEMMA RequestKinds ==
  ASSUME NEW r \in Requests
  PROVE  \/ \E op \in {"login", "bootstrap"}, n \in Names : r = Entry(op, n)
         \/ \E op, s, n, x, y : Asks(op, s, n, x, y) /\ r = Signed(op, s, n, x, y)
  <1>1. CASE r \in {Entry(op, n) : op \in {"login", "bootstrap"}, n \in Names}
    BY <1>1
  <1>2. CASE r \in {Signed(op, s, None, None, None) : op \in {"me", "logout", "change"}, s \in 1..issued}
    <2>1. PICK op \in {"me", "logout", "change"}, s \in 1..issued : r = Signed(op, s, None, None, None)
      BY <1>2
    <2>2. Asks(op, s, None, None, None)
      BY AccountAssumption DEF Asks
    <2> QED
      BY <2>1, <2>2, Zenon
  <1>3. CASE r \in {Signed("create", s, n, x, y) : s \in 1..issued, n \in Names, x \in Grants, y \in Statuses}
    <2>1. PICK s \in 1..issued, n \in Names, x \in Grants, y \in Statuses : r = Signed("create", s, n, x, y)
      BY <1>3
    <2>2. Asks("create", s, n, x, y)
      BY AccountAssumption DEF Asks
    <2> QED
      BY <2>1, <2>2, Zenon
  <1>4. CASE r \in {Signed("reset", s, u, None, None) : s \in 1..issued, u \in Ids}
    <2>1. PICK s \in 1..issued, u \in Ids : r = Signed("reset", s, u, None, None)
      BY <1>4
    <2>2. Asks("reset", s, u, None, None)
      BY AccountAssumption DEF Asks
    <2> QED
      BY <2>1, <2>2, Zenon
  <1>5. CASE r \in {Signed("role", s, u, x, None) : s \in 1..issued, u \in Ids, x \in Grants}
    <2>1. PICK s \in 1..issued, u \in Ids, x \in Grants : r = Signed("role", s, u, x, None)
      BY <1>5
    <2>2. Asks("role", s, u, x, None)
      BY AccountAssumption DEF Asks
    <2> QED
      BY <2>1, <2>2, Zenon
  <1>6. CASE r \in {Signed("status", s, u, None, x) : s \in 1..issued, u \in Ids, x \in Statuses}
    <2>1. PICK s \in 1..issued, u \in Ids, x \in Statuses : r = Signed("status", s, u, None, x)
      BY <1>6
    <2>2. Asks("status", s, u, None, x)
      BY AccountAssumption DEF Asks
    <2> QED
      BY <2>1, <2>2, Zenon
  <1>7. CASE r \in {Signed("visit", s, <<m, p>>, None, None) : m \in Methods, p \in Paths, s \in 0..issued}
    <2>1. PICK m \in Methods, p \in Paths, s \in 0..issued : r = Signed("visit", s, <<m, p>>, None, None)
      BY <1>7
    <2>2. Asks("visit", s, <<m, p>>, None, None)
      BY AccountAssumption DEF Asks
    <2> QED
      BY <2>1, <2>2, Zenon
  <1> QED
    BY <1>1, <1>2, <1>3, <1>4, <1>5, <1>6, <1>7 DEF Requests

LEMMA RequestIsJob ==
  ASSUME NEW r \in Requests
  PROVE  IsJob(r) /\ ~Writes(r)
  <1>1. \A op, n : Blank(Entry(op, n))
    BY DEF Entry, Idle, IsJob, Blank
  <1>2. \A op, s, n, x, y : Blank(Signed(op, s, n, x, y))
    BY DEF Signed, Idle, IsJob, Blank
  <1>3. Blank(r)
    BY <1>1, <1>2, RequestKinds
  <1> QED
    BY <1>3 DEF Blank, Writes

\* A step after which t holds no copy of the sessions file.
LEMMA Aside ==
  ASSUME IInv, NEW t \in Threads, NEW j, IsJob(j), ~Writes(j), Become(t, j), UNCHANGED files,
         issued' \in issued..MaxSessions
  PROVE  IInv'
  <1>1. \A o \in Threads : job'[o] = IF o = t THEN j ELSE job[o]
    BY DEF IInv, Shape, Become
  <1>2. job' = [o \in Threads |-> job'[o]]
    BY DEF IInv, Shape, Become
  <1>3. \A o \in Threads : Writes(job'[o]) => o # t /\ job'[o] = job[o] /\ Writes(job[o])
    BY <1>1
  <1>4. Shape'
    <2>1. \A f : Book(f, issued) => Book(f, issued')
      BY AccountAssumption DEF IInv, Shape, Book, Sids
    <2>2. issued' \in 0..MaxSessions /\ ended' \subseteq 1..issued' /\ sessions' = sessions
      BY AccountAssumption DEF IInv, Shape, files
    <2>3. \A o \in Threads : IsJob(job'[o])
      BY <1>1 DEF IInv, Shape
    <2>4. \A o \in Threads : Writes(job'[o]) => Book(job'[o].copy, issued')
      BY <1>3, <2>1 DEF IInv, Shape
    <2> QED
      BY <1>2, <2>1, <2>2, <2>3, <2>4 DEF IInv, Shape, IsJob, Writes, Book
  <1>5. NewAlone'
    BY <1>1, <1>3, AccountAssumption DEF IInv, Shape, NewAlone, files, Writes, Adds
  <1>6. FreshIsHarmless'
    BY <1>1, <1>3 DEF IInv, FreshIsHarmless, files, Writes, Adds, Dead
  <1>7. EndedAreDead'
    BY DEF IInv, EndedAreDead, files, Dead
  <1> QED
    BY <1>4, <1>5, <1>6, <1>7 DEF IInv

\* A file that revives nobody and adds nobody.
Lesser(f) == /\ Book(f, issued)
             /\ \A s \in Sids : /\ sessions[s] = None => f[s] = None
                                /\ Dead(sessions, s) => Dead(f, s)

\* A step in which t makes such a copy.
LEMMA Copied ==
  ASSUME IInv, NEW t \in Threads, NEW j, IsJob(j), j.at # "issue", Lesser(j.copy), Become(t, j),
         UNCHANGED files, UNCHANGED issued
  PROVE  IInv'
  <1>1. \A o \in Threads : job'[o] = IF o = t THEN j ELSE job[o]
    BY DEF IInv, Shape, Become
  <1>2. job' = [o \in Threads |-> job'[o]]
    BY DEF IInv, Shape, Become
  <1>4. Shape'
    <2>1. \A o \in Threads : IsJob(job'[o]) /\ (Writes(job'[o]) => Book(job'[o].copy, issued))
      BY <1>1 DEF IInv, Shape, Lesser
    <2> QED
      BY <1>2, <2>1 DEF IInv, Shape, files, IsJob, Writes, Book
  <1>5. NewAlone'
    <2> SUFFICES ASSUME NEW u \in Threads, Writes(job'[u]), NEW s \in Adds(job'[u])
                 PROVE  /\ s \in 1..issued \ ended /\ sessions[s] = None
                        /\ \A o \in Threads \ {u} : Writes(job'[o]) => job'[o].copy[s] = None
      BY DEF NewAlone, files, Writes, Adds
    <2>1. u # t /\ job'[u] = job[u]
      BY <1>1 DEF Adds
    <2>2. /\ s \in 1..issued \ ended /\ sessions[s] = None
          /\ \A o \in Threads \ {u} : Writes(job[o]) => job[o].copy[s] = None
      BY <2>1 DEF IInv, NewAlone
    <2>3. j.copy[s] = None
      BY <2>2, AccountAssumption DEF Lesser, IInv, Shape, Sids
    <2> QED
      BY <1>1, <2>2, <2>3
  <1>6. FreshIsHarmless'
    BY <1>1 DEF IInv, FreshIsHarmless, files, Writes, Adds, Dead, Lesser
  <1>7. EndedAreDead'
    BY DEF IInv, EndedAreDead, files, Dead
  <1> QED
    BY <1>4, <1>5, <1>6, <1>7 DEF IInv

\* A login opens its session in a copy.
LEMMA Issued ==
  ASSUME IInv, NEW t \in Threads, NEW j, NEW r, IsJob(j), j.at = "issue", j.sid = issued + 1, IsSession(r),
         j.copy = [sessions EXCEPT ![issued + 1] = r], Become(t, j),
         UNCHANGED files, issued' = issued + 1, issued < MaxSessions
  PROVE  IInv'
  <1>1. \A o \in Threads : job'[o] = IF o = t THEN j ELSE job[o]
    BY DEF IInv, Shape, Become
  <1>2. job' = [o \in Threads |-> job'[o]]
    BY DEF IInv, Shape, Become
  <1>3. issued \in Nat /\ issued + 1 \in Sids /\ sessions[issued + 1] = None
    BY AccountAssumption DEF IInv, Shape, Sids, Book
  <1>4. Shape'
    <2>1. \A f : Book(f, issued) => Book(f, issued')
      BY <1>3, AccountAssumption DEF Book, Sids
    <2>2. Book(j.copy, issued')
      <3>1. j.copy = [s \in Sids |-> j.copy[s]]
        BY DEF IInv, Shape, Book
      <3>2. \A s \in Sids : j.copy[s] = IF s = issued + 1 THEN r ELSE sessions[s]
        BY DEF IInv, Shape, Book
      <3>3. \A s \in Sids : IF j.copy[s] = None THEN TRUE ELSE s <= issued' /\ IsSession(j.copy[s])
        BY <1>3, <2>1, <3>2 DEF IInv, Shape, Book, Sids
      <3> QED
        BY <3>1, <3>3 DEF Book
    <2>3. \A o \in Threads : IsJob(job'[o]) /\ (Writes(job'[o]) => Book(job'[o].copy, issued'))
      BY <1>1, <2>1, <2>2 DEF IInv, Shape
    <2>4. issued' \in 0..MaxSessions /\ ended' \subseteq 1..issued' /\ Book(sessions', issued')
      BY <1>3, <2>1, AccountAssumption DEF IInv, Shape, files
    <2> QED
      BY <1>2, <2>3, <2>4 DEF Shape, IsJob, Writes, Book
  <1>5. NewAlone'
    <2> SUFFICES ASSUME NEW u \in Threads, Writes(job'[u]), NEW s \in Adds(job'[u])
                 PROVE  /\ s \in 1..issued' \ ended /\ sessions[s] = None
                        /\ \A o \in Threads \ {u} : Writes(job'[o]) => job'[o].copy[s] = None
      BY DEF NewAlone, files, Writes, Adds
    <2>1. CASE u = t
      <3>1. s = issued + 1
        BY <1>1, <2>1 DEF Adds
      <3>2. \A o \in Threads \ {u} : Writes(job'[o]) => job'[o] = job[o] /\ Book(job[o].copy, issued)
        BY <1>1, <2>1 DEF IInv, Shape
      <3>3. s \in 1..issued' \ ended /\ sessions[s] = None
        BY <1>3, <3>1 DEF IInv, Shape
      <3>4. \A f : Book(f, issued) => f[s] = None
        BY <1>3, <3>1 DEF Book
      <3> QED
        BY <3>2, <3>3, <3>4
    <2>2. CASE u # t
      <3>1. job'[u] = job[u]
        BY <1>1, <2>2
      <3>2. /\ s \in 1..issued \ ended /\ sessions[s] = None
            /\ \A o \in Threads \ {u} : Writes(job[o]) => job[o].copy[s] = None
        BY <3>1 DEF IInv, NewAlone
      <3>3. s \in Sids /\ s # issued + 1 /\ s \in 1..issued'
        BY <1>3, <3>2, AccountAssumption DEF Sids
      <3>4. j.copy[s] = None
        BY <3>2, <3>3 DEF IInv, Shape, Book
      <3> QED
        BY <1>1, <3>2, <3>3, <3>4
    <2> QED
      BY <2>1, <2>2
  <1>6. FreshIsHarmless'
    <2> SUFFICES ASSUME NEW u \in Threads, Writes(job'[u]), "sessions" \notin job'[u].stale,
                        NEW s \in Sids \ Adds(job'[u]), Dead(sessions, s)
                 PROVE  Dead(job'[u].copy, s)
      BY DEF FreshIsHarmless, files, Writes, Adds, Dead
    <2>1. CASE u = t
      <3>1. s # issued + 1 /\ job'[u].copy[s] = sessions[s]
        BY <1>1, <2>1 DEF Adds, IInv, Shape, Book
      <3> QED
        BY <3>1 DEF Dead
    <2>2. CASE u # t
      BY <1>1, <2>2 DEF IInv, FreshIsHarmless
    <2> QED
      BY <2>1, <2>2
  <1>7. EndedAreDead'
    BY DEF IInv, EndedAreDead, files, Dead
  <1> QED
    BY <1>4, <1>5, <1>6, <1>7 DEF IInv

----------------------------------------------------------------------------
\* The steps, one by one.

LEMMA Kept ==
  ASSUME IInv, NEW t \in Threads, NEW j, IsJob(j), ~Writes(j), Become(t, j), OnlyReads
  PROVE  IInv'
  <1>1. UNCHANGED files /\ issued' \in issued..MaxSessions
    BY AccountAssumption DEF OnlyReads, history, files, IInv, Shape
  <1> QED
    BY <1>1, Aside

LEMMA HandsOver ==
  ASSUME IInv, NEW t \in Threads, NEW at
  PROVE  /\ IsJob(job[t]) /\ IsJob(Step(job[t], at)) /\ ~Writes(Step(job[t], at))
         /\ \A u, r : IsJob(With(Step(job[t], at), u, r)) /\ ~Writes(With(Step(job[t], at), u, r))
  <1>1. IsJob(job[t])
    BY DEF IInv, Shape
  <1>2. IsJob(Step(job[t], at)) /\ ~Writes(Step(job[t], at))
    BY <1>1, StepIsJob
  <1> QED
    BY <1>1, <1>2, WithIsJob

LEMMA Reading ==
  ASSUME IInv, NEW t \in Threads,
         Begin(t) \/ GetUser(t) \/ Gate(t) \/ Resolve(t) \/ LastOwner(t)
  PROVE  IInv'
  <1>1. CASE Begin(t)
    <2>1. PICK r \in Requests : Become(t, r)
      BY <1>1 DEF Begin
    <2>2. UNCHANGED files /\ issued' \in issued..MaxSessions
      BY <1>1, AccountAssumption DEF Begin, history, files, IInv, Shape
    <2> QED
      BY <2>1, <2>2, RequestIsJob, Aside
  <1>2. CASE GetUser(t)
    BY <1>2, HandsOver, Kept DEF GetUser
  <1>3. CASE Gate(t)
    <2>1. OnlyReads /\ (Become(t, Idle) \/ \E at : Become(t, Step(job[t], at)))
      BY <1>3 DEF Gate
    <2> QED
      BY <2>1, HandsOver, IdleIsJob, Kept
  <1>4. CASE Resolve(t)
    BY <1>4, IdleIsJob, Kept DEF Resolve
  <1>5. CASE LastOwner(t)
    BY <1>5, HandsOver, IdleIsJob, Kept DEF LastOwner
  <1> QED
    BY <1>1, <1>2, <1>3, <1>4, <1>5

LEMMA Recording ==
  ASSUME IInv, NEW t \in Threads,
         HasUsers(t) \/ NameFree(t) \/ Verify(t) \/ ReadRecord(t) \/ ChangeUsers(t)
  PROVE  IInv'
  <1>1. \A n, r, x : New(t, n, r, x) => \E j : IsJob(j) /\ ~Writes(j) /\ Become(t, j)
    BY HandsOver DEF New
  <1>2. CASE HasUsers(t)
    BY <1>1, <1>2, IdleIsJob, Kept DEF HasUsers
  <1>3. CASE NameFree(t)
    BY <1>1, <1>3, IdleIsJob, Kept DEF NameFree
  <1>4. CASE Verify(t)
    <2>1. IsJob([job[t] EXCEPT !.stale = {}])
      BY HandsOver DEF IsJob
    <2>2. \A u, r : /\ IsJob(With(Step([job[t] EXCEPT !.stale = {}], "issue"), u, r))
                    /\ ~Writes(With(Step([job[t] EXCEPT !.stale = {}], "issue"), u, r))
      BY <2>1, StepIsJob, WithIsJob
    <2> QED
      BY <1>4, <2>2, IdleIsJob, Kept DEF Verify
  <1>5. CASE ReadRecord(t)
    <2>1. OnlyReads /\ (Become(t, Idle) \/ \E at, u, r : Become(t, With(Step(job[t], at), u, r)))
      BY <1>5 DEF ReadRecord
    <2> QED
      BY <2>1, HandsOver, IdleIsJob, Kept
  <1>6. CASE ChangeUsers(t)
    <2> DEFINE j == [job[t] EXCEPT !.copy = [users EXCEPT ![job[t].id] = job[t].user]]
    <2>1. IsJob(job[t]) /\ job[t].at \in UserSteps
      BY <1>6, HandsOver DEF ChangeUsers
    <2>2. IsJob(j) /\ ~Writes(j)
      BY <2>1 DEF IsJob, Writes, UserSteps, SessionSteps
    <2>3. Become(t, j) /\ OnlyReads
      BY <1>6 DEF ChangeUsers
    <2> QED
      BY <2>2, <2>3, Kept
  <1> QED
    BY <1>2, <1>3, <1>4, <1>5, <1>6

\* get_session drops a session that has ended, or leaves the file alone.
LEMMA Finding ==
  ASSUME IInv, NEW t \in Threads, GetSession(t)
  PROVE  IInv'
  <1> DEFINE s == job[t].sid
             f == [sessions EXCEPT ![s] = None]
             j == [Step(job[t], "drop") EXCEPT !.copy = f]
  <1>1. OnlyReads /\ UNCHANGED files /\ UNCHANGED issued
    BY DEF GetSession, OnlyReads, history, files
  <1>2. Become(t, Step(job[t], "gate")) \/ (\E u : Become(t, With(Step(job[t], "user"), u, None)))
        \/ Become(t, Idle) \/ Become(t, j)
    BY DEF GetSession
  <1>3. CASE Become(t, j)
    <2>1. Lesser(f)
      BY DEF IInv, Shape, Lesser, Book, Dead
    <2>2. Step(job[t], "drop") = [job[t] EXCEPT !.at = "drop", !.copy = None]
      BY DEF Step
    <2>3. IsJob(j) /\ j.copy = f /\ j.at # "issue"
      BY <2>2, HandsOver DEF IsJob
    <2> HIDE DEF j, f
    <2> QED
      BY <1>1, <1>3, <2>1, <2>3, Copied
  <1>4. CASE ~Become(t, j)
    <2> HIDE DEF j
    <2> QED
      BY <1>1, <1>2, <1>4, HandsOver, IdleIsJob, Kept
  <1> QED
    BY <1>3, <1>4

LEMMA RevokeIsLesser ==
  ASSUME IInv, NEW S, \A s \in Sids : s \in S => sessions[s] # None
  PROVE  Lesser(Revoke(S))
  <1>1. \A s \in S \cap Sids : IsSession([sessions[s] EXCEPT !.revoked = TRUE]) /\ [sessions[s] EXCEPT !.revoked = TRUE].revoked
                               /\ s <= issued
    BY DEF IInv, Shape, Book, IsSession
  <1>2. \A s \in Sids : Revoke(S)[s] = IF s \in S THEN [sessions[s] EXCEPT !.revoked = TRUE] ELSE sessions[s]
    BY DEF Revoke
  <1>3. Revoke(S) = [s \in Sids |-> Revoke(S)[s]]
    BY DEF Revoke
  <1>4. Book(Revoke(S), issued)
    BY <1>1, <1>2, <1>3 DEF IInv, Shape, Book
  <1>5. \A s \in Sids : /\ sessions[s] = None => Revoke(S)[s] = None
                        /\ Dead(sessions, s) => Dead(Revoke(S), s)
    BY <1>1, <1>2 DEF Dead
  <1> QED
    BY <1>4, <1>5 DEF Lesser

\* Every other step but the opening of a session revokes or drops.
LEMMA NewIsLesser ==
  ASSUME IInv, NEW j, j.at \in SessionSteps \ {"drop", "issue"}
  PROVE  Lesser(NewSessions(j))
  <1>1. CASE j.at \in {"expel", "revoke"}
    <2>1. NewSessions(j) = Revoke({s \in {j.sid} : sessions[s] # None})
      BY <1>1 DEF NewSessions
    <2> QED
      BY <2>1, RevokeIsLesser
  <1>2. CASE j.at = "revokeAll"
    <2>1. NewSessions(j) = Revoke({s \in Sids : sessions[s] # None /\ sessions[s].user = j.id})
      BY <1>2 DEF NewSessions
    <2> QED
      BY <2>1, RevokeIsLesser
  <1>3. CASE j.at = "touch"
    <2>1. NewSessions(j) = sessions \/ NewSessions(j) = [sessions EXCEPT ![j.sid] = None]
      BY <1>3 DEF NewSessions
    <2> QED
      BY <2>1 DEF IInv, Shape, Lesser, Book, Dead
  <1> QED
    BY <1>1, <1>2, <1>3 DEF SessionSteps

LEMMA Changing ==
  ASSUME IInv, NEW t \in Threads, ChangeSessions(t)
  PROVE  IInv'
  <1> DEFINE new == NewSessions(job[t])
             k == IF job[t].at = "issue" THEN issued + 1 ELSE job[t].sid
             j == [job[t] EXCEPT !.copy = new, !.sid = k]
  <1>1. IsJob(job[t]) /\ job[t].at \in SessionSteps \ {"drop"} /\ UNCHANGED files
    BY HandsOver DEF ChangeSessions, history, files
  <1>2. issued' \in issued..MaxSessions
    BY AccountAssumption DEF ChangeSessions, IInv, Shape
  <1>3. Become(t, Step(job[t], After(job[t]))) \/ Become(t, j)
    BY DEF ChangeSessions
  <1>4. CASE Become(t, Step(job[t], After(job[t])))
    BY <1>1, <1>2, <1>4, HandsOver, Aside
  <1>5. CASE Become(t, j)
    <2>1. IsJob(j) /\ j.at = job[t].at /\ j.copy = new /\ j.sid = k
      BY <1>1 DEF IsJob
    <2>2. CASE job[t].at = "issue"
      <3> DEFINE r == [user |-> job[t].id, pass |-> job[t].user.pass, revoked |-> FALSE]
      <3>1. new = [sessions EXCEPT ![issued + 1] = r] /\ IsSession(r)
        BY <2>2 DEF NewSessions, IsSession
      <3>2. issued < MaxSessions /\ issued' = issued + 1
        BY <2>2 DEF ChangeSessions
      <3> HIDE DEF j, r, new
      <3> QED
        BY <1>1, <1>5, <2>1, <2>2, <3>1, <3>2, Issued
    <2>3. CASE job[t].at # "issue"
      <3>1. Lesser(new) /\ UNCHANGED issued
        BY <1>1, <2>3, NewIsLesser DEF ChangeSessions
      <3> HIDE DEF j, new
      <3> QED
        BY <1>1, <1>5, <2>1, <2>3, <3>1, Copied
    <2> QED
      BY <2>2, <2>3
  <1> QED
    BY <1>3, <1>4, <1>5

\* Accounts are saved: the sessions file is not touched, and no copy of it becomes stale.
LEMMA SavingUsers ==
  ASSUME IInv, NEW t \in Threads, SaveUsers(t)
  PROVE  IInv'
  <1>1. UNCHANGED <<sessions, issued, ended>> /\ lost \subseteq lost' /\ ("sessions" \in lost' => "sessions" \in lost)
    BY DEF SaveUsers
  <1>2. IsJob(job'[t]) /\ ~Writes(job'[t])
    <2>1. job'[t] = Step(job[t], After(job[t]))
      BY DEF SaveUsers
    <2> QED
      BY <2>1, HandsOver
  <1>3. job' = [o \in Threads |-> job'[o]]
    BY DEF SaveUsers
  <1>4. ASSUME NEW o \in Threads, o # t
        PROVE  /\ IsJob(job'[o]) /\ job'[o].at = job[o].at /\ job'[o].copy = job[o].copy /\ job'[o].sid = job[o].sid
               /\ job[o].stale \subseteq job'[o].stale
    <2>1. PICK L : job'[o] = [job[o] EXCEPT !.stale = @ \cup L]
      BY <1>4 DEF SaveUsers
    <2> QED
      BY <2>1, HandsOver DEF IsJob
  <1>5. Shape'
    BY <1>1, <1>2, <1>3, <1>4 DEF IInv, Shape, Writes, Book, IsJob
  <1>6. NewAlone'
    BY <1>1, <1>2, <1>4 DEF IInv, NewAlone, Writes, Adds
  <1>7. FreshIsHarmless'
    BY <1>1, <1>2, <1>4 DEF IInv, FreshIsHarmless, Writes, Adds, Dead
  <1>8. EndedAreDead'
    BY <1>1 DEF IInv, EndedAreDead, Dead
  <1> QED
    BY <1>5, <1>6, <1>7, <1>8 DEF IInv

\* Sessions are saved: every other copy becomes stale, unless the file was saved as it was.
LEMMA SavingSessions ==
  ASSUME IInv, NEW t \in Threads, SaveSessions(t)
  PROVE  IInv'
  <1> DEFINE new == job[t].copy
  <1>1. /\ sessions' = new /\ UNCHANGED issued /\ Writes(job[t])
        /\ lost' = lost \cup (job[t].stale \cap {"sessions"})
        /\ ended' = ended \/ ended' = ended \cup {s \in Sids : new[s] # None /\ new[s].revoked}
    BY DEF SaveSessions, Writes
  <1>2. Book(new, issued) /\ Book(sessions, issued) /\ issued \in 0..MaxSessions /\ ended \subseteq 1..issued
    BY <1>1 DEF IInv, Shape
  <1>3. IsJob(job'[t]) /\ ~Writes(job'[t])
    <2>1. job'[t] = Step(job[t], After(job[t]))
      BY DEF SaveSessions
    <2> QED
      BY <2>1, HandsOver
  <1>4. job' = [o \in Threads |-> job'[o]]
    BY DEF SaveSessions
  <1>5. ASSUME NEW o \in Threads, o # t
        PROVE  /\ IsJob(job'[o]) /\ job'[o].at = job[o].at /\ job'[o].copy = job[o].copy /\ job'[o].sid = job[o].sid
               /\ job[o].stale \subseteq job'[o].stale
               /\ Writes(job[o]) /\ new # sessions => "sessions" \in job'[o].stale
    <2> DEFINE L == IF new # sessions /\ job[o].at \in SessionSteps /\ job[o].copy # None THEN {"sessions"} ELSE {}
    <2>1. job'[o] = [job[o] EXCEPT !.stale = @ \cup L]
      BY <1>5 DEF SaveSessions
    <2>2. Writes(job[o]) /\ new # sessions => "sessions" \in L
      BY DEF Writes
    <2> HIDE DEF L
    <2> QED
      BY <2>1, <2>2, HandsOver DEF IsJob
  <1>6. \A s \in ended' : s \in 1..issued /\ (s \in ended \/ (new[s] # None /\ new[s].revoked))
    <2>1. \A s \in Sids : new[s] # None => s \in 1..issued
      BY <1>2, AccountAssumption DEF Book, Sids
    <2>2. \A s \in ended' : s \in ended \/ (s \in Sids /\ new[s] # None /\ new[s].revoked)
      BY <1>1
    <2> QED
      BY <1>2, <2>1, <2>2
  <1>7. Shape'
    <2>1. \A o \in Threads : IsJob(job'[o]) /\ (Writes(job'[o]) => Book(job'[o].copy, issued))
      BY <1>3, <1>5 DEF IInv, Shape, Writes
    <2>2. ended' \subseteq 1..issued
      BY <1>6
    <2> QED
      BY <1>1, <1>2, <1>4, <2>1, <2>2 DEF Shape, Writes, Book, IsJob
  <1>8. NewAlone'
    <2> SUFFICES ASSUME NEW u \in Threads, Writes(job'[u]), NEW s \in Adds(job'[u])
                 PROVE  /\ s \in 1..issued \ ended' /\ new[s] = None
                        /\ \A o \in Threads \ {u} : Writes(job'[o]) => job'[o].copy[s] = None
      BY <1>1 DEF NewAlone, Writes, Adds
    <2>1. u # t /\ Writes(job[u]) /\ s \in Adds(job[u])
      BY <1>3, <1>5 DEF Writes, Adds
    <2>2. /\ s \in 1..issued \ ended
          /\ \A o \in Threads \ {u} : Writes(job[o]) => job[o].copy[s] = None
      BY <2>1 DEF IInv, NewAlone
    <2>3. new[s] = None
      BY <1>1, <2>1, <2>2
    <2> QED
      BY <1>3, <1>5, <1>6, <2>2, <2>3 DEF Writes
  <1>9. FreshIsHarmless'
    <2> SUFFICES ASSUME NEW u \in Threads, Writes(job'[u]), "sessions" \notin job'[u].stale,
                        NEW s \in Sids \ Adds(job'[u]), Dead(new, s)
                 PROVE  Dead(job'[u].copy, s)
      BY <1>1 DEF FreshIsHarmless, Writes, Adds, Dead
    <2>1. u # t /\ Writes(job[u]) /\ s \notin Adds(job[u]) /\ "sessions" \notin job[u].stale
          /\ new = sessions /\ job'[u].copy = job[u].copy
      BY <1>3, <1>5 DEF Writes, Adds
    <2> QED
      BY <2>1 DEF IInv, FreshIsHarmless
  <1>10. EndedAreDead'
    <2> SUFFICES ASSUME "sessions" \notin lost', NEW s \in ended'
                 PROVE  Dead(new, s)
      BY <1>1 DEF EndedAreDead, Dead
    <2>1. CASE s \in ended
      <3>1. "sessions" \notin lost /\ "sessions" \notin job[t].stale /\ s \in Sids /\ Dead(sessions, s)
        BY <1>1, <1>6, <2>1, AccountAssumption DEF IInv, EndedAreDead, Sids, Shape
      <3>2. s \notin Adds(job[t])
        BY <1>1, <2>1 DEF IInv, NewAlone
      <3> QED
        BY <1>1, <3>1, <3>2 DEF IInv, FreshIsHarmless
    <2>2. CASE s \notin ended
      BY <1>6, <2>2 DEF Dead
    <2> QED
      BY <2>1, <2>2
  <1> QED
    BY <1>7, <1>8, <1>9, <1>10 DEF IInv

----------------------------------------------------------------------------
\* The theorem.

LEMMA InitIInv == Init => IInv
  <1> SUFFICES ASSUME Init PROVE IInv
    OBVIOUS
  <1>1. PICK n \in 0..MaxSessions : Existing = 1..n
    BY AccountAssumption, OfficeAssumption DEF Init, Existing
  <1>2. issued = n
    <2>1. Cardinality(1..n) = IF 1 > n THEN 0 ELSE n - 1 + 1
      BY AccountAssumption, FS_Interval
    <2> QED
      BY <1>1, <2>1, AccountAssumption DEF Init
  <1>3. Book(sessions, issued)
    BY <1>1, <1>2, AccountAssumption DEF Init, Book, IsSession, Sids
  <1>4. \A t \in Threads : job[t] = Idle
    BY DEF Init
  <1>5. Shape
    BY <1>1, <1>2, <1>3, <1>4, IdleIsJob DEF Init, Shape
  <1>6. NewAlone /\ FreshIsHarmless
    BY <1>4, IdleIsJob DEF NewAlone, FreshIsHarmless
  <1> QED
    BY <1>5, <1>6 DEF Init, IInv, EndedAreDead

LEMMA NextIInv == IInv /\ [Next]_vars => IInv'
  <1> SUFFICES ASSUME IInv, [Next]_vars PROVE IInv'
    OBVIOUS
  <1>1. ASSUME UNCHANGED <<job, sessions, issued, ended, lost>> PROVE IInv'
    BY <1>1 DEF IInv, Shape, NewAlone, FreshIsHarmless, EndedAreDead, Writes, Adds, Dead, Book, IsJob
  <1>2. ASSUME NEW t \in Threads,
               Begin(t) \/ GetUser(t) \/ Gate(t) \/ Resolve(t) \/ LastOwner(t)
        PROVE  IInv'
    BY <1>2, Reading
  <1>3. ASSUME NEW t \in Threads,
               HasUsers(t) \/ NameFree(t) \/ Verify(t) \/ ReadRecord(t) \/ ChangeUsers(t)
        PROVE  IInv'
    BY <1>3, Recording
  <1>4. ASSUME NEW t \in Threads,
               GetSession(t) \/ ChangeSessions(t) \/ SaveUsers(t) \/ SaveSessions(t)
        PROVE  IInv'
    BY <1>4, Finding, Changing, SavingUsers, SavingSessions
  <1>5. CASE \E s \in Sids : Deadline(s)
    BY <1>1, <1>5 DEF Deadline, history
  <1>6. CASE UNCHANGED vars
    BY <1>1, <1>6 DEF vars, history
  <1> QED
    BY <1>2, <1>3, <1>4, <1>5, <1>6 DEF Next

\* No request revives a session: one whose revocation was saved - by logging out, by
\* disabling its user, by a new password - is never usable again, unless a thread saves
\* a copy of sessions.json it had read before another thread's save.
THEOREM RevocationsHold == Spec => []EndedStayOut
  <1>1. IInv => EndedStayOut
    BY AccountAssumption DEF IInv, EndedAreDead, EndedStayOut, Dead, Usable
  <1> QED
    BY <1>1, InitIInv, NextIInv, PTL DEF Spec

----------------------------------------------------------------------------
\* Types: what a request has in hand at a step.

UsersFile == [Ids -> User \cup {None}]
SessionsFile == [Sids -> Session \cup {None}]

\* The steps at which a request has a user record to write or to open a session for.
HasRecord(j) == j.at \in UserSteps \cup {"owners", "issue"} \/ (j.at = "revokeAll" /\ j.op = "status")

JobOK(j) ==
    /\ IsJob(j) /\ j.stale \subseteq {"users", "sessions"}
    /\ j.role \in Roles \cup {None} /\ j.status \in Statuses \cup {None}
    /\ j.status # None => j.op \in {"create", "status"}
    /\ j.role # None => j.op \in {"create", "role"}
    /\ j.op = "create" => j.role # None /\ j.status # None
    /\ j.op = "create" \/ j.at = "has" => j.target \in Names
    /\ j.at = "free" => j.op = "create"
    /\ HasRecord(j) => j.user \in User /\ j.id \in Ids
    /\ j.copy # None => \/ j.at \in UserSteps /\ j.copy \in UsersFile
                        \/ j.at \in SessionSteps /\ j.copy \in SessionsFile

Types ==
    /\ office \in Offices /\ users \in UsersFile /\ sessions \in SessionsFile
    /\ issued \in 0..MaxSessions /\ hashed \in 0..MaxHashes /\ begun \in 0..MaxRequests
    /\ job = [t \in Threads |-> job[t]] /\ \A t \in Threads : JobOK(job[t])

LEMMA TypesTypeOK == Types => TypeOK
  <1> SUFFICES ASSUME Types PROVE TypeOK
    OBVIOUS
  <1>1. \A t \in Threads : /\ job[t].at \in UserSteps => job[t].user \in User /\ job[t].id \in Ids
                           /\ job[t].copy # None => job[t].at \in UserSteps \cup SessionSteps
                           /\ job[t].stale \subseteq {"users", "sessions"}
    BY DEF Types, JobOK, HasRecord
  <1> QED
    BY <1>1 DEF Types, TypeOK, UsersFile, SessionsFile

LEMMA IdleOK == JobOK(Idle)
  BY DEF JobOK, Idle, HasRecord, UserSteps, IsJob

LEMMA RequestOK ==
  ASSUME NEW r \in Requests
  PROVE  JobOK(r)
  <1>1. \A op, n : op \in {"login", "bootstrap"} /\ n \in Names => JobOK(Entry(op, n))
    BY DEF Entry, Idle, JobOK, HasRecord, UserSteps, IsJob
  <1>2. ASSUME NEW op, NEW s, NEW n, NEW x, NEW y, Asks(op, s, n, x, y)
        PROVE  JobOK(Signed(op, s, n, x, y))
    BY <1>2 DEF Asks, Signed, Idle, JobOK, HasRecord, UserSteps, IsJob
  <1> QED
    BY <1>1, <1>2, RequestKinds

LEMMA StepOK ==
  ASSUME NEW j, JobOK(j), NEW at, at # "has", at = "free" => j.op = "create",
         HasRecord([j EXCEPT !.at = at]) => j.user \in User /\ j.id \in Ids
  PROVE  JobOK(Step(j, at))
  <1>1. CASE at = "idle"
    BY <1>1, IdleOK DEF Step
  <1>2. CASE at # "idle"
    BY <1>2 DEF Step, JobOK, HasRecord, IsJob
  <1> QED
    BY <1>1, <1>2

LEMMA RecordOK ==
  ASSUME NEW j, JobOK(j), NEW at, at \notin {"idle", "has", "free"}, NEW u, NEW r,
         HasRecord([j EXCEPT !.at = at]) => r \in User /\ u \in Ids
  PROVE  JobOK(With(Step(j, at), u, r))
  BY DEF Step, With, JobOK, HasRecord, IsJob

----------------------------------------------------------------------------
\* What a request that is not stale knows.

Fresh(j) == "users" \notin j.stale

\* The record in hand is a new account under a free name, or the one in the file but for
\* what the request changes; the copy is the file with that record; and nobody disables
\* the last owner.
Current(j) ==
    /\ j.at \in UserSteps /\ j.copy # None => j.copy = [users EXCEPT ![j.id] = j.user]
    /\ j.at = "add" => /\ j.id \notin Existing /\ Named(j.user.name) = {}
                       /\ Existing = {} => j.user.role = "owner" /\ j.user.status = "active"
    /\ HasRecord(j) /\ j.at # "add" =>
         /\ j.id \in Existing /\ j.user.name = users[j.id].name
         /\ j.user.status \in {users[j.id].status, "active", "other"} \/ Disabling(j)
         /\ j.user.role = users[j.id].role \/ (j.op = "role" /\ j.user.role = j.role)
         /\ j.user.pass = users[j.id].pass \/ j.op \in Resets
    /\ j.at \in {"issue", "stamp"} => j.user = users[j.id]
    /\ j.at = "owners" => j.id = j.target
    /\ Disabling(j) /\ j.at \in {"revokeAll", "upsert"} => Owners # {j.id}

\* Where there is a session, or a login about to open one, there is an account.
Enrolled ==
    /\ \A t \in Threads : job[t].op = "create" => issued > 0
    /\ "users" \notin lost /\ (issued > 0 \/ \E t \in Threads : job[t].at = "issue") => Existing # {}

AllCurrent == "users" \notin lost => \A t \in Threads : Fresh(job[t]) => Current(job[t])

\* No owner is set aside unnoticed, so the owners that are not disabled are active.
Sound ==
    "users" \notin lost =>
        /\ Existing = {} \/ Owners # {} \/ demoted
        /\ \A u \in Existing : users[u].role = "owner" /\ users[u].status = "other" => demoted
        /\ \A u, v \in Existing : users[u].name = users[v].name => u = v

UInv == Types /\ Enrolled /\ AllCurrent /\ Sound

LEMMA SoundAccounts == UInv => AccountsSound
  <1> SUFFICES ASSUME UInv, "users" \notin lost, ~demoted PROVE Existing = {} \/ ActiveOwners # {}
    BY DEF UInv, Sound, AccountsSound
  <1>1. \A u \in Owners : u \in Existing /\ users[u].role = "owner" /\ users[u].status \in Statuses \ {"disabled"}
    BY DEF Owners, Existing, UInv, Types, UsersFile, User
  <1>2. \A u \in Owners : u \in ActiveOwners
    BY <1>1 DEF ActiveOwners, UInv, Sound, Statuses
  <1> QED
    BY <1>2 DEF UInv, Sound

LEMMA LooseIsCurrent ==
  ASSUME NEW j, JobOK(j), ~HasRecord(j)
  PROVE  Current(j)
  <1>1. Disabling(j) => j.op = "status"
    BY AccountAssumption DEF JobOK, Disabling
  <1> QED
    BY <1>1 DEF Current, HasRecord, UserSteps

\* A step that leaves the accounts alone.
LEMMA Held ==
  ASSUME UInv, NEW t \in Threads, NEW j, JobOK(j), "users" \notin lost /\ Fresh(j) => Current(j),
         j.op = "create" => issued > 0, "users" \notin lost /\ j.at = "issue" => Existing # {},
         Become(t, j), UNCHANGED <<office, users, lost, demoted>>, sessions' \in SessionsFile,
         issued' \in issued..MaxSessions, issued' # issued => job[t].at = "issue",
         hashed' \in 0..MaxHashes, begun' \in 0..MaxRequests
  PROVE  UInv'
  <1>1. \A o \in Threads : job'[o] = IF o = t THEN j ELSE job[o]
    BY DEF UInv, Types, Become
  <1>2. job' = [o \in Threads |-> job'[o]]
    BY DEF UInv, Types, Become
  <1>3. issued \in Nat /\ issued' \in Nat /\ issued <= issued'
    BY AccountAssumption DEF UInv, Types
  <1>4. Types'
    <2>1. \A o \in Threads : JobOK(job'[o])
      BY <1>1 DEF UInv, Types
    <2> QED
      BY <1>2, <1>3, <2>1, AccountAssumption DEF UInv, Types, JobOK, HasRecord, IsJob, UsersFile, SessionsFile
  <1>5. Existing' = Existing /\ Owners' = Owners /\ \A n : Named(n)' = Named(n)
    BY DEF Existing, Owners, Named
  <1>6. Enrolled'
    BY <1>1, <1>3, <1>5 DEF UInv, Enrolled
  <1>7. AllCurrent'
    <2>1. \A o \in Threads : "users" \notin lost /\ Fresh(job'[o]) => Current(job'[o])
      BY <1>1 DEF UInv, AllCurrent
    <2> QED
      BY <1>5, <2>1 DEF AllCurrent, Current, Fresh, HasRecord, Disabling, Named
  <1>8. Sound'
    BY <1>5 DEF UInv, Sound
  <1> QED
    BY <1>4, <1>6, <1>7, <1>8 DEF UInv

\* ... and only reads.
LEMMA ReadsHeld ==
  ASSUME UInv, NEW t \in Threads, NEW j, JobOK(j), "users" \notin lost /\ Fresh(j) => Current(j),
         j.op = "create" => job[t].op = "create", "users" \notin lost /\ j.at = "issue" => Existing # {},
         Become(t, j), OnlyReads, hashed' \in 0..MaxHashes
  PROVE  UInv'
  <1>1. /\ UNCHANGED <<office, users, lost, demoted>> /\ sessions' \in SessionsFile /\ UNCHANGED <<issued, begun>>
        /\ issued \in 0..MaxSessions /\ begun' \in 0..MaxRequests
    BY DEF OnlyReads, history, UInv, Types
  <1>2. j.op = "create" => issued > 0
    BY DEF UInv, Enrolled
  <1>3. issued' \in issued..MaxSessions
    BY <1>1, AccountAssumption
  <1> QED
    BY <1>1, <1>2, <1>3, Held

LEMMA StepOp ==
  ASSUME NEW j, JobOK(j), NEW at
  PROVE  /\ Step(j, at).at \in {at, "idle"} /\ Step(j, at).op \in {j.op, "none"}
         /\ \A u, r : With(Step(j, at), u, r).at \in {at, "idle"} /\ With(Step(j, at), u, r).op \in {j.op, "none"}
  BY DEF JobOK, IsJob, Step, With, Idle

----------------------------------------------------------------------------
\* The steps, one by one.

\* A request that goes on without a record, or ends.
LEMMA MovesOn ==
  ASSUME UInv, NEW t \in Threads, NEW j, JobOK(j), ~HasRecord(j), j.at # "issue",
         j.op = "create" => job[t].op = "create",
         Become(t, j), OnlyReads, UNCHANGED hashed
  PROVE  UInv'
  <1>1. hashed' \in 0..MaxHashes
    BY DEF UInv, Types
  <1> QED
    BY <1>1, LooseIsCurrent, ReadsHeld

LEMMA Stopping ==
  ASSUME UInv, NEW t \in Threads, Become(t, Idle), OnlyReads, UNCHANGED hashed
  PROVE  UInv'
  <1>1. ~HasRecord(Idle) /\ Idle.at # "issue" /\ Idle.op # "create"
    BY DEF Idle, HasRecord, UserSteps
  <1> QED
    BY <1>1, IdleOK, MovesOn

LEMMA Stepping ==
  ASSUME UInv, NEW t \in Threads, NEW at, at \notin UserSteps \cup {"owners", "issue", "revokeAll", "has"},
         at = "free" => job[t].op = "create",
         Become(t, Step(job[t], at)), OnlyReads, UNCHANGED hashed
  PROVE  UInv'
  <1>1. JobOK(job[t])
    BY DEF UInv, Types
  <1>2. ~HasRecord([job[t] EXCEPT !.at = at])
    BY <1>1 DEF HasRecord, JobOK, IsJob
  <1>3. JobOK(Step(job[t], at))
    BY <1>1, <1>2, StepOK
  <1>4. ~HasRecord(Step(job[t], at)) /\ Step(job[t], at).at # "issue"
        /\ (Step(job[t], at).op = "create" => job[t].op = "create")
    BY <1>1, StepOp DEF HasRecord, UserSteps
  <1> QED
    BY <1>3, <1>4, MovesOn

LEMMA Beginning ==
  ASSUME UInv, NEW t \in Threads, Begin(t)
  PROVE  UInv'
  <1>1. PICK r \in Requests : Become(t, r)
    BY DEF Begin
  <1>2. JobOK(r)
    BY RequestOK
  <1>3. ~HasRecord(r) /\ r.at # "issue" /\ (r.op = "create" => issued > 0)
    <2>1. CASE \E op \in {"login", "bootstrap"}, n \in Names : r = Entry(op, n)
      BY <2>1 DEF Entry, Idle, HasRecord, UserSteps
    <2>2. CASE \E op, s, n, x, y : Asks(op, s, n, x, y) /\ r = Signed(op, s, n, x, y)
      <3>1. PICK op, s, n, x, y : Asks(op, s, n, x, y) /\ r = Signed(op, s, n, x, y)
        BY <2>2
      <3>2. r.op = op /\ r.at = "session"
        BY <3>1 DEF Signed, Idle
      <3>3. op = "create" => issued > 0
        BY <3>1, AccountAssumption DEF Asks, UInv, Types
      <3> QED
        BY <3>2, <3>3 DEF HasRecord, UserSteps
    <2> QED
      BY <2>1, <2>2, RequestKinds
  <1>4. /\ UNCHANGED <<office, users, lost, demoted>> /\ sessions' \in SessionsFile /\ UNCHANGED <<issued, hashed>>
        /\ issued' \in issued..MaxSessions /\ hashed' \in 0..MaxHashes
    BY AccountAssumption DEF Begin, history, UInv, Types
  <1>5. begun' \in 0..MaxRequests
    <2>1. office.requests \in 0..MaxRequests
      BY AccountAssumption DEF UInv, Types
    <2> QED
      BY <2>1, AccountAssumption DEF Begin, UInv, Types
  <1> QED
    BY <1>1, <1>2, <1>3, <1>4, <1>5, LooseIsCurrent, Held

LEMMA FindingUser ==
  ASSUME UInv, NEW t \in Threads, GetSession(t) \/ GetUser(t)
  PROVE  UInv'
  <1>1. JobOK(job[t]) /\ OnlyReads /\ UNCHANGED hashed
    BY DEF UInv, Types, GetSession, GetUser
  <1>2. ASSUME NEW at \in {"user", "touch"}, NEW u, NEW r, Become(t, With(Step(job[t], at), u, r))
        PROVE  UInv'
    <2> DEFINE j == With(Step(job[t], at), u, r)
    <2>1. ~HasRecord([job[t] EXCEPT !.at = at])
      BY <1>1 DEF HasRecord, UserSteps, JobOK, IsJob
    <2>2. JobOK(j)
      BY <1>1, <2>1, RecordOK
    <2>3. j.at \in {at, "idle"} /\ j.op \in {job[t].op, "none"}
      BY <1>1, StepOp
    <2>4. ~HasRecord(j) /\ j.at # "issue" /\ (j.op = "create" => job[t].op = "create")
      BY <2>3 DEF HasRecord, UserSteps
    <2> HIDE DEF j
    <2> QED
      BY <1>1, <1>2, <2>2, <2>4, MovesOn DEF j
  <1>3. CASE GetUser(t)
    <2>1. Become(t, Step(job[t], "expel")) \/ \E u, r : Become(t, With(Step(job[t], "touch"), u, r))
      BY <1>3 DEF GetUser
    <2> QED
      BY <1>1, <1>2, <2>1, Stepping DEF UserSteps
  <1>4. CASE GetSession(t)
    <2> DEFINE s == job[t].sid
               f == [sessions EXCEPT ![s] = None]
               j == [Step(job[t], "drop") EXCEPT !.copy = f]
    <2>1. Become(t, Step(job[t], "gate")) \/ (\E u : Become(t, With(Step(job[t], "user"), u, None)))
          \/ Become(t, Idle) \/ Become(t, j)
      BY <1>4 DEF GetSession
    <2>2. CASE Become(t, j)
      <3>1. f \in SessionsFile
        BY DEF UInv, Types, SessionsFile
      <3>2. Step(job[t], "drop") = [job[t] EXCEPT !.at = "drop", !.copy = None]
        BY DEF Step
      <3> HIDE DEF f
      <3>3. JobOK(j) /\ j.at = "drop" /\ j.op = job[t].op
        BY <1>1, <3>1, <3>2 DEF JobOK, IsJob, HasRecord, UserSteps, SessionSteps
      <3>4. ~HasRecord(j)
        BY <3>3 DEF HasRecord, UserSteps
      <3> HIDE DEF j
      <3> QED
        BY <1>1, <2>2, <3>3, <3>4, MovesOn
    <2> HIDE DEF j
    <2>3. CASE Become(t, Step(job[t], "gate"))
      BY <1>1, <2>3, Stepping DEF UserSteps
    <2> QED
      BY <1>1, <1>2, <2>1, <2>2, <2>3, Stopping
  <1> QED
    BY <1>3, <1>4

LEMMA Admitting ==
  ASSUME UInv, NEW t \in Threads, Gate(t) \/ Resolve(t)
  PROVE  UInv'
  <1>1. OnlyReads /\ UNCHANGED hashed
    BY DEF Gate, Resolve
  <1>2. CASE Gate(t)
    <2>1. \/ Become(t, Idle)
          \/ \E at \in {"idle", "revoke", "resolve", "free", "read"} :
               (at = "free" => job[t].op = "create") /\ Become(t, Step(job[t], at))
      BY <1>2 DEF Gate
    <2> QED
      BY <1>1, <2>1, Stepping, Stopping DEF UserSteps
  <1>3. CASE Resolve(t)
    BY <1>1, <1>3, Stopping DEF Resolve
  <1> QED
    BY <1>2, <1>3

\* A new account: under a free id and a free name.
LEMMA Adding ==
  ASSUME UInv, NEW t \in Threads, HasUsers(t) \/ NameFree(t)
  PROVE  UInv'
  <1>1. JobOK(job[t]) /\ OnlyReads
    BY DEF UInv, Types, HasUsers, NameFree
  <1>2. ASSUME NEW n \in Names, NEW r \in Roles, NEW x \in Statuses, New(t, n, r, x), Named(n) = {},
               "users" \notin lost /\ Existing = {} => r = "owner" /\ x = "active"
        PROVE  UInv'
    <2> DEFINE rec == [name |-> n, role |-> r, status |-> x, pass |-> hashed + 1]
               j == With(Step(job[t], "add"), FreshId, rec)
    <2>1. hashed' = hashed + 1 /\ hashed' \in 0..MaxHashes /\ hashed + 1 \in Hashes
      BY <1>2, AccountAssumption DEF New, UInv, Types, Hashes
    <2>2. Become(t, j)
      BY <1>2, <2>1 DEF New
    <2>3. FreshId \in Ids \ Existing
      BY <1>2 DEF New, HasFreshId, FreshId
    <2>4. rec \in User
      BY <2>1 DEF User
    <2>5. JobOK(j)
      BY <1>1, <2>3, <2>4, RecordOK
    <2>6. j.at = "add" /\ j.op = job[t].op /\ j.id = FreshId /\ j.user = rec /\ j.copy = None /\ j.status = job[t].status
      BY <1>1 DEF Step, With, JobOK, IsJob
    <2>7. rec.name = n /\ rec.role = r /\ rec.status = x
      OBVIOUS
    <2> HIDE DEF j, rec
    <2>8. "users" \notin lost => Current(j)
      BY <1>2, <2>3, <2>6, <2>7 DEF Current, UserSteps
    <2> QED
      BY <1>1, <2>1, <2>2, <2>5, <2>6, <2>8, ReadsHeld
  <1>3. CASE HasUsers(t)
    <2>1. \/ Become(t, Idle) /\ UNCHANGED hashed
          \/ Existing = {} /\ New(t, job[t].target, "owner", "active")
      BY <1>3 DEF HasUsers
    <2>2. job[t].target \in Names /\ "owner" \in Roles /\ "active" \in Statuses
      BY <1>1, <1>3 DEF HasUsers, JobOK, Roles, Statuses
    <2>3. Existing = {} => Named(job[t].target) = {}
      BY DEF Named
    <2> QED
      BY <1>1, <1>2, <2>1, <2>2, <2>3, Stopping
  <1>4. CASE NameFree(t)
    <2>1. \/ Become(t, Idle) /\ UNCHANGED hashed
          \/ Named(job[t].target) = {} /\ New(t, job[t].target, job[t].role, job[t].status)
      BY <1>4 DEF NameFree
    <2>2. job[t].op = "create" /\ job[t].target \in Names /\ job[t].role \in Roles /\ job[t].status \in Statuses
      BY <1>1, <1>4 DEF NameFree, JobOK
    <2>3. "users" \notin lost => Existing # {}
      BY <2>2 DEF UInv, Enrolled
    <2> QED
      BY <1>1, <1>2, <2>1, <2>2, <2>3, Stopping
  <1> QED
    BY <1>3, <1>4

LEMMA Verifying ==
  ASSUME UInv, NEW t \in Threads, Verify(t)
  PROVE  UInv'
  <1> DEFINE k == [job[t] EXCEPT !.stale = {}]
  <1>1. JobOK(job[t]) /\ OnlyReads /\ UNCHANGED hashed
    BY DEF UInv, Types, Verify
  <1>2. JobOK(k) /\ k.op = job[t].op
    BY <1>1 DEF JobOK, IsJob, HasRecord
  <1>3. ASSUME NEW u \in Named(job[t].target), Become(t, With(Step(k, "issue"), u, users[u]))
        PROVE  UInv'
    <2> DEFINE j == With(Step(k, "issue"), u, users[u])
    <2>1. u \in Existing /\ u \in Ids /\ users[u] \in User
      BY DEF Named, Existing, UInv, Types, UsersFile
    <2> HIDE DEF k
    <2>2. JobOK(j)
      BY <1>2, <2>1, RecordOK
    <2>3. j.at = "issue" /\ j.op = k.op /\ j.id = u /\ j.user = users[u]
      BY <1>2 DEF Step, With, JobOK, IsJob
    <2>4. Become(t, j)
      BY <1>3
    <2> HIDE DEF j
    <2>5. Current(j)
      BY <2>1, <2>3 DEF Current, UserSteps
    <2>6. hashed' \in 0..MaxHashes
      BY <1>1 DEF UInv, Types
    <2> QED
      BY <1>1, <1>2, <2>1, <2>2, <2>3, <2>4, <2>5, <2>6, ReadsHeld
  <1>4. Become(t, Idle) \/ \E u \in Named(job[t].target) : Become(t, With(Step(k, "issue"), u, users[u]))
    BY DEF Verify
  <1> QED
    BY <1>1, <1>3, <1>4, Stopping

\* What a request is about to write is the record in the file, but for what it changes.
LEMMA Reckoning ==
  ASSUME UInv, NEW t \in Threads, ReadRecord(t)
  PROVE  UInv'
  <1> DEFINE k == job[t]
             u == IF k.op = "change" THEN k.id ELSE k.target
             rehash == [users[u] EXCEPT !.pass = hashed + 1]
             update == [users[u] EXCEPT !.role = IF k.role = None THEN @ ELSE k.role,
                                        !.status = IF k.status = None THEN @ ELSE k.status]
  <1>1. JobOK(k) /\ OnlyReads
    BY DEF UInv, Types, ReadRecord
  <1>2. \/ Become(t, Idle) /\ UNCHANGED hashed
        \/ /\ u \in Existing /\ k.op \in Resets /\ hashed < MaxHashes /\ hashed' = hashed + 1
           /\ Become(t, With(Step(k, "upsert"), u, rehash))
        \/ /\ u \in Existing /\ k.op \in Updates /\ UNCHANGED hashed
           /\ Become(t, With(Step(k, IF Disabling(k) THEN "owners" ELSE "upsert"), u, update))
    BY DEF ReadRecord
  <1>3. u \in Existing => u \in Ids /\ users[u] \in User
    BY DEF Existing, UInv, Types, UsersFile
  <1>4. hashed \in 0..MaxHashes
    BY DEF UInv, Types
  <1>5. ASSUME NEW at \in {"upsert", "owners"}, NEW r \in User, u \in Existing, Become(t, With(Step(k, at), u, r)),
               hashed' \in 0..MaxHashes, r.name = users[u].name,
               r.status \in {users[u].status, "active", "other"} \/ Disabling(k),
               r.role = users[u].role \/ (k.op = "role" /\ r.role = k.role),
               r.pass = users[u].pass \/ k.op \in Resets,
               at = "owners" => u = k.target, at = "upsert" => ~Disabling(k)
        PROVE  UInv'
    <2> DEFINE j == With(Step(k, at), u, r)
    <2>1. JobOK(j)
      BY <1>1, <1>3, <1>5, RecordOK
    <2>2. /\ j.at = at /\ j.op = k.op /\ j.id = u /\ j.user = r /\ j.copy = None
          /\ j.status = k.status /\ j.role = k.role /\ j.target = k.target
      BY <1>1 DEF Step, With, JobOK, IsJob
    <2>3. Become(t, j)
      BY <1>5
    <2> HIDE DEF j, k, u
    <2>4. Current(j)
      BY <1>5, <2>2 DEF Current, UserSteps, Disabling
    <2> QED
      BY <1>1, <1>5, <2>1, <2>2, <2>3, <2>4, ReadsHeld DEF k
  <1>6. CASE u \in Existing /\ k.op \in Resets /\ hashed < MaxHashes /\ hashed' = hashed + 1
             /\ Become(t, With(Step(k, "upsert"), u, rehash))
    <2>1. hashed' \in 0..MaxHashes /\ hashed + 1 \in Hashes
      BY <1>4, <1>6, AccountAssumption DEF Hashes
    <2>2. rehash \in User /\ rehash.name = users[u].name /\ rehash.status = users[u].status /\ rehash.role = users[u].role
      BY <1>3, <1>6, <2>1 DEF User
    <2>3. ~Disabling(k)
      BY <1>1, <1>6, AccountAssumption DEF JobOK, Disabling, Resets
    <2> QED
      BY <1>5, <1>6, <2>1, <2>2, <2>3
  <1>7. CASE u \in Existing /\ k.op \in Updates /\ UNCHANGED hashed
             /\ Become(t, With(Step(k, IF Disabling(k) THEN "owners" ELSE "upsert"), u, update))
    <2>1. update \in User /\ update.name = users[u].name /\ update.pass = users[u].pass
          /\ update.status = (IF k.status = None THEN users[u].status ELSE k.status)
          /\ update.role = (IF k.role = None THEN users[u].role ELSE k.role)
      BY <1>1, <1>3, <1>7 DEF User, JobOK
    <2>2. update.status \in {users[u].status, "active", "other"} \/ Disabling(k)
      BY <1>1, <1>7, <2>1 DEF JobOK, Disabling, Updates, Statuses
    <2>3. update.role = users[u].role \/ (k.op = "role" /\ update.role = k.role)
      BY <1>1, <1>7, <2>1 DEF JobOK, Updates
    <2>4. u = k.target
      BY <1>7 DEF Updates
    <2>5. hashed' \in 0..MaxHashes
      BY <1>4, <1>7
    <2> HIDE DEF update, k
    <2> QED
      BY <1>5, <1>7, <2>1, <2>2, <2>3, <2>4, <2>5
  <1> HIDE DEF k, u, rehash, update
  <1>8. CASE Become(t, Idle) /\ UNCHANGED hashed
    BY <1>1, <1>8, Stopping
  <1> QED
    BY <1>2, <1>6, <1>7, <1>8

\* An account is disabled only if it is not the only active owner.
LEMMA Sparing ==
  ASSUME UInv, NEW t \in Threads, LastOwner(t)
  PROVE  UInv'
  <1> DEFINE k == job[t]
             j == Step(k, "revokeAll")
  <1>1. JobOK(k) /\ OnlyReads /\ UNCHANGED hashed /\ hashed \in 0..MaxHashes /\ k.at = "owners"
    BY DEF UInv, Types, LastOwner
  <1>2. j = [k EXCEPT !.at = "revokeAll", !.copy = None]
    BY DEF Step
  <1>3. JobOK(j)
    BY <1>1, <1>2 DEF JobOK, IsJob, HasRecord, UserSteps
  <1>4. /\ j.at = "revokeAll" /\ j.op = k.op /\ j.id = k.id /\ j.user = k.user /\ j.copy = None
        /\ j.status = k.status /\ j.role = k.role /\ j.target = k.target /\ j.stale = k.stale
    BY <1>1, <1>2 DEF JobOK, IsJob
  <1>5. Become(t, Idle) \/ (Owners # {k.target} /\ Become(t, j))
    BY DEF LastOwner
  <1>6. "users" \notin lost /\ Fresh(k) => Current(k)
    BY DEF UInv, AllCurrent
  <1> HIDE DEF j, k
  <1>7. Owners # {k.target} /\ "users" \notin lost /\ Fresh(j) => Current(j)
    BY <1>1, <1>4, <1>6 DEF Current, Fresh, HasRecord, UserSteps, Disabling
  <1> QED
    BY <1>1, <1>3, <1>4, <1>5, <1>7, ReadsHeld, Stopping DEF k

LEMMA ChangingUsers ==
  ASSUME UInv, NEW t \in Threads, ChangeUsers(t)
  PROVE  UInv'
  <1> DEFINE k == job[t]
             j == [k EXCEPT !.copy = [users EXCEPT ![k.id] = k.user]]
  <1>1. JobOK(k) /\ OnlyReads /\ UNCHANGED hashed /\ hashed \in 0..MaxHashes /\ k.at \in UserSteps /\ Become(t, j)
    BY DEF UInv, Types, ChangeUsers
  <1>2. k.user \in User /\ k.id \in Ids /\ [users EXCEPT ![k.id] = k.user] \in UsersFile
    BY <1>1 DEF JobOK, HasRecord, UInv, Types, UsersFile
  <1>3. JobOK(j)
    BY <1>1, <1>2 DEF JobOK, IsJob, HasRecord
  <1>4. /\ j.at = k.at /\ j.op = k.op /\ j.id = k.id /\ j.user = k.user /\ j.copy = [users EXCEPT ![k.id] = k.user]
        /\ j.status = k.status /\ j.role = k.role /\ j.target = k.target /\ j.stale = k.stale
    BY <1>1 DEF JobOK, IsJob
  <1>5. "users" \notin lost /\ Fresh(k) => Current(k)
    BY DEF UInv, AllCurrent
  <1> HIDE DEF j, k
  <1>6. "users" \notin lost /\ Fresh(j) => Current(j)
    BY <1>4, <1>5 DEF Current, Fresh, HasRecord, Disabling
  <1>7. j.at # "issue"
    BY <1>1, <1>4 DEF UserSteps
  <1> QED
    BY <1>1, <1>3, <1>4, <1>6, <1>7, ReadsHeld DEF k

\* A request that has written the sessions file goes on with what it had in hand.
LEMMA Onward ==
  ASSUME NEW k, JobOK(k), k.at \in SessionSteps
  PROVE  /\ JobOK(Step(k, After(k)))
         /\ Fresh(Step(k, After(k))) /\ (Fresh(k) => Current(k)) => Current(Step(k, After(k)))
         /\ Step(k, After(k)).at # "issue"
         /\ Step(k, After(k)).op = "create" => k.op = "create"
  <1> DEFINE j == Step(k, After(k))
  <1>1. CASE After(k) = "idle"
    <2>1. j = Idle
      BY <1>1 DEF Step
    <2>2. ~HasRecord(Idle) /\ Idle.at # "issue" /\ Idle.op # "create"
      BY DEF Idle, HasRecord, UserSteps
    <2> QED
      BY <2>1, <2>2, IdleOK, LooseIsCurrent
  <1>2. CASE After(k) # "idle"
    <2>1. j = [k EXCEPT !.at = After(k), !.copy = None]
      BY <1>2 DEF Step
    <2>2. \/ k.at = "touch" /\ After(k) = "gate"
          \/ k.at = "issue" /\ After(k) = "stamp"
          \/ k.at = "revokeAll" /\ k.op = "status" /\ After(k) = "upsert"
      BY <1>2 DEF After, SessionSteps
    <2>3. JobOK(j)
      BY <2>1, <2>2 DEF JobOK, IsJob, HasRecord, UserSteps
    <2>4. /\ j.at = After(k) /\ j.op = k.op /\ j.id = k.id /\ j.user = k.user /\ j.copy = None
          /\ j.status = k.status /\ j.role = k.role /\ j.target = k.target /\ j.stale = k.stale
      BY <2>1 DEF JobOK, IsJob
    <2> HIDE DEF j
    <2>5. Current(k) => Current(j)
      BY <2>2, <2>4, AccountAssumption DEF Current, HasRecord, UserSteps, Disabling, JobOK
    <2> QED
      BY <2>2, <2>3, <2>4, <2>5 DEF Fresh, j
  <1> QED
    BY <1>1, <1>2

LEMMA RevokeIsFile ==
  ASSUME sessions \in SessionsFile, NEW S, \A s \in Sids : s \in S => sessions[s] # None
  PROVE  Revoke(S) \in SessionsFile
  <1>1. \A s \in Sids : s \in S => [sessions[s] EXCEPT !.revoked = TRUE] \in Session
    BY DEF SessionsFile, Session
  <1> QED
    BY <1>1 DEF Revoke, SessionsFile

LEMMA NewIsFile ==
  ASSUME sessions \in SessionsFile, NEW k, JobOK(k), k.at \in SessionSteps \ {"drop"}
  PROVE  NewSessions(k) \in SessionsFile
  <1>1. CASE k.at \in {"expel", "revoke"}
    <2>1. NewSessions(k) = Revoke({s \in {k.sid} : sessions[s] # None})
      BY <1>1 DEF NewSessions
    <2> QED
      BY <2>1, RevokeIsFile
  <1>2. CASE k.at = "revokeAll"
    <2>1. NewSessions(k) = Revoke({s \in Sids : sessions[s] # None /\ sessions[s].user = k.id})
      BY <1>2 DEF NewSessions
    <2> QED
      BY <2>1, RevokeIsFile
  <1>3. CASE k.at = "touch"
    BY <1>3 DEF NewSessions, SessionsFile
  <1>4. CASE k.at = "issue"
    <2> DEFINE r == [user |-> k.id, pass |-> k.user.pass, revoked |-> FALSE]
    <2>1. r \in Session
      BY <1>4 DEF JobOK, HasRecord, User, Session
    <2>2. NewSessions(k) = [sessions EXCEPT ![issued + 1] = r]
      BY <1>4 DEF NewSessions
    <2> HIDE DEF r
    <2> QED
      BY <2>1, <2>2 DEF SessionsFile
  <1> QED
    BY <1>1, <1>2, <1>3, <1>4 DEF SessionSteps

LEMMA ChangingSessions ==
  ASSUME UInv, NEW t \in Threads, ChangeSessions(t)
  PROVE  UInv'
  <1> DEFINE k == job[t]
             new == NewSessions(k)
             sid == IF k.at = "issue" THEN issued + 1 ELSE k.sid
             j == [k EXCEPT !.copy = new, !.sid = sid]
  <1>1. JobOK(k) /\ k.at \in SessionSteps \ {"drop"}
    BY DEF UInv, Types, ChangeSessions
  <1>2. /\ UNCHANGED <<office, users, lost, demoted>> /\ sessions' \in SessionsFile /\ issued' \in issued..MaxSessions
        /\ issued' # issued => k.at = "issue"
        /\ hashed' \in 0..MaxHashes /\ begun' \in 0..MaxRequests
    BY AccountAssumption DEF ChangeSessions, history, UInv, Types
  <1>3. "users" \notin lost /\ Fresh(k) => Current(k)
    BY DEF UInv, AllCurrent
  <1>4. k.op = "create" => issued > 0
    BY DEF UInv, Enrolled
  <1>5. "users" \notin lost /\ k.at = "issue" => Existing # {}
    BY DEF UInv, Enrolled
  <1>6. Become(t, Step(k, After(k))) \/ Become(t, j)
    BY DEF ChangeSessions
  <1>7. CASE Become(t, j)
    <2>1. new \in SessionsFile
      BY <1>1, NewIsFile DEF UInv, Types
    <2> HIDE DEF new, sid, k
    <2>2. JobOK(j)
      BY <1>1, <2>1 DEF JobOK, IsJob, HasRecord
    <2>3. /\ j.at = k.at /\ j.op = k.op /\ j.id = k.id /\ j.user = k.user
          /\ j.status = k.status /\ j.role = k.role /\ j.target = k.target /\ j.stale = k.stale
      BY <1>1 DEF JobOK, IsJob
    <2> HIDE DEF j
    <2>4. "users" \notin lost /\ Fresh(j) => Current(j)
      BY <1>1, <1>3, <2>3 DEF Current, Fresh, HasRecord, UserSteps, SessionSteps, Disabling
    <2> QED
      BY <1>2, <1>4, <1>5, <1>7, <2>2, <2>3, <2>4, Held DEF k
  <1>8. CASE Become(t, Step(k, After(k)))
    <2> DEFINE i == Step(k, After(k))
    <2>1. JobOK(i) /\ i.at # "issue" /\ (i.op = "create" => issued > 0)
      BY <1>1, <1>4, Onward
    <2>2. "users" \notin lost /\ Fresh(i) => Current(i)
      BY <1>1, <1>3, Onward
    <2> HIDE DEF i
    <2> QED
      BY <1>2, <1>8, <2>1, <2>2, Held DEF i
  <1> QED
    BY <1>6, <1>7, <1>8

----------------------------------------------------------------------------
\* Saving.

\* What a save of the accounts does to the request of another thread.
Kin(i, o) == /\ i.at = o.at /\ i.op = o.op /\ i.id = o.id /\ i.user = o.user /\ i.copy = o.copy
             /\ i.status = o.status /\ i.role = o.role /\ i.target = o.target /\ o.stale \subseteq i.stale

\* One that is not outdated by the new file is current in it.
LEMMA OthersCurrent ==
  ASSUME NEW o, NEW i, JobOK(o), Current(o), Kin(i, o), users \in UsersFile, users' \in UsersFile,
         \A u \in Existing : users'[u] # None /\ users'[u].name = users[u].name,
         users' = users \/ ~OutdatedUsers(o, users')
  PROVE  Current(i)'
  <1>1. CASE users' = users
    <2>1. Existing' = Existing /\ Owners' = Owners /\ \A n : Named(n)' = Named(n)
      BY <1>1 DEF Existing, Owners, Named
    <2> QED
      BY <1>1, <2>1 DEF Current, Kin, HasRecord, Disabling
  <1>2. CASE ~OutdatedUsers(o, users')
    <2>1. Existing \subseteq Existing'
      BY DEF Existing
    <2>2. ~(i.at \in UserSteps /\ i.copy # None)
      BY <1>2 DEF OutdatedUsers, Kin
    <2>3. i.at = "add" => /\ i.id \notin Existing' /\ Named(i.user.name)' = {}
                          /\ Existing' = {} => i.user.role = "owner" /\ i.user.status = "active"
      <3> SUFFICES ASSUME i.at = "add"
                   PROVE  /\ i.id \notin Existing' /\ Named(i.user.name)' = {}
                          /\ Existing' = {} => i.user.role = "owner" /\ i.user.status = "active"
        OBVIOUS
      <3>1. Existing' = Existing
        BY <1>2 DEF OutdatedUsers, Kin, Existing
      <3>2. /\ i.id \notin Existing /\ Named(i.user.name) = {}
            /\ Existing = {} => i.user.role = "owner" /\ i.user.status = "active"
        BY DEF Current, Kin
      <3>3. Named(i.user.name)' = {}
        BY <3>1, <3>2 DEF Named
      <3> QED
        BY <3>1, <3>2, <3>3
    <2>4. HasRecord(i) /\ i.at # "add" => /\ i.id \in Existing' /\ users'[i.id] = users[i.id]
                                          /\ HasRecord(o) /\ o.at # "add"
      BY <1>2, <2>1, <2>2 DEF OutdatedUsers, Kin, HasRecord, UserSteps, Current
    <2>5. Disabling(i) /\ i.at \in {"revokeAll", "upsert"} => Owners' # {i.id}
      <3> SUFFICES ASSUME Disabling(i), i.at \in {"revokeAll", "upsert"} PROVE Owners' # {i.id}
        OBVIOUS
      <3>1. i.op = "status"
        BY AccountAssumption DEF Disabling, Kin, JobOK
      <3>2. HasRecord(i) /\ i.at # "add"
        BY <3>1 DEF HasRecord, UserSteps
      <3>3. Owners # {i.id} /\ i.id \in Existing
        BY <3>2, <2>4 DEF Current, Kin, Disabling
      <3>4. Owners = {u \in Existing : users'[u] # None /\ users'[u].status # "disabled" /\ users'[u].role = "owner"}
        BY <1>2 DEF OutdatedUsers, Kin, Disabling
      <3>5. Owners = {u \in Owners' : u \in Existing}
        BY <2>1, <3>4 DEF Owners, Existing
      <3> QED
        BY <3>3, <3>5
    <2>6. i.at \in {"issue", "stamp"} => HasRecord(i) /\ i.at # "add"
      BY DEF HasRecord, UserSteps
    <2> QED
      BY <2>2, <2>3, <2>4, <2>5, <2>6 DEF Current, Kin, Disabling
  <1> QED
    BY <1>1, <1>2

\* A record that is current makes a sound file.
LEMMA SavedIsSound ==
  ASSUME UInv, NEW k, JobOK(k), Current(k), k.at \in UserSteps, k.copy # None, "users" \notin lost,
         users' = k.copy,
         demoted' = (demoted \/ Unseats(k))
  PROVE  /\ Sound'
         /\ \A u \in Existing : users'[u] # None /\ users'[u].name = users[u].name
  <1>1. users' = [users EXCEPT ![k.id] = k.user] /\ k.id \in Ids /\ k.user \in User /\ k.user # None /\ users \in UsersFile
    BY AccountAssumption DEF Current, JobOK, HasRecord, UInv, Types
  <1>2. \A u \in Ids : users'[u] = IF u = k.id THEN k.user ELSE users[u]
    BY <1>1 DEF UsersFile
  <1>3. Existing' = Existing \cup {k.id}
    BY <1>1, <1>2 DEF Existing
  <1>4. Existing = {} \/ Owners # {} \/ demoted
    BY DEF UInv, Sound
  <1>5. \A u, v \in Existing : users[u].name = users[v].name => u = v
    BY DEF UInv, Sound
  <1>9. \A u \in Existing' : users'[u].role = "owner" /\ users'[u].status = "other" => demoted'
    <2>1. \A u \in Existing : users[u].role = "owner" /\ users[u].status = "other" => demoted
      BY DEF UInv, Sound
    <2> QED
      BY <1>2, <1>3, <2>1 DEF Existing, Unseats
  <1>6. CASE k.at = "add"
    <2>1. /\ k.id \notin Existing /\ Named(k.user.name) = {}
          /\ Existing = {} => k.user.role = "owner" /\ k.user.status = "active"
      BY <1>6 DEF Current
    <2>2. \A u \in Existing : users'[u] = users[u] /\ users'[u] # None
      BY <1>2, <2>1 DEF Existing
    <2>3. Owners \subseteq Owners'
      BY <1>3, <2>2 DEF Owners
    <2>4. Existing = {} => k.id \in Owners'
      <3>1. k.id \in Existing' /\ users'[k.id] = k.user
        BY <1>1, <1>2, <1>3
      <3> QED
        BY <2>1, <3>1 DEF Owners
    <2>5. \A u \in Existing : users[u].name # k.user.name
      BY <2>1 DEF Named
    <2>6. \A u, v \in Existing' : users'[u].name = users'[v].name => u = v
      BY <1>2, <1>3, <1>5, <2>1, <2>2, <2>5 DEF Existing
    <2>7. Existing' = {} \/ Owners' # {} \/ demoted'
      BY <1>4, <2>3, <2>4
    <2> QED
      BY <1>9, <2>2, <2>6, <2>7 DEF Sound
  <1>7. CASE k.at # "add"
    <2>1. /\ k.id \in Existing /\ k.user.name = users[k.id].name
          /\ k.user.status \in {users[k.id].status, "active", "other"} \/ Disabling(k)
          /\ k.user.role = users[k.id].role \/ (k.op = "role" /\ k.user.role = k.role)
      BY <1>7 DEF Current, HasRecord
    <2>2. Existing' = Existing
      BY <1>3, <2>1
    <2>3. \A u \in Existing : users'[u] # None /\ users'[u].name = users[u].name
      BY <1>1, <1>2, <2>1 DEF Existing
    <2>4. \A u \in Owners : u # k.id => u \in Owners'
      BY <1>2, <2>2 DEF Owners, Existing
    <2>5. Existing' = {} \/ Owners' # {} \/ demoted'
      <3>1. CASE Owners = {} \/ demoted
        BY <1>4, <2>2, <3>1
      <3>2. CASE \E u \in Owners : u # k.id
        BY <2>4, <3>2
      <3>3. CASE Owners = {k.id}
        <4>1. users[k.id].status # "disabled" /\ users[k.id].role = "owner" /\ RoleOf(k.id) = "owner"
          BY <2>1, <3>3 DEF Owners, RoleOf
        <4>2. CASE k.user.role # "owner"
          <5>1. k.op = "role" /\ k.role = k.user.role /\ k.role # None
            BY <1>1, <2>1, <4>1, <4>2, AccountAssumption DEF User
          <5> QED
            BY <4>1, <4>2, <5>1 DEF Unseats
        <4>3. CASE k.user.role = "owner"
          <5>1. ~(Disabling(k) /\ k.at \in {"revokeAll", "upsert"})
            BY <3>3 DEF Current
          <5>2. k.at = "stamp" => k.user = users[k.id]
            BY DEF Current
          <5>3. k.at = "upsert" \/ k.at = "stamp"
            BY <1>7 DEF UserSteps
          <5>4. k.user.status # "disabled"
            BY <2>1, <4>1, <5>1, <5>2, <5>3
          <5>5. k.id \in Owners'
            BY <1>2, <2>1, <2>2, <4>3, <5>4 DEF Owners, Existing
          <5> QED
            BY <5>5
        <4> QED
          BY <4>2, <4>3
      <3> QED
        BY <3>1, <3>2, <3>3
    <2>6. \A u, v \in Existing' : users'[u].name = users'[v].name => u = v
      BY <1>5, <2>2, <2>3
    <2> QED
      BY <1>9, <2>3, <2>5, <2>6 DEF Sound
  <1> QED
    BY <1>6, <1>7

LEMMA SavingAccounts ==
  ASSUME UInv, NEW t \in Threads, SaveUsers(t)
  PROVE  UInv'
  <1> DEFINE k == job[t]
             L(o) == IF users' # users /\ OutdatedUsers(o, users') THEN {"users"} ELSE {}
  <1>1. /\ JobOK(k) /\ k.at \in UserSteps /\ k.copy # None /\ k.copy \in UsersFile
        /\ users' = k.copy /\ lost' = lost \cup (k.stale \cap {"users"})
        /\ demoted' = (demoted \/ Unseats(k))
    BY DEF SaveUsers, UInv, Types, JobOK, UserSteps, SessionSteps
  <1>2. UNCHANGED <<office, sessions, issued, hashed, begun>>
    BY DEF SaveUsers
  <1>3. job' = [o \in Threads |-> job'[o]]
    BY DEF SaveUsers
  <1>4. PICK i : i = job'[t]
    OBVIOUS
  <1>5. i = Step(k, After(k))
    BY <1>4 DEF SaveUsers
  <1>6. JobOK(i) /\ ~HasRecord(i) /\ i.at # "issue" /\ (i.op = "create" => k.op = "create")
    <2>1. CASE After(k) = "idle"
      <3>1. i = Idle
        BY <1>5, <2>1 DEF Step
      <3> QED
        BY <3>1, IdleOK DEF Idle, HasRecord, UserSteps
    <2>2. CASE After(k) # "idle"
      <3>1. i = [k EXCEPT !.at = After(k), !.copy = None]
        BY <1>5, <2>2 DEF Step
      <3>2. After(k) = "verify" \/ (After(k) = "revokeAll" /\ k.op \in Resets)
        BY <1>1, <2>2 DEF After, UserSteps
      <3> HIDE DEF k
      <3>3. JobOK(i) /\ i.at = After(k) /\ i.op = k.op
        BY <1>1, <3>1, <3>2 DEF JobOK, IsJob, HasRecord, UserSteps, Resets
      <3> QED
        BY <3>2, <3>3 DEF HasRecord, UserSteps, Resets
    <2> QED
      BY <2>1, <2>2
  <1>7. ASSUME NEW o \in Threads, o # t
        PROVE  JobOK(job'[o]) /\ Kin(job'[o], job[o]) /\ L(job[o]) \subseteq job'[o].stale
    <2>1. job'[o] = [job[o] EXCEPT !.stale = @ \cup L(job[o])]
      BY <1>1, <1>7 DEF SaveUsers
    <2>2. JobOK(job[o]) /\ L(job[o]) \subseteq {"users", "sessions"}
      BY DEF UInv, Types
    <2> HIDE DEF L
    <2> QED
      BY <2>1, <2>2 DEF JobOK, IsJob, HasRecord, Kin
  <1>8. Types'
    <2>1. \A o \in Threads : JobOK(job'[o])
      BY <1>4, <1>6, <1>7
    <2> QED
      BY <1>1, <1>2, <1>3, <2>1 DEF UInv, Types, JobOK, HasRecord, IsJob, UsersFile, SessionsFile
  <1>9. \A o \in Threads : /\ job'[o].op = "create" => job[o].op = "create"
                           /\ job'[o].at = "issue" => job[o].at = "issue"
    BY <1>4, <1>6, <1>7 DEF Kin
  <1>10. CASE "users" \in lost'
    BY <1>2, <1>8, <1>9, <1>10 DEF UInv, Enrolled, AllCurrent, Sound
  <1>11. CASE "users" \notin lost'
    <2>1. "users" \notin lost /\ Fresh(k)
      BY <1>1, <1>11 DEF Fresh
    <2>2. Current(k)
      BY <2>1 DEF UInv, AllCurrent
    <2>3. Sound' /\ \A u \in Existing : users'[u] # None /\ users'[u].name = users[u].name
      BY <1>1, <2>1, <2>2, SavedIsSound
    <2>4. Enrolled'
      <3>1. Existing \subseteq Existing'
        BY <2>3 DEF Existing
      <3>2. issued > 0 \/ (\E o \in Threads : job[o].at = "issue") => Existing # {}
        BY <2>1 DEF UInv, Enrolled
      <3>3. \A o \in Threads : job[o].op = "create" => issued > 0
        BY DEF UInv, Enrolled
      <3>4. \A o \in Threads : job'[o].op = "create" => issued' > 0
        BY <1>2, <1>9, <3>3
      <3>5. issued' > 0 \/ (\E o \in Threads : job'[o].at = "issue") => Existing' # {}
        BY <1>2, <1>9, <3>1, <3>2
      <3> QED
        BY <3>4, <3>5 DEF Enrolled
    <2>5. AllCurrent'
      <3> SUFFICES ASSUME NEW o \in Threads, Fresh(job'[o]) PROVE Current(job[o])'
        BY DEF AllCurrent, Fresh
      <3>1. CASE o = t
        <4>1. Disabling(i) => i.op = "status"
          BY <1>6, AccountAssumption DEF JobOK, Disabling
        <4> QED
          BY <1>4, <1>6, <3>1, <4>1 DEF Current, HasRecord, UserSteps, Disabling
      <3>2. CASE o # t
        <4>1. Kin(job'[o], job[o]) /\ (users' = users \/ ~OutdatedUsers(job[o], users'))
          BY <1>7, <3>2 DEF Fresh
        <4>2. PICK v : v = job'[o]
          OBVIOUS
        <4>3. JobOK(job[o]) /\ Current(job[o])
          BY <2>1, <4>1 DEF UInv, Types, AllCurrent, Fresh, Kin
        <4>4. users \in UsersFile /\ users' \in UsersFile
          BY <1>1 DEF UInv, Types
        <4>5. Current(v)'
          BY <2>3, <4>1, <4>2, <4>3, <4>4, OthersCurrent
        <4> QED
          BY <4>2, <4>5 DEF Current, HasRecord, Disabling
      <3> QED
        BY <3>1, <3>2
    <2> QED
      BY <1>8, <2>3, <2>4, <2>5 DEF UInv
  <1> QED
    BY <1>10, <1>11

LEMMA SavingBook ==
  ASSUME UInv, NEW t \in Threads, SaveSessions(t)
  PROVE  UInv'
  <1> DEFINE k == job[t]
  <1>1. /\ JobOK(k) /\ k.at \in SessionSteps /\ k.copy # None /\ k.copy \in SessionsFile /\ sessions' = k.copy
        /\ lost' = lost \cup (k.stale \cap {"sessions"})
    BY DEF SaveSessions, UInv, Types, JobOK, UserSteps, SessionSteps
  <1>2. /\ UNCHANGED <<office, users, issued, hashed, begun, demoted>> /\ job' = [o \in Threads |-> job'[o]]
        /\ "users" \in lost' <=> "users" \in lost
    BY <1>1 DEF SaveSessions
  <1>3. PICK i : i = job'[t]
    OBVIOUS
  <1>4. JobOK(i) /\ (Fresh(i) /\ (Fresh(k) => Current(k)) => Current(i)) /\ i.at # "issue" /\ (i.op = "create" => k.op = "create")
    <2>1. i = Step(k, After(k))
      BY <1>3 DEF SaveSessions
    <2> HIDE DEF k
    <2> QED
      BY <1>1, <2>1, Onward
  <1>5. ASSUME NEW o \in Threads, o # t
        PROVE  JobOK(job'[o]) /\ Kin(job'[o], job[o])
    <2>1. PICK L \in SUBSET {"sessions"} : job'[o] = [job[o] EXCEPT !.stale = @ \cup L]
      BY <1>5 DEF SaveSessions
    <2>2. JobOK(job[o])
      BY DEF UInv, Types
    <2> QED
      BY <2>1, <2>2 DEF JobOK, IsJob, HasRecord, Kin
  <1>6. Types'
    <2>1. \A o \in Threads : JobOK(job'[o])
      BY <1>3, <1>4, <1>5
    <2> QED
      BY <1>1, <1>2, <2>1 DEF UInv, Types, JobOK, HasRecord, IsJob, UsersFile, SessionsFile
  <1>7. \A o \in Threads : /\ job'[o].op = "create" => job[o].op = "create"
                           /\ job'[o].at = "issue" => job[o].at = "issue"
    BY <1>3, <1>4, <1>5 DEF Kin
  <1>8. Existing' = Existing /\ Owners' = Owners /\ \A n : Named(n)' = Named(n)
    BY <1>2 DEF Existing, Owners, Named
  <1>9. Enrolled'
    BY <1>2, <1>7, <1>8 DEF UInv, Enrolled
  <1>10. AllCurrent'
    <2> SUFFICES ASSUME "users" \notin lost, NEW o \in Threads, Fresh(job'[o]) PROVE Current(job[o])'
      BY <1>2 DEF AllCurrent, Fresh
    <2>1. PICK v : v = job'[o]
      OBVIOUS
    <2>2. Current(v)
      <3>1. CASE o = t
        <4>1. Fresh(k) => Current(k)
          BY DEF UInv, AllCurrent
        <4> QED
          BY <1>3, <1>4, <2>1, <3>1, <4>1
      <3>2. CASE o # t
        <4>1. Kin(v, job[o])
          BY <1>5, <2>1, <3>2
        <4>2. Current(job[o])
          BY <2>1, <4>1 DEF UInv, AllCurrent, Fresh, Kin
        <4> QED
          BY <4>1, <4>2 DEF Kin, Current, HasRecord, Disabling
      <3> QED
        BY <3>1, <3>2
    <2> QED
      BY <1>2, <1>8, <2>1, <2>2 DEF Current, HasRecord, Disabling, Named
  <1>11. Sound'
    BY <1>2, <1>8 DEF UInv, Sound
  <1> QED
    BY <1>6, <1>9, <1>10, <1>11 DEF UInv

----------------------------------------------------------------------------
\* The theorems.

LEMMA InitUInv == Init => UInv
  <1> SUFFICES ASSUME Init PROVE UInv
    OBVIOUS
  <1>1. office \in Offices /\ users = office.users /\ office.users \in UsersFile
    BY AccountAssumption DEF Init, UsersFile
  <1>2. PICK n \in 0..MaxSessions : n <= MaxHashes /\ Existing = 1..n
    BY <1>1, OfficeAssumption DEF Existing
  <1>3. /\ Existing = {} \/ \E u \in Existing : users[u].status = "active" /\ users[u].role = "owner"
        /\ \A u \in Existing : users[u].role = "owner" => users[u].status # "other"
        /\ \A u, v \in Existing : users[u].name = users[v].name => u = v
    BY <1>1, OfficeAssumption DEF Existing
  <1>4. n \in Nat /\ issued = n /\ hashed = n
    <2>1. Cardinality(1..n) = IF 1 > n THEN 0 ELSE n - 1 + 1
      BY AccountAssumption, FS_Interval
    <2> QED
      BY <1>2, <2>1, AccountAssumption DEF Init
  <1>5. sessions \in SessionsFile
    <2>1. \A s \in Sids : s \in Existing => [user |-> s, pass |-> users[s].pass, revoked |-> FALSE] \in Session
      BY <1>1 DEF Existing, UsersFile, User, Session
    <2> QED
      BY <2>1 DEF Init, SessionsFile
  <1>6. \A t \in Threads : job[t] = Idle
    BY DEF Init
  <1>7. Types
    BY <1>1, <1>2, <1>4, <1>5, <1>6, IdleOK, AccountAssumption DEF Init, Types
  <1>8. Idle.op # "create" /\ Idle.at # "issue" /\ ~HasRecord(Idle)
    BY DEF Idle, HasRecord, UserSteps
  <1>9. Enrolled
    BY <1>2, <1>4, <1>6, <1>8 DEF Enrolled
  <1>10. AllCurrent
    BY <1>6, <1>8, IdleOK, LooseIsCurrent DEF AllCurrent
  <1>11. Sound
    BY <1>3 DEF Sound, Owners
  <1> QED
    BY <1>7, <1>9, <1>10, <1>11 DEF UInv

LEMMA NextUInv == UInv /\ [Next]_vars => UInv'
  <1> SUFFICES ASSUME UInv, [Next]_vars PROVE UInv'
    OBVIOUS
  <1>1. ASSUME UNCHANGED <<office, users, sessions, job, issued, hashed, begun, lost, demoted>> PROVE UInv'
    <2>1. Types'
      BY <1>1 DEF UInv, Types, JobOK, HasRecord, IsJob, UsersFile, SessionsFile
    <2>2. Existing' = Existing /\ Owners' = Owners /\ \A n : Named(n)' = Named(n)
      BY <1>1 DEF Existing, Owners, Named
    <2>3. Enrolled' /\ Sound'
      BY <1>1, <2>2 DEF UInv, Enrolled, Sound
    <2>4. AllCurrent'
      BY <1>1, <2>2 DEF UInv, AllCurrent, Current, Fresh, HasRecord, Disabling, Named
    <2> QED
      BY <2>1, <2>3, <2>4 DEF UInv
  <1>2. ASSUME NEW t \in Threads, Begin(t) \/ GetSession(t) \/ GetUser(t) \/ Gate(t) \/ Resolve(t)
        PROVE  UInv'
    BY <1>2, Beginning, FindingUser, Admitting
  <1>3. ASSUME NEW t \in Threads, HasUsers(t) \/ NameFree(t) \/ Verify(t) \/ ReadRecord(t) \/ LastOwner(t)
        PROVE  UInv'
    BY <1>3, Adding, Verifying, Reckoning, Sparing
  <1>4. ASSUME NEW t \in Threads, ChangeUsers(t) \/ ChangeSessions(t) \/ SaveUsers(t) \/ SaveSessions(t)
        PROVE  UInv'
    BY <1>4, ChangingUsers, ChangingSessions, SavingAccounts, SavingBook
  <1>5. CASE \E s \in Sids : Deadline(s)
    BY <1>1, <1>5 DEF Deadline, history
  <1>6. CASE UNCHANGED vars
    BY <1>1, <1>6 DEF vars, history
  <1> QED
    BY <1>2, <1>3, <1>4, <1>5, <1>6 DEF Next

\* Type correctness: the files hold users and sessions, and a request that is about to write
\* has a record, and a copy of the file that it writes.
THEOREM TypeCorrect == Spec => []TypeOK
  <1>1. UInv => TypeOK
    BY TypesTypeOK DEF UInv
  <1> QED
    BY <1>1, InitUInv, NextUInv, PTL DEF Spec

\* However many threads serve requests: once an account exists there is an active owner, unless
\* the role of one was taken away or one was given a status that is neither active nor
\* disabled, and no two accounts have the same name - as long as no
\* thread saves a users file that it decided on before another thread's save.
THEOREM OwnersRemain == Spec => []AccountsSound
  <1>1. UInv => AccountsSound
    BY SoundAccounts
  <1> QED
    BY <1>1, InitUInv, NextUInv, PTL DEF Spec

----------------------------------------------------------------------------
\* A new password ends the sessions opened with the old one.

Live(f, s) == f[s] # None /\ ~f[s].revoked

\* The request j has saved a new password and has yet to revoke the user's sessions.
Ending(j, u) == j.op \in Resets /\ j.at = "revokeAll" /\ j.id = u
Revoking(u) == \E t \in Threads : Ending(job[t], u)

\* The session was opened with the user's password.
Matches(e) == e.user \in Existing /\ e.pass = users[e.user].pass

\* A copy that is not stale keeps live sessions as they are and adds one of the record in
\* hand; that of a request with a new password keeps none of the user's.
Derived(j) ==
    /\ \A s \in Sids : Live(j.copy, s) =>
          \/ j.copy[s] = sessions[s]
          \/ j.at = "issue" /\ s = j.sid /\ j.copy[s].user = j.id /\ j.copy[s].pass = j.user.pass
    /\ j.at = "revokeAll" => \A s \in Sids : Live(j.copy, s) => j.copy[s].user # j.id

PInv ==
    lost = {} =>
        /\ \A s \in Sids : Live(sessions, s) =>
              s \in outrun \/ Revoking(sessions[s].user) \/ Matches(sessions[s])
        /\ \A t \in Threads : Writes(job[t]) /\ "sessions" \notin job[t].stale => Derived(job[t])

\* A step that leaves both files alone.
LEMMA PHeld ==
  ASSUME UInv, PInv, NEW t \in Threads, NEW j, Become(t, j), UNCHANGED <<users, sessions, outrun, lost>>,
         \A u : Ending(job[t], u) /\ lost = {} => \A s \in Sids : Live(sessions, s) => sessions[s].user # u,
         lost = {} /\ Writes(j) /\ "sessions" \notin j.stale => Derived(j)
  PROVE  PInv'
  <1>1. \A o \in Threads : job'[o] = IF o = t THEN j ELSE job[o]
    BY DEF UInv, Types, Become
  <1>2. SUFFICES ASSUME lost = {}
                 PROVE  /\ \A s \in Sids : Live(sessions, s) =>
                             s \in outrun \/ Revoking(sessions[s].user)' \/ Matches(sessions[s])
                        /\ \A o \in Threads : Writes(job'[o]) /\ "sessions" \notin job'[o].stale => Derived(job'[o])
    BY DEF PInv, Live, Revoking, Ending, Matches, Existing, Writes, Derived
  <1>3. ASSUME NEW s \in Sids, Live(sessions, s)
        PROVE  s \in outrun \/ Revoking(sessions[s].user)' \/ Matches(sessions[s])
    <2>1. s \in outrun \/ Revoking(sessions[s].user) \/ Matches(sessions[s])
      BY <1>2, <1>3 DEF PInv
    <2>2. CASE Revoking(sessions[s].user)
      <3>1. PICK o \in Threads : Ending(job[o], sessions[s].user)
        BY <2>2 DEF Revoking
      <3>2. o # t
        BY <1>2, <1>3, <3>1
      <3>3. Ending(job'[o], sessions[s].user)
        BY <1>1, <3>1, <3>2
      <3> QED
        BY <3>3 DEF Revoking, Ending
    <2> QED
      BY <2>1, <2>2
  <1>4. \A o \in Threads : Writes(job'[o]) /\ "sessions" \notin job'[o].stale => Derived(job'[o])
    BY <1>1, <1>2 DEF PInv
  <1> QED
    BY <1>3, <1>4

\* The steps that read, or change accounts in memory, copy no sessions.
LEMMA PlainSteps ==
  ASSUME IInv, NEW t \in Threads,
         \/ Begin(t) \/ GetUser(t) \/ Gate(t) \/ Resolve(t) \/ LastOwner(t)
         \/ HasUsers(t) \/ NameFree(t) \/ Verify(t) \/ ReadRecord(t) \/ ChangeUsers(t)
  PROVE  /\ \E j : Become(t, j) /\ ~Writes(j)
         /\ job[t].at # "revokeAll" /\ UNCHANGED <<users, sessions, outrun, lost>>
  <1>1. CASE Begin(t)
    <2>1. (\E r \in Requests : Become(t, r)) /\ job[t].at # "revokeAll"
      BY <1>1 DEF Begin, Idle
    <2> QED
      BY <1>1, <2>1, RequestIsJob DEF Begin, history
  <1>2. CASE GetUser(t)
    BY <1>2, HandsOver DEF GetUser, OnlyReads, history
  <1>3. CASE Gate(t)
    <2>1. OnlyReads /\ (Become(t, Idle) \/ \E at : Become(t, Step(job[t], at))) /\ job[t].at # "revokeAll"
      BY <1>3 DEF Gate
    <2> QED
      BY <2>1, HandsOver, IdleIsJob DEF OnlyReads, history
  <1>4. CASE Resolve(t)
    BY <1>4, IdleIsJob DEF Resolve, OnlyReads, history
  <1>5. CASE LastOwner(t)
    BY <1>5, HandsOver, IdleIsJob DEF LastOwner, OnlyReads, history
  <1>6. \A n, r, x : New(t, n, r, x) => \E j : Become(t, j) /\ ~Writes(j)
    BY HandsOver DEF New
  <1>7. CASE HasUsers(t)
    BY <1>6, <1>7, IdleIsJob DEF HasUsers, OnlyReads, history
  <1>8. CASE NameFree(t)
    BY <1>6, <1>8, IdleIsJob DEF NameFree, OnlyReads, history
  <1>9. CASE Verify(t)
    <2>1. IsJob([job[t] EXCEPT !.stale = {}])
      BY HandsOver DEF IsJob
    <2>2. \A u, r : ~Writes(With(Step([job[t] EXCEPT !.stale = {}], "issue"), u, r))
      BY <2>1, StepIsJob, WithIsJob
    <2> QED
      BY <1>9, <2>2, IdleIsJob DEF Verify, OnlyReads, history
  <1>10. CASE ReadRecord(t)
    <2>1. OnlyReads /\ (Become(t, Idle) \/ \E at, u, r : Become(t, With(Step(job[t], at), u, r)))
          /\ job[t].at # "revokeAll"
      BY <1>10 DEF ReadRecord
    <2> QED
      BY <2>1, HandsOver, IdleIsJob DEF OnlyReads, history
  <1>11. CASE ChangeUsers(t)
    <2> DEFINE j == [job[t] EXCEPT !.copy = [users EXCEPT ![job[t].id] = job[t].user]]
    <2>1. IsJob(job[t]) /\ job[t].at \in UserSteps
      BY <1>11, HandsOver DEF ChangeUsers
    <2>2. ~Writes(j) /\ job[t].at # "revokeAll"
      BY <2>1 DEF IsJob, Writes, UserSteps, SessionSteps
    <2>3. Become(t, j) /\ OnlyReads
      BY <1>11 DEF ChangeUsers
    <2> QED
      BY <2>2, <2>3 DEF OnlyReads, history
  <1> QED
    BY <1>1, <1>2, <1>3, <1>4, <1>5, <1>7, <1>8, <1>9, <1>10, <1>11

LEMMA PPlain ==
  ASSUME IInv, UInv, PInv, NEW t \in Threads,
         \/ Begin(t) \/ GetUser(t) \/ Gate(t) \/ Resolve(t) \/ LastOwner(t)
         \/ HasUsers(t) \/ NameFree(t) \/ Verify(t) \/ ReadRecord(t) \/ ChangeUsers(t)
  PROVE  PInv'
  <1>1. PICK j : Become(t, j) /\ ~Writes(j)
    BY PlainSteps
  <1>2. \A u : ~Ending(job[t], u)
    BY PlainSteps DEF Ending
  <1>3. UNCHANGED <<users, sessions, outrun, lost>>
    BY PlainSteps
  <1> QED
    BY <1>1, <1>2, <1>3, PHeld

LEMMA PFinding ==
  ASSUME IInv, UInv, PInv, NEW t \in Threads, GetSession(t)
  PROVE  PInv'
  <1> DEFINE s == job[t].sid
             f == [sessions EXCEPT ![s] = None]
             j == [Step(job[t], "drop") EXCEPT !.copy = f]
  <1>1. UNCHANGED <<users, sessions, outrun, lost>> /\ \A u : ~Ending(job[t], u)
    BY DEF GetSession, OnlyReads, history, Ending
  <1>2. Become(t, Step(job[t], "gate")) \/ (\E u : Become(t, With(Step(job[t], "user"), u, None)))
        \/ Become(t, Idle) \/ Become(t, j)
    BY DEF GetSession
  <1>3. CASE Become(t, j)
    <2>1. Step(job[t], "drop") = [job[t] EXCEPT !.at = "drop", !.copy = None]
      BY DEF Step
    <2>2. j.copy = f /\ j.at = "drop"
      BY <2>1, HandsOver DEF IsJob
    <2>3. \A x \in Sids : Live(f, x) => f[x] = sessions[x]
      BY DEF UInv, Types, SessionsFile, Live
    <2> HIDE DEF j, f
    <2>4. Derived(j)
      BY <2>2, <2>3 DEF Derived
    <2> QED
      BY <1>1, <1>3, <2>4, PHeld
  <1>4. CASE ~Become(t, j)
    <2>1. \E i : Become(t, i) /\ ~Writes(i)
      BY <1>2, <1>4, HandsOver, IdleIsJob
    <2> HIDE DEF j
    <2> QED
      BY <1>1, <2>1, PHeld
  <1> QED
    BY <1>3, <1>4

\* What a step makes of the sessions is derived from them.
LEMMA RevokeIsDerived ==
  ASSUME UInv, NEW S, \A s \in Sids : s \in S => sessions[s] # None
  PROVE  \A s \in Sids : Live(Revoke(S), s) => s \notin S /\ Revoke(S)[s] = sessions[s]
  <1>1. \A s \in Sids : s \in S => [sessions[s] EXCEPT !.revoked = TRUE].revoked
    BY DEF UInv, Types, SessionsFile, Session
  <1> QED
    BY <1>1 DEF Revoke, Live

LEMMA NewIsDerived ==
  ASSUME UInv, NEW k, JobOK(k), k.at \in SessionSteps \ {"drop"}, NEW s \in Sids, Live(NewSessions(k), s)
  PROVE  /\ \/ NewSessions(k)[s] = sessions[s]
            \/ /\ k.at = "issue" /\ s = issued + 1
               /\ NewSessions(k)[s].user = k.id /\ NewSessions(k)[s].pass = k.user.pass
         /\ k.at = "revokeAll" => NewSessions(k)[s] = sessions[s] /\ sessions[s].user # k.id
  <1>1. CASE k.at \in {"expel", "revoke"}
    <2>1. NewSessions(k) = Revoke({x \in {k.sid} : sessions[x] # None})
      BY <1>1 DEF NewSessions
    <2> QED
      BY <1>1, <2>1, RevokeIsDerived
  <1>2. CASE k.at = "revokeAll"
    <2> DEFINE S == {x \in Sids : sessions[x] # None /\ sessions[x].user = k.id}
    <2>1. NewSessions(k) = Revoke(S)
      BY <1>2 DEF NewSessions
    <2>2. s \notin S /\ Revoke(S)[s] = sessions[s]
      BY <2>1, RevokeIsDerived
    <2>3. sessions[s] # None
      BY <2>1, <2>2 DEF Live
    <2> QED
      BY <1>2, <2>1, <2>2, <2>3
  <1>3. CASE k.at = "touch"
    BY <1>3 DEF NewSessions, UInv, Types, SessionsFile, Live
  <1>4. CASE k.at = "issue"
    <2> DEFINE r == [user |-> k.id, pass |-> k.user.pass, revoked |-> FALSE]
    <2>1. NewSessions(k) = [sessions EXCEPT ![issued + 1] = r] /\ r.user = k.id /\ r.pass = k.user.pass
      BY <1>4 DEF NewSessions
    <2> HIDE DEF r
    <2> QED
      BY <1>4, <2>1 DEF UInv, Types, SessionsFile
  <1> QED
    BY <1>1, <1>2, <1>3, <1>4 DEF SessionSteps

LEMMA PChanging ==
  ASSUME IInv, UInv, PInv, NEW t \in Threads, ChangeSessions(t)
  PROVE  PInv'
  <1> DEFINE k == job[t]
             new == NewSessions(k)
             sid == IF k.at = "issue" THEN issued + 1 ELSE k.sid
             j == [k EXCEPT !.copy = new, !.sid = sid]
  <1>1. JobOK(k) /\ k.at \in SessionSteps \ {"drop"} /\ UNCHANGED <<users, sessions, outrun, lost>>
    BY DEF UInv, Types, ChangeSessions, history
  <1>2. Become(t, j) \/ (new = sessions /\ Become(t, Step(k, After(k))))
    BY DEF ChangeSessions
  <1>3. new = sessions => \A u : Ending(k, u) => \A s \in Sids : Live(sessions, s) => sessions[s].user # u
    <2> HIDE DEF k
    <2> QED
      BY <1>1, NewIsDerived DEF Ending
  <1>4. CASE new = sessions /\ Become(t, Step(k, After(k)))
    <2>1. ~Writes(Step(k, After(k)))
      BY HandsOver
    <2> QED
      BY <1>1, <1>3, <1>4, <2>1, PHeld
  <1>5. CASE Become(t, j)
    <2>1. \A s \in Sids : Live(new, s) =>
             /\ \/ new[s] = sessions[s]
                \/ k.at = "issue" /\ s = issued + 1 /\ new[s].user = k.id /\ new[s].pass = k.user.pass
             /\ k.at = "revokeAll" => new[s] = sessions[s] /\ sessions[s].user # k.id
      BY <1>1, NewIsDerived
    <2> HIDE DEF new
    <2>2. j.copy = new /\ j.sid = sid /\ j.at = k.at /\ j.id = k.id /\ j.user = k.user /\ IsJob(j)
      BY <1>1 DEF JobOK, IsJob
    <2> HIDE DEF j
    <2>3. Derived(j)
      BY <2>1, <2>2 DEF Derived
    <2>4. \A o \in Threads : job'[o] = IF o = t THEN j ELSE job[o]
      BY <1>5 DEF UInv, Types, Become
    <2>5. \A u : Revoking(u) => Revoking(u)'
      <3> SUFFICES ASSUME NEW u, Revoking(u) PROVE Revoking(u)'
        OBVIOUS
      <3>1. PICK o \in Threads : Ending(job[o], u)
        BY DEF Revoking
      <3>2. j.op = k.op
        BY <1>1 DEF JobOK, IsJob, j
      <3>3. Ending(job'[o], u)
        BY <2>2, <2>4, <3>1, <3>2 DEF Ending
      <3> QED
        BY <3>3 DEF Revoking, Ending
    <2> QED
      <3> SUFFICES ASSUME lost = {}
                   PROVE  /\ \A s \in Sids : Live(sessions, s) =>
                               s \in outrun \/ Revoking(sessions[s].user)' \/ Matches(sessions[s])
                          /\ \A o \in Threads : Writes(job'[o]) /\ "sessions" \notin job'[o].stale => Derived(job'[o])
        BY <1>1 DEF PInv, Live, Revoking, Ending, Matches, Existing, Writes, Derived
      <3>1. \A s \in Sids : Live(sessions, s) => s \in outrun \/ Revoking(sessions[s].user) \/ Matches(sessions[s])
        BY DEF PInv
      <3>2. \A o \in Threads : Writes(job'[o]) /\ "sessions" \notin job'[o].stale => Derived(job'[o])
        BY <2>3, <2>4 DEF PInv
      <3>3. ASSUME NEW s \in Sids, Live(sessions, s)
            PROVE  s \in outrun \/ Revoking(sessions[s].user)' \/ Matches(sessions[s])
        <4>1. PICK e : e = sessions[s]
          OBVIOUS
        <4>2. s \in outrun \/ Revoking(e.user)' \/ Matches(e)
          BY <2>5, <3>1, <3>3, <4>1
        <4> QED
          BY <1>1, <4>1, <4>2 DEF Revoking, Ending
      <3> QED
        BY <3>2, <3>3
  <1> QED
    BY <1>2, <1>4, <1>5

LEMMA PSavingAccounts ==
  ASSUME UInv, PInv, NEW t \in Threads, SaveUsers(t)
  PROVE  PInv'
  <1> DEFINE k == job[t]
  <1>1. /\ JobOK(k) /\ k.at \in UserSteps /\ k.copy # None /\ k.copy \in UsersFile
        /\ users' = k.copy /\ lost' = lost \cup (k.stale \cap {"users"}) /\ UNCHANGED <<sessions, outrun>>
    BY DEF SaveUsers, UInv, Types, JobOK, UserSteps, SessionSteps
  <1>2. SUFFICES ASSUME lost' = {}
                 PROVE  /\ \A s \in Sids : Live(sessions, s) =>
                             s \in outrun \/ Revoking(sessions[s].user)' \/ Matches(sessions[s])'
                        /\ \A o \in Threads : Writes(job'[o]) /\ "sessions" \notin job'[o].stale => Derived(job'[o])
    BY <1>1 DEF PInv, Live, Revoking, Ending, Matches, Existing, Writes, Derived
  <1>3. lost = {} /\ Fresh(k)
    BY <1>1, <1>2 DEF Fresh
  <1>4. Current(k) /\ users' = [users EXCEPT ![k.id] = k.user] /\ k.id \in Ids /\ k.user \in User /\ users \in UsersFile
    BY <1>1, <1>3 DEF UInv, AllCurrent, Current, Types, JobOK, HasRecord
  <1>5. \A u \in Ids : users'[u] = IF u = k.id THEN k.user ELSE users[u]
    BY <1>4 DEF UsersFile
  <1>6. PICK i : i = job'[t] /\ i = Step(k, After(k))
    BY DEF SaveUsers
  <1>7. k.at = "upsert" /\ k.op \in Resets => Ending(i, k.id)
    <2> SUFFICES ASSUME k.at = "upsert", k.op \in Resets PROVE Ending(i, k.id)
      OBVIOUS
    <2>1. i = [k EXCEPT !.at = "revokeAll", !.copy = None]
      BY <1>6 DEF Step, After
    <2> HIDE DEF k
    <2> QED
      BY <1>1, <2>1 DEF Ending, JobOK, IsJob
  <1>8. ~Writes(i)
    <2>1. IsJob(k)
      BY <1>1 DEF JobOK
    <2> QED
      BY <1>6, <2>1, StepIsJob
  <1>9. ASSUME NEW o \in Threads, o # t
        PROVE  /\ job'[o].at = job[o].at /\ job'[o].op = job[o].op /\ job'[o].id = job[o].id /\ job'[o].user = job[o].user
               /\ job'[o].copy = job[o].copy /\ job'[o].sid = job[o].sid /\ job[o].stale \subseteq job'[o].stale
    <2>1. PICK L : job'[o] = [job[o] EXCEPT !.stale = @ \cup L]
      BY <1>9 DEF SaveUsers
    <2>2. JobOK(job[o])
      BY DEF UInv, Types
    <2> QED
      BY <2>1, <2>2 DEF JobOK, IsJob
  <1>10. \A u : Revoking(u) => Revoking(u)'
    <2> SUFFICES ASSUME NEW u, NEW o \in Threads, Ending(job[o], u) PROVE Ending(job'[o], u)
      BY DEF Revoking, Ending
    <2>1. o # t
      BY <1>1 DEF Ending, UserSteps
    <2> QED
      BY <1>9, <2>1 DEF Ending
  <1>11. ASSUME NEW e, Matches(e)
         PROVE  Revoking(e.user)' \/ Matches(e)'
    <2>1. CASE e.user # k.id
      BY <1>5, <1>11, <2>1 DEF Matches, Existing
    <2>2. CASE e.user = k.id
      <3>1. k.at # "add" /\ k.id \in Existing
        BY <1>4, <1>11, <2>2 DEF Current, Matches
      <3>2. k.user.pass = users[k.id].pass \/ k.op \in Resets
        BY <1>1, <1>4, <3>1 DEF Current, HasRecord
      <3>3. k.at = "stamp" => k.user = users[k.id]
        BY <1>4 DEF Current
      <3>4. CASE k.user.pass = users[k.id].pass
        <4>1. k.user # None /\ users'[k.id] = k.user
          BY <1>4, <1>5, AccountAssumption
        <4> QED
          BY <1>4, <1>11, <2>2, <3>4, <4>1 DEF Matches, Existing
      <3>5. CASE k.at = "upsert" /\ k.op \in Resets
        BY <1>6, <1>7, <2>2, <3>5 DEF Revoking, Ending
      <3> QED
        BY <1>1, <3>1, <3>2, <3>3, <3>4, <3>5 DEF UserSteps
    <2> QED
      BY <2>1, <2>2
  <1>12. ASSUME NEW s \in Sids, Live(sessions, s)
         PROVE  s \in outrun \/ Revoking(sessions[s].user)' \/ Matches(sessions[s])'
    <2>1. PICK e : e = sessions[s]
      OBVIOUS
    <2>2. s \in outrun \/ Revoking(e.user) \/ Matches(e)
      BY <1>3, <1>12, <2>1 DEF PInv
    <2>3. s \in outrun \/ Revoking(e.user)' \/ Matches(e)'
      BY <1>10, <1>11, <2>2
    <2> QED
      BY <1>1, <2>1, <2>3 DEF Revoking, Ending, Matches, Existing
  <1>13. ASSUME NEW o \in Threads, Writes(job'[o]), "sessions" \notin job'[o].stale
         PROVE  Derived(job'[o])
    <2>1. o # t
      BY <1>6, <1>8, <1>13
    <2>2. Writes(job[o]) /\ "sessions" \notin job[o].stale
      BY <1>9, <1>13, <2>1 DEF Writes
    <2>3. Derived(job[o])
      BY <1>3, <2>2 DEF PInv
    <2> QED
      BY <1>9, <2>1, <2>3 DEF Derived
  <1> QED
    BY <1>12, <1>13

LEMMA PSavingSessions ==
  ASSUME IInv, UInv, PInv, NEW t \in Threads, SaveSessions(t)
  PROVE  PInv'
  <1> DEFINE k == job[t]
             Stopped(u) == \E o \in Threads : Ending(job'[o], u)
             Follows(j) ==
                 /\ \A s \in Sids : Live(j.copy, s) =>
                       \/ j.copy[s] = sessions'[s]
                       \/ j.at = "issue" /\ s = j.sid /\ j.copy[s].user = j.id /\ j.copy[s].pass = j.user.pass
                 /\ j.at = "revokeAll" => \A s \in Sids : Live(j.copy, s) => j.copy[s].user # j.id
  <1>1. /\ JobOK(k) /\ Writes(k) /\ k.copy \in SessionsFile /\ UNCHANGED users
        /\ sessions' = k.copy /\ lost' = lost \cup (k.stale \cap {"sessions"})
        /\ outrun' = IF k.at = "issue" /\ "users" \in k.stale THEN outrun \cup {k.sid} ELSE outrun
    BY DEF SaveSessions, UInv, Types, JobOK, Writes, UserSteps, SessionSteps
  <1>2. SUFFICES ASSUME lost' = {}
                 PROVE  /\ \A s \in Sids : Live(sessions', s) =>
                             s \in outrun' \/ Stopped(sessions'[s].user) \/ Matches(sessions'[s])
                        /\ \A o \in Threads : Writes(job'[o]) /\ "sessions" \notin job'[o].stale => Follows(job'[o])
    BY <1>1 DEF PInv, Live, Revoking, Ending, Matches, Existing, Writes, Derived
  <1>3. lost = {} /\ "sessions" \notin k.stale /\ Derived(k)
    BY <1>1, <1>2 DEF PInv
  <1>4. PICK i : i = job'[t] /\ i = Step(k, After(k))
    BY DEF SaveSessions
  <1>5. ~Writes(i)
    BY <1>1, <1>4, StepIsJob DEF JobOK
  <1>6. ASSUME NEW o \in Threads, o # t
        PROVE  /\ job'[o].at = job[o].at /\ job'[o].op = job[o].op /\ job'[o].id = job[o].id /\ job'[o].user = job[o].user
               /\ job'[o].copy = job[o].copy /\ job'[o].sid = job[o].sid /\ job[o].stale \subseteq job'[o].stale
               /\ sessions' # sessions /\ Writes(job[o]) => "sessions" \in job'[o].stale
    <2>1. job'[o] = [job[o] EXCEPT !.stale = @ \cup (IF k.copy # sessions /\ job[o].at \in SessionSteps /\ job[o].copy # None
                                                     THEN {"sessions"} ELSE {})]
      BY <1>6 DEF SaveSessions
    <2>2. JobOK(job[o])
      BY DEF UInv, Types
    <2> HIDE DEF k
    <2> QED
      BY <1>1, <2>1, <2>2 DEF JobOK, IsJob, Writes
  <1>7. ASSUME NEW u, Revoking(u), ~(k.at = "revokeAll" /\ k.id = u)
        PROVE  Stopped(u)
    <2>1. PICK o \in Threads : Ending(job[o], u)
      BY <1>7 DEF Revoking
    <2>2. o # t
      BY <1>7, <2>1 DEF Ending
    <2>3. Ending(job'[o], u)
      BY <1>6, <2>1, <2>2 DEF Ending
    <2> QED
      BY <2>3
  <1>8. ASSUME NEW s \in Sids, Live(sessions', s)
        PROVE  s \in outrun' \/ Stopped(sessions'[s].user) \/ Matches(sessions'[s])
    <2>1. PICK e : e = sessions'[s]
      OBVIOUS
    <2>2. \/ e = sessions[s]
          \/ k.at = "issue" /\ s = k.sid /\ e.user = k.id /\ e.pass = k.user.pass
      BY <1>1, <1>3, <1>8, <2>1 DEF Derived, Live
    <2>3. k.at = "revokeAll" => e.user # k.id
      BY <1>1, <1>3, <1>8, <2>1 DEF Derived, Live
    <2>4. CASE e = sessions[s]
      <3>1. Live(sessions, s)
        BY <1>8, <2>1, <2>4 DEF Live
      <3>2. s \in outrun \/ Revoking(e.user) \/ Matches(e)
        BY <1>3, <2>4, <3>1 DEF PInv
      <3>3. Revoking(e.user) => Stopped(e.user)
        BY <1>7, <2>3
      <3>4. s \in outrun' \/ Stopped(e.user) \/ Matches(e)
        BY <1>1, <3>2, <3>3
      <3> QED
        BY <2>1, <3>4
    <2>5. CASE k.at = "issue" /\ s = k.sid /\ e.user = k.id /\ e.pass = k.user.pass
      <3>1. CASE "users" \in k.stale
        BY <1>1, <2>5, <3>1
      <3>2. CASE Fresh(k)
        <4>1. Current(k) /\ HasRecord(k)
          BY <1>3, <2>5, <3>2 DEF UInv, AllCurrent, HasRecord
        <4>2. k.id \in Existing /\ k.user.pass = users[k.id].pass
          BY <2>5, <4>1 DEF Current
        <4>3. Matches(e)
          BY <2>5, <4>2 DEF Matches
        <4> QED
          BY <2>1, <4>3
      <3> QED
        BY <3>1, <3>2 DEF Fresh
    <2> QED
      BY <2>2, <2>4, <2>5
  <1>9. ASSUME NEW o \in Threads, Writes(job'[o]), "sessions" \notin job'[o].stale
        PROVE  Follows(job'[o])
    <2>1. o # t
      BY <1>4, <1>5, <1>9
    <2>2. Writes(job[o]) /\ "sessions" \notin job[o].stale /\ sessions' = sessions
      BY <1>6, <1>9, <2>1 DEF Writes
    <2>3. Derived(job[o])
      BY <1>3, <2>2 DEF PInv
    <2> QED
      BY <1>6, <2>1, <2>2, <2>3 DEF Derived, Live
  <1> QED
    BY <1>8, <1>9

LEMMA InitPInv == Init => PInv
  <1> SUFFICES ASSUME Init PROVE PInv
    OBVIOUS
  <1>1. \A t \in Threads : ~Writes(job[t])
    BY IdleIsJob DEF Init
  <1>2. ASSUME NEW s \in Sids, Live(sessions, s)
        PROVE  Matches(sessions[s])
    <2>1. s \in Existing /\ sessions[s] = [user |-> s, pass |-> users[s].pass, revoked |-> FALSE]
      BY <1>2 DEF Init, Live
    <2> QED
      BY <2>1 DEF Matches
  <1> QED
    BY <1>1, <1>2 DEF PInv

LEMMA NextPInv == IInv /\ UInv /\ PInv /\ [Next]_vars => PInv'
  <1> SUFFICES ASSUME IInv, UInv, PInv, [Next]_vars PROVE PInv'
    OBVIOUS
  <1>1. ASSUME UNCHANGED <<users, sessions, job, outrun, lost>> PROVE PInv'
    BY <1>1 DEF PInv, Live, Revoking, Ending, Matches, Existing, Writes, Derived
  <1>2. ASSUME NEW t \in Threads,
               \/ Begin(t) \/ GetUser(t) \/ Gate(t) \/ Resolve(t) \/ LastOwner(t)
               \/ HasUsers(t) \/ NameFree(t) \/ Verify(t) \/ ReadRecord(t) \/ ChangeUsers(t)
        PROVE  PInv'
    BY <1>2, PPlain
  <1>3. ASSUME NEW t \in Threads, GetSession(t) \/ ChangeSessions(t) \/ SaveUsers(t) \/ SaveSessions(t)
        PROVE  PInv'
    BY <1>3, PFinding, PChanging, PSavingAccounts, PSavingSessions
  <1>4. CASE \E s \in Sids : Deadline(s)
    BY <1>1, <1>4 DEF Deadline, history
  <1>5. CASE UNCHANGED vars
    BY <1>1, <1>5 DEF vars, history
  <1> QED
    BY <1>2, <1>3, <1>4, <1>5 DEF Next

\* While no save has lost another's: a session that is usable was opened with the password
\* its user has now, or by a login that the new password overtook, or is about to be revoked.
THEOREM PasswordsExpire == Spec => []NewPasswordEndsSessions
  <1>1. IInv /\ PInv => NewPasswordEndsSessions
    <2> SUFFICES ASSUME IInv, PInv, lost = {}, NEW s \in 1..issued, Usable(s),
                        sessions[s].pass # users[sessions[s].user].pass
                 PROVE  \/ s \in outrun
                        \/ \E t \in Threads : /\ job[t].op \in Resets /\ job[t].at = "revokeAll"
                                              /\ job[t].id = sessions[s].user
      BY DEF NewPasswordEndsSessions
    <2>1. s \in Sids /\ Live(sessions, s)
      BY AccountAssumption DEF IInv, Shape, Sids, Usable, Live
    <2>2. s \in outrun \/ Revoking(sessions[s].user)
      BY <2>1 DEF PInv, Matches
    <2> QED
      BY <2>2 DEF Revoking, Ending
  <1>2. Init => IInv /\ UInv /\ PInv
    BY InitIInv, InitUInv, InitPInv
  <1>3. (IInv /\ UInv /\ PInv) /\ [Next]_vars => (IInv /\ UInv /\ PInv)'
    BY NextIInv, NextUInv, NextPInv
  <1> QED
    BY <1>1, <1>2, <1>3, PTL DEF Spec

----------------------------------------------------------------------------
\* The routes: the permission that a path asks for covers the operation it ends in, whatever the path.

\* What the roles may do grows from the viewer's to the owner's.
LEMMA RolesNest ==
    ASSUME NEW r \in Roles
    PROVE  /\ Reads \subseteq Permissions(r)
           /\ \A q \in Works \cup Staffs \cup Owns : q \in Permissions(r) => Works \subseteq Permissions(r)
  <1>1. CASE r = "viewer"
    BY <1>1 DEF Permissions, Reads, Works, Staffs, Owns
  <1>2. CASE r # "viewer"
    BY <1>2 DEF Permissions, Roles
  <1>3. QED
    BY <1>1, <1>2

\* The permission a request was granted covers what the operation o does: o is anybody's, or what it
\* does is what was granted, or both are an operator's work.
Covers(q, o) ==
    \E c \in Reads \cup Works \cup Staffs \cup Owns \cup {"__self__"} :
        /\ o \in OperationsOf(c)
        /\ c \in Reads \cup {"__self__"} \/ c = q \/ {c, q} \subseteq Works

LEMMA CoversIsEnough ==
    ASSUME NEW q, NEW o, Covers(q, o), NEW r \in Roles, q \in {"none", "__self__"} \cup Permissions(r)
    PROVE  \E c \in Permissions(r) \cup {"__self__"} : o \in OperationsOf(c)
  <1>1. PICK c \in Reads \cup Works \cup Staffs \cup Owns \cup {"__self__"} :
           o \in OperationsOf(c) /\ (c \in Reads \cup {"__self__"} \/ c = q \/ {c, q} \subseteq Works)
    BY DEF Covers
  <1>2. q \in Works => q \in Permissions(r)
    BY DEF Works
  <1>3. c # "none" 
    BY DEF Reads, Works, Staffs, Owns
  <1>4. c \in Permissions(r) \cup {"__self__"}
    BY <1>1, <1>2, <1>3, RolesNest
  <1>5. QED
    BY <1>1, <1>4

LEMMA UnderOne == ASSUME NEW p, NEW a, NEW b, Under(p, a), Under(p, b) PROVE a = b
  BY DEF Under

LEMMA DeleteCovered ==
    ASSUME NEW p, OperationDelete(p) # "none"
    PROVE  Covers(PermissionDelete(p), OperationDelete(p))
  <1>1. CASE Under(p, "instances") /\ Within(p, "skills")
    <2>1. OperationDelete(p) = "delete_instance_skill" /\ PermissionDelete(p) = "skills.delete"
      BY <1>1 DEF OperationDelete, PermissionDelete
    <2>2. QED
      BY <2>1 DEF Covers, OperationsOf, Works
  <1>2. CASE Under(p, "instances") /\ ~Within(p, "skills")
    <2>1. OperationDelete(p) = "delete_instance" /\ PermissionDelete(p) = "instance.delete"
      BY <1>2 DEF OperationDelete, PermissionDelete
    <2>2. QED
      BY <2>1 DEF Covers, OperationsOf, Owns
  <1>3. CASE ~Under(p, "instances")
    <2>1. OperationDelete(p) \in {"delete_schedule", "delete_mcp_server", "delete_mobile_device"}
      BY <1>3 DEF OperationDelete
    <2>2. PermissionDelete(p) \in {"skills.delete", "schedule.update", "mcp.update", "config.update"}
      BY <1>3 DEF OperationDelete, PermissionDelete
    <2>3. \E c \in {"schedule.update", "mcp.update", "config.update"} : OperationDelete(p) \in OperationsOf(c)
      BY <2>1 DEF OperationsOf
    <2>4. {"skills.delete", "schedule.update", "mcp.update", "config.update"} \subseteq Works
      BY DEF Works
    <2>5. QED
      BY <2>2, <2>3, <2>4 DEF Covers
  <1>4. QED
    BY <1>1, <1>2, <1>3

LEMMA PatchCovered ==
    ASSUME NEW p, OperationPatch(p) # "none"
    PROVE  Covers(PermissionPatch(p), OperationPatch(p))
  <1> DEFINE W == {"memory.update", "skills.update", "config.update", "instance.update", "provider.update", "channel.update",
                   "mcp.update", "schedule.update"}
  <1>1. W \subseteq Works
    BY DEF Works
  <1>2. CASE p = <<"auth", "change-password">>
    <2>1. OperationPatch(p) = "change_admin_password"
      BY <1>2 DEF OperationPatch
    <2>2. QED
      BY <2>1 DEF Covers, OperationsOf
  <1>3. CASE Under(p, "users") /\ p # <<"auth", "change-password">>
    <2>1. OperationPatch(p) = "update_admin_user" /\ PermissionPatch(p) = "user.update"
      BY <1>3 DEF OperationPatch, PermissionPatch
    <2>2. QED
      BY <2>1 DEF Covers, OperationsOf, Staffs
  <1>4. CASE p = <<"security", "policies", "global">>
    <2>1. /\ \A a \in {"users", "instances", "providers", "channels"} : ~Under(p, a)
          /\ ~Ends(p, "memory-files") /\ ~Ends(p, "config") /\ ~Within(p, "skills")
      <3>1. Len(p) = 3 /\ p[1] = "security" /\ p[2] = "policies" /\ p[3] = "global"
        BY <1>4
      <3>2. \A n \in 1..(3 - 1) : n = 1 \/ n = 2
        OBVIOUS
      <3>3. QED
        BY <3>1, <3>2 DEF Under, Ends, Within
    <2>2. OperationPatch(p) = "update_global_policy" /\ PermissionPatch(p) = "security.update"
      BY <1>4, <2>1 DEF OperationPatch, PermissionPatch
    <2>3. QED
      BY <2>2 DEF Covers, OperationsOf, Owns
  <1>5. CASE ~Under(p, "users") /\ p \notin {<<"auth", "change-password">>, <<"security", "policies", "global">>}
    <2>1. p = <<"providers", "default">> => Under(p, "providers")
      <3>1. p = <<"providers", "default">> => Len(p) = 2 /\ p[1] = "providers"
        OBVIOUS
      <3>2. QED
        BY <3>1 DEF Under
    <2>2. OperationPatch(p) \in {"update_instance_memory_file", "update_instance_skill_file", "update_instance_config",
                                 "update_instance", "update_provider_defaults", "update_provider_config", "update_channel",
                                 "update_workspace_restriction", "upsert_mcp_server", "set_schedule_enabled"}
      BY <1>5 DEF OperationPatch
    <2>3. PermissionPatch(p) \in W
      BY <1>5, <2>1 DEF OperationPatch, PermissionPatch
    <2>4. \E c \in W : OperationPatch(p) \in OperationsOf(c)
      BY <2>2 DEF OperationsOf
    <2>5. QED
      BY <1>1, <2>3, <2>4 DEF Covers
  <1>6. QED
    BY <1>2, <1>3, <1>4, <1>5

LEMMA GetCovered ==
    ASSUME NEW p, OperationGet(p) # "none"
    PROVE  Covers(PermissionGet(p), OperationGet(p))
  <1>1. p = <<"users">> => ~OnPolicy(p) /\ ~Under(p, "instances")
    <2>1. p = <<"users">> => Len(p) = 1
      OBVIOUS
    <2>2. QED
      BY <2>1 DEF OnPolicy, Under
  <1>2. CASE p = <<"users">>
    <2>1. OperationGet(p) = "list_admin_users" /\ PermissionGet(p) = "user.read"
      BY <1>1, <1>2 DEF OperationGet, PermissionGet
    <2>2. QED
      BY <2>1 DEF Covers, OperationsOf, Staffs
  <1>3. CASE p = <<"access-requests">>
    <2>1. OperationGet(p) = "list_access_requests" /\ PermissionGet(p) = "access_request.review"
      BY <1>3 DEF OperationGet, PermissionGet
    <2>2. QED
      BY <2>1 DEF Covers, OperationsOf, Works
  <1>4. CASE p \notin {<<"users">>, <<"access-requests">>}
    <2>1. OperationGet(p) \in
            {"get_health", "get_overview", "list_instances", "get_activity", "list_schedules", "list_skill_bank",
             "get_instance_memory_files", "export_instance_skill_archive", "get_instance_skill", "list_instance_skills",
             "get_instance_config", "get_instance", "list_channels", "list_providers", "list_mcp_servers",
             "list_connector_presets", "get_security", "get_global_policy", "get_auth_audit_log",
             "get_runtime_audit_events", "list_mobile_devices", "get_ngrok_status"}
      BY <1>4 DEF OperationGet
    <2>2. \E c \in Reads : OperationGet(p) \in OperationsOf(c)
      BY <2>1 DEF OperationsOf, Reads
    <2>3. QED
      BY <2>2 DEF Covers
  <1>5. QED
    BY <1>2, <1>3, <1>4

\* What POST requests are told apart by: the first segment, the number of segments, or the whole path.
Single == {<<"users">>, <<"instances">>, <<"schedules">>, <<"skills-bank">>}
Global == <<"security", "policies", "global", "validate">>
Phone == {<<"mobile", "ngrok", "start">>, <<"mobile", "pair">>}
Review == {<<"access-requests", "approve">>, <<"access-requests", "reject">>}

Area(p) == IF Len(p) = 1 THEN "single" ELSE p[1]

LEMMA PostHeads ==
    ASSUME NEW p
    PROVE  /\ \A a : Under(p, a) => Area(p) = a
           /\ UnderServers(p) => Area(p) = "mcp"
           /\ \A v : OnConnector(p, v) => Area(p) = "connectors"
           /\ Switches(p) => Area(p) = "connectors"
           /\ p \in Single => Area(p) = "single"
           /\ p \in Phone => Area(p) = "mobile"
           /\ p = Global => Area(p) = "security"
           /\ p \in Review => Area(p) = "access-requests"
  <1>1. ASSUME NEW a, Under(p, a) PROVE Area(p) = a
    <2>1. Len(p) > 1 /\ p[1] = a
      BY <1>1 DEF Under
    <2>2. Len(p) # 1
      BY <2>1
    <2>3. QED
      BY <2>1, <2>2 DEF Area
  <1>2. UnderServers(p) => Area(p) = "mcp"
    BY DEF UnderServers, Area
  <1>3. \A v : OnConnector(p, v) => Area(p) = "connectors"
    BY DEF OnConnector, Area
  <1>4. p \in Single => Area(p) = "single"
    BY DEF Single, Area
  <1>5. p \in Phone => Area(p) = "mobile"
    BY DEF Phone, Area
  <1>6. p = Global => Area(p) = "security"
    BY DEF Global, Area
  <1>7. p \in Review => Area(p) = "access-requests"
    BY DEF Review, Area
  <1>8. Switches(p) => Area(p) = "connectors"
    BY <1>1 DEF Switches
  <1>9. QED
    BY <1>1, <1>2, <1>3, <1>4, <1>5, <1>6, <1>7, <1>8

LEMMA PostInstances ==
    ASSUME NEW p, Under(p, "instances"), Operation("POST", p) # "none"
    PROVE  Covers(PermissionPost(p), Operation("POST", p))
  <1>1. /\ p \notin Single \cup Phone \cup Review \cup {Global} /\ ~UnderServers(p) /\ ~Switches(p) /\ \A v : ~OnConnector(p, v)
        /\ ~Under(p, "users") /\ ~Under(p, "providers") /\ ~Under(p, "schedules")
    BY PostHeads
  <1>2. Operation("POST", p) = OperationPost(p)
    BY <1>1 DEF Operation, OperationPostConnectors, OperationPostRest, Single, Review
  <1>3. /\ PermissionPost(p) \in {"instance.control", "skills.update"}
        /\ OperationPost(p) \in {"import_instance_skill_archive", "import_skill_bank_entry", "execute_instance_action"}
    BY <1>1, <1>2 DEF PermissionPost, OperationPost, Single, Phone, Review, Global
  <1>4. \E c \in {"instance.control", "skills.update"} : OperationPost(p) \in OperationsOf(c)
    BY <1>3 DEF OperationsOf
  <1>5. {"instance.control", "skills.update"} \subseteq Works
    BY DEF Works
  <1>6. QED
    BY <1>2, <1>3, <1>4, <1>5 DEF Covers

LEMMA PostWhole ==
    ASSUME NEW p, p \in Single \cup Phone \cup Review \cup {Global}, Operation("POST", p) # "none"
    PROVE  Covers(PermissionPost(p), Operation("POST", p))
  <1>1. CASE p \in Single
    <2>1. /\ \A a \in {"users", "instances", "providers", "schedules"} : ~Under(p, a)
          /\ ~UnderServers(p) /\ ~Switches(p) /\ (\A v : ~OnConnector(p, v)) /\ p \notin Phone /\ p \notin Review /\ p # Global
      BY <1>1, PostHeads
    <2>2. \/ Operation("POST", p) = "create_admin_user" /\ PermissionPost(p) = "user.create"
          \/ Operation("POST", p) = "create_instance" /\ PermissionPost(p) = "instance.create"
          \/ Operation("POST", p) = "create_schedule" /\ PermissionPost(p) = "schedule.update"
      BY <1>1, <2>1 DEF Operation, OperationPost, OperationPostConnectors, OperationPostRest, PermissionPost, Single, Phone, Review, Global
    <2>3. QED
      BY <2>2 DEF Covers, OperationsOf, Staffs, Works
  <1>2. CASE p \in Phone \cup Review \cup {Global}
    <2>1. /\ \A a \in {"users", "instances", "providers", "schedules"} : ~Under(p, a)
          /\ ~UnderServers(p) /\ ~Switches(p) /\ (\A v : ~OnConnector(p, v)) /\ p \notin Single
      BY <1>2, PostHeads
    <2>2. \/ Operation("POST", p) \in {"get_mobile_pairing_data", "start_ngrok"} /\ PermissionPost(p) = "config.update"
          \/ Operation("POST", p) = "validate_global_policy" /\ PermissionPost(p) = "security.update"
          \/ /\ Operation("POST", p) \in {"approve_access_request", "reject_access_request"}
             /\ PermissionPost(p) = "access_request.review"
      BY <1>2, <2>1 DEF Operation, OperationPost, OperationPostConnectors, OperationPostRest, PermissionPost, Single, Phone, Review, Global
    <2>3. QED
      BY <2>2 DEF Covers, OperationsOf, Owns, Works
  <1>3. QED
    BY <1>1, <1>2

LEMMA PostCovered ==
    ASSUME NEW p, Operation("POST", p) # "none", ~Respelled(p)
    PROVE  Covers(PermissionPost(p), Operation("POST", p))
  <1>1. CASE Under(p, "users") \/ Under(p, "schedules")
    <2>1. /\ p \notin Single \cup Phone \cup Review \cup {Global} /\ ~UnderServers(p) /\ ~Switches(p) /\ (\A v : ~OnConnector(p, v))
          /\ ~Under(p, "instances") /\ ~Under(p, "providers") /\ ~(Under(p, "users") /\ Under(p, "schedules"))
      BY <1>1, PostHeads
    <2>2. \/ Operation("POST", p) = "reset_admin_user_password" /\ PermissionPost(p) = "user.update"
          \/ Operation("POST", p) = "run_schedule" /\ PermissionPost(p) = "schedule.run"
      BY <2>1 DEF Operation, OperationPost, OperationPostConnectors, OperationPostRest, PermissionPost, Single, Phone, Review, Global
    <2>3. QED
      BY <2>2 DEF Covers, OperationsOf, Staffs, Works
  <1>2. CASE \E v : OnConnector(p, v)
    <2>1. /\ p \notin Single \cup Phone \cup Review \cup {Global} /\ ~UnderServers(p)
          /\ \A a \in {"users", "instances", "providers", "schedules"} : ~Under(p, a)
      BY <1>2, PostHeads
    <2>2. /\ OnConnector(p, {"install", "enable", "disable"}) <=> OnConnector(p, {"install"}) \/ OnConnector(p, {"enable", "disable"})
          /\ ~(OnConnector(p, {"install", "enable", "disable"}) /\ OnConnector(p, {"validate"}))
          /\ Switches(p) => OnConnector(p, {"enable", "disable"})
      BY DEF OnConnector, Respelled
    <2>3. \/ Operation("POST", p) \in {"install_connector", "set_connector_enabled"} /\ PermissionPost(p) = "mcp.update"
          \/ Operation("POST", p) = "validate_connector"
      BY <2>1, <2>2 DEF Operation, OperationPost, OperationPostConnectors, OperationPostRest, PermissionPost, Single, Phone, Review, Global
    <2>4. QED
      BY <2>3 DEF Covers, OperationsOf, Works, Reads
  <1>3. CASE /\ ~Under(p, "users") /\ ~Under(p, "schedules") /\ ~Under(p, "instances") /\ \A v : ~OnConnector(p, v)
             /\ p \notin Single \cup Phone \cup Review \cup {Global}
    <2>1. ~Switches(p)
      BY <1>3 DEF Respelled
    <2>2. Operation("POST", p) \in {"validate_provider", "validate_mcp_server"}
      BY <1>3, <2>1 DEF Operation, OperationPost, OperationPostConnectors, OperationPostRest, Single, Phone, Review, Global
    <2>3. QED
      BY <2>2 DEF Covers, OperationsOf, Reads
  <1>4. QED
    BY <1>1, <1>2, <1>3, PostInstances, PostWhole

\* What is open to requests without a session ends in none of the operations.
LEMMA OpenUnserved ==
    ASSUME NEW m \in Methods, NEW p, Open(m, p)
    PROVE  Operation(m, p) = "none"
  <1>1. Area(p) \in {"auth", "mobile"} /\ p # <<"auth", "change-password">>
    BY DEF Open, Area
  <1>2. \A a \in {"users", "instances", "providers", "schedules", "channels"} : ~Under(p, a)
    BY <1>1, PostHeads
  <1>3. ~UnderServers(p) /\ ~Switches(p) /\ \A v : ~OnConnector(p, v)
    BY <1>1, PostHeads
  <1>4. CASE m = "GET"
    <2>1. OperationGet(p) = "none"
      BY <1>2, <1>4 DEF OperationGet, Open
    <2>2. QED
      BY <1>4, <2>1 DEF Operation
  <1>5. CASE m = "PATCH"
    <2>1. OperationPatch(p) = "none"
      BY <1>1, <1>2, <1>5 DEF OperationPatch, Open
    <2>2. QED
      BY <1>5, <2>1 DEF Operation
  <1>6. CASE m = "DELETE"
    <2>1. OperationDelete(p) = "none"
      BY <1>2, <1>3, <1>6 DEF OperationDelete, Open
    <2>2. QED
      BY <1>6, <2>1 DEF Operation
  <1>7. CASE m = "POST"
    <2>1. OperationPost(p) = "none" /\ OperationPostConnectors(p) = "none" /\ OperationPostRest(p) = "none"
      BY <1>2, <1>3, <1>7 DEF OperationPost, OperationPostConnectors, OperationPostRest, Open
    <2>2. QED
      BY <1>7, <2>1 DEF Operation
  <1>8. QED
    BY <1>4, <1>5, <1>6, <1>7 DEF Methods

LEMMA RoutesCovered ==
    ASSUME NEW m \in Methods, NEW p, Operation(m, p) # "none", ~(m = "POST" /\ Respelled(p))
    PROVE  Covers(Permission(m, p), Operation(m, p))
  <1>1. CASE m = "GET"
    BY <1>1, GetCovered DEF Operation, Permission
  <1>2. CASE m = "PATCH"
    BY <1>2, PatchCovered DEF Operation, Permission
  <1>3. CASE m = "DELETE"
    BY <1>3, DeleteCovered DEF Operation, Permission
  <1>4. CASE m = "POST"
    <2>1. Permission("POST", p) = PermissionPost(p)
      BY DEF Permission
    <2>2. QED
      BY <1>4, <2>1, PostCovered
  <1>5. QED
    BY <1>1, <1>2, <1>3, <1>4 DEF Methods

----------------------------------------------------------------------------
\* What a request has passed on its way to an operation.

Deciding == {"session", "touch", "gate", "resolve"}

\* The path is open, or the user in hand may do what it asks for.
Admitted(j) ==
    /\ j.op = "visit"
    /\ IF j.user = None THEN Open(j.target[1], j.target[2])
       ELSE j.user \in User /\ May(j.user, Permission(j.target[1], j.target[2]))

Seen(j) ==
    /\ j.op = "visit" => j.target[1] \in Methods
    /\ j.at = "session" => j.user = None
    /\ j.at = "touch" => j.user \in User
    /\ j.at = "gate" => j.user \in User \cup {None}
    /\ j.at = "resolve" => Admitted(j)

Visiting == \A t \in Threads : Seen(job[t])

LEMMA SeenIdle == Seen(Idle)
  BY DEF Seen, Idle

LEMMA SeenRequest ==
  ASSUME NEW r \in Requests
  PROVE  Seen(r)
  <1>1. \A op, n : op \in {"login", "bootstrap"} => Seen(Entry(op, n))
    BY DEF Entry, Idle, Seen
  <1>2. ASSUME NEW op, NEW s, NEW n, NEW x, NEW y, Asks(op, s, n, x, y)
        PROVE  Seen(Signed(op, s, n, x, y))
    BY <1>2 DEF Asks, Signed, Idle, Seen
  <1> QED
    BY <1>1, <1>2, RequestKinds

\* A job with the same request, at a step where nothing is decided.
LEMMA SeenElsewhere ==
  ASSUME NEW j, IsJob(j), Seen(j), NEW at, at \notin Deciding
  PROVE  Seen(Step(j, at)) /\ \A u, r : Seen(With(Step(j, at), u, r))
  <1>1. CASE at = "idle"
    BY <1>1 DEF Step, With, Idle, Seen
  <1>2. CASE at # "idle"
    BY <1>2 DEF Step, With, IsJob, Seen, Deciding
  <1> QED
    BY <1>1, <1>2

\* A job that differs in what admission does not depend on.
LEMMA SeenAlike ==
  ASSUME NEW j, Seen(j), NEW k, k.op = j.op, k.at = j.at, k.target = j.target, k.user = j.user
  PROVE  Seen(k)
  BY DEF Seen, Admitted

LEMMA VisitHeld ==
  ASSUME UInv, Visiting, NEW t \in Threads, NEW j, Seen(j), Become(t, j)
  PROVE  Visiting'
  <1>1. \A o \in Threads : job'[o] = IF o = t THEN j ELSE job[o]
    BY DEF UInv, Types, Become
  <1> QED
    BY <1>1 DEF Visiting

LEMMA VFinding ==
  ASSUME UInv, Visiting, NEW t \in Threads, GetSession(t) \/ GetUser(t)
  PROVE  Visiting'
  <1>1. IsJob(job[t]) /\ Seen(job[t])
    BY DEF UInv, Types, JobOK, Visiting
  <1>2. CASE GetSession(t)
    <2> DEFINE f == [sessions EXCEPT ![job[t].sid] = None]
               d == [Step(job[t], "drop") EXCEPT !.copy = f]
    <2>1. job[t].at = "session" /\ job[t].user = None
      BY <1>1, <1>2 DEF GetSession, Seen
    <2>2. Seen(Step(job[t], "gate"))
      BY <1>1, <2>1 DEF Step, IsJob, Seen
    <2>3. Seen(d)
      BY <1>1 DEF Step, IsJob, Seen
    <2>4. \A u : Seen(With(Step(job[t], "user"), u, None))
      BY <1>1, SeenElsewhere DEF Deciding
    <2>5. Become(t, Step(job[t], "gate")) \/ (\E u : Become(t, With(Step(job[t], "user"), u, None)))
          \/ Become(t, Idle) \/ Become(t, d)
      BY <1>2 DEF GetSession
    <2> HIDE DEF d
    <2> QED
      BY <2>2, <2>3, <2>4, <2>5, SeenIdle, VisitHeld
  <1>3. CASE GetUser(t)
    <2>1. ASSUME NEW u \in Existing PROVE Seen(With(Step(job[t], "touch"), u, users[u]))
      <3>1. users[u] \in User
        BY DEF UInv, Types, UsersFile, Existing
      <3> QED
        BY <1>1, <3>1 DEF Step, With, IsJob, Seen
    <2>2. Seen(Step(job[t], "expel"))
      BY <1>1, SeenElsewhere DEF Deciding
    <2>3. (\E u \in Existing : Become(t, With(Step(job[t], "touch"), u, users[u]))) \/ Become(t, Step(job[t], "expel"))
      BY <1>3 DEF GetUser
    <2> QED
      BY <2>1, <2>2, <2>3, VisitHeld
  <1> QED
    BY <1>2, <1>3

\* The one step that admits a request to the operations.
LEMMA VAdmitting ==
  ASSUME UInv, Visiting, NEW t \in Threads, Gate(t) \/ Resolve(t)
  PROVE  Visiting'
  <1>1. IsJob(job[t]) /\ Seen(job[t])
    BY DEF UInv, Types, JobOK, Visiting
  <1>2. CASE Gate(t)
    <2>1. CASE \E at \in {"idle", "revoke", "free", "read"} : Become(t, Step(job[t], at))
      BY <1>1, <2>1, SeenElsewhere, VisitHeld DEF Deciding
    <2>2. CASE job[t].op = "visit" /\ Become(t, Step(job[t], "resolve"))
               /\ IF job[t].user = None THEN Open(Route(job[t])[1], Route(job[t])[2])
                  ELSE May(job[t].user, Needed(job[t]))
      <3>1. Route(job[t]) = job[t].target
        BY <2>2 DEF Route, Updates
      <3>2. job[t].user \in User \cup {None}
        BY <1>1, <1>2 DEF Gate, Seen
      <3>3. Admitted(job[t])
        BY <2>2, <3>1, <3>2 DEF Admitted, Needed
      <3>4. Seen(Step(job[t], "resolve"))
        BY <1>1, <3>3 DEF Step, IsJob, Seen, Admitted
      <3> QED
        BY <2>2, <3>4, VisitHeld
    <2>3. CASE Become(t, Idle)
      BY <2>3, SeenIdle, VisitHeld
    <2> QED
      BY <1>2, <2>1, <2>2, <2>3 DEF Gate
  <1>3. CASE Resolve(t)
    BY <1>3, SeenIdle, VisitHeld DEF Resolve
  <1> QED
    BY <1>2, <1>3

LEMMA VRecording ==
  ASSUME UInv, Visiting, NEW t \in Threads,
         \/ Begin(t) \/ HasUsers(t) \/ NameFree(t) \/ Verify(t) \/ ReadRecord(t) \/ LastOwner(t)
         \/ ChangeUsers(t) \/ ChangeSessions(t)
  PROVE  Visiting'
  <1>1. IsJob(job[t]) /\ Seen(job[t])
    BY DEF UInv, Types, JobOK, Visiting
  <1>2. CASE Begin(t)
    BY <1>2, SeenRequest, VisitHeld DEF Begin
  <1>3. \A n, r, x : New(t, n, r, x) => Visiting'
    BY <1>1, SeenElsewhere, VisitHeld DEF New, Deciding
  <1>4. CASE HasUsers(t) \/ NameFree(t)
    BY <1>3, <1>4, SeenIdle, VisitHeld DEF HasUsers, NameFree
  <1>5. CASE Verify(t)
    <2> DEFINE j == [job[t] EXCEPT !.stale = {}]
    <2>1. IsJob(j) /\ Seen(j)
      BY <1>1, SeenAlike DEF IsJob
    <2>2. Become(t, Idle) \/ \E u : Become(t, With(Step(j, "issue"), u, users[u]))
      BY <1>5 DEF Verify
    <2> HIDE DEF j
    <2>3. \A u : Seen(With(Step(j, "issue"), u, users[u]))
      BY <2>1, SeenElsewhere DEF Deciding
    <2> QED
      BY <2>2, <2>3, SeenIdle, VisitHeld
  <1>6. CASE ReadRecord(t)
    <2>1. \/ Become(t, Idle)
          \/ \E at \in {"upsert", "owners"} : \E u, r : Become(t, With(Step(job[t], at), u, r))
      BY <1>6 DEF ReadRecord
    <2>2. \A at \in {"upsert", "owners"} : \A u, r : Seen(With(Step(job[t], at), u, r))
      BY <1>1, SeenElsewhere DEF Deciding
    <2> QED
      BY <2>1, <2>2, SeenIdle, VisitHeld
  <1>7. CASE LastOwner(t)
    BY <1>1, <1>7, SeenIdle, SeenElsewhere, VisitHeld DEF LastOwner, Deciding
  <1>8. CASE ChangeUsers(t)
    <2> DEFINE j == [job[t] EXCEPT !.copy = [users EXCEPT ![job[t].id] = job[t].user]]
    <2>1. Seen(j)
      BY <1>1, SeenAlike DEF IsJob
    <2>2. Become(t, j)
      BY <1>8 DEF ChangeUsers
    <2> QED
      BY <2>1, <2>2, VisitHeld
  <1>9. CASE ChangeSessions(t)
    <2>1. CASE job[t].at # "touch" /\ Become(t, Step(job[t], After(job[t])))
      <3>1. After(job[t]) \notin Deciding
        BY <2>1 DEF After, Deciding
      <3> QED
        BY <1>1, <2>1, <3>1, SeenElsewhere, VisitHeld
    <2>2. CASE \E c, s : Become(t, [job[t] EXCEPT !.copy = c, !.sid = s])
      <3>1. \A c, s : Seen([job[t] EXCEPT !.copy = c, !.sid = s])
        BY <1>1, SeenAlike DEF IsJob
      <3> QED
        BY <2>2, <3>1, VisitHeld
    <2> QED
      BY <1>9, <2>1, <2>2 DEF ChangeSessions
  <1> QED
    BY <1>2, <1>4, <1>5, <1>6, <1>7, <1>8, <1>9

LEMMA VSaving ==
  ASSUME UInv, Visiting, NEW t \in Threads, SaveUsers(t) \/ SaveSessions(t)
  PROVE  Visiting'
  <1>1. \A o \in Threads : IsJob(job[o]) /\ Seen(job[o])
    BY DEF UInv, Types, JobOK, Visiting
  <1>2. job'[t] = Step(job[t], After(job[t]))
    BY DEF SaveUsers, SaveSessions
  <1>3. Seen(job'[t])
    <2>1. CASE job[t].at = "touch"
      <3>1. After(job[t]) = "gate"
        BY <2>1 DEF After
      <3> QED
        BY <1>1, <1>2, <2>1, <3>1 DEF Step, IsJob, Seen
    <2>2. CASE job[t].at # "touch"
      <3>1. After(job[t]) \notin Deciding
        BY <2>2 DEF After, Deciding
      <3> QED
        BY <1>1, <1>2, <3>1, SeenElsewhere
    <2> QED
      BY <2>1, <2>2
  <1>4. ASSUME NEW o \in Threads, o # t PROVE Seen(job'[o])
    <2>1. PICK L : job'[o] = [job[o] EXCEPT !.stale = @ \cup L]
      BY <1>4 DEF SaveUsers, SaveSessions
    <2> QED
      BY <1>1, <2>1, SeenAlike DEF IsJob
  <1> QED
    BY <1>3, <1>4 DEF Visiting

LEMMA InitVisiting == Init => Visiting
  BY SeenIdle DEF Init, Visiting

LEMMA NextVisiting == UInv /\ Visiting /\ [Next]_vars => Visiting'
  <1> SUFFICES ASSUME UInv, Visiting, [Next]_vars PROVE Visiting'
    OBVIOUS
  <1>1. ASSUME NEW t \in Threads, GetSession(t) \/ GetUser(t) \/ Gate(t) \/ Resolve(t) PROVE Visiting'
    BY <1>1, VFinding, VAdmitting
  <1>2. ASSUME NEW t \in Threads,
               \/ Begin(t) \/ HasUsers(t) \/ NameFree(t) \/ Verify(t) \/ ReadRecord(t) \/ LastOwner(t)
               \/ ChangeUsers(t) \/ ChangeSessions(t)
        PROVE  Visiting'
    BY <1>2, VRecording
  <1>3. ASSUME NEW t \in Threads, SaveUsers(t) \/ SaveSessions(t) PROVE Visiting'
    BY <1>3, VSaving
  <1>4. CASE (\E s \in Sids : Deadline(s)) \/ UNCHANGED vars
    BY <1>4 DEF Deadline, vars, Visiting
  <1> QED
    BY <1>1, <1>2, <1>3, <1>4 DEF Next

\* Every path, of any number of segments and under any method: a request that reaches an operation
\* of the service has a user, and the role that the user had when the request was admitted includes a
\* permission for what the operation does. The two lists of tests, of permissions and of operations,
\* agree even where they try the path in another order, but for one family of paths: the switch of a
\* connector under a path that is not spelt as the list of permissions has it, which any user reaches.
\* What is open without a session ends in no operation.
THEOREM RoutesAuthorised == Spec => []OperationsAuthorised
  <1>1. Visiting => OperationsAuthorised
    <2> SUFFICES ASSUME Visiting, NEW t \in Threads, job[t].at = "resolve",
                        Operation(Route(job[t])[1], Route(job[t])[2]) # "none"
                 PROVE  /\ job[t].user # None
                        /\ \/ \E q \in Permissions(job[t].user.role) \cup {"__self__"} :
                                Operation(Route(job[t])[1], Route(job[t])[2]) \in OperationsOf(q)
                           \/ Route(job[t])[1] = "POST" /\ Respelled(Route(job[t])[2])
      BY DEF OperationsAuthorised
    <2> DEFINE m == job[t].target[1]
               p == job[t].target[2]
    <2>1. Admitted(job[t]) /\ job[t].op = "visit" /\ m \in Methods
      BY DEF Visiting, Seen, Admitted
    <2>2. Route(job[t]) = job[t].target
      BY <2>1 DEF Route, Updates
    <2>3. Operation(m, p) # "none"
      BY <2>2
    <2>4. ~Open(m, p)
      BY <2>1, <2>3, OpenUnserved
    <2>5. job[t].user \in User /\ May(job[t].user, Permission(m, p)) /\ job[t].user # None
      BY <2>1, <2>4 DEF Admitted
    <2>6. job[t].user.role \in Roles /\ Permission(m, p) \in {"none", "__self__"} \cup Permissions(job[t].user.role)
      BY <2>5 DEF User, May
    <2>7. Covers(Permission(m, p), Operation(m, p)) \/ (m = "POST" /\ Respelled(p))
      BY <2>1, <2>3, RoutesCovered
    <2>8. \/ \E q \in Permissions(job[t].user.role) \cup {"__self__"} : Operation(m, p) \in OperationsOf(q)
          \/ m = "POST" /\ Respelled(p)
      BY <2>6, <2>7, CoversIsEnough
    <2> QED
      BY <2>2, <2>5, <2>8
  <1>2. Init => UInv /\ Visiting
    BY InitUInv, InitVisiting
  <1>3. (UInv /\ Visiting) /\ [Next]_vars => (UInv /\ Visiting)'
    BY NextUInv, NextVisiting
  <1> QED
    BY <1>1, <1>2, <1>3, PTL DEF Spec
=============================================================================
