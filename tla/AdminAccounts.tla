---------------------------- MODULE AdminAccounts ----------------------------
(***************************************************************************)
(* Accounts and sessions of the admin server.  Every request has a thread  *)
(* of its own (ThreadingHTTPServer); users and sessions are two JSON files *)
(* that each operation of the store loads, changes and replaces, without   *)
(* a lock.  A request is a series of such operations: what it decided on   *)
(* in one of them may have changed before the next.                        *)
(*                                                                         *)
(* A step of a thread reads a file, or loads and changes one in memory     *)
(* (Change...), or replaces it (Save).  Deadlines of sessions are          *)
(* abstracted to the fact of having passed; e-mail addresses, which are    *)
(* handled as user names are, and scopes of instances are left out.        *)
(***************************************************************************)
EXTENDS AdminRoutes, FiniteSets

CONSTANTS
    Threads,      \* threads that serve requests at the same time
    Ids,          \* account ids
    Names,        \* user names
    Grants,       \* roles that accounts are given
    Paths,        \* paths that are visited
    Offices,      \* installations: the users file to start from, and what is asked of it
    MaxSessions,  \* bound on the sessions ever issued
    MaxHashes,    \* bound on the passwords ever hashed; the salt makes each hash new
    MaxRequests,  \* bound on the requests ever begun; an installation has its own
    None

Sids == 1..MaxSessions
Hashes == 1..MaxHashes
Ops == {"login", "bootstrap", "me", "logout", "create", "role", "status", "reset", "change", "visit"}
Statuses == {"active", "disabled", "other"}     \* free text; all but two of them mean the same
User == [name : Names, role : Roles, status : Statuses, pass : Hashes]
Session == [user : Ids, pass : Hashes, revoked : BOOLEAN]   \* pass: the hash the login verified

ASSUME AccountAssumption ==
    /\ Ids \subseteq Nat /\ IsFiniteSet(Ids)
    /\ Offices \subseteq [users : [Ids -> User \cup {None}], ops : SUBSET Ops,
                          deadlines : BOOLEAN, requests : 0..MaxRequests]
    /\ MaxSessions \in Nat /\ MaxHashes \in Nat /\ MaxRequests \in Nat
    /\ Grants \subseteq Roles
    /\ None \notin User \cup Session \cup Roles \cup Statuses

\* An installation starts with accounts that were opened one after the other, with names of
\* their own, one of them an active owner and no owner set aside, and each with its first session.
ASSUME OfficeAssumption ==
    \A o \in Offices :
        LET Staff == {u \in Ids : o.users[u] # None} IN
        /\ \E n \in 0..MaxSessions : n <= MaxHashes /\ Staff = 1..n
        /\ Staff = {} \/ \E u \in Staff : o.users[u].status = "active" /\ o.users[u].role = "owner"
        /\ \A u \in Staff : o.users[u].role = "owner" => o.users[u].status # "other"
        /\ \A u, v \in Staff : o.users[u].name = o.users[v].name => u = v

VARIABLES
    office,    \* the installation; it does not change
    users,     \* users.json
    sessions,  \* sessions.json
    job,       \* the request each thread serves: its step, the user record in hand, the
               \* contents it is about to save, and the files whose state it decided on has changed
    over,      \* sessions past a deadline
    issued, hashed, begun,
    ended,     \* history: sessions whose revocation has been saved
    outrun,    \* history: sessions of logins whose user had changed after they verified the password
    demoted,   \* history: the role of an owner was taken away, or an owner was given a
               \* status that is neither active nor disabled; nothing checks either
    lost       \* history: files written by a thread that decided on an older state

history == <<ended, outrun, demoted, lost>>
vars == <<office, users, sessions, job, over, issued, hashed, begun, history>>

----------------------------------------------------------------------------
\* Requests: the session they come with, and what they ask for.
Idle == [op |-> "none", at |-> "idle", sid |-> 0, target |-> None, role |-> None, status |-> None,
         id |-> None, user |-> None, copy |-> None, stale |-> {}]

Entry(op, n) == [Idle EXCEPT !.op = op, !.target = n, !.at = IF op = "login" THEN "verify" ELSE "has"]
Signed(op, s, target, role, status) ==                                \* s = 0: without a session
    [Idle EXCEPT !.op = op, !.at = "session", !.sid = s, !.target = target, !.role = role, !.status = status]

\* update_admin_user, of the role ("role") or of the status ("status").
Updates == {"role", "status"}
Resets == {"reset", "change"}
OnAccount == Updates \cup {"reset"}

Requests ==
    {Entry(op, n) : op \in {"login", "bootstrap"}, n \in Names}
    \cup {Signed(op, s, None, None, None) : op \in {"me", "logout", "change"}, s \in 1..issued}
    \cup {Signed("create", s, n, r, x) : s \in 1..issued, n \in Names, r \in Grants, x \in Statuses}
    \cup {Signed("reset", s, u, None, None) : s \in 1..issued, u \in Ids}
    \cup {Signed("role", s, u, r, None) : s \in 1..issued, u \in Ids, r \in Grants}
    \cup {Signed("status", s, u, None, x) : s \in 1..issued, u \in Ids, x \in Statuses}
    \cup {Signed("visit", s, <<m, p>>, None, None) : m \in Methods, p \in Paths, s \in 0..issued}

\* Method and path of a request.
Route(j) ==
    CASE j.op = "visit" -> j.target
      [] j.op = "create" -> <<"POST", <<"users">>>>
      [] j.op = "reset" -> <<"POST", <<"users", "id", "reset-password">>>>
      [] j.op \in Updates -> <<"PATCH", <<"users", "id">>>>
      [] j.op = "change" -> <<"PATCH", <<"auth", "change-password">>>>
      [] OTHER -> <<"POST", <<"auth", j.op>>>>

Needed(j) == Permission(Route(j)[1], Route(j)[2])
May(user, permission) == permission \in {"none", "__self__"} \cup Permissions(user.role)

Disabling(j) == j.op = "status" /\ j.status = "disabled"

Existing == {u \in Ids : users[u] # None}
Named(n) == {u \in Existing : users[u].name = n}
Owners == {u \in Existing : users[u].status # "disabled" /\ users[u].role = "owner"}
ActiveOwners == {u \in Owners : users[u].status = "active"}
Usable(s) == sessions[s] # None /\ ~sessions[s].revoked /\ s \notin over
RoleOf(u) == IF u \in Existing THEN users[u].role ELSE "viewer"

UserSteps == {"add", "upsert", "stamp"}
SessionSteps == {"drop", "expel", "touch", "issue", "revoke", "revokeAll"}

\* Mutant of After: a new password leaves the sessions of the user alone.
After_Forget(j) ==
    CASE j.at = "touch" -> "gate"
      [] j.at = "issue" -> "stamp"
      [] j.at = "add" /\ j.op = "bootstrap" -> "verify"
      [] j.at = "revokeAll" /\ j.op = "status" -> "upsert"
      [] OTHER -> "idle"

\* The step after one that has written its file.
After(j) ==
    CASE j.at = "touch" -> "gate"
      [] j.at = "issue" -> "stamp"
      [] j.at = "add" /\ j.op = "bootstrap" -> "verify"
      [] j.at = "upsert" /\ j.op \in Resets -> "revokeAll"
      [] j.at = "revokeAll" /\ j.op = "status" -> "upsert"
      [] OTHER -> "idle"

\* j at another step, with another record in hand.
Step(j, at) == IF at = "idle" THEN Idle ELSE [j EXCEPT !.at = at, !.copy = None]
With(j, u, record) == [j EXCEPT !.id = u, !.user = record]

Become(t, j) == job' = [job EXCEPT ![t] = j]

Init ==
    /\ office \in Offices /\ users = office.users
    /\ issued = Cardinality(Existing) /\ hashed = Cardinality(Existing)
    /\ sessions = [s \in Sids |-> IF s \in Existing THEN [user |-> s, pass |-> users[s].pass, revoked |-> FALSE]
                                 ELSE None]
    /\ job = [t \in Threads |-> Idle]
    /\ over = {} /\ begun = 0
    /\ ended = {} /\ outrun = {} /\ demoted = FALSE /\ lost = {}

----------------------------------------------------------------------------
\* Steps that only read.

Begin(t) ==
    /\ job[t] = Idle /\ begun < office.requests /\ begun' = begun + 1
    /\ \E r \in {q \in Requests : q.op \in office.ops} : Become(t, r)
    /\ UNCHANGED <<office, users, sessions, over, issued, hashed, history>>

OnlyReads == UNCHANGED <<office, users, sessions, over, issued, begun, history>>

\* get_session: one that is revoked or past a deadline is dropped from the file.
GetSession(t) ==
    /\ job[t].at = "session"
    /\ LET s == job[t].sid IN
         Become(t, IF s = 0 THEN Step(job[t], "gate") ELSE
                   CASE Usable(s) -> With(Step(job[t], "user"), sessions[s].user, None)
                     [] sessions[s] = None -> Idle
                     [] OTHER -> [Step(job[t], "drop") EXCEPT !.copy = [sessions EXCEPT ![s] = None]])
    /\ UNCHANGED hashed /\ OnlyReads

\* get_authenticated_user: the session of a user that is gone or not active is revoked.
GetUser(t) ==
    /\ job[t].at = "user"
    /\ LET u == job[t].id IN
         Become(t, IF u \in Existing /\ users[u].status = "active"
                   THEN With(Step(job[t], "touch"), u, users[u]) ELSE Step(job[t], "expel"))
    /\ UNCHANGED hashed /\ OnlyReads

\* _require_access and _authorize_user_mutation, with the role read in GetUser; a
\* request without the token of its session is refused whatever it asks.
Gate(t) ==
    /\ job[t].at = "gate"
    /\ LET j == job[t]
           asksOwner == j.role = "owner" \/ (j.op \in OnAccount /\ RoleOf(j.target) = "owner")
           granted == /\ May(j.user, Needed(j))
                      /\ asksOwner => j.user.role = "owner"
                      /\ Disabling(j) => May(j.user, "user.disable")
           anonymous == j.user = None
       IN \/ Become(t, Idle)
          \/ /\ IF anonymous THEN Needed(j) = "none" /\ Open(Route(j)[1], Route(j)[2]) ELSE granted
             /\ Become(t, Step(j, CASE j.op = "me" -> "idle"
                                    [] j.op = "logout" -> "revoke"
                                    [] j.op = "visit" -> "resolve"
                                    [] j.op = "create" -> "free"
                                    [] OTHER -> "read"))
    /\ UNCHANGED hashed /\ OnlyReads

\* resolve_admin_...; what the operation does is not part of this module.
Resolve(t) ==
    /\ job[t].at = "resolve"
    /\ Become(t, Idle)
    /\ UNCHANGED hashed /\ OnlyReads

\* A free id, not drawn by another thread either.
FreshId == CHOOSE u \in Ids \ Existing : \A t \in Threads : job[t].at = "add" => job[t].id # u
HasFreshId == \E u \in Ids \ Existing : \A t \in Threads : job[t].at = "add" => job[t].id # u

New(t, n, r, x) ==
    /\ HasFreshId /\ hashed < MaxHashes /\ hashed' = hashed + 1
    /\ Become(t, With(Step(job[t], "add"), FreshId, [name |-> n, role |-> r, status |-> x, pass |-> hashed']))

HasUsers(t) ==
    /\ job[t].at = "has"
    /\ IF Existing = {} THEN New(t, job[t].target, "owner", "active") ELSE Become(t, Idle) /\ UNCHANGED hashed
    /\ OnlyReads

\* Mutant of NameFree: list_users without the disabled ones.
NameFree_Active(t) ==
    /\ job[t].at = "free"
    /\ IF ~\E u \in Named(job[t].target) : users[u].status # "disabled"
       THEN New(t, job[t].target, job[t].role, job[t].status)
       ELSE Become(t, Idle) /\ UNCHANGED hashed
    /\ OnlyReads

NameFree(t) ==
    /\ job[t].at = "free"
    /\ IF Named(job[t].target) = {} THEN New(t, job[t].target, job[t].role, job[t].status)
       ELSE Become(t, Idle) /\ UNCHANGED hashed
    /\ OnlyReads

\* authenticate_admin_user up to the check of the password.
Verify(t) ==
    /\ job[t].at = "verify"
    /\ \/ Become(t, Idle)
       \/ \E u \in Named(job[t].target) :
            users[u].status = "active" /\ Become(t, With(Step([job[t] EXCEPT !.stale = {}], "issue"), u, users[u]))
    /\ UNCHANGED hashed /\ OnlyReads

\* The record a request will write, made from the one in the file.
ReadRecord(t) ==
    /\ job[t].at = "read"
    /\ LET j == job[t]
           u == IF j.op = "change" THEN j.id ELSE j.target
           rehash == [users[u] EXCEPT !.pass = hashed + 1]
           update == [users[u] EXCEPT !.role = IF j.role = None THEN @ ELSE j.role,
                                      !.status = IF j.status = None THEN @ ELSE j.status]
       IN \/ (u \notin Existing \/ j.op = "change") /\ Become(t, Idle) /\ UNCHANGED hashed
          \/ /\ u \in Existing /\ j.op \in Resets
             /\ hashed < MaxHashes /\ hashed' = hashed + 1
             /\ Become(t, With(Step(j, "upsert"), u, rehash))
          \/ /\ u \in Existing /\ j.op \in Updates /\ UNCHANGED hashed
             /\ Become(t, With(Step(j, IF Disabling(j) THEN "owners" ELSE "upsert"), u, update))
    /\ OnlyReads

\* Mutant of LastOwner: disabled owners count.
LastOwner_Disabled(t) ==
    /\ job[t].at = "owners"
    /\ Become(t, IF {u \in Existing : users[u].role = "owner"} = {job[t].target} THEN Idle
                 ELSE Step(job[t], "revokeAll"))
    /\ UNCHANGED hashed /\ OnlyReads

\* "Cannot disable the last owner"
LastOwner(t) ==
    /\ job[t].at = "owners"
    /\ Become(t, IF Owners = {job[t].target} THEN Idle ELSE Step(job[t], "revokeAll"))
    /\ UNCHANGED hashed /\ OnlyReads

----------------------------------------------------------------------------
\* Steps that replace a file.

ChangeUsers(t) ==
    /\ job[t].at \in UserSteps /\ job[t].copy = None
    /\ Become(t, [job[t] EXCEPT !.copy = [users EXCEPT ![job[t].id] = job[t].user]])
    /\ UNCHANGED hashed /\ OnlyReads

Revoke(S) == [s \in Sids |-> IF s \in S THEN [sessions[s] EXCEPT !.revoked = TRUE] ELSE sessions[s]]

\* Mutant of NewSessions: the touch writes the session the request has found before.
NewSessions_Found(j) ==
    CASE j.at \in {"expel", "revoke"} -> Revoke({s \in {j.sid} : sessions[s] # None})
      [] j.at = "revokeAll" -> Revoke({s \in Sids : sessions[s] # None /\ sessions[s].user = j.id})
      [] j.at = "touch" ->
           [sessions EXCEPT ![j.sid] = [user |-> j.id, pass |-> j.user.pass, revoked |-> FALSE]]
      [] j.at = "issue" ->
           [sessions EXCEPT ![issued + 1] = [user |-> j.id, pass |-> j.user.pass, revoked |-> FALSE]]

\* What a step makes of the sessions file.
\* touch_session drops a session that has ended meanwhile.
NewSessions(j) ==
    CASE j.at \in {"expel", "revoke"} -> Revoke({s \in {j.sid} : sessions[s] # None})
      [] j.at = "revokeAll" -> Revoke({s \in Sids : sessions[s] # None /\ sessions[s].user = j.id})
      [] j.at = "touch" -> IF Usable(j.sid) THEN sessions ELSE [sessions EXCEPT ![j.sid] = None]
      [] j.at = "issue" ->
           [sessions EXCEPT ![issued + 1] = [user |-> j.id, pass |-> j.user.pass, revoked |-> FALSE]]

\* Without a session to revoke, the file is left alone.
ChangeSessions(t) ==
    /\ job[t].at \in SessionSteps \ {"drop"} /\ job[t].copy = None
    /\ LET j == job[t]
           new == NewSessions(j)
       IN /\ j.at = "issue" => issued < MaxSessions
          /\ issued' = IF j.at = "issue" THEN issued + 1 ELSE issued
          /\ Become(t, IF new = sessions /\ j.at # "touch" THEN Step(j, After(j)) 
                       ELSE [j EXCEPT !.copy = new, !.sid = IF j.at = "issue" THEN issued' ELSE @])
    /\ UNCHANGED <<office, users, sessions, over, hashed, begun, history>>

\* What the others hold, or have decided on, and the new users file contradicts.
OutdatedUsers(j, new) ==
    \/ j.at \in UserSteps /\ j.copy # None
    \/ j.at \in {"owners", "issue", "stamp", "upsert"} \cup (IF j.op = "status" THEN {"revokeAll"} ELSE {})
         /\ new[j.id] # users[j.id]
    \/ j.at = "add" /\ {u \in Ids : new[u] # None} # Existing
    \/ Disabling(j) /\ j.at \in {"revokeAll", "upsert"}
         /\ {u \in Existing : new[u] # None /\ new[u].status # "disabled" /\ new[u].role = "owner"} # Owners

\* What j saves takes the role of an owner away, or is an owner who is set aside.
Unseats(j) ==
    \/ j.role \notin {None, "owner"} /\ j.op = "role" /\ RoleOf(j.id) = "owner"
    \/ j.user.role = "owner" /\ j.user.status = "other"

SaveUsers(t) ==
    /\ job[t].at \in UserSteps /\ job[t].copy # None
    /\ LET j == job[t]
           new == j.copy
           late(o) == IF new # users /\ OutdatedUsers(o, new) THEN {"users"} ELSE {}
       IN /\ users' = new
          /\ job' = [o \in Threads |-> IF o = t THEN Step(j, After(j))
                                       ELSE [job[o] EXCEPT !.stale = @ \cup late(job[o])]]
          /\ lost' = lost \cup (j.stale \cap {"users"})
          /\ demoted' = (demoted \/ Unseats(j))
    /\ UNCHANGED <<office, sessions, over, issued, hashed, begun, ended, outrun>>

SaveSessions(t) ==
    /\ job[t].at \in SessionSteps /\ job[t].copy # None
    /\ LET j == job[t]
           new == j.copy
           late(o) == IF new # sessions /\ o.at \in SessionSteps /\ o.copy # None THEN {"sessions"} ELSE {}
       IN /\ sessions' = new
          /\ job' = [o \in Threads |-> IF o = t THEN Step(j, After(j))
                                       ELSE [job[o] EXCEPT !.stale = @ \cup late(job[o])]]
          /\ lost' = lost \cup (j.stale \cap {"sessions"})
          /\ ended' = IF j.at \in {"expel", "revoke", "revokeAll"}
                      THEN ended \cup {s \in Sids : new[s] # None /\ new[s].revoked} ELSE ended
          /\ outrun' = IF j.at = "issue" /\ "users" \in j.stale THEN outrun \cup {j.sid} ELSE outrun
    /\ UNCHANGED <<office, users, over, issued, hashed, begun, demoted>>

\* Twelve hours without a request, or seven days.
Deadline(s) ==
    /\ office.deadlines /\ s \in 1..issued \ over /\ over' = over \cup {s}
    /\ UNCHANGED <<office, users, sessions, job, issued, hashed, begun, history>>

----------------------------------------------------------------------------
Next ==
    \/ \E t \in Threads :
         \/ Begin(t) \/ GetSession(t) \/ GetUser(t) \/ Gate(t) \/ Resolve(t) \/ HasUsers(t) \/ NameFree(t)
         \/ Verify(t) \/ ReadRecord(t) \/ LastOwner(t)
         \/ ChangeUsers(t) \/ ChangeSessions(t) \/ SaveUsers(t) \/ SaveSessions(t)
    \/ \E s \in Sids : Deadline(s)

Spec == Init /\ [][Next]_vars

----------------------------------------------------------------------------
\* The types, and what a request has in hand at a step.
TypeOK ==
    /\ office \in Offices /\ users \in [Ids -> User \cup {None}]
    /\ sessions \in [Sids -> Session \cup {None}]
    /\ \A t \in Threads :
         /\ job[t].at \in UserSteps => job[t].user \in User /\ job[t].id \in Ids
         /\ job[t].copy # None => job[t].at \in UserSteps \cup SessionSteps
         /\ job[t].stale \subseteq {"users", "sessions"}
    /\ issued \in 0..MaxSessions /\ hashed \in 0..MaxHashes /\ begun \in 0..MaxRequests

\* A request that reaches an operation comes from an account; and its role has the
\* permission of what the operation does: the list of permissions and the list of
\* operations, which are tried on the path one after the other, agree - but on the
\* switch of a connector under another spelling of its path, which only the second list
\* knows and which every account reaches therefore.
OperationsAuthorised ==
    \A t \in Threads :
        LET j == job[t] IN
        j.at = "resolve" /\ Operation(Route(j)[1], Route(j)[2]) # "none" =>
            /\ j.user # None
            /\ \/ \E q \in Permissions(j.user.role) \cup {"__self__"} :
                    Operation(Route(j)[1], Route(j)[2]) \in OperationsOf(q)
               \/ Route(j)[1] = "POST" /\ Respelled(Route(j)[2])

\* "Cannot disable the last owner", "Username already exists": once an account exists
\* there is an active owner, and no two accounts share a name - as long as no owner loses
\* the role or is given a status other than active and disabled (nothing checks either:
\* the last owner can be suspended), and no request writes the users file on the strength
\* of what another request has changed since.
AccountsSound ==
    "users" \notin lost =>
        /\ Existing = {} \/ ActiveOwners # {} \/ demoted
        /\ \A u, v \in Existing : users[u].name = users[v].name => u = v

\* A session that was revoked, by logging out, disabling its user or a new password,
\* is never usable again, whatever touches the file afterwards - unless a copy read
\* before the revocation was written over it.
EndedStayOut == "sessions" \notin lost => \A s \in ended : ~Usable(s)

\* Once a password has been reset or changed, no session is usable that was opened with
\* the old one, but for a login that overtook the reset: it had verified the old password
\* and opened its session after the reset.
NewPasswordEndsSessions ==
    lost = {} =>
        \A s \in 1..issued :
            Usable(s) /\ sessions[s].pass # users[sessions[s].user].pass =>
                \/ s \in outrun
                \/ \E t \in Threads : job[t].op \in Resets /\ job[t].at = "revokeAll" /\ job[t].id = sessions[s].user
============================================================================
