--------------------------- MODULE ContentPolicy ---------------------------
(***************************************************************************)
(* The global content policy (security/policy.py): one JSON file that      *)
(* threads of the admin server save and that every gateway loads through   *)
(* a cache of its own, whenever it has a text to judge.                    *)
(*                                                                         *)
(* A save writes the file content-intent-policy.tmp and renames it, which  *)
(* concerns inodes: a thread that has opened the temporary file writes to  *)
(* the inode it has opened, whatever it is called by then.  Who loads the  *)
(* file writes the default policy when there is none, in place.            *)
(***************************************************************************)
EXTENDS Integers, Sequences, FiniteSets

CONSTANTS
    Admins,      \* threads of the admin server
    Gateways,
    Rules,       \* rule -> its action, its priority and the scopes it is for
    Texts,       \* text -> its length, whether it asks to remember something, and the spans that
                 \* the detectors of each rule find in it
    DefaultOn,   \* rules that the default policy enables
    Setups,      \* deployments: whether there is a policy at first, which ones are saved, the texts
                 \* judged and for what, and bounds on requests, judgements and crashes
    Nothing, Torn

Scopes == {"input", "tool_args", "output", "memory_write"}
Modes == {"off", "monitor", "enforce"}
Actions == {"allow", "warn", "mask", "block", "escalate"}
Rank == [allow |-> 0, warn |-> 1, mask |-> 2, block |-> 3, escalate |-> 4]

\* enabled = FALSE is the mode "off" here.
Policy == [version : Nat \ {0}, mode : Modes, on : SUBSET DOMAIN Rules]
Default == [version |-> 1, mode |-> "enforce", on |-> DefaultOn]

ASSUME PolicyAssumption ==
    /\ \A r \in DOMAIN Rules : /\ Rules[r].action \in Actions /\ Rules[r].scopes \subseteq Scopes
                             /\ Rules[r].priority \in Int
    /\ \A x \in DOMAIN Texts :
         /\ Texts[x].size \in Nat /\ DOMAIN Texts[x].spans = DOMAIN Rules
         /\ \A r \in DOMAIN Rules : /\ Texts[x].spans[r] \subseteq (0..Texts[x].size) \X (0..Texts[x].size)
                                  /\ \A s \in Texts[x].spans[r] : s[1] <= s[2]
    /\ Setups \subseteq [first : Policy \cup {Nothing}, saved : SUBSET Policy, texts : SUBSET DOMAIN Texts,
                         scopes : SUBSET Scopes, requests : Nat, judgements : Nat, crashes : Nat]
    /\ Admins \cap Gateways = {} /\ DefaultOn \subseteq DOMAIN Rules
    /\ Torn \notin Policy \cup {Nothing} /\ Nothing \notin Policy \cup Nat \cup (Nat \X (DOMAIN Texts) \X Scopes)

VARIABLES
    setup,     \* the deployment; it does not change
    file,      \* the inode of content-intent-policy.json, or Nothing
    temp,      \* that of content-intent-policy.tmp
    inodes,    \* what each holds, a policy or Torn, and its mtime
    clock,     \* what the next mtime is no smaller than
    job,       \* what each thread and each gateway is at
    cache,     \* the policy a gateway has cached and the mtime it goes with
    requests, judged, crashes,
    seen,      \* history: what the file has held since the gateway was asked
    held,      \* history: what the file has been: inode, mtime, policy
    audited,   \* history: the policies of the decisions in the audit log
    raced      \* history: two have been writing at the same time

disk == <<file, temp, inodes, clock>>
history == <<seen, held, raced>>
policyVars == <<setup, disk, job, cache, requests, judged, crashes, seen, held, audited, raced>>

----------------------------------------------------------------------------
\* enforce_text.

Hits(policy, x, scope) ==
    {r \in policy.on : scope \in Rules[r].scopes /\ Texts[x].spans[r] # {}}

\* The action of the rule with the strongest one.  Severity and priority decide between rules
\* of the same action only, whose message is sent.
Action(hits) ==
    LET actions == {Rules[r].action : r \in hits}
    IN CHOOSE a \in actions : \A b \in actions : Rank[b] <= Rank[a]

Before(s, t) == s[1] < t[1] \/ (s[1] = t[1] /\ s[2] < t[2])

\* sorted(): the n-th span has n - 1 before it.
Sorted(spans) ==
    [n \in 1..Cardinality(spans) |-> CHOOSE s \in spans : Cardinality({t \in spans : Before(t, s)}) = n - 1]

\* Mutant of Joined: a span ends where the last one merged into it does.
Joined_LastEnd(m, s) ==
    IF m = <<>> \/ s[1] > m[Len(m)][2] THEN Append(m, s)
    ELSE [m EXCEPT ![Len(m)] = <<@[1], s[2]>>]

\* A span after those that have been merged.
Joined(m, s) ==
    IF m = <<>> \/ s[1] > m[Len(m)][2] THEN Append(m, s)
    ELSE [m EXCEPT ![Len(m)] = <<@[1], IF s[2] > @[2] THEN s[2] ELSE @[2]>>]

\* Spans that overlap or touch are one.
Merged(spans) ==
    LET merged[n \in 0..Cardinality(spans)] ==
          IF n = 0 THEN <<>> ELSE Joined(merged[n - 1], Sorted(spans)[n])
    IN merged[Cardinality(spans)]

\* The places from i + 1 to j of a text.
Chunk(i, j) == [n \in 1..(j - i) |-> i + n]

\* What has been put out, and up to where.
Cut(c, s) == [out |-> c.out \o Chunk(c.cursor, s[1]) \o <<0>>, cursor |-> s[2]]

\* _mask_spans: the places of the text that are left, 0 for a span.
Masked(size, spans) ==
    LET m == Merged(spans)
        cut[n \in 0..Len(m)] == IF n = 0 THEN [out |-> <<>>, cursor |-> 0] ELSE Cut(cut[n - 1], m[n])
        last == cut[Len(m)]
    IN last.out \o Chunk(last.cursor, size)

\* What is left of a text that a policy has judged: _process_message and _run_agent_loop
\* for a message, an argument and a reply, sanitize_memory_text for a memory.  <<>> is
\* the refusal that takes the place of the text.
Enforced(policy, x, scope) ==
    LET hits == Hits(policy, x, scope)
        whole == Chunk(0, Texts[x].size)
        masked == Masked(Texts[x].size, UNION {Texts[x].spans[r] : r \in hits})
    IN IF policy.mode # "enforce" \/ hits = {} THEN whole
       ELSE CASE Action(hits) \in {"block", "escalate"} -> <<>>
              [] Action(hits) = "mask" -> IF scope = "input" /\ Texts[x].persist THEN <<>> ELSE masked
              [] OTHER -> whole

\* _record_policy_decision: memories are judged elsewhere.
Recorded(policy, x, scope) ==
    scope # "memory_write" /\ policy.mode # "off" /\ Hits(policy, x, scope) # {}

----------------------------------------------------------------------------
At(a, at) == job[a].at = at
Rest == [at |-> "idle", fd |-> Nothing, new |-> Nothing, stat |-> Nothing, ask |-> Nothing, policy |-> Nothing]
Go(a, j) == job' = [job EXCEPT ![a] = j]
To(a, at) == Go(a, [job[a] EXCEPT !.at = at])
NoCache == [policy |-> Nothing, mtime |-> Nothing]

Content == IF file = Nothing THEN Nothing ELSE inodes[file].policy
Mtime == IF file = Nothing THEN Nothing ELSE inodes[file].mtime

\* A write to inode i, which may exist: the clock need not tell it from the last one.
PutIn(i, policy) ==
    \E tick \in {0, 1} :
        /\ clock' = clock + tick
        /\ inodes' = LET n == [policy |-> policy, mtime |-> clock']
                     IN IF i > Len(inodes) THEN Append(inodes, n) ELSE [inodes EXCEPT ![i] = n]

\* open(name, "w"): a new inode, or the one there is, emptied.
Opened(name) == IF name = Nothing THEN Len(inodes) + 1 ELSE name

\* A policy written over another one leaves a mixture of the two, unless it is as long.
Mixtures(i, policy) ==
    {policy} \cup (IF inodes[i].policy \in {Torn, policy} THEN {} ELSE {Torn})

\* Writing the file, or about to because of what the file was.
Writing(j) == j.at \in {"open", "write", "replace", "create", "fill"}

PolicyInit ==
    /\ setup \in Setups
    /\ inodes = IF setup.first = Nothing THEN <<>> ELSE <<[policy |-> setup.first, mtime |-> 0]>>
    /\ file = IF setup.first = Nothing THEN Nothing ELSE 1
    /\ temp = Nothing /\ clock = 0
    /\ job = [a \in Admins \cup Gateways |-> Rest]
    /\ cache = [g \in Gateways |-> NoCache]
    /\ requests = 0 /\ judged = 0 /\ crashes = 0
    /\ seen = [g \in Gateways |-> {}]
    /\ held = IF setup.first = Nothing THEN {} ELSE {<<1, 0, setup.first>>}
    /\ audited = {} /\ raced = FALSE

----------------------------------------------------------------------------
\* GlobalControlPolicyStore.save, in a request's thread.

\* Mutant of SavedVersion: a page loaded before another save brings its version back.
SavedVersion_Page(current, version) == IF current > version THEN current ELSE version

SavedVersion(current, version) == IF current + 1 > version THEN current + 1 ELSE version

\* The version is one more than that of the file as it is now.
ReadVersion(a) ==
    /\ At(a, "idle") /\ requests < setup.requests /\ requests' = requests + 1
    /\ LET current == IF Content \in {Nothing, Torn} THEN 0 ELSE Content.version
       IN \E p \in setup.saved :
            Go(a, [Rest EXCEPT !.at = "open", !.new = [p EXCEPT !.version = SavedVersion(current, @)]])
    /\ UNCHANGED <<setup, disk, cache, judged, crashes, audited>>

OpenTemp(a) ==
    /\ At(a, "open")
    /\ PutIn(Opened(temp), Torn) /\ temp' = Opened(temp)
    /\ Go(a, [job[a] EXCEPT !.at = "write", !.fd = temp'])
    /\ UNCHANGED <<setup, file, cache, requests, judged, crashes, audited>>

WriteTemp(a) ==
    /\ At(a, "write")
    /\ \E p \in Mixtures(job[a].fd, job[a].new) : PutIn(job[a].fd, p)
    /\ To(a, "replace")
    /\ UNCHANGED <<setup, file, temp, cache, requests, judged, crashes, audited>>

\* When another save has renamed the temporary file, the request fails.
Replace(a) ==
    /\ At(a, "replace")
    /\ IF temp = Nothing THEN UNCHANGED file ELSE file' = temp
    /\ temp' = Nothing /\ Go(a, Rest)
    /\ UNCHANGED <<setup, inodes, clock, cache, requests, judged, crashes, audited>>

----------------------------------------------------------------------------
\* PolicyCache.get and the judgement, in a gateway; load, in a request too.

\* The decision of a policy that was loaded or cached.
Decide(g, j, policy) ==
    /\ Go(g, [Rest EXCEPT !.ask = j.ask, !.policy = policy])
    /\ audited' = IF policy # Nothing /\ Recorded(policy, j.ask[2], j.ask[3]) THEN audited \cup {policy} ELSE audited

\* Mutant of Judge: a policy that was loaded stays.
Judge_Once(g) ==
    /\ At(g, "idle") /\ judged < setup.judgements /\ judged' = judged + 1
    /\ \E x \in setup.texts, scope \in setup.scopes :
         LET j == [Rest EXCEPT !.at = "exists", !.stat = Mtime, !.ask = <<judged', x, scope>>]
         IN IF cache[g].policy # Nothing THEN Decide(g, j, cache[g].policy) ELSE Go(g, j) /\ UNCHANGED audited
    /\ UNCHANGED <<setup, disk, cache, requests, crashes>>

Judge(g) ==
    /\ At(g, "idle") /\ judged < setup.judgements /\ judged' = judged + 1
    /\ \E x \in setup.texts, scope \in setup.scopes :
         LET j == [Rest EXCEPT !.at = "exists", !.stat = Mtime, !.ask = <<judged', x, scope>>]
         IN IF cache[g].policy # Nothing /\ cache[g].mtime = Mtime THEN Decide(g, j, cache[g].policy)
            ELSE Go(g, j) /\ UNCHANGED audited
    /\ UNCHANGED <<setup, disk, cache, requests, crashes>>

\* get_global_policy: a page of the admin console, which changes nothing where there is a file.
View(a) ==
    /\ At(a, "idle") /\ setup.first = Nothing /\ requests < setup.requests /\ requests' = requests + 1
    /\ Go(a, [Rest EXCEPT !.at = "exists"])
    /\ UNCHANGED <<setup, disk, cache, judged, crashes, audited>>

\* ensure_exists.
Exists(a) ==
    /\ At(a, "exists")
    /\ To(a, IF file = Nothing THEN "create" ELSE "read")
    /\ UNCHANGED <<setup, disk, cache, requests, judged, crashes, audited>>

Create(a) ==
    /\ At(a, "create")
    /\ PutIn(Opened(file), Torn) /\ file' = Opened(file)
    /\ Go(a, [job[a] EXCEPT !.at = "fill", !.fd = file'])
    /\ UNCHANGED <<setup, temp, cache, requests, judged, crashes, audited>>

Fill(a) ==
    /\ At(a, "fill")
    /\ \E p \in Mixtures(job[a].fd, Default) : PutIn(job[a].fd, p)
    /\ To(a, "read")
    /\ UNCHANGED <<setup, file, temp, cache, requests, judged, crashes, audited>>

\* A file that cannot be read leaves the cache as it is, and the text unjudged.
Read(a) ==
    /\ At(a, "read")
    /\ \/ a \in Admins /\ Go(a, Rest) /\ UNCHANGED <<cache, audited>>
       \/ a \in Gateways /\ Content = Torn /\ Decide(a, job[a], Nothing) /\ UNCHANGED cache
       \/ /\ a \in Gateways /\ Content # Torn
          /\ Decide(a, job[a], Content)
          /\ cache' = [cache EXCEPT ![a] = [policy |-> Content, mtime |-> job[a].stat]]
    /\ UNCHANGED <<setup, disk, requests, judged, crashes>>

----------------------------------------------------------------------------
\* The admin server dies, or a gateway, and starts again.
Crash(S) ==
    /\ crashes < setup.crashes /\ crashes' = crashes + 1
    /\ job' = [a \in DOMAIN job |-> IF a \in S THEN Rest ELSE job[a]]
    /\ cache' = [g \in Gateways |-> IF g \in S THEN NoCache ELSE cache[g]]
    /\ UNCHANGED <<setup, disk, requests, judged, audited>>

\* What the history variables make of a step.
Observe ==
    /\ seen' = [g \in Gateways |->
                  IF job'[g].ask # job[g].ask /\ job'[g].ask # Nothing THEN {Content'}
                  ELSE seen[g] \cup (IF At(g, "idle") THEN {} ELSE {Content'})]
    /\ held' = held \cup (IF file' = Nothing THEN {} ELSE {<<file', Mtime', Content'>>})
    /\ raced' = (raced \/ \E a, b \in DOMAIN job : a # b /\ Writing(job'[a]) /\ Writing(job'[b]))

PolicyNext ==
    /\ \/ \E a \in Admins : ReadVersion(a) \/ OpenTemp(a) \/ WriteTemp(a) \/ Replace(a) \/ View(a)
       \/ \E a \in Admins \cup Gateways : Exists(a) \/ Create(a) \/ Fill(a) \/ Read(a)
       \/ \E g \in Gateways : Judge(g)
       \/ \E S \in {Admins} \cup {{g} : g \in Gateways} : Crash(S)
    /\ Observe

PolicySpec == PolicyInit /\ [][PolicyNext]_policyVars

----------------------------------------------------------------------------
\* Jobs and caches are what the steps expect.
PolicyTypes ==
    /\ file \in {Nothing} \cup 1..Len(inodes) /\ temp \in {Nothing} \cup 1..Len(inodes)
    /\ \A i \in DOMAIN inodes : inodes[i].policy \in Policy \cup {Torn} /\ inodes[i].mtime \in 0..clock
    /\ \A a \in DOMAIN job : /\ At(a, "open") \/ At(a, "write") => job[a].new \in Policy
                             /\ At(a, "write") \/ At(a, "fill") => job[a].fd \in DOMAIN inodes
    /\ \A g \in Gateways : cache[g].policy \in Policy \cup {Nothing}

\* The mtime of the cached policy is one that the file has had with different contents, or that
\* two files have had in its place.
Blurred(g) == \E x, y \in held : x # y /\ x[2] = cache[g].mtime /\ y[2] = cache[g].mtime

Decided(g) == At(g, "idle") /\ job[g].ask # Nothing

\* "All instances should converge to the same active policy version [...] without restart":
\* a text is judged by a policy that the file held while it was judged, in every gateway,
\* however saves fall between the look at the mtime and the load.  It goes unjudged only
\* if two have been writing at the same time, or the default policy was being written.
VerdictFollowsFile ==
    \A g \in Gateways : Decided(g) =>
        IF job[g].policy # Nothing THEN job[g].policy \in seen[g] \/ Blurred(g)
        ELSE raced \/ setup.first = Nothing

\* "policy version used for the decision": no two policies behind decisions of the audit
\* logs, of all gateways, have the same version, unless two were writing at the same time.
VersionNames == ~raced => \A p, q \in audited : p.version = q.version => p = q

\* Of a text: its places in order, namely none, or exactly those that no rule that hits it has
\* found, or all of them, as the strictest of these rules says.
Due(policy, x, scope) ==
    LET text == Enforced(policy, x, scope)
        left == {text[i] : i \in DOMAIN text} \ {0}
        hit(actions) == \E r \in Hits(policy, x, scope) : Rules[r].action \in actions
        found(n) == \E r \in Hits(policy, x, scope) : \E s \in Texts[x].spans[r] : n \in s[1] + 1..s[2]
    IN /\ \A i, j \in DOMAIN text : i < j /\ text[i] # 0 /\ text[j] # 0 => text[i] < text[j]
       /\ IF policy.mode # "enforce" \/ ~hit({"mask", "block", "escalate"}) THEN text = Chunk(0, Texts[x].size)
          ELSE IF hit({"block", "escalate"}) THEN text = <<>>
          ELSE \/ left = {n \in 1..Texts[x].size : ~found(n)}
               \/ text = <<>> /\ scope = "input" /\ Texts[x].persist

\* A rule that allows or warns has a higher priority than all that would not let the text pass.
Overruled(policy, x, scope) ==
    \E r \in Hits(policy, x, scope) : \A q \in Hits(policy, x, scope) :
        Rules[q].action \in {"mask", "block", "escalate"} => Rules[q].priority < Rules[r].priority

Whole(policy, x, scope) == Enforced(policy, x, scope) = Chunk(0, Texts[x].size)

\* What a text that was judged has left is what the strictest of the rules that hit it says, in
\* whatever order and with whatever overlaps they are found, or all of it where the priorities
\* of the rules would have it pass (see PriorityDecides).
StrictestRuleHolds ==
    \A g \in Gateways : Decided(g) /\ job[g].policy # Nothing =>
        LET policy == job[g].policy  x == job[g].ask[2]  scope == job[g].ask[3]
        IN Due(policy, x, scope) \/ (Overruled(policy, x, scope) /\ Whole(policy, x, scope))

----------------------------------------------------------------------------
(* What documents say, and the code does not do. *)

\* "The system shall resolve rule conflicts by: 1. higher priority first 2. more severe action
\* first": a text passes when a rule that lets it has the highest priority.  The code looks
\* at the action first.
PriorityDecides ==
    \A g \in Gateways : Decided(g) /\ job[g].policy # Nothing =>
        LET policy == job[g].policy  x == job[g].ask[2]  scope == job[g].ask[3]
        IN Overruled(policy, x, scope) => Whole(policy, x, scope)

\* "if a valid cached policy exists, continue using cached policy", when the file cannot be
\* read.  The code lets the text pass unjudged, and a consolidation of memory fail.
FailsOnCached == \A g \in Gateways : Decided(g) /\ cache[g].policy # Nothing => job[g].policy # Nothing
=============================================================================
