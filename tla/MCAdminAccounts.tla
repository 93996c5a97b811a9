-------------------------- MODULE MCAdminAccounts --------------------------
EXTENDS AdminAccounts
CONSTANTS t1, t2, a, b, c

Staff(r1, r2, status) ==
    [u \in Ids |-> CASE u = 1 -> [name |-> a, role |-> r1, status |-> "active", pass |-> 1]
                     [] u = 2 -> [name |-> b, role |-> r2, status |-> status, pass |-> 2]
                     [] OTHER -> None]

\* A new installation; two owners, accounts enabled and disabled; two owners, roles given
\* and taken; new passwords; a disabled account, and new ones; sessions that end; one
\* request to every route by each role.
Office(file, ops, deadlines, n) == [users |-> file, ops |-> ops, deadlines |-> deadlines, requests |-> n]
MCOffices ==
    {Office([u \in Ids |-> None], {"bootstrap", "login", "create"}, FALSE, 3),
     Office(Staff("owner", "owner", "active"), {"login", "status"}, FALSE, 3),
     Office(Staff("owner", "owner", "active"), {"role", "status"}, FALSE, 2),
     Office(Staff("owner", "admin", "active"), {"login", "reset", "change"}, FALSE, 3),
     Office(Staff("owner", "admin", "disabled"), {"create", "status"}, FALSE, 2),
     Office(Staff("owner", "admin", "active"), {"me", "login", "logout", "reset"}, TRUE, 2),
     Office(Staff("owner", "admin", "active"), {"me", "logout"}, FALSE, 3),
     Office(Staff("owner", "operator", "active"), {"visit"}, FALSE, 1),
     Office([Staff("owner", "admin", "active") EXCEPT ![3] = [name |-> c, role |-> "viewer", status |-> "active", pass |-> 3]],
            {"visit"}, FALSE, 1)}

\* The routes of the server.
Bare == {<<x>> : x \in {"health", "overview", "activity", "access-requests", "schedules", "channels", "providers",
                       "security", "auth-audit", "runtime-audit", "users", "instances", "skills-bank"}}
Named1 == {<<x, "it">> : x \in {"users", "instances", "providers", "channels", "schedules"}}
          \cup {<<x[1], "it", x[2]>> : x \in
                 ({"instances"} \X {"config", "memory-files", "skills", "start", "stop", "restart"})
                 \cup ({"schedules"} \X {"enabled", "run"})
                 \cup {<<"users", "reset-password">>, <<"providers", "validate">>}}
Skills == {<<"instances", "it", "skills">> \o x : x \in
             {<<"one">>, <<"one", "download">>, <<"import">>, <<"bank", "import">>}}
Servers == {<<"mcp", "servers">>, <<"mcp", "servers", "it">>, <<"mcp", "servers", "it", "validate">>}
Connect == {<<"connectors", x, v>> : x \in {"github", "gmail", "GitHub"},
                                     v \in {"install", "validate", "enable", "disable"}}
           \cup {<<"connectors", "enable">>, <<"connectors", "it", "gmail", "disable">>}
MCSpellings == Connectors \cup {"GitHub"}
Mobile == {<<"mobile", x>> : x \in {"pair", "devices", "register", "message", "poll", "network-info"}}
          \cup {<<"mobile", "devices", "it">>, <<"mobile", "ngrok", "start">>, <<"mobile", "ngrok", "status">>,
                <<"mobile", "push", "config">>}
Others == {<<"activity", "debug">>, <<"connectors", "presets">>, <<"providers", "default">>,
           <<"auth", "change-password">>, <<"auth", "me">>, <<"security", "workspace-restriction">>,
           <<"access-requests", "approve">>, <<"access-requests", "reject">>}
          \cup {<<"security", "policies", "global">> \o x : x \in {<<>>, <<"hits">>, <<"validate">>}}
MCPaths == Bare \cup Named1 \cup Skills \cup Servers \cup Connect \cup Mobile \cup Others
Symmetry == {[t \in {t1, t2} |-> t], [t \in {t1, t2} |-> IF t = t1 THEN t2 ELSE t1]}
============================================================================
