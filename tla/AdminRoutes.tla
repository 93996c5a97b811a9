----------------------------- MODULE AdminRoutes -----------------------------
(***************************************************************************)
(* What the admin server does with a request, by method and path: the      *)
(* permission it asks for (_match_permission) and the operation it calls   *)
(* (resolve_admin_...), two lists of tests on the path that the code keeps *)
(* apart and that are tried in order.  A path is the sequence of its       *)
(* segments after /admin.                                                  *)
(***************************************************************************)
EXTENDS Integers, Sequences

CONSTANT Spellings   \* segments that name a connector once they are stripped and in lower case

Roles == {"viewer", "operator", "admin", "owner"}
Methods == {"GET", "PATCH", "POST", "DELETE"}

Reads == {"overview.read", "activity.read", "runtime_audit.read", "instance.read", "config.read", "memory.read",
          "skills.read", "channel.read", "provider.read", "mcp.read", "schedule.read", "security.read"}
Works == {"instance.update", "instance.control", "config.update", "memory.update", "skills.update", "skills.delete",
          "channel.update", "provider.update", "mcp.update", "schedule.update", "schedule.run",
          "access_request.review"}
Staffs == {"instance.create", "user.read", "user.create", "user.update"}
Owns == {"instance.delete", "security.update", "user.disable", "auth.manage"}

Permissions(role) ==
    CASE role = "viewer" -> Reads
      [] role = "operator" -> Reads \cup Works
      [] role = "admin" -> Reads \cup Works \cup Staffs
      [] role = "owner" -> Reads \cup Works \cup Staffs \cup Owns

----------------------------------------------------------------------------
Under(p, s) == Len(p) > 1 /\ p[1] = s
UnderServers(p) == Len(p) > 2 /\ p[1] = "mcp" /\ p[2] = "servers"
Ends(p, s) == Len(p) > 0 /\ p[Len(p)] = s
Within(p, s) == \E n \in 1..(Len(p) - 1) : p[n] = s     \* "/s/" in path
OnPolicy(p) == Len(p) > 2 /\ SubSeq(p, 1, 3) = <<"security", "policies", "global">>

EndsWith(p, s) == Len(p) > Len(s) /\ SubSeq(p, Len(p) - Len(s) + 1, Len(p)) = s

Connectors == {"github", "notion", "gmail", "composio", "insightdoc"}
OnConnector(p, verbs) == Len(p) = 3 /\ p[1] = "connectors" /\ p[2] \in Connectors /\ p[3] \in verbs

ASSUME SpellingAssumption == Connectors \subseteq Spellings

\* The path only has to begin and to end like one of a connector that is switched; the
\* segment before the last names the connector, in any spelling (get_connector_preset).
Switches(p) ==
    /\ Under(p, "connectors") /\ (Ends(p, "enable") \/ Ends(p, "disable"))
    /\ p[Len(p) - 1] \in Spellings

\* The list of permissions has the plain paths only.
Respelled(p) == Switches(p) /\ ~OnConnector(p, {"enable", "disable"})

----------------------------------------------------------------------------
\* _match_permission, per method.  "none" stands for None.
PermissionGet(p) ==
    IF p \in {<<"health">>, <<"overview">>} THEN "overview.read" ELSE
    IF p \in {<<"activity">>, <<"activity", "debug">>, <<"analytics", "activity-heatmap">>} THEN "activity.read" ELSE
    IF p = <<"access-requests">> THEN "access_request.review" ELSE
    IF p = <<"schedules">> THEN "schedule.read" ELSE
    IF p = <<"channels">> THEN "channel.read" ELSE
    IF p = <<"providers">> THEN "provider.read" ELSE
    IF p \in {<<"mcp", "servers">>, <<"connectors", "presets">>} THEN "mcp.read" ELSE
    IF p \in {<<"security">>, <<"auth-audit">>} \/ OnPolicy(p) THEN "security.read" ELSE
    IF p = <<"runtime-audit">> THEN "runtime_audit.read" ELSE
    IF p = <<"users">> THEN "user.read" ELSE
    IF Under(p, "instances") /\ Ends(p, "config") THEN "config.read" ELSE
    IF Under(p, "instances") /\ Ends(p, "memory-files") THEN "memory.read" ELSE
    IF Under(p, "instances") /\ (Ends(p, "skills") \/ Within(p, "skills")) THEN "skills.read" ELSE
    IF p = <<"instances">> \/ Under(p, "instances") THEN "instance.read" ELSE
    IF p \in {<<"mobile", "devices">>, <<"mobile", "ngrok", "status">>, <<"mobile", "network-info">>}
      THEN "config.read" ELSE
    "none"

PermissionPatch(p) ==
    IF Under(p, "users") THEN "user.update" ELSE
    IF Ends(p, "memory-files") THEN "memory.update" ELSE
    IF Within(p, "skills") THEN "skills.update" ELSE
    IF Ends(p, "config") THEN "config.update" ELSE
    IF Under(p, "instances") THEN "instance.update" ELSE
    IF Under(p, "providers") THEN "provider.update" ELSE
    IF Under(p, "channels") THEN "channel.update" ELSE
    IF p = <<"security", "workspace-restriction">> THEN "config.update" ELSE
    IF p = <<"security", "policies", "global">> THEN "security.update" ELSE
    IF p = <<"mcp", "servers">> THEN "mcp.update" ELSE
    IF Under(p, "schedules") /\ Ends(p, "enabled") THEN "schedule.update" ELSE
    IF p = <<"auth", "change-password">> THEN "__self__" ELSE
    "none"

\* Mutant of PermissionDelete: a route that only the list of operations knows.
PermissionDelete_NoInstance(p) ==
    IF Within(p, "skills") THEN "skills.delete" ELSE
    IF Under(p, "schedules") THEN "schedule.update" ELSE
    IF UnderServers(p) THEN "mcp.update" ELSE
    "none"

PermissionPost(p) ==
    IF p \in {<<"mobile", "ngrok", "start">>, <<"mobile", "pair">>} THEN "config.update" ELSE
    IF p = <<"users">> THEN "user.create" ELSE
    IF Under(p, "users") /\ Ends(p, "reset-password") THEN "user.update" ELSE
    IF p = <<"instances">> THEN "instance.create" ELSE
    IF Under(p, "instances") /\ \E s \in {"start", "stop", "restart"} : Ends(p, s) THEN "instance.control" ELSE
    IF Under(p, "providers") /\ Ends(p, "validate") THEN "provider.read" ELSE
    IF UnderServers(p) /\ Ends(p, "validate") THEN "mcp.read" ELSE
    IF OnConnector(p, {"install", "enable", "disable"}) THEN "mcp.update" ELSE
    IF OnConnector(p, {"validate"}) THEN "mcp.read" ELSE
    IF p = <<"skills-bank">> THEN "skills.read" ELSE
    IF p = <<"schedules">> THEN "schedule.update" ELSE
    IF Under(p, "schedules") /\ Ends(p, "run") THEN "schedule.run" ELSE
    IF p = <<"security", "policies", "global", "validate">> THEN "security.update" ELSE
    IF p \in {<<"access-requests", "approve">>, <<"access-requests", "reject">>} THEN "access_request.review" ELSE
    IF Under(p, "instances") /\ (EndsWith(p, <<"skills", "import">>) \/ EndsWith(p, <<"skills", "bank", "import">>))
      THEN "skills.update" ELSE
    "none"

PermissionDelete(p) ==
    IF Within(p, "skills") THEN "skills.delete" ELSE
    IF Under(p, "instances") THEN "instance.delete" ELSE
    IF Under(p, "schedules") THEN "schedule.update" ELSE
    IF UnderServers(p) THEN "mcp.update" ELSE
    IF Len(p) > 2 /\ p[1] = "mobile" /\ p[2] = "devices" THEN "config.update" ELSE
    "none"

Permission(m, p) ==
    CASE m = "GET" -> PermissionGet(p) [] m = "PATCH" -> PermissionPatch(p)
      [] m = "POST" -> PermissionPost(p) [] m = "DELETE" -> PermissionDelete(p)

\* _allows_unauthenticated_admin_access: these routes look after themselves.
Open(m, p) ==
    \/ p \in {<<"auth", x>> : x \in {"me", "login", "logout", "bootstrap", "bootstrap-status"}}
    \/ m = "GET" /\ p \in {<<"mobile", x>> : x \in {"poll", "media", "status", "events", "bootstrap"}}
                            \cup {<<"mobile", "push", "config">>}
    \/ m = "POST" /\ p \in {<<"mobile", x>> : x \in {"register", "message", "transcribe"}}
                             \cup {<<"mobile", x, y>> : x \in {"transfer-session"}, y \in {"create", "consume"}}
                             \cup {<<"mobile", "push", "subscribe">>, <<"mobile", "push", "unsubscribe">>,
                                   <<"mobile", "web-login", "approve">>}

----------------------------------------------------------------------------
\* The operation of the service a request ends in; "none" is 404 or 400.

OperationGet(p) ==
    IF p = <<"health">> THEN "get_health" ELSE
    IF p = <<"overview">> THEN "get_overview" ELSE
    IF p = <<"instances">> THEN "list_instances" ELSE
    IF p \in {<<"activity">>, <<"activity", "debug">>, <<"analytics", "activity-heatmap">>} THEN "get_activity" ELSE
    IF p = <<"access-requests">> THEN "list_access_requests" ELSE
    IF p = <<"schedules">> THEN "list_schedules" ELSE
    IF p = <<"users">> THEN "list_admin_users" ELSE
    IF p = <<"skills-bank">> THEN "list_skill_bank" ELSE
    IF Under(p, "instances") /\ Ends(p, "memory-files") THEN "get_instance_memory_files" ELSE
    IF Under(p, "instances") /\ Ends(p, "download") /\ Within(p, "skills") THEN "export_instance_skill_archive" ELSE
    IF Under(p, "instances") /\ Within(p, "skills") THEN "get_instance_skill" ELSE
    IF Under(p, "instances") /\ Ends(p, "skills") THEN "list_instance_skills" ELSE
    IF Under(p, "instances") /\ Ends(p, "config") THEN "get_instance_config" ELSE
    IF Under(p, "instances") THEN "get_instance" ELSE
    IF p = <<"channels">> THEN "list_channels" ELSE
    IF p = <<"providers">> THEN "list_providers" ELSE
    IF p = <<"mcp", "servers">> THEN "list_mcp_servers" ELSE
    IF p = <<"connectors", "presets">> THEN "list_connector_presets" ELSE
    IF p = <<"security">> THEN "get_security" ELSE
    IF p \in {<<"security", "policies", "global">>, <<"security", "policies", "global", "hits">>}
      THEN "get_global_policy" ELSE
    IF p = <<"auth-audit">> THEN "get_auth_audit_log" ELSE
    IF p = <<"runtime-audit">> THEN "get_runtime_audit_events" ELSE
    IF p = <<"mobile", "devices">> THEN "list_mobile_devices" ELSE
    IF p \in {<<"mobile", "ngrok", "status">>, <<"mobile", "network-info">>} THEN "get_ngrok_status" ELSE
    "none"

OperationPatch(p) ==
    IF p = <<"auth", "change-password">> THEN "change_admin_password" ELSE
    IF Under(p, "users") THEN "update_admin_user" ELSE
    IF Under(p, "instances") /\ Ends(p, "memory-files") THEN "update_instance_memory_file" ELSE
    IF Under(p, "instances") /\ Within(p, "skills") THEN "update_instance_skill_file" ELSE
    IF Under(p, "instances") /\ Ends(p, "config") THEN "update_instance_config" ELSE
    IF Under(p, "instances") THEN "update_instance" ELSE
    IF p = <<"providers", "default">> THEN "update_provider_defaults" ELSE
    IF Under(p, "providers") THEN "update_provider_config" ELSE
    IF Under(p, "channels") THEN "update_channel" ELSE
    IF p = <<"security", "workspace-restriction">> THEN "update_workspace_restriction" ELSE
    IF p = <<"security", "policies", "global">> THEN "update_global_policy" ELSE
    IF p = <<"mcp", "servers">> THEN "upsert_mcp_server" ELSE
    IF Under(p, "schedules") /\ Ends(p, "enabled") THEN "set_schedule_enabled" ELSE
    "none"

OperationPost(p) ==
    IF Under(p, "instances") /\ EndsWith(p, <<"skills", "import">>) THEN "import_instance_skill_archive" ELSE
    IF Under(p, "instances") /\ EndsWith(p, <<"skills", "bank", "import">>) THEN "import_skill_bank_entry" ELSE
    IF p = <<"mobile", "pair">> THEN "get_mobile_pairing_data" ELSE
    IF p = <<"mobile", "ngrok", "start">> THEN "start_ngrok" ELSE
    IF p = <<"security", "policies", "global", "validate">> THEN "validate_global_policy" ELSE
    IF p = <<"users">> THEN "create_admin_user" ELSE
    IF Under(p, "users") /\ Ends(p, "reset-password") THEN "reset_admin_user_password" ELSE
    IF p = <<"instances">> THEN "create_instance" ELSE
    IF Under(p, "instances") /\ \E s \in {"start", "stop", "restart"} : Ends(p, s) THEN "execute_instance_action" ELSE
    IF Under(p, "providers") /\ Ends(p, "validate") THEN "validate_provider" ELSE
    IF UnderServers(p) /\ Ends(p, "validate") THEN "validate_mcp_server" ELSE
    "none"

OperationPostConnectors(p) ==
    IF OnConnector(p, {"install"}) THEN "install_connector" ELSE
    IF OnConnector(p, {"validate"}) THEN "validate_connector" ELSE
    IF Switches(p) THEN "set_connector_enabled" ELSE
    "none"

OperationPostRest(p) ==
    IF p = <<"schedules">> THEN "create_schedule" ELSE
    IF Under(p, "schedules") /\ Ends(p, "run") THEN "run_schedule" ELSE
    IF p = <<"access-requests", "approve">> THEN "approve_access_request" ELSE
    IF p = <<"access-requests", "reject">> THEN "reject_access_request" ELSE
    "none"

OperationDelete(p) ==
    IF Under(p, "instances") /\ Within(p, "skills") THEN "delete_instance_skill" ELSE
    IF Under(p, "instances") THEN "delete_instance" ELSE
    IF Under(p, "schedules") THEN "delete_schedule" ELSE
    IF UnderServers(p) THEN "delete_mcp_server" ELSE
    IF Len(p) > 2 /\ p[1] = "mobile" /\ p[2] = "devices" THEN "delete_mobile_device" ELSE
    "none"

Operation(m, p) ==
    CASE m = "GET" -> OperationGet(p)
      [] m = "PATCH" -> OperationPatch(p)
      [] m = "DELETE" -> OperationDelete(p)
      [] m = "POST" -> IF OperationPost(p) # "none" THEN OperationPost(p) ELSE
                       IF OperationPostConnectors(p) # "none" THEN OperationPostConnectors(p) ELSE OperationPostRest(p)

----------------------------------------------------------------------------
\* What the operations do, in terms of the permissions.
OperationsOf(permission) ==
    CASE permission = "overview.read" -> {"get_health", "get_overview"}
      [] permission = "activity.read" -> {"get_activity"}
      [] permission = "runtime_audit.read" -> {"get_runtime_audit_events"}
      [] permission = "instance.read" -> {"list_instances", "get_instance"}
      [] permission = "instance.create" -> {"create_instance"}
      [] permission = "instance.update" -> {"update_instance"}
      [] permission = "instance.delete" -> {"delete_instance"}
      [] permission = "instance.control" -> {"execute_instance_action"}
      [] permission = "config.read" -> {"get_instance_config", "list_mobile_devices", "get_ngrok_status"}
      [] permission = "config.update" -> {"update_instance_config", "update_workspace_restriction", "start_ngrok",
                                          "get_mobile_pairing_data", "delete_mobile_device"}
      [] permission = "memory.read" -> {"get_instance_memory_files"}
      [] permission = "memory.update" -> {"update_instance_memory_file"}
      [] permission = "skills.read" -> {"list_instance_skills", "get_instance_skill", "export_instance_skill_archive",
                                        "list_skill_bank"}
      [] permission = "skills.update" -> {"update_instance_skill_file", "import_instance_skill_archive",
                                          "import_skill_bank_entry"}
      [] permission = "skills.delete" -> {"delete_instance_skill"}
      [] permission = "channel.read" -> {"list_channels"}
      [] permission = "channel.update" -> {"update_channel"}
      [] permission = "provider.read" -> {"list_providers", "validate_provider"}
      [] permission = "provider.update" -> {"update_provider_defaults", "update_provider_config"}
      [] permission = "mcp.read" -> {"list_mcp_servers", "list_connector_presets", "validate_mcp_server",
                                     "validate_connector"}
      [] permission = "mcp.update" -> {"upsert_mcp_server", "delete_mcp_server", "install_connector",
                                       "set_connector_enabled"}
      [] permission = "schedule.read" -> {"list_schedules"}
      [] permission = "schedule.update" -> {"create_schedule", "set_schedule_enabled", "delete_schedule"}
      [] permission = "schedule.run" -> {"run_schedule"}
      [] permission = "access_request.review" -> {"list_access_requests", "approve_access_request",
                                                  "reject_access_request"}
      [] permission = "security.read" -> {"get_security", "get_global_policy", "get_auth_audit_log"}
      [] permission = "security.update" -> {"update_global_policy", "validate_global_policy"}
      [] permission = "user.read" -> {"list_admin_users"}
      [] permission = "user.create" -> {"create_admin_user"}
      [] permission = "user.update" -> {"update_admin_user", "reset_admin_user_password"}
      [] permission = "__self__" -> {"change_admin_password"}
      [] OTHER -> {}
============================================================================
