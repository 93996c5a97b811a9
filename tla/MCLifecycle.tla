---------------------------- MODULE MCLifecycle ----------------------------
EXTENDS Lifecycle
CONSTANTS t1, t2

D(m, o, v, n, d, r, c) == [mode |-> m, offered |-> o, beside |-> v, ops |-> n, deaths |-> d, reboots |-> r, cuts |-> c]
MCSetups == {
    D("host", {"start", "stop", "status", "reload"}, {"probe"}, 3, 1, 0, 0),
    D("host", {"start", "status", "connector"}, {"probe"}, 3, 0, 0, 1),
    D("host", {"start", "stop", "restart"}, {}, 3, 1, 0, 1),
    D("host", {"stop", "restart"}, {"overlap"}, 2, 0, 0, 1),
    D("sandbox", {"start", "host"}, {"overlap"}, 3, 0, 0, 1),
    D("host", {"start", "stop", "restart", "sandbox", "host"}, {}, 4, 0, 0, 0),
    D("host", {"start", "stop", "restart", "reload", "sandbox"}, {}, 3, 0, 1, 0),
    D("host", {"start", "stop", "delete", "create"}, {}, 4, 0, 0, 0),
    D("host", {"start", "stop"}, {"overlap"}, 2, 0, 0, 0),
    D("host", {"start", "rawSandbox", "connector"}, {}, 3, 1, 0, 1),
    D("sandbox", Ops \ {"delete", "create"}, {"probe", "overlap"}, 2, 1, 1, 1),
    D("sandbox", {"start", "restart", "host", "rawHost", "connector", "stop"}, {}, 3, 1, 0, 0)}
============================================================================
