-------------------------- MODULE MCDeviceAccess --------------------------
EXTENDS DeviceAccess
CONSTANTS t1, t2

Setup(ops, apply, n, chatting, asked, stops, deadlines) ==
    [ops |-> ops, apply |-> apply, paired |-> 1..n, chatting |-> chatting, requests |-> asked, halts |-> stops,
     deadlines |-> deadlines]

\* Pairing and approval; the same beside a gateway that records other senders; deletion and approval with a signal, and with a restart; log-in of
\* a browser; deletion and a new pairing of a device with a browser; transfers; the list edited.
MCSetups ==
    {Setup({"pair", "register", "approve", "reject"}, "none", 0, FALSE, 4, 0, TRUE),
     Setup({"pair", "register", "reject", "note"}, "none", 0, FALSE, 4, 1, FALSE),
     Setup({"approve", "delete", "message"}, "signal", 2, FALSE, 3, 1, FALSE),
     Setup({"delete", "message"}, "restart", 2, FALSE, 3, 1, FALSE),
     Setup({"init", "login", "exchange", "status"}, "none", 2, FALSE, 4, 0, FALSE),
     Setup({"delete", "register", "approve", "chat"}, "none", 1, TRUE, 4, 0, FALSE),
     Setup({"delete", "chat", "logout"}, "none", 2, TRUE, 3, 0, TRUE),
     Setup({"transfer", "claim", "delete"}, "none", 1, FALSE, 4, 0, TRUE),
     Setup({"channel", "approve", "message"}, "signal", 1, FALSE, 3, 1, FALSE)}
Symmetry == {[t \in {t1, t2} |-> t], [t \in {t1, t2} |-> IF t = t1 THEN t2 ELSE t1]}
============================================================================
