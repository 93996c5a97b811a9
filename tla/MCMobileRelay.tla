--------------------------- MODULE MCMobileRelay ---------------------------
EXTENDS MobileRelay, TLC
CONSTANTS d1, d2, f1

\* Push goes to devices whose app is closed; a device with an open app follows its
\* history.  The two read outbound without touching it, so one deployment each; a third in
\* which the list of devices changes.
Both == [first |-> {d1, d2}, lists |-> {{d1, d2}}, relists |-> 0]
MCSetups == {[open |-> {}, push |-> TRUE, items |-> 4, halts |-> 0, crashes |-> 1] @@ Both,
             [open |-> {d1}, push |-> FALSE, items |-> 3, halts |-> 1, crashes |-> 0] @@ Both,
             [open |-> {d1}, push |-> FALSE, items |-> 2, halts |-> 0, crashes |-> 0,
              first |-> {d1, d2}, lists |-> {{d2}, {d1, d2}}, relists |-> 2]}
============================================================================
