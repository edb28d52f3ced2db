------------------------------ MODULE MCService ------------------------------
(* Service for TLC.                                                          *)
EXTENDS Service

\* One host with an up check, and a check that waits for it.
ThreadChecks == [i \in Instance |-> <<"ping", "cpu">>]
ThreadFiles  == <<{"web"}>>

\* A host that is discovered, and in the object files until it is removed.
OneCheck    == [i \in Instance |-> <<"ping">>]
ReloadFiles == <<{"db"}, {}>>

PingIsUp == [i \in Instance |-> "ping"]
=============================================================================
