----------------------------- MODULE MCScheduler -----------------------------
(* Scheduler for TLC.  TwoHosts: a host whose checks wait for its ping and   *)
(* one whose checks run even when it is down.  BrokenChecks: attempts that   *)
(* could not be created, in the middle of instance.checks and at its end.    *)
EXTENDS Scheduler

TwoHostChecks   == [i \in {"web", "db"} |-> <<"ping", "cpu">>]
TwoHostAttempts == << <<"web", "ping">>, <<"web", "cpu">>,
                      <<"db", "ping">>, <<"db", "cpu">> >>
AllPing         == [i \in {"web", "db"} |-> "ping"]

BrokenChecks   == [i \in {"web", "db"} |->
                      IF i = "db" THEN <<"ping", "tls", "cpu">>
                                  ELSE <<"ping", "cpu", "tls">>]
BrokenAttempts == { <<"web", "tls">>, <<"db", "tls">> }
=============================================================================
