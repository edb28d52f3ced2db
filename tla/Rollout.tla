------------------------------- MODULE Rollout -------------------------------
(* A change of the configuration reaches a running system: Config.load_base  *)
(* and load_object_file of samm/config.py, the version test of               *)
(* samm/collector.py, and the restarts they lead to.                         *)
(*                                                                           *)
(* Scheduler and collectors read the files when they start, and never again. *)
(* The sum of the modification times is the config_id, which orders carry.   *)
(* An edit raises it, so versions are numbered; an edit that lands between   *)
(* the two halves of a load gives new content under the old id.  An attempt  *)
(* may also come from a directory search, which may fail without a trace in  *)
(* the id.  Reports and the attempts' clocks are in Samm and OrderTiming.    *)
EXTENDS Broker, FiniteSets

CONSTANTS
    Collector,
    Scheduler,
    Attempt,
    Files,          \* the versions of the files, as sets of attempts
    Broken,         \* versions with a syntax error
    Discovered,     \* attempts of hosts the directory has
    MaxReturns,     \* bound: returns to the queue an order's TTL allows
    MaxFaults,      \* bound: crashes, restarts, failed searches, lost orders
    None

Process == Collector \cup {Scheduler}
Version == DOMAIN Files

ASSUME RolloutAssumption ==
    /\ Scheduler \notin Collector
    /\ Files \in Seq(SUBSET Attempt) /\ Files # <<>>
    /\ Broken \subseteq Version /\ Discovered \subseteq Attempt
    /\ MaxReturns \in Nat /\ MaxFaults \in Nat

VARIABLES
    disk,           \* the version on disk
    phase,          \* [Process -> {"down", "loading", "up"}]
    id,             \* [Process -> version]: _config_id; 0 when down
    read,           \* [Process -> version]: where the content is from
    known,          \* [Process -> attempts]: attempt_dict
    orders,         \* samm_orders: [attempt, id, returned]
    job,            \* [Collector -> order or None]: accepted, not acked
    mismatch_action,\* config_version_mismatch_action
    faults          \* counter for MaxFaults

procvars == <<phase, id, read, known>>
vars == <<disk, procvars, orders, job, mismatch_action, faults>>

Order == [attempt : Attempt, id : Version, returned : 0 .. MaxReturns]

Init ==
    /\ disk = 1
    /\ phase = [p \in Process |-> "down"]
    /\ id = [p \in Process |-> 0] /\ read = [p \in Process |-> 0]
    /\ known = [p \in Process |-> {}]
    /\ orders = <<>>
    /\ job = [c \in Collector |-> None]
    /\ mismatch_action \in {"ignore", "exit"}
    /\ faults = 0

-----------------------------------------------------------------------------
(* Starting and ending *)

\* Process p ends, and keeps nothing.
Ends(p) ==
    /\ phase' = [phase EXCEPT ![p] = "down"]
    /\ id' = [id EXCEPT ![p] = 0] /\ read' = [read EXCEPT ![p] = 0]
    /\ known' = [known EXCEPT ![p] = {}]

\* A process is started: getmtime, before the file is opened.
Stat(p) ==
    /\ phase[p] = "down"
    /\ phase' = [phase EXCEPT ![p] = "loading"]
    /\ id' = [id EXCEPT ![p] = disk]
    /\ UNCHANGED <<disk, read, known, orders, job, mismatch_action, faults>>

\* Mutant: the files are opened first, and their times taken afterwards.
ReadBeforeStat(p, found) ==
    LET content == Files[id[p]] \cup found
    IN  /\ phase[p] = "loading"
        /\ IF id[p] \in Broken \/ content = {} THEN Ends(p)
           ELSE /\ phase' = [phase EXCEPT ![p] = "up"]
                /\ id' = [id EXCEPT ![p] = disk]
                /\ read' = [read EXCEPT ![p] = id[p]]
                /\ known' = [known EXCEPT ![p] = content]
        /\ UNCHANGED <<disk, orders, job, mismatch_action>>

\* The files are read and the directory searched.  An error of the search is
\* logged, one of a file ends the process, and so does a configuration
\* without attempts.
Read(p, found) ==
    LET content == Files[disk] \cup found
    IN  /\ phase[p] = "loading"
        /\ IF disk \in Broken \/ content = {} THEN Ends(p)
           ELSE /\ phase' = [phase EXCEPT ![p] = "up"]
                /\ read' = [read EXCEPT ![p] = disk]
                /\ known' = [known EXCEPT ![p] = content]
                /\ UNCHANGED id
        /\ UNCHANGED <<disk, orders, job, mismatch_action>>

Load(p) == Read(p, Discovered) /\ UNCHANGED faults

\* Mutant: however often it was given back, no order ever expires.
GivenBackAnyway(o, q) ==
    orders' = Requeue(q, [o EXCEPT !.returned = @ + 1])

\* Order o, delivered from the head of the queue q, is given back, unless its
\* TTL is over by then.
GivenBack(o, q) ==
    \/ orders' = q
    \/ /\ o.returned < MaxReturns
       /\ orders' = Requeue(q, [o EXCEPT !.returned = @ + 1])

-----------------------------------------------------------------------------
(* Orders *)

InSystem(a) ==
    \/ \E k \in DOMAIN orders : orders[k].attempt = a
    \/ \E c \in Collector : job[c] # None /\ job[c].attempt = a

\* The attempt is due, one order at a time (OrderTiming).
PublishOrder(a) ==
    /\ phase[Scheduler] = "up" /\ a \in known[Scheduler] /\ ~InSystem(a)
    /\ orders' = Publish(orders,
                    [attempt |-> a, id |-> id[Scheduler], returned |-> 0])
    /\ UNCHANGED <<disk, procvars, job, mismatch_action, faults>>

\* Mutants: the action is not asked for; no version is tested; the id of the
\* order, a string, is compared with a number.
KillsOtherVersion(c, o) == o.id # id[c] \/ o.attempt \notin known[c]
KillsUnknown(c, o)      == o.attempt \notin known[c]
KillsAny(c, o)          == mismatch_action = "exit" \/ o.attempt \notin known[c]

\* message_callback ends the process: sys.exit for another version, KeyError
\* for an unknown attempt.  The order goes to the next collector.
Kills(c, o) ==
    \/ o.id # id[c] /\ mismatch_action = "exit"
    \/ o.attempt \notin known[c]

Take(c) ==
    /\ phase[c] = "up" /\ job[c] = None /\ orders # <<>>
    /\ LET o == Head(orders)
       IN  IF Kills(c, o)
           THEN Ends(c) /\ GivenBack(o, DropOldest(orders)) /\ UNCHANGED job
           ELSE /\ job' = [job EXCEPT ![c] = o]
                /\ orders' = DropOldest(orders)
                /\ UNCHANGED procvars
    /\ UNCHANGED <<disk, mismatch_action, faults>>

\* The collection is over and acked.
Finish(c) ==
    /\ job[c] # None
    /\ job' = [job EXCEPT ![c] = None]
    /\ UNCHANGED <<disk, procvars, orders, mismatch_action, faults>>

-----------------------------------------------------------------------------
(* The operator, faults *)

Edit ==
    /\ disk < Len(Files)
    /\ disk' = disk + 1
    /\ UNCHANGED <<procvars, orders, job, mismatch_action, faults>>

Fault == faults < MaxFaults /\ faults' = faults + 1

\* The search of the directory fails: the process runs without what it finds.
SearchFails(p) == Fault /\ Read(p, {})

\* A process crashes or is restarted by the operator.
SchedulerRestarts ==
    /\ Fault /\ phase[Scheduler] = "up"
    /\ Ends(Scheduler)
    /\ UNCHANGED <<disk, orders, job, mismatch_action>>
CollectorRestarts(c) ==
    /\ Fault /\ phase[c] = "up"
    /\ Ends(c)
    /\ IF job[c] = None THEN UNCHANGED orders ELSE GivenBack(job[c], orders)
    /\ job' = [job EXCEPT ![c] = None]
    /\ UNCHANGED <<disk, mismatch_action>>
OrderExpires ==
    /\ Fault /\ orders # <<>>
    /\ orders' = DropOldest(orders)
    /\ UNCHANGED <<disk, procvars, job, mismatch_action>>

-----------------------------------------------------------------------------
Next ==
    \/ \E p \in Process : Stat(p) \/ Load(p) \/ SearchFails(p)
    \/ \E a \in Attempt : PublishOrder(a)
    \/ \E c \in Collector : Take(c) \/ Finish(c) \/ CollectorRestarts(c)
    \/ Edit \/ SchedulerRestarts \/ OrderExpires

\* Whatever ends is started again; the broker delivers, the collectors work.
Fairness ==
    /\ \A p \in Process : WF_vars(Stat(p)) /\ WF_vars(Load(p))
    /\ \A a \in Attempt : WF_vars(PublishOrder(a))
    /\ \A c \in Collector : WF_vars(Take(c)) /\ WF_vars(Finish(c))
Spec == Init /\ [][Next]_vars /\ Fairness

-----------------------------------------------------------------------------
(* Properties *)

\* The variables have their types.
TypeOK ==
    /\ disk \in Version
    /\ phase \in [Process -> {"down", "loading", "up"}]
    /\ id \in [Process -> {0} \cup Version]
    /\ read \in [Process -> {0} \cup Version]
    /\ known \in [Process -> SUBSET Attempt]
    /\ orders \in Seq(Order)
    /\ job \in [Collector -> Order \cup {None}]
    /\ mismatch_action \in {"ignore", "exit"}
    /\ faults \in 0 .. MaxFaults

\* With the action "exit" a collector never works from files older than those
\* whose id the order names, even if they were edited while it read them
\* (getmtime before open, message_callback).
NeverOlder ==
    \A c \in Collector :
        job[c] # None /\ mismatch_action = "exit" => read[c] >= job[c].id

Newest == Len(Files)

\* From some time on the scheduler runs with the id of the newest files.
SchedulerFollows == <>[](phase[Scheduler] = "up" /\ id[Scheduler] = Newest)

\* With "exit", once the scheduler has the newest files every collection is
\* made from them, though no collector is told to reload (message_callback).
RolloutCompletes ==
    SchedulerFollows /\ mismatch_action = "exit"
        => <>[](\A c \in Collector : job[c] # None => read[c] = Newest)

\* The exits end: once the scheduler has the newest files no collector goes
\* on exiting over old orders, other ids or hosts its search did not find.
ExitsEnd ==
    SchedulerFollows => <>[](\A c \in Collector : phase[c] = "up")

\* An attempt the scheduler orders and a fresh collector would know is
\* collected again and again, whatever orders no collector survives are in the
\* queue before it - with "exit" if the scheduler has the newest files.
Wanted(a) ==
    /\ phase[Scheduler] = "up" /\ a \in known[Scheduler]
    /\ disk = Newest /\ disk \notin Broken /\ a \in Files[disk] \cup Discovered
    /\ mismatch_action = "exit" => id[Scheduler] = disk
OthersAreServed ==
    \A a \in Attempt :
        <>[]Wanted(a) => []<>(\E c \in Collector : job[c] # None /\ job[c].attempt = a)
=============================================================================
