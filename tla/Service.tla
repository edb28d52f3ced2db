------------------------------- MODULE Service -------------------------------
(* The single-process mode: samm/service.py, and Attempt.process and         *)
(* Attempt.run of samm/attempt.py.                                           *)
(*                                                                           *)
(* The main loop visits every attempt and starts a thread for each that is   *)
(* due, drops stale metrics, serves one client, adds what was discovered and *)
(* reloads the configuration when a SIGHUP asked for it.  The threads write  *)
(* next_run, is_alive and the metrics the loop reads, without a lock.        *)
(*                                                                           *)
(* A check has one metric, and the rows of a run are taken as one.  Serving  *)
(* a client reads the metrics and changes nothing.  Unregistered instances   *)
(* and attempts that could not be created are not in attempt_list and left   *)
(* out, and so are the service's own metrics.                                *)
EXTENDS Naturals, FiniteSets, SequencesExt

CONSTANTS
    Instance,
    Checks,         \* [Instance -> Seq(check)]: instance.checks
    UpCheck,        \* [Instance -> check or None]: up_check_name
    SkipIfDown,     \* instances with check_if_down false
    Files,          \* instances the object files define, version by version
    Discoverable,   \* instances the discoveries may find
    MaxPerLoop,     \* max_attempts_per_loop
    MaxObjects,     \* bound: attempts in attempt_list
    MaxEvents,      \* bound: signals, and exceptions that end process_loop
    None

Target == UNION {{<<i, c>> : c \in ToSet(Checks[i])} : i \in Instance}
IsUpCheck(t) == UpCheck[t[1]] = t[2]

ASSUME ServiceAssumption ==
    /\ \A i \in Instance : Checks[i] \in Seq(ToSet(Checks[i]))
    /\ SkipIfDown \subseteq Instance /\ Discoverable \subseteq Instance
    /\ Files \in Seq(SUBSET Instance) /\ Files # <<>>
    /\ {MaxPerLoop, MaxObjects, MaxEvents} \subseteq Nat

\* No instance lists a check twice.
ASSUME ChecksAssumption ==
    /\ IsFiniteSet(Instance)
    /\ \A i \in Instance : \A m, n \in DOMAIN Checks[i] :
        Checks[i][m] = Checks[i][n] => m = n

VARIABLES
    pc,             \* where process_loop is
    pos,            \* the attempt it visits next
    started,        \* attempts_run_in_loop
    attempt_list,   \* sequence of attempts, see AttemptObject
    orphans,        \* targets an attempt of an earlier list still runs for
    known,          \* running_config: its instances
    is_alive,       \* [Instance -> state] of the instances of running_config
    metric_data,    \* [Target -> "none", "fresh" or "stale"]
    scan,           \* keys maintain_metric_data has yet to look at
    stale_list,
    keep_running,
    reload_config,
    version,        \* of the object files on disk
    loaded,         \* the version running_config was read from
    asked,          \* history: the version at the last SIGHUP that did not
                    \* come during load_config
    changed,        \* history: known instances a discovery changed since
    events          \* counter for MaxEvents

loopvars   == <<pc, pos, started, scan, stale_list>>
threadvars == <<attempt_list, orphans, is_alive, metric_data>>
confvars   == <<known, version, loaded, changed>>
sigvars    == <<keep_running, reload_config, asked>>
vars       == <<loopvars, threadvars, confvars, sigvars, events>>

\* next_run: 0, in the future or in the past.  threads: where each live thread
\* is in run.
AttemptObject ==
    [target : Target, next_run : {"zero", "later", "due"},
     threads : Seq({"start", "rows", "store", "end"})]

TypeOK ==
    /\ pc \in {"test", "attempts", "maintain", "prompt", "discover", "reload",
               "loading", "stopped", "crashed"}
    /\ pos \in 1 .. Len(attempt_list) + 1
    /\ started \in 0 .. MaxPerLoop + 1
    /\ attempt_list \in Seq(AttemptObject)
    /\ orphans \subseteq Target
    /\ known \subseteq Instance
    /\ is_alive \in [Instance -> {"UP", "DOWN", "PENDING"}]
    /\ metric_data \in [Target -> {"none", "fresh", "stale"}]
    /\ scan \subseteq Target /\ stale_list \subseteq Target
    /\ keep_running \in BOOLEAN /\ reload_config \in BOOLEAN
    /\ {version, loaded, asked} \subseteq DOMAIN Files
    /\ changed \subseteq known

-----------------------------------------------------------------------------
(* init_instance_attempts for every instance of a sequence *)

NewAttempts(instances) ==
    FlattenSeq([k \in DOMAIN instances |->
        LET checks == Checks[instances[k]]
        IN  [n \in DOMAIN checks |->
                [target |-> <<instances[k], checks[n]>>,
                 next_run |-> "later", threads |-> <<>>]]])

\* __init__ reads the files and runs the discoveries, of which some may fail.
Init ==
    /\ pc = "test" /\ pos = 1 /\ started = 0 /\ scan = {} /\ stale_list = {}
    /\ version = 1 /\ loaded = 1 /\ asked = 1
    /\ \E found \in SUBSET Discoverable : known = Files[1] \cup found
    /\ attempt_list = NewAttempts(SetToSeq(known))
    /\ orphans = {}
    /\ is_alive = [i \in Instance |-> "PENDING"]
    /\ metric_data = [t \in Target |-> "none"]
    /\ keep_running = TRUE /\ reload_config = FALSE
    /\ changed = {} /\ events = 0

\* The process is started again: its container restarts it.
Restart ==
    /\ pc \in {"stopped", "crashed"}
    /\ pc' = "test" /\ pos' = 1 /\ started' = 0 /\ scan' = {} /\ stale_list' = {}
    /\ loaded' = version /\ asked' = version
    /\ \E found \in SUBSET Discoverable : known' = Files[version] \cup found
    /\ attempt_list' = NewAttempts(SetToSeq(known'))
    /\ orphans' = {}
    /\ is_alive' = [i \in Instance |-> "PENDING"]
    /\ metric_data' = [t \in Target |-> "none"]
    /\ keep_running' = TRUE /\ reload_config' = FALSE
    /\ changed' = {}
    /\ UNCHANGED <<version, events>>

-----------------------------------------------------------------------------
(* The main loop: process_loop *)

\* Mutant: attempts_run_in_loop is not reset.
TestOnly ==
    /\ pc = "test"
    /\ IF keep_running THEN pc' = "attempts" /\ pos' = 1
                       ELSE pc' = "stopped" /\ UNCHANGED pos
    /\ UNCHANGED <<started, scan, stale_list, threadvars, confvars, sigvars, events>>

Test ==
    /\ pc = "test"
    /\ IF keep_running THEN pc' = "attempts" /\ pos' = 1 /\ started' = 0
                       ELSE pc' = "stopped" /\ UNCHANGED <<pos, started>>
    /\ UNCHANGED <<scan, stale_list, threadvars, confvars, sigvars, events>>

\* Mutant: the last thread is not asked whether it is alive.
PassesIfNotDue(a) == a.next_run # "due"

\* process returns at once: not due, or its last run has not ended.
Passes(a) == a.next_run # "due" \/ a.threads # <<>>

\* The instance is not known to be up: process only schedules.  (process
\* reads is_alive twice; here it is read once.)
WaitsForHost(t) ==
    t[1] \in SkipIfDown /\ ~IsUpCheck(t) /\ is_alive[t[1]] # "UP"

\* Mutant: an attempt that has to wait is not scheduled.
PutOffForgets(n) == attempt_list' = [attempt_list EXCEPT ![n].next_run = "zero"]

PutOff(n) == attempt_list' = [attempt_list EXCEPT ![n].next_run = "later"]

\* process_attempts: attempt.process() for the attempt at pos.  Once more than
\* max_attempts_per_loop threads were started the rest of the list is left.
ProcessAttempt ==
    /\ pc = "attempts" /\ pos <= Len(attempt_list)
    /\ LET a == attempt_list[pos]
       IN  \/ /\ Passes(a)
              /\ pos' = pos + 1
              /\ UNCHANGED <<attempt_list, started>>
           \/ /\ ~Passes(a) /\ WaitsForHost(a.target)
              /\ PutOff(pos)
              /\ pos' = pos + 1
              /\ UNCHANGED started
           \/ /\ ~Passes(a) /\ ~WaitsForHost(a.target)
              /\ attempt_list' = [attempt_list EXCEPT
                                    ![pos].threads = Append(@, "start")]
              /\ started' = started + 1
              /\ pos' = IF started' > MaxPerLoop THEN Len(attempt_list) + 1
                                                 ELSE pos + 1
    /\ UNCHANGED <<pc, scan, stale_list, orphans, is_alive, metric_data,
                   confvars, sigvars, events>>

\* Mutant: only metrics of configured instances are looked at.
KeysOfKnown == {t \in Target : metric_data[t] # "none" /\ t[1] \in known}

Keys == {t \in Target : metric_data[t] # "none"}

AttemptsProcessed ==
    /\ pc = "attempts" /\ pos > Len(attempt_list)
    /\ pc' = "maintain"
    /\ scan' = Keys
    /\ UNCHANGED <<pos, started, stale_list, threadvars, confvars, sigvars, events>>

\* maintain_metric_data: one metric is looked at, in the order of the dict.
Scan ==
    /\ pc = "maintain" /\ scan # {}
    /\ LET t == CHOOSE t \in scan : TRUE
       IN  /\ scan' = scan \ {t}
           /\ stale_list' = IF metric_data[t] = "stale" THEN stale_list \cup {t}
                                                        ELSE stale_list
    /\ UNCHANGED <<pc, pos, started, threadvars, confvars, sigvars, events>>

\* ... then those found stale are dropped, one by one, whatever they are now.
Drop ==
    /\ pc = "maintain" /\ scan = {} /\ stale_list # {}
    /\ LET t == CHOOSE t \in stale_list : TRUE
       IN  /\ stale_list' = stale_list \ {t}
           /\ metric_data' = [metric_data EXCEPT ![t] = "none"]
    /\ UNCHANGED <<pc, pos, started, scan, attempt_list, orphans, is_alive,
                   confvars, sigvars, events>>

Maintained ==
    /\ pc = "maintain" /\ scan = {} /\ stale_list = {}
    /\ pc' = "prompt"
    /\ UNCHANGED <<pos, started, scan, stale_list, threadvars, confvars,
                   sigvars, events>>

\* process_prompt_request: waits for a client up to poll_time.
Prompt ==
    /\ pc = "prompt"
    /\ pc' = "discover"
    /\ UNCHANGED <<pos, started, scan, stale_list, threadvars, confvars,
                   sigvars, events>>

\* Mutant: an object the configuration has is returned even if unchanged.
ToInitAnyway(found, differs) == found

\* load_single_object: what process_objects returns of the found instances,
\* the new ones and the known ones whose tags or templates differ.
ToInit(found, differs) == (found \ known) \cup (differs \cap found)

\* discover: attempts for all of it are added to the list.
Discover ==
    /\ pc = "discover"
    /\ \E found \in SUBSET Discoverable, differs \in SUBSET Discoverable :
        LET objects == ToInit(found, differs)
            list == attempt_list \o NewAttempts(SetToSeq(objects))
        IN  /\ Len(list) <= MaxObjects
            /\ attempt_list' = list
            /\ changed' = changed \cup (differs \cap found \cap known)
            /\ known' = known \cup objects
    /\ pc' = "reload"
    /\ UNCHANGED <<pos, started, scan, stale_list, orphans, is_alive,
                   metric_data, version, loaded, sigvars, events>>

\* Mutant: the flag is reset before it is looked at.
ForgetReload ==
    /\ pc = "reload"
    /\ pc' = "test"
    /\ reload_config' = FALSE
    /\ UNCHANGED <<pos, started, scan, stale_list, threadvars, confvars,
                   keep_running, asked, events>>

NoReload ==
    /\ pc = "reload" /\ ~reload_config
    /\ pc' = "test"
    /\ UNCHANGED <<pos, started, scan, stale_list, threadvars, confvars,
                   sigvars, events>>

\* load_config reads the files ...
LoadConfig ==
    /\ pc = "reload" /\ reload_config
    /\ pc' = "loading"
    /\ loaded' = version
    /\ UNCHANGED <<pos, started, scan, stale_list, threadvars, known, version,
                   changed, sigvars, events>>

\* ... and runs the discoveries; then the flag is reset and a new list made.
\* Threads of the old one run on, with instances nobody else refers to.
Reloaded ==
    /\ pc = "loading"
    /\ pc' = "test"
    /\ reload_config' = FALSE
    /\ \E found \in SUBSET Discoverable : known' = Files[loaded] \cup found
    /\ attempt_list' = NewAttempts(SetToSeq(known'))
    /\ pos' = 1
    /\ orphans' = orphans \cup
         {attempt_list[n].target : n \in {k \in DOMAIN attempt_list :
                                            attempt_list[k].threads # <<>>}}
    /\ is_alive' = [i \in Instance |-> "PENDING"]
    /\ changed' = {}
    /\ UNCHANGED <<started, scan, stale_list, metric_data, version, loaded,
                   keep_running, asked, events>>

\* A file with a syntax error, or an object whose template or check does not
\* exist: nothing in the loop catches it.
Crash ==
    /\ pc \in {"discover", "loading"} /\ events < MaxEvents
    /\ pc' = "crashed"
    /\ events' = events + 1
    /\ UNCHANGED <<pos, started, scan, stale_list, threadvars, confvars, sigvars>>

-----------------------------------------------------------------------------
(* The threads: Attempt.run *)

Alive == pc \notin {"stopped", "crashed"}

\* A thread of attempt n goes from one place in run to the next.
Goes(n, from, to) ==
    \E k \in DOMAIN attempt_list[n].threads :
        /\ attempt_list[n].threads[k] = from
        /\ attempt_list' = [attempt_list EXCEPT ![n].threads[k] = to]

ThreadBegins(n) ==
    \E k \in DOMAIN attempt_list[n].threads :
        /\ attempt_list[n].threads[k] = "start"
        /\ attempt_list' = [attempt_list EXCEPT
                ![n] = [@ EXCEPT !.threads[k] = "rows", !.next_run = "zero"]]
        /\ UNCHANGED <<is_alive, metric_data>>

\* The module yields its rows.  The up check's value is stored in the
\* instance before the metric is made of it.
Rows(n) ==
    /\ Goes(n, "rows", "store")
    /\ LET t == attempt_list[n].target
       IN  IF IsUpCheck(t)
           THEN \E state \in {"UP", "DOWN"} :
                    is_alive' = [is_alive EXCEPT ![t[1]] = state]
           ELSE UNCHANGED is_alive
    /\ UNCHANGED metric_data

\* The metric is stored, or its value is one InstanceMetric refuses.
Store(n) ==
    /\ Goes(n, "store", "end")
    /\ \/ metric_data' = [metric_data EXCEPT ![attempt_list[n].target] = "fresh"]
       \/ UNCHANGED metric_data
    /\ UNCHANGED is_alive

\* The module raises, or has no rows.
NoRows(n) == Goes(n, "rows", "end") /\ UNCHANGED <<is_alive, metric_data>>

\* Mutant: the thread ends without schedule_next.
ThreadEndsOnly(n) ==
    \E k \in DOMAIN attempt_list[n].threads :
        /\ attempt_list[n].threads[k] = "end"
        /\ attempt_list' = [attempt_list EXCEPT ![n].threads = RemoveAt(@, k)]
        /\ UNCHANGED <<is_alive, metric_data>>

\* schedule_next, the last thing a thread does.
Ended(a, k) == [a EXCEPT !.threads = RemoveAt(@, k), !.next_run = "later"]
ThreadEnds(n) ==
    \E k \in DOMAIN attempt_list[n].threads :
        /\ attempt_list[n].threads[k] = "end"
        /\ attempt_list' = [attempt_list EXCEPT ![n] = Ended(@, k)]
        /\ UNCHANGED <<is_alive, metric_data>>

Thread(t) ==
    /\ Alive
    /\ \E n \in DOMAIN attempt_list :
        /\ attempt_list[n].target = t
        /\ \/ ThreadBegins(n) \/ Rows(n) \/ Store(n) \/ NoRows(n) \/ ThreadEnds(n)
    /\ UNCHANGED <<loopvars, orphans, confvars, sigvars, events>>

\* A thread of an earlier list writes to the same metrics.
OrphanStores(t) ==
    /\ Alive /\ t \in orphans
    /\ metric_data' = [metric_data EXCEPT ![t] = "fresh"]
    /\ UNCHANGED <<loopvars, attempt_list, orphans, is_alive, confvars, sigvars,
                   events>>
OrphanEnds(t) ==
    /\ Alive /\ t \in orphans
    /\ orphans' = orphans \ {t}
    /\ UNCHANGED <<loopvars, attempt_list, is_alive, metric_data, confvars,
                   sigvars, events>>

-----------------------------------------------------------------------------
(* Time, signals and the operator *)

Elapse(t) ==
    /\ Alive
    /\ \E n \in DOMAIN attempt_list :
        /\ attempt_list[n].target = t /\ attempt_list[n].next_run = "later"
        /\ attempt_list' = [attempt_list EXCEPT ![n].next_run = "due"]
    /\ UNCHANGED <<loopvars, orphans, is_alive, metric_data, confvars, sigvars,
                   events>>

\* is_stale becomes true.
Age(t) ==
    /\ metric_data[t] = "fresh"
    /\ metric_data' = [metric_data EXCEPT ![t] = "stale"]
    /\ UNCHANGED <<loopvars, attempt_list, orphans, is_alive, confvars, sigvars,
                   events>>

Edit ==
    /\ version < Len(Files)
    /\ version' = version + 1
    /\ UNCHANGED <<loopvars, threadvars, known, loaded, changed, sigvars, events>>

Sighup ==
    /\ Alive /\ events < MaxEvents
    /\ reload_config' = TRUE /\ keep_running' = TRUE
    /\ asked' = IF pc = "loading" THEN asked ELSE version
    /\ events' = events + 1
    /\ UNCHANGED <<loopvars, threadvars, confvars>>

Sigint ==
    /\ Alive /\ events < MaxEvents
    /\ keep_running' = FALSE
    /\ events' = events + 1
    /\ UNCHANGED <<loopvars, threadvars, confvars, reload_config, asked>>

Loop ==
    \/ Test \/ ProcessAttempt \/ AttemptsProcessed \/ Scan \/ Drop \/ Maintained
    \/ Prompt \/ Discover \/ NoReload \/ LoadConfig \/ Reloaded

Next ==
    \/ Loop \/ Crash \/ Restart \/ Edit \/ Sighup \/ Sigint
    \/ \E t \in Target : Thread(t) \/ OrphanStores(t) \/ OrphanEnds(t)
                           \/ Elapse(t) \/ Age(t)

\* The loop and the threads go on, and so does time; a module ends some day.
Fairness ==
    /\ WF_vars(Loop) /\ WF_vars(Restart)
    /\ \A t \in Target :
        WF_vars(Thread(t)) /\ WF_vars(OrphanEnds(t))
        /\ WF_vars(Elapse(t)) /\ WF_vars(Age(t))
Spec == Init /\ [][Next]_vars /\ Fairness

-----------------------------------------------------------------------------
(* Properties *)

\* An attempt never runs twice at a time, though next_run stays in the past
\* until the new thread gets to write it (process, run).
OneThreadPerAttempt ==
    \A n \in DOMAIN attempt_list : Len(attempt_list[n].threads) <= 1

\* An attempt that is not scheduled is running: it cannot be lost (run resets
\* next_run, which due takes for "not scheduled", and only run sets it again).
AttemptIsKept ==
    \A n \in DOMAIN attempt_list :
        attempt_list[n].next_run = "zero" => attempt_list[n].threads # <<>>

\* A check is in the list once, unless a discovery changed its instance, for
\* which discover adds all attempts again (discover, init_attempts).
OneAttemptPerCheck ==
    \A m, n \in DOMAIN attempt_list :
        /\ m # n /\ attempt_list[m].target = attempt_list[n].target
        => attempt_list[m].target[1] \in changed

\* A check that stays configured is run again and again, unless its host is
\* seen down or pending again and again (process_attempts, run).
Runs(t) == \E n \in DOMAIN attempt_list :
              attempt_list[n].target = t /\ attempt_list[n].threads # <<>>
ChecksGoOn ==
    \A t \in Target :
        (\A v \in DOMAIN Files : t[1] \in Files[v])
            => []<>Runs(t) \/ []<>WaitsForHost(t)

\* A metric whose instance is no longer configured disappears, whatever old
\* threads still write (maintain_metric_data).
RemovedIsForgotten ==
    \A t \in Target :
        metric_data[t] # "none" /\ t[1] \notin known
            ~> metric_data[t] = "none" \/ t[1] \in known

\* What the files said when SIGHUP came is loaded, unless the process ends:
\* whatever the loop is doing, and whatever other signals come.  The exception
\* is a SIGHUP during load_config, whose flag line 138 resets (process_loop):
\* it is forgotten, and asked leaves it out.
HupIsHonoured ==
    \A v \in DOMAIN Files :
        asked = v /\ Alive ~> loaded >= v \/ ~Alive
=============================================================================
