---------------------------- MODULE ServiceProofs ----------------------------
(* Theorems about Service.tla, for any instances, checks, files and limits,  *)
(* with signals, exceptions and reloads at any moment.                       *)
EXTENDS Service, SequenceLemmas

\* A pass that has started too many threads is over.
WithinLimit ==
    pc = "attempts" /\ pos <= Len(attempt_list) => started <= MaxPerLoop

\* An attempt that has at most one thread, and one if it is not scheduled.
Sound(a) ==
    /\ a \in AttemptObject /\ Len(a.threads) <= 1
    /\ a.next_run = "zero" => a.threads # <<>>

ListOK ==
    /\ attempt_list \in Seq(AttemptObject)
    /\ \A n \in DOMAIN attempt_list : Sound(attempt_list[n])

\* Where the loop is, and everything else.
LoopOK ==
    /\ pc \in {"test", "attempts", "maintain", "prompt", "discover", "reload",
               "loading", "stopped", "crashed"}
    /\ pos \in 1 .. Len(attempt_list) + 1 /\ started \in 0 .. MaxPerLoop + 1
    /\ scan \subseteq Target /\ stale_list \subseteq Target
    /\ WithinLimit
RestOK ==
    /\ orphans \subseteq Target
    /\ known \subseteq Instance
    /\ is_alive \in [Instance -> {"UP", "DOWN", "PENDING"}]
    /\ metric_data \in [Target -> {"none", "fresh", "stale"}]
    /\ keep_running \in BOOLEAN /\ reload_config \in BOOLEAN
    /\ version \in DOMAIN Files /\ loaded \in DOMAIN Files /\ asked \in DOMAIN Files
    /\ changed \subseteq known

IInv == ListOK /\ LoopOK /\ RestOK

\* Only known instances are in the list, which says which are new.
Distinct ==
    /\ \A n \in DOMAIN attempt_list : attempt_list[n].target[1] \in known
    /\ OneAttemptPerCheck

\* What most steps do: the list keeps its attempts.
Kept ==
    /\ DOMAIN attempt_list' = DOMAIN attempt_list
    /\ \A n \in DOMAIN attempt_list : attempt_list'[n].target = attempt_list[n].target
    /\ UNCHANGED <<known, changed>>

-----------------------------------------------------------------------------
(* What init_instance_attempts makes, for the instances of a set *)

\* Attempts that wait for their time.
NewAttempt == [target : Target, next_run : {"later"}, threads : {<<>>}]

\* The attempts of one instance.
AttemptsOf(i) ==
    [n \in DOMAIN Checks[i] |->
        [target |-> <<i, Checks[i][n]>>, next_run |-> "later", threads |-> <<>>]]

LEMMA AttemptsOfOne ==
    ASSUME NEW i \in Instance
    PROVE  /\ AttemptsOf(i) \in Seq(NewAttempt) /\ DOMAIN AttemptsOf(i) = DOMAIN Checks[i]
           /\ \A n \in DOMAIN Checks[i] : AttemptsOf(i)[n].target = <<i, Checks[i][n]>>
<1>1. Checks[i] \in Seq(ToSet(Checks[i]))
  BY ServiceAssumption
<1>2. Len(Checks[i]) \in Nat /\ DOMAIN Checks[i] = 1 .. Len(Checks[i])
  BY <1>1
<1>3. ASSUME NEW n \in DOMAIN Checks[i]
      PROVE  AttemptsOf(i)[n] \in NewAttempt /\ AttemptsOf(i)[n].target = <<i, Checks[i][n]>>
  <2>1. <<i, Checks[i][n]>> \in Target
    BY DEF Target, ToSet
  <2> QED
    BY <2>1 DEF AttemptsOf, NewAttempt
<1>4. DOMAIN AttemptsOf(i) = 1 .. Len(Checks[i])
  BY <1>2 DEF AttemptsOf
<1>5. AttemptsOf(i) \in [1 .. Len(Checks[i]) -> NewAttempt]
  BY <1>2, <1>3, <1>4 DEF AttemptsOf
<1>6. AttemptsOf(i) \in Seq(NewAttempt)
  BY <1>2, <1>5, IsASeq
<1> QED
  BY <1>2, <1>3, <1>4, <1>6

\* They are new attempts of these instances, one for each check.
LEMMA NewAttemptsOK ==
    ASSUME NEW instances \in SUBSET Instance
    PROVE  LET new == NewAttempts(SetToSeq(instances))
           IN  /\ new \in Seq(NewAttempt)
               /\ \A m, n \in DOMAIN new :
                    /\ new[n].target[1] \in instances
                    /\ new[m].target = new[n].target => m = n
<1> DEFINE s     == SetToSeq(instances)
           parts == [k \in DOMAIN s |-> AttemptsOf(s[k])]
           new   == FlattenSeq(parts)
<1>1. IsFiniteSet(instances)
  BY ChecksAssumption, FS_Subset
<1>2. s \in Seq(instances) /\ \A m, n \in DOMAIN s : s[m] = s[n] => m = n
  BY <1>1, SetToSeqOnce
<1>3. NewAttempts(s) = new
  BY DEF NewAttempts, AttemptsOf
<1> HIDE DEF s
<1>4. \A k \in DOMAIN s : s[k] \in instances /\ s[k] \in Instance
  BY <1>2
<1>5. parts \in Seq(Seq(NewAttempt)) /\ DOMAIN parts = DOMAIN s
  <2>1. Len(s) \in Nat /\ DOMAIN s = 1 .. Len(s)
    BY <1>2
  <2>2. parts \in [1 .. Len(s) -> Seq(NewAttempt)]
    BY <1>4, <2>1, AttemptsOfOne
  <2> QED
    BY <2>1, <2>2, IsASeq
<1>6. \A k \in DOMAIN parts : parts[k] = AttemptsOf(s[k])
  BY <1>5
<1> HIDE DEF parts
<1>7. PICK at : PartEnds(parts, at) /\ Lays(parts, Len(parts), at, new)
  BY <1>5, FlattenParts
<1>8. new \in Seq(NewAttempt)
  BY <1>5, FlattenParts
<1> HIDE DEF new
<1>9. ASSUME NEW n \in DOMAIN new
      PROVE  \E k \in DOMAIN s : \E j \in DOMAIN Checks[s[k]] :
                /\ n = at[k - 1] + j
                /\ new[n].target = <<s[k], Checks[s[k]][j]>>
  <2>1. PICK k \in 1 .. Len(parts) : \E j \in DOMAIN parts[k] : n = at[k - 1] + j
    BY <1>7 DEF Lays
  <2>2. PICK j \in DOMAIN parts[k] : n = at[k - 1] + j
    BY <2>1
  <2>3. k \in DOMAIN s /\ parts[k] = AttemptsOf(s[k]) /\ s[k] \in Instance
    BY <1>4, <1>5, <1>6
  <2>4. j \in DOMAIN Checks[s[k]] /\ parts[k][j].target = <<s[k], Checks[s[k]][j]>>
    BY <2>3, AttemptsOfOne
  <2>5. new[n] = parts[k][j]
    BY <1>7, <2>2 DEF Lays
  <2> QED
    BY <2>2, <2>3, <2>4, <2>5
<1>10. ASSUME NEW m \in DOMAIN new, NEW n \in DOMAIN new
       PROVE  /\ new[n].target[1] \in instances
              /\ new[m].target = new[n].target => m = n
  <2>1. PICK k \in DOMAIN s : \E j \in DOMAIN Checks[s[k]] :
            n = at[k - 1] + j /\ new[n].target = <<s[k], Checks[s[k]][j]>>
    BY <1>9
  <2>2. PICK j \in DOMAIN Checks[s[k]] :
            n = at[k - 1] + j /\ new[n].target = <<s[k], Checks[s[k]][j]>>
    BY <2>1
  <2>3. PICK l \in DOMAIN s : \E i \in DOMAIN Checks[s[l]] :
            m = at[l - 1] + i /\ new[m].target = <<s[l], Checks[s[l]][i]>>
    BY <1>9
  <2>4. PICK i \in DOMAIN Checks[s[l]] :
            m = at[l - 1] + i /\ new[m].target = <<s[l], Checks[s[l]][i]>>
    BY <2>3
  <2>5. new[n].target[1] \in instances
    BY <1>4, <2>2
  <2>6. ASSUME new[m].target = new[n].target PROVE m = n
    <3>1. s[l] = s[k] /\ Checks[s[l]][i] = Checks[s[k]][j]
      BY <2>2, <2>4, <2>6
    <3>2. l = k
      BY <1>2, <3>1
    <3>3. i = j
      BY <1>4, <3>1, <3>2, ChecksAssumption
    <3> QED
      BY <2>2, <2>4, <3>2, <3>3
  <2> QED
    BY <2>5, <2>6
<1> QED
  BY <1>3, <1>8, <1>10 DEF s

-----------------------------------------------------------------------------
(* The list of attempts *)

LEMMA Lengths ==
    ASSUME ListOK
    PROVE  /\ Len(attempt_list) \in Nat
           /\ DOMAIN attempt_list = 1 .. Len(attempt_list)
           /\ attempt_list \in [1 .. Len(attempt_list) -> AttemptObject]
  BY DEF ListOK

LEMMA NewIsSound ==
    ASSUME NEW a \in NewAttempt
    PROVE  Sound(a)
<1>1. a.target \in Target /\ a.next_run = "later" /\ a.threads = <<>>
  BY DEF NewAttempt
<1>2. a = [target |-> a.target, next_run |-> "later", threads |-> <<>>]
  BY DEF NewAttempt
<1>3. a \in AttemptObject
  <2>1. << >> \in Seq({"start", "rows", "store", "end"})
    OBVIOUS
  <2> QED
    BY <1>1, <1>2, <2>1 DEF AttemptObject
<1> QED
  BY <1>1, <1>3 DEF Sound

\* A list of new attempts.
LEMMA NewList ==
    ASSUME NEW instances \in SUBSET Instance,
           attempt_list' = NewAttempts(SetToSeq(instances))
    PROVE  ListOK'
<1>1. attempt_list' \in Seq(NewAttempt)
  BY NewAttemptsOK
<1>2. \A n \in DOMAIN attempt_list' : Sound(attempt_list'[n])
  BY <1>1, NewIsSound
<1>3. attempt_list' \in Seq(AttemptObject)
  BY <1>1, NewIsSound DEF Sound
<1> QED
  BY <1>2, <1>3 DEF ListOK, Sound

\* New attempts are added.
LEMMA LongerList ==
    ASSUME ListOK, NEW instances \in SUBSET Instance,
           attempt_list' = attempt_list \o NewAttempts(SetToSeq(instances))
    PROVE  ListOK' /\ Len(attempt_list') >= Len(attempt_list)
<1> DEFINE new == NewAttempts(SetToSeq(instances))
<1>1. new \in Seq(NewAttempt)
  BY NewAttemptsOK
<1>2. \A n \in DOMAIN new : Sound(new[n])
  BY <1>1, NewIsSound
<1>3. new \in Seq(AttemptObject)
  BY <1>1, NewIsSound DEF Sound
<1>4. attempt_list' = attempt_list \o new
  OBVIOUS
<1> HIDE DEF new
<1>5. attempt_list' \in Seq(AttemptObject) /\ Len(attempt_list') >= Len(attempt_list)
  BY <1>3, <1>4 DEF ListOK
<1>6. ASSUME NEW n \in DOMAIN attempt_list' PROVE Sound(attempt_list'[n])
  <2>1. CASE n <= Len(attempt_list)
    BY <1>3, <1>4, <2>1 DEF ListOK
  <2>2. CASE ~(n <= Len(attempt_list))
    <3>1. n - Len(attempt_list) \in DOMAIN new /\ attempt_list'[n] = new[n - Len(attempt_list)]
      BY <1>3, <1>4, <2>2 DEF ListOK
    <3> QED
      BY <1>2, <3>1
  <2> QED
    BY <2>1, <2>2
<1> QED
  BY <1>5, <1>6 DEF ListOK, Sound

\* One attempt changes.
LEMMA ChangedList ==
    ASSUME ListOK, NEW n \in DOMAIN attempt_list, NEW a, Sound(a),
           a.target = attempt_list[n].target, UNCHANGED <<known, changed>>,
           attempt_list' = [attempt_list EXCEPT ![n] = a]
    PROVE  ListOK' /\ Len(attempt_list') = Len(attempt_list) /\ Kept
<1>1. attempt_list' \in Seq(AttemptObject) /\ Len(attempt_list') = Len(attempt_list)
  BY DEF ListOK, Sound
<1>2. ASSUME NEW k \in DOMAIN attempt_list' PROVE Sound(attempt_list'[k])
  <2>1. k \in DOMAIN attempt_list
    BY <1>1
  <2>2. attempt_list'[k] = IF k = n THEN a ELSE attempt_list[k]
    BY <2>1 DEF ListOK
  <2> QED
    BY <2>1, <2>2 DEF ListOK
<1>3. Kept
  BY DEF Kept, ListOK
<1> QED
  BY <1>1, <1>2, <1>3 DEF ListOK, Sound

-----------------------------------------------------------------------------
(* The main loop *)

LEMMA RestartOK ==
    ASSUME IInv, Restart
    PROVE  IInv'
<1>1. PICK found \in SUBSET Discoverable : known' = Files[version] \cup found
  BY DEF Restart
<1>2. known' \in SUBSET Instance
  BY <1>1, ServiceAssumption DEF IInv, RestOK
<1>3. ListOK'
  BY <1>2, NewList DEF Restart
<1>4. Len(attempt_list') \in Nat
  BY <1>3 DEF ListOK
<1>5. LoopOK'
  BY <1>4, ServiceAssumption DEF Restart, LoopOK, WithinLimit
<1>6. RestOK'
  BY <1>2 DEF Restart, IInv, RestOK
<1> QED
  BY <1>3, <1>5, <1>6 DEF IInv

\* The steps that neither touch the list nor where the loop is in it.
LEMMA MaintenanceOK ==
    ASSUME IInv, \/ Test \/ AttemptsProcessed \/ Scan \/ Drop \/ Maintained
                 \/ Prompt \/ NoReload \/ LoadConfig \/ Crash
    PROVE  IInv' /\ Kept
<1> USE DEF vars, loopvars, threadvars, confvars, sigvars
<1>1. ListOK' /\ Len(attempt_list) \in Nat
  BY DEF IInv, ListOK, Test, AttemptsProcessed, Scan, Drop, Maintained, Prompt,
         NoReload, LoadConfig, Crash
<1>2. LoopOK'
  <2>1. CASE Test
    BY <1>1, <2>1, ServiceAssumption DEF Test, IInv, LoopOK, WithinLimit
  <2>2. CASE AttemptsProcessed \/ Scan \/ Drop \/ Maintained
    BY <1>1, <2>2 DEF AttemptsProcessed, Keys, Scan, Drop, Maintained, IInv, LoopOK, WithinLimit
  <2>3. CASE Prompt \/ NoReload \/ LoadConfig \/ Crash
    BY <1>1, <2>3 DEF Prompt, NoReload, LoadConfig, Crash, IInv, LoopOK, WithinLimit
  <2> QED
    BY <2>1, <2>2, <2>3
<1>3. RestOK'
  BY DEF IInv, RestOK, Test, AttemptsProcessed, Scan, Drop, Maintained, Prompt,
         NoReload, LoadConfig, Crash
<1>4. Kept
  BY DEF Kept, Test, AttemptsProcessed, Scan, Drop, Maintained, Prompt, NoReload,
         LoadConfig, Crash
<1> QED
  BY <1>1, <1>2, <1>3, <1>4 DEF IInv

LEMMA ProcessAttemptOK ==
    ASSUME IInv, ProcessAttempt
    PROVE  IInv' /\ Kept
<1> DEFINE a == attempt_list[pos]
<1>1. /\ pos \in DOMAIN attempt_list /\ Sound(a) /\ ListOK
      /\ Len(attempt_list) \in Nat /\ DOMAIN attempt_list = 1 .. Len(attempt_list)
      /\ started \in 0 .. MaxPerLoop /\ MaxPerLoop \in Nat
      /\ UNCHANGED <<known, changed>>
  BY Lengths, ServiceAssumption DEF ProcessAttempt, confvars, IInv, ListOK, LoopOK, WithinLimit
<1>2. RestOK'
  BY DEF ProcessAttempt, confvars, sigvars, IInv, RestOK
<1>3. CASE pos' = pos + 1 /\ UNCHANGED <<attempt_list, started>>
  <2>1. ListOK' /\ Kept
    BY <1>1, <1>3 DEF ListOK, Kept
  <2>2. LoopOK'
    BY <1>1, <1>3 DEF ProcessAttempt, IInv, LoopOK, WithinLimit
  <2> QED
    BY <1>2, <2>1, <2>2 DEF IInv
<1>4. CASE PutOff(pos) /\ ~Passes(a) /\ pos' = pos + 1 /\ UNCHANGED started
  <2>1. /\ Sound([a EXCEPT !.next_run = "later"])
        /\ [a EXCEPT !.next_run = "later"].target = a.target
    BY <1>1 DEF Sound, AttemptObject
  <2>2. attempt_list' = [attempt_list EXCEPT ![pos] = [a EXCEPT !.next_run = "later"]]
    BY <1>4 DEF PutOff
  <2>3. ListOK' /\ Len(attempt_list') = Len(attempt_list) /\ Kept
    BY <1>1, <2>1, <2>2, ChangedList
  <2>4. LoopOK'
    BY <1>1, <1>4, <2>3 DEF ProcessAttempt, IInv, LoopOK, WithinLimit
  <2> QED
    BY <1>2, <2>3, <2>4 DEF IInv
<1>5. CASE /\ ~Passes(a)
           /\ attempt_list' = [attempt_list EXCEPT ![pos].threads = Append(@, "start")]
           /\ started' = started + 1
           /\ pos' = IF started' > MaxPerLoop THEN Len(attempt_list) + 1 ELSE pos + 1
  <2>1. a.next_run = "due" /\ a.threads = <<>>
    BY <1>5 DEF Passes
  <2>2. Append(a.threads, "start") \in Seq({"start", "rows", "store", "end"})
    BY <2>1
  <2>3. /\ Sound([a EXCEPT !.threads = Append(@, "start")])
        /\ [a EXCEPT !.threads = Append(@, "start")].target = a.target
    <3>1. Len(Append(a.threads, "start")) = 1
      BY <2>1
    <3>2. [a EXCEPT !.threads = Append(@, "start")] \in AttemptObject
      BY <1>1, <2>2 DEF Sound, AttemptObject
    <3> QED
      BY <1>1, <2>1, <3>1, <3>2 DEF Sound, AttemptObject
  <2>4. attempt_list' = [attempt_list EXCEPT ![pos] = [a EXCEPT !.threads = Append(@, "start")]]
    BY <1>5
  <2>5. ListOK' /\ Len(attempt_list') = Len(attempt_list) /\ Kept
    BY <1>1, <2>3, <2>4, ChangedList
  <2>6. LoopOK'
    BY <1>1, <1>5, <2>5 DEF ProcessAttempt, IInv, LoopOK, WithinLimit
  <2> QED
    BY <1>2, <2>5, <2>6 DEF IInv
<1> QED
  BY <1>3, <1>4, <1>5 DEF ProcessAttempt

LEMMA DiscoverOK ==
    ASSUME IInv, Discover
    PROVE  IInv'
<1>1. PICK found \in SUBSET Discoverable, differs \in SUBSET Discoverable :
        /\ attempt_list' = attempt_list \o NewAttempts(SetToSeq(ToInit(found, differs)))
        /\ changed' = changed \cup (differs \cap found \cap known)
        /\ known' = known \cup ToInit(found, differs)
  BY DEF Discover
<1>2. ToInit(found, differs) \in SUBSET Instance
  BY ServiceAssumption DEF ToInit
<1>3. ListOK' /\ Len(attempt_list') >= Len(attempt_list)
  BY <1>1, <1>2, LongerList DEF IInv
<1>4. LoopOK'
  <2>1. Len(attempt_list) \in Nat /\ Len(attempt_list') \in Nat
    BY <1>3 DEF IInv, ListOK
  <2> QED
    BY <1>3, <2>1 DEF Discover, IInv, LoopOK, WithinLimit
<1>5. RestOK'
  BY <1>1, <1>2 DEF Discover, sigvars, IInv, RestOK
<1> QED
  BY <1>3, <1>4, <1>5 DEF IInv

LEMMA ReloadedOK ==
    ASSUME IInv, Reloaded
    PROVE  IInv'
<1>1. PICK found \in SUBSET Discoverable : known' = Files[loaded] \cup found
  BY DEF Reloaded
<1>2. known' \in SUBSET Instance
  BY <1>1, ServiceAssumption DEF IInv, RestOK
<1>3. ListOK'
  BY <1>2, NewList DEF Reloaded
<1>4. LoopOK'
  <2>1. Len(attempt_list') \in Nat
    BY <1>3 DEF ListOK
  <2> QED
    BY <2>1 DEF Reloaded, IInv, LoopOK, WithinLimit
<1>5. orphans' \subseteq Target
  <2>1. \A n \in DOMAIN attempt_list : attempt_list[n].target \in Target
    BY DEF IInv, ListOK, Sound, AttemptObject
  <2> QED
    BY <2>1 DEF Reloaded, IInv, RestOK
<1>6. RestOK'
  BY <1>2, <1>5 DEF Reloaded, IInv, RestOK
<1> QED
  BY <1>3, <1>4, <1>6 DEF IInv

-----------------------------------------------------------------------------
(* The threads *)

\* The list changes in one attempt, and nothing else but is_alive and the
\* metrics.
LEMMA OneAttemptOK ==
    ASSUME IInv, NEW n \in DOMAIN attempt_list, NEW a, Sound(a),
           a.target = attempt_list[n].target,
           attempt_list' = [attempt_list EXCEPT ![n] = a],
           is_alive' \in [Instance -> {"UP", "DOWN", "PENDING"}],
           metric_data' \in [Target -> {"none", "fresh", "stale"}],
           UNCHANGED <<loopvars, orphans, confvars, sigvars, events>>
    PROVE  IInv' /\ Kept
<1>1. ListOK' /\ Len(attempt_list') = Len(attempt_list) /\ Kept
  BY ChangedList DEF IInv, confvars
<1>2. LoopOK'
  BY <1>1 DEF loopvars, IInv, LoopOK, WithinLimit
<1>3. RestOK'
  BY DEF confvars, sigvars, IInv, RestOK
<1> QED
  BY <1>1, <1>2, <1>3 DEF IInv

\* The thread of an attempt is the only one.
LEMMA OnlyThread ==
    ASSUME NEW a, Sound(a), NEW k \in DOMAIN a.threads
    PROVE  /\ k = 1 /\ Len(a.threads) = 1
           /\ RemoveAt(a.threads, k) = <<>>
<1>1. a.threads \in Seq({"start", "rows", "store", "end"}) /\ Len(a.threads) <= 1
  BY DEF Sound, AttemptObject
<1>2. Len(a.threads) \in Nat /\ DOMAIN a.threads = 1 .. Len(a.threads)
  BY <1>1
<1>3. k \in 1 .. Len(a.threads)
  BY <1>2
<1>4. Len(a.threads) <= 1
  BY <1>1
<1>5. k = 1 /\ Len(a.threads) = 1
  <2> DEFINE l == Len(a.threads)
  <2>1. l \in Nat /\ k \in 1 .. l /\ l <= 1
    BY <1>2, <1>3, <1>4
  <2> HIDE DEF l
  <2>2. k = 1 /\ l = 1
    BY <2>1
  <2> QED
    BY <2>2 DEF l
<1> QED
  BY <1>1, <1>5 DEF RemoveAt

\* An attempt whose thread k has gone on.
Moved(a, k, to, next) ==
    [a EXCEPT !.threads = [@ EXCEPT ![k] = to], !.next_run = next]

\* A thread that goes on leaves a sound attempt behind.
LEMMA ThreadMoves ==
    ASSUME NEW a, Sound(a), NEW k \in DOMAIN a.threads,
           NEW to \in {"start", "rows", "store", "end"},
           NEW next \in {"zero", "later", "due"}
    PROVE  /\ Sound(Moved(a, k, to, next))
           /\ Moved(a, k, to, next).target = a.target
<1> DEFINE t == [a.threads EXCEPT ![k] = to]
<1>1. a \in AttemptObject /\ a.threads \in Seq({"start", "rows", "store", "end"})
  BY DEF Sound, AttemptObject
<1>2. t \in Seq({"start", "rows", "store", "end"}) /\ Len(t) = 1 /\ t # <<>>
  BY <1>1, OnlyThread
<1> HIDE DEF t
<1> DEFINE b == [a EXCEPT !.threads = t, !.next_run = next]
<1>3. b \in AttemptObject /\ b.threads = t /\ b.target = a.target
  BY <1>1, <1>2 DEF AttemptObject
<1> HIDE DEF b
<1>4. Len(b.threads) = 1 /\ b.threads # << >>
  BY <1>2, <1>3
<1>5. Sound(b)
  BY <1>3, <1>4 DEF Sound
<1> QED
  BY <1>3, <1>5 DEF b, t, Moved

\* A thread ends.
LEMMA ThreadGone ==
    ASSUME NEW a, Sound(a), NEW k \in DOMAIN a.threads
    PROVE  Sound(Ended(a, k)) /\ Ended(a, k).target = a.target
<1> DEFINE b == [a EXCEPT !.threads = RemoveAt(@, k), !.next_run = "later"]
<1>1. RemoveAt(a.threads, k) = << >>
  BY OnlyThread
<1>2. << >> \in Seq({"start", "rows", "store", "end"})
  OBVIOUS
<1>3. /\ b \in AttemptObject /\ b.threads = << >> /\ b.next_run = "later"
      /\ b.target = a.target
  BY <1>1, <1>2 DEF Sound, AttemptObject
<1> HIDE DEF b
<1>4. Sound(b)
  BY <1>3 DEF Sound
<1> QED
  BY <1>3, <1>4 DEF b, Ended

LEMMA ThreadOK ==
    ASSUME IInv, NEW t \in Target, Thread(t)
    PROVE  IInv' /\ Kept
<1>1. PICK n \in DOMAIN attempt_list :
        ThreadBegins(n) \/ Rows(n) \/ Store(n) \/ NoRows(n) \/ ThreadEnds(n)
  BY DEF Thread
<1> DEFINE a == attempt_list[n]
<1>2. /\ Sound(a) /\ a.target \in Target /\ a.next_run \in {"zero", "later", "due"}
      /\ UNCHANGED <<loopvars, orphans, confvars, sigvars, events>>
  BY DEF Thread, IInv, ListOK, Sound, AttemptObject
<1>3. /\ is_alive' \in [Instance -> {"UP", "DOWN", "PENDING"}]
      /\ metric_data' \in [Target -> {"none", "fresh", "stale"}]
  BY <1>1, <1>2 DEF ThreadBegins, Rows, Store, NoRows, ThreadEnds, IInv, RestOK
<1>4. CASE ThreadBegins(n)
  <2>1. PICK k \in DOMAIN a.threads :
          attempt_list' = [attempt_list EXCEPT
            ![n] = [@ EXCEPT !.threads[k] = "rows", !.next_run = "zero"]]
    BY <1>4 DEF ThreadBegins
  <2>2. attempt_list' = [attempt_list EXCEPT ![n] = Moved(a, k, "rows", "zero")]
    BY <2>1 DEF Moved
  <2>3. /\ Sound(Moved(a, k, "rows", "zero"))
        /\ Moved(a, k, "rows", "zero").target = a.target
    BY <1>2, ThreadMoves
  <2> QED
    BY <1>2, <1>3, <2>2, <2>3, OneAttemptOK
<1>5. CASE Rows(n) \/ Store(n) \/ NoRows(n)
  <2>1. PICK k \in DOMAIN a.threads, to \in {"start", "rows", "store", "end"} :
          attempt_list' = [attempt_list EXCEPT ![n].threads[k] = to]
    BY <1>5 DEF Rows, Store, NoRows, Goes
  <2>2. PICK next \in {"zero", "later", "due"} : next = a.next_run
    BY <1>2
  <2>3. attempt_list' = [attempt_list EXCEPT ![n] = Moved(a, k, to, next)]
    BY <1>2, <2>2, <2>1 DEF Sound, AttemptObject, Moved
  <2>4. /\ Sound(Moved(a, k, to, next))
        /\ Moved(a, k, to, next).target = a.target
    BY <1>2, ThreadMoves
  <2> QED
    BY <1>2, <1>3, <2>3, <2>4, OneAttemptOK
<1>6. CASE ThreadEnds(n)
  <2>1. PICK k \in DOMAIN a.threads :
          attempt_list' = [attempt_list EXCEPT ![n] = Ended(@, k)]
    BY <1>6 DEF ThreadEnds
  <2>2. attempt_list' = [attempt_list EXCEPT ![n] = Ended(a, k)]
    BY <2>1
  <2>3. Sound(Ended(a, k)) /\ Ended(a, k).target = a.target
    BY <1>2, ThreadGone
  <2> QED
    BY <1>2, <1>3, <2>2, <2>3, OneAttemptOK
<1> QED
  BY <1>1, <1>4, <1>5, <1>6

LEMMA ElapseOK ==
    ASSUME IInv, NEW t \in Target, Elapse(t)
    PROVE  IInv' /\ Kept
<1>1. PICK n \in DOMAIN attempt_list :
        attempt_list' = [attempt_list EXCEPT ![n].next_run = "due"]
  BY DEF Elapse
<1> DEFINE b == [attempt_list[n] EXCEPT !.next_run = "due"]
<1>2. Sound(attempt_list[n])
  BY DEF IInv, ListOK
<1>3. Sound(b) /\ b.target = attempt_list[n].target
  BY <1>2 DEF Sound, AttemptObject
<1>4. attempt_list' = [attempt_list EXCEPT ![n] = b]
  BY <1>1
<1>5. /\ is_alive' \in [Instance -> {"UP", "DOWN", "PENDING"}]
      /\ metric_data' \in [Target -> {"none", "fresh", "stale"}]
      /\ UNCHANGED <<loopvars, orphans, confvars, sigvars, events>>
  BY DEF Elapse, IInv, RestOK
<1> HIDE DEF b
<1> QED
  BY <1>3, <1>4, <1>5, OneAttemptOK

\* What leaves the loop and the list alone.
LEMMA OthersOK ==
    ASSUME IInv,
           \/ Edit \/ Sighup \/ Sigint \/ UNCHANGED vars
           \/ \E t \in Target : OrphanStores(t) \/ OrphanEnds(t) \/ Age(t)
    PROVE  IInv' /\ Kept
<1> USE DEF vars, loopvars, threadvars, confvars, sigvars
<1>1. UNCHANGED <<attempt_list, loopvars>>
  BY DEF Edit, Sighup, Sigint, OrphanStores, OrphanEnds, Age
<1>2. ListOK' /\ LoopOK'
  BY <1>1 DEF IInv, ListOK, LoopOK, WithinLimit
<1>3. RestOK'
  <2>1. CASE Edit
    <3>1. version' \in DOMAIN Files
      BY <2>1, ServiceAssumption DEF Edit, IInv, RestOK
    <3> QED
      BY <2>1, <3>1 DEF Edit, IInv, RestOK
  <2>2. CASE Sighup \/ Sigint \/ UNCHANGED vars
    BY <2>2 DEF Sighup, Sigint, IInv, RestOK
  <2>3. CASE \E t \in Target : OrphanStores(t) \/ OrphanEnds(t) \/ Age(t)
    BY <2>3 DEF OrphanStores, OrphanEnds, Age, IInv, RestOK
  <2> QED
    BY <2>1, <2>2, <2>3
<1>4. Kept
  BY <1>1 DEF Kept, Edit, Sighup, Sigint, OrphanStores, OrphanEnds, Age
<1> QED
  BY <1>2, <1>3, <1>4 DEF IInv

-----------------------------------------------------------------------------
LEMMA InitIInv == Init => IInv
<1> SUFFICES ASSUME Init PROVE IInv
  OBVIOUS
<1>1. PICK found \in SUBSET Discoverable : known = Files[1] \cup found
  BY DEF Init
<1>2. known \in SUBSET Instance /\ 1 \in DOMAIN Files
  BY <1>1, ServiceAssumption
<1>3. attempt_list \in Seq(NewAttempt)
  BY <1>2, NewAttemptsOK DEF Init
<1>4. \A n \in DOMAIN attempt_list : Sound(attempt_list[n])
  BY <1>3, NewIsSound
<1>5. ListOK
  BY <1>3, <1>4, NewIsSound DEF ListOK, Sound
<1>6. LoopOK
  BY <1>5, ServiceAssumption DEF Init, ListOK, LoopOK, WithinLimit
<1>7. RestOK
  BY <1>2 DEF Init, RestOK
<1> QED
  BY <1>5, <1>6, <1>7 DEF IInv

LEMMA NextIInv == IInv /\ [Next]_vars => IInv'
  BY RestartOK, MaintenanceOK, ProcessAttemptOK, DiscoverOK, ReloadedOK, ThreadOK,
     ElapseOK, OthersOK DEF Next, Loop

LEMMA AlwaysIInv == Spec => []IInv
  BY InitIInv, NextIInv, PTL DEF Spec

-----------------------------------------------------------------------------
(* One attempt per check *)

LEMMA KeptOK ==
    ASSUME Distinct, Kept
    PROVE  Distinct'
  BY DEF Distinct, OneAttemptPerCheck, Kept

\* A new list names each check of its instances once.
LEMMA NewIsDistinct ==
    ASSUME NEW instances \in SUBSET Instance, known' = instances,
           attempt_list' = NewAttempts(SetToSeq(instances))
    PROVE  Distinct'
  BY NewAttemptsOK DEF Distinct, OneAttemptPerCheck

\* What discover adds is not known, or has changed.
LEMMA DiscoverDistinct ==
    ASSUME IInv, Distinct, Discover
    PROVE  Distinct'
<1>1. PICK found \in SUBSET Discoverable, differs \in SUBSET Discoverable :
        /\ attempt_list' = attempt_list \o NewAttempts(SetToSeq(ToInit(found, differs)))
        /\ changed' = changed \cup (differs \cap found \cap known)
        /\ known' = known \cup ToInit(found, differs)
  BY DEF Discover
<1> DEFINE objects == ToInit(found, differs)
           new     == NewAttempts(SetToSeq(objects))
           old     == Len(attempt_list)
<1>2. objects \in SUBSET Instance
  BY ServiceAssumption DEF ToInit
<1>3. /\ new \in Seq(NewAttempt)
      /\ \A m, n \in DOMAIN new :
            new[n].target[1] \in objects /\ (new[m].target = new[n].target => m = n)
  BY <1>2, NewAttemptsOK
<1>4. \A i \in objects : i \in known => i \in changed'
  BY <1>1 DEF ToInit
<1>5. /\ attempt_list' = attempt_list \o new
      /\ changed' = changed \cup (differs \cap found \cap known)
      /\ known' = known \cup objects
  BY <1>1
<1> HIDE DEF objects, new
<1>6. old \in Nat /\ DOMAIN attempt_list = 1 .. old
  BY DEF IInv, ListOK
<1>7. \A n \in DOMAIN attempt_list' :
        \/ n \in DOMAIN attempt_list /\ attempt_list'[n] = attempt_list[n]
        \/ n - old \in DOMAIN new /\ attempt_list'[n] = new[n - old]
  BY <1>3, <1>5, <1>6 DEF IInv, ListOK
<1>8. ASSUME NEW n \in DOMAIN attempt_list'
      PROVE  attempt_list'[n].target[1] \in known'
  BY <1>3, <1>5, <1>7 DEF Distinct
<1>9. ASSUME NEW n \in DOMAIN attempt_list', NEW m \in DOMAIN attempt_list', m # n,
             attempt_list'[m].target = attempt_list'[n].target
      PROVE  attempt_list'[m].target[1] \in changed'
  <2>1. CASE /\ m \in DOMAIN attempt_list /\ attempt_list'[m] = attempt_list[m]
             /\ n \in DOMAIN attempt_list /\ attempt_list'[n] = attempt_list[n]
    BY <1>5, <1>9, <2>1 DEF Distinct, OneAttemptPerCheck
  <2>2. CASE /\ m - old \in DOMAIN new /\ attempt_list'[m] = new[m - old]
             /\ n - old \in DOMAIN new /\ attempt_list'[n] = new[n - old]
    <3>1. m - old = n - old
      BY <1>3, <1>9, <2>2
    <3>2. m \in Int /\ n \in Int
      BY <1>3, <1>5 DEF IInv, ListOK
    <3> QED
      BY <1>6, <1>9, <3>1, <3>2
  <2>3. CASE \/ m \in DOMAIN attempt_list /\ attempt_list'[m] = attempt_list[m]
                /\ n - old \in DOMAIN new /\ attempt_list'[n] = new[n - old]
             \/ n \in DOMAIN attempt_list /\ attempt_list'[n] = attempt_list[n]
                /\ m - old \in DOMAIN new /\ attempt_list'[m] = new[m - old]
    BY <1>3, <1>4, <1>9, <2>3 DEF Distinct
  <2> QED
    BY <1>7, <2>1, <2>2, <2>3
<1> QED
  BY <1>8, <1>9 DEF Distinct, OneAttemptPerCheck

LEMMA InitDistinct == Init => Distinct
<1> SUFFICES ASSUME Init PROVE Distinct
  OBVIOUS
<1>1. known \in SUBSET Instance
  BY InitIInv DEF IInv, RestOK
<1>2. attempt_list = NewAttempts(SetToSeq(known))
  BY DEF Init
<1> QED
  BY <1>1, <1>2, NewAttemptsOK DEF Distinct, OneAttemptPerCheck

LEMMA NextDistinct == IInv /\ Distinct /\ [Next]_vars => Distinct'
<1> SUFFICES ASSUME IInv, Distinct, [Next]_vars PROVE Distinct'
  OBVIOUS
<1>1. CASE Restart \/ Reloaded
  <2>1. known' \in SUBSET Instance
    BY NextIInv DEF IInv, RestOK
  <2> QED
    BY <1>1, <2>1, NewIsDistinct DEF Restart, Reloaded
<1>2. CASE Discover
  BY <1>2, DiscoverDistinct
<1>3. CASE ~(Restart \/ Reloaded \/ Discover)
  <2>1. Kept
    BY <1>3, MaintenanceOK, ProcessAttemptOK, ThreadOK, ElapseOK, OthersOK DEF Next, Loop
  <2> QED
    BY <2>1, KeptOK
<1> QED
  BY <1>1, <1>2, <1>3

-----------------------------------------------------------------------------
\* The variables of the service keep their types.
THEOREM TypeCorrect == Spec => []TypeOK
<1>1. IInv => TypeOK
  BY DEF IInv, ListOK, LoopOK, RestOK, TypeOK
<1> QED
  BY <1>1, AlwaysIInv, PTL

\* No attempt has two threads at a time: process only starts one when it is
\* due and has none, and only its thread takes it off the list of threads.
THEOREM OneThread == Spec => []OneThreadPerAttempt
<1>1. IInv => OneThreadPerAttempt
  BY DEF IInv, ListOK, Sound, OneThreadPerAttempt
<1> QED
  BY <1>1, AlwaysIInv, PTL

\* An attempt that is not scheduled has a thread that will schedule it.
THEOREM NoneIsLost == Spec => []AttemptIsKept
<1>1. IInv => AttemptIsKept
  BY DEF IInv, ListOK, Sound, AttemptIsKept
<1> QED
  BY <1>1, AlwaysIInv, PTL

\* No check is in the list twice, however often discoveries find its instance
\* and whatever is reloaded or restarted, unless they have changed it.
THEOREM OnePerCheck == Spec => []OneAttemptPerCheck
<1>1. Spec => []Distinct
  BY InitDistinct, NextDistinct, AlwaysIInv, PTL DEF Spec
<1>2. Distinct => OneAttemptPerCheck
  BY DEF Distinct
<1> QED
  BY <1>1, <1>2, PTL
=============================================================================
