------------------------------ MODULE Discovery ------------------------------
(* Discoveries: Config.discover_objects, Discovery.run and the iterator of   *)
(* ActiveDirectoryDiscovery (samm/config.py, samm/objecttype/discovery.py),  *)
(* which feed process_objects (Objects.tla).                                 *)
(*                                                                           *)
(* In every loop each discovery whose time has come resolves its attributes  *)
(* (Variables.tla) and searches the directory below its base.  The directory *)
(* is external: it answers in pages, with entries and referrals, or fails.   *)
(* A search is one step.  The legacy service loops; scheduler and collector  *)
(* make the first round only.                                                *)
EXTENDS Objects, Variables

CONSTANTS
    Count,          \* of discoveries
    Setups,         \* configurations: [files, discoveries, table, directories]
    Undefined       \* "(undefined)", the name of entries without a name

VARIABLES
    setup,          \* the configuration the process has been started with
    directory,      \* [base -> pages]: what may be found below a base
    next_run,       \* [discovery -> {"due", "later"}]; 0 is due
    base,           \* [discovery -> value]: ldap_base of its method
    todo            \* discoveries discover_objects has yet to run

dvars == <<setup, directory, next_run, base, todo>>
vars  == <<ovars, dvars>>

\* An answer has at least one page, and the messages of a page are entries,
\* referrals and what cannot be read.
Entry(name, site) == [type |-> "entry", name |-> name, site |-> site]
Referral    == [type |-> "referral"]
Bad         == [type |-> "bad"]      \* a value that is not ASCII, or an error
Done        == [type |-> "done"]
Message     == {Entry(n, s) : n \in Name \cup {None}, s \in Name} \cup {Referral, Bad}

ASSUME SetupsAssumption ==
    /\ Count \in Nat /\ Undefined \in Name
    /\ \A s \in Setups :
        /\ s.files \in Seq(Definition)
        /\ \A k \in 1 .. Count :
            s.discoveries[k].use \in Seq(Name) /\ IsString(s.discoveries[k].base)
        /\ IsTable(s.table)
        /\ \A d \in s.directories : \A from \in DOMAIN d :
            d[from] \in Seq(Seq(Message)) /\ d[from] # <<>>

Index       == 1 .. Count
Discoveries == setup.discoveries

Init ==
    /\ setup \in Setups
    /\ InitObjects(setup.files)
    /\ directory \in setup.directories
    /\ next_run = [k \in Index |-> "due"]
    /\ base = [k \in Index |-> Absent]
    /\ todo = <<>>

-----------------------------------------------------------------------------
(* One search: result3 gives one message after the other, and after the last *)
(* entry of a page a "done" with the cookie of the next page.                *)

Messages(pages) == FlattenSeq([p \in DOMAIN pages |-> Append(pages[p], Done)])

\* Mutant: the cookie of a page is not used.
StopsAtPage(s, k) == s[k] \in {Bad, Done}

\* __next__ takes the "done" of a page together with the first message of the
\* next one, and stops if that is another "done"; no page may be empty but the
\* first.  A value that is not ASCII raises.
Stops(s, k) ==
    \/ s[k] = Bad
    \/ s[k] = Done /\ (k < Len(s) => s[k + 1] = Done)

\* _ldap_to_object_definition.  object_use is copied, so it is a list.
NameOf(e) == IF e.name = None THEN Undefined ELSE e.name
ToDefinition(d, e) ==
    [name |-> NameOf(e), use |-> d.use, string |-> FALSE,
     flag |-> None, opt |-> None, list |-> None, dict |-> FALSE,
     tags |-> [site |-> e.site]]

\* Where list(self.method) ends, and the entries it has taken by then.
FirstStop(s, stop) == Stops(s, stop) /\ \A j \in 1 .. stop - 1 : ~Stops(s, j)
Found(s, stop)     == Picked(s, {j \in 1 .. stop - 1 : s[j].type = "entry"})

-----------------------------------------------------------------------------
(* discover_objects *)

\* After process_objects: the service sleeps, then asks all discoveries.
DiscoverObjects ==
    /\ phase = "idle"
    /\ phase' = "discover" /\ todo' = [k \in Index |-> k] /\ defs' = <<>>
    /\ UNCHANGED <<config, objects, stack, returned, last, asked, setup, directory, next_run, base>>

Asked(k) == phase = "discover" /\ todo # <<>> /\ Head(todo) = k

\* Registered, and its time has come.
Runs(k) == Discoveries[k].register /\ next_run[k] = "due"

NotRun(k) ==
    /\ Asked(k) /\ ~Runs(k)
    /\ todo' = Tail(todo)
    /\ UNCHANGED <<ovars, setup, directory, next_run, base>>

\* The search succeeds.  reprocess has reset the time of the next one, and it
\* stays due if there is no ldap_refresh_seconds.
Search(k) ==
    /\ Asked(k) /\ Runs(k) /\ base[k] \in DOMAIN directory
    /\ \E s \in {Messages(directory[base[k]])} : \E stop \in DOMAIN s :
        /\ FirstStop(s, stop) /\ s[stop] # Bad
        /\ \E found \in {Found(s, stop)} :
            defs' = defs \o [j \in DOMAIN found |-> ToDefinition(Discoveries[k], found[j])]
    /\ next_run' = [next_run EXCEPT ![k] = IF Discoveries[k].refresh THEN "later" ELSE "due"]
    /\ todo' = Tail(todo)
    /\ UNCHANGED <<phase, config, objects, stack, returned, last, asked, setup, directory, base>>

\* Mutant: an exception ends the loop over the discoveries.
FailEndsLoop(k) ==
    /\ Asked(k) /\ Runs(k)
    /\ todo' = <<>>
    /\ UNCHANGED <<ovars, setup, directory, next_run, base>>

\* The server does not answer, knows no such base or sends something odd: the
\* exception is logged, and the discovery tries again in the next loop.
SearchFails(k) ==
    /\ Asked(k) /\ Runs(k)
    /\ todo' = Tail(todo)
    /\ UNCHANGED <<ovars, setup, directory, next_run, base>>

AllDiscovered ==
    /\ phase = "discover" /\ todo = <<>>
    /\ phase' = "load" /\ returned' = {}
    /\ UNCHANGED <<defs, config, objects, stack, last, asked, dvars>>

\* The discoveries' own post_process: an attribute that cannot be resolved
\* ends the process.  reprocess repeats it with the same result.
AllProcessed ==
    /\ AllPostProcessed
    /\ base' = [k \in Index |-> Resolve(setup.table, Discoveries[k].base)]
    /\ phase' = IF \E k \in Index : base'[k] = Raised THEN "refused" ELSE "idle"
    /\ UNCHANGED <<defs, config, objects, stack, returned, last, asked,
                   setup, directory, next_run, todo>>

-----------------------------------------------------------------------------
(* Time and the directory.  next_run is read by discoveries only: that it    *)
(* comes due between two loops is enough.                                    *)

Elapse(k) ==
    /\ phase = "idle" /\ next_run[k] = "later"
    /\ next_run' = [next_run EXCEPT ![k] = "due"]
    /\ UNCHANGED <<ovars, setup, directory, base, todo>>

DirectoryChanges ==
    /\ phase \in {"idle", "discover"}
    /\ directory' \in setup.directories \ {directory}
    /\ UNCHANGED <<ovars, setup, next_run, base, todo>>

Loop ==
    \/ ProcessObjects /\ UNCHANGED dvars
    \/ AllProcessed \/ DiscoverObjects \/ AllDiscovered
    \/ \E k \in Index : NotRun(k) \/ Search(k) \/ SearchFails(k)
Next == Loop \/ DirectoryChanges \/ \E k \in Index : Elapse(k)

\* The loop goes on, time passes, and not every search that could succeed
\* fails.
Spec ==
    /\ Init /\ [][Next]_vars
    /\ WF_vars(Loop)
    /\ \A k \in Index : WF_vars(Elapse(k)) /\ SF_vars(Search(k))

-----------------------------------------------------------------------------
(* Properties *)

\* The variables have their types.
TypesOK ==
    /\ TypeOK
    /\ phase \in {"load", "post", "idle", "discover", "raised", "refused"}
    /\ directory \in setup.directories
    /\ next_run \in [Index -> {"due", "later"}]
    /\ ToSet(todo) \subseteq Index /\ (todo # <<>> => phase = "discover")

\* The base of a search is what the attribute says (replace_vars), and a
\* configuration is only refused for a variable that does not stand for a
\* string.
BaseIsMeant == \A k \in Index : ReplacedByMeaning(setup.table, Discoveries[k].base)

Listed(pages) == {NameOf(e) : e \in {m \in ToSet(FlattenSeq(pages)) : m.type = "entry"}}
NoGap(pages)  == \A p \in DOMAIN pages : p > 1 => pages[p] # <<>>

\* A search that counts as done, and is put off until the next refresh, has
\* returned every entry of every page, unless one of the pages was empty
\* (__next__).
SearchIsComplete ==
    [][\A k \in Index : next_run[k] = "due" /\ next_run'[k] = "later" =>
        LET pages == directory[base[k]]
        IN  NoGap(pages) => Listed(pages) \subseteq {d.name : d \in ToSet(defs')}]_vars

\* If the answers to a discovery can be read from some time on, whatever is in
\* the directory gets configured, whatever becomes of the other discoveries
\* and however often the search fails (discover_objects).
Readable(k) ==
    /\ Discoveries[k].register /\ base[k] \in DOMAIN directory
    /\ LET pages == directory[base[k]]
       IN  NoGap(pages) /\ Bad \notin ToSet(FlattenSeq(pages))
EntriesAreConfigured ==
    \A k \in Index :
        <>[]Readable(k) =>
            []<>(Readable(k) => Listed(directory[base[k]]) \subseteq DOMAIN config)
=============================================================================
