------------------------------- MODULE Objects -------------------------------
(* Configuration objects: how Config.process_objects loads, merges and       *)
(* resolves them (samm/config.py, samm/objecttype/).                         *)
(*                                                                           *)
(* An object takes from the templates it uses, each a like object resolved   *)
(* first, recursively.  The definitions of the files are loaded in any       *)
(* order; later a discovery (Discovery.tla) may find the same object again,  *)
(* with other tags or templates, and the definition is merged into it.       *)
(*                                                                           *)
(* Of the attributes there is one of each kind: a value with a default       *)
(* (check_if_down), one whose default is None (up_check), a list (checks)    *)
(* and a dict.  Only instances are modelled; checks differ in the defaults.  *)
EXTENDS Naturals, FiniteSets, SequencesExt

CONSTANTS
    Name,
    Check,          \* checks that exist
    Letters,        \* [Name -> Seq(Name)]: the characters of a name, each a name
    Default,        \* of check_if_down
    MaxDepth,       \* Python's recursion limit
    None

VARIABLES
    phase,          \* "load", "post", "idle" or "raised" (Discovery has more)
    defs,           \* definitions process_objects has yet to load
    config,         \* [loaded names -> object]: the section of _config; def
                    \* holds the attributes, own the first definition with
                    \* the templates the object is resolved with
    objects,        \* names process_objects has yet to post-process
    stack,          \* calls of post_process: [name, at: its next template]
    returned,       \* history: names the last process_objects returned
    last,           \* history: [loaded names -> definition loaded last]
    asked           \* history: [loaded names -> [use: the templates its
                    \* definitions name, spelt: a string has been merged]]

ovars == <<phase, defs, config, objects, stack, returned, last, asked>>

Lists == SUBSET (Check \cup {"nocheck"})
Tags  == UNION {[K -> Name] : K \in SUBSET {"site"}}
\* A definition may have a string for use; then use is the list of one name
\* the constructor makes of it.
Definition ==
    [name : Name, use : Seq(Name), string : BOOLEAN,
     flag : BOOLEAN \cup {None}, opt : Name \cup {None},
     list : Lists \cup {None}, dict : BOOLEAN, tags : Tags]

ASSUME ObjectsAssumption ==
    /\ IsFiniteSet(Name) /\ Letters \in [Name -> Seq(Name)]
    /\ Default \in BOOLEAN /\ MaxDepth \in Nat \ {0}
    /\ None \notin Name /\ None \notin BOOLEAN
    /\ \A items \in Lists : items # None

TypeOK ==
    /\ ToSet(defs) \subseteq Definition
    /\ DOMAIN config \subseteq Name
    /\ DOMAIN last = DOMAIN config /\ DOMAIN asked = DOMAIN config
    /\ \A n \in DOMAIN config :
        /\ {config[n].def, config[n].own, last[n]} \subseteq Definition
        /\ asked[n].use \subseteq Name /\ asked[n].spelt \in BOOLEAN
        /\ config[n].applied \in BOOLEAN
        /\ config[n].applied =>
            config[n].def.flag \in BOOLEAN /\ config[n].def.list \subseteq Check
    /\ ToSet(objects) \cup returned \subseteq DOMAIN config
    /\ Len(stack) <= MaxDepth
    /\ \A k \in DOMAIN stack :
        /\ stack[k].name \in DOMAIN config
        /\ stack[k].at \in 1 .. Len(config[stack[k].name].def.use) + 1
        /\ phase \in {"post", "raised"}

\* The definitions of the files, in the order read, are to be processed.
InitObjects(files) ==
    /\ phase = "load" /\ defs = files
    /\ config = <<>> /\ objects = <<>> /\ stack = <<>>
    /\ returned = {} /\ last = <<>> /\ asked = <<>>

-----------------------------------------------------------------------------
(* load_single_object *)

\* Dicts: d[key] = value, and d.update(from).
Stored(d, key, value) == [k \in DOMAIN d \cup {key} |-> IF k = key THEN value ELSE d[k]]
Updated(d, from) ==
    [k \in DOMAIN d \cup DOMAIN from |-> IF k \in DOMAIN from THEN from[k] ELSE d[k]]

\* The elements of s at the positions in K.
Picked(s, K) == FlattenSeq([k \in DOMAIN s |-> IF k \in K THEN <<s[k]>> ELSE <<>>])

\* What "for u in use" takes from a definition: of a string, its characters.
Iterated(d) ==
    IF d.string THEN FlattenSeq([k \in DOMAIN d.use |-> Letters[d.use[k]]]) ELSE d.use

\* merge_object_definition: the tags of d replace those of the object, its
\* templates are added, each once.
MergedTags(o, d) == Updated(o.tags, d.tags)

\* Mutant: templates are added, known or not.
AllUse(o, d) == o.use \o Iterated(d)

MergedUse(o, d) ==
    LET more == Iterated(d)
    IN  o.use \o Picked(more, {k \in DOMAIN more :
                more[k] \notin ToSet(o.use) \cup {more[j] : j \in 1 .. k - 1}})
Merged(o, d) == [o EXCEPT !.tags = MergedTags(o, d), !.use = MergedUse(o, d)]

\* What the object of d has been asked for, with d.
AskedBy(d) ==
    IF d.name \notin DOMAIN config THEN [use |-> ToSet(d.use), spelt |-> FALSE]
    ELSE [use |-> asked[d.name].use \cup ToSet(d.use), spelt |-> asked[d.name].spelt \/ d.string]

\* A new name makes a new object.  A known one is merged, and is returned only
\* if that changed it.
LoadSingleObject ==
    /\ phase = "load" /\ defs # <<>>
    /\ LET d == Head(defs)
           n == d.name
           merged == Merged(config[n].def, d)
       IN  /\ last' = Stored(last, n, d) /\ asked' = Stored(asked, n, AskedBy(d))
           /\ IF n \notin DOMAIN config
              THEN /\ config' = Stored(config, n, [def |-> d, own |-> d, applied |-> FALSE])
                   /\ objects' = Append(objects, n)
                   /\ returned' = returned \cup {n}
              ELSE /\ config' = [config EXCEPT ![n].def = merged]
                   /\ IF merged # config[n].def
                      THEN objects' = Append(objects, n) /\ returned' = returned \cup {n}
                      ELSE UNCHANGED <<objects, returned>>
    /\ defs' = Tail(defs)
    /\ UNCHANGED <<phase, stack>>

\* Mutant: objects are post-processed while others are yet to be loaded.
LoadedSome ==
    /\ phase = "load" /\ objects # <<>>
    /\ phase' = "post"
    /\ UNCHANGED <<defs, config, objects, stack, returned, last, asked>>

AllLoaded ==
    /\ phase = "load" /\ defs = <<>>
    /\ phase' = "post"
    /\ UNCHANGED <<defs, config, objects, stack, returned, last, asked>>

-----------------------------------------------------------------------------
(* post_process *)

\* An object that was resolved once is not resolved again.
PostProcess ==
    /\ phase = "post" /\ stack = <<>> /\ objects # <<>>
    /\ objects' = Tail(objects)
    /\ stack' = IF config[Head(objects)].applied THEN <<>>
                ELSE << [name |-> Head(objects), at |-> 1] >>
    /\ UNCHANGED <<phase, defs, config, returned, last, asked>>

Processing == phase = "post" /\ stack # <<>>
Top      == Last(stack)
TopDef   == config[Top.name].def
Template == TopDef.use[Top.at]
MoreTemplates == Top.at <= Len(TopDef.use)

\* Mutant: a template is used as it is, resolved or not.
NeverPending == FALSE

\* The template has to be resolved before it is used.
TemplatePending == ~config[Template].applied

ResolveTemplate ==
    /\ Processing /\ MoreTemplates /\ Template \in DOMAIN config
    /\ TemplatePending /\ Len(stack) < MaxDepth
    /\ stack' = Append(stack, [name |-> Template, at |-> 1])
    /\ UNCHANGED <<phase, defs, config, objects, returned, last, asked>>

\* What a template adds to a list.
ListUnion(own, items) ==
    CASE own = None   -> items
      [] items = None -> own
      [] OTHER        -> own \cup items

\* The tags of the template replace the object's; a value is taken when there
\* is none; a list grows.
ApplyTemplate(o, t) ==
    [o EXCEPT !.tags = Updated(@, t.tags),
              !.flag = IF @ = None THEN t.flag ELSE @,
              !.opt  = IF @ = None THEN t.opt ELSE @,
              !.list = ListUnion(@, t.list),
              !.dict = @ \/ t.dict]

\* Two dicts: "for k, v in value" takes each key for a pair and raises.
DictsClash(o, t) == o.dict /\ t.dict

\* Mutant: it is the template that takes from the object.
MergedInto ==
    /\ Processing /\ MoreTemplates /\ Template \in DOMAIN config
    /\ ~TemplatePending /\ ~DictsClash(TopDef, config[Template].def)
    /\ config' = [config EXCEPT ![Template].def = ApplyTemplate(@, TopDef)]
    /\ stack' = [stack EXCEPT ![Len(stack)].at = @ + 1]
    /\ UNCHANGED <<phase, defs, objects, returned, last, asked>>

MergeTemplate ==
    /\ Processing /\ MoreTemplates /\ Template \in DOMAIN config
    /\ ~TemplatePending /\ ~DictsClash(TopDef, config[Template].def)
    /\ config' = [config EXCEPT ![Top.name].def =
                    ApplyTemplate(@, config[Template].def)]
    /\ stack' = [stack EXCEPT ![Len(stack)].at = @ + 1]
    /\ UNCHANGED <<phase, defs, objects, returned, last, asked>>

\* Mutant: only the list gets its default.
ListDefault(o) == [o EXCEPT !.list = IF @ = None THEN {} ELSE @]

\* Instance.post_process: the defaults, also those of a template, whose users
\* then take them for values; then every check is looked up.
Applied(o) ==
    [o EXCEPT !.flag = IF @ = None THEN Default ELSE @,
              !.list = IF @ = None THEN {} ELSE @]
Returned(o) == [o EXCEPT !.def = Applied(@), !.applied = TRUE, !.own.use = o.def.use]
Return ==
    /\ Processing /\ ~MoreTemplates
    /\ Applied(TopDef).list \subseteq Check
    /\ config' = [config EXCEPT ![Top.name] = Returned(@)]
    /\ stack' = Front(stack)
    /\ UNCHANGED <<phase, defs, objects, returned, last, asked>>

\* An unknown template or check, two dicts, templates in a circle.
Raise ==
    /\ Processing
    /\ IF MoreTemplates
       THEN Template \in DOMAIN config =>
                IF TemplatePending THEN Len(stack) = MaxDepth
                ELSE DictsClash(TopDef, config[Template].def)
       ELSE ~(Applied(TopDef).list \subseteq Check)
    /\ phase' = "raised"
    /\ UNCHANGED <<defs, config, objects, stack, returned, last, asked>>

AllPostProcessed == phase = "post" /\ stack = <<>> /\ objects = <<>>

ProcessObjects ==
    \/ LoadSingleObject \/ AllLoaded
    \/ PostProcess \/ ResolveTemplate \/ MergeTemplate \/ Return \/ Raise

-----------------------------------------------------------------------------
(* What resolving the definitions should give, by the depth of templates     *)

Use(n) == config[n].def.use
Own(n) == config[n].own
Depth  == 0 .. Cardinality(Name)

Got(d)  == [flag |-> d.flag, opt |-> d.opt, list |-> d.list]
Nothing  == [flag |-> None, opt |-> None, list |-> {}]

\* What the definition o means to an object, given what its templates have:
\* a flag is its own, or that of the first template, or the default; opt is
\* its own, or that of the first template that has one; a list has its own
\* items and those of all templates.
Expected(o, from) ==
    LET known == {j \in DOMAIN from : from[j].opt # None}
    IN  [flag |-> IF o.flag # None THEN o.flag
                  ELSE IF from # <<>> THEN from[1].flag ELSE Default,
         opt  |-> IF o.opt # None THEN o.opt
                  ELSE IF known # {} THEN from[Min(known)].opt ELSE None,
         list |-> (IF o.list = None THEN {} ELSE o.list)
                    \cup UNION {from[j].list : j \in DOMAIN from}]

\* The same of every object, from the definitions alone, if no template is
\* more than k objects away.
Meaning[k \in Depth] ==
    [n \in Name |->
        IF k = 0 \/ n \notin DOMAIN config THEN Nothing
        ELSE Expected(Own(n), [j \in DOMAIN Own(n).use |-> Meaning[k - 1][Own(n).use[j]]])]

\* A template of n has a tag of d, and n has another value for it than d.
Overrides(n, d) ==
    \E u \in ToSet(Use(n)) \cap DOMAIN config :
        \E key \in DOMAIN config[u].def.tags \cap DOMAIN d.tags :
            config[n].def.tags[key] # d.tags[key]

\* No template is above itself: there is a rank that falls from every object
\* to the templates its definitions name.
Acyclic ==
    \E rank \in [DOMAIN config -> Depth] :
        \A n \in DOMAIN config : \A u \in asked[n].use \cap DOMAIN config :
            rank[u] < rank[n]

\* Every template and check the definitions name exists, in the objects loaded
\* and in the definitions still to load, no template is above itself, and there
\* are no dicts, of which an object can have one only.  One thing more: a
\* string has not been merged into an object that was there, which takes the
\* characters of it for templates.
Valid ==
    LET names == DOMAIN config \cup {d.name : d \in ToSet(defs)}
    IN  /\ \A d \in {Own(n) : n \in DOMAIN config} \cup ToSet(defs) :
            (d.list = None \/ d.list \subseteq Check) /\ ~d.dict
        /\ \A n \in DOMAIN config : asked[n].use \subseteq names /\ ~asked[n].spelt
        /\ \A d \in ToSet(defs) : ToSet(d.use) \subseteq names
        /\ Acyclic

-----------------------------------------------------------------------------
(* Properties *)

\* When process_objects is done every object has got from the templates it
\* had then what the definitions say, in whatever order they were loaded
\* ("Resolves all templates", SammObject.post_process).
AllResolved ==
    phase = "idle" =>
        \E meaning \in {Meaning[Cardinality(Name)]} : \A n \in DOMAIN config :
            config[n].applied /\ Got(config[n].def) = meaning[n]

\* Definitions whose templates and checks all exist are never refused, in
\* whatever order they are read and merged (process_objects), except for a
\* string use in a definition that is not the first one of its name, which
\* merge_object_definition takes apart.
ValidIsLoaded == phase = "raised" => ~Valid

\* What the attempts and their threads read from an object once it is
\* resolved never changes, whatever is loaded, found and resolved later, for
\* which it may be a template (post_process, merge_object_definition).
ResolvedStays ==
    [][\A n \in DOMAIN config : config[n].applied =>
        /\ n \in DOMAIN config' /\ config'[n].applied
        /\ config'[n].own = config[n].own
        /\ config'[n].def.flag = config[n].def.flag
        /\ config'[n].def.opt = config[n].def.opt
        /\ config'[n].def.list = config[n].def.list
        /\ config'[n].def.dict = config[n].def.dict]_ovars

\* A definition a discovery finds again as it was last time is not returned,
\* which would add its attempts once more, unless a template of the object
\* has overwritten one of its tags (merge_object_definition).
FoundAgainIsQuiet ==
    [][\A n \in returned' \ returned :
        n \in DOMAIN config /\ Head(defs) = last[n]
            => Overrides(n, Head(defs))]_ovars
=============================================================================
