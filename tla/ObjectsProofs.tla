---------------------------- MODULE ObjectsProofs ----------------------------
(* Theorems about Objects.tla and Discovery.tla, for any names, checks,      *)
(* files, discoveries, variables and directories.                            *)
EXTENDS Discovery, SequenceLemmas

\* An object of the section, as config holds it.
Object == [def : Definition, own : Definition, applied : BOOLEAN]
Frame    == [name : Name, at : Nat]
AskedFor == [use : SUBSET Name, spelt : BOOLEAN]

Settled(c, n) == n \in DOMAIN c /\ c[n].applied

\* An object's items are its own and checks that exist.
Items(list) == IF list = None THEN {} ELSE list
Sound(o) ==
    /\ o \in Object
    /\ o.applied => o.def.flag \in BOOLEAN /\ o.def.list \subseteq Check
    /\ Items(o.def.list) \subseteq Items(o.own.list) \cup Check

ConfigOK ==
    /\ config \in [DOMAIN config -> Object] /\ DOMAIN config \subseteq Name
    /\ \A n \in DOMAIN config : Sound(config[n])
    /\ last \in [DOMAIN config -> Definition] /\ asked \in [DOMAIN config -> AskedFor]

\* Where process_objects and discover_objects are.
PhaseOK ==
    /\ phase \in {"load", "post", "idle", "discover", "raised", "refused"}
    /\ phase \notin {"load", "discover"} => defs = <<>>
    /\ phase \notin {"post", "raised"} => stack = <<>>
    /\ phase \in {"idle", "discover", "refused"} => objects = <<>>
QueuesOK ==
    /\ defs \in Seq(Definition)
    /\ objects \in Seq(DOMAIN config) /\ returned \subseteq DOMAIN config

\* No object of the stack s is resolved, of the section c; the templates it
\* has passed are, and the one it is at is the next object of the stack.
FrameOK(c, f) ==
    /\ f.name \in DOMAIN c /\ ~c[f.name].applied
    /\ f.at \in 1 .. Len(c[f.name].def.use) + 1
    /\ \A j \in 1 .. f.at - 1 : Settled(c, c[f.name].def.use[j])
Waits(c, f, g) ==
    f.at <= Len(c[f.name].def.use) /\ c[f.name].def.use[f.at] = g.name
StackOK(c, s) ==
    /\ s \in Seq(Frame) /\ Len(s) <= MaxDepth
    /\ \A k \in DOMAIN s : FrameOK(c, s[k])
    /\ \A k \in 1 .. Len(s) - 1 : Waits(c, s[k], s[k + 1])

\* What the discoveries are and where they are.
DiscoveriesOK ==
    /\ setup \in Setups /\ directory \in setup.directories
    /\ next_run \in [Index -> {"due", "later"}]
    /\ todo \in Seq(Index) /\ (todo # <<>> => phase = "discover")

OInv == ConfigOK /\ PhaseOK /\ QueuesOK /\ StackOK(config, stack)
IInv == OInv /\ DiscoveriesOK

-----------------------------------------------------------------------------
(* The operators on dicts, lists and definitions *)

\* The attributes of a definition.
LEMMA Attributes ==
    ASSUME NEW d \in Definition
    PROVE  /\ d.name \in Name /\ d.use \in Seq(Name)
           /\ d.flag \in BOOLEAN \cup {None} /\ d.opt \in Name \cup {None}
           /\ d.list \in Lists \cup {None} /\ d.dict \in BOOLEAN /\ d.tags \in Tags
           /\ d.string \in BOOLEAN
BY DEF Definition

LEMMA NoneIsNoList == \A items \in Lists : items # None
BY ObjectsAssumption

\* A definition with other attributes.
Changed(o, tags, use, flag, opt, list, dict) ==
    [o EXCEPT !.tags = tags, !.use = use, !.flag = flag, !.opt = opt,
              !.list = list, !.dict = dict]

AreAttributes(tags, use, flag, opt, list, dict) ==
    /\ tags \in Tags /\ use \in Seq(Name)
    /\ flag \in BOOLEAN \cup {None} /\ opt \in Name \cup {None}
    /\ list \in Lists \cup {None} /\ dict \in BOOLEAN

LEMMA IsDefinition ==
    ASSUME NEW o \in Definition,
           NEW tags, NEW use, NEW flag, NEW opt, NEW list, NEW dict,
           AreAttributes(tags, use, flag, opt, list, dict)
    PROVE  LET d == Changed(o, tags, use, flag, opt, list, dict)
           IN  /\ d \in Definition /\ d.name = o.name /\ d.use = use /\ d.tags = tags
               /\ d.flag = flag /\ d.opt = opt /\ d.list = list /\ d.dict = dict
<1> DEFINE d == Changed(o, tags, use, flag, opt, list, dict)
<1>1. o = [name |-> o.name, use |-> o.use, string |-> o.string, flag |-> o.flag,
           opt |-> o.opt, list |-> o.list, dict |-> o.dict, tags |-> o.tags]
  BY DEF Definition
<1>2. /\ DOMAIN d = {"name", "use", "string", "flag", "opt", "list", "dict", "tags"}
      /\ d.name = o.name /\ d.string = o.string /\ d.use = use /\ d.tags = tags
      /\ d.flag = flag /\ d.opt = opt /\ d.list = list /\ d.dict = dict
  BY <1>1 DEF Changed
<1>3. d = [x \in DOMAIN d |-> d[x]]
  BY <1>1 DEF Changed
<1> HIDE DEF d
<1>4. d = [name |-> o.name, use |-> use, string |-> o.string, flag |-> flag,
           opt |-> opt, list |-> list, dict |-> dict, tags |-> tags]
  BY <1>2, <1>3
<1>5. o.name \in Name /\ o.string \in BOOLEAN
  BY Attributes
<1>6. d \in Definition
  BY <1>4, <1>5 DEF Definition, AreAttributes
<1> QED
  BY <1>2, <1>6 DEF d

LEMMA StoredType ==
    ASSUME NEW S, NEW T, NEW d \in [S -> T], NEW key, NEW value \in T
    PROVE  /\ Stored(d, key, value) \in [S \cup {key} -> T]
           /\ Stored(d, key, value)[key] = value
           /\ \A k \in S \ {key} : Stored(d, key, value)[k] = d[k]
BY DEF Stored

LEMMA UpdatedTags ==
    ASSUME NEW t \in Tags, NEW u \in Tags
    PROVE  Updated(t, u) \in Tags
<1>1. PICK K \in SUBSET {"site"} : t \in [K -> Name]
  BY DEF Tags
<1>2. PICK L \in SUBSET {"site"} : u \in [L -> Name]
  BY DEF Tags
<1>3. Updated(t, u) \in [K \cup L -> Name] /\ K \cup L \in SUBSET {"site"}
  BY <1>1, <1>2 DEF Updated
<1> QED
  BY <1>3 DEF Tags

\* Picked takes the elements at the given positions and no others.
LEMMA PickedOK ==
    ASSUME NEW S, NEW s \in Seq(S), NEW K
    PROVE  /\ Picked(s, K) \in Seq(S)
           /\ ToSet(Picked(s, K)) = {s[k] : k \in K \cap DOMAIN s}
<1> DEFINE parts == [k \in DOMAIN s |-> IF k \in K THEN <<s[k]>> ELSE <<>>]
<1>1. Len(s) \in Nat /\ DOMAIN s = 1 .. Len(s) /\ \A k \in DOMAIN s : s[k] \in S
  OBVIOUS
<1>2. parts \in [1 .. Len(s) -> Seq(S)]
  <2>1. ASSUME NEW k \in DOMAIN s
        PROVE  (IF k \in K THEN <<s[k]>> ELSE <<>>) \in Seq(S)
    BY <1>1
  <2> QED
    BY <1>1, <2>1
<1>3. parts \in Seq(Seq(S)) /\ DOMAIN parts = DOMAIN s
  BY <1>1, <1>2, IsASeq
<1>4. ASSUME NEW k \in DOMAIN s
      PROVE  ToSet(parts[k]) = IF k \in K THEN {s[k]} ELSE {}
  <2>1. CASE k \in K
    <3>1. parts[k] = <<s[k]>>
      BY <2>1
    <3>2. DOMAIN parts[k] = {1} /\ parts[k][1] = s[k]
      BY <3>1
    <3> HIDE DEF parts
    <3> QED
      BY <2>1, <3>2 DEF ToSet
  <2>2. CASE k \notin K
    BY <2>2 DEF ToSet
  <2> QED
    BY <2>1, <2>2
<1> HIDE DEF parts
<1>5. ToSet(FlattenSeq(parts)) = {s[k] : k \in K \cap DOMAIN s}
  BY <1>3, <1>4, FlattenRange
<1>6. FlattenSeq(parts) \in Seq(S)
  BY <1>3, FlattenParts
<1> QED
  BY <1>5, <1>6 DEF Picked, parts

\* What a definition gives a loop over its templates.
LEMMA IteratedOK ==
    ASSUME NEW d \in Definition
    PROVE  Iterated(d) \in Seq(Name) /\ (~d.string => Iterated(d) = d.use)
<1> DEFINE parts == [k \in DOMAIN d.use |-> Letters[d.use[k]]]
<1>1. d.use \in Seq(Name) /\ DOMAIN d.use = 1 .. Len(d.use) /\ Len(d.use) \in Nat
  BY Attributes
<1>2. parts \in [1 .. Len(d.use) -> Seq(Name)]
  BY <1>1, ObjectsAssumption
<1>3. parts \in Seq(Seq(Name))
  BY <1>1, <1>2, IsASeq
<1> HIDE DEF parts
<1>4. FlattenSeq(parts) \in Seq(Name)
  BY <1>3, FlattenParts
<1> QED
  BY <1>1, <1>4 DEF Iterated, parts

\* A merged definition is one, and differs from the object's in tags and use.
LEMMA MergedOK ==
    ASSUME NEW o \in Definition, NEW d \in Definition
    PROVE  /\ Merged(o, d) \in Definition
           /\ Merged(o, d).flag = o.flag /\ Merged(o, d).opt = o.opt
           /\ Merged(o, d).list = o.list /\ Merged(o, d).dict = o.dict
           /\ Merged(o, d).name = o.name
           /\ Len(Merged(o, d).use) >= Len(o.use)
           /\ \A j \in DOMAIN o.use : Merged(o, d).use[j] = o.use[j]
           /\ Merged(o, d).use = MergedUse(o, d)
<1> DEFINE use  == MergedUse(o, d)
           tags == MergedTags(o, d)
<1>1. tags \in Tags
  BY UpdatedTags, Attributes DEF MergedTags
<1>2. o.use \in Seq(Name) /\ Iterated(d) \in Seq(Name)
  BY IteratedOK DEF Definition
<1>3. \E more \in Seq(Name) : use = o.use \o more
  BY <1>2, PickedOK DEF MergedUse
<1>4. use \in Seq(Name) /\ Len(use) >= Len(o.use) /\ \A j \in DOMAIN o.use : use[j] = o.use[j]
  BY <1>2, <1>3
<1> HIDE DEF use, tags
<1>5. Merged(o, d) = [o EXCEPT !.tags = tags, !.use = use]
  BY DEF Merged, use, tags
<1> QED
  BY <1>1, <1>4, <1>5 DEF Definition, use

\* What taking from a template changes.
LEMMA TakesOK ==
    ASSUME NEW o \in Definition, NEW t \in Definition
    PROVE  /\ ApplyTemplate(o, t) \in Definition
           /\ ApplyTemplate(o, t).name = o.name /\ ApplyTemplate(o, t).use = o.use
           /\ ApplyTemplate(o, t).flag = (IF o.flag = None THEN t.flag ELSE o.flag)
           /\ ApplyTemplate(o, t).opt = (IF o.opt = None THEN t.opt ELSE o.opt)
           /\ Items(ApplyTemplate(o, t).list) = Items(o.list) \cup Items(t.list)
<1> DEFINE tags == Updated(o.tags, t.tags)
           flag == IF o.flag = None THEN t.flag ELSE o.flag
           opt  == IF o.opt = None THEN t.opt ELSE o.opt
           list == ListUnion(o.list, t.list)
           dict == o.dict \/ t.dict
<1>1. tags \in Tags
  BY UpdatedTags, Attributes
<1>2. flag \in BOOLEAN \cup {None} /\ opt \in Name \cup {None} /\ dict \in BOOLEAN
  BY Attributes
<1>3. o.list \in Lists \cup {None} /\ t.list \in Lists \cup {None} /\ \A items \in Lists : items # None
  BY Attributes, NoneIsNoList
<1>4. list \in Lists \cup {None} /\ Items(list) = Items(o.list) \cup Items(t.list)
  <2>1. CASE o.list = None
    BY <1>3, <2>1 DEF ListUnion, Items
  <2>2. CASE o.list # None /\ t.list = None
    BY <1>3, <2>2 DEF ListUnion, Items
  <2>3. CASE o.list # None /\ t.list # None
    <3>1. list = o.list \cup t.list
      BY <2>3 DEF ListUnion
    <3>2. list \in Lists
      BY <1>3, <2>3, <3>1 DEF Lists
    <3> QED
      BY <1>3, <2>3, <3>1, <3>2 DEF Items
  <2> QED
    BY <2>1, <2>2, <2>3
<1> HIDE DEF tags, flag, opt, list, dict
<1>5. ApplyTemplate(o, t) = Changed(o, tags, o.use, flag, opt, list, dict)
  BY DEF ApplyTemplate, Changed, tags, flag, opt, list, dict, Definition
<1> DEFINE d == Changed(o, tags, o.use, flag, opt, list, dict)
<1>6. AreAttributes(tags, o.use, flag, opt, list, dict)
  BY <1>1, <1>2, <1>4, Attributes DEF AreAttributes
<1>7. /\ d \in Definition /\ d.name = o.name /\ d.use = o.use
      /\ d.list = list /\ d.flag = flag /\ d.opt = opt
  BY <1>6, IsDefinition
<1> HIDE DEF d
<1> QED
  BY <1>4, <1>5, <1>7 DEF d, flag, opt

\* What the defaults change.
LEMMA DefaultsOK ==
    ASSUME NEW o \in Definition
    PROVE  /\ Applied(o) \in Definition /\ Applied(o).flag \in BOOLEAN
           /\ Applied(o).flag = (IF o.flag = None THEN Default ELSE o.flag)
           /\ Applied(o).list = Items(o.list) /\ Items(Applied(o).list) = Items(o.list)
           /\ Applied(o).use = o.use /\ Applied(o).opt = o.opt /\ Applied(o).dict = o.dict
<1> DEFINE flag == IF o.flag = None THEN Default ELSE o.flag
           list == IF o.list = None THEN {} ELSE o.list
<1>1. flag \in BOOLEAN
  BY ObjectsAssumption, Attributes
<1>2. list \in Lists /\ list = Items(o.list) /\ \A items \in Lists : items # None
  BY NoneIsNoList, Attributes DEF Items, Lists
<1>3. Items(list) = list
  BY <1>2 DEF Items
<1> HIDE DEF flag, list
<1>4. Applied(o) = Changed(o, o.tags, o.use, flag, o.opt, list, o.dict)
  BY DEF Applied, Changed, flag, list, Definition
<1> DEFINE d == Changed(o, o.tags, o.use, flag, o.opt, list, o.dict)
<1>5. AreAttributes(o.tags, o.use, flag, o.opt, list, o.dict)
  BY <1>1, <1>2, Attributes DEF AreAttributes
<1>6. /\ d \in Definition /\ d.use = o.use /\ d.flag = flag
      /\ d.list = list /\ d.opt = o.opt /\ d.dict = o.dict
  BY <1>5, IsDefinition
<1> HIDE DEF d
<1> QED
  BY <1>1, <1>2, <1>3, <1>4, <1>6 DEF d, flag

-----------------------------------------------------------------------------
(* Loading *)

\* A new definition makes an object that is Sound.
LEMMA NewIsSound ==
    ASSUME NEW d \in Definition
    PROVE  Sound([def |-> d, own |-> d, applied |-> FALSE])
<1>1. [def |-> d, own |-> d, applied |-> FALSE] \in Object
  BY DEF Object
<1> QED
  BY <1>1 DEF Sound

LEMMA MergedIsSound ==
    ASSUME NEW o, Sound(o), NEW d \in Definition
    PROVE  Sound([o EXCEPT !.def = Merged(o.def, d)])
<1>1. o \in Object /\ o.def \in Definition
  BY DEF Sound, Object
<1>2. Merged(o.def, d) \in Definition
  BY <1>1, MergedOK
<1>3. Merged(o.def, d).flag = o.def.flag /\ Merged(o.def, d).list = o.def.list
  BY <1>1, MergedOK
<1> DEFINE m == Merged(o.def, d)
           p == [o EXCEPT !.def = m]
<1> HIDE DEF m
<1>4. p \in Object /\ p.applied = o.applied /\ p.own = o.own /\ p.def = m
  BY <1>1, <1>2 DEF Object, m
<1> QED
  BY <1>3, <1>4 DEF Sound, m

\* What an object has been asked for, with one definition more.
LEMMA AskedIs ==
    ASSUME NEW d \in Definition, asked \in [DOMAIN config -> AskedFor]
    PROVE  AskedBy(d) \in AskedFor /\ ToSet(d.use) \subseteq AskedBy(d).use
<1>1. d.name \in Name /\ d.string \in BOOLEAN /\ ToSet(d.use) \subseteq Name
  BY Attributes DEF ToSet
<1>2. CASE d.name \notin DOMAIN config
  BY <1>1, <1>2 DEF AskedBy, AskedFor
<1>3. CASE d.name \in DOMAIN config
  BY <1>1, <1>3 DEF AskedBy, AskedFor
<1> QED
  BY <1>2, <1>3

LEMMA LoadOK ==
    ASSUME OInv, LoadSingleObject
    PROVE  OInv'
<1> DEFINE d      == Head(defs)
           n      == d.name
           merged == Merged(config[n].def, d)
           new    == [def |-> d, own |-> d, applied |-> FALSE]
<1>1. /\ phase = "load" /\ defs # <<>> /\ defs' = Tail(defs)
      /\ last' = Stored(last, n, d) /\ asked' = Stored(asked, n, AskedBy(d))
      /\ phase' = phase /\ stack' = stack
  BY DEF LoadSingleObject
<1>2. stack = <<>> /\ defs \in Seq(Definition)
  BY <1>1 DEF OInv, PhaseOK, QueuesOK
<1>3. d \in Definition /\ n \in Name /\ Tail(defs) \in Seq(Definition)
  <2>1. d \in Definition /\ Tail(defs) \in Seq(Definition)
    BY <1>1, <1>2
  <2> QED
    BY <2>1, Attributes
<1> HIDE DEF d
<1>4. DOMAIN config \subseteq Name /\ config \in [DOMAIN config -> Object]
      /\ last \in [DOMAIN config -> Definition] /\ asked \in [DOMAIN config -> AskedFor]
  BY DEF OInv, ConfigOK
<1>5. PhaseOK' /\ StackOK(config', stack')
  BY <1>1, <1>2, ObjectsAssumption DEF OInv, PhaseOK, StackOK
<1>6. objects \in Seq(DOMAIN config) /\ returned \subseteq DOMAIN config
  BY DEF OInv, QueuesOK
<1>9. last' \in [DOMAIN config \cup {n} -> Definition] /\ asked' \in [DOMAIN config \cup {n} -> AskedFor]
  <2>1. AskedBy(d) \in AskedFor
    BY <1>3, <1>4, AskedIs
  <2>2. Stored(asked, n, AskedBy(d)) \in [DOMAIN config \cup {n} -> AskedFor]
    BY <1>4, <2>1, StoredType
  <2>3. Stored(last, n, d) \in [DOMAIN config \cup {n} -> Definition]
    BY <1>3, <1>4, StoredType
  <2> QED
    BY <1>1, <2>2, <2>3
<1>7. CASE n \notin DOMAIN config
  <2>1. /\ config' = Stored(config, n, new) /\ objects' = Append(objects, n)
        /\ returned' = returned \cup {n}
    BY <1>7 DEF LoadSingleObject, d
  <2>2. new \in Object /\ Sound(new)
    BY <1>3, NewIsSound DEF Sound
  <2> HIDE DEF new
  <2>3. /\ config' \in [DOMAIN config \cup {n} -> Object]
        /\ config'[n] = new /\ \A m \in DOMAIN config : config'[m] = config[m]
    BY <1>4, <1>7, <2>1, <2>2 DEF Stored
  <2>4. DOMAIN config' = DOMAIN config \cup {n}
    BY <2>3
  <2>5. \A m \in DOMAIN config' : Sound(config'[m])
    BY <2>2, <2>3, <2>4 DEF OInv, ConfigOK
  <2>7. ConfigOK'
    BY <1>3, <1>4, <1>9, <2>3, <2>4, <2>5 DEF ConfigOK
  <2>8. objects' \in Seq(DOMAIN config \cup {n})
    BY <1>6, <2>1, SeqMonotonic
  <2>9. QueuesOK'
    BY <1>1, <1>3, <1>6, <2>1, <2>4, <2>8 DEF QueuesOK
  <2> QED
    BY <1>5, <2>7, <2>9 DEF OInv
<1>8. CASE n \in DOMAIN config
  <2>1. /\ config' = [config EXCEPT ![n].def = merged]
        /\ \/ objects' = Append(objects, n) /\ returned' = returned \cup {n}
           \/ objects' = objects /\ returned' = returned
    BY <1>8 DEF LoadSingleObject, d
  <2> DEFINE o == [config[n] EXCEPT !.def = merged]
  <2>2. Sound(config[n])
    BY <1>8 DEF OInv, ConfigOK
  <2>3. Sound(o) /\ o \in Object
    BY <1>3, <2>2, MergedIsSound DEF Sound
  <2> HIDE DEF merged
  <2>4. config' = [config EXCEPT ![n] = o]
    BY <2>1
  <2> HIDE DEF o
  <2>5. config' \in [DOMAIN config -> Object] /\ DOMAIN config' = DOMAIN config
    BY <1>4, <2>3, <2>4
  <2>6. \A m \in DOMAIN config' : Sound(config'[m])
    BY <1>4, <2>3, <2>4, <2>5 DEF OInv, ConfigOK
  <2>7. DOMAIN config \cup {n} = DOMAIN config
    BY <1>8
  <2>8. ConfigOK'
    BY <1>4, <1>9, <2>5, <2>6, <2>7 DEF ConfigOK
  <2>9. QueuesOK'
    <3> HIDE DEF n
    <3>1. Append(objects, n) \in Seq(DOMAIN config) /\ returned \cup {n} \subseteq DOMAIN config
      BY <1>6, <1>8
    <3>2. objects' \in Seq(DOMAIN config) /\ returned' \subseteq DOMAIN config
      BY <1>6, <2>1, <3>1
    <3> QED
      BY <1>1, <1>3, <2>5, <3>2 DEF QueuesOK
  <2> QED
    BY <1>5, <2>8, <2>9 DEF OInv
<1> QED
  BY <1>7, <1>8

-----------------------------------------------------------------------------
(* The stack, as post_process calls itself and returns *)

\* d has the objects of c with the same templates, and no fewer resolved.
Grows(c, d) ==
    /\ DOMAIN d = DOMAIN c
    /\ \A n \in DOMAIN c :
        d[n].def.use = c[n].def.use /\ (c[n].applied => d[n].applied)

LEMMA FrameKept ==
    ASSUME NEW c, NEW d, NEW f, FrameOK(c, f), Grows(c, d), ~d[f.name].applied
    PROVE  FrameOK(d, f)
<1>1. d[f.name].def.use = c[f.name].def.use /\ f.name \in DOMAIN d
  BY DEF FrameOK, Grows
<1>2. ASSUME NEW j \in 1 .. f.at - 1
      PROVE  Settled(d, d[f.name].def.use[j])
  <2>1. Settled(c, c[f.name].def.use[j])
    BY DEF FrameOK
  <2> QED
    BY <1>1, <2>1 DEF Settled, Grows
<1> QED
  BY <1>1, <1>2 DEF FrameOK

LEMMA WaitsKept ==
    ASSUME NEW c, NEW d, NEW f, NEW g, f.name \in DOMAIN c, Waits(c, f, g), Grows(c, d)
    PROVE  Waits(d, f, g)
BY DEF Waits, Grows

\* A pending template is pushed.
LEMMA Pushed ==
    ASSUME NEW c, NEW s, StackOK(c, s), Len(s) < MaxDepth, NEW u \in Name,
           u \in DOMAIN c, ~c[u].applied, c[u].def.use \in Seq(Name),
           s # <<>> => Waits(c, s[Len(s)], [name |-> u, at |-> 1])
    PROVE  StackOK(c, Append(s, [name |-> u, at |-> 1]))
<1> DEFINE g == [name |-> u, at |-> 1]
           t == Append(s, g)
<1>1. g \in Frame /\ FrameOK(c, g)
  BY DEF Frame, FrameOK
<1>2. s \in Seq(Frame) /\ Len(s) \in Nat
  BY DEF StackOK
<1> HIDE DEF g
<1>3. /\ t \in Seq(Frame) /\ Len(t) = Len(s) + 1 /\ t[Len(s) + 1] = g
      /\ \A k \in 1 .. Len(s) : t[k] = s[k]
  BY <1>1, <1>2
<1> HIDE DEF t
<1>4. Len(t) <= MaxDepth
  BY <1>2, <1>3, ObjectsAssumption
<1>5. ASSUME NEW k \in DOMAIN t PROVE FrameOK(c, t[k])
  <2>1. CASE k = Len(s) + 1
    BY <1>1, <1>3, <2>1
  <2>2. CASE k # Len(s) + 1
    <3>1. k \in DOMAIN s /\ t[k] = s[k]
      BY <1>2, <1>3, <2>2
    <3> QED
      BY <3>1 DEF StackOK
  <2> QED
    BY <2>1, <2>2
<1>6. ASSUME NEW k \in 1 .. Len(t) - 1 PROVE Waits(c, t[k], t[k + 1])
  <2>1. CASE k = Len(s)
    <3>1. s # <<>> /\ t[k] = s[Len(s)] /\ t[k + 1] = g
      BY <1>2, <1>3, <2>1
    <3> QED
      BY <3>1 DEF g
  <2>2. CASE k # Len(s)
    <3>1. k \in 1 .. Len(s) - 1 /\ t[k] = s[k] /\ t[k + 1] = s[k + 1]
      BY <1>2, <1>3, <2>2
    <3> QED
      BY <3>1 DEF StackOK
  <2> QED
    BY <2>1, <2>2
<1>7. StackOK(c, t)
  BY <1>3, <1>4, <1>5, <1>6 DEF StackOK
<1> QED
  BY <1>7 DEF t, g

\* The top passes a resolved template.
Passed(s) == [s EXCEPT ![Len(s)].at = @ + 1]

LEMMA PassedOK ==
    ASSUME NEW c, NEW d, NEW s, StackOK(c, s), s # <<>>, Grows(c, d),
           \A n \in DOMAIN c : d[n].applied = c[n].applied,
           NEW f, f = s[Len(s)], f.at <= Len(c[f.name].def.use),
           c[f.name].def.use \in Seq(Name), Settled(c, c[f.name].def.use[f.at])
    PROVE  StackOK(d, Passed(s))
<1> DEFINE t == Passed(s)
           g == [f EXCEPT !.at = @ + 1]
<1>1. s \in Seq(Frame) /\ Len(s) \in Nat /\ Len(s) \in DOMAIN s /\ DOMAIN s = 1 .. Len(s)
  BY DEF StackOK
<1>2. f \in Frame /\ FrameOK(c, f)
  BY <1>1 DEF StackOK
<1>3. g \in Frame /\ g.name = f.name /\ g.at = f.at + 1 /\ f.at \in Nat
  BY <1>2 DEF Frame
<1>4. t = [s EXCEPT ![Len(s)] = g]
  BY DEF Passed
<1> HIDE DEF g, t
<1>5. /\ t \in Seq(Frame) /\ Len(t) = Len(s) /\ t[Len(s)] = g /\ DOMAIN t = 1 .. Len(s)
      /\ \A k \in 1 .. Len(s) - 1 : t[k] = s[k]
  BY <1>1, <1>3, <1>4
<1>6. FrameOK(c, g)
  <2>1. Len(c[f.name].def.use) \in Nat
    OBVIOUS
  <2>2. g.at \in 1 .. Len(c[g.name].def.use) + 1
    BY <1>2, <1>3, <2>1 DEF FrameOK
  <2>3. ASSUME NEW j \in 1 .. g.at - 1 PROVE Settled(c, c[g.name].def.use[j])
    <3>1. j = f.at \/ j \in 1 .. f.at - 1
      BY <1>3
    <3> QED
      BY <1>2, <1>3, <3>1 DEF FrameOK
  <2> QED
    BY <1>2, <1>3, <2>2, <2>3 DEF FrameOK
<1>7. ASSUME NEW k \in DOMAIN t PROVE FrameOK(d, t[k])
  <2>1. FrameOK(c, t[k])
    <3>1. CASE k = Len(s)
      BY <1>5, <1>6, <3>1
    <3>2. CASE k # Len(s)
      <4>1. k \in 1 .. Len(s) - 1 /\ k \in DOMAIN s
        BY <1>1, <1>5, <3>2
      <4> QED
        BY <1>5, <4>1 DEF StackOK
    <3> QED
      BY <3>1, <3>2
  <2>2. ~d[t[k].name].applied
    BY <2>1 DEF FrameOK
  <2> QED
    BY <2>1, <2>2, FrameKept
<1>8. ASSUME NEW k \in 1 .. Len(t) - 1 PROVE Waits(d, t[k], t[k + 1])
  <2>1. k \in 1 .. Len(s) - 1 /\ k \in DOMAIN s /\ t[k] = s[k]
    BY <1>1, <1>5
  <2>2. Waits(c, s[k], s[k + 1]) /\ s[k].name \in DOMAIN c
    BY <2>1 DEF StackOK, FrameOK
  <2>3. t[k + 1].name = s[k + 1].name
    <3>1. k + 1 = Len(s) \/ k + 1 \in 1 .. Len(s) - 1
      BY <1>1, <2>1
    <3> QED
      BY <1>3, <1>5, <3>1
  <2>4. Waits(c, s[k], t[k + 1])
    BY <2>2, <2>3 DEF Waits
  <2> QED
    BY <2>1, <2>2, <2>4, WaitsKept
<1>9. StackOK(d, t)
  BY <1>5, <1>7, <1>8 DEF StackOK
<1> QED
  BY <1>9 DEF t

\* The top returns and is resolved.  Another object of the stack with its name
\* would wait for one of its templates, which are all resolved.
LEMMA PoppedOK ==
    ASSUME NEW c, NEW d, NEW s, StackOK(c, s), s # <<>>, Grows(c, d),
           NEW f, f = s[Len(s)], f.at = Len(c[f.name].def.use) + 1,
           c[f.name].def.use \in Seq(Name),
           \A n \in DOMAIN c : n # f.name => d[n].applied = c[n].applied
    PROVE  StackOK(d, Front(s))
<1> DEFINE t == Front(s)
<1>1. s \in Seq(Frame) /\ Len(s) \in Nat /\ Len(s) \in DOMAIN s /\ DOMAIN s = 1 .. Len(s)
  BY DEF StackOK
<1>2. FrameOK(c, f)
  BY <1>1 DEF StackOK
<1>3. t \in Seq(Frame) /\ Len(t) = Len(s) - 1 /\ \A k \in 1 .. Len(s) - 1 : t[k] = s[k]
  BY <1>1, FrontAndLast
<1> HIDE DEF t
<1>4. ASSUME NEW k \in 1 .. Len(s) - 1
      PROVE  s[k].name # f.name
  <2> SUFFICES ASSUME s[k].name = f.name PROVE FALSE
    OBVIOUS
  <2>1. k \in DOMAIN s /\ k + 1 \in DOMAIN s
    BY <1>1
  <2>2. Waits(c, s[k], s[k + 1]) /\ FrameOK(c, s[k]) /\ FrameOK(c, s[k + 1])
    BY <2>1 DEF StackOK
  <2>3. s[k].at \in 1 .. f.at - 1
    BY <2>2 DEF Waits, FrameOK
  <2>4. Settled(c, s[k + 1].name)
    BY <1>2, <2>2, <2>3 DEF FrameOK, Waits
  <2> QED
    BY <2>2, <2>4 DEF Settled, FrameOK
<1>5. ASSUME NEW k \in DOMAIN t PROVE FrameOK(d, t[k])
  <2>1. k \in 1 .. Len(s) - 1 /\ k \in DOMAIN s /\ t[k] = s[k]
    BY <1>1, <1>3
  <2>2. FrameOK(c, s[k]) /\ s[k].name # f.name
    BY <1>4, <2>1 DEF StackOK
  <2>3. ~d[s[k].name].applied
    BY <2>2 DEF FrameOK
  <2> QED
    BY <2>1, <2>2, <2>3, FrameKept
<1>6. ASSUME NEW k \in 1 .. Len(t) - 1 PROVE Waits(d, t[k], t[k + 1])
  <2>1. /\ k \in 1 .. Len(s) - 1 /\ k \in DOMAIN s /\ k + 1 \in 1 .. Len(s) - 1
        /\ t[k] = s[k] /\ t[k + 1] = s[k + 1]
    BY <1>1, <1>3
  <2>2. Waits(c, s[k], s[k + 1]) /\ s[k].name \in DOMAIN c
    BY <2>1 DEF StackOK, FrameOK
  <2> QED
    BY <2>1, <2>2, WaitsKept
<1>7. Len(t) <= MaxDepth
  BY <1>1, <1>3, ObjectsAssumption DEF StackOK
<1>8. StackOK(d, t)
  BY <1>3, <1>5, <1>6, <1>7 DEF StackOK
<1> QED
  BY <1>8 DEF t

-----------------------------------------------------------------------------
(* post_process *)

\* Of the object on top of the stack.
LEMMA TopOK ==
    ASSUME OInv, Processing
    PROVE  /\ stack \in Seq(Frame) /\ Len(stack) \in DOMAIN stack
           /\ Top = stack[Len(stack)] /\ Top \in Frame /\ FrameOK(config, Top)
           /\ config \in [DOMAIN config -> Object]
           /\ Top.name \in DOMAIN config /\ Sound(config[Top.name]) /\ config[Top.name] \in Object
           /\ TopDef \in Definition /\ TopDef.use \in Seq(Name) /\ Len(TopDef.use) \in Nat
           /\ ~config[Top.name].applied
           /\ MoreTemplates => Top.at \in DOMAIN TopDef.use /\ Template \in Name
           /\ ~MoreTemplates => Top.at = Len(TopDef.use) + 1
<1>1. stack \in Seq(Frame) /\ stack # <<>>
  BY DEF OInv, StackOK, Processing
<1>2. Len(stack) \in DOMAIN stack /\ Top = stack[Len(stack)] /\ Top \in Frame
  BY <1>1, FrontAndLast DEF Top
<1>3. FrameOK(config, Top)
  BY <1>2 DEF OInv, StackOK
<1>4. Top.name \in DOMAIN config /\ Sound(config[Top.name]) /\ ~config[Top.name].applied
  BY <1>3 DEF OInv, ConfigOK, FrameOK
<1>5. config[Top.name] \in Object /\ TopDef \in Definition
  BY <1>4 DEF Sound, Object, TopDef
<1>6. TopDef.use \in Seq(Name) /\ Len(TopDef.use) \in Nat
  BY <1>5, Attributes
<1>7. Top.at \in 1 .. Len(TopDef.use) + 1
  BY <1>3 DEF FrameOK, TopDef
<1>8. config \in [DOMAIN config -> Object]
  BY DEF OInv, ConfigOK
<1>9. MoreTemplates => Top.at \in DOMAIN TopDef.use /\ Template \in Name
  BY <1>6, <1>7 DEF MoreTemplates, Template
<1>10. ~MoreTemplates => Top.at = Len(TopDef.use) + 1
  BY <1>6, <1>7 DEF MoreTemplates
<1> QED
  BY <1>1, <1>2, <1>3, <1>4, <1>5, <1>6, <1>8, <1>9, <1>10

\* One object changes.
LEMMA OneChanges ==
    ASSUME OInv, NEW n \in DOMAIN config, NEW o, Sound(o),
           config' = [config EXCEPT ![n] = o], last' = last, asked' = asked
    PROVE  /\ ConfigOK' /\ DOMAIN config' = DOMAIN config /\ config'[n] = o
           /\ \A m \in DOMAIN config : m # n => config'[m] = config[m]
<1>1. o \in Object /\ config \in [DOMAIN config -> Object]
  BY DEF OInv, ConfigOK, Sound
<1>2. /\ config' \in [DOMAIN config -> Object] /\ DOMAIN config' = DOMAIN config
      /\ config'[n] = o /\ \A m \in DOMAIN config : m # n => config'[m] = config[m]
  BY <1>1
<1>3. \A m \in DOMAIN config : Sound(config'[m])
  BY <1>2 DEF OInv, ConfigOK
<1> QED
  BY <1>2, <1>3 DEF OInv, ConfigOK

\* What taking from a resolved template, and taking the defaults, make of an
\* object.
LEMMA TakesIsSound ==
    ASSUME NEW o, Sound(o), ~o.applied, NEW t, Sound(t), t.applied
    PROVE  LET p == [o EXCEPT !.def = ApplyTemplate(o.def, t.def)]
           IN  /\ Sound(p) /\ p \in Object /\ p.def.use = o.def.use
               /\ p.applied = o.applied /\ p.own = o.own
               /\ p.def = ApplyTemplate(o.def, t.def)
<1> DEFINE d == ApplyTemplate(o.def, t.def)
           p == [o EXCEPT !.def = d]
<1>1. o \in Object /\ t \in Object /\ o.def \in Definition /\ t.def \in Definition
  BY DEF Sound, Object
<1>2. d \in Definition /\ d.use = o.def.use /\ Items(d.list) = Items(o.def.list) \cup Items(t.def.list)
  BY <1>1, TakesOK
<1>3. Items(t.def.list) \subseteq Check
  BY DEF Sound, Items
<1>4. Items(d.list) \subseteq Items(o.own.list) \cup Check
  BY <1>2, <1>3 DEF Sound
<1> HIDE DEF d
<1>5. p \in Object /\ p.applied = o.applied /\ p.own = o.own /\ p.def = d
  BY <1>1, <1>2 DEF Object
<1> QED
  BY <1>2, <1>4, <1>5 DEF Sound, d

\* The first definition, with the templates that have been taken from.
WithUse(d, use) == [d EXCEPT !.use = use]

LEMMA WithUseOK ==
    ASSUME NEW d \in Definition, NEW use \in Seq(Name)
    PROVE  /\ WithUse(d, use) \in Definition /\ WithUse(d, use).use = use
           /\ WithUse(d, use).flag = d.flag /\ WithUse(d, use).opt = d.opt
           /\ WithUse(d, use).list = d.list /\ WithUse(d, use).dict = d.dict
BY DEF WithUse, Definition

\* The object that returns.
LEMMA ReturnedIs ==
    ASSUME NEW o \in Object
    PROVE  Returned(o) = [def |-> Applied(o.def), own |-> WithUse(o.own, o.def.use), applied |-> TRUE]
<1> DEFINE d == Applied(o.def)
           p == [o EXCEPT !.def = d, !.applied = TRUE, !.own.use = o.def.use]
<1>1. o.own \in Definition
  BY DEF Object
<1> HIDE DEF d
<1>2. DOMAIN p = {"def", "own", "applied"} /\ p = [x \in DOMAIN p |-> p[x]]
  BY DEF Object
<1>3. p.def = d /\ p.applied = TRUE
  BY DEF Object
<1>4. p.own = WithUse(o.own, o.def.use)
  BY DEF Object, WithUse
<1>5. Returned(o) = p
  BY DEF Returned, d
<1> HIDE DEF p
<1>6. p = [def |-> d, own |-> WithUse(o.own, o.def.use), applied |-> TRUE]
  BY <1>2, <1>3, <1>4
<1> QED
  BY <1>5, <1>6 DEF d

LEMMA DefaultsAreSound ==
    ASSUME NEW o, Sound(o), Applied(o.def).list \subseteq Check
    PROVE  LET p == Returned(o)
           IN  /\ Sound(p) /\ p \in Object /\ p.def.use = o.def.use
               /\ p.applied /\ p.own = WithUse(o.own, o.def.use) /\ p.def = Applied(o.def)
<1> DEFINE d   == Applied(o.def)
           own == WithUse(o.own, o.def.use)
           p   == Returned(o)
<1>1. o \in Object /\ o.def \in Definition /\ o.own \in Definition
  BY DEF Sound, Object
<1>2. /\ d \in Definition /\ d.use = o.def.use /\ d.flag \in BOOLEAN
      /\ Items(d.list) = d.list /\ d.list \subseteq Check
  BY <1>1, DefaultsOK
<1>3. own \in Definition
  BY <1>1, WithUseOK, Attributes
<1> HIDE DEF d, own
<1>4. p = [def |-> d, own |-> own, applied |-> TRUE]
  BY <1>1, ReturnedIs DEF d, own
<1> HIDE DEF p
<1>5. p \in Object /\ p.applied /\ p.own = own /\ p.def = d
  BY <1>1, <1>2, <1>3, <1>4 DEF Object
<1> QED
  BY <1>2, <1>5 DEF Sound, d, p, own

\* The steps of process_objects.
LEMMA PostProcessOK ==
    ASSUME OInv, PostProcess
    PROVE  OInv'
<1> DEFINE u == Head(objects)
<1>1. /\ phase = "post" /\ stack = <<>> /\ objects # <<>> /\ objects' = Tail(objects)
      /\ stack' = IF config[u].applied THEN <<>> ELSE << [name |-> u, at |-> 1] >>
      /\ UNCHANGED <<phase, defs, config, returned, last, asked>>
  BY DEF PostProcess
<1>2. objects \in Seq(DOMAIN config)
  BY DEF OInv, QueuesOK
<1>3. u \in DOMAIN config /\ Tail(objects) \in Seq(DOMAIN config)
  BY <1>1, <1>2
<1> HIDE DEF u
<1>4. ConfigOK' /\ QueuesOK'
  BY <1>1, <1>3 DEF OInv, ConfigOK, QueuesOK
<1>5. PhaseOK'
  BY <1>1 DEF OInv, PhaseOK
<1>6. u \in Name /\ config[u] \in Object /\ Sound(config[u])
  BY <1>3 DEF OInv, ConfigOK, Sound
<1>7. config[u].def.use \in Seq(Name)
  BY <1>6 DEF Object, Definition
<1>8. StackOK(config, stack) /\ Len(stack) = 0 /\ Len(stack) < MaxDepth
  BY <1>1, ObjectsAssumption DEF OInv
<1>9. StackOK(config', stack')
  <2>1. CASE config[u].applied
    BY <1>1, <1>8, <2>1
  <2>2. CASE ~config[u].applied
    <3>1. StackOK(config, Append(stack, [name |-> u, at |-> 1]))
      BY <1>1, <1>3, <1>6, <1>7, <1>8, <2>2, Pushed
    <3>2. stack' = Append(stack, [name |-> u, at |-> 1])
      BY <1>1, <2>2
    <3> QED
      BY <1>1, <3>1, <3>2
  <2> QED
    BY <2>1, <2>2
<1> QED
  BY <1>4, <1>5, <1>9 DEF OInv

LEMMA ResolveTemplateOK ==
    ASSUME OInv, ResolveTemplate
    PROVE  OInv'
<1> DEFINE u == Template
<1>1. /\ Processing /\ MoreTemplates /\ u \in DOMAIN config /\ ~config[u].applied
      /\ Len(stack) < MaxDepth /\ stack' = Append(stack, [name |-> u, at |-> 1])
      /\ UNCHANGED <<phase, defs, config, objects, returned, last, asked>>
  BY DEF ResolveTemplate, TemplatePending
<1>2. /\ Top = stack[Len(stack)] /\ FrameOK(config, Top) /\ u \in Name
      /\ Top.at \in DOMAIN TopDef.use
  BY <1>1, TopOK
<1>3. ConfigOK' /\ QueuesOK'
  BY <1>1 DEF OInv, ConfigOK, QueuesOK
<1>4. PhaseOK'
  BY <1>1 DEF OInv, PhaseOK, Processing
<1>5. config[u] \in Object
  BY <1>1 DEF OInv, ConfigOK, Sound
<1>6. config[u].def.use \in Seq(Name)
  BY <1>5 DEF Object, Definition
<1>7. Waits(config, stack[Len(stack)], [name |-> u, at |-> 1])
  BY <1>1, <1>2 DEF Waits, MoreTemplates, TopDef, Template
<1> HIDE DEF u
<1>8. StackOK(config, stack')
  BY <1>1, <1>2, <1>6, <1>7, Pushed DEF OInv
<1> QED
  BY <1>1, <1>3, <1>4, <1>8 DEF OInv

LEMMA MergeTemplateOK ==
    ASSUME OInv, MergeTemplate
    PROVE  OInv'
<1> DEFINE n == Top.name
           u == Template
           o == [config[n] EXCEPT !.def = ApplyTemplate(config[n].def, config[u].def)]
<1>1. /\ Processing /\ MoreTemplates /\ u \in DOMAIN config /\ config[u].applied
      /\ config' = [config EXCEPT ![n].def = ApplyTemplate(@, config[u].def)]
      /\ stack' = Passed(stack)
      /\ UNCHANGED <<phase, defs, objects, returned, last, asked>>
  BY DEF MergeTemplate, TemplatePending, Passed
<1>2. /\ Top = stack[Len(stack)] /\ FrameOK(config, Top) /\ Top.at \in DOMAIN TopDef.use
      /\ n \in DOMAIN config /\ Sound(config[n]) /\ ~config[n].applied
      /\ TopDef.use \in Seq(Name) /\ config[n] \in Object
  BY <1>1, TopOK
<1>3. TopDef = config[n].def /\ u = config[n].def.use[Top.at]
  BY DEF TopDef, Template
<1>4. Sound(config[u])
  BY <1>1 DEF OInv, ConfigOK
<1>5. config' = [config EXCEPT ![n] = o]
  BY <1>1
<1>6. Sound(o) /\ o.def.use = config[n].def.use /\ o.applied = config[n].applied
  BY <1>1, <1>2, <1>4, TakesIsSound
<1>7. Top.at <= Len(config[n].def.use) /\ stack # <<>>
  BY <1>1, <1>3 DEF MoreTemplates, Processing
<1>8. last' = last /\ asked' = asked
  BY <1>1
<1> HIDE DEF o, n, u
<1>9. /\ ConfigOK' /\ DOMAIN config' = DOMAIN config /\ config'[n] = o
      /\ \A m \in DOMAIN config : m # n => config'[m] = config[m]
  BY <1>2, <1>5, <1>6, <1>8, OneChanges
<1>10. Grows(config, config') /\ \A m \in DOMAIN config : config'[m].applied = config[m].applied
  BY <1>6, <1>9 DEF Grows
<1>11. StackOK(config', stack')
  <2>1. Settled(config, config[n].def.use[Top.at])
    BY <1>1, <1>3 DEF Settled
  <2>2. StackOK(config', Passed(stack))
    BY <1>2, <1>3, <1>7, <1>10, <2>1, PassedOK DEF OInv, n
  <2> QED
    BY <1>1, <2>2
<1>12. PhaseOK' /\ QueuesOK'
  <2>1. PhaseOK'
    BY <1>1 DEF OInv, PhaseOK, Processing
  <2>2. QueuesOK'
    BY <1>1, <1>9 DEF OInv, QueuesOK
  <2> QED
    BY <2>1, <2>2
<1> QED
  BY <1>9, <1>11, <1>12 DEF OInv

LEMMA ReturnOK ==
    ASSUME OInv, Return
    PROVE  OInv'
<1> DEFINE n == Top.name
           o == Returned(config[n])
<1>1. /\ Processing /\ ~MoreTemplates /\ Applied(TopDef).list \subseteq Check
      /\ config' = [config EXCEPT ![n] = o]
      /\ stack' = Front(stack)
      /\ UNCHANGED <<phase, defs, objects, returned, last, asked>>
  BY DEF Return
<1>2. /\ Top = stack[Len(stack)] /\ n \in DOMAIN config /\ Sound(config[n])
      /\ TopDef.use \in Seq(Name) /\ config[n] \in Object
      /\ Top.at = Len(TopDef.use) + 1 /\ config \in [DOMAIN config -> Object]
  BY <1>1, TopOK
<1>3. TopDef = config[n].def
  BY DEF TopDef
<1>4. config' = [config EXCEPT ![n] = o]
  BY <1>1
<1>5. Sound(o) /\ o.def.use = config[n].def.use /\ o.applied
  BY <1>1, <1>2, <1>3, DefaultsAreSound
<1>6. last' = last /\ asked' = asked /\ stack # <<>>
  BY <1>1 DEF Processing
<1> HIDE DEF o, n
<1>7. /\ ConfigOK' /\ DOMAIN config' = DOMAIN config /\ config'[n] = o
      /\ \A m \in DOMAIN config : m # n => config'[m] = config[m]
  BY <1>2, <1>4, <1>5, <1>6, OneChanges
<1>8. Grows(config, config')
  BY <1>5, <1>7 DEF Grows
<1>9. StackOK(config', Front(stack))
  BY <1>2, <1>3, <1>6, <1>7, <1>8, PoppedOK DEF OInv, n
<1>10. PhaseOK' /\ QueuesOK'
  <2>1. PhaseOK'
    BY <1>1 DEF OInv, PhaseOK, Processing
  <2>2. QueuesOK'
    BY <1>1, <1>7 DEF OInv, QueuesOK
  <2> QED
    BY <2>1, <2>2
<1> QED
  BY <1>1, <1>7, <1>9, <1>10 DEF OInv

\* They keep OInv.
LEMMA ProcessObjectsOK ==
    ASSUME OInv, ProcessObjects
    PROVE  OInv'
<1>1. ASSUME AllLoaded PROVE OInv'
  <2>1. phase' = "post" /\ phase = "load" /\ defs = <<>> /\ UNCHANGED <<defs, config, objects, stack, returned, last, asked>>
    BY <1>1 DEF AllLoaded
  <2>2. ConfigOK' /\ QueuesOK' /\ StackOK(config', stack')
    BY <2>1 DEF OInv, ConfigOK, QueuesOK
  <2>3. PhaseOK'
    BY <2>1 DEF OInv, PhaseOK
  <2> QED
    BY <2>2, <2>3 DEF OInv
<1>2. ASSUME Raise PROVE OInv'
  <2>1. phase' = "raised" /\ phase = "post" /\ UNCHANGED <<defs, config, objects, stack, returned, last, asked>>
    BY <1>2 DEF Raise, Processing
  <2>2. ConfigOK' /\ QueuesOK' /\ StackOK(config', stack')
    BY <2>1 DEF OInv, ConfigOK, QueuesOK
  <2>3. PhaseOK'
    BY <2>1 DEF OInv, PhaseOK
  <2> QED
    BY <2>2, <2>3 DEF OInv
<1> QED
  BY <1>1, <1>2, LoadOK, PostProcessOK, ResolveTemplateOK, MergeTemplateOK, ReturnOK
     DEF ProcessObjects

-----------------------------------------------------------------------------
(* Discoveries *)

\* What an answer is made of.
Received == Message \cup {Done}

LEMMA MessagesOK ==
    ASSUME NEW pages \in Seq(Seq(Message))
    PROVE  LET parts == [p \in DOMAIN pages |-> Append(pages[p], Done)]
           IN  /\ parts \in Seq(Seq(Received)) /\ DOMAIN parts = DOMAIN pages
               /\ Len(parts) = Len(pages) /\ Messages(pages) \in Seq(Received)
               /\ Messages(pages) = FlattenSeq(parts)
<1> DEFINE parts == [p \in DOMAIN pages |-> Append(pages[p], Done)]
<1>1. Len(pages) \in Nat /\ DOMAIN pages = 1 .. Len(pages)
  OBVIOUS
<1>2. ASSUME NEW p \in DOMAIN pages PROVE Append(pages[p], Done) \in Seq(Received)
  <2>1. pages[p] \in Seq(Message)
    OBVIOUS
  <2>2. pages[p] \in Seq(Received)
    BY <2>1, SeqMonotonic DEF Received
  <2> QED
    BY <2>2 DEF Received
<1>3. parts \in [1 .. Len(pages) -> Seq(Received)]
  BY <1>1, <1>2
<1> HIDE DEF parts
<1>4. parts \in Seq(Seq(Received)) /\ Len(parts) = Len(pages) /\ DOMAIN parts = DOMAIN pages
  BY <1>1, <1>3, IsASeq
<1>5. Messages(pages) = FlattenSeq(parts)
  BY DEF Messages, parts
<1>6. FlattenSeq(parts) \in Seq(Received)
  BY <1>4, FlattenParts
<1> QED
  BY <1>4, <1>5, <1>6 DEF parts

LEMMA Entries ==
    ASSUME NEW e \in Received, e.type = "entry"
    PROVE  e.name \in Name \cup {None} /\ e.site \in Name /\ e \in Message
<1>1. e # Done /\ e # Referral /\ e # Bad
  BY DEF Done, Referral, Bad
<1>2. PICK n \in Name \cup {None}, s \in Name : e = Entry(n, s)
  BY <1>1 DEF Received, Message
<1>3. e.name = n /\ e.site = s
  BY <1>2 DEF Entry
<1> QED
  BY <1>1, <1>3 DEF Received

LEMMA EntryIsDefinition ==
    ASSUME NEW d, d.use \in Seq(Name), NEW e, e.name \in Name \cup {None}, e.site \in Name
    PROVE  /\ ToDefinition(d, e) \in Definition /\ ToDefinition(d, e).name = NameOf(e)
           /\ ~ToDefinition(d, e).string
<1> DEFINE tags == [site |-> e.site]
<1>1. NameOf(e) \in Name
  BY SetupsAssumption DEF NameOf
<1>2. tags \in [{"site"} -> Name]
  OBVIOUS
<1>3. tags \in Tags
  BY <1>2 DEF Tags
<1> HIDE DEF tags
<1>4. ToDefinition(d, e) = [name |-> NameOf(e), use |-> d.use, string |-> FALSE, flag |-> None,
                            opt |-> None, list |-> None, dict |-> FALSE, tags |-> tags]
  BY DEF ToDefinition, tags
<1> QED
  BY <1>1, <1>3, <1>4 DEF Definition

\* The definitions a search adds are those of the entries taken.
LEMMA FoundOK ==
    ASSUME NEW pages \in Seq(Seq(Message)), NEW stop \in Nat,
           NEW d, d.use \in Seq(Name)
    PROVE  LET s     == Messages(pages)
               found == Found(s, stop)
               new   == [j \in DOMAIN found |-> ToDefinition(d, found[j])]
           IN  /\ new \in Seq(Definition) /\ \A j \in DOMAIN new : ~new[j].string
               /\ \A j \in DOMAIN s : j < stop /\ s[j].type = "entry" =>
                    NameOf(s[j]) \in {e.name : e \in ToSet(new)}
<1> DEFINE s     == Messages(pages)
           K     == {j \in 1 .. stop - 1 : s[j].type = "entry"}
           found == Picked(s, K)
           new   == [j \in DOMAIN found |-> ToDefinition(d, found[j])]
<1>1. s \in Seq(Received)
  BY MessagesOK
<1> HIDE DEF s
<1>2. found \in Seq(Received) /\ ToSet(found) = {s[k] : k \in K \cap DOMAIN s}
  BY <1>1, PickedOK
<1>3. Found(s, stop) = found
  BY DEF Found
<1> HIDE DEF found
<1>4. ASSUME NEW j \in DOMAIN found
      PROVE  /\ ToDefinition(d, found[j]) \in Definition
             /\ ToDefinition(d, found[j]).name = NameOf(found[j])
             /\ ~ToDefinition(d, found[j]).string
  <2>1. found[j] \in ToSet(found)
    BY DEF ToSet
  <2>2. PICK k \in K : found[j] = s[k]
    BY <1>2, <2>1
  <2>3. found[j] \in Received /\ found[j].type = "entry"
    BY <1>2, <2>2
  <2>4. found[j].name \in Name \cup {None} /\ found[j].site \in Name
    BY <2>3, Entries
  <2> QED
    BY <2>4, EntryIsDefinition
<1>5. Len(found) \in Nat /\ DOMAIN found = 1 .. Len(found)
  BY <1>2
<1>6. new \in [1 .. Len(found) -> Definition]
  BY <1>4, <1>5
<1>7. new \in Seq(Definition) /\ DOMAIN new = DOMAIN found /\ \A j \in DOMAIN new : ~new[j].string
  BY <1>4, <1>5, <1>6, IsASeq
<1>8. ASSUME NEW j \in DOMAIN s, j < stop, s[j].type = "entry"
      PROVE  NameOf(s[j]) \in {e.name : e \in ToSet(new)}
  <2>1. j \in K /\ j \in DOMAIN s
    BY <1>1, <1>8
  <2>2. s[j] \in ToSet(found)
    BY <1>2, <2>1
  <2>3. PICK i \in DOMAIN found : s[j] = found[i]
    BY <2>2 DEF ToSet
  <2>4. new[i] \in ToSet(new) /\ new[i].name = NameOf(found[i])
    BY <1>4, <1>7, <2>3 DEF ToSet
  <2> QED
    BY <2>3, <2>4
<1> QED
  BY <1>3, <1>7, <1>8 DEF s

\* The configuration the process has.
LEMMA SetupOK ==
    ASSUME DiscoveriesOK
    PROVE  /\ \A k \in Index : Discoveries[k].use \in Seq(Name)
           /\ \A from \in DOMAIN directory :
                directory[from] \in Seq(Seq(Message)) /\ directory[from] # <<>>
BY SetupsAssumption DEF DiscoveriesOK, Discoveries, Index

LEMMA SearchOK ==
    ASSUME IInv, NEW k \in Index, Search(k)
    PROVE  IInv'
<1>1. /\ phase = "discover" /\ todo # <<>>
      /\ base[k] \in DOMAIN directory /\ todo' = Tail(todo)
      /\ next_run' = [next_run EXCEPT ![k] = IF Discoveries[k].refresh THEN "later" ELSE "due"]
      /\ UNCHANGED <<phase, config, objects, stack, returned, last, asked, setup, directory, base>>
  BY DEF Search, Asked
<1>2. PICK stop \in DOMAIN Messages(directory[base[k]]) :
        \E found \in {Found(Messages(directory[base[k]]), stop)} :
            defs' = defs \o [j \in DOMAIN found |-> ToDefinition(Discoveries[k], found[j])]
  BY DEF Search
<1> DEFINE pages == directory[base[k]]
           found == Found(Messages(pages), stop)
           new   == [j \in DOMAIN found |-> ToDefinition(Discoveries[k], found[j])]
<1>3. defs' = defs \o new
  BY <1>2
<1>4. pages \in Seq(Seq(Message)) /\ Discoveries[k].use \in Seq(Name)
  BY <1>1, SetupOK DEF IInv
<1>5. stop \in Nat
  <2>1. Messages(pages) \in Seq(Received)
    BY <1>4, MessagesOK
  <2> QED
    BY <2>1
<1>6. new \in Seq(Definition)
  BY <1>4, <1>5, FoundOK
<1> HIDE DEF new
<1>7. defs \in Seq(Definition)
  BY DEF IInv, OInv, QueuesOK
<1>8. defs' \in Seq(Definition)
  BY <1>3, <1>6, <1>7
<1>9. ConfigOK' /\ QueuesOK' /\ StackOK(config', stack') /\ PhaseOK'
  <2>1. ConfigOK' /\ StackOK(config', stack')
    BY <1>1 DEF IInv, OInv, ConfigOK
  <2>2. QueuesOK'
    BY <1>1, <1>8 DEF IInv, OInv, QueuesOK
  <2>3. PhaseOK'
    BY <1>1 DEF IInv, OInv, PhaseOK
  <2> QED
    BY <2>1, <2>2, <2>3
<1>10. DiscoveriesOK'
  <2>1. todo \in Seq(Index) /\ next_run \in [Index -> {"due", "later"}]
    BY DEF IInv, DiscoveriesOK
  <2>2. todo' \in Seq(Index) /\ next_run' \in [Index -> {"due", "later"}]
    BY <1>1, <2>1
  <2>3. Index' = Index
    BY DEF Index
  <2> QED
    BY <1>1, <2>2, <2>3 DEF IInv, DiscoveriesOK
<1> QED
  BY <1>9, <1>10 DEF IInv, OInv

\* The steps that leave the objects alone.
LEMMA OtherStepsOK ==
    ASSUME IInv,
           \/ AllProcessed \/ DiscoverObjects \/ AllDiscovered \/ DirectoryChanges
           \/ \E k \in Index : NotRun(k) \/ SearchFails(k) \/ Elapse(k)
    PROVE  IInv'
<1>0. /\ OInv /\ setup \in Setups /\ directory \in setup.directories
      /\ next_run \in [Index -> {"due", "later"}] /\ todo \in Seq(Index)
      /\ todo # <<>> => phase = "discover"
  BY DEF IInv, DiscoveriesOK
<1>1. ASSUME UNCHANGED ovars PROVE OInv'
  BY <1>0, <1>1 DEF ovars, OInv, ConfigOK, PhaseOK, QueuesOK
<1>2. ASSUME phase' \in {"load", "idle", "discover", "refused"}, phase \notin {"load", "raised"},
             stack = <<>>, objects = <<>>, phase' # "load" => defs' = <<>>,
             defs' = defs \/ defs' = <<>>,
             UNCHANGED <<config, objects, stack, last, asked>>,
             returned' = returned \/ returned' = {}
      PROVE  OInv'
  <2>1. ConfigOK' /\ StackOK(config', stack')
    BY <1>0, <1>2 DEF OInv, ConfigOK
  <2>2. defs' \in Seq(Definition) /\ returned' \subseteq DOMAIN config
    <3>1. defs \in Seq(Definition) /\ returned \subseteq DOMAIN config
      BY <1>0 DEF OInv, QueuesOK
    <3>2. <<>> \in Seq(Definition) /\ {} \subseteq DOMAIN config
      OBVIOUS
    <3> QED
      BY <1>2, <3>1, <3>2
  <2>3. QueuesOK'
    BY <1>0, <1>2, <2>2 DEF OInv, QueuesOK
  <2>4. PhaseOK'
    BY <1>0, <1>2 DEF OInv, PhaseOK
  <2> QED
    BY <2>1, <2>3, <2>4 DEF OInv
<1>3. CASE AllProcessed
  <2>1. /\ phase = "post" /\ stack = <<>> /\ objects = <<>> /\ phase' \in {"idle", "refused"}
        /\ UNCHANGED <<defs, config, objects, stack, returned, last, asked, setup, directory, next_run, todo>>
    BY <1>3 DEF AllProcessed, AllPostProcessed
  <2>2. defs = <<>> /\ todo = <<>>
    BY <1>0, <2>1 DEF OInv, PhaseOK
  <2> QED
    BY <1>0, <1>2, <2>1, <2>2 DEF IInv, DiscoveriesOK, Index
<1>4. CASE DiscoverObjects
  <2>1. /\ phase = "idle" /\ phase' = "discover" /\ todo' = [k \in Index |-> k] /\ defs' = <<>>
        /\ UNCHANGED <<config, objects, stack, returned, last, asked, setup, directory, next_run, base>>
    BY <1>4 DEF DiscoverObjects
  <2>2. stack = <<>> /\ objects = <<>>
    BY <1>0, <2>1 DEF OInv, PhaseOK
  <2>3. OInv'
    BY <1>2, <2>1, <2>2
  <2>4. todo' \in Seq(Index)
    <3>1. Count \in Nat
      BY SetupsAssumption
    <3> QED
      BY <2>1, <3>1, IsASeq DEF Index
  <2> QED
    BY <1>0, <2>1, <2>3, <2>4 DEF IInv, DiscoveriesOK, Index
<1>5. CASE AllDiscovered
  <2>1. /\ phase = "discover" /\ todo = <<>> /\ phase' = "load" /\ returned' = {}
        /\ UNCHANGED <<defs, config, objects, stack, last, asked, dvars>>
    BY <1>5 DEF AllDiscovered
  <2>2. stack = <<>> /\ objects = <<>>
    BY <1>0, <2>1 DEF OInv, PhaseOK
  <2>3. OInv'
    BY <1>2, <2>1, <2>2
  <2> QED
    BY <1>0, <2>1, <2>3 DEF IInv, DiscoveriesOK, Index, dvars
<1>6. CASE DirectoryChanges
  <2>1. directory' \in setup.directories /\ UNCHANGED <<ovars, setup, next_run, base, todo>>
    BY <1>6 DEF DirectoryChanges
  <2> QED
    BY <1>0, <1>1, <2>1 DEF IInv, DiscoveriesOK, Index, ovars
<1>7. ASSUME NEW k \in Index, NotRun(k) \/ SearchFails(k) PROVE IInv'
  <2>1. /\ phase = "discover" /\ todo # <<>> /\ todo' = Tail(todo)
        /\ UNCHANGED <<ovars, setup, directory, next_run, base>>
    BY <1>7 DEF NotRun, SearchFails, Asked
  <2>2. todo' \in Seq(Index)
    BY <1>0, <2>1
  <2> QED
    BY <1>0, <1>1, <2>1, <2>2 DEF IInv, DiscoveriesOK, Index, ovars
<1>8. ASSUME NEW k \in Index, Elapse(k) PROVE IInv'
  <2>1. /\ next_run' = [next_run EXCEPT ![k] = "due"]
        /\ UNCHANGED <<ovars, setup, directory, base, todo>>
    BY <1>8 DEF Elapse
  <2>2. next_run' \in [Index -> {"due", "later"}]
    BY <1>0, <2>1
  <2> QED
    BY <1>0, <1>1, <2>1, <2>2 DEF IInv, DiscoveriesOK, Index, ovars
<1> QED
  BY <1>3, <1>4, <1>5, <1>6, <1>7, <1>8

-----------------------------------------------------------------------------
(* The invariant *)

LEMMA InitIInv == Init => IInv
<1> SUFFICES ASSUME Init PROVE IInv
  OBVIOUS
<1>1. setup \in Setups /\ setup.files \in Seq(Definition)
  BY SetupsAssumption DEF Init
<1>2. /\ phase = "load" /\ defs = setup.files /\ config = <<>> /\ objects = <<>>
      /\ stack = <<>> /\ returned = {} /\ last = <<>> /\ asked = <<>>
  BY DEF Init, InitObjects
<1>3. ConfigOK /\ PhaseOK /\ QueuesOK
  BY <1>1, <1>2 DEF ConfigOK, PhaseOK, QueuesOK
<1>4. StackOK(config, stack)
  BY <1>2, ObjectsAssumption DEF StackOK
<1>5. DiscoveriesOK
  BY <1>1 DEF Init, DiscoveriesOK
<1> QED
  BY <1>3, <1>4, <1>5 DEF IInv, OInv

LEMMA NextIInv == IInv /\ [Next]_vars => IInv'
<1> SUFFICES ASSUME IInv, [Next]_vars PROVE IInv'
  OBVIOUS
<1>1. CASE ProcessObjects /\ UNCHANGED dvars
  <2>1. OInv'
    BY <1>1, ProcessObjectsOK DEF IInv
  <2>2. todo = <<>>
    BY <1>1 DEF IInv, DiscoveriesOK, ProcessObjects, LoadSingleObject, AllLoaded, PostProcess,
                ResolveTemplate, MergeTemplate, Return, Raise, Processing
  <2> QED
    BY <1>1, <2>1, <2>2 DEF IInv, DiscoveriesOK, dvars, Index
<1>2. CASE UNCHANGED vars
  BY <1>2 DEF vars, ovars, dvars, IInv, OInv, ConfigOK, PhaseOK, QueuesOK, DiscoveriesOK, Index
<1>3. ASSUME NEW k \in Index, Search(k) PROVE IInv'
  BY <1>3, SearchOK
<1> QED
  BY <1>1, <1>2, <1>3, OtherStepsOK DEF Next, Loop

THEOREM Invariant == Spec => []IInv
<1>1. Spec => Init /\ [][Next]_vars
  BY PTL DEF Spec
<1> QED
  BY <1>1, InitIInv, NextIInv, PTL

\* The variables have their types: of a resolved object check_if_down is a
\* boolean and every check exists, post_process never calls itself deeper
\* than MaxDepth, and the list of discoveries is only used by
\* discover_objects.
THEOREM Types == Spec => []TypesOK
<1>1. IInv => TypesOK
  <2> SUFFICES ASSUME IInv PROVE TypesOK
    OBVIOUS
  <2>1. ConfigOK /\ PhaseOK /\ QueuesOK /\ StackOK(config, stack) /\ DiscoveriesOK
    BY DEF IInv, OInv
  <2>2. ASSUME NEW n \in DOMAIN config
        PROVE  /\ config[n].def \in Definition /\ config[n].own \in Definition
               /\ config[n].applied \in BOOLEAN /\ last[n] \in Definition
               /\ asked[n].use \subseteq Name /\ asked[n].spelt \in BOOLEAN
               /\ config[n].applied =>
                    config[n].def.flag \in BOOLEAN /\ config[n].def.list \subseteq Check
    BY <2>1 DEF ConfigOK, Sound, Object, AskedFor
  <2>3. ToSet(defs) \subseteq Definition /\ ToSet(objects) \subseteq DOMAIN config
        /\ returned \subseteq DOMAIN config /\ ToSet(todo) \subseteq Index
    BY <2>1 DEF QueuesOK, DiscoveriesOK, ToSet
  <2>4. DOMAIN last = DOMAIN config /\ DOMAIN asked = DOMAIN config /\ DOMAIN config \subseteq Name
    BY <2>1 DEF ConfigOK
  <2>5. /\ Len(stack) <= MaxDepth
        /\ \A k \in DOMAIN stack :
            /\ stack[k].name \in DOMAIN config
            /\ stack[k].at \in 1 .. Len(config[stack[k].name].def.use) + 1
            /\ phase \in {"post", "raised"}
    BY <2>1 DEF StackOK, FrameOK, PhaseOK
  <2>6. TypeOK
    BY <2>2, <2>3, <2>4, <2>5 DEF TypeOK
  <2> QED
    BY <2>1, <2>3, <2>6 DEF TypesOK, PhaseOK, DiscoveriesOK
<1> QED
  BY <1>1, Invariant, PTL

-----------------------------------------------------------------------------
(* What is resolved stays as it is *)

\* What ResolvedStays says of one object, before and after.
Same(o, p) ==
    /\ p.applied = o.applied /\ p.own = o.own
    /\ p.def.flag = o.def.flag /\ p.def.opt = o.def.opt
    /\ p.def.list = o.def.list /\ p.def.dict = o.def.dict

\* Only the object on top of the stack is changed, and it is not resolved.
LEMMA OnlyTopChanges ==
    ASSUME OInv, ProcessObjects, NEW n \in DOMAIN config, config[n].applied
    PROVE  n \in DOMAIN config' /\ Same(config[n], config'[n])
<1>0. config \in [DOMAIN config -> Object]
  BY DEF OInv, ConfigOK
<1>1. CASE LoadSingleObject
  <2> DEFINE d == Head(defs)
             m == d.name
  <2>1. /\ defs # <<>>
        /\ IF m \notin DOMAIN config
           THEN config' = Stored(config, m, [def |-> d, own |-> d, applied |-> FALSE])
           ELSE config' = [config EXCEPT ![m].def = Merged(config[m].def, d)]
    BY <1>1 DEF LoadSingleObject
  <2>2. d \in Definition
    BY <2>1 DEF OInv, QueuesOK
  <2> HIDE DEF d
  <2>3. CASE m \notin DOMAIN config
    <3>1. n # m /\ config'[n] = config[n] /\ n \in DOMAIN config'
      BY <1>0, <2>1, <2>3 DEF Stored
    <3> QED
      BY <3>1 DEF Same
  <2>4. CASE m \in DOMAIN config
    <3> DEFINE e == Merged(config[m].def, d)
    <3>1. config[m].def \in Definition /\ config[m] \in Object
      BY <1>0, <2>4 DEF Object
    <3>2. /\ e.flag = config[m].def.flag /\ e.opt = config[m].def.opt
          /\ e.list = config[m].def.list /\ e.dict = config[m].def.dict
      BY <2>2, <3>1, MergedOK
    <3>3. config' = [config EXCEPT ![m].def = e]
      BY <2>1, <2>4
    <3> HIDE DEF e
    <3>4. n \in DOMAIN config' /\ (n # m => config'[n] = config[n])
      BY <1>0, <3>3
    <3>5. n = m => config'[n] = [config[n] EXCEPT !.def = e]
      BY <1>0, <3>3
    <3>6. n = m => /\ config'[n].applied = config[n].applied
                   /\ config'[n].own = config[n].own /\ config'[n].def = e
      BY <3>1, <3>5 DEF Object
    <3> QED
      BY <3>2, <3>4, <3>6 DEF Same
  <2> QED
    BY <2>3, <2>4
<1>2. CASE MergeTemplate \/ Return
  <2>1. n # Top.name
    BY <1>2, TopOK DEF MergeTemplate, Return
  <2>2. n \in DOMAIN config' /\ config'[n] = config[n]
    BY <1>0, <1>2, <2>1 DEF MergeTemplate, Return
  <2> QED
    BY <2>2 DEF Same
<1>3. CASE AllLoaded \/ PostProcess \/ ResolveTemplate \/ Raise
  <2>1. config' = config
    BY <1>3 DEF AllLoaded, PostProcess, ResolveTemplate, Raise
  <2> QED
    BY <2>1 DEF Same
<1> QED
  BY <1>1, <1>2, <1>3 DEF ProcessObjects

LEMMA ConfigKept ==
    ASSUME [Next]_vars, ~ProcessObjects
    PROVE  config' = config
<1>1. CASE UNCHANGED vars
  BY <1>1 DEF vars, ovars
<1> QED
  BY <1>1 DEF Next, Loop, AllProcessed, DiscoverObjects, AllDiscovered, NotRun, Search,
              SearchFails, DirectoryChanges, Elapse, ovars

\* What the attempts read from a resolved object never changes.
THEOREM ResolvedObjectsStay == Spec => ResolvedStays
<1>1. ASSUME IInv, [Next]_vars, NEW n \in DOMAIN config, config[n].applied
      PROVE  n \in DOMAIN config' /\ Same(config[n], config'[n])
  <2>1. CASE ProcessObjects
    BY <1>1, <2>1, OnlyTopChanges DEF IInv
  <2>2. CASE ~ProcessObjects
    BY <1>1, <2>2, ConfigKept DEF Same
  <2> QED
    BY <2>1, <2>2
<1>2. IInv /\ [Next]_vars =>
        [\A n \in DOMAIN config : config[n].applied =>
            /\ n \in DOMAIN config' /\ config'[n].applied
            /\ config'[n].own = config[n].own
            /\ config'[n].def.flag = config[n].def.flag
            /\ config'[n].def.opt = config[n].def.opt
            /\ config'[n].def.list = config[n].def.list
            /\ config'[n].def.dict = config[n].def.dict]_ovars
  BY <1>1 DEF Same
<1>3. Spec => [][Next]_vars
  BY PTL DEF Spec
<1> QED
  BY <1>2, <1>3, Invariant, PTL DEF ResolvedStays

-----------------------------------------------------------------------------
(* Valid definitions are loaded *)

\* Every dict is some object's own.
DictsOK == (\E n \in DOMAIN config : config[n].def.dict) => \E n \in DOMAIN config : config[n].own.dict

LEMMA DictsStay ==
    ASSUME IInv, DictsOK, [Next]_vars
    PROVE  DictsOK'
<1>0. config \in [DOMAIN config -> Object]
  BY DEF IInv, OInv, ConfigOK
<1>1. CASE LoadSingleObject
  <2> DEFINE d == Head(defs)
             m == d.name
  <2>1. /\ defs # <<>>
        /\ IF m \notin DOMAIN config
           THEN config' = Stored(config, m, [def |-> d, own |-> d, applied |-> FALSE])
           ELSE config' = [config EXCEPT ![m].def = Merged(config[m].def, d)]
    BY <1>1 DEF LoadSingleObject
  <2>2. d \in Definition
    BY <2>1 DEF IInv, OInv, QueuesOK
  <2> HIDE DEF d
  <2>3. CASE m \notin DOMAIN config
    <3>1. /\ DOMAIN config' = DOMAIN config \cup {m}
          /\ config'[m].def = d /\ config'[m].own = d
          /\ \A n \in DOMAIN config : config'[n] = config[n]
      BY <1>0, <2>1, <2>3 DEF Stored
    <3> QED
      BY <3>1 DEF DictsOK
  <2>4. CASE m \in DOMAIN config
    <3> DEFINE e == Merged(config[m].def, d)
    <3>1. config[m].def \in Definition /\ config[m] \in Object
      BY <1>0, <2>4 DEF Object
    <3>2. e.dict = config[m].def.dict
      BY <2>2, <3>1, MergedOK
    <3>3. config' = [config EXCEPT ![m].def = e]
      BY <2>1, <2>4
    <3> HIDE DEF e
    <3>4. config'[m] = [config[m] EXCEPT !.def = e]
      BY <1>0, <2>4, <3>3
    <3>5. config'[m].def = e /\ config'[m].own = config[m].own
      BY <3>1, <3>4 DEF Object
    <3>6. /\ DOMAIN config' = DOMAIN config
          /\ \A n \in DOMAIN config : n # m => config'[n] = config[n]
      BY <1>0, <3>3
    <3> QED
      BY <2>4, <3>2, <3>5, <3>6 DEF DictsOK
  <2> QED
    BY <2>3, <2>4
<1>2. ASSUME MergeTemplate \/ Return
      PROVE  DictsOK'
  <2> DEFINE m == Top.name
             e == IF MergeTemplate THEN ApplyTemplate(config[m].def, config[Template].def)
                  ELSE Applied(config[m].def)
  <2>1. /\ m \in DOMAIN config /\ config[m] \in Object /\ config[m].def \in Definition
    <3>1. Processing
      BY <1>2 DEF MergeTemplate, Return
    <3> QED
      BY <3>1, TopOK DEF IInv, TopDef
  <2>2. /\ DOMAIN config' = DOMAIN config
        /\ \A n \in DOMAIN config : n # m => config'[n] = config[n]
    BY <1>0, <1>2 DEF MergeTemplate, Return
  <2>3. e.dict => \E n \in DOMAIN config : config[n].def.dict
    <3>1. CASE MergeTemplate
      <4>1. Template \in DOMAIN config
        BY <3>1 DEF MergeTemplate
      <4>2. config[m].def.dict \/ config[Template].def.dict <=> e.dict
        BY <2>1, <3>1 DEF ApplyTemplate, Definition
      <4> QED
        BY <2>1, <4>1, <4>2
    <3>2. CASE ~MergeTemplate
      <4>1. e.dict = config[m].def.dict
        BY <2>1, <3>2, DefaultsOK
      <4> QED
        BY <2>1, <4>1
    <3> QED
      BY <3>1, <3>2
  <2>4. config'[m].def = e /\ config'[m].own.dict = config[m].own.dict
    <3>1. CASE MergeTemplate
      <4> DEFINE x == ApplyTemplate(config[m].def, config[Template].def)
      <4>1. config' = [config EXCEPT ![m].def = x] /\ e = x
        BY <3>1 DEF MergeTemplate
      <4> HIDE DEF x, e
      <4>2. config'[m] = [config[m] EXCEPT !.def = x]
        BY <1>0, <2>1, <4>1
      <4> QED
        BY <2>1, <4>1, <4>2 DEF Object
    <3>2. CASE ~MergeTemplate
      <4> DEFINE p == Returned(config[m])
      <4>1. config' = [config EXCEPT ![m] = p]
        BY <1>2, <3>2 DEF Return
      <4>2. p.def = Applied(config[m].def) /\ p.own = WithUse(config[m].own, config[m].def.use)
        BY <2>1, ReturnedIs
      <4>3. p.own.dict = config[m].own.dict
        <5>1. config[m].own \in Definition /\ config[m].def.use \in Seq(Name)
          BY <2>1, Attributes DEF Object
        <5> QED
          BY <4>2, <5>1, WithUseOK
      <4>4. e = Applied(config[m].def)
        BY <3>2
      <4> HIDE DEF p, e
      <4>5. config'[m] = p
        BY <1>0, <2>1, <4>1
      <4> QED
        BY <4>2, <4>3, <4>4, <4>5
    <3> QED
      BY <3>1, <3>2
  <2> HIDE DEF e, m
  <2> QED
    BY <2>1, <2>2, <2>3, <2>4 DEF DictsOK
<1>3. CASE config' = config
  BY <1>3 DEF DictsOK
<1>4. config' = config \/ LoadSingleObject \/ MergeTemplate \/ Return
  BY ConfigKept DEF ProcessObjects, AllLoaded, PostProcess, ResolveTemplate, Raise
<1> QED
  BY <1>1, <1>2, <1>3, <1>4

\* Along the stack the rank falls with every call.
LEMMA RankFalls ==
    ASSUME NEW c, NEW s, StackOK(c, s), NEW N \in Nat, NEW rank \in [DOMAIN c -> 0 .. N],
           \A n \in DOMAIN c : \A u \in ToSet(c[n].def.use) \cap DOMAIN c : rank[u] < rank[n],
           \A n \in DOMAIN c : c[n].def.use \in Seq(Name),
           s # <<>>
    PROVE  rank[s[Len(s)].name] + Len(s) <= N + 1
<1>1. s \in Seq(Frame) /\ Len(s) \in Nat /\ Len(s) # 0 /\ DOMAIN s = 1 .. Len(s)
  BY DEF StackOK
<1>2. ASSUME NEW k \in DOMAIN s PROVE s[k].name \in DOMAIN c /\ rank[s[k].name] \in 0 .. N
  BY <1>2 DEF StackOK, FrameOK
<1> DEFINE T == {k \in Nat : k < Len(s) => rank[s[k + 1].name] + k <= N}
<1>3. 0 \in T
  BY <1>1, <1>2
<1>4. ASSUME NEW k \in T PROVE k + 1 \in T
  <2> SUFFICES ASSUME k + 1 < Len(s) PROVE rank[s[k + 2].name] + (k + 1) <= N
    OBVIOUS
  <2>1. k + 1 \in DOMAIN s /\ k + 2 \in DOMAIN s /\ k + 1 \in 1 .. Len(s) - 1 /\ k + 1 + 1 = k + 2
    BY <1>1
  <2>2. FrameOK(c, s[k + 1]) /\ Waits(c, s[k + 1], s[k + 2])
    BY <2>1 DEF StackOK
  <2> DEFINE f == s[k + 1]
             use == c[f.name].def.use
  <2>3. use \in Seq(Name) /\ f.at \in DOMAIN use /\ use[f.at] = s[k + 2].name
    <3>1. use \in Seq(Name) /\ f.at \in 1 .. Len(use) + 1 /\ f.at <= Len(use)
      BY <2>2 DEF FrameOK, Waits
    <3> QED
      BY <2>2, <3>1 DEF Waits
  <2>4. s[k + 2].name \in ToSet(use)
    BY <2>3 DEF ToSet
  <2>5. rank[s[k + 2].name] < rank[f.name]
    BY <1>2, <2>1, <2>4
  <2> QED
    BY <1>1, <1>2, <2>1, <2>5
<1> HIDE DEF T
<1>5. T = Nat
  BY <1>3, <1>4, Induction DEF T
<1>6. Len(s) - 1 \in T /\ Len(s) - 1 + 1 = Len(s)
  BY <1>1, <1>5
<1> QED
  BY <1>1, <1>2, <1>6 DEF T

\* A merged definition has every template of both, if they are lists,
\* and those of the object only if it had them all.
LEMMA MergedUseHas ==
    ASSUME NEW o \in Definition, NEW d \in Definition, ~d.string
    PROVE  /\ ToSet(MergedUse(o, d)) = ToSet(o.use) \cup ToSet(d.use)
           /\ ToSet(d.use) \subseteq ToSet(o.use) => MergedUse(o, d) = o.use
<1> DEFINE K == {k \in DOMAIN d.use :
                    d.use[k] \notin ToSet(o.use) \cup {d.use[j] : j \in 1 .. k - 1}}
           more == Picked(d.use, K)
<1>1. o.use \in Seq(Name) /\ d.use \in Seq(Name)
  BY Attributes
<1>2. more \in Seq(Name) /\ ToSet(more) = {d.use[k] : k \in K \cap DOMAIN d.use}
  BY <1>1, PickedOK
<1>3. MergedUse(o, d) = o.use \o more
  <2>1. Iterated(d) = d.use
    BY IteratedOK
  <2> QED
    BY <2>1 DEF MergedUse
<1>4. ASSUME NEW k \in DOMAIN d.use
      PROVE  d.use[k] \in ToSet(o.use) \cup {d.use[j] : j \in K}
  <2> DEFINE S == {j \in DOMAIN d.use : d.use[j] = d.use[k]}
             first == Min(S)
  <2>1. S \in SUBSET Nat /\ S # {} /\ DOMAIN d.use = 1 .. Len(d.use) /\ Len(d.use) \in Nat
    BY <1>1
  <2> HIDE DEF S
  <2>2. first \in S /\ \A j \in S : first <= j
    BY <2>1, MinOK
  <2> HIDE DEF first
  <2>3. first \in DOMAIN d.use /\ d.use[first] = d.use[k] /\ first \in Nat
    BY <2>1, <2>2 DEF S
  <2>4. ASSUME NEW j \in 1 .. first - 1 PROVE d.use[j] # d.use[first]
    <3>1. j \in DOMAIN d.use /\ j < first /\ j \in Nat
      BY <2>1, <2>3
    <3>2. j \notin S
      BY <2>2, <2>3, <3>1
    <3> QED
      BY <2>3, <3>1, <3>2 DEF S
  <2> QED
    BY <2>3, <2>4
<1>5. ToSet(d.use) \subseteq ToSet(o.use) \cup {d.use[j] : j \in K}
  BY <1>4 DEF ToSet
<1>6. {d.use[k] : k \in K \cap DOMAIN d.use} \subseteq ToSet(d.use) /\ K \subseteq DOMAIN d.use
  BY DEF ToSet
<1>7. ToSet(d.use) \subseteq ToSet(o.use) => K = {}
  BY DEF ToSet
<1> HIDE DEF K, more
<1>8. ToSet(o.use \o more) = ToSet(o.use) \cup ToSet(more)
  BY <1>1, <1>2, Joined
<1>9. ASSUME K = {} PROVE o.use \o more = o.use
  <2>1. DOMAIN more = {}
    BY <1>2, <1>9 DEF ToSet
  <2>2. more = <<>>
    BY <1>2, <2>1
  <2> QED
    BY <1>1, <2>2
<1> QED
  BY <1>2, <1>3, <1>5, <1>6, <1>7, <1>8, <1>9

\* As long as no string is merged, an object has the templates its
\* definitions name.
AskedOK ==
    \A n \in DOMAIN config : ~asked[n].spelt => ToSet(Use(n)) \subseteq asked[n].use

LEMMA AskedStays ==
    ASSUME IInv, AskedOK, [Next]_vars
    PROVE  AskedOK'
<1>0. config \in [DOMAIN config -> Object] /\ asked \in [DOMAIN config -> AskedFor]
  BY DEF IInv, OInv, ConfigOK
<1>1. CASE LoadSingleObject
  <2> DEFINE d == Head(defs)
             m == d.name
             a == AskedBy(d)
  <2>1. /\ defs # <<>> /\ asked' = Stored(asked, m, a)
        /\ IF m \notin DOMAIN config
           THEN config' = Stored(config, m, [def |-> d, own |-> d, applied |-> FALSE])
           ELSE config' = [config EXCEPT ![m].def = Merged(config[m].def, d)]
    BY <1>1 DEF LoadSingleObject
  <2>2. d \in Definition
    BY <2>1 DEF IInv, OInv, QueuesOK
  <2> HIDE DEF d
  <2>3. a \in AskedFor /\ ToSet(d.use) \subseteq a.use
    BY <1>0, <2>2, AskedIs
  <2>4. m \in DOMAIN config =>
            /\ a.use = asked[m].use \cup ToSet(d.use)
            /\ a.spelt = (asked[m].spelt \/ d.string)
    BY DEF AskedBy
  <2> HIDE DEF a
  <2>5. asked'[m] = a /\ \A n \in DOMAIN config : n # m => asked'[n] = asked[n]
    <3> HIDE DEF m
    <3>1. \A n \in DOMAIN config : n # m => n \in DOMAIN config \ {m}
      OBVIOUS
    <3>2. /\ Stored(asked, m, a)[m] = a
          /\ \A n \in DOMAIN config \ {m} : Stored(asked, m, a)[n] = asked[n]
      BY <1>0, <2>3 DEF Stored
    <3> QED
      BY <2>1, <3>1, <3>2
  <2>6. CASE m \notin DOMAIN config
    <3>1. /\ DOMAIN config' = DOMAIN config \cup {m} /\ config'[m].def = d
          /\ \A n \in DOMAIN config : config'[n] = config[n]
      BY <1>0, <2>1, <2>6 DEF Stored
    <3> QED
      BY <2>3, <2>5, <2>6, <3>1 DEF AskedOK, Use
  <2>7. CASE m \in DOMAIN config
    <3> DEFINE e == Merged(config[m].def, d)
    <3>1. config[m].def \in Definition /\ config[m] \in Object
      BY <1>0, <2>7 DEF Object
    <3>2. e.use = MergedUse(config[m].def, d)
      BY <2>2, <3>1, MergedOK
    <3>3. config' = [config EXCEPT ![m].def = e]
      BY <2>1, <2>7
    <3> HIDE DEF e
    <3>4. config'[m] = [config[m] EXCEPT !.def = e]
      BY <1>0, <2>7, <3>3
    <3>5. /\ DOMAIN config' = DOMAIN config /\ config'[m].def = e
          /\ \A n \in DOMAIN config : n # m => config'[n] = config[n]
      BY <1>0, <3>1, <3>3, <3>4 DEF Object
    <3>6. ~a.spelt => ToSet(e.use) \subseteq a.use
      <4>1. ~d.string => ToSet(e.use) = ToSet(config[m].def.use) \cup ToSet(d.use)
        BY <2>2, <3>1, <3>2, MergedUseHas
      <4> QED
        BY <2>4, <2>7, <4>1 DEF AskedOK, Use
    <3> QED
      BY <2>5, <2>7, <3>5, <3>6 DEF AskedOK, Use
  <2> QED
    BY <2>6, <2>7
<1>2. CASE config' = config /\ asked' = asked
  BY <1>2 DEF AskedOK, Use
<1>3. CASE MergeTemplate \/ Return
  <2> DEFINE m == Top.name
  <2>1. m \in DOMAIN config /\ config[m] \in Object /\ config[m].def \in Definition
    <3>1. Processing
      BY <1>3 DEF MergeTemplate, Return
    <3> QED
      BY <3>1, TopOK DEF IInv, TopDef
  <2>2. /\ DOMAIN config' = DOMAIN config /\ asked' = asked
        /\ \A n \in DOMAIN config : n # m => config'[n] = config[n]
    BY <1>0, <1>3 DEF MergeTemplate, Return
  <2>3. config'[m].def.use = config[m].def.use
    <3>1. CASE MergeTemplate
      <4> DEFINE x == ApplyTemplate(config[m].def, config[Template].def)
      <4>1. config' = [config EXCEPT ![m].def = x] /\ Template \in DOMAIN config
        BY <3>1 DEF MergeTemplate
      <4>2. x.use = config[m].def.use
        BY <1>0, <2>1, <4>1, TakesOK DEF Object
      <4> HIDE DEF x
      <4>3. config'[m] = [config[m] EXCEPT !.def = x]
        BY <1>0, <2>1, <4>1
      <4> QED
        BY <2>1, <4>2, <4>3 DEF Object
    <3>2. CASE ~MergeTemplate
      <4> DEFINE p == Returned(config[m])
      <4>1. config' = [config EXCEPT ![m] = p]
        BY <1>3, <3>2 DEF Return
      <4>2. p.def.use = config[m].def.use
        BY <2>1, ReturnedIs, DefaultsOK
      <4> HIDE DEF p
      <4> QED
        BY <1>0, <2>1, <4>1, <4>2
    <3> QED
      BY <3>1, <3>2
  <2> HIDE DEF m
  <2> QED
    BY <2>1, <2>2, <2>3 DEF AskedOK, Use
<1>4. \/ LoadSingleObject \/ MergeTemplate \/ Return
      \/ config' = config /\ asked' = asked
  <2>1. CASE ProcessObjects
    BY <2>1 DEF ProcessObjects, AllLoaded, PostProcess, ResolveTemplate, Raise
  <2>2. CASE ~ProcessObjects
    <3>1. CASE UNCHANGED vars
      BY <3>1 DEF vars, ovars
    <3> QED
      BY <2>2, <3>1 DEF Next, Loop, AllProcessed, DiscoverObjects, AllDiscovered, NotRun, Search,
                  SearchFails, DirectoryChanges, Elapse, ovars
  <2> QED
    BY <2>1, <2>2
<1> QED
  BY <1>1, <1>2, <1>3, <1>4

\* What is refused is not valid.
LEMMA RaisedForCause ==
    ASSUME IInv, DictsOK, AskedOK, Raise, Valid, Cardinality(Name) < MaxDepth
    PROVE  FALSE
<1>1. Processing
  BY DEF Raise
<1>2. \A n \in DOMAIN config : ToSet(Use(n)) \subseteq asked[n].use
  BY DEF Valid, AskedOK
<1>3. ToSet(defs) = {}
  <2>1. defs = <<>>
    BY <1>1 DEF IInv, OInv, PhaseOK, Processing
  <2> QED
    BY <2>1 DEF ToSet
<1>4. /\ Top = stack[Len(stack)] /\ stack # <<>> /\ FrameOK(config, Top)
      /\ Top.name \in DOMAIN config /\ Sound(config[Top.name])
      /\ TopDef \in Definition /\ TopDef.use \in Seq(Name)
      /\ MoreTemplates => Top.at \in DOMAIN TopDef.use
  BY <1>1, TopOK DEF IInv, Processing
<1>5. /\ \A n \in DOMAIN config : ToSet(Use(n)) \subseteq DOMAIN config
      /\ \A n \in DOMAIN config : (Own(n).list = None \/ Own(n).list \subseteq Check) /\ ~Own(n).dict
      /\ Acyclic
  BY <1>2, <1>3 DEF Valid
<1>6. TopDef = config[Top.name].def /\ Use(Top.name) = TopDef.use
  BY DEF TopDef, Use
<1>7. ASSUME MoreTemplates PROVE Template \in ToSet(TopDef.use) /\ Template \in DOMAIN config
  <2>1. Template \in ToSet(TopDef.use)
    BY <1>4, <1>7 DEF Template, ToSet
  <2> QED
    BY <1>4, <1>5, <1>6, <2>1
<1>8. CASE MoreTemplates /\ TemplatePending
  <2>1. Len(stack) = MaxDepth
    BY <1>7, <1>8 DEF Raise
  <2>2. Cardinality(Name) \in Nat
    BY ObjectsAssumption, FS_CardinalityType
  <2>3. PICK rank \in [DOMAIN config -> 0 .. Cardinality(Name)] :
            \A n \in DOMAIN config : \A u \in ToSet(Use(n)) \cap DOMAIN config : rank[u] < rank[n]
    BY <1>2, <1>5 DEF Acyclic, Depth
  <2>4. \A n \in DOMAIN config : config[n].def.use \in Seq(Name)
    BY DEF IInv, OInv, ConfigOK, Object, Definition
  <2>5. rank[Top.name] + Len(stack) <= Cardinality(Name) + 1
    <3>1. \A n \in DOMAIN config : \A u \in ToSet(config[n].def.use) \cap DOMAIN config : rank[u] < rank[n]
      BY <2>3 DEF Use
    <3>2. StackOK(config, stack)
      BY DEF IInv, OInv
    <3> QED
      BY <1>4, <2>2, <2>4, <3>1, <3>2, RankFalls
  <2>6. rank[Template] < rank[Top.name]
    BY <1>4, <1>6, <1>7, <1>8, <2>3
  <2>7. rank[Template] \in 0 .. Cardinality(Name) /\ rank[Top.name] \in 0 .. Cardinality(Name)
    BY <1>4, <1>7, <1>8
  <2> QED
    BY <2>1, <2>2, <2>5, <2>6, <2>7, ObjectsAssumption
<1>9. CASE MoreTemplates /\ ~TemplatePending
  <2>1. TopDef.dict
    BY <1>7, <1>9 DEF Raise, DictsClash
  <2> QED
    BY <1>4, <1>5, <1>6, <2>1 DEF DictsOK, Own
<1>10. CASE ~MoreTemplates
  <2>1. ~(Applied(TopDef).list \subseteq Check)
    BY <1>10 DEF Raise
  <2>2. Applied(TopDef).list = Items(TopDef.list)
    BY <1>4, DefaultsOK
  <2>3. Items(TopDef.list) \subseteq Items(Own(Top.name).list) \cup Check
    BY <1>4, <1>6 DEF Sound, Own
  <2>4. Items(Own(Top.name).list) \subseteq Check
    BY <1>4, <1>5 DEF Items
  <2> QED
    BY <2>1, <2>2, <2>3, <2>4
<1> QED
  BY <1>8, <1>9, <1>10

\* Definitions whose templates and checks all exist are never refused, if
\* Python's recursion limit is above the number of objects.
THEOREM ValidDefinitionsAreLoaded ==
    ASSUME Cardinality(Name) < MaxDepth
    PROVE  Spec => []ValidIsLoaded
<1> DEFINE J == IInv /\ DictsOK /\ AskedOK /\ ValidIsLoaded
<1>1. Init => J
  BY InitIInv DEF Init, InitObjects, DictsOK, AskedOK, ValidIsLoaded
<1>2. J /\ [Next]_vars => J'
  <2> SUFFICES ASSUME J, [Next]_vars PROVE J'
    OBVIOUS
  <2>1. ASSUME phase' = "raised" PROVE ~Valid'
    <3>1. CASE Raise
      <4>1. config' = config /\ asked' = asked /\ defs' = defs
        BY <3>1 DEF Raise
      <4>2. ~Valid
        BY <3>1, RaisedForCause
      <4> QED
        BY <4>1, <4>2 DEF Valid, Own, Acyclic, Depth
    <3>2. CASE UNCHANGED vars
      <4>1. config' = config /\ asked' = asked /\ defs' = defs /\ ~Valid
        BY <2>1, <3>2 DEF vars, ovars, ValidIsLoaded
      <4> QED
        BY <4>1 DEF Valid, Own, Acyclic, Depth
    <3>3. CASE ~Raise /\ ~(UNCHANGED vars)
      BY <2>1, <3>3 DEF Next, Loop, ProcessObjects, LoadSingleObject, AllLoaded, PostProcess, ResolveTemplate,
         MergeTemplate, Return, Processing, AllProcessed, DiscoverObjects, AllDiscovered, NotRun, Search,
         SearchFails, Asked, DirectoryChanges, Elapse, ovars
    <3> QED
      BY <3>1, <3>2, <3>3
  <2> QED
    BY <2>1, NextIInv, DictsStay, AskedStays DEF ValidIsLoaded
<1>3. Spec => Init /\ [][Next]_vars
  BY PTL DEF Spec
<1> QED
  BY <1>1, <1>2, <1>3, PTL

-----------------------------------------------------------------------------
(* A search that counts as done is complete *)

LEMMA DoneIsNoMessage == \A m \in Message : m # Done
<1> SUFFICES ASSUME NEW m \in Message PROVE m.type # "done"
  BY DEF Done
<1>1. m = Referral \/ m = Bad \/ \E n \in Name \cup {None}, s \in Name : m = Entry(n, s)
  BY DEF Message
<1> QED
  BY <1>1 DEF Referral, Bad, Entry

\* Between two pages of which the second is not empty the iterator goes on:
\* it stops at the end of the last one.
LEMMA StopsAtEnd ==
    ASSUME NEW pages \in Seq(Seq(Message)), NoGap(pages),
           NEW stop \in DOMAIN Messages(pages), Stops(Messages(pages), stop),
           Messages(pages)[stop] # Bad
    PROVE  /\ stop = Len(Messages(pages))
           /\ \A e \in ToSet(FlattenSeq(pages)) : e.type = "entry" =>
                \E j \in DOMAIN Messages(pages) : j < stop /\ e = Messages(pages)[j]
<1> DEFINE s     == Messages(pages)
           parts == [p \in DOMAIN pages |-> Append(pages[p], Done)]
<1>1. /\ parts \in Seq(Seq(Received)) /\ DOMAIN parts = DOMAIN pages
      /\ Len(parts) = Len(pages) /\ s \in Seq(Received) /\ s = FlattenSeq(parts)
  BY MessagesOK
<1>2. ASSUME NEW p \in DOMAIN pages
      PROVE  /\ pages[p] \in Seq(Message) /\ Len(pages[p]) \in Nat
             /\ DOMAIN pages[p] = 1 .. Len(pages[p])
             /\ DOMAIN parts[p] = 1 .. Len(pages[p]) + 1 /\ Len(parts[p]) = Len(pages[p]) + 1
             /\ parts[p][Len(pages[p]) + 1] = Done
             /\ \A j \in DOMAIN pages[p] : parts[p][j] = pages[p][j] /\ pages[p][j] \in Message
  <2>1. pages[p] \in Seq(Message) /\ parts[p] = Append(pages[p], Done)
    OBVIOUS
  <2> HIDE DEF parts
  <2> QED
    BY <2>1
<1>3. PICK at : PartEnds(parts, at) /\ Lays(parts, Len(parts), at, s)
  BY <1>1, FlattenParts
<1> HIDE DEF s, parts
<1>4. Len(pages) \in Nat /\ DOMAIN pages = 1 .. Len(pages) /\ DOMAIN s = 1 .. Len(s) /\ Len(s) \in Nat
  BY <1>1
<1>5. s[stop] = Done /\ stop \in DOMAIN s /\ (stop < Len(s) => s[stop + 1] = Done)
  BY DEF Stops, s
<1>6. PICK i \in DOMAIN pages : \E j \in DOMAIN parts[i] : stop = at[i - 1] + j
  <2>1. \A k \in DOMAIN s : \E i \in 1 .. Len(parts) : \E j \in DOMAIN parts[i] : k = at[i - 1] + j
    BY <1>3 DEF Lays
  <2> QED
    BY <1>1, <1>4, <1>5, <2>1
<1>7. PICK j \in DOMAIN parts[i] : stop = at[i - 1] + j
  BY <1>6
<1>8. parts[i][j] = Done
  BY <1>1, <1>3, <1>4, <1>5, <1>7 DEF Lays
<1>9. j = Len(parts[i])
  <2>1. j \in 1 .. Len(pages[i]) + 1 /\ Len(pages[i]) \in Nat /\ Len(parts[i]) = Len(pages[i]) + 1
    BY <1>2, <1>7
  <2>2. j \notin DOMAIN pages[i]
    BY <1>2, <1>8, DoneIsNoMessage
  <2> QED
    BY <1>2, <2>1, <2>2
<1>10. stop = at[i]
  BY <1>1, <1>3, <1>7, <1>9 DEF PartEnds
<1>11. i = Len(pages)
  <2> SUFFICES ASSUME i # Len(pages) PROVE FALSE
    OBVIOUS
  <2> DEFINE n == i + 1
  <2>1. n \in DOMAIN pages /\ n > 1 /\ n - 1 = i
    BY <1>4
  <2> HIDE DEF n
  <2>2. pages[n] # <<>>
    BY <2>1 DEF NoGap
  <2>3. 1 \in DOMAIN pages[n] /\ 1 \in DOMAIN parts[n]
    BY <1>2, <2>1, <2>2
  <2>4. at[n - 1] + 1 \in DOMAIN s /\ s[at[n - 1] + 1] = parts[n][1]
    BY <1>1, <1>3, <1>4, <2>1, <2>3 DEF Lays
  <2>5. s[stop + 1] \in Message /\ stop + 1 \in DOMAIN s
    BY <1>2, <1>10, <2>1, <2>3, <2>4
  <2> QED
    BY <1>4, <1>5, <2>5, DoneIsNoMessage
<1>12. stop = Len(s)
  BY <1>1, <1>3, <1>10, <1>11 DEF Lays
<1>13. ASSUME NEW e \in ToSet(FlattenSeq(pages)), e.type = "entry"
       PROVE  \E k \in DOMAIN s : k < stop /\ e = s[k]
  <2>1. PICK p \in DOMAIN pages : e \in ToSet(pages[p])
    BY FlattenRange
  <2>2. PICK m \in DOMAIN pages[p] : e = pages[p][m]
    BY <2>1 DEF ToSet
  <2>3. m \in DOMAIN parts[p] /\ parts[p][m] = e /\ e \in Message
    BY <1>2, <2>2
  <2> DEFINE k == at[p - 1] + m
  <2>4. k \in DOMAIN s /\ s[k] = e
    BY <1>1, <1>3, <1>4, <2>3 DEF Lays
  <2> HIDE DEF k
  <2>5. k # stop
    BY <1>5, <2>3, <2>4, DoneIsNoMessage
  <2>6. k < stop
    BY <1>4, <1>12, <2>4, <2>5
  <2> QED
    BY <2>4, <2>6
<1> QED
  BY <1>12, <1>13 DEF s

\* A search that is put off until the next refresh has returned every entry
\* of every page, unless one of the pages was empty.
THEOREM SearchesAreComplete == Spec => SearchIsComplete
<1>1. ASSUME IInv, [Next]_vars, NEW k \in Index, next_run[k] = "due", next_run'[k] = "later",
             NoGap(directory[base[k]])
      PROVE  Listed(directory[base[k]]) \subseteq {d.name : d \in ToSet(defs')}
  <2> DEFINE pages == directory[base[k]]
             s     == Messages(pages)
  <2>1. Search(k)
    <3>0. next_run \in [Index -> {"due", "later"}]
      BY <1>1 DEF IInv, DiscoveriesOK
    <3>1. next_run' # next_run
      BY <1>1
    <3>2. PICK m \in Index : Search(m) \/ Elapse(m)
      BY <1>1, <3>1 DEF Next, Loop, AllProcessed, DiscoverObjects, AllDiscovered, NotRun,
         SearchFails, DirectoryChanges, vars, dvars
    <3>3. ~Elapse(m)
      BY <1>1, <3>0 DEF Elapse
    <3>4. m = k
      BY <1>1, <3>0, <3>2, <3>3 DEF Search
    <3> QED
      BY <3>2, <3>3, <3>4
  <2>2. base[k] \in DOMAIN directory /\ defs \in Seq(Definition)
    BY <1>1, <2>1 DEF Search, IInv, OInv, QueuesOK
  <2>3. pages \in Seq(Seq(Message)) /\ Discoveries[k].use \in Seq(Name)
    BY <1>1, <2>2, SetupOK DEF IInv
  <2>4. PICK stop \in DOMAIN s :
            /\ FirstStop(s, stop) /\ s[stop] # Bad
            /\ \E found \in {Found(s, stop)} :
                defs' = defs \o [j \in DOMAIN found |-> ToDefinition(Discoveries[k], found[j])]
    BY <2>1 DEF Search
  <2> DEFINE found == Found(s, stop)
             new   == [j \in DOMAIN found |-> ToDefinition(Discoveries[k], found[j])]
  <2>5. defs' = defs \o new /\ Stops(s, stop) /\ s[stop] # Bad
    BY <2>4 DEF FirstStop
  <2>6. stop \in Nat
    <3>1. s \in Seq(Received)
      BY <2>3, MessagesOK
    <3> QED
      BY <3>1
  <2>7. /\ new \in Seq(Definition)
        /\ \A j \in DOMAIN s : j < stop /\ s[j].type = "entry" =>
                NameOf(s[j]) \in {e.name : e \in ToSet(new)}
    BY <2>3, <2>6, FoundOK
  <2>8. \A e \in ToSet(FlattenSeq(pages)) : e.type = "entry" =>
            \E j \in DOMAIN s : j < stop /\ e = s[j]
    BY <1>1, <2>3, <2>5, StopsAtEnd
  <2> HIDE DEF new, s, pages
  <2>9. ToSet(new) \subseteq ToSet(defs')
    <3>1. ASSUME NEW j \in DOMAIN new PROVE new[j] \in ToSet(defs')
      <4>1. Len(defs) + j \in DOMAIN defs' /\ defs'[Len(defs) + j] = new[j]
        BY <2>2, <2>5, <2>7
      <4> QED
        BY <4>1 DEF ToSet
    <3> QED
      BY <3>1 DEF ToSet
  <2>10. ASSUME NEW e \in ToSet(FlattenSeq(pages)), e.type = "entry"
         PROVE  NameOf(e) \in {d.name : d \in ToSet(defs')}
    BY <2>7, <2>8, <2>9, <2>10
  <2> QED
    BY <2>10 DEF Listed, pages
<1>2. IInv /\ [Next]_vars =>
        [\A k \in Index : next_run[k] = "due" /\ next_run'[k] = "later" =>
            LET pages == directory[base[k]]
            IN  NoGap(pages) => Listed(pages) \subseteq {d.name : d \in ToSet(defs')}]_vars
  BY <1>1
<1>3. Spec => [][Next]_vars
  BY PTL DEF Spec
<1> QED
  BY <1>2, <1>3, Invariant, PTL DEF SearchIsComplete

-----------------------------------------------------------------------------
(* What an object has got from the templates it has passed                   *)

\* own with m templates, that have got from, has made o.  The default of the
\* flag is not among it.
Gets(own, from, m, o) ==
    /\ o.flag = IF own.flag = None /\ m = 0 THEN None ELSE Expected(own, from).flag
    /\ o.opt = Expected(own, from).opt
    /\ Items(o.list) = Expected(own, from).list

\* What m resolved templates have.
Froms(from, m) ==
    /\ from = [j \in 1 .. m |-> from[j]]
    /\ \A j \in 1 .. m : from[j].flag \in BOOLEAN /\ from[j].list \in SUBSET Check

Known(from, m) == {j \in 1 .. m : from[j].opt # None}
AllItems(from, m) == UNION {from[j].list : j \in 1 .. m}

IsExpected(e, own, from, m) ==
    /\ e.flag = IF own.flag # None THEN own.flag ELSE IF m = 0 THEN Default ELSE from[1].flag
    /\ e.opt = IF own.opt # None THEN own.opt
               ELSE IF Known(from, m) = {} THEN None ELSE from[Min(Known(from, m))].opt
    /\ e.list = Items(own.list) \cup AllItems(from, m)
    /\ e = [flag |-> e.flag, opt |-> e.opt, list |-> e.list]

LEMMA ExpectedIs ==
    ASSUME NEW own, NEW m \in Nat, NEW from, Froms(from, m)
    PROVE  IsExpected(Expected(own, from), own, from, m)
<1>1. DOMAIN from = 1 .. m
  BY DEF Froms
<1>2. from # <<>> <=> m # 0
  BY <1>1 DEF Froms
<1> DEFINE known == {j \in DOMAIN from : from[j].opt # None}
           flag == IF own.flag # None THEN own.flag ELSE IF from # <<>> THEN from[1].flag ELSE Default
           opt  == IF own.opt # None THEN own.opt ELSE IF known # {} THEN from[Min(known)].opt ELSE None
           list == (IF own.list = None THEN {} ELSE own.list) \cup UNION {from[j].list : j \in DOMAIN from}
<1>3. Expected(own, from) = [flag |-> flag, opt |-> opt, list |-> list]
  BY Zenon DEF Expected
<1>4. flag = IF own.flag # None THEN own.flag ELSE IF m = 0 THEN Default ELSE from[1].flag
  BY <1>2
<1> HIDE DEF known
<1>5. opt = IF own.opt # None THEN own.opt ELSE IF known = {} THEN None ELSE from[Min(known)].opt
  OBVIOUS
<1>6. list = Items(own.list) \cup AllItems(from, m)
  BY <1>1 DEF Items, AllItems
<1>7. known = Known(from, m)
  BY <1>1 DEF known, Known
<1> HIDE DEF flag, opt, list
<1>8. /\ Expected(own, from).flag = flag /\ Expected(own, from).opt = opt
      /\ Expected(own, from).list = list
      /\ Expected(own, from) = [flag |-> Expected(own, from).flag, opt |-> Expected(own, from).opt,
                                list |-> Expected(own, from).list]
  BY <1>3
<1> QED
  BY <1>4, <1>5, <1>6, <1>7, <1>8 DEF IsExpected

\* A loaded definition has got nothing yet.
LEMMA GetsNothing ==
    ASSUME NEW d \in Definition, NEW from, Froms(from, 0)
    PROVE  Gets(d, from, 0, d)
<1>1. Known(from, 0) = {} /\ AllItems(from, 0) = {}
  BY DEF Known, AllItems
<1>2. IsExpected(Expected(d, from), d, from, 0)
  BY ExpectedIs
<1> QED
  BY <1>1, <1>2 DEF Gets, IsExpected

\* The least of some numbers up to m stays so when m + 1 joins them.
LEMMA MinOfMore ==
    ASSUME NEW m \in Nat, NEW known \in SUBSET (1 .. m), known # {},
           NEW more \in {known, known \cup {m + 1}}
    PROVE  more # {} /\ Min(more) = Min(known) /\ Min(known) \in known
<1>1. known \in SUBSET Nat /\ more \in SUBSET Nat /\ more # {} /\ \A j \in known : j < m + 1
  OBVIOUS
<1>2. Min(known) \in known /\ \A j \in known : Min(known) <= j
  BY <1>1, MinOK
<1>3. Min(more) \in more /\ \A j \in more : Min(more) <= j
  BY <1>1, MinOK
<1>4. Min(known) \in more /\ Min(more) \in Nat /\ Min(known) \in Nat
  BY <1>1, <1>2, <1>3
<1>5. Min(more) <= Min(known) /\ Min(known) < m + 1
  BY <1>1, <1>2, <1>3, <1>4
<1>6. Min(more) # m + 1
  BY <1>4, <1>5
<1>7. Min(more) \in known
  BY <1>3, <1>6
<1> QED
  BY <1>1, <1>2, <1>4, <1>5, <1>7

\* One template more.
LEMMA GetsMore ==
    ASSUME NEW own \in Definition, NEW m \in Nat, NEW from, Froms(from, m),
           NEW more, Froms(more, m + 1), \A j \in 1 .. m : more[j] = from[j],
           NEW o \in Definition, NEW t \in Definition,
           more[m + 1] = Got(t), Gets(own, from, m, o)
    PROVE  Gets(own, more, m + 1, ApplyTemplate(o, t))
<1> DEFINE known  == Known(from, m)
           known2 == Known(more, m + 1)
           p == ApplyTemplate(o, t)
           e == Expected(own, from)
           f == Expected(own, more)
<1>1. /\ p.flag = (IF o.flag = None THEN t.flag ELSE o.flag)
      /\ p.opt = (IF o.opt = None THEN t.opt ELSE o.opt)
      /\ Items(p.list) = Items(o.list) \cup Items(t.list)
  BY TakesOK
<1>2. IsExpected(e, own, from, m)
  BY ExpectedIs
<1>3. m + 1 \in Nat /\ m + 1 # 0 /\ IsExpected(f, own, more, m + 1)
  BY ExpectedIs
<1>4. /\ o.flag = IF own.flag = None /\ m = 0 THEN None ELSE e.flag
      /\ o.opt = e.opt /\ Items(o.list) = e.list
  BY DEF Gets
<1>5. more[m + 1].flag = t.flag /\ more[m + 1].opt = t.opt /\ more[m + 1].list = t.list
  BY DEF Got
<1>6. None \notin BOOLEAN /\ \A items \in Lists : items # None
  BY ObjectsAssumption
<1>7. /\ \A j \in 1 .. m : from[j].flag \in BOOLEAN
      /\ t.flag \in BOOLEAN /\ t.list \in SUBSET Check
  BY <1>5 DEF Froms
<1>8. Items(t.list) = t.list
  BY <1>6, <1>7 DEF Items, Lists
<1> HIDE DEF p, e, f
<1>9. p.flag = f.flag
  <2>1. CASE own.flag # None
    BY <1>1, <1>2, <1>3, <1>4, <2>1 DEF IsExpected
  <2>2. CASE own.flag = None /\ m = 0
    BY <1>1, <1>3, <1>4, <1>5, <2>2 DEF IsExpected
  <2>3. CASE own.flag = None /\ m # 0
    <3>1. 1 \in 1 .. m
      BY <2>3
    <3>2. o.flag = from[1].flag /\ o.flag # None
      BY <1>2, <1>4, <1>6, <1>7, <2>3, <3>1 DEF IsExpected
    <3> QED
      BY <1>1, <1>3, <2>3, <3>1, <3>2 DEF IsExpected
  <2> QED
    BY <2>1, <2>2, <2>3
<1>10. p.opt = f.opt
  <2>1. /\ known \in SUBSET (1 .. m) /\ \A j \in known : from[j].opt # None
        /\ known2 = known \cup (IF t.opt # None THEN {m + 1} ELSE {})
    BY <1>5 DEF Known
  <2>2. \A j \in known : more[j] = from[j]
    BY <2>1
  <2> HIDE DEF known, known2
  <2>3. CASE own.opt # None
    BY <1>1, <1>2, <1>3, <1>4, <2>3 DEF IsExpected, known, known2
  <2>4. CASE own.opt = None /\ known # {}
    <3>1. known2 # {} /\ Min(known2) = Min(known) /\ Min(known) \in known
      BY <2>1, <2>4, MinOfMore
    <3>2. e.opt = from[Min(known)].opt /\ f.opt = more[Min(known2)].opt
      BY <1>2, <1>3, <2>4, <3>1 DEF IsExpected, known, known2
    <3> QED
      BY <1>1, <1>4, <2>1, <2>2, <3>1, <3>2
  <2>5. CASE own.opt = None /\ known = {}
    <3>1. o.opt = None /\ p.opt = t.opt
      BY <1>1, <1>2, <1>4, <2>5 DEF IsExpected, known
    <3>2. f.opt = IF known2 = {} THEN None ELSE more[Min(known2)].opt
      BY <1>3, <2>5 DEF IsExpected, known2
    <3>3. CASE t.opt = None
      BY <2>1, <2>5, <3>1, <3>2, <3>3
    <3>4. CASE t.opt # None
      <4>1. known2 = {m + 1} /\ known2 \in SUBSET Nat
        BY <2>1, <2>5, <3>4
      <4>2. Min(known2) = m + 1
        BY <4>1, MinOK
      <4> QED
        BY <1>5, <3>1, <3>2, <4>1, <4>2
    <3> QED
      BY <3>3, <3>4
  <2> QED
    BY <2>3, <2>4, <2>5
<1>11. Items(p.list) = f.list
  <2>1. AllItems(more, m + 1) = AllItems(from, m) \cup more[m + 1].list
    <3>1. \A x : x \in AllItems(more, m + 1) <=> \E j \in 1 .. m + 1 : x \in more[j].list
      BY DEF AllItems
    <3>2. \A x : x \in AllItems(from, m) <=> \E j \in 1 .. m : x \in more[j].list
      BY DEF AllItems
    <3>3. \A j : j \in 1 .. m + 1 <=> j \in 1 .. m \/ j = m + 1
      OBVIOUS
    <3> QED
      BY <3>1, <3>2, <3>3
  <2> QED
    BY <1>1, <1>2, <1>3, <1>4, <1>5, <1>8, <2>1 DEF IsExpected
<1> QED
  BY <1>9, <1>10, <1>11 DEF Gets, p, f

\* One of the templates once more changes nothing.
LEMMA GetsAgain ==
    ASSUME NEW own \in Definition, NEW m \in Nat, NEW from, Froms(from, m),
           NEW o \in Definition, NEW t \in Definition,
           NEW i \in 1 .. m, from[i] = Got(t), Gets(own, from, m, o)
    PROVE  Gets(own, from, m, ApplyTemplate(o, t))
<1> DEFINE known == Known(from, m)
           p == ApplyTemplate(o, t)
           e == Expected(own, from)
<1>1. /\ p.flag = (IF o.flag = None THEN t.flag ELSE o.flag)
      /\ p.opt = (IF o.opt = None THEN t.opt ELSE o.opt)
      /\ Items(p.list) = Items(o.list) \cup Items(t.list)
  BY TakesOK
<1>2. IsExpected(e, own, from, m)
  BY ExpectedIs
<1>3. m # 0 /\ o.flag = e.flag /\ o.opt = e.opt /\ Items(o.list) = e.list
  BY DEF Gets
<1>4. from[i].flag = t.flag /\ from[i].opt = t.opt /\ from[i].list = t.list
  BY DEF Got
<1>5. None \notin BOOLEAN /\ \A items \in Lists : items # None
  BY ObjectsAssumption
<1>6. from[1].flag \in BOOLEAN /\ t.list \in SUBSET Check
  BY <1>3, <1>4 DEF Froms
<1>7. Items(t.list) = t.list
  BY <1>5, <1>6 DEF Items, Lists
<1>8. known # {} => Min(known) \in known
  <2>1. known \in SUBSET Nat
    BY DEF Known
  <2> HIDE DEF known
  <2> QED
    BY <2>1, MinOK
<1>9. e.flag # None
  BY <1>2, <1>3, <1>5, <1>6 DEF IsExpected
<1>10. e.opt = None => t.opt = None
  <2>1. t.opt # None => i \in known
    BY <1>4 DEF Known
  <2>2. \A j \in known : from[j].opt # None
    BY DEF Known
  <2> HIDE DEF e
  <2> QED
    BY <1>2, <1>8, <2>1, <2>2 DEF IsExpected
<1>11. t.list \subseteq e.list
  BY <1>2, <1>4 DEF IsExpected, AllItems
<1> HIDE DEF p, e, known
<1> QED
  BY <1>1, <1>3, <1>7, <1>9, <1>10, <1>11 DEF Gets, p, e

\* With all templates and the defaults an object is what its definition means.
LEMMA GetsAll ==
    ASSUME NEW own \in Definition, NEW m \in Nat, NEW from, Froms(from, m),
           NEW o \in Definition, Gets(own, from, m, o), NEW use
    PROVE  Got(Applied(o)) = Expected(WithUse(own, use), from)
<1> DEFINE known == Known(from, m)
           e == Expected(own, from)
           d == WithUse(own, use)
<1>1. IsExpected(e, own, from, m)
  BY ExpectedIs
<1>2. d.flag = own.flag /\ d.opt = own.opt /\ d.list = own.list
  BY DEF WithUse, Definition
<1> HIDE DEF d
<1>3. Expected(d, from) = e
  BY <1>2 DEF Expected
<1>4. /\ Applied(o).flag = (IF o.flag = None THEN Default ELSE o.flag)
      /\ Applied(o).list = Items(o.list) /\ Applied(o).opt = o.opt
  BY DefaultsOK
<1>5. /\ o.flag = IF own.flag = None /\ m = 0 THEN None ELSE e.flag
      /\ o.opt = e.opt /\ Items(o.list) = e.list
  BY DEF Gets
<1>6. None \notin BOOLEAN /\ (m # 0 => from[1].flag \in BOOLEAN)
  BY ObjectsAssumption DEF Froms
<1> HIDE DEF e
<1>7. Applied(o).flag = e.flag
  BY <1>1, <1>4, <1>5, <1>6 DEF IsExpected
<1>8. Got(Applied(o)) = [flag |-> e.flag, opt |-> e.opt, list |-> e.list]
  BY <1>4, <1>5, <1>7 DEF Got
<1> QED
  BY <1>1, <1>3, <1>8 DEF d, IsExpected

-----------------------------------------------------------------------------
(* Every object has got what its definition means, as far as it has come     *)

\* What the first m templates of use have, in the section c.
Gots(c, use, m) == [j \in 1 .. m |-> Got(c[use[j]].def)]
AreSettled(c, use, m) == \A j \in 1 .. m : Settled(c, use[j])

\* The object o is resolved, with what its templates have; or has come past
\* the first m of them.
ResolvedAs(c, o) ==
    /\ AreSettled(c, o.own.use, Len(o.own.use))
    /\ Got(o.def) = Expected(o.own, Gots(c, o.own.use, Len(o.own.use)))
PartlyAs(c, o, m) ==
    /\ m \in 0 .. Len(o.def.use) /\ AreSettled(c, o.def.use, m)
    /\ Gets(o.own, Gots(c, o.def.use, m), m, o.def)

\* No call for n on the stack s is farther.
Reached(s, n, m) == \A k \in DOMAIN s : s[k].name = n => s[k].at <= m + 1

HasCome(c, s, n) ==
    IF c[n].applied THEN ResolvedAs(c, c[n])
    ELSE \E m \in Nat : PartlyAs(c, c[n], m) /\ Reached(s, n, m)
MeaningsOK(c, s) == \A n \in DOMAIN c : HasCome(c, s, n)

\* What is not resolved is still to be.
Pending(n) ==
    config[n].applied \/ n \in ToSet(objects) \/ \E k \in DOMAIN stack : stack[k].name = n
PendingOK == \A n \in DOMAIN config : Pending(n)

\* An object was resolved after its templates.
Resolveds(c) == {n \in DOMAIN c : c[n].applied}
IsRank(c, rank) ==
    /\ rank \in [Resolveds(c) -> 1 .. Cardinality(Resolveds(c))]
    /\ \A n \in Resolveds(c) : \A j \in 1 .. Len(c[n].own.use) :
        rank[c[n].own.use[j]] < rank[n]
RankOK(c) == \E rank : IsRank(c, rank)

MInv == MeaningsOK(config, stack) /\ PendingOK /\ RankOK(config)

\* What is resolved in c is so in d, and has the same.
Keeps(c, d) ==
    \A n : Settled(c, n) =>
        Settled(d, n) /\ Got(d[n].def) = Got(c[n].def) /\ d[n].own = c[n].own

LEMMA GotsFroms ==
    ASSUME NEW c, \A n \in DOMAIN c : Sound(c[n]),
           NEW use, NEW m \in Nat, AreSettled(c, use, m)
    PROVE  Froms(Gots(c, use, m), m)
<1>1. ASSUME NEW j \in 1 .. m
      PROVE  Got(c[use[j]].def).flag \in BOOLEAN /\ Got(c[use[j]].def).list \in SUBSET Check
  <2>1. use[j] \in DOMAIN c /\ c[use[j]].applied
    BY DEF AreSettled, Settled
  <2>2. c[use[j]].def.flag \in BOOLEAN /\ c[use[j]].def.list \subseteq Check
    BY <2>1 DEF Sound
  <2> QED
    BY <2>2 DEF Got
<1> QED
  BY <1>1 DEF Gots, Froms

LEMMA GotsKept ==
    ASSUME NEW c, NEW d, Keeps(c, d), NEW use, NEW m \in Nat, AreSettled(c, use, m),
           NEW more, \A j \in 1 .. m : more[j] = use[j]
    PROVE  AreSettled(d, more, m) /\ Gots(d, more, m) = Gots(c, use, m)
<1>1. ASSUME NEW j \in 1 .. m
      PROVE  Settled(d, more[j]) /\ Got(d[more[j]].def) = Got(c[use[j]].def)
  BY DEF AreSettled, Keeps
<1> QED
  BY <1>1 DEF AreSettled, Gots

LEMMA ResolvedKept ==
    ASSUME NEW c, NEW d, Keeps(c, d), NEW o, NEW p, ResolvedAs(c, o),
           o.own.use \in Seq(Name), p.own = o.own, Got(p.def) = Got(o.def)
    PROVE  ResolvedAs(d, p)
<1>1. Len(o.own.use) \in Nat
  OBVIOUS
<1>2. AreSettled(c, o.own.use, Len(o.own.use))
  BY DEF ResolvedAs
<1>3. AreSettled(d, o.own.use, Len(o.own.use))
      /\ Gots(d, o.own.use, Len(o.own.use)) = Gots(c, o.own.use, Len(o.own.use))
  BY <1>1, <1>2, GotsKept
<1> QED
  BY <1>3 DEF ResolvedAs

\* use begins with the templates o has.
LEMMA PartlyKept ==
    ASSUME NEW c, NEW d, Keeps(c, d), NEW o, NEW p, NEW m \in Nat, PartlyAs(c, o, m),
           o.def.use \in Seq(Name), p.def.use \in Seq(Name), Len(p.def.use) >= Len(o.def.use),
           \A j \in 1 .. Len(o.def.use) : p.def.use[j] = o.def.use[j],
           p.own = o.own, Got(p.def) = Got(o.def)
    PROVE  PartlyAs(d, p, m)
<1>1. /\ m \in 0 .. Len(o.def.use) /\ AreSettled(c, o.def.use, m)
      /\ Gets(o.own, Gots(c, o.def.use, m), m, o.def)
  BY DEF PartlyAs
<1>2. m \in 0 .. Len(p.def.use) /\ \A j \in 1 .. m : p.def.use[j] = o.def.use[j]
  BY <1>1
<1>3. AreSettled(d, p.def.use, m) /\ Gots(d, p.def.use, m) = Gots(c, o.def.use, m)
  BY <1>1, <1>2, GotsKept
<1>4. p.def.flag = o.def.flag /\ p.def.opt = o.def.opt /\ p.def.list = o.def.list
  BY DEF Got
<1>5. Gets(p.own, Gots(d, p.def.use, m), m, p.def)
  BY <1>1, <1>3, <1>4 DEF Gets
<1> QED
  BY <1>2, <1>3, <1>5 DEF PartlyAs

\* Nothing else is resolved, and what is has the same templates.
LEMMA RankKept ==
    ASSUME NEW c, NEW d, Keeps(c, d), Resolveds(d) = Resolveds(c), RankOK(c)
    PROVE  RankOK(d)
<1>1. PICK rank : IsRank(c, rank)
  BY DEF RankOK
<1>2. \A n \in Resolveds(c) : d[n].own = c[n].own
  BY DEF Keeps, Resolveds, Settled
<1>3. IsRank(d, rank)
  BY <1>1, <1>2 DEF IsRank
<1> QED
  BY <1>3 DEF RankOK

LEMMA RankGrows ==
    ASSUME NEW c, NEW d, Keeps(c, d), NEW n, n \notin Resolveds(c),
           Resolveds(d) = Resolveds(c) \cup {n}, IsFiniteSet(Resolveds(c)), RankOK(c),
           \A m \in Resolveds(c) : AreSettled(c, c[m].own.use, Len(c[m].own.use)),
           AreSettled(c, d[n].own.use, Len(d[n].own.use))
    PROVE  RankOK(d)
<1> DEFINE K == Cardinality(Resolveds(c))
<1>1. K \in Nat /\ Cardinality(Resolveds(d)) = K + 1
  BY FS_CardinalityType, FS_AddElement
<1>2. PICK rank : IsRank(c, rank)
  BY DEF RankOK
<1> HIDE DEF K
<1>3. rank \in [Resolveds(c) -> 1 .. K]
  BY <1>2 DEF IsRank, K
<1> DEFINE more == [m \in Resolveds(d) |-> IF m = n THEN K + 1 ELSE rank[m]]
<1>4. /\ more \in [Resolveds(d) -> 1 .. K + 1] /\ more[n] = K + 1
      /\ \A m \in Resolveds(c) : more[m] = rank[m] /\ more[m] < K + 1
  <2>1. \A m \in Resolveds(d) : m = n \/ m \in Resolveds(c)
    OBVIOUS
  <2> QED
    BY <1>1, <1>3, <2>1
<1> HIDE DEF more
<1>5. ASSUME NEW m \in Resolveds(d), NEW j \in 1 .. Len(d[m].own.use)
      PROVE  more[d[m].own.use[j]] < more[m]
  <2>1. CASE m = n
    <3>1. d[n].own.use[j] \in Resolveds(c)
      BY <1>5, <2>1 DEF AreSettled, Settled, Resolveds
    <3> QED
      BY <1>4, <2>1, <3>1
  <2>2. CASE m # n
    <3>1. m \in Resolveds(c) /\ d[m].own = c[m].own
      BY <2>2 DEF Keeps, Resolveds, Settled
    <3>2. c[m].own.use[j] \in Resolveds(c)
      BY <1>5, <3>1 DEF AreSettled, Settled, Resolveds
    <3>3. rank[c[m].own.use[j]] < rank[m]
      BY <1>2, <1>5, <3>1 DEF IsRank
    <3> QED
      BY <1>4, <3>1, <3>2, <3>3
  <2> QED
    BY <2>1, <2>2
<1>6. IsRank(d, more)
  BY <1>1, <1>4, <1>5 DEF IsRank
<1> QED
  BY <1>6 DEF RankOK

\* An object with the same attributes as before, or more templates.
AsBefore(o, p) ==
    /\ p.applied = o.applied /\ p.own = o.own /\ Got(p.def) = Got(o.def)
    /\ Len(p.def.use) >= Len(o.def.use)
    /\ \A j \in 1 .. Len(o.def.use) : p.def.use[j] = o.def.use[j]

\* A call for n on t is new or was on s.
Nearer(s, t, n) ==
    \A k \in DOMAIN t : t[k].name = n => t[k].at = 1 \/ \E j \in DOMAIN s : t[k] = s[j]

LEMMA HasComeKept ==
    ASSUME NEW c, NEW d, Keeps(c, d), NEW s, NEW t, NEW n \in DOMAIN c, HasCome(c, s, n),
           c[n] \in Object, d[n] \in Object, AsBefore(c[n], d[n]), Nearer(s, t, n)
    PROVE  HasCome(d, t, n)
<1>1. /\ c[n].own.use \in Seq(Name) /\ c[n].def.use \in Seq(Name) /\ d[n].def.use \in Seq(Name)
      /\ c[n].applied \in BOOLEAN
  BY Attributes DEF Object
<1>2. CASE c[n].applied
  <2>1. ResolvedAs(c, c[n])
    BY <1>2 DEF HasCome
  <2>2. ResolvedAs(d, d[n])
    BY <1>1, <2>1, ResolvedKept DEF AsBefore
  <2> QED
    BY <1>2, <2>2 DEF HasCome, AsBefore
<1>3. CASE ~c[n].applied
  <2>1. PICK m \in Nat : PartlyAs(c, c[n], m) /\ Reached(s, n, m)
    BY <1>3 DEF HasCome
  <2>2. PartlyAs(d, d[n], m)
    BY <1>1, <2>1, PartlyKept DEF AsBefore
  <2>3. Reached(t, n, m)
    BY <2>1 DEF Reached, Nearer
  <2> QED
    BY <1>3, <2>2, <2>3 DEF HasCome, AsBefore
<1> QED
  BY <1>2, <1>3

\* An object that has just been loaded.
IsNew(o) == o.def \in Definition /\ o.own = o.def /\ o.applied = FALSE

LEMMA NewHasCome ==
    ASSUME NEW d, NEW n, IsNew(d[n])
    PROVE  HasCome(d, <<>>, n)
<1>1. /\ AreSettled(d, d[n].def.use, 0) /\ Froms(Gots(d, d[n].def.use, 0), 0)
  BY DEF AreSettled, Gots, Froms
<1>2. Gets(d[n].own, Gots(d, d[n].def.use, 0), 0, d[n].def)
  BY <1>1, GetsNothing DEF IsNew
<1>3. Len(d[n].def.use) \in Nat
  <2>1. d[n].def.use \in Seq(Name)
    BY Attributes DEF IsNew
  <2> QED
    BY <2>1
<1>4. PartlyAs(d, d[n], 0) /\ Reached(<<>>, n, 0)
  BY <1>1, <1>2, <1>3 DEF PartlyAs, Reached
<1> QED
  BY <1>4 DEF HasCome, IsNew

\* Nothing takes from a template, or is resolved.
LEMMA MeaningsKept ==
    ASSUME NEW c, NEW d, NEW s, NEW t, MeaningsOK(c, s), RankOK(c),
           \A n \in DOMAIN c : c[n] \in Object, \A n \in DOMAIN d : d[n] \in Object,
           DOMAIN c \subseteq DOMAIN d,
           \A n \in DOMAIN c : AsBefore(c[n], d[n]) /\ Nearer(s, t, n),
           \A n \in DOMAIN d \ DOMAIN c : IsNew(d[n]) /\ t = <<>>
    PROVE  MeaningsOK(d, t) /\ RankOK(d)
<1>1. Keeps(c, d)
  BY DEF Keeps, Settled, AsBefore
<1>2. ASSUME NEW n \in DOMAIN d PROVE HasCome(d, t, n)
  <2>1. CASE n \in DOMAIN c
    BY <1>1, <2>1, HasComeKept DEF MeaningsOK
  <2>2. CASE n \notin DOMAIN c
    BY <2>2, NewHasCome
  <2> QED
    BY <2>1, <2>2
<1>3. Resolveds(d) = Resolveds(c)
  BY DEF Resolveds, AsBefore, IsNew
<1> QED
  BY <1>1, <1>2, <1>3, RankKept DEF MeaningsOK

\* The steps of process_objects.
LEMMA LoadMeans ==
    ASSUME OInv, OInv', MInv, LoadSingleObject
    PROVE  MInv'
<1> DEFINE d == Head(defs)
           n == d.name
<1>1. /\ defs # <<>> /\ stack' = stack /\ stack = <<>>
      /\ IF n \notin DOMAIN config
         THEN /\ config' = Stored(config, n, [def |-> d, own |-> d, applied |-> FALSE])
              /\ objects' = Append(objects, n)
         ELSE /\ config' = [config EXCEPT ![n].def = Merged(config[n].def, d)]
              /\ objects' = objects \/ objects' = Append(objects, n)
  BY DEF LoadSingleObject, OInv, PhaseOK
<1>2. d \in Definition /\ config \in [DOMAIN config -> Object] /\ objects \in Seq(DOMAIN config)
  BY <1>1 DEF OInv, QueuesOK, ConfigOK
<1>3. \A m \in DOMAIN config' : config'[m] \in Object
  BY DEF OInv, ConfigOK
<1> HIDE DEF d
<1>4. \A m \in DOMAIN config : config[m].def.use \in Seq(Name)
  BY <1>2 DEF Object, Definition
<1>5. /\ DOMAIN config' = DOMAIN config \cup {n}
      /\ \A m \in DOMAIN config : AsBefore(config[m], config'[m])
      /\ n \notin DOMAIN config => IsNew(config'[n])
  <2>1. CASE n \notin DOMAIN config
    <3>1. /\ DOMAIN config' = DOMAIN config \cup {n}
          /\ config'[n] = [def |-> d, own |-> d, applied |-> FALSE]
          /\ \A m \in DOMAIN config : config'[m] = config[m]
      BY <1>1, <2>1 DEF Stored
    <3>2. IsNew(config'[n])
      BY <1>2, <3>1 DEF IsNew
    <3>3. ASSUME NEW m \in DOMAIN config PROVE AsBefore(config[m], config'[m])
      <4>1. Len(config[m].def.use) \in Nat
        BY <1>4
      <4> QED
        BY <3>1, <4>1 DEF AsBefore
    <3> QED
      BY <3>1, <3>2, <3>3
  <2>2. CASE n \in DOMAIN config
    <3> DEFINE e == Merged(config[n].def, d)
    <3>1. config[n].def \in Definition /\ config[n] \in Object
      BY <1>2, <2>2 DEF Object
    <3>2. /\ e.flag = config[n].def.flag /\ e.opt = config[n].def.opt
          /\ e.list = config[n].def.list
          /\ Len(e.use) >= Len(config[n].def.use)
          /\ \A j \in DOMAIN config[n].def.use : e.use[j] = config[n].def.use[j]
      BY <1>2, <3>1, MergedOK
    <3>3. config' = [config EXCEPT ![n].def = e]
      BY <1>1, <2>2
    <3> HIDE DEF e
    <3>4. config'[n] = [config[n] EXCEPT !.def = e]
      BY <1>2, <2>2, <3>3
    <3>5. config'[n].def = e /\ config'[n].own = config[n].own /\ config'[n].applied = config[n].applied
      BY <3>1, <3>4 DEF Object
    <3>6. /\ DOMAIN config' = DOMAIN config
          /\ \A m \in DOMAIN config : m # n => config'[m] = config[m]
      BY <1>2, <3>3
    <3>7. AsBefore(config[n], config'[n])
      <4>1. DOMAIN config[n].def.use = 1 .. Len(config[n].def.use)
        BY <1>4, <2>2
      <4>2. Got(e) = Got(config[n].def)
        BY <3>2 DEF Got
      <4> QED
        BY <3>2, <3>5, <4>1, <4>2 DEF AsBefore
    <3>8. ASSUME NEW m \in DOMAIN config, m # n PROVE AsBefore(config[m], config'[m])
      <4>1. Len(config[m].def.use) \in Nat
        BY <1>4
      <4> QED
        BY <3>6, <3>8, <4>1 DEF AsBefore
    <3> QED
      BY <2>2, <3>6, <3>7, <3>8
  <2> QED
    BY <2>1, <2>2
<1>6. MeaningsOK(config', stack') /\ RankOK(config')
  <2>1. \A m \in DOMAIN config : Nearer(stack, stack', m) /\ config[m] \in Object
    BY <1>1, <1>2 DEF Nearer
  <2>2. \A m \in DOMAIN config' \ DOMAIN config : IsNew(config'[m]) /\ stack' = <<>>
    BY <1>1, <1>5
  <2>3. DOMAIN config \subseteq DOMAIN config'
    BY <1>5
  <2> QED
    BY <1>3, <1>5, <2>1, <2>2, <2>3, MeaningsKept DEF MInv
<1>7. ASSUME NEW m \in DOMAIN config' PROVE Pending(m)'
  <2>1. ToSet(Append(objects, n)) = ToSet(objects) \cup {n}
    <3>1. /\ DOMAIN objects = 1 .. Len(objects) /\ Len(objects) \in Nat
          /\ DOMAIN Append(objects, n) = 1 .. Len(objects) + 1
          /\ \A k \in 1 .. Len(objects) : Append(objects, n)[k] = objects[k]
          /\ Append(objects, n)[Len(objects) + 1] = n
      BY <1>2
    <3>2. 1 .. Len(objects) + 1 = 1 .. Len(objects) \cup {Len(objects) + 1}
      BY <3>1
    <3> QED
      BY <3>1, <3>2 DEF ToSet
  <2>2. ToSet(objects) \subseteq ToSet(objects')
    BY <1>1, <2>1
  <2>3. CASE m \in DOMAIN config
    <3>1. config'[m].applied = config[m].applied /\ Pending(m)
      BY <1>5, <2>3 DEF AsBefore, MInv, PendingOK
    <3> QED
      BY <1>1, <2>2, <3>1 DEF Pending
  <2>4. CASE m \notin DOMAIN config
    <3>1. m = n /\ objects' = Append(objects, n)
      BY <1>1, <1>5, <2>4
    <3> QED
      BY <2>1, <3>1 DEF Pending
  <2> QED
    BY <2>3, <2>4
<1> QED
  BY <1>6, <1>7 DEF MInv, PendingOK

LEMMA SteadyMeans ==
    ASSUME OInv, MInv, config' = config, \A n : Nearer(stack, stack', n), PendingOK'
    PROVE  MInv'
<1>1. ASSUME NEW n \in DOMAIN config
      PROVE  config[n] \in Object /\ AsBefore(config[n], config[n])
  <2>1. config[n] \in Object
    BY DEF OInv, ConfigOK
  <2>2. config[n].def.use \in Seq(Name)
    BY <2>1, Attributes DEF Object
  <2>3. Len(config[n].def.use) \in Nat
    BY <2>2
  <2> QED
    BY <2>1, <2>3 DEF AsBefore
<1>2. MeaningsOK(config, stack') /\ RankOK(config)
  BY <1>1, MeaningsKept DEF MInv
<1> QED
  BY <1>2 DEF MInv

LEMMA PostProcessMeans ==
    ASSUME OInv, MInv, PostProcess
    PROVE  MInv'
<1> DEFINE u == Head(objects)
<1>1. /\ stack = <<>> /\ objects # <<>> /\ objects' = Tail(objects) /\ config' = config
      /\ stack' = IF config[u].applied THEN <<>> ELSE << [name |-> u, at |-> 1] >>
  BY DEF PostProcess
<1>2. objects \in Seq(DOMAIN config)
  BY DEF OInv, QueuesOK
<1>3. ToSet(objects) = {u} \cup ToSet(Tail(objects))
  <2>1. /\ DOMAIN objects = 1 .. Len(objects) /\ Len(objects) \in Nat \ {0}
        /\ DOMAIN Tail(objects) = 1 .. Len(objects) - 1
        /\ \A k \in 1 .. Len(objects) - 1 : Tail(objects)[k] = objects[k + 1]
        /\ u = objects[1]
    BY <1>1, <1>2
  <2>2. ASSUME NEW k \in 1 .. Len(objects)
        PROVE  objects[k] = u \/ \E j \in DOMAIN Tail(objects) : Tail(objects)[j] = objects[k]
    <3>1. CASE k = 1
      BY <2>1, <3>1
    <3>2. CASE k # 1
      <4>1. k - 1 \in 1 .. Len(objects) - 1 /\ (k - 1) + 1 = k
        BY <2>1, <3>2
      <4> QED
        BY <2>1, <4>1
    <3> QED
      BY <3>1, <3>2
  <2>3. \A j \in DOMAIN Tail(objects) : \E k \in 1 .. Len(objects) : Tail(objects)[j] = objects[k]
    <3>1. \A j \in 1 .. Len(objects) - 1 : j + 1 \in 1 .. Len(objects)
      BY <2>1
    <3> QED
      BY <2>1, <3>1
  <2>4. 1 \in 1 .. Len(objects)
    BY <2>1
  <2> HIDE DEF u
  <2>5. \A x : x \in ToSet(objects) <=> \E k \in 1 .. Len(objects) : x = objects[k]
    BY <2>1 DEF ToSet
  <2>6. \A x : x \in ToSet(Tail(objects)) <=> \E j \in DOMAIN Tail(objects) : x = Tail(objects)[j]
    BY DEF ToSet
  <2>7. u = objects[1]
    BY <2>1
  <2> QED
    BY <2>2, <2>3, <2>4, <2>5, <2>6, <2>7
<1> HIDE DEF u
<1>4. \A n : Nearer(stack, stack', n)
  <2>1. \A k \in DOMAIN stack' : stack'[k].at = 1
    BY <1>1
  <2> QED
    BY <2>1 DEF Nearer
<1>5. ASSUME NEW n \in DOMAIN config' PROVE Pending(n)'
  <2>1. config[n].applied \/ n \in ToSet(objects)
    <3>1. Pending(n)
      BY <1>1 DEF MInv, PendingOK
    <3> QED
      BY <1>1, <3>1 DEF Pending
  <2>2. CASE n = u /\ ~config[n].applied
    <3>1. 1 \in DOMAIN stack' /\ stack'[1].name = n
      BY <1>1, <2>2
    <3> QED
      BY <3>1 DEF Pending
  <2> QED
    BY <1>1, <1>3, <2>1, <2>2 DEF Pending
<1> QED
  BY <1>1, <1>4, <1>5, SteadyMeans DEF PendingOK

LEMMA ResolveTemplateMeans ==
    ASSUME OInv, MInv, ResolveTemplate
    PROVE  MInv'
<1> DEFINE f == [name |-> Template, at |-> 1]
<1>1. Processing /\ stack' = Append(stack, f) /\ config' = config /\ objects' = objects
  BY DEF ResolveTemplate
<1>2. f.at = 1 /\ stack \in Seq(Frame)
  BY DEF OInv, StackOK
<1> HIDE DEF f
<1>3. /\ DOMAIN stack = 1 .. Len(stack) /\ Len(stack) \in Nat
      /\ DOMAIN stack' = 1 .. Len(stack) + 1
      /\ stack'[Len(stack) + 1] = f /\ \A k \in 1 .. Len(stack) : stack'[k] = stack[k]
  BY <1>1, <1>2
<1>4. \A n : Nearer(stack, stack', n)
  <2>1. \A k \in DOMAIN stack' : stack'[k] = f \/ \E j \in DOMAIN stack : stack'[k] = stack[j]
    BY <1>3
  <2> QED
    BY <1>2, <2>1 DEF Nearer
<1>5. ASSUME NEW n \in DOMAIN config' PROVE Pending(n)'
  <2>1. Pending(n)
    BY <1>1, <1>5 DEF MInv, PendingOK
  <2>2. \A k \in DOMAIN stack : k \in DOMAIN stack' /\ stack'[k] = stack[k]
    BY <1>3
  <2> QED
    BY <1>1, <2>1, <2>2 DEF Pending
<1> QED
  BY <1>1, <1>4, <1>5, SteadyMeans DEF PendingOK

LEMMA KeepsStep ==
    ASSUME OInv, ProcessObjects
    PROVE  Keeps(config, config')
<1>1. ASSUME NEW n, Settled(config, n)
      PROVE  Settled(config', n) /\ Got(config'[n].def) = Got(config[n].def) /\ config'[n].own = config[n].own
  <2>1. n \in DOMAIN config /\ config[n].applied
    BY <1>1 DEF Settled
  <2>2. n \in DOMAIN config' /\ Same(config[n], config'[n])
    BY <2>1, OnlyTopChanges
  <2> QED
    BY <2>1, <2>2 DEF Same, Settled, Got
<1> QED
  BY <1>1 DEF Keeps

\* The others are not touched.
LEMMA OthersHaveCome ==
    ASSUME OInv, OInv', MInv, ProcessObjects, NEW top, DOMAIN config' = DOMAIN config,
           \A n \in DOMAIN config : n # top => config'[n] = config[n],
           \A n : n # top => Nearer(stack, stack', n),
           NEW n \in DOMAIN config, n # top
    PROVE  HasCome(config', stack', n)
<1>1. config[n] \in Object /\ config'[n] = config[n]
  BY DEF OInv, ConfigOK
<1>2. config[n].def.use \in Seq(Name)
  BY <1>1, Attributes DEF Object
<1>3. Len(config[n].def.use) \in Nat
  BY <1>2
<1>4. AsBefore(config[n], config'[n])
  BY <1>1, <1>3 DEF AsBefore
<1>5. Keeps(config, config') /\ HasCome(config, stack, n)
  BY KeepsStep DEF MInv, MeaningsOK
<1>6. Nearer(stack, stack', n)
  OBVIOUS
<1> QED
  BY <1>1, <1>4, <1>5, <1>6, HasComeKept

LEMMA MergeTemplateMeans ==
    ASSUME OInv, OInv', MInv, MergeTemplate
    PROVE  MInv'
<1> DEFINE n == Top.name
           u == Template
           o == [config[n] EXCEPT !.def = ApplyTemplate(config[n].def, config[u].def)]
<1>1. /\ Processing /\ MoreTemplates /\ u \in DOMAIN config /\ config[u].applied
      /\ config' = [config EXCEPT ![n].def = ApplyTemplate(@, config[u].def)]
      /\ stack' = Passed(stack) /\ objects' = objects
  BY DEF MergeTemplate, TemplatePending, Passed
<1>2. /\ stack \in Seq(Frame) /\ Len(stack) \in DOMAIN stack
      /\ Top = stack[Len(stack)] /\ Top \in Frame /\ Top.at \in DOMAIN TopDef.use
      /\ n \in DOMAIN config /\ Sound(config[n]) /\ ~config[n].applied
      /\ TopDef.use \in Seq(Name) /\ config[n] \in Object /\ config \in [DOMAIN config -> Object]
  BY <1>1, TopOK
<1>3. TopDef = config[n].def /\ u = config[n].def.use[Top.at]
  BY DEF TopDef, Template
<1>4. Sound(config[u]) /\ config[u].def \in Definition
      /\ config[n].def \in Definition /\ config[n].own \in Definition
  BY <1>1, <1>2 DEF OInv, ConfigOK, Sound, Object
<1>5. config' = [config EXCEPT ![n] = o]
  BY <1>1
<1>6. /\ o.def.use = config[n].def.use /\ o.applied = config[n].applied /\ o.own = config[n].own
      /\ o.def = ApplyTemplate(config[n].def, config[u].def)
  BY <1>1, <1>2, <1>4, TakesIsSound
<1> HIDE DEF o, n, u
<1>7. /\ DOMAIN config' = DOMAIN config /\ config'[n] = o
      /\ \A x \in DOMAIN config : x # n => config'[x] = config[x]
  BY <1>2, <1>5
<1>8. PICK at \in Nat : at = Top.at
  BY <1>2 DEF Frame
<1>9. /\ DOMAIN stack' = DOMAIN stack
      /\ \A k \in DOMAIN stack : stack'[k].name = stack[k].name
      /\ \A k \in DOMAIN stack : k # Len(stack) => stack'[k] = stack[k]
      /\ stack'[Len(stack)].at = at + 1
  <2>1. \A k \in DOMAIN stack : stack[k] \in Frame
    BY <1>2
  <2> QED
    BY <1>1, <1>2, <1>8, <2>1 DEF Passed, Frame
<1>10. \A x : x # n => Nearer(stack, stack', x)
  BY <1>2, <1>9 DEF Nearer, n
<1>11. HasCome(config', stack', n)
  <2>1. PICK m \in Nat : PartlyAs(config, config[n], m) /\ Reached(stack, n, m)
    BY <1>2 DEF MInv, MeaningsOK, HasCome
  <2>2. at <= m + 1
    BY <1>2, <1>8, <2>1 DEF Reached, n
  <2> DEFINE use == config[n].def.use
             from == Gots(config, use, m)
  <2>3. /\ m \in 0 .. Len(use) /\ AreSettled(config, use, m) /\ use \in Seq(Name)
        /\ Gets(config[n].own, from, m, config[n].def)
    BY <1>2, <1>3, <2>1 DEF PartlyAs
  <2>4. \A x \in DOMAIN config : Sound(config[x])
    BY DEF OInv, ConfigOK
  <2>5. Froms(from, m)
    BY <2>3, <2>4, GotsFroms
  <2>6. at \in 1 .. Len(use) /\ u = use[at]
    BY <1>2, <1>3, <1>8
  <2>7. Keeps(config, config')
    BY <1>1, KeepsStep DEF ProcessObjects
  <2> HIDE DEF use
  <2>8. CASE at <= m
    <3>1. at \in 1 .. m /\ from[at] = Got(config[u].def)
      BY <2>6, <2>8 DEF Gots
    <3> HIDE DEF from
    <3>2. Gets(config[n].own, from, m, o.def)
      BY <1>4, <1>6, <2>3, <2>5, <3>1, GetsAgain
    <3>3. AreSettled(config', use, m) /\ Gots(config', use, m) = from
      BY <2>3, <2>7, GotsKept DEF from
    <3>4. PartlyAs(config', config'[n], m)
      BY <1>6, <1>7, <2>3, <3>2, <3>3 DEF PartlyAs, use
    <3>5. Reached(stack', n, m)
      <4>1. at + 1 <= m + 1
        BY <2>8
      <4> QED
        BY <1>9, <2>1, <4>1 DEF Reached
    <3> QED
      BY <1>2, <1>6, <1>7, <3>4, <3>5 DEF HasCome
  <2>9. CASE at = m + 1
    <3> DEFINE more == Gots(config, use, m + 1)
    <3>1. m + 1 \in Nat /\ m + 1 \in 0 .. Len(use)
      BY <2>6, <2>9
    <3>2. AreSettled(config, use, m + 1)
      <4>1. Settled(config, use[m + 1])
        BY <1>1, <2>6, <2>9 DEF Settled
      <4>2. \A j \in 1 .. m + 1 : j = m + 1 \/ j \in 1 .. m
        OBVIOUS
      <4> QED
        BY <2>3, <4>1, <4>2 DEF AreSettled
    <3>3. Froms(more, m + 1)
      BY <2>4, <3>1, <3>2, GotsFroms
    <3>4. (\A j \in 1 .. m : more[j] = from[j]) /\ more[m + 1] = Got(config[u].def)
      BY <2>6, <2>9 DEF Gots
    <3> HIDE DEF from, more
    <3>5. Gets(config[n].own, more, m + 1, o.def)
      BY <1>4, <1>6, <2>3, <2>5, <3>3, <3>4, GetsMore
    <3>6. AreSettled(config', use, m + 1) /\ Gots(config', use, m + 1) = more
      BY <2>7, <3>1, <3>2, GotsKept DEF more
    <3>7. PartlyAs(config', config'[n], m + 1)
      BY <1>6, <1>7, <3>1, <3>5, <3>6 DEF PartlyAs, use
    <3>8. Reached(stack', n, m + 1)
      <4>1. at + 1 <= (m + 1) + 1
        BY <2>9
      <4>2. \A k \in DOMAIN stack : stack[k].name = n => stack[k].at \in Nat /\ stack[k].at <= (m + 1) + 1
        <5>1. \A k \in DOMAIN stack : stack[k].at \in Nat
          <6>1. \A k \in DOMAIN stack : stack[k] \in Frame
            BY <1>2
          <6> QED
            BY <6>1 DEF Frame
        <5> QED
          BY <2>1, <5>1 DEF Reached
      <4> QED
        BY <1>9, <4>1, <4>2 DEF Reached
    <3> QED
      BY <1>2, <1>6, <1>7, <3>1, <3>7, <3>8 DEF HasCome
  <2>10. at <= m \/ at = m + 1
    BY <2>2
  <2> QED
    BY <2>8, <2>9, <2>10
<1>12. ProcessObjects
  BY DEF ProcessObjects
<1>13. \A x \in DOMAIN config : x # n => HasCome(config', stack', x)
  BY <1>7, <1>10, <1>12, OthersHaveCome
<1>14. MeaningsOK(config', stack')
  BY <1>7, <1>11, <1>13 DEF MeaningsOK
<1>15. RankOK(config')
  <2>1. Resolveds(config') = Resolveds(config)
    BY <1>6, <1>7 DEF Resolveds
  <2> QED
    BY <1>12, <2>1, KeepsStep, RankKept DEF MInv
<1>16. ASSUME NEW x \in DOMAIN config' PROVE Pending(x)'
  <2>1. Pending(x) /\ config'[x].applied = config[x].applied
    BY <1>6, <1>7, <1>16 DEF MInv, PendingOK
  <2> QED
    BY <1>1, <1>9, <2>1 DEF Pending
<1> QED
  BY <1>14, <1>15, <1>16 DEF MInv, PendingOK

LEMMA ReturnMeans ==
    ASSUME OInv, OInv', MInv, Return
    PROVE  MInv'
<1> DEFINE n == Top.name
           o == Returned(config[n])
<1>1. /\ Processing /\ ~MoreTemplates /\ Applied(TopDef).list \subseteq Check
      /\ config' = [config EXCEPT ![n] = o]
      /\ stack' = Front(stack) /\ objects' = objects
  BY DEF Return
<1>2. /\ stack \in Seq(Frame) /\ Len(stack) \in DOMAIN stack
      /\ Top = stack[Len(stack)] /\ Top \in Frame /\ Top.at = Len(TopDef.use) + 1
      /\ n \in DOMAIN config /\ Sound(config[n]) /\ ~config[n].applied
      /\ TopDef.use \in Seq(Name) /\ config[n] \in Object /\ config \in [DOMAIN config -> Object]
  BY <1>1, TopOK
<1>3. TopDef = config[n].def
  BY DEF TopDef
<1>4. /\ o.def.use = config[n].def.use /\ o.applied
      /\ o.own = WithUse(config[n].own, config[n].def.use) /\ o.def = Applied(config[n].def)
  BY <1>1, <1>2, <1>3, DefaultsAreSound
<1>5. config[n].def \in Definition /\ config[n].own \in Definition
  BY <1>2 DEF Object
<1> HIDE DEF o, n
<1>6. /\ DOMAIN config' = DOMAIN config /\ config'[n] = o
      /\ \A x \in DOMAIN config : x # n => config'[x] = config[x]
  BY <1>1, <1>2
<1>7. /\ DOMAIN stack' = 1 .. Len(stack) - 1 /\ DOMAIN stack = 1 .. Len(stack) /\ Len(stack) \in Nat
      /\ \A k \in DOMAIN stack' : k \in DOMAIN stack /\ stack'[k] = stack[k]
  <2>1. stack # <<>>
    BY <1>1 DEF Processing
  <2>2. /\ Front(stack) \in Seq(Frame) /\ Len(Front(stack)) = Len(stack) - 1
        /\ \A k \in 1 .. Len(stack) - 1 : Front(stack)[k] = stack[k]
    BY <1>2, <2>1, FrontAndLast
  <2>3. DOMAIN Front(stack) = 1 .. Len(stack) - 1 /\ Len(stack) \in Nat /\ DOMAIN stack = 1 .. Len(stack)
    BY <1>2, <2>2
  <2>4. \A k \in 1 .. Len(stack) - 1 : k \in 1 .. Len(stack)
    BY <2>3
  <2> QED
    BY <1>1, <2>2, <2>3, <2>4
<1>8. \A x : Nearer(stack, stack', x)
  BY <1>7 DEF Nearer
<1>9. ProcessObjects
  BY DEF ProcessObjects
<1>10. Keeps(config, config')
  BY <1>9, KeepsStep
<1> DEFINE use == config[n].def.use
<1>11. /\ AreSettled(config, use, Len(use)) /\ Len(use) \in Nat
       /\ Gets(config[n].own, Gots(config, use, Len(use)), Len(use), config[n].def)
  <2>1. PICK m \in Nat : PartlyAs(config, config[n], m) /\ Reached(stack, n, m)
    BY <1>2 DEF MInv, MeaningsOK, HasCome
  <2>2. Len(use) + 1 <= m + 1 /\ Len(use) \in Nat
    <3>1. Top.at <= m + 1
      BY <1>2, <2>1 DEF Reached, n
    <3> QED
      BY <1>2, <1>3, <3>1
  <2>3. m \in 0 .. Len(use)
    BY <2>1 DEF PartlyAs
  <2>4. m = Len(use)
    BY <2>2, <2>3
  <2> QED
    BY <2>1, <2>2, <2>4 DEF PartlyAs
<1>12. HasCome(config', stack', n)
  <2> DEFINE from == Gots(config, use, Len(use))
  <2>1. \A x \in DOMAIN config : Sound(config[x])
    BY DEF OInv, ConfigOK
  <2>2. Froms(from, Len(use))
    BY <1>11, <2>1, GotsFroms
  <2>3. Got(Applied(config[n].def)) = Expected(WithUse(config[n].own, use), from)
    <3> HIDE DEF from, use
    <3> QED
      BY <1>5, <1>11, <2>2, GetsAll DEF from
  <2>4. AreSettled(config', use, Len(use)) /\ Gots(config', use, Len(use)) = from
    BY <1>10, <1>11, GotsKept
  <2>5. o.own.use = use
    BY <1>2, <1>3, <1>4, <1>5, WithUseOK
  <2>6. ResolvedAs(config', o)
    BY <1>4, <2>3, <2>4, <2>5 DEF ResolvedAs
  <2> QED
    BY <1>4, <1>6, <2>6 DEF HasCome
<1>13. \A x \in DOMAIN config : x # n => HasCome(config', stack', x)
  BY <1>6, <1>8, <1>9, OthersHaveCome
<1>14. MeaningsOK(config', stack')
  BY <1>6, <1>12, <1>13 DEF MeaningsOK
<1>15. RankOK(config')
  <2>1. Resolveds(config') = Resolveds(config) \cup {n} /\ n \notin Resolveds(config)
    BY <1>2, <1>4, <1>6 DEF Resolveds
  <2>2. IsFiniteSet(Resolveds(config))
    <3>1. Resolveds(config) \subseteq Name
      BY DEF Resolveds, OInv, ConfigOK
    <3> QED
      BY <3>1, FS_Subset, ObjectsAssumption
  <2>3. \A m \in Resolveds(config) : AreSettled(config, config[m].own.use, Len(config[m].own.use))
    BY DEF Resolveds, MInv, MeaningsOK, HasCome, ResolvedAs
  <2>4. AreSettled(config, config'[n].own.use, Len(config'[n].own.use))
    <3>1. config'[n].own.use = use
      BY <1>2, <1>3, <1>4, <1>5, <1>6, WithUseOK
    <3> QED
      BY <1>11, <3>1
  <2> QED
    BY <1>10, <2>1, <2>2, <2>3, <2>4, RankGrows DEF MInv
<1>16. ASSUME NEW x \in DOMAIN config' PROVE Pending(x)'
  <2>1. CASE x = n
    BY <1>4, <1>6, <2>1 DEF Pending
  <2>2. CASE x # n
    <3>1. Pending(x) /\ config'[x] = config[x]
      BY <1>6, <2>2 DEF MInv, PendingOK
    <3>2. ASSUME NEW k \in DOMAIN stack, stack[k].name = x
          PROVE  k \in DOMAIN stack' /\ stack'[k].name = x
      <4>1. k # Len(stack)
        BY <1>2, <2>2, <3>2 DEF n
      <4>2. k \in 1 .. Len(stack) - 1
        BY <1>7, <4>1
      <4> QED
        BY <1>7, <3>2, <4>2
    <3> QED
      BY <1>1, <3>1, <3>2 DEF Pending
  <2> QED
    BY <2>1, <2>2
<1> QED
  BY <1>14, <1>15, <1>16 DEF MInv, PendingOK

\* The steps that change neither objects nor calls.
LEMMA OtherMeans ==
    ASSUME OInv, MInv, config' = config, objects' = objects, stack' = stack
    PROVE  MInv'
<1>1. \A n : Nearer(stack, stack', n)
  BY DEF Nearer
<1>2. PendingOK'
  BY DEF MInv, PendingOK, Pending
<1> QED
  BY <1>1, <1>2, SteadyMeans

LEMMA InitMeans == Init => MInv
<1> SUFFICES ASSUME Init PROVE MInv
  OBVIOUS
<1>1. DOMAIN config = {}
  BY DEF Init, InitObjects
<1>2. MeaningsOK(config, stack) /\ PendingOK
  BY <1>1 DEF MeaningsOK, PendingOK
<1>3. Resolveds(config) = {}
  BY <1>1 DEF Resolveds
<1>4. IsRank(config, [n \in {} |-> 0])
  BY <1>3 DEF IsRank
<1> QED
  BY <1>2, <1>4 DEF MInv, RankOK

LEMMA NextMeans == IInv /\ IInv' /\ MInv /\ [Next]_vars => MInv'
<1> SUFFICES ASSUME IInv, IInv', MInv, [Next]_vars PROVE MInv'
  OBVIOUS
<1>1. OInv /\ OInv'
  BY DEF IInv
<1>2. CASE ProcessObjects
  <2>1. CASE LoadSingleObject
    BY <1>1, <2>1, LoadMeans
  <2>2. CASE AllLoaded \/ Raise
    <3>1. config' = config /\ objects' = objects /\ stack' = stack
      BY <2>2 DEF AllLoaded, Raise
    <3> QED
      BY <1>1, <3>1, OtherMeans
  <2>3. CASE PostProcess
    BY <1>1, <2>3, PostProcessMeans
  <2>4. CASE ResolveTemplate
    BY <1>1, <2>4, ResolveTemplateMeans
  <2>5. CASE MergeTemplate
    BY <1>1, <2>5, MergeTemplateMeans
  <2>6. CASE Return
    BY <1>1, <2>6, ReturnMeans
  <2> QED
    BY <1>2, <2>1, <2>2, <2>3, <2>4, <2>5, <2>6 DEF ProcessObjects
<1>3. CASE ~ProcessObjects
  <2>1. config' = config /\ objects' = objects /\ stack' = stack
    <3>1. CASE UNCHANGED vars
      BY <3>1 DEF vars, ovars
    <3> QED
      BY <1>3, <3>1 DEF Next, Loop, AllProcessed, DiscoverObjects, AllDiscovered, NotRun, Search,
                  SearchFails, DirectoryChanges, Elapse, ovars
  <2> QED
    BY <1>1, <2>1, OtherMeans
<1> QED
  BY <1>2, <1>3

\* The function Meaning is, up to depth k, of the section c; g is the level
\* below.
Level(c, i, g) ==
    [n \in Name |->
        IF i = 0 \/ n \notin DOMAIN c THEN Nothing
        ELSE Expected(c[n].own, [j \in DOMAIN c[n].own.use |-> g[c[n].own.use[j]]])]
Means(c, k, f) == f = [i \in 0 .. k |-> Level(c, i, f[i - 1])]

LEMMA MeaningsExist ==
    ASSUME NEW c, NEW k \in Nat
    PROVE  \E f : Means(c, k, f)
<1> DEFINE T == {i \in Nat : \E f : Means(c, i, f)}
<1>1. 0 \in T
  <2> DEFINE g == [l \in 0 .. 0 |-> [n \in Name |-> Nothing]]
  <2>1. \A x : Level(c, 0, x) = [n \in Name |-> Nothing]
    BY DEF Level
  <2>2. g = [l \in 0 .. 0 |-> Level(c, l, g[l - 1])]
    BY <2>1
  <2> HIDE DEF g
  <2>3. Means(c, 0, g)
    BY <2>2 DEF Means
  <2> QED
    BY <2>3
<1>2. ASSUME NEW i \in T PROVE i + 1 \in T
  <2>1. PICK g : Means(c, i, g)
    OBVIOUS
  <2>2. i \in Nat /\ g = [l \in 0 .. i |-> Level(c, l, g[l - 1])]
    BY <2>1 DEF Means
  <2> DEFINE h == [l \in 0 .. i + 1 |-> IF l = i + 1 THEN Level(c, i + 1, g[i]) ELSE g[l]]
  <2>3. ASSUME NEW l \in 0 .. i + 1 PROVE h[l] = Level(c, l, h[l - 1])
    <3>1. CASE l = i + 1
      <4>1. l - 1 = i /\ l - 1 \in 0 .. i + 1 /\ i # i + 1
        BY <2>2, <3>1
      <4>2. h[l - 1] = g[i]
        BY <4>1
      <4> QED
        BY <3>1, <4>1, <4>2
    <3>2. CASE l # i + 1 /\ l # 0
      <4>1. l \in 0 .. i /\ l - 1 \in 0 .. i + 1 /\ l - 1 # i + 1
        BY <2>2, <3>2
      <4>2. h[l] = g[l] /\ h[l - 1] = g[l - 1]
        BY <3>2, <4>1
      <4>3. g[l] = Level(c, l, g[l - 1])
        BY <2>2, <4>1
      <4> QED
        BY <4>2, <4>3
    <3>3. CASE l # i + 1 /\ l = 0
      <4>1. h[0] = g[0] /\ 0 \in 0 .. i
        BY <2>2, <3>3
      <4>2. g[0] = Level(c, 0, g[0 - 1])
        BY <2>2, <4>1
      <4>3. \A x, y : Level(c, 0, x) = Level(c, 0, y)
        BY DEF Level
      <4> QED
        BY <3>3, <4>1, <4>2, <4>3
    <3> QED
      BY <3>1, <3>2, <3>3
  <2>4. h = [l \in 0 .. i + 1 |-> h[l]]
    OBVIOUS
  <2> HIDE DEF h
  <2>5. h = [l \in 0 .. i + 1 |-> Level(c, l, h[l - 1])]
    BY <2>3, <2>4
  <2>6. Means(c, i + 1, h)
    BY <2>5 DEF Means
  <2> QED
    BY <2>2, <2>6
<1> HIDE DEF T
<1>3. T = Nat
  BY <1>1, <1>2, Induction DEF T
<1> QED
  BY <1>3 DEF T

LEMMA MeaningIs == Means(config, Cardinality(Name), Meaning)
<1> DEFINE F(f) == [k \in 0 .. Cardinality(Name) |-> [n \in Name |->
                IF k = 0 \/ n \notin DOMAIN config THEN Nothing
                ELSE Expected(config[n].own,
                        [j \in DOMAIN config[n].own.use |-> f[k - 1][config[n].own.use[j]]])]]
<1>1. Cardinality(Name) \in Nat
  BY FS_CardinalityType, ObjectsAssumption
<1>2. PICK f : Means(config, Cardinality(Name), f)
  BY <1>1, MeaningsExist
<1>3. f = F(f)
  BY <1>2 DEF Means, Level
<1>4. Meaning = CHOOSE g : g = F(g)
  BY DEF Meaning, Own, Depth
<1> HIDE DEF F
<1>5. Meaning = F(Meaning)
  BY <1>3, <1>4
<1> QED
  BY <1>5 DEF Means, Level, F

\* An object is what its definition means at the depth of its rank.
LEMMA ResolvedMeans ==
    ASSUME OInv, MInv, NEW K \in Nat, NEW f, Means(config, K, f),
           NEW rank, IsRank(config, rank), Cardinality(Resolveds(config)) <= K
    PROVE  \A n \in Resolveds(config) : f[K][n] = Got(config[n].def)
<1> DEFINE R == Resolveds(config)
           T == {k \in Nat : k <= K =>
                    \A n \in R : rank[n] <= k => f[k][n] = Got(config[n].def)}
<1>1. IsFiniteSet(R) /\ R \subseteq Name /\ R \subseteq DOMAIN config
  <2>1. R \subseteq Name /\ R \subseteq DOMAIN config
    BY DEF Resolveds, OInv, ConfigOK
  <2> QED
    BY <2>1, FS_Subset, ObjectsAssumption
<1>2. Cardinality(R) \in Nat /\ rank \in [R -> 1 .. Cardinality(R)]
  BY <1>1, FS_CardinalityType DEF IsRank
<1>3. \A n \in R : rank[n] \in Nat /\ rank[n] # 0 /\ rank[n] <= K
  BY <1>2
<1>4. 0 \in T
  BY <1>3
<1>5. ASSUME NEW k \in T PROVE k + 1 \in T
  <2>1. k \in Nat
    OBVIOUS
  <2>2. ASSUME k + 1 <= K, NEW n \in R, rank[n] <= k + 1
        PROVE  f[k + 1][n] = Got(config[n].def)
    <3> DEFINE own == config[n].own
    <3>1. own.use \in Seq(Name)
      <4>1. config[n] \in Object
        BY <1>1 DEF OInv, ConfigOK
      <4> QED
        BY <4>1, Attributes DEF Object
    <3>2. DOMAIN own.use = 1 .. Len(own.use) /\ Len(own.use) \in Nat
      BY <3>1
    <3>3. /\ AreSettled(config, own.use, Len(own.use))
          /\ Got(config[n].def) = Expected(own, Gots(config, own.use, Len(own.use)))
      BY DEF MInv, MeaningsOK, HasCome, ResolvedAs, Resolveds
    <3>4. ASSUME NEW j \in 1 .. Len(own.use)
          PROVE  f[k][own.use[j]] = Got(config[own.use[j]].def)
      <4>1. own.use[j] \in R
        BY <3>3 DEF AreSettled, Settled, Resolveds
      <4>2. rank[own.use[j]] < rank[n]
        BY DEF IsRank
      <4>3. rank[own.use[j]] <= k /\ k <= K
        BY <1>3, <2>1, <2>2, <4>1, <4>2
      <4> QED
        BY <4>1, <4>3
    <3>5. k + 1 \in 0 .. K /\ k + 1 # 0 /\ (k + 1) - 1 = k /\ n \in Name /\ n \in DOMAIN config
      BY <1>1, <2>1, <2>2
    <3>6. f[k + 1][n] = Expected(own, [j \in DOMAIN own.use |-> f[k][own.use[j]]])
      <4>1. f[k + 1] = Level(config, k + 1, f[k])
        BY <3>5 DEF Means
      <4> QED
        BY <3>5, <4>1 DEF Level
    <3>7. [j \in DOMAIN own.use |-> f[k][own.use[j]]] = Gots(config, own.use, Len(own.use))
      BY <3>2, <3>4 DEF Gots
    <3> QED
      BY <3>3, <3>6, <3>7
  <2> QED
    BY <2>1, <2>2
<1> HIDE DEF T, R
<1>6. T = Nat
  BY <1>4, <1>5, Induction DEF T
<1>7. K \in T
  BY <1>6
<1> QED
  BY <1>3, <1>7 DEF T, R

\* When process_objects is done every object has what its definition and its
\* templates say, whatever the files, the discoveries and the directory have,
\* and in whatever order.
THEOREM ObjectsAreResolved == Spec => []AllResolved
<1>1. Init => MInv
  BY InitMeans
<1>2. IInv /\ IInv' /\ MInv /\ [Next]_vars => MInv'
  BY NextMeans
<1>3. IInv /\ MInv => AllResolved
  <2> SUFFICES ASSUME IInv, MInv, phase = "idle" PROVE
          \E meaning \in {Meaning[Cardinality(Name)]} : \A n \in DOMAIN config :
              config[n].applied /\ Got(config[n].def) = meaning[n]
    BY DEF AllResolved
  <2>1. OInv
    BY DEF IInv
  <2>2. stack = <<>> /\ objects = <<>>
    BY <2>1 DEF OInv, PhaseOK
  <2>3. \A n \in DOMAIN config : config[n].applied
    BY <2>2 DEF MInv, PendingOK, Pending, ToSet
  <2>4. PICK rank : IsRank(config, rank)
    BY DEF MInv, RankOK
  <2>5. /\ Cardinality(Name) \in Nat
        /\ Cardinality(Resolveds(config)) <= Cardinality(Name)
    <3>1. Resolveds(config) \subseteq Name
      BY <2>1 DEF Resolveds, OInv, ConfigOK
    <3> QED
      BY <3>1, FS_Subset, FS_CardinalityType, ObjectsAssumption
  <2>6. \A n \in Resolveds(config) : Meaning[Cardinality(Name)][n] = Got(config[n].def)
    BY <2>1, <2>4, <2>5, MeaningIs, ResolvedMeans
  <2>7. \A n \in DOMAIN config :
            config[n].applied /\ Got(config[n].def) = Meaning[Cardinality(Name)][n]
    BY <2>3, <2>6 DEF Resolveds
  <2> QED
    BY <2>7
<1> QED
  BY <1>1, <1>2, <1>3, Invariant, PTL DEF Spec

-----------------------------------------------------------------------------
(* Finding an object again                                                   *)

\* o, which has been loaded as d, has the templates of d, if they are a list,
\* and the tags of d, except those a template in the section c has too.
HasAll(c, o, d) ==
    /\ ~d.string => ToSet(d.use) \subseteq ToSet(o.use)
    /\ \A key \in DOMAIN d.tags :
        /\ key \in DOMAIN o.tags
        /\ \/ o.tags[key] = d.tags[key]
           \/ \E u \in ToSet(o.use) \cap DOMAIN c : key \in DOMAIN c[u].def.tags
LoadedOK == \A n \in DOMAIN config : HasAll(config, config[n].def, last[n])

\* o has the templates and the tags of p at least.
Extends(o, p) == ToSet(p.use) \subseteq ToSet(o.use) /\ DOMAIN p.tags \subseteq DOMAIN o.tags

LEMMA UpdatedIs ==
    ASSUME NEW t \in Tags, NEW u \in Tags
    PROVE  /\ DOMAIN Updated(t, u) = DOMAIN t \cup DOMAIN u
           /\ \A k \in DOMAIN u : Updated(t, u)[k] = u[k]
           /\ \A k \in DOMAIN t \ DOMAIN u : Updated(t, u)[k] = t[k]
           /\ t = [k \in DOMAIN t |-> t[k]]
BY DEF Updated, Tags

LEMMA HasAllKept ==
    ASSUME NEW c, NEW e, NEW o, NEW p, NEW d, HasAll(c, o, d),
           p.use = o.use \/ ToSet(o.use) \subseteq ToSet(p.use), p.tags = o.tags,
           \A u \in DOMAIN c : u \in DOMAIN e /\ DOMAIN c[u].def.tags \subseteq DOMAIN e[u].def.tags
    PROVE  HasAll(e, p, d)
<1>1. ToSet(o.use) \subseteq ToSet(p.use)
  OBVIOUS
<1>2. ASSUME NEW key \in DOMAIN d.tags
      PROVE  /\ key \in DOMAIN p.tags
             /\ \/ p.tags[key] = d.tags[key]
                \/ \E u \in ToSet(p.use) \cap DOMAIN e : key \in DOMAIN e[u].def.tags
  BY <1>1 DEF HasAll
<1> QED
  BY <1>1, <1>2 DEF HasAll

\* The merged definition has the templates and the tags of the new one; if the
\* object had them already it stays as it was.
LEMMA MergedHas ==
    ASSUME NEW o \in Definition, NEW d \in Definition, NEW c
    PROVE  /\ HasAll(c, Merged(o, d), d)
           /\ ToSet(o.use) \subseteq ToSet(Merged(o, d).use)
           /\ DOMAIN o.tags \subseteq DOMAIN Merged(o, d).tags
           /\ ~d.string /\ ToSet(d.use) \subseteq ToSet(o.use)
                /\ (\A key \in DOMAIN d.tags : key \in DOMAIN o.tags /\ o.tags[key] = d.tags[key])
              => Merged(o, d) = o
<1> DEFINE use  == MergedUse(o, d)
           tags == Updated(o.tags, d.tags)
<1>1. o.tags \in Tags /\ d.tags \in Tags
  BY Attributes
<1>2. /\ DOMAIN tags = DOMAIN o.tags \cup DOMAIN d.tags
      /\ \A k \in DOMAIN d.tags : tags[k] = d.tags[k]
      /\ \A k \in DOMAIN o.tags \ DOMAIN d.tags : tags[k] = o.tags[k]
      /\ o.tags = [k \in DOMAIN o.tags |-> o.tags[k]]
      /\ tags = [k \in DOMAIN tags |-> tags[k]]
  <2>1. tags \in Tags
    BY <1>1, UpdatedTags
  <2> QED
    BY <1>1, <2>1, UpdatedIs
<1>3. /\ \E more \in Seq(Name) : use = o.use \o more
      /\ ~d.string => ToSet(use) = ToSet(o.use) \cup ToSet(d.use)
      /\ ~d.string /\ ToSet(d.use) \subseteq ToSet(o.use) => use = o.use
  <2>1. o.use \in Seq(Name) /\ Iterated(d) \in Seq(Name)
    BY IteratedOK, Attributes
  <2> QED
    BY <2>1, MergedUseHas, PickedOK DEF MergedUse
<1>8. ToSet(o.use) \subseteq ToSet(use)
  <2>1. PICK more \in Seq(Name) : use = o.use \o more
    BY <1>3
  <2>2. o.use \in Seq(Name)
    BY Attributes
  <2> QED
    BY <2>1, <2>2, Joined
<1>4. Merged(o, d) = [o EXCEPT !.tags = tags, !.use = use]
  BY DEF Merged, MergedTags
<1> HIDE DEF use, tags
<1>5. Merged(o, d).use = use /\ Merged(o, d).tags = tags
  BY <1>4 DEF Definition
<1>6. HasAll(c, Merged(o, d), d)
  BY <1>2, <1>3, <1>5 DEF HasAll
<1>7. ASSUME ~d.string, ToSet(d.use) \subseteq ToSet(o.use),
             \A key \in DOMAIN d.tags : key \in DOMAIN o.tags /\ o.tags[key] = d.tags[key]
      PROVE  Merged(o, d) = o
  <2>1. use = o.use
    BY <1>3, <1>7
  <2>2. DOMAIN tags = DOMAIN o.tags /\ \A k \in DOMAIN tags : tags[k] = o.tags[k]
    BY <1>2, <1>7
  <2>3. tags = o.tags
    BY <1>2, <2>2
  <2> QED
    BY <1>4, <2>1, <2>3 DEF Definition
<1> QED
  BY <1>2, <1>5, <1>6, <1>7, <1>8

\* What taking from a template does to the tags.
LEMMA TakesTags ==
    ASSUME NEW o \in Definition, NEW t \in Definition
    PROVE  ApplyTemplate(o, t).tags = Updated(o.tags, t.tags)
BY DEF ApplyTemplate, Definition

LEMMA LoadedKept ==
    ASSUME OInv, LoadedOK, last' = last, DOMAIN config' = DOMAIN config,
           NEW top \in DOMAIN config, \A n \in DOMAIN config : n # top => config'[n] = config[n],
           config'[top].def.use = config[top].def.use,
           \/ config'[top].def.tags = config[top].def.tags
           \/ \E u \in ToSet(config[top].def.use) \cap DOMAIN config :
                /\ config[u].def.tags \in Tags /\ config[top].def.tags \in Tags
                /\ u # top
                /\ config'[top].def.tags = Updated(config[top].def.tags, config[u].def.tags)
    PROVE  LoadedOK'
<1>1. \A u \in DOMAIN config : DOMAIN config[u].def.tags \subseteq DOMAIN config'[u].def.tags
  <2>1. DOMAIN config[top].def.tags \subseteq DOMAIN config'[top].def.tags
    <3>1. \A t \in Tags, v \in Tags : DOMAIN t \subseteq DOMAIN Updated(t, v)
      BY DEF Updated
    <3> QED
      BY <3>1
  <2> QED
    BY <2>1
<1>2. ASSUME NEW n \in DOMAIN config, n # top
      PROVE  HasAll(config', config'[n].def, last[n])
  <2>1. HasAll(config, config[n].def, last[n]) /\ config'[n] = config[n]
    BY <1>2 DEF LoadedOK
  <2> QED
    BY <1>1, <2>1, HasAllKept
<1>3. HasAll(config', config'[top].def, last[top])
  <2>0. HasAll(config, config[top].def, last[top])
    BY DEF LoadedOK
  <2>1. CASE config'[top].def.tags = config[top].def.tags
    BY <1>1, <2>0, <2>1, HasAllKept
  <2>2. CASE config'[top].def.tags # config[top].def.tags
    <3>1. PICK u \in ToSet(config[top].def.use) \cap DOMAIN config :
            /\ config[u].def.tags \in Tags /\ config[top].def.tags \in Tags /\ u # top
            /\ config'[top].def.tags = Updated(config[top].def.tags, config[u].def.tags)
      BY <2>2
    <3> DEFINE o == config[top].def
               p == config'[top].def
               t == config[u].def
    <3>2. /\ DOMAIN p.tags = DOMAIN o.tags \cup DOMAIN t.tags
          /\ \A k \in DOMAIN o.tags \ DOMAIN t.tags : p.tags[k] = o.tags[k]
      <4>1. o.tags \in Tags /\ t.tags \in Tags /\ p.tags = Updated(o.tags, t.tags)
        BY <3>1
      <4> HIDE DEF o, p, t
      <4>2. /\ DOMAIN Updated(o.tags, t.tags) = DOMAIN o.tags \cup DOMAIN t.tags
            /\ \A k \in DOMAIN o.tags \ DOMAIN t.tags : Updated(o.tags, t.tags)[k] = o.tags[k]
        BY <4>1, UpdatedIs
      <4> QED
        BY <4>1, <4>2
    <3> HIDE DEF o, p, t
    <3>3. HasAll(config, o, last[top]) /\ p.use = o.use /\ u \in ToSet(p.use) \cap DOMAIN config'
          /\ config'[u].def.tags = t.tags
      BY <2>0, <3>1 DEF o, p, t
    <3>4. ASSUME NEW key \in DOMAIN last[top].tags
          PROVE  /\ key \in DOMAIN p.tags
                 /\ \/ p.tags[key] = last[top].tags[key]
                    \/ \E v \in ToSet(p.use) \cap DOMAIN config' : key \in DOMAIN config'[v].def.tags
      <4>1. CASE key \in DOMAIN t.tags
        BY <3>2, <3>3, <4>1
      <4>2. CASE key \notin DOMAIN t.tags
        <5>1. /\ key \in DOMAIN o.tags
              /\ \/ o.tags[key] = last[top].tags[key]
                 \/ \E v \in ToSet(o.use) \cap DOMAIN config : key \in DOMAIN config[v].def.tags
          BY <3>3 DEF HasAll
        <5>2. p.tags[key] = o.tags[key] /\ key \in DOMAIN p.tags
          BY <3>2, <4>2, <5>1
        <5> QED
          BY <1>1, <3>3, <5>1, <5>2
      <4> QED
        BY <4>1, <4>2
    <3>5. HasAll(config', p, last[top])
      BY <3>3, <3>4 DEF HasAll
    <3> QED
      BY <3>5 DEF p
  <2> QED
    BY <2>1, <2>2
<1> QED
  BY <1>2, <1>3 DEF LoadedOK

\* A definition is loaded.  If it is the one loaded last, and the object is
\* returned all the same, a template has overwritten a tag.
LEMMA LoadIsQuiet ==
    ASSUME OInv, LoadedOK, LoadSingleObject
    PROVE  /\ LoadedOK'
           /\ \A n \in returned' \ returned :
                n \in DOMAIN config /\ Head(defs) = last[n] /\ ~Head(defs).string
                    => Overrides(n, Head(defs))
<1> DEFINE d == Head(defs)
           n == d.name
           merged == Merged(config[n].def, d)
<1>1. /\ defs # <<>> /\ last' = Stored(last, n, d)
      /\ IF n \notin DOMAIN config
         THEN /\ config' = Stored(config, n, [def |-> d, own |-> d, applied |-> FALSE])
              /\ returned' = returned \cup {n}
         ELSE /\ config' = [config EXCEPT ![n].def = merged]
              /\ \/ merged # config[n].def /\ returned' = returned \cup {n}
                 \/ returned' = returned
  BY DEF LoadSingleObject
<1>2. /\ d \in Definition /\ config \in [DOMAIN config -> Object]
      /\ last \in [DOMAIN config -> Definition]
  BY <1>1 DEF OInv, QueuesOK, ConfigOK
<1> HIDE DEF d
<1>3. last'[n] = d /\ \A m \in DOMAIN config : m # n => last'[m] = last[m]
  <2>1. \A m \in DOMAIN config : m # n => m \in DOMAIN config \ {n}
    OBVIOUS
  <2> HIDE DEF n
  <2>2. Stored(last, n, d)[n] = d /\ \A m \in DOMAIN config \ {n} : Stored(last, n, d)[m] = last[m]
    BY <1>2 DEF Stored
  <2> QED
    BY <1>1, <2>1, <2>2
<1>4. CASE n \notin DOMAIN config
  <2>1. /\ DOMAIN config' = DOMAIN config \cup {n} /\ config'[n].def = d
        /\ \A m \in DOMAIN config : config'[m] = config[m]
    BY <1>1, <1>2, <1>4 DEF Stored
  <2>2. HasAll(config', d, d)
    BY <1>2, Attributes DEF HasAll
  <2>3. ASSUME NEW m \in DOMAIN config PROVE HasAll(config', config'[m].def, last'[m])
    <3>1. HasAll(config, config[m].def, last[m]) /\ config'[m] = config[m] /\ last'[m] = last[m]
      BY <1>3, <1>4, <2>1 DEF LoadedOK
    <3> QED
      BY <2>1, <3>1, HasAllKept
  <2>4. LoadedOK'
    BY <1>3, <2>1, <2>2, <2>3 DEF LoadedOK
  <2> QED
    BY <1>1, <1>4, <2>4
<1>5. CASE n \in DOMAIN config
  <2> DEFINE o == config[n].def
  <2>1. o \in Definition /\ config[n] \in Object
    BY <1>2, <1>5 DEF Object
  <2>2. /\ \A c : HasAll(c, merged, d)
        /\ ToSet(o.use) \subseteq ToSet(merged.use) /\ DOMAIN o.tags \subseteq DOMAIN merged.tags
        /\ ~d.string /\ ToSet(d.use) \subseteq ToSet(o.use)
             /\ (\A key \in DOMAIN d.tags : key \in DOMAIN o.tags /\ o.tags[key] = d.tags[key])
           => merged = o
    BY <1>2, <2>1, MergedHas
  <2> HIDE DEF merged, o
  <2>3. config' = [config EXCEPT ![n].def = merged]
    BY <1>1, <1>5
  <2>4. config'[n] = [config[n] EXCEPT !.def = merged]
    BY <1>2, <1>5, <2>3
  <2>5. /\ DOMAIN config' = DOMAIN config /\ config'[n].def = merged
        /\ \A m \in DOMAIN config : m # n => config'[m] = config[m]
    BY <1>2, <1>5, <2>1, <2>3, <2>4 DEF Object
  <2>6. \A u \in DOMAIN config : u \in DOMAIN config' /\ DOMAIN config[u].def.tags \subseteq DOMAIN config'[u].def.tags
    BY <2>2, <2>5 DEF o
  <2>7. ASSUME NEW m \in DOMAIN config, m # n PROVE HasAll(config', config'[m].def, last'[m])
    <3>1. HasAll(config, config[m].def, last[m]) /\ config'[m] = config[m] /\ last'[m] = last[m]
      BY <1>3, <2>5, <2>7 DEF LoadedOK
    <3> QED
      BY <2>6, <3>1, HasAllKept
  <2>8. LoadedOK'
    BY <1>3, <2>2, <2>5, <2>7 DEF LoadedOK
  <2>9. ASSUME NEW m \in returned' \ returned, m \in DOMAIN config, d = last[m], ~d.string
        PROVE  Overrides(m, d)
    <3>1. m = n /\ merged # o
      BY <1>1, <1>5, <2>9 DEF o
    <3>2. HasAll(config, o, d)
      BY <2>9, <3>1 DEF LoadedOK, o
    <3>3. PICK key \in DOMAIN d.tags : ~(key \in DOMAIN o.tags /\ o.tags[key] = d.tags[key])
      BY <2>2, <2>9, <3>1, <3>2 DEF HasAll
    <3>4. o.tags[key] # d.tags[key]
          /\ \E u \in ToSet(o.use) \cap DOMAIN config : key \in DOMAIN config[u].def.tags
      BY <3>2, <3>3 DEF HasAll
    <3> QED
      BY <3>1, <3>4 DEF Overrides, Use, o
  <2> QED
    BY <2>8, <2>9 DEF d
<1> QED
  BY <1>4, <1>5

LEMMA LoadedStays ==
    ASSUME IInv, LoadedOK, [Next]_vars
    PROVE  LoadedOK'
<1>0. OInv /\ config \in [DOMAIN config -> Object]
  BY DEF IInv, OInv, ConfigOK
<1>1. CASE LoadSingleObject
  BY <1>0, <1>1, LoadIsQuiet
<1>2. CASE MergeTemplate
  <2> DEFINE n == Top.name
             u == Template
             e == ApplyTemplate(config[n].def, config[u].def)
  <2>1. /\ Processing /\ MoreTemplates /\ u \in DOMAIN config /\ config[u].applied
        /\ config' = [config EXCEPT ![n].def = e] /\ last' = last
    BY <1>2 DEF MergeTemplate, TemplatePending
  <2>2. /\ n \in DOMAIN config /\ ~config[n].applied /\ config[n] \in Object
        /\ Top.at \in DOMAIN config[n].def.use /\ u = config[n].def.use[Top.at]
    BY <1>0, <2>1, TopOK DEF TopDef, Template
  <2>3. config[n].def \in Definition /\ config[u].def \in Definition
    BY <1>0, <2>1, <2>2 DEF Object
  <2>4. e.use = config[n].def.use /\ e.tags = Updated(config[n].def.tags, config[u].def.tags)
    BY <2>3, TakesOK, TakesTags
  <2>5. u \in ToSet(config[n].def.use) /\ u # n
    BY <2>1, <2>2 DEF ToSet
  <2>6. config[n].def.tags \in Tags /\ config[u].def.tags \in Tags
    BY <2>3, Attributes
  <2> HIDE DEF e, n, u
  <2>7. config'[n] = [config[n] EXCEPT !.def = e]
    BY <1>0, <2>1, <2>2
  <2>8. /\ DOMAIN config' = DOMAIN config /\ config'[n].def = e
        /\ \A m \in DOMAIN config : m # n => config'[m] = config[m]
    BY <1>0, <2>1, <2>2, <2>7 DEF Object
  <2> QED
    BY <1>0, <2>1, <2>2, <2>4, <2>5, <2>6, <2>8, LoadedKept
<1>3. CASE Return
  <2> DEFINE n == Top.name
             p == Returned(config[n])
  <2>1. Processing /\ config' = [config EXCEPT ![n] = p] /\ last' = last
    BY <1>3 DEF Return
  <2>2. n \in DOMAIN config /\ config[n] \in Object
    BY <1>0, <2>1, TopOK
  <2>3. config[n].def \in Definition
    BY <2>2 DEF Object
  <2>4. p.def = Applied(config[n].def)
    BY <2>2, ReturnedIs
  <2>5. p.def.use = config[n].def.use /\ p.def.tags = config[n].def.tags
    BY <2>3, <2>4 DEF Applied, Definition
  <2> HIDE DEF p, n
  <2>6. /\ DOMAIN config' = DOMAIN config /\ config'[n] = p
        /\ \A m \in DOMAIN config : m # n => config'[m] = config[m]
    BY <1>0, <2>1, <2>2
  <2> QED
    BY <1>0, <2>1, <2>2, <2>5, <2>6, LoadedKept
<1>4. CASE config' = config /\ last' = last
  BY <1>4 DEF LoadedOK
<1>5. \/ LoadSingleObject \/ MergeTemplate \/ Return
      \/ config' = config /\ last' = last
  <2>1. CASE ProcessObjects
    BY <2>1 DEF ProcessObjects, AllLoaded, PostProcess, ResolveTemplate, Raise
  <2>2. CASE ~ProcessObjects
    <3>1. CASE UNCHANGED vars
      BY <3>1 DEF vars, ovars
    <3> QED
      BY <2>2, <3>1 DEF Next, Loop, AllProcessed, DiscoverObjects, AllDiscovered, NotRun, Search,
                  SearchFails, DirectoryChanges, Elapse, ovars
  <2> QED
    BY <2>1, <2>2
<1> QED
  BY <1>1, <1>2, <1>3, <1>4, <1>5

\* Only loading returns an object.
LEMMA OnlyLoadingReturns ==
    ASSUME [Next]_vars, ~LoadSingleObject
    PROVE  returned' \subseteq returned
<1>1. CASE UNCHANGED vars
  BY <1>1 DEF vars, ovars
<1>2. CASE ProcessObjects
  BY <1>2 DEF ProcessObjects, AllLoaded, PostProcess, ResolveTemplate, MergeTemplate, Return, Raise
<1> QED
  BY <1>1, <1>2 DEF Next, Loop, AllProcessed, DiscoverObjects, AllDiscovered, NotRun, Search,
              SearchFails, DirectoryChanges, Elapse, ovars

\* A definition with a string is one of the files; until these are loaded,
\* whatever is loaded is returned.
FilesOK ==
    \A j \in DOMAIN defs : defs[j].string => phase = "load" /\ DOMAIN config \subseteq returned

LEMMA FilesStay ==
    ASSUME IInv, FilesOK, [Next]_vars
    PROVE  FilesOK'
<1>0. /\ defs \in Seq(Definition) /\ config \in [DOMAIN config -> Object]
      /\ phase \notin {"load", "discover"} => defs = <<>>
  BY DEF IInv, OInv, ConfigOK, QueuesOK, PhaseOK
<1>1. CASE LoadSingleObject
  <2> DEFINE d == Head(defs)
             m == d.name
  <2>1. /\ phase' = phase /\ defs # <<>> /\ defs' = Tail(defs)
        /\ IF m \notin DOMAIN config
           THEN /\ config' = Stored(config, m, [def |-> d, own |-> d, applied |-> FALSE])
                /\ returned' = returned \cup {m}
           ELSE /\ config' = [config EXCEPT ![m].def = Merged(config[m].def, d)]
                /\ returned' = returned \cup {m} \/ returned' = returned
    BY <1>1 DEF LoadSingleObject
  <2> HIDE DEF d
  <2>2. DOMAIN config \subseteq returned => DOMAIN config' \subseteq returned'
    <3>1. CASE m \notin DOMAIN config
      <4>1. DOMAIN config' = DOMAIN config \cup {m}
        BY <2>1, <3>1 DEF Stored
      <4> QED
        BY <2>1, <3>1, <4>1
    <3>2. CASE m \in DOMAIN config
      <4>1. DOMAIN config' = DOMAIN config
        BY <2>1, <3>2
      <4> QED
        BY <2>1, <3>2, <4>1
    <3> QED
      BY <3>1, <3>2
  <2>3. ASSUME NEW j \in DOMAIN defs' PROVE j + 1 \in DOMAIN defs /\ defs'[j] = defs[j + 1]
    BY <1>0, <2>1
  <2> QED
    BY <2>1, <2>2, <2>3 DEF FilesOK
<1>2. ASSUME NEW k \in Index, Search(k) PROVE FilesOK'
  <2>1. phase = "discover" /\ base[k] \in DOMAIN directory
    BY <1>2 DEF Search, Asked
  <2>2. PICK stop \in DOMAIN Messages(directory[base[k]]) :
          \E found \in {Found(Messages(directory[base[k]]), stop)} :
              defs' = defs \o [j \in DOMAIN found |-> ToDefinition(Discoveries[k], found[j])]
    BY <1>2 DEF Search
  <2> DEFINE pages == directory[base[k]]
             found == Found(Messages(pages), stop)
             new   == [j \in DOMAIN found |-> ToDefinition(Discoveries[k], found[j])]
  <2>3. defs' = defs \o new
    BY <2>2
  <2>4. pages \in Seq(Seq(Message)) /\ Discoveries[k].use \in Seq(Name)
    BY <2>1, SetupOK DEF IInv
  <2>5. stop \in Nat
    <3>1. Messages(pages) \in Seq(Received)
      BY <2>4, MessagesOK
    <3> QED
      BY <3>1
  <2>6. new \in Seq(Definition) /\ \A j \in DOMAIN new : ~new[j].string
    BY <2>4, <2>5, FoundOK
  <2> HIDE DEF new
  <2>7. \A j \in DOMAIN defs : ~defs[j].string
    BY <2>1 DEF FilesOK
  <2>8. ASSUME NEW j \in DOMAIN defs' PROVE ~defs'[j].string
    <3>1. CASE j <= Len(defs)
      <4>1. j \in DOMAIN defs /\ defs'[j] = defs[j]
        BY <1>0, <2>3, <2>6, <3>1
      <4> QED
        BY <2>7, <4>1
    <3>2. CASE ~(j <= Len(defs))
      <4>1. j - Len(defs) \in DOMAIN new /\ defs'[j] = new[j - Len(defs)]
        BY <1>0, <2>3, <2>6, <3>2
      <4> QED
        BY <2>6, <4>1
    <3> QED
      BY <3>1, <3>2
  <2> QED
    BY <2>8 DEF FilesOK
<1>3. CASE defs' = <<>>
  BY <1>3 DEF FilesOK
<1>4. CASE AllDiscovered
  BY <1>4 DEF AllDiscovered, FilesOK
<1>5. CASE phase' = phase /\ defs' = defs /\ config' = config /\ returned' = returned
  BY <1>5 DEF FilesOK
<1> QED
  <2>1. CASE ProcessObjects /\ ~LoadSingleObject
    <3>1. defs = <<>> /\ defs' = defs
      BY <1>0, <2>1 DEF ProcessObjects, AllLoaded, PostProcess, ResolveTemplate, MergeTemplate,
                        Return, Raise, Processing
    <3> QED
      BY <1>3, <3>1
  <2>2. CASE AllProcessed
    BY <1>0, <1>3, <2>2 DEF AllProcessed, AllPostProcessed
  <2>3. CASE DiscoverObjects
    BY <1>3, <2>3 DEF DiscoverObjects
  <2>4. CASE UNCHANGED vars \/ DirectoryChanges \/ \E k \in Index : NotRun(k) \/ SearchFails(k) \/ Elapse(k)
    BY <1>5, <2>4 DEF vars, ovars, DirectoryChanges, NotRun, SearchFails, Elapse
  <2> QED
    BY <1>1, <1>2, <1>4, <2>1, <2>2, <2>3, <2>4 DEF Next, Loop

\* What a discovery finds again unchanged is not returned, unless a template
\* has overwritten a tag of it.
THEOREM FindingAgainIsQuiet == Spec => FoundAgainIsQuiet
<1> DEFINE J == LoadedOK /\ FilesOK
<1>1. Init => J
  BY DEF Init, InitObjects, LoadedOK, FilesOK
<1>2. IInv /\ J /\ [Next]_vars => J'
  BY LoadedStays, FilesStay
<1>3. IInv /\ J /\ [Next]_vars =>
        [\A n \in returned' \ returned :
            n \in DOMAIN config /\ Head(defs) = last[n] => Overrides(n, Head(defs))]_ovars
  <2>1. ASSUME IInv, J, [Next]_vars
        PROVE  \A n \in returned' \ returned :
                    n \in DOMAIN config /\ Head(defs) = last[n] => Overrides(n, Head(defs))
    <3>1. ASSUME LoadSingleObject, NEW n \in returned' \ returned,
                 n \in DOMAIN config, Head(defs) = last[n]
          PROVE  Overrides(n, Head(defs))
      <4>1. 1 \in DOMAIN defs /\ Head(defs) = defs[1]
        BY <2>1, <3>1 DEF IInv, OInv, QueuesOK, LoadSingleObject
      <4>2. ~Head(defs).string
        BY <2>1, <3>1, <4>1 DEF FilesOK
      <4> QED
        BY <2>1, <3>1, <4>2, LoadIsQuiet DEF IInv
    <3>2. CASE ~LoadSingleObject
      BY <2>1, <3>2, OnlyLoadingReturns
    <3> QED
      BY <3>1, <3>2
  <2> QED
    BY <2>1
<1> HIDE DEF J
<1> QED
  BY <1>1, <1>2, <1>3, Invariant, PTL DEF Spec, FoundAgainIsQuiet

-----------------------------------------------------------------------------
(* Variables: what a string says.  Both WrittenOut and Values are recursive  *)
(* functions of a depth; R[k] is what k times replacing makes of any string. *)
(* R[k] may be applied part by part (AgainOK), so a string is what comes of  *)
(* its parts, and what comes of a variable is, one level lower, what it      *)
(* stands for (MeantNext).                                                   *)

\* R[k] does k times what G does: it replaces each part x by G[x].
AgainLevel(P, G, k, f) == [s \in Seq(P) |-> IF k = 0 THEN s ELSE Each(f[s], G)]
Again(P, G, n, R) == R = [k \in 0 .. n |-> AgainLevel(P, G, k, R[k - 1])]

LEMMA AgainExists ==
    ASSUME NEW P, NEW G, NEW n \in Nat
    PROVE  \E R : Again(P, G, n, R)
<1> DEFINE T == {i \in Nat : \E R : Again(P, G, i, R)}
<1>1. 0 \in T
  <2> DEFINE g == [l \in 0 .. 0 |-> [s \in Seq(P) |-> s]]
  <2>1. \A x : AgainLevel(P, G, 0, x) = [s \in Seq(P) |-> s]
    BY DEF AgainLevel
  <2>2. g = [l \in 0 .. 0 |-> AgainLevel(P, G, l, g[l - 1])]
    BY <2>1
  <2> HIDE DEF g
  <2>3. Again(P, G, 0, g)
    BY <2>2 DEF Again
  <2> QED
    BY <2>3
<1>2. ASSUME NEW i \in T PROVE i + 1 \in T
  <2>1. PICK g : Again(P, G, i, g)
    OBVIOUS
  <2>2. i \in Nat /\ g = [l \in 0 .. i |-> AgainLevel(P, G, l, g[l - 1])]
    BY <2>1 DEF Again
  <2> DEFINE h == [l \in 0 .. i + 1 |-> IF l = i + 1 THEN AgainLevel(P, G, i + 1, g[i]) ELSE g[l]]
  <2>3. ASSUME NEW l \in 0 .. i + 1 PROVE h[l] = AgainLevel(P, G, l, h[l - 1])
    <3>1. CASE l = i + 1
      <4>1. l - 1 = i /\ l - 1 \in 0 .. i + 1 /\ i # i + 1
        BY <2>2, <3>1
      <4>2. h[l - 1] = g[i]
        BY <4>1
      <4> QED
        BY <3>1, <4>2
    <3>2. CASE l # i + 1 /\ l # 0
      <4>1. l \in 0 .. i /\ l - 1 \in 0 .. i + 1 /\ l - 1 # i + 1
        BY <2>2, <3>2
      <4>2. h[l] = g[l] /\ h[l - 1] = g[l - 1]
        BY <3>2, <4>1
      <4>3. g[l] = AgainLevel(P, G, l, g[l - 1])
        BY <2>2, <4>1
      <4> QED
        BY <4>2, <4>3
    <3>3. CASE l # i + 1 /\ l = 0
      <4>1. h[0] = g[0] /\ 0 \in 0 .. i
        BY <2>2, <3>3
      <4>2. g[0] = AgainLevel(P, G, 0, g[0 - 1])
        BY <2>2, <4>1
      <4>3. \A x, y : AgainLevel(P, G, 0, x) = AgainLevel(P, G, 0, y)
        BY DEF AgainLevel
      <4> QED
        BY <3>3, <4>1, <4>2, <4>3
    <3> QED
      BY <3>1, <3>2, <3>3
  <2>4. h = [l \in 0 .. i + 1 |-> h[l]]
    OBVIOUS
  <2> HIDE DEF h
  <2>5. h = [l \in 0 .. i + 1 |-> AgainLevel(P, G, l, h[l - 1])]
    BY <2>3, <2>4
  <2>6. Again(P, G, i + 1, h)
    BY <2>5 DEF Again
  <2> QED
    BY <2>2, <2>6
<1> HIDE DEF T
<1>3. T = Nat
  <2>1. T \subseteq Nat
    BY DEF T
  <2> QED
    BY <1>1, <1>2, <2>1, Induction
<1> QED
  BY <1>3 DEF T

\* Once more is to do G after all the times before.
StepByStep(P, G, n, R) ==
    \A s \in Seq(P) : R[0][s] = s /\ \A k \in 0 .. n - 1 : R[k + 1][s] = Each(R[k][s], G)

LEMMA AgainIs ==
    ASSUME NEW P, NEW G, NEW n \in Nat, NEW R, Again(P, G, n, R)
    PROVE  StepByStep(P, G, n, R)
<1>1. \A k \in 0 .. n : R[k] = AgainLevel(P, G, k, R[k - 1])
  BY DEF Again
<1>2. \A k \in 0 .. n - 1 : k + 1 \in 0 .. n /\ k + 1 # 0 /\ k + 1 - 1 = k
  OBVIOUS
<1>3. R[0] = AgainLevel(P, G, 0, R[0 - 1])
  BY <1>1
<1>4. ASSUME NEW k \in 0 .. n - 1 PROVE R[k + 1] = AgainLevel(P, G, k + 1, R[k])
  <2> DEFINE m == k + 1
  <2>1. m \in 0 .. n /\ m - 1 = k
    OBVIOUS
  <2> HIDE DEF m
  <2>2. R[m] = AgainLevel(P, G, m, R[k])
    BY <1>1, <2>1
  <2> QED
    BY <2>2 DEF m
<1>5. ASSUME NEW s \in Seq(P) PROVE R[0][s] = s
  BY <1>3 DEF AgainLevel
<1>6. ASSUME NEW s \in Seq(P), NEW k \in 0 .. n - 1 PROVE R[k + 1][s] = Each(R[k][s], G)
  <2> DEFINE m == k + 1
  <2>1. m # 0 /\ R[m] = AgainLevel(P, G, m, R[k])
    BY <1>4
  <2> HIDE DEF m
  <2>2. R[m][s] = Each(R[k][s], G)
    BY <2>1 DEF AgainLevel
  <2> QED
    BY <2>2 DEF m
<1> QED
  BY <1>5, <1>6 DEF StepByStep

\* Replacing again and again may be done part by part, and the first time may
\* be done first.
LEMMA AgainOK ==
    ASSUME NEW P, NEW G, Replaces(G, P, P), NEW n \in Nat, NEW R, Again(P, G, n, R)
    PROVE  /\ \A k \in 0 .. n : PartByPart(P, R[k])
           /\ \A k \in 0 .. n - 1 : \A s \in Seq(P) : R[k + 1][s] = R[k][Each(s, G)]
<1> DEFINE E(k) == \A s \in Seq(P) : R[k + 1][s] = R[k][Each(s, G)]
           T == {k \in Nat : k <= n => PartByPart(P, R[k]) /\ (k < n => E(k))}
<1>1. ASSUME NEW k \in 0 .. n
      PROVE  R[k] = [s \in Seq(P) |-> IF k = 0 THEN s ELSE Each(R[k - 1][s], G)]
  BY DEF Again, AgainLevel
<1>0. \A s \in Seq(P) :
        R[0][s] = s /\ \A k \in 0 .. n - 1 : R[k + 1][s] = Each(R[k][s], G)
  <2>1. StepByStep(P, G, n, R)
    BY AgainIs
  <2> QED
    BY <2>1 DEF StepByStep
<1>2. 0 \in T
  <2>1. R[0] = [s \in Seq(P) |-> s]
    BY <1>1
  <2>2. PartByPart(P, R[0])
    <3>1. /\ <<>> \in Seq(P)
          /\ \A s, t \in Seq(P) : s \o t \in Seq(P)
      OBVIOUS
    <3> QED
      BY <2>1, <3>1 DEF PartByPart
  <2>3. ASSUME 0 < n, NEW s \in Seq(P) PROVE R[0 + 1][s] = R[0][Each(s, G)]
    <3>1. Each(s, G) \in Seq(P)
      BY EachIsSeq
    <3>2. 0 \in 0 .. n - 1
      BY <2>3
    <3>3. R[0 + 1][s] = Each(R[0][s], G) /\ R[0][s] = s
      BY <1>0, <3>2
    <3> QED
      BY <2>1, <3>1, <3>3
  <2> QED
    BY <2>2, <2>3
<1>3. ASSUME NEW k \in T PROVE k + 1 \in T
  <2> SUFFICES ASSUME k + 1 <= n PROVE k + 1 \in T
    OBVIOUS
  <2>1. k \in Nat /\ k \in 0 .. n - 1 /\ k + 1 \in 0 .. n
    OBVIOUS
  <2>2. PartByPart(P, R[k]) /\ E(k)
    BY <2>1
  <2> DEFINE H == R[k]
             I == R[k + 1]
  <2>3. \A s \in Seq(P) : I[s] = Each(H[s], G)
    BY <1>0, <2>1
  <2>4. \A s \in Seq(P) : H[s] \in Seq(P) /\ Each(s, G) \in Seq(P)
    BY <2>2, EachIsSeq DEF PartByPart
  <2>5. I \in [Seq(P) -> Seq(P)]
    <3>1. \A s \in Seq(P) : I[s] \in Seq(P)
      BY <2>3, <2>4
    <3>2. I = [s \in Seq(P) |-> I[s]]
      <4>1. I = [s \in Seq(P) |-> IF k + 1 = 0 THEN s ELSE Each(R[k + 1 - 1][s], G)]
        BY <1>1, <2>1
      <4> HIDE DEF T, I
      <4> QED
        BY <4>1
    <3> HIDE DEF I
    <3> QED
      BY <3>1, <3>2
  <2>6. I[<<>>] = <<>>
    <3>1. <<>> \in Seq(P) /\ H[<<>>] = <<>>
      BY <2>2 DEF PartByPart
    <3> QED
      BY <2>3, <3>1, EachOfNone
  <2>7. ASSUME NEW s \in Seq(P), NEW t \in Seq(P) PROVE I[s \o t] = I[s] \o I[t]
    <3>0. s \o t \in Seq(P)
      OBVIOUS
    <3>1. H[s \o t] = H[s] \o H[t]
      BY <2>2 DEF PartByPart
    <3>2. H[s] \in Seq(P) /\ H[t] \in Seq(P)
      BY <2>4
    <3> HIDE DEF H, I, T
    <3>3. Each(H[s] \o H[t], G) = Each(H[s], G) \o Each(H[t], G)
      <4> DEFINE a == H[s]
                 b == H[t]
      <4>1. a \in Seq(P) /\ b \in Seq(P)
        BY <3>2
      <4> HIDE DEF a, b
      <4>2. Each(a \o b, G) = Each(a, G) \o Each(b, G)
        BY <4>1, EachJoins
      <4> QED
        BY <4>2 DEF a, b
    <3> QED
      BY <2>3, <3>0, <3>1, <3>3
  <2>8. PartByPart(P, I)
    BY <2>5, <2>6, <2>7 DEF PartByPart
  <2>9. ASSUME k + 1 < n PROVE E(k + 1)
    <3>1. k + 1 \in 0 .. n - 1
      BY <2>1, <2>9
    <3> SUFFICES ASSUME NEW s \in Seq(P) PROVE R[(k + 1) + 1][s] = R[k + 1][Each(s, G)]
      OBVIOUS
    <3>2. R[(k + 1) + 1][s] = Each(R[k + 1][s], G)
      <4> DEFINE m == k + 1
      <4>1. m \in 0 .. n - 1
        BY <3>1
      <4> HIDE DEF m
      <4>2. R[m + 1][s] = Each(R[m][s], G)
        BY <1>0, <4>1
      <4> QED
        BY <4>2 DEF m
    <3>3. R[k + 1][s] = R[k][Each(s, G)]
      BY <2>2
    <3>4. R[k + 1][Each(s, G)] = Each(R[k][Each(s, G)], G)
      BY <2>3, <2>4
    <3> QED
      BY <3>2, <3>3, <3>4
  <2> HIDE DEF E
  <2> QED
    BY <2>1, <2>8, <2>9
<1> HIDE DEF T
<1>4. T = Nat
  <2>1. T \subseteq Nat
    BY DEF T
  <2> QED
    BY <1>2, <1>3, <2>1, Induction
<1>5. ASSUME NEW k \in 0 .. n PROVE PartByPart(P, R[k]) /\ (k < n => E(k))
  <2>1. k \in T /\ k <= n
    BY <1>4
  <2> QED
    BY <2>1 DEF T
<1> QED
  BY <1>5

\* What replaces a part has the parts of P again.
IsClosed(table, P) ==
    /\ \A x \in P : x.variable \in BOOLEAN
    /\ \A v \in DOMAIN table : table[v].type = "str" =>
        table[v] = Str(table[v].parts) /\ table[v].parts \in Seq(P)
Outs(table, P) == [x \in P |-> Out(table, x)]
WritesAs(table, P, G) == \A s \in Seq(P) : WriteOut(table, s) = Each(s, G)

LEMMA OutsOK ==
    ASSUME NEW table, NEW P, IsClosed(table, P)
    PROVE  /\ Replaces(Outs(table, P), P, P)
           /\ \A x \in P : Outs(table, P)[x] = Out(table, x)
           /\ WritesAs(table, P, Outs(table, P))
<1>1. ASSUME NEW x \in P PROVE Out(table, x) \in Seq(P)
  BY DEF Out, IsClosed
<1>2. Replaces(Outs(table, P), P, P)
  BY <1>1 DEF Replaces, Outs
<1>3. \A x \in P : Outs(table, P)[x] = Out(table, x)
  BY DEF Outs
<1>4. ASSUME NEW s \in Seq(P)
      PROVE  Mapped(s, Outs(table, P)) = [k \in DOMAIN s |-> Out(table, s[k])]
  <2>1. \A k \in DOMAIN s : s[k] \in P
    OBVIOUS
  <2> QED
    BY <1>3, <2>1 DEF Mapped
<1> QED
  BY <1>2, <1>3, <1>4 DEF WritesAs, WriteOut, Each

\* A part that is not replaced stays.
LEMMA AgainStays ==
    ASSUME NEW P, NEW G, Replaces(G, P, P), NEW n \in Nat, NEW R, Again(P, G, n, R),
           NEW x \in P, G[x] = <<x>>
    PROVE  \A k \in 0 .. n : R[k][<<x>>] = <<x>>
<1> DEFINE T == {k \in Nat : k <= n => R[k][<<x>>] = <<x>>}
<1>1. <<x>> \in Seq(P)
  OBVIOUS
<1>2. R[0][<<x>>] = <<x>> /\ \A k \in 0 .. n - 1 : R[k + 1][<<x>>] = Each(R[k][<<x>>], G)
  <2>1. StepByStep(P, G, n, R)
    BY AgainIs
  <2> QED
    BY <1>1, <2>1 DEF StepByStep
<1>3. 0 \in T
  BY <1>2
<1>4. ASSUME NEW k \in T PROVE k + 1 \in T
  <2> SUFFICES ASSUME k + 1 <= n PROVE R[k + 1][<<x>>] = <<x>>
    OBVIOUS
  <2>1. k \in 0 .. n - 1 /\ R[k][<<x>>] = <<x>>
    OBVIOUS
  <2>2. R[k + 1][<<x>>] = Each(<<x>>, G)
    BY <1>2, <2>1
  <2> QED
    BY <2>2, EachOfOne
<1> HIDE DEF T
<1>5. T = Nat
  <2>1. T \subseteq Nat
    BY DEF T
  <2> QED
    BY <1>3, <1>4, <2>1, Induction
<1>6. ASSUME NEW k \in 0 .. n PROVE R[k][<<x>>] = <<x>>
  <2>1. k \in T /\ k <= n
    BY <1>5
  <2> QED
    BY <2>1 DEF T
<1> QED
  BY <1>6

\* What has come of an element is in the result.
LEMMA EachHas ==
    ASSUME NEW S, NEW P, NEW F, Replaces(F, S, P), NEW s \in Seq(S), NEW j \in DOMAIN s
    PROVE  ToSet(F[s[j]]) \subseteq ToSet(Each(s, F))
<1>1. Mapped(s, F) \in Seq(Seq(P)) /\ DOMAIN Mapped(s, F) = DOMAIN s /\ Mapped(s, F)[j] = F[s[j]]
  <2>1. Mapped(s, F) \in Seq(Seq(P))
    BY EachIsSeq
  <2> QED
    BY <2>1 DEF Mapped
<1>2. ToSet(FlattenSeq(Mapped(s, F))) = UNION {ToSet(Mapped(s, F)[i]) : i \in DOMAIN Mapped(s, F)}
  BY <1>1, FlattenRange
<1> QED
  BY <1>1, <1>2 DEF Each

\* The function by which WrittenOut is defined.
Writes(table, p, n, f) ==
    f = [k \in 0 .. n |-> IF k = 0 THEN p ELSE WriteOut(table, f[k - 1])]

\* It exists, and is what R makes of the string.
LEMMA WritesIs ==
    ASSUME NEW table, NEW P, NEW G, Replaces(G, P, P),
           WritesAs(table, P, G),
           NEW n \in Nat, NEW R, Again(P, G, n, R), NEW p \in Seq(P)
    PROVE  /\ \E f : Writes(table, p, n, f)
           /\ \A f : Writes(table, p, n, f) => f[n] = R[n][p]
<1> DEFINE h == [k \in 0 .. n |-> R[k][p]]
<1>1. R[0][p] = p /\ \A k \in 0 .. n - 1 : R[k + 1][p] = Each(R[k][p], G)
  <2>1. StepByStep(P, G, n, R)
    BY AgainIs
  <2> QED
    BY <2>1 DEF StepByStep
<1>2. \A k \in 0 .. n : R[k][p] \in Seq(P)
  <2>1. \A k \in 0 .. n : PartByPart(P, R[k])
    BY AgainOK
  <2> QED
    BY <2>1 DEF PartByPart
<1>3. \A t \in Seq(P) : WriteOut(table, t) = Each(t, G)
  BY DEF WritesAs
<1>4. ASSUME NEW k \in 0 .. n
      PROVE  R[k][p] = IF k = 0 THEN p ELSE WriteOut(table, h[k - 1])
  <2>1. CASE k = 0
    BY <1>1, <2>1
  <2>2. CASE k # 0
    <3> DEFINE m == k - 1
    <3>1. m \in 0 .. n - 1 /\ m \in 0 .. n /\ k = m + 1
      BY <2>2
    <3>2. h[m] = R[m][p]
      BY <3>1
    <3> HIDE DEF m, h
    <3>3. R[m + 1][p] = WriteOut(table, h[m])
      BY <1>1, <1>2, <1>3, <3>1, <3>2
    <3> QED
      BY <2>2, <3>1, <3>3 DEF m
  <2> QED
    BY <2>1, <2>2
<1>5. Writes(table, p, n, h)
  BY <1>4 DEF Writes
<1>6. ASSUME NEW f, Writes(table, p, n, f) PROVE f[n] = R[n][p]
  <2> DEFINE T == {k \in Nat : k <= n => f[k] = R[k][p]}
  <2>1. \A k \in 0 .. n : f[k] = IF k = 0 THEN p ELSE WriteOut(table, f[k - 1])
    BY <1>6 DEF Writes
  <2>2. 0 \in T
    <3>1. 0 \in 0 .. n
      OBVIOUS
    <3> QED
      BY <1>1, <2>1, <3>1
  <2>3. ASSUME NEW k \in T PROVE k + 1 \in T
    <3> SUFFICES ASSUME k + 1 <= n PROVE f[k + 1] = R[k + 1][p]
      OBVIOUS
    <3> DEFINE m == k + 1
    <3>1. /\ k \in 0 .. n - 1 /\ k \in 0 .. n /\ m \in 0 .. n /\ m # 0 /\ m - 1 = k
          /\ f[k] = R[k][p]
      OBVIOUS
    <3> HIDE DEF m, T
    <3>2. f[m] = WriteOut(table, f[k])
      BY <2>1, <3>1
    <3>3. f[m] = Each(R[k][p], G)
      BY <1>2, <1>3, <3>1, <3>2
    <3>4. R[k + 1][p] = Each(R[k][p], G)
      BY <1>1, <3>1
    <3> QED
      BY <3>3, <3>4 DEF m
  <2> HIDE DEF T
  <2>4. T = Nat
    <3>1. T \subseteq Nat
      BY DEF T
    <3> QED
      BY <2>2, <2>3, <3>1, Induction
  <2> QED
    BY <2>4 DEF T
<1> QED
  BY <1>5, <1>6

LEMMA WrittenOutIs ==
    ASSUME NEW table, NEW s, NEW w, \E f : Writes(table, s.parts, Cardinality(Variable), f),
           \A f : Writes(table, s.parts, Cardinality(Variable), f) => f[Cardinality(Variable)] = w
    PROVE  WrittenOut(table, s) = Str(w)
<1> DEFINE F(f) == [k \in 0 .. Cardinality(Variable) |->
                        IF k = 0 THEN s.parts ELSE WriteOut(table, f[k - 1])]
           After == CHOOSE g : g = F(g)
<1>1. \E f : f = F(f)
  BY DEF Writes
<1> HIDE DEF F
<1>2. After = F(After)
  BY <1>1
<1>3. Writes(table, s.parts, Cardinality(Variable), After)
  <2> HIDE DEF After
  <2> QED
    BY <1>2 DEF Writes, F
<1>4. After[Cardinality(Variable)] = w
  <2> HIDE DEF After
  <2> QED
    BY <1>3
<1>5. WrittenOut(table, s) = Str(After[Cardinality(Variable)])
  BY DEF WrittenOut, F
<1> QED
  BY <1>4, <1>5

-----------------------------------------------------------------------------
\* The function by which Values is defined, up to depth k.
ValueLevel(table, k, f) ==
    [v \in Variable |->
        IF k = 0 THEN Raised
        ELSE IF v \in DOMAIN table THEN ReplaceVars(table[v], f) ELSE Absent]
Gives(table, n, V) == V = [k \in 0 .. n |-> ValueLevel(table, k, V[k - 1])]

\* The function exists, and is the one that Values takes.
LEMMA ValuesExist ==
    ASSUME NEW table, NEW n \in Nat
    PROVE  \E V : Gives(table, n, V)
<1> DEFINE T == {i \in Nat : \E V : Gives(table, i, V)}
<1>1. 0 \in T
  <2> DEFINE g == [l \in 0 .. 0 |-> [v \in Variable |-> Raised]]
  <2>1. \A x : ValueLevel(table, 0, x) = [v \in Variable |-> Raised]
    BY DEF ValueLevel
  <2>2. g = [l \in 0 .. 0 |-> ValueLevel(table, l, g[l - 1])]
    BY <2>1
  <2> HIDE DEF g
  <2>3. Gives(table, 0, g)
    BY <2>2 DEF Gives
  <2> QED
    BY <2>3
<1>2. ASSUME NEW i \in T PROVE i + 1 \in T
  <2>1. PICK g : Gives(table, i, g)
    OBVIOUS
  <2>2. i \in Nat /\ g = [l \in 0 .. i |-> ValueLevel(table, l, g[l - 1])]
    BY <2>1 DEF Gives
  <2> DEFINE h == [l \in 0 .. i + 1 |-> IF l = i + 1 THEN ValueLevel(table, i + 1, g[i]) ELSE g[l]]
  <2>3. ASSUME NEW l \in 0 .. i + 1 PROVE h[l] = ValueLevel(table, l, h[l - 1])
    <3>1. CASE l = i + 1
      <4>1. l - 1 = i /\ l - 1 \in 0 .. i + 1 /\ i # i + 1
        BY <2>2, <3>1
      <4>2. h[l - 1] = g[i]
        BY <4>1
      <4> QED
        BY <3>1, <4>2
    <3>2. CASE l # i + 1 /\ l # 0
      <4>1. l \in 0 .. i /\ l - 1 \in 0 .. i + 1 /\ l - 1 # i + 1
        BY <2>2, <3>2
      <4>2. h[l] = g[l] /\ h[l - 1] = g[l - 1]
        BY <3>2, <4>1
      <4>3. g[l] = ValueLevel(table, l, g[l - 1])
        BY <2>2, <4>1
      <4> QED
        BY <4>2, <4>3
    <3>3. CASE l # i + 1 /\ l = 0
      <4>1. h[0] = g[0] /\ 0 \in 0 .. i
        BY <2>2, <3>3
      <4>2. g[0] = ValueLevel(table, 0, g[0 - 1])
        BY <2>2, <4>1
      <4>3. \A x, y : ValueLevel(table, 0, x) = ValueLevel(table, 0, y)
        BY DEF ValueLevel
      <4> QED
        BY <3>3, <4>1, <4>2, <4>3
    <3> QED
      BY <3>1, <3>2, <3>3
  <2>4. h = [l \in 0 .. i + 1 |-> h[l]]
    OBVIOUS
  <2> HIDE DEF h
  <2>5. h = [l \in 0 .. i + 1 |-> ValueLevel(table, l, h[l - 1])]
    BY <2>3, <2>4
  <2>6. Gives(table, i + 1, h)
    BY <2>5 DEF Gives
  <2> QED
    BY <2>2, <2>6
<1> HIDE DEF T
<1>3. T = Nat
  <2>1. T \subseteq Nat
    BY DEF T
  <2> QED
    BY <1>1, <1>2, <2>1, Induction
<1> QED
  BY <1>3 DEF T

LEMMA ValuesIs ==
    ASSUME NEW table, Cardinality(Variable) \in Nat
    PROVE  \E V : Gives(table, Cardinality(Variable), V) /\ Values(table) = V[Cardinality(Variable)]
<1> DEFINE F(f) == [k \in 0 .. Cardinality(Variable) |->
            [v \in Variable |->
                IF k = 0 THEN Raised
                ELSE IF v \in DOMAIN table THEN ReplaceVars(table[v], f[k - 1])
                ELSE Absent]]
           Get == CHOOSE g : g = F(g)
<1>1. PICK V : Gives(table, Cardinality(Variable), V)
  BY ValuesExist
<1>2. V = F(V)
  BY <1>1 DEF Gives, ValueLevel
<1> HIDE DEF F
<1>3. Get = F(Get)
  BY <1>2
<1>4. Gives(table, Cardinality(Variable), Get)
  <2> HIDE DEF Get
  <2> QED
    BY <1>3 DEF Gives, ValueLevel, F
<1>5. Values(table) = Get[Cardinality(Variable)]
  BY DEF Values, F
<1> QED
  BY <1>4, <1>5

\* No two variables but the same one twice.
IsOne(p) == \A j, k \in VariablesOf(p) : p[j] = p[k]

\* If every variable of the string has a string for a value, the result is one.
StringsOnly(p, value) == \A k \in VariablesOf(p) : value[p[k].name].type = "str"

LEMMA ReplacedAny ==
    ASSUME NEW P, NEW p \in Seq(P), NEW value, StringsOnly(p, value)
    PROVE  ReplaceInStr(Str(p), value).type = "str"
<1> DEFINE found  == VariablesOf(p)
           values == {value[p[k].name] : k \in found}
           s == Str(p)
<1>1. s.parts = p /\ s.type = "str"
  BY DEF Str
<1>2. \A x \in values : x.type = "str"
  BY DEF StringsOnly
<1>3. \A q : Str(q).type = "str"
  BY DEF Str
<1>4. CASE values = {}
  <2>1. ReplaceInStr(s, value) = s
    BY <1>1, <1>4 DEF ReplaceInStr
  <2> QED
    BY <1>1, <2>1
<1>5. CASE values # {} /\ Len(p) = 1
  <2>1. found \subseteq {1} /\ found # {}
    BY <1>5 DEF VariablesOf
  <2>2. value[p[1].name] \in values
    BY <2>1
  <2>3. ReplaceInStr(s, value) = value[p[1].name]
    BY <1>1, <1>5 DEF ReplaceInStr
  <2> QED
    BY <1>2, <2>2, <2>3
<1>6. CASE values # {} /\ Len(p) # 1
  <2>1. ~(\E x \in values : x.type # "str")
    BY <1>2
  <2>2. ReplaceInStr(s, value) =
            Str(FlattenSeq([k \in DOMAIN p |->
                IF p[k] = p[Max(found)] THEN value[p[k].name].parts ELSE <<p[k]>>]))
    BY <1>1, <1>6, <2>1 DEF ReplaceInStr
  <2> QED
    BY <1>3, <2>2
<1> QED
  BY <1>4, <1>5, <1>6

\* A set of positions has a last one.
LEMMA MaxOK ==
    ASSUME NEW n \in Nat, NEW S \in SUBSET (1 .. n), S # {}
    PROVE  Max(S) \in S
<1> DEFINE T == {n - k : k \in S}
<1>0. \A k \in S : k \in Nat /\ n - k \in Nat
  OBVIOUS
<1>1. T \in SUBSET Nat /\ T # {}
  <2>1. PICK k \in S : TRUE
    OBVIOUS
  <2>2. n - k \in T
    OBVIOUS
  <2>3. T \subseteq Nat
    BY <1>0
  <2> HIDE DEF T
  <2> QED
    BY <2>2, <2>3
<1>2. Min(T) \in T /\ \A y \in T : Min(T) <= y
  BY <1>1, MinOK
<1>3. PICK m \in S : Min(T) = n - m
  BY <1>2
<1>4. \A k \in S : m >= k
  <2>1. ASSUME NEW k \in S PROVE m >= k
    <3>1. n - k \in T /\ k \in Nat /\ m \in Nat
      BY <1>0
    <3> HIDE DEF T
    <3>2. n - m <= n - k
      BY <1>2, <1>3, <3>1
    <3> QED
      BY <3>1, <3>2
  <2> QED
    BY <2>1
<1> QED
  BY <1>4 DEF Max

\* F says what becomes of every part: a variable becomes its value.
ValuesAs(p, value, F) ==
    /\ \A k \in VariablesOf(p) : value[p[k].name] = Str(F[p[k]])
    /\ \A k \in DOMAIN p \ VariablesOf(p) : F[p[k]] = <<p[k]>>

\* With one variable at most, the string becomes what its parts become.
LEMMA ReplacedOne ==
    ASSUME NEW P, NEW p \in Seq(P), NEW F, Replaces(F, P, P), NEW value,
           ValuesAs(p, value, F), IsOne(p)
    PROVE  ReplaceInStr(Str(p), value) = Str(Each(p, F))
<1> DEFINE found  == VariablesOf(p)
           values == {value[p[k].name] : k \in found}
           s == Str(p)
<1>0. /\ \A k \in found : value[p[k].name] = Str(F[p[k]])
      /\ \A k \in DOMAIN p \ found : F[p[k]] = <<p[k]>>
  BY DEF ValuesAs
<1>1. \A q : Str(q).parts = q /\ Str(q).type = "str"
  BY DEF Str
<1>2. \A x \in values : x.type = "str"
  BY <1>0, <1>1
<1>3. DOMAIN p = 1 .. Len(p) /\ Len(p) \in Nat /\ found \subseteq DOMAIN p
      /\ \A k \in DOMAIN p : p[k] \in P
  BY DEF VariablesOf
<1>4. CASE found = {}
  <2>1. ReplaceInStr(s, value) = s
    BY <1>1, <1>4 DEF ReplaceInStr
  <2> DEFINE I == [x \in P |-> <<x>>]
  <2>2. Mapped(p, F) = Mapped(p, I)
    BY <1>0, <1>3, <1>4 DEF Mapped
  <2>3. Each(p, I) = p
    BY EachItself
  <2> QED
    BY <2>1, <2>2, <2>3 DEF Each
<1>5. CASE found # {} /\ Len(p) = 1
  <2>1. 1 \in found
    BY <1>3, <1>5
  <2>2. ReplaceInStr(s, value) = value[p[1].name]
    BY <1>1, <1>5, <2>1 DEF ReplaceInStr
  <2>3. p = <<p[1]>> /\ p[1] \in P
    BY <1>3, <1>5
  <2> DEFINE x == p[1]
  <2>4. Each(<<x>>, F) = F[x]
    <3> HIDE DEF x
    <3> QED
      BY <2>3, EachOfOne DEF x
  <2> QED
    BY <1>0, <2>1, <2>2, <2>3, <2>4
<1>6. CASE found # {} /\ Len(p) # 1
  <2> DEFINE end  == p[Max(found)]
             q == [k \in DOMAIN p |-> IF p[k] = end THEN value[p[k].name].parts ELSE <<p[k]>>]
  <2>1. ~(\E x \in values : x.type # "str") /\ values # {}
    BY <1>2, <1>6
  <2>2. ReplaceInStr(s, value) = Str(FlattenSeq(q))
    BY <1>1, <1>6, <2>1 DEF ReplaceInStr
  <2>3. Max(found) \in found
    BY <1>3, <1>6, MaxOK
  <2>4. end.variable
    BY <2>3 DEF VariablesOf
  <2>5. ASSUME NEW k \in DOMAIN p
        PROVE  (IF p[k] = end THEN value[p[k].name].parts ELSE <<p[k]>>) = F[p[k]]
    <3>1. CASE k \in found
      <4>1. p[k] = end
        BY <2>3, <3>1 DEF IsOne
      <4>2. value[p[k].name].parts = F[p[k]]
        BY <1>0, <1>1, <3>1
      <4> QED
        BY <4>1, <4>2
    <3>2. CASE k \notin found
      <4>1. ~p[k].variable
        BY <3>2 DEF VariablesOf
      <4>2. p[k] # end
        BY <2>4, <4>1
      <4> QED
        BY <1>0, <3>2, <4>2
    <3> QED
      BY <3>1, <3>2
  <2>6. q = Mapped(p, F)
    BY <2>5 DEF Mapped
  <2> QED
    BY <2>2, <2>6 DEF Each
<1> QED
  BY <1>4, <1>5, <1>6

\* A string whose variables f has all written out is replaced by a string, and
\* by what f makes of it if no string has two variables.
AllOne(table) == \A v \in DOMAIN table : table[v].type = "str" => IsOne(table[v].parts)
IsMeant(table, P, f, value) ==
    \A p \in Seq(P) : VariablesOf(f[p]) = {} =>
        /\ ReplaceInStr(Str(p), value).type = "str"
        /\ AllOne(table) /\ IsOne(p) => ReplaceInStr(Str(p), value) = Str(f[p])

\* What a variable stands for, from one level to the next.
ValueFrom(table, value, next) == \A v \in DOMAIN table : next[v] = ReplaceVars(table[v], value)

LEMMA GivesNext ==
    ASSUME NEW table, DOMAIN table \subseteq Variable, NEW n \in Nat, NEW V, Gives(table, n, V)
    PROVE  \A k \in 0 .. n - 1 : ValueFrom(table, V[k], V[k + 1])
<1> SUFFICES ASSUME NEW k \in 0 .. n - 1, NEW v \in DOMAIN table
             PROVE  V[k + 1][v] = ReplaceVars(table[v], V[k])
  BY DEF ValueFrom
<1> DEFINE m == k + 1
<1>1. m \in 0 .. n /\ m # 0 /\ m - 1 = k /\ v \in Variable
  OBVIOUS
<1> HIDE DEF m
<1>2. V[m] = ValueLevel(table, m, V[k])
  BY <1>1 DEF Gives
<1>3. V[m][v] = ReplaceVars(table[v], V[k])
  BY <1>1, <1>2 DEF ValueLevel
<1> QED
  BY <1>3 DEF m

\* It is so at the next level, where p stands for what its parts stand for.
LEMMA MeantNext ==
    ASSUME NEW table, NEW P, IsClosed(table, P),
           NEW f, PartByPart(P, f), \A x \in P : Out(table, x) = <<x>> => f[<<x>>] = <<x>>,
           NEW g, \A p \in Seq(P) : g[p] = f[Each(p, Outs(table, P))],
           NEW value, NEW next, ValueFrom(table, value, next),
           IsMeant(table, P, f, value)
    PROVE  IsMeant(table, P, g, next)
<1> DEFINE G == Outs(table, P)
           F == [x \in P |-> f[G[x]]]
<1>1. Replaces(G, P, P) /\ \A x \in P : G[x] = Out(table, x) /\ G[x] \in Seq(P)
  <2>1. Replaces(G, P, P) /\ \A x \in P : G[x] = Out(table, x)
    BY OutsOK
  <2> HIDE DEF G
  <2> QED
    BY <2>1 DEF Replaces
<1>2. Replaces(F, P, P) /\ \A x \in P : F[x] = f[G[x]]
  <2> HIDE DEF G
  <2> QED
    BY <1>1 DEF PartByPart, Replaces
<1>3. \A p \in Seq(P) : g[p] = Each(p, F)
  <2> HIDE DEF G
  <2>1. \A p \in Seq(P) : f[Each(p, G)] = Each(p, [x \in P |-> f[G[x]]])
    BY <1>1, EachThen
  <2> QED
    BY <2>1 DEF G
<1> HIDE DEF F, G
<1> SUFFICES ASSUME NEW p \in Seq(P), VariablesOf(g[p]) = {}
             PROVE  /\ ReplaceInStr(Str(p), next).type = "str"
                    /\ AllOne(table) /\ IsOne(p) => ReplaceInStr(Str(p), next) = Str(g[p])
  BY DEF IsMeant
\* Nothing that has come of a part has a variable.
<1>4. ASSUME NEW j \in DOMAIN p PROVE p[j] \in P /\ VariablesOf(F[p[j]]) = {}
  <2>0. p[j] \in P
    OBVIOUS
  <2>1. ToSet(F[p[j]]) \subseteq ToSet(Each(p, F))
    BY <1>2, EachHas
  <2>2. VariablesOf(Each(p, F)) = {}
    BY <1>3
  <2> DEFINE a == F[p[j]]
             b == Each(p, F)
  <2> HIDE DEF a, b
  <2>3. VariablesOf(a) = {}
    <3>1. ASSUME NEW i \in VariablesOf(a) PROVE FALSE
      <4>1. i \in DOMAIN a /\ a[i].variable
        BY DEF VariablesOf
      <4>2. a[i] \in ToSet(b)
        BY <2>1, <4>1 DEF a, b, ToSet
      <4>3. PICK l \in DOMAIN b : b[l] = a[i]
        BY <4>2 DEF ToSet
      <4>4. l \in VariablesOf(b)
        BY <4>1, <4>3 DEF VariablesOf
      <4> QED
        BY <2>2, <4>4 DEF b
    <3> QED
      BY <3>1
  <2> QED
    BY <2>0, <2>3 DEF a
\* So every variable stands for a string.
<1>5. ASSUME NEW j \in VariablesOf(p)
      PROVE  /\ next[p[j].name].type = "str"
             /\ AllOne(table) => next[p[j].name] = Str(F[p[j]])
  <2> DEFINE x == p[j]
             v == x.name
             q == table[v].parts
  <2>1. j \in DOMAIN p /\ x.variable /\ x \in P
    BY <1>4 DEF VariablesOf
  <2>2. VariablesOf(F[x]) = {}
    BY <1>4, <2>1
  <2> HIDE DEF x
  <2>3. v \in DOMAIN table /\ table[v].type = "str"
    <3>1. SUFFICES ASSUME ~(v \in DOMAIN table /\ table[v].type = "str") PROVE FALSE
      OBVIOUS
    <3>2. Out(table, x) = <<x>>
      BY <3>1 DEF Out
    <3>3. F[x] = <<x>>
      <4>1. F[x] = f[G[x]] /\ G[x] = <<x>>
        BY <1>1, <1>2, <2>1, <3>2
      <4>2. f[<<x>>] = <<x>>
        BY <2>1, <3>2
      <4> QED
        BY <4>1, <4>2
    <3>4. 1 \in VariablesOf(<<x>>)
      BY <2>1 DEF VariablesOf
    <3> QED
      BY <2>2, <3>3, <3>4
  <2>4. q \in Seq(P) /\ table[v] = Str(q)
    BY <2>3 DEF IsClosed
  <2>5. F[x] = f[q]
    <3>1. Out(table, x) = q
      BY <2>1, <2>3 DEF Out
    <3> QED
      BY <1>1, <1>2, <2>1, <3>1
  <2>6. next[v] = ReplaceInStr(Str(q), value)
    <3>1. next[v] = ReplaceVars(table[v], value)
      BY <2>3 DEF ValueFrom
    <3> HIDE DEF q, v
    <3>2. ReplaceVars(table[v], value) = ReplaceInStr(table[v], value)
      BY <2>3 DEF ReplaceVars
    <3> QED
      BY <2>4, <3>1, <3>2
  <2>7. AllOne(table) => IsOne(q)
    BY <2>3 DEF AllOne
  <2> HIDE DEF q, v
  <2>8. VariablesOf(f[q]) = {}
    BY <2>2, <2>5
  <2>9. /\ ReplaceInStr(Str(q), value).type = "str"
        /\ AllOne(table) /\ IsOne(q) => ReplaceInStr(Str(q), value) = Str(f[q])
    BY <2>4, <2>8 DEF IsMeant
  <2> QED
    BY <2>5, <2>6, <2>7, <2>9 DEF v, x
<1>6. ReplaceInStr(Str(p), next).type = "str"
  BY <1>5, ReplacedAny DEF StringsOnly
<1>7. ASSUME AllOne(table), IsOne(p) PROVE ReplaceInStr(Str(p), next) = Str(g[p])
  <2>1. ASSUME NEW j \in DOMAIN p \ VariablesOf(p) PROVE F[p[j]] = <<p[j]>>
    <3> DEFINE x == p[j]
    <3>1. x \in P /\ ~x.variable
      BY <1>4 DEF VariablesOf
    <3> HIDE DEF x
    <3>2. Out(table, x) = <<x>>
      BY <3>1 DEF Out
    <3>3. F[x] = <<x>>
      BY <1>1, <1>2, <3>1, <3>2
    <3> QED
      BY <3>3 DEF x
  <2>2. ValuesAs(p, next, F)
    BY <1>5, <1>7, <2>1 DEF ValuesAs
  <2>3. ReplaceInStr(Str(p), next) = Str(Each(p, F))
    BY <1>2, <1>7, <2>2, ReplacedOne
  <2> QED
    BY <1>3, <2>3
<1> QED
  BY <1>6, <1>7

\* So it is at every level.
LEMMA Meant ==
    ASSUME NEW table, DOMAIN table \subseteq Variable, NEW P, IsClosed(table, P),
           NEW n \in Nat, NEW R, Again(P, Outs(table, P), n, R),
           NEW V, Gives(table, n, V)
    PROVE  IsMeant(table, P, R[n], V[n])
<1> DEFINE G == Outs(table, P)
           T == {k \in Nat : k <= n => IsMeant(table, P, R[k], V[k])}
<1>1. Replaces(G, P, P) /\ \A x \in P : G[x] = Out(table, x)
  BY OutsOK
<1>2. /\ \A k \in 0 .. n : PartByPart(P, R[k])
      /\ \A k \in 0 .. n - 1 : \A s \in Seq(P) : R[k + 1][s] = R[k][Each(s, G)]
  <2> HIDE DEF G
  <2> QED
    BY <1>1, AgainOK DEF G
<1>3. \A k \in 0 .. n - 1 : ValueFrom(table, V[k], V[k + 1])
  BY GivesNext
<1>4. ASSUME NEW x \in P, Out(table, x) = <<x>> PROVE \A k \in 0 .. n : R[k][<<x>>] = <<x>>
  <2>1. Again(P, G, n, R) /\ G[x] = <<x>>
    BY <1>1, <1>4
  <2> HIDE DEF G
  <2> QED
    BY <1>1, <2>1, AgainStays
<1>5. \A s \in Seq(P) : R[0][s] = s
  <2>0. Again(P, G, n, R)
    OBVIOUS
  <2> HIDE DEF G, T
  <2>1. StepByStep(P, G, n, R)
    BY <2>0, AgainIs
  <2> QED
    BY <2>1 DEF StepByStep
<1> HIDE DEF G
<1>6. 0 \in T
  <2>1. ASSUME NEW p \in Seq(P), VariablesOf(p) = {} PROVE ReplaceInStr(Str(p), V[0]) = Str(p)
    <3>1. Str(p).parts = p
      BY DEF Str
    <3>2. {V[0][p[k].name] : k \in VariablesOf(p)} = {}
      BY <2>1
    <3> QED
      BY <3>1, <3>2 DEF ReplaceInStr
  <2>2. \A q : Str(q).type = "str"
    BY DEF Str
  <2> QED
    BY <1>5, <2>1, <2>2 DEF IsMeant
<1>7. ASSUME NEW k \in T PROVE k + 1 \in T
  <2> SUFFICES ASSUME k + 1 <= n PROVE IsMeant(table, P, R[k + 1], V[k + 1])
    OBVIOUS
  <2>1. k \in 0 .. n /\ k \in 0 .. n - 1
    OBVIOUS
  <2>2. IsMeant(table, P, R[k], V[k])
    BY <2>1
  <2> HIDE DEF T
  <2> DEFINE f == R[k]
             g == R[k + 1]
             value == V[k]
             next == V[k + 1]
  <2>3. /\ PartByPart(P, f)
        /\ \A x \in P : Out(table, x) = <<x>> => f[<<x>>] = <<x>>
        /\ \A p \in Seq(P) : g[p] = f[Each(p, Outs(table, P))]
        /\ ValueFrom(table, value, next)
        /\ IsMeant(table, P, f, value)
    BY <1>2, <1>3, <1>4, <2>1, <2>2 DEF G
  <2> HIDE DEF f, g, value, next
  <2>4. IsMeant(table, P, g, next)
    BY <2>3, MeantNext
  <2> QED
    BY <2>4 DEF g, next
<1> HIDE DEF T
<1>8. T = Nat
  <2>1. T \subseteq Nat
    BY DEF T
  <2> QED
    BY <1>6, <1>7, <2>1, Induction
<1> QED
  BY <1>8 DEF T

\* Any string is replaced by what it says, whatever the table has.
LEMMA StringsAreMeant ==
    ASSUME NEW table, IsTable(table), NEW s, IsString(s)
    PROVE  ReplacedByMeaning(table, s)
<1> DEFINE strings == {v \in DOMAIN table : table[v].type = "str"}
           p == s.parts
           P == ToSet(p) \cup UNION {ToSet(table[v].parts) : v \in strings}
           n == Cardinality(Variable)
<1>1. n \in Nat
  BY VariablesAssumption, FS_CardinalityType
<1>2. /\ DOMAIN table \subseteq Variable
      /\ \A v \in strings : IsString(table[v])
  BY DEF IsTable
<1>3. \A t : IsString(t) =>
        t = Str(t.parts) /\ t.parts \in Seq(ToSet(t.parts))
        /\ \A x \in ToSet(t.parts) : x.variable \in BOOLEAN
  BY DEF IsString, ToSet
<1>4. \A A, B : A \subseteq B => Seq(A) \subseteq Seq(B)
  OBVIOUS
<1>5. IsClosed(table, P) /\ p \in Seq(P) /\ s = Str(p)
  <2>1. \A v \in strings : ToSet(table[v].parts) \subseteq P
    OBVIOUS
  <2>2. ToSet(p) \subseteq P
    OBVIOUS
  <2>3. ASSUME NEW x \in P PROVE x.variable \in BOOLEAN
    BY <1>2, <1>3
  <2>4. ASSUME NEW v \in DOMAIN table, table[v].type = "str"
        PROVE  table[v] = Str(table[v].parts) /\ table[v].parts \in Seq(P)
    <3>1. v \in strings
      BY <2>4
    <3> HIDE DEF P, strings
    <3> QED
      BY <1>2, <1>3, <1>4, <2>1, <3>1
  <2> HIDE DEF P
  <2>5. p \in Seq(P) /\ s = Str(p)
    BY <1>3, <1>4, <2>2
  <2> QED
    BY <2>3, <2>4, <2>5 DEF IsClosed
<1> HIDE DEF P, n, strings
<1>6. PICK R : Again(P, Outs(table, P), n, R)
  BY <1>1, AgainExists
<1>7. PICK V : Gives(table, n, V) /\ Values(table) = V[n]
  BY <1>1, ValuesIs DEF n
<1>8. IsMeant(table, P, R[n], V[n])
  BY <1>1, <1>2, <1>5, <1>6, <1>7, Meant
<1>9. /\ ReplaceInStr(s, V[n]) = Resolve(table, s)
      /\ \A q : Str(q).type = "str" /\ Str(q).parts = q
  <2>1. \A q : Str(q).type = "str" /\ Str(q).parts = q
    BY DEF Str
  <2>2. s.type = "str"
    BY <1>5, <2>1
  <2> QED
    BY <1>7, <2>1, <2>2 DEF Resolve, ReplaceVars
<1>10. WrittenOut(table, s) = Str(R[n][p])
  <2> DEFINE G == Outs(table, P)
             w == R[n][p]
  <2>1. Replaces(G, P, P) /\ WritesAs(table, P, G)
    BY <1>5, OutsOK
  <2>2. Again(P, G, n, R)
    BY <1>6
  <2> HIDE DEF G, p
  <2>3. /\ \E f : Writes(table, p, n, f)
        /\ \A f : Writes(table, p, n, f) => f[n] = w
    BY <1>1, <1>5, <2>1, <2>2, WritesIs
  <2> HIDE DEF w
  <2>4. WrittenOut(table, s) = Str(w)
    BY <2>3, WrittenOutIs DEF n, p
  <2> QED
    BY <2>4 DEF w
<1> SUFFICES ASSUME VariablesOf(WrittenOut(table, s).parts) = {}
             PROVE  /\ Resolve(table, s) # Raised
                    /\ OneEach(table, s) => Resolve(table, s) = WrittenOut(table, s)
  BY DEF ReplacedByMeaning
<1>11. VariablesOf(R[n][p]) = {}
  BY <1>9, <1>10
<1>12. /\ ReplaceInStr(s, V[n]).type = "str"
       /\ AllOne(table) /\ IsOne(p) => ReplaceInStr(s, V[n]) = Str(R[n][p])
  BY <1>5, <1>8, <1>11 DEF IsMeant
<1>13. Resolve(table, s) # Raised
  <2>1. Raised.type = "raised"
    BY DEF Raised
  <2> QED
    BY <1>9, <1>12, <2>1
<1>14. OneEach(table, s) => AllOne(table) /\ IsOne(p)
  <2>1. s.type = "str"
    BY <1>5, <1>9
  <2> QED
    BY <2>1 DEF OneEach, AllOne, IsOne
<1> QED
  BY <1>9, <1>10, <1>12, <1>13, <1>14

\* The base of a search is what the attribute says (replace_vars), and a
\* configuration is only refused for a variable that does not stand for a
\* string.
THEOREM BasesAreMeant == Spec => []BaseIsMeant
<1>1. IInv => BaseIsMeant
  <2> SUFFICES ASSUME IInv, NEW k \in Index
               PROVE  ReplacedByMeaning(setup.table, Discoveries[k].base)
    BY DEF BaseIsMeant
  <2>1. setup \in Setups
    BY DEF IInv, DiscoveriesOK
  <2>2. IsString(setup.discoveries[k].base) /\ IsTable(setup.table)
    BY <2>1, SetupsAssumption DEF Index
  <2> QED
    BY <2>2, StringsAreMeant DEF Discoveries
<1> QED
  BY <1>1, Invariant, PTL
=============================================================================
