------------------------------ MODULE Variables ------------------------------
(* Variables in the configuration: Config.get with resolve_vars, and         *)
(* replace_vars (samm/config.py).  A string is a sequence of parts, texts    *)
(* and variables $(name); there are also lists and numbers.  An exception is *)
(* the value Raised, an undefined variable has the value Absent (no default  *)
(* is given).  A dict is treated like a list; functions (Fn::) are left out. *)
EXTENDS Naturals, FiniteSets, SequencesExt

CONSTANT Variable       \* names of variables

ASSUME VariablesAssumption == IsFiniteSet(Variable)

Str(parts)  == [type |-> "str", parts |-> parts]
List(items) == [type |-> "list", items |-> items]
Number      == [type |-> "number"]
Absent      == [type |-> "None"]
Raised      == [type |-> "raised"]

Text(t) == [variable |-> FALSE, name |-> t]
Var(v)  == [variable |-> TRUE, name |-> v]

\* get_variables: where a string has variables.
VariablesOf(parts) == {k \in DOMAIN parts : parts[k].variable}

\* What a table may have: for each variable a string, whose variables are
\* known by name, or something else.
IsString(s) ==
    /\ s = Str(s.parts) /\ s.parts \in Seq(ToSet(s.parts))
    /\ \A k \in DOMAIN s.parts : s.parts[k].variable \in BOOLEAN
    /\ \A k \in VariablesOf(s.parts) : s.parts[k].name \in Variable
IsTable(table) ==
    /\ DOMAIN table \subseteq Variable
    /\ \A v \in DOMAIN table : table[v].type = "str" => IsString(table[v])

\* A string.  A variable that is all of it may have any value, one that is
\* part of it must be a string.  The loop over the variables begins with s
\* each time: of several only the last one is replaced.
ReplaceInStr(s, value) ==
    LET found  == VariablesOf(s.parts)
        values == {value[s.parts[k].name] : k \in found}
        Put(part) == IF part = s.parts[Max(found)] THEN value[part.name].parts ELSE <<part>>
    IN  CASE values = {} -> s
          [] values # {} /\ Len(s.parts) = 1 -> value[s.parts[1].name]
          [] Len(s.parts) > 1 /\ \E x \in values : x.type # "str" -> Raised
          [] OTHER -> Str(FlattenSeq([k \in DOMAIN s.parts |-> Put(s.parts[k])]))

\* replace_vars, given the value of every variable.
ReplaceVars(o, value) ==
    CASE o.type = "str"  -> ReplaceInStr(o, value)
      [] o.type = "list" ->
            LET items == [k \in DOMAIN o.items |-> ReplaceInStr(o.items[k], value)]
            IN  IF Raised \in ToSet(items) THEN Raised ELSE List(items)
      [] OTHER -> o

\* Mutant: get without resolve_vars.
RawValues(table) == [v \in Variable |-> IF v \in DOMAIN table THEN table[v] ELSE Absent]

\* Config.get of every variable: what table has is resolved in its turn, which
\* ends with a RecursionError if variables stand for each other in a circle.
Values(table) ==
    LET Get[k \in 0 .. Cardinality(Variable)] ==
            [v \in Variable |->
                IF k = 0 THEN Raised
                ELSE IF v \in DOMAIN table THEN ReplaceVars(table[v], Get[k - 1])
                ELSE Absent]
    IN  Get[Cardinality(Variable)]

Resolve(table, o) == ReplaceVars(o, Values(table))

-----------------------------------------------------------------------------
(* What a string says: every variable that stands for a string is written    *)
(* out, as often as there are variables.                                     *)

Out(table, part) ==
    IF part.variable /\ part.name \in DOMAIN table /\ table[part.name].type = "str"
    THEN table[part.name].parts ELSE <<part>>
WriteOut(table, parts) == FlattenSeq([k \in DOMAIN parts |-> Out(table, parts[k])])
WrittenOut(table, s) ==
    LET After[k \in 0 .. Cardinality(Variable)] ==
            IF k = 0 THEN s.parts ELSE WriteOut(table, After[k - 1])
    IN  Str(After[Cardinality(Variable)])

\* No string has two variables, but perhaps one of them twice.
OneEach(table, s) ==
    \A x \in {s} \cup {table[v] : v \in DOMAIN table} :
        x.type = "str" =>
            \A j, k \in VariablesOf(x.parts) : x.parts[j] = x.parts[k]

\* A string whose variables all stand for strings is replaced by what it
\* says, unless some string has two variables; only others raise.
ReplacedByMeaning(table, s) ==
    LET says == WrittenOut(table, s)
    IN  VariablesOf(says.parts) = {} =>
            /\ Resolve(table, s) # Raised
            /\ OneEach(table, s) => Resolve(table, s) = says
=============================================================================
