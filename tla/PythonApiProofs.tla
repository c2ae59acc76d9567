-------------------------- MODULE PythonApiProofs ---------------------------
(***************************************************************************)
(* What holds of PythonApi for any number of variables, handles, names,    *)
(* threads, functions, rows, publishers and builds.  Each component has an *)
(* inductive invariant; ApiInv asks for that of the one that runs.         *)
(***************************************************************************)
EXTENDS PythonApi, SequenceTheorems, FiniteSetTheorems, WellFoundedInduction, TLAPS

-----------------------------------------------------------------------------
(* Sequences.                                                              *)

LEMMA SeqWiden ==
    ASSUME NEW S, NEW T, S \subseteq T, NEW s \in Seq(S)
    PROVE  s \in Seq(T)
  BY SeqDef

LEMMA SeqReplace ==
    ASSUME NEW S, NEW s \in Seq(S), NEW i \in DOMAIN s, NEW x \in S
    PROVE  LET t == [s EXCEPT ![i] = x] IN t \in Seq(S) /\ Len(t) = Len(s) /\ DOMAIN t = DOMAIN s
<1>1. i \in 1 .. Len(s)
  BY LenProperties
<1>2. QED
  BY <1>1, ExceptSeq, LenProperties

-----------------------------------------------------------------------------
(* Session options.  v1 are the option objects, v2 the variables, v3 the   *)
(* sessions and v4 the last reader.                                        *)

\* An object that no setter was called on has the characters that were checked.
AllSettings == UNION {[Options!Settings(k) -> Options!Values(k)] : k \in Options!Kinds}
OptionSet == {o \in [kind : Options!Kinds, set : AllSettings, changed : BOOLEAN] :
    /\ o.set \in [Options!Settings(o.kind) -> Options!Values(o.kind)]
    /\ o.kind = "csv" /\ ~o.changed => Len(o.set["delimiter"]) = 1}
OptionTypes ==
    /\ MaxObjects \in Nat /\ v1 \in Seq(OptionSet) /\ Len(v1) <= MaxObjects
    /\ v2 \in [Vars -> 0 .. Len(v1)]
    /\ DOMAIN v3 = OptionSessions
    /\ \A n \in OptionSessions :
          /\ v3[n].kind \in {"none", "open"}
          /\ v3[n].kind = "open" => v3[n].config \in [{"batch_size"} -> 0 .. 1]
    /\ v4.kind \in {"none", "csv"}
OptionsInv == OptionTypes /\ Options!CheckedCharacters

LEMMA SettingsAre ==
    /\ Options!Settings("config") = {"batch_size"} /\ Options!Settings("runtime") = {"memory_pool"}
    /\ Options!Settings("sql") = {"allow_ddl"} /\ Options!Settings("csv") = {"delimiter"}
  BY DEF Options!Settings

\* A native reader of one character uses it whole.
LEMMA OneCharacter ==
    ASSUME NEW set \in [{"delimiter"} -> Options!Strings], Len(set["delimiter"]) = 1
    PROVE  set["delimiter"] = <<Options!ToInner(set)["delimiter"]>>
<1>1. set["delimiter"] \in {<<Char>>, <<Other>>}
  BY DEF Options!Strings
<1>2. set["delimiter"] # <<>> /\ set["delimiter"] = <<set["delimiter"][1]>>
  BY <1>1
<1>3. Options!ToInner(set)["delimiter"] = set["delimiter"][1]
  BY <1>2 DEF Options!ToInner
<1>4. QED
  BY <1>2, <1>3

LEMMA OptionObjects ==
    ASSUME OptionsInv, NEW v \in Vars, v2[v] # 0
    PROVE  v2[v] \in DOMAIN v1 /\ v1[v2[v]] \in OptionSet
<1>1. v1 \in Seq(OptionSet) /\ v2[v] \in 0 .. Len(v1)
  BY DEF OptionsInv, OptionTypes
<1>2. Len(v1) \in Nat /\ DOMAIN v1 = 1 .. Len(v1) /\ \A i \in 1 .. Len(v1) : v1[i] \in OptionSet
  BY <1>1, LenProperties, ElementOfSeq
<1>3. QED
  BY <1>1, <1>2

LEMMA MakeOption ==
    ASSUME OptionsInv, NEW v \in Vars, NEW kind \in Options!Kinds,
           NEW set \in [Options!Settings(kind) -> Options!Values(kind)],
           kind = "csv" => Len(set["delimiter"]) = 1, Options!Make(v, kind, set)
    PROVE  OptionsInv'
<1> DEFINE o == [kind |-> kind, set |-> set, changed |-> FALSE]
<1>1. o \in OptionSet
  <2>1. set \in AllSettings
    BY DEF AllSettings
  <2>2. QED
    BY <2>1 DEF OptionSet
<1>2. /\ Len(v1) < MaxObjects /\ v1' = Append(v1, o) /\ v2' = [v2 EXCEPT ![v] = Len(v1) + 1]
      /\ UNCHANGED <<v3, v4>>
  BY DEF Options!Make
<1> HIDE DEF o
<1>3. MaxObjects \in Nat /\ v1 \in Seq(OptionSet) /\ Len(v1) \in Nat /\ v2 \in [Vars -> 0 .. Len(v1)]
  BY LenProperties DEF OptionsInv, OptionTypes
<1>4. v1' \in Seq(OptionSet) /\ Len(v1') = Len(v1) + 1
  BY <1>1, <1>2, <1>3, AppendProperties
<1>5. Len(v1') <= MaxObjects
  BY <1>2, <1>3, <1>4
<1>6. v2' \in [Vars -> 0 .. Len(v1')]
  BY <1>2, <1>3, <1>4
<1>7. OptionTypes'
  BY <1>2, <1>4, <1>5, <1>6 DEF OptionsInv, OptionTypes
<1>8. Options!CheckedCharacters'
  BY <1>2 DEF OptionsInv, Options!CheckedCharacters
<1>9. QED
  BY <1>7, <1>8 DEF OptionsInv

LEMMA SetOptionStep ==
    ASSUME OptionsInv, NEW kind \in Options!Kinds, NEW v \in Vars, NEW w \in Vars, NEW s, NEW x,
           Options!SetOption(kind, v, w, s, x)
    PROVE  OptionsInv'
<1> DEFINE o == v1[v2[v]]
           p == [[o EXCEPT !.set = [o.set EXCEPT ![s] = x]] EXCEPT !.changed = TRUE]
<1>1. /\ v2[v] # 0 /\ o.kind = kind /\ s \in Options!Settings(kind) /\ x \in Options!Values(kind)
      /\ v2' = [v2 EXCEPT ![w] = v2[v]] /\ UNCHANGED <<v3, v4>>
  BY DEF Options!SetOption
<1>2. v2[v] \in DOMAIN v1 /\ o \in OptionSet
  BY <1>1, OptionObjects
<1>3. v1' = [v1 EXCEPT ![v2[v]] = p]
  BY <1>2 DEF Options!SetOption
<1>4. p \in OptionSet
  <2>1. [o.set EXCEPT ![s] = x] \in [Options!Settings(kind) -> Options!Values(kind)]
    BY <1>1, <1>2 DEF OptionSet
  <2>2. [o.set EXCEPT ![s] = x] \in AllSettings
    BY <2>1 DEF AllSettings
  <2>3. QED
    BY <1>1, <1>2, <2>1, <2>2 DEF OptionSet
<1> HIDE DEF p
<1>5. v1 \in Seq(OptionSet) /\ v2 \in [Vars -> 0 .. Len(v1)]
  BY DEF OptionsInv, OptionTypes
<1>6. v1' \in Seq(OptionSet) /\ Len(v1') = Len(v1)
  BY <1>2, <1>3, <1>4, <1>5, SeqReplace
<1>7. v2' \in [Vars -> 0 .. Len(v1')]
  BY <1>1, <1>5, <1>6
<1>8. OptionTypes'
  BY <1>1, <1>6, <1>7 DEF OptionsInv, OptionTypes
<1>9. Options!CheckedCharacters'
  BY <1>1 DEF OptionsInv, Options!CheckedCharacters
<1>10. QED
  BY <1>8, <1>9 DEF OptionsInv

LEMMA ReadOptions ==
    ASSUME OptionsInv, NEW v \in Vars, Options!ReadCsv(v)
    PROVE  OptionsInv'
<1> DEFINE o == v1[v2[v]]
<1>1. /\ v2[v] # 0 /\ o.kind = "csv" /\ UNCHANGED <<v1, v2, v3>>
      /\ v4' = [kind |-> "csv", given |-> o.set, used |-> Options!ToInner(o.set), changed |-> o.changed]
  BY DEF Options!ReadCsv
<1>2. o \in OptionSet
  BY <1>1, OptionObjects
<1>3. /\ o.set \in [{"delimiter"} -> Options!Strings] /\ o.changed \in BOOLEAN
      /\ ~o.changed => Len(o.set["delimiter"]) = 1
  BY <1>1, <1>2, SettingsAre DEF OptionSet, Options!Values
<1> HIDE DEF o
<1>4. ~o.changed => o.set["delimiter"] = <<Options!ToInner(o.set)["delimiter"]>>
  BY <1>3, OneCharacter
<1>5. Options!CheckedCharacters'
  BY <1>1, <1>4, SettingsAre DEF Options!CheckedCharacters
<1>6. OptionTypes'
  BY <1>1 DEF OptionsInv, OptionTypes
<1>7. QED
  BY <1>5, <1>6 DEF OptionsInv

LEMMA ReadArguments ==
    ASSUME OptionsInv, NEW x \in Options!Strings, Options!ReadCsvArguments(x)
    PROVE  OptionsInv'
<1> DEFINE set == [Options!Default("csv") EXCEPT !["delimiter"] = x]
<1>1. /\ Len(x) = 1 /\ UNCHANGED <<v1, v2, v3>>
      /\ v4' = [kind |-> "csv", given |-> set, used |-> Options!ToInner(set), changed |-> FALSE]
  BY DEF Options!ReadCsvArguments, Options!Single
<1>2. set \in [{"delimiter"} -> Options!Strings] /\ set["delimiter"] = x
  BY SettingsAre DEF Options!Default, Options!Strings
<1> HIDE DEF set
<1>3. set["delimiter"] = <<Options!ToInner(set)["delimiter"]>>
  BY <1>1, <1>2, OneCharacter
<1>4. Options!CheckedCharacters'
  BY <1>1, <1>3, SettingsAre DEF Options!CheckedCharacters
<1>5. OptionTypes'
  BY <1>1 DEF OptionsInv, OptionTypes
<1>6. QED
  BY <1>4, <1>5 DEF OptionsInv

LEMMA OpenSessionStep ==
    ASSUME OptionsInv, NEW n \in OptionSessions, NEW v \in Vars, NEW w \in Vars,
           Options!OpenSession(n, v, w)
    PROVE  OptionsInv'
<1>1. /\ v3[n].kind = "none" /\ v2[v] # 0 /\ v1[v2[v]].kind = "config" /\ UNCHANGED <<v1, v2, v4>>
      /\ v3' = [v3 EXCEPT ![n] = [kind |-> "open", config |-> v1[v2[v]].set, runtime |-> v1[v2[w]].set]]
  BY DEF Options!OpenSession
<1>2. v1[v2[v]].set \in [{"batch_size"} -> 0 .. 1]
  <2>1. v1[v2[v]] \in OptionSet
    BY <1>1, OptionObjects
  <2>2. QED
    BY <1>1, <2>1, SettingsAre DEF OptionSet, Options!Values
<1>3. DOMAIN v3 = OptionSessions
  BY DEF OptionsInv, OptionTypes
<1>4. OptionTypes'
  BY <1>1, <1>2, <1>3 DEF OptionsInv, OptionTypes
<1>5. Options!CheckedCharacters'
  BY <1>1 DEF OptionsInv, Options!CheckedCharacters
<1>6. QED
  BY <1>4, <1>5 DEF OptionsInv

LEMMA OptionsInit == Options!OptionsAssumption /\ Options!Init => OptionsInv
<1> SUFFICES ASSUME Options!OptionsAssumption, Options!Init PROVE OptionsInv
  OBVIOUS
<1>1. /\ v1 = <<>> /\ v2 = [v \in Vars |-> 0] /\ MaxObjects \in Nat
      /\ v3 = [n \in OptionSessions |-> [kind |-> "none"]] /\ v4 = [kind |-> "none"]
  BY DEF Options!Init, Options!Nothing, Options!OptionsAssumption
<1>2. v1 \in Seq(OptionSet) /\ Len(v1) = 0
  BY <1>1, EmptySeq
<1>3. Len(v1) <= MaxObjects /\ v2 \in [Vars -> 0 .. Len(v1)]
  BY <1>1, <1>2
<1>4. OptionTypes
  BY <1>1, <1>2, <1>3 DEF OptionTypes
<1>5. Options!CheckedCharacters
  BY <1>1 DEF Options!CheckedCharacters
<1>6. QED
  BY <1>4, <1>5 DEF OptionsInv

LEMMA OptionsSteps ==
    ASSUME OptionsInv, Options!Next
    PROVE  OptionsInv'
<1>1. ASSUME NEW v \in Vars, Options!NewConfig(v) \/ Options!NewRuntime(v) \/ Options!NewSql(v)
      PROVE  OptionsInv'
  <2>1. PICK kind \in {"config", "runtime", "sql"} : Options!Make(v, kind, Options!Default(kind))
    BY <1>1 DEF Options!NewConfig, Options!NewRuntime, Options!NewSql
  <2>2. Options!Default(kind) \in [Options!Settings(kind) -> Options!Values(kind)]
        /\ kind \in Options!Kinds /\ kind # "csv"
    BY DEF Options!Default, Options!Values, Options!Kinds
  <2>3. QED
    BY <2>1, <2>2, MakeOption
<1>2. ASSUME NEW v \in Vars, Options!NewCsv(v) PROVE OptionsInv'
  <2>1. PICK set \in [Options!Settings("csv") -> Options!Strings] :
           (\A s \in Options!Settings("csv") : Options!Single(set[s])) /\ Options!Make(v, "csv", set)
    BY <1>2 DEF Options!NewCsv
  <2>2. /\ Len(set["delimiter"]) = 1 /\ "csv" \in Options!Kinds
        /\ set \in [Options!Settings("csv") -> Options!Values("csv")]
    BY <2>1, SettingsAre DEF Options!Single, Options!Kinds, Options!Values
  <2>3. QED
    BY <2>1, <2>2, MakeOption
<1>3. ASSUME NEW v \in Vars, NEW w \in Vars,
             \/ Options!WithConfig(v, w) \/ Options!WithRuntime(v, w) \/ Options!WithSql(v, w)
             \/ Options!WithCsv(v, w)
      PROVE  OptionsInv'
  <2>1. \E kind \in Options!Kinds : \E s, x : Options!SetOption(kind, v, w, s, x)
    BY <1>3 DEF Options!WithConfig, Options!WithRuntime, Options!WithSql, Options!WithCsv, Options!Kinds
  <2>2. QED
    BY <2>1, SetOptionStep
<1>4. ASSUME NEW n \in OptionSessions, NEW v \in Vars, Options!CopiedConfig(n, v)
      PROVE  OptionsInv'
  <2>1. v3[n].kind = "open" /\ Options!Make(v, "config", v3[n].config)
    BY <1>4 DEF Options!CopiedConfig
  <2>2. v3[n].config \in [Options!Settings("config") -> Options!Values("config")]
        /\ "config" \in Options!Kinds /\ "config" # "csv"
    BY <2>1, SettingsAre DEF OptionsInv, OptionTypes, Options!Values, Options!Kinds
  <2>3. QED
    BY <2>1, <2>2, MakeOption
<1>5. QED
  BY <1>1, <1>2, <1>3, <1>4, ReadOptions, ReadArguments, OpenSessionStep DEF Options!Next

LEMMA OptionsTyped == OptionsInv => Options!TypeOK
<1> SUFFICES ASSUME OptionsInv PROVE Options!TypeOK
  OBVIOUS
<1>1. \A i \in DOMAIN v1 : v1[i] \in OptionSet
  BY ElementOfSeq, LenProperties DEF OptionsInv, OptionTypes
<1>2. \A i \in DOMAIN v1 : /\ v1[i].kind \in Options!Kinds /\ v1[i].changed \in BOOLEAN
                           /\ v1[i].set \in [Options!Settings(v1[i].kind) -> Options!Values(v1[i].kind)]
  BY <1>1 DEF OptionSet
<1>3. QED
  BY <1>2 DEF OptionsInv, OptionTypes, Options!TypeOK

-----------------------------------------------------------------------------
(* Session namespace.                                                      *)

StateSet == 1 .. Len(lists)
ListSet == [kind : {"list", "method"}, schema : 1 .. Len(schemas)]
SchemaSet == [kind : {"memory", "python"}, tables : [TableNames -> 0 .. providers], temps : 0 .. MaxTemps]
Outs == {"returned", "raised", "replaced"}
NamespaceTypes ==
    /\ handle \in [Handles -> 0 .. Len(state)]
    /\ state \in Seq(StateSet) /\ lists \in Seq(ListSet) /\ schemas \in Seq(SchemaSet)
    /\ Len(state) > 0
    /\ providers \in 0 .. MaxProviders /\ frame \in [Frames -> 0 .. providers]
    /\ held \in 0 .. Len(schemas) /\ out \in Outs
NamespaceInv == Namespace!NamespaceAssumption /\ NamespaceTypes

NamesSafe == Namespace!NamesKeep /\ Namespace!RefusedChangesNoName

\* What an open handle reaches.
LEMMA Reached ==
    ASSUME NamespaceInv, NEW h \in Handles, Namespace!Open(h)
    PROVE  /\ handle[h] \in DOMAIN state /\ state[handle[h]] \in StateSet
           /\ state[handle[h]] \in DOMAIN lists /\ Namespace!ListOf(h) \in ListSet
           /\ Namespace!ListOf(h).schema \in DOMAIN schemas
           /\ schemas[Namespace!ListOf(h).schema] \in SchemaSet
<1>1. /\ Len(state) \in Nat /\ DOMAIN state = 1 .. Len(state)
      /\ \A i \in DOMAIN state : state[i] \in StateSet
  BY LenProperties, ElementOfSeq DEF NamespaceInv, NamespaceTypes
<1>2. DOMAIN lists = 1 .. Len(lists) /\ \A i \in DOMAIN lists : lists[i] \in ListSet
  BY LenProperties, ElementOfSeq DEF NamespaceInv, NamespaceTypes
<1>3. DOMAIN schemas = 1 .. Len(schemas) /\ \A i \in DOMAIN schemas : schemas[i] \in SchemaSet
  BY LenProperties, ElementOfSeq DEF NamespaceInv, NamespaceTypes
<1>4. handle[h] \in DOMAIN state
  BY <1>1 DEF NamespaceInv, NamespaceTypes, Namespace!Open
<1>5. state[handle[h]] \in StateSet /\ state[handle[h]] \in DOMAIN lists
  BY <1>1, <1>2, <1>4 DEF StateSet
<1>6. Namespace!ListOf(h) \in ListSet /\ Namespace!ListOf(h).schema \in DOMAIN schemas
  BY <1>2, <1>3, <1>5 DEF Namespace!ListOf, ListSet
<1>7. QED
  BY <1>3, <1>4, <1>5, <1>6

\* A step that makes no state, list or schema, and moves no handle.
LEMMA NamesStay ==
    ASSUME NamespaceInv, UNCHANGED <<handle, state, lists, schemas>>,
           providers' \in 0 .. MaxProviders, providers' >= providers,
           frame' \in [Frames -> 0 .. providers'], held' \in 0 .. Len(schemas), out' \in Outs
    PROVE  NamespaceInv' /\ NamesSafe
<1>1. 0 .. providers \subseteq 0 .. providers'
  BY DEF NamespaceInv, NamespaceTypes, Namespace!NamespaceAssumption
<1>2. SchemaSet \subseteq SchemaSet'
  BY <1>1 DEF SchemaSet
<1>3. schemas' \in Seq(SchemaSet')
  BY <1>2, SeqWiden DEF NamespaceInv, NamespaceTypes
<1>4. NamespaceTypes'
  BY <1>3 DEF NamespaceInv, NamespaceTypes, StateSet, ListSet
<1>5. NamesSafe
  BY DEF NamesSafe, Namespace!NamesKeep, Namespace!RefusedChangesNoName
<1>6. QED
  BY <1>4, <1>5 DEF NamespaceInv, Namespace!NamespaceAssumption

\* A step that changes one schema: if it is one in memory, a name there keeps its provider
\* unless the statement replaces it, and a call that raises changes none.
LEMMA SchemaStep ==
    ASSUME NamespaceInv, UNCHANGED <<handle, state, lists>>,
           providers' \in 0 .. MaxProviders, providers' >= providers,
           frame' \in [Frames -> 0 .. providers'], held' = held, out' \in Outs,
           NEW c \in DOMAIN schemas, NEW s \in SchemaSet', schemas' = [schemas EXCEPT ![c] = s],
           schemas[c].kind = "memory" =>
              /\ \A n \in TableNames : schemas[c].tables[n] # 0 =>
                    s.tables[n] \in {0, schemas[c].tables[n]} \/ out' = "replaced"
              /\ out' = "raised" => s.tables = schemas[c].tables
    PROVE  NamespaceInv' /\ NamesSafe
<1>1. 0 .. providers \subseteq 0 .. providers'
  BY DEF NamespaceInv, NamespaceTypes, Namespace!NamespaceAssumption
<1>2. SchemaSet \subseteq SchemaSet'
  BY <1>1 DEF SchemaSet
<1>3. schemas \in Seq(SchemaSet')
  BY <1>2, SeqWiden DEF NamespaceInv, NamespaceTypes
<1>4. schemas' \in Seq(SchemaSet') /\ Len(schemas') = Len(schemas) /\ DOMAIN schemas' = DOMAIN schemas
  BY <1>3, SeqReplace
<1>5. NamespaceTypes'
  BY <1>4 DEF NamespaceInv, NamespaceTypes, StateSet, ListSet
<1>6. \A d \in DOMAIN schemas : schemas'[d] = IF d = c THEN s ELSE schemas[d]
  OBVIOUS
<1>7. Namespace!NamesKeep
  BY <1>6 DEF Namespace!NamesKeep, Namespace!Absent, Namespace!Replaced
<1>8. Namespace!RefusedChangesNoName
  BY <1>6 DEF Namespace!RefusedChangesNoName, Namespace!Raised
<1>9. QED
  BY <1>5, <1>7, <1>8 DEF NamespaceInv, NamesSafe, Namespace!NamespaceAssumption

\* A step that only adds: every schema there was is as it was.
LEMMA GrowStep ==
    ASSUME NamespaceInv, UNCHANGED <<providers, frame, held>>, out' = "returned",
           handle' \in [Handles -> 0 .. Len(state')],
           state' \in Seq(StateSet'), Len(state') > 0,
           lists' \in Seq(ListSet'), schemas' \in Seq(SchemaSet'),
           Len(schemas') >= Len(schemas), \A c \in DOMAIN schemas : schemas'[c] = schemas[c]
    PROVE  NamespaceInv' /\ NamesSafe
<1>1. held' \in 0 .. Len(schemas')
  BY LenProperties DEF NamespaceInv, NamespaceTypes
<1>2. NamespaceTypes'
  BY <1>1 DEF NamespaceInv, NamespaceTypes, Outs
<1>3. NamesSafe
  BY DEF NamesSafe, Namespace!NamesKeep, Namespace!RefusedChangesNoName, Namespace!Raised
<1>4. QED
  BY <1>2, <1>3 DEF NamespaceInv, Namespace!NamespaceAssumption

LEMMA EmptySchemaTyped ==
    ASSUME NamespaceInv, NEW kind \in {"memory", "python"}
    PROVE  Namespace!EmptySchema(kind) \in SchemaSet
  BY DEF NamespaceInv, NamespaceTypes, Namespace!NamespaceAssumption, Namespace!EmptySchema,
         Namespace!Absent, SchemaSet

\* A schema is added at the end.
LEMMA SchemaAdded ==
    ASSUME NamespaceInv, NEW kind \in {"memory", "python"}, UNCHANGED providers,
           schemas' = Append(schemas, Namespace!EmptySchema(kind))
    PROVE  /\ schemas' \in Seq(SchemaSet') /\ Len(schemas') = Len(schemas) + 1
           /\ Len(schemas) \in Nat /\ \A c \in DOMAIN schemas : schemas'[c] = schemas[c]
           /\ ListSet \subseteq [kind : {"list", "method"}, schema : 1 .. Len(schemas')]
<1>1. SchemaSet' = SchemaSet
  BY DEF SchemaSet
<1>2. schemas \in Seq(SchemaSet) /\ Namespace!EmptySchema(kind) \in SchemaSet
  BY EmptySchemaTyped DEF NamespaceInv, NamespaceTypes
<1>3. /\ schemas' \in Seq(SchemaSet) /\ Len(schemas') = Len(schemas) + 1
      /\ \A c \in 1 .. Len(schemas) : schemas'[c] = schemas[c]
  BY <1>2, AppendProperties
<1>4. Len(schemas) \in Nat /\ DOMAIN schemas = 1 .. Len(schemas)
  BY <1>2, LenProperties
<1>5. QED
  BY <1>1, <1>3, <1>4 DEF ListSet

LEMMA GlobalCtxStep ==
    ASSUME NamespaceInv, NEW h \in Handles, Namespace!GlobalCtx(h)
    PROVE  NamespaceInv' /\ NamesSafe
<1>1. /\ ~Namespace!Open(h) /\ handle' = [handle EXCEPT ![h] = 1]
      /\ out' = "returned" /\ UNCHANGED <<state, lists, schemas, providers, frame, held>>
  BY DEF Namespace!GlobalCtx, Namespace!Ok
<1>2. Len(state) \in Nat /\ Len(schemas) \in Nat
  BY LenProperties DEF NamespaceInv, NamespaceTypes
<1>3. handle' \in [Handles -> 0 .. Len(state')]
  BY <1>1, <1>2 DEF NamespaceInv, NamespaceTypes
<1>4. state' \in Seq(StateSet') /\ lists' \in Seq(ListSet') /\ schemas' \in Seq(SchemaSet') /\ Len(state') > 0
  BY <1>1 DEF NamespaceInv, NamespaceTypes, StateSet, ListSet, SchemaSet
<1>5. QED
  BY <1>1, <1>2, <1>3, <1>4, GrowStep

LEMMA DeriveStep ==
    ASSUME NamespaceInv, NEW h \in Handles, NEW g \in Handles, Namespace!Derive(h, g)
    PROVE  NamespaceInv' /\ NamesSafe
<1>1. /\ Namespace!Open(h) /\ ~Namespace!Open(g) /\ handle' = [handle EXCEPT ![g] = handle[h]]
      /\ out' = "returned" /\ UNCHANGED <<state, lists, schemas, providers, frame, held>>
  BY DEF Namespace!Derive, Namespace!Ok
<1>2. Len(state) \in Nat /\ Len(schemas) \in Nat /\ handle[h] \in 0 .. Len(state)
  BY LenProperties DEF NamespaceInv, NamespaceTypes
<1>3. handle' \in [Handles -> 0 .. Len(state')]
  BY <1>1, <1>2 DEF NamespaceInv, NamespaceTypes
<1>4. state' \in Seq(StateSet') /\ lists' \in Seq(ListSet') /\ schemas' \in Seq(SchemaSet') /\ Len(state') > 0
  BY <1>1 DEF NamespaceInv, NamespaceTypes, StateSet, ListSet, SchemaSet
<1>5. QED
  BY <1>1, <1>2, <1>3, <1>4, GrowStep

LEMMA EnableUrlTableStep ==
    ASSUME NamespaceInv, NEW h \in Handles, NEW g \in Handles, Namespace!EnableUrlTable(h, g)
    PROVE  NamespaceInv' /\ NamesSafe
<1>1. /\ Namespace!Open(h) /\ ~Namespace!Open(g) /\ state' = Append(state, state[handle[h]])
      /\ handle' = [handle EXCEPT ![g] = Len(state')]
      /\ out' = "returned" /\ UNCHANGED <<lists, schemas, providers, frame, held>>
  BY DEF Namespace!EnableUrlTable, Namespace!Ok
<1>2. state \in Seq(StateSet) /\ state[handle[h]] \in StateSet
  BY <1>1, Reached DEF NamespaceInv, NamespaceTypes
<1>3. state' \in Seq(StateSet) /\ Len(state') = Len(state) + 1
  BY <1>1, <1>2, AppendProperties
<1>4. Len(state) \in Nat /\ Len(schemas) \in Nat
  BY LenProperties DEF NamespaceInv, NamespaceTypes
<1>5. handle' \in [Handles -> 0 .. Len(state')]
  BY <1>1, <1>3, <1>4 DEF NamespaceInv, NamespaceTypes
<1>6. state' \in Seq(StateSet') /\ lists' \in Seq(ListSet') /\ schemas' \in Seq(SchemaSet') /\ Len(state') > 0
  BY <1>1, <1>3, <1>4 DEF NamespaceInv, NamespaceTypes, StateSet, ListSet, SchemaSet
<1>7. QED
  BY <1>1, <1>4, <1>5, <1>6, GrowStep

\* A list is added over the schema that was added last.
LEMMA ListAdded ==
    ASSUME NamespaceInv, NEW kind \in {"list", "method"}, UNCHANGED providers,
           schemas' = Append(schemas, Namespace!EmptySchema("memory")),
           lists' = Append(lists, [kind |-> kind, schema |-> Len(schemas')])
    PROVE  /\ lists' \in Seq(ListSet') /\ Len(lists') = Len(lists) + 1 /\ Len(lists) \in Nat
           /\ StateSet \subseteq StateSet' /\ Len(lists') \in StateSet'
<1>1. /\ schemas' \in Seq(SchemaSet') /\ Len(schemas') = Len(schemas) + 1 /\ Len(schemas) \in Nat
      /\ ListSet \subseteq [kind : {"list", "method"}, schema : 1 .. Len(schemas')]
  BY SchemaAdded
<1>2. ListSet' = [kind : {"list", "method"}, schema : 1 .. Len(schemas')]
  BY DEF ListSet
<1>3. lists \in Seq(ListSet')
  <2>1. lists \in Seq(ListSet)
    BY DEF NamespaceInv, NamespaceTypes
  <2>2. ListSet \subseteq ListSet'
    BY <1>1, <1>2
  <2>3. QED
    BY <2>1, <2>2, SeqWiden
<1>4. [kind |-> kind, schema |-> Len(schemas')] \in ListSet'
  BY <1>1, <1>2
<1>5. lists' \in Seq(ListSet') /\ Len(lists') = Len(lists) + 1
  BY <1>3, <1>4, AppendProperties
<1>6. Len(lists) \in Nat
  BY <1>3, LenProperties
<1>7. QED
  BY <1>5, <1>6 DEF StateSet

LEMMA NewSessionStep ==
    ASSUME NamespaceInv, NEW h \in Handles, Namespace!NewSession(h)
    PROVE  NamespaceInv' /\ NamesSafe
<1>1. /\ ~Namespace!Open(h) /\ schemas' = Append(schemas, Namespace!EmptySchema("memory"))
      /\ lists' = Append(lists, [kind |-> "list", schema |-> Len(schemas')])
      /\ state' = Append(state, Len(lists'))
      /\ handle' = [handle EXCEPT ![h] = Len(state')]
      /\ out' = "returned" /\ UNCHANGED <<providers, frame, held>>
  BY DEF Namespace!NewSession, Namespace!Ok
<1>2. /\ schemas' \in Seq(SchemaSet') /\ Len(schemas') = Len(schemas) + 1 /\ Len(schemas) \in Nat
      /\ \A c \in DOMAIN schemas : schemas'[c] = schemas[c]
  BY <1>1, SchemaAdded
<1>3. /\ lists' \in Seq(ListSet') /\ Len(lists') = Len(lists) + 1 /\ Len(lists) \in Nat
      /\ StateSet \subseteq StateSet' /\ Len(lists') \in StateSet'
  BY <1>1, ListAdded
<1>4. state \in Seq(StateSet')
  <2>1. state \in Seq(StateSet)
    BY DEF NamespaceInv, NamespaceTypes
  <2>2. QED
    BY <1>3, <2>1, SeqWiden
<1>5. state' \in Seq(StateSet') /\ Len(state') = Len(state) + 1 /\ Len(state) \in Nat
  BY <1>1, <1>3, <1>4, AppendProperties, LenProperties
<1>6. handle' \in [Handles -> 0 .. Len(state')]
  BY <1>1, <1>5 DEF NamespaceInv, NamespaceTypes
<1>7. QED
  BY <1>1, <1>2, <1>3, <1>5, <1>6, GrowStep

LEMMA RegisterCatalogListStep ==
    ASSUME NamespaceInv, NEW h \in Handles, NEW b \in BOOLEAN, Namespace!RegisterCatalogList(h, b)
    PROVE  NamespaceInv' /\ NamesSafe
<1> DEFINE kind == IF b THEN "method" ELSE "list"
<1>1. /\ Namespace!Open(h) /\ schemas' = Append(schemas, Namespace!EmptySchema("memory"))
      /\ lists' = Append(lists, [kind |-> kind, schema |-> Len(schemas')])
      /\ state' = [state EXCEPT ![handle[h]] = Len(lists')]
      /\ out' = "returned" /\ UNCHANGED <<handle, providers, frame, held>>
  BY DEF Namespace!RegisterCatalogList, Namespace!Ok
<1>2. kind \in {"list", "method"}
  OBVIOUS
<1> HIDE DEF kind
<1>3. /\ schemas' \in Seq(SchemaSet') /\ Len(schemas') = Len(schemas) + 1 /\ Len(schemas) \in Nat
      /\ \A c \in DOMAIN schemas : schemas'[c] = schemas[c]
  BY <1>1, SchemaAdded
<1>4. /\ lists' \in Seq(ListSet') /\ Len(lists') = Len(lists) + 1 /\ Len(lists) \in Nat
      /\ StateSet \subseteq StateSet' /\ Len(lists') \in StateSet'
  BY <1>1, <1>2, ListAdded
<1>5. handle[h] \in DOMAIN state /\ state[handle[h]] \in StateSet
  BY <1>1, Reached
<1>6. state \in Seq(StateSet')
  <2>1. state \in Seq(StateSet)
    BY DEF NamespaceInv, NamespaceTypes
  <2>2. QED
    BY <1>4, <2>1, SeqWiden
<1>7. state' \in Seq(StateSet') /\ Len(state') = Len(state)
  BY <1>1, <1>4, <1>5, <1>6, SeqReplace
<1>8. QED
  BY <1>1, <1>3, <1>4, <1>7, GrowStep DEF NamespaceInv, NamespaceTypes

LEMMA RegisterCatalogStep ==
    ASSUME NamespaceInv, NEW h \in Handles, NEW kind \in {"memory", "python"},
           Namespace!RegisterCatalog(h, kind)
    PROVE  NamespaceInv' /\ NamesSafe
<1> DEFINE l == state[handle[h]]
<1>1. /\ Namespace!Open(h) /\ schemas' = Append(schemas, Namespace!EmptySchema(kind))
      /\ lists' = [lists EXCEPT ![l].schema = Len(schemas')]
      /\ out' = "returned" /\ UNCHANGED <<handle, state, providers, frame, held>>
  BY DEF Namespace!RegisterCatalog, Namespace!Ok
<1>2. /\ schemas' \in Seq(SchemaSet') /\ Len(schemas') = Len(schemas) + 1 /\ Len(schemas) \in Nat
      /\ \A c \in DOMAIN schemas : schemas'[c] = schemas[c]
      /\ ListSet \subseteq [kind : {"list", "method"}, schema : 1 .. Len(schemas')]
  BY <1>1, SchemaAdded
<1>3. ListSet' = [kind : {"list", "method"}, schema : 1 .. Len(schemas')]
  BY DEF ListSet
<1>4. l \in DOMAIN lists /\ lists[l] \in ListSet
  BY <1>1, Reached DEF Namespace!ListOf
<1> HIDE DEF l
<1>5. [lists[l] EXCEPT !.schema = Len(schemas')] \in ListSet' /\ lists \in Seq(ListSet')
  <2>1. lists \in Seq(ListSet')
    <3>1. lists \in Seq(ListSet)
      BY DEF NamespaceInv, NamespaceTypes
    <3>2. ListSet \subseteq ListSet'
      BY <1>2, <1>3
    <3>3. QED
      BY <3>1, <3>2, SeqWiden
  <2>2. QED
    BY <1>2, <1>3, <1>4, <2>1
<1>6. lists' = [lists EXCEPT ![l] = [lists[l] EXCEPT !.schema = Len(schemas')]]
  BY <1>1
<1>7. lists' \in Seq(ListSet') /\ Len(lists') = Len(lists)
  BY <1>4, <1>5, <1>6, SeqReplace
<1>8. state' \in Seq(StateSet')
  BY <1>1, <1>7 DEF NamespaceInv, NamespaceTypes, StateSet
<1>9. QED
  BY <1>1, <1>2, <1>7, <1>8, GrowStep DEF NamespaceInv, NamespaceTypes

\* A call through a session that has no schema.
LEMMA NoSchemaStep ==
    ASSUME NamespaceInv, NEW h \in Handles, Namespace!NoSchema(h), frame' \in [Frames -> 0 .. providers']
    PROVE  NamespaceInv' /\ NamesSafe
<1>1. UNCHANGED <<handle, state, lists, schemas, providers, held>> /\ out' = "raised"
  BY DEF Namespace!NoSchema, Namespace!Raised
<1>2. providers \in Nat /\ providers \in 0 .. MaxProviders /\ held \in 0 .. Len(schemas)
  BY DEF NamespaceInv, NamespaceTypes, Namespace!NamespaceAssumption
<1>3. providers' \in 0 .. MaxProviders /\ providers' >= providers /\ held' \in 0 .. Len(schemas)
  BY <1>1, <1>2
<1>4. QED
  BY <1>1, <1>3, NamesStay DEF Outs

\* A name of one schema is bound to a provider, old or new, or to none.
LEMMA BoundStep ==
    ASSUME NamespaceInv, UNCHANGED <<handle, state, lists, held>>,
           providers' \in 0 .. MaxProviders, providers' >= providers,
           frame' \in [Frames -> 0 .. providers'], out' \in Outs,
           NEW c \in DOMAIN schemas, NEW n \in TableNames, NEW t \in 0 .. providers',
           schemas' = Namespace!Bound(c, n, t),
           schemas[c].kind = "memory" =>
              /\ schemas[c].tables[n] # 0 => t \in {0, schemas[c].tables[n]}
              /\ out' = "raised" => t = schemas[c].tables[n]
    PROVE  NamespaceInv' /\ NamesSafe
<1> DEFINE s == [schemas[c] EXCEPT !.tables = [schemas[c].tables EXCEPT ![n] = t]]
<1>1. schemas[c] \in SchemaSet
  BY ElementOfSeq, LenProperties DEF NamespaceInv, NamespaceTypes
<1>2. 0 .. providers \subseteq 0 .. providers'
  BY DEF NamespaceInv, NamespaceTypes, Namespace!NamespaceAssumption
<1>3. schemas[c].tables \in [TableNames -> 0 .. providers']
  BY <1>1, <1>2 DEF SchemaSet
<1>4. s \in SchemaSet' /\ s.tables = [schemas[c].tables EXCEPT ![n] = t]
  BY <1>1, <1>3 DEF SchemaSet
<1>5. schemas' = [schemas EXCEPT ![c] = s]
  BY DEF Namespace!Bound
<1> HIDE DEF s
<1>6. schemas[c].kind = "memory" =>
         /\ \A m \in TableNames : schemas[c].tables[m] # 0 =>
               s.tables[m] \in {0, schemas[c].tables[m]} \/ out' = "replaced"
         /\ out' = "raised" => s.tables = schemas[c].tables
  BY <1>3, <1>4
<1>7. QED
  BY <1>4, <1>5, <1>6, SchemaStep

\* A new provider for a name: what the schema makes of it.
LEMMA BindStep ==
    ASSUME NamespaceInv, NEW c \in DOMAIN schemas, NEW n \in TableNames, Namespace!Bind(c, n),
           UNCHANGED <<handle, state, lists, held>>, frame' \in [Frames -> 0 .. providers']
    PROVE  NamespaceInv' /\ NamesSafe
<1>1. /\ providers < MaxProviders /\ providers' = providers + 1 /\ out' \in {"returned", "raised"}
      /\ \/ out' = "raised" /\ UNCHANGED schemas
         \/ /\ schemas[c].kind = "memory" => schemas[c].tables[n] = 0
            /\ out' = "returned" /\ schemas' = Namespace!Bound(c, n, providers')
         \/ /\ schemas[c].kind = "python"
            /\ \E t \in {schemas[c].tables[n], providers'} : schemas' = Namespace!Bound(c, n, t)
  BY DEF Namespace!Bind, Namespace!Taken, Namespace!Ok, Namespace!Raised, Namespace!Absent
<1>2. /\ providers \in Nat /\ MaxProviders \in Nat /\ held \in 0 .. Len(schemas)
      /\ schemas[c] \in SchemaSet
  BY ElementOfSeq, LenProperties DEF NamespaceInv, NamespaceTypes, Namespace!NamespaceAssumption
<1>3. providers' \in 0 .. MaxProviders /\ providers' >= providers /\ providers' \in 0 .. providers'
  BY <1>1, <1>2
<1>4. schemas[c].tables[n] \in 0 .. providers'
  BY <1>1, <1>2 DEF SchemaSet
<1>5. CASE out' = "raised" /\ UNCHANGED schemas
  BY <1>2, <1>3, <1>5, NamesStay DEF Outs
<1>6. CASE /\ schemas[c].kind = "memory" => schemas[c].tables[n] = 0
           /\ out' = "returned" /\ schemas' = Namespace!Bound(c, n, providers')
  BY <1>3, <1>6, BoundStep DEF Outs
<1>7. CASE /\ schemas[c].kind = "python"
           /\ \E t \in {schemas[c].tables[n], providers'} : schemas' = Namespace!Bound(c, n, t)
  <2>1. PICK t \in {schemas[c].tables[n], providers'} : schemas' = Namespace!Bound(c, n, t)
    BY <1>7
  <2>2. t \in 0 .. providers' /\ out' \in Outs
    BY <1>1, <1>3, <1>4 DEF Outs
  <2>3. QED
    BY <1>3, <1>7, <2>1, <2>2, BoundStep
<1>8. QED
  BY <1>1, <1>5, <1>6, <1>7

\* A name taken away, or left by a schema in Python.
LEMMA UnbindStep ==
    ASSUME NamespaceInv, NEW c \in DOMAIN schemas, NEW n \in TableNames, Namespace!Unbind(c, n),
           UNCHANGED <<handle, state, lists, providers, frame, held>>
    PROVE  NamespaceInv' /\ NamesSafe
<1>1. PICK t \in {schemas[c].tables[n], 0} :
         /\ schemas' = Namespace!Bound(c, n, t) /\ out' \in {"returned", "raised"}
         /\ schemas[c].kind = "memory" => out' = "returned" /\ t = 0
  BY DEF Namespace!Unbind, Namespace!Ok, Namespace!Raised, Namespace!Absent
<1>2. /\ providers \in Nat /\ providers \in 0 .. MaxProviders /\ frame \in [Frames -> 0 .. providers]
      /\ schemas[c] \in SchemaSet
  BY ElementOfSeq, LenProperties DEF NamespaceInv, NamespaceTypes, Namespace!NamespaceAssumption
<1>3. providers' \in 0 .. MaxProviders /\ providers' >= providers /\ frame' \in [Frames -> 0 .. providers']
  BY <1>2
<1>4. t \in 0 .. providers' /\ out' \in Outs
  BY <1>1, <1>2 DEF SchemaSet, Outs
<1>5. QED
  BY <1>1, <1>3, <1>4, BoundStep

LEMMA PutStep ==
    ASSUME NamespaceInv, NEW h \in Handles, NEW n \in TableNames, Namespace!Put(h, n),
           frame' \in [Frames -> 0 .. providers']
    PROVE  NamespaceInv' /\ NamesSafe
<1>1. CASE Namespace!NoSchema(h)
  BY <1>1, NoSchemaStep
<1>2. CASE /\ Namespace!Listed(h) /\ Namespace!Bind(Namespace!ListOf(h).schema, n)
           /\ UNCHANGED <<handle, state, lists, held>>
  <2>1. Namespace!ListOf(h).schema \in DOMAIN schemas
    BY <1>2, Reached DEF Namespace!Listed
  <2>2. QED
    BY <1>2, <2>1, BindStep
<1>3. QED
  BY <1>1, <1>2 DEF Namespace!Put

\* A generated name is added, or a schema in Python refuses it.
LEMMA PutTempStep ==
    ASSUME NamespaceInv, NEW h \in Handles, Namespace!PutTemp(h),
           frame' \in [Frames -> 0 .. providers'], out' \in {"returned", "raised"}
    PROVE  NamespaceInv' /\ NamesSafe
<1> DEFINE c == Namespace!ListOf(h).schema
           s == [schemas[c] EXCEPT !.temps = @ + 1]
<1>1. CASE Namespace!NoSchema(h)
  BY <1>1, NoSchemaStep
<1>2. CASE ~Namespace!NoSchema(h)
  <2>1. /\ Namespace!Open(h) /\ providers < MaxProviders /\ providers' = providers + 1
        /\ UNCHANGED <<handle, state, lists, held>>
        /\ \/ schemas[c].temps < MaxTemps /\ schemas' = [schemas EXCEPT ![c] = s]
           \/ UNCHANGED schemas
    BY <1>2 DEF Namespace!PutTemp, Namespace!Listed
  <2>2. c \in DOMAIN schemas /\ schemas[c] \in SchemaSet
    BY <2>1, Reached
  <2>3. /\ providers' \in 0 .. MaxProviders /\ providers' >= providers /\ providers \in Nat
        /\ MaxTemps \in Nat /\ held \in 0 .. Len(schemas) /\ out' \in Outs
    BY <2>1 DEF NamespaceInv, NamespaceTypes, Namespace!NamespaceAssumption, Outs
  <2>4. CASE UNCHANGED schemas
    BY <2>1, <2>3, <2>4, NamesStay
  <2>5. CASE schemas[c].temps < MaxTemps /\ schemas' = [schemas EXCEPT ![c] = s]
    <3> HIDE DEF c
    <3>1. 0 .. providers \subseteq 0 .. providers' /\ schemas[c].temps + 1 \in 0 .. MaxTemps
      BY <2>1, <2>2, <2>3, <2>5 DEF SchemaSet
    <3>2. schemas[c].tables \in [TableNames -> 0 .. providers']
      BY <2>2, <3>1 DEF SchemaSet
    <3>3. s \in SchemaSet' /\ s.tables = schemas[c].tables
      BY <2>2, <3>1, <3>2 DEF SchemaSet
    <3> HIDE DEF s
    <3>4. QED
      BY <2>1, <2>2, <2>3, <2>5, <3>3, SchemaStep
  <2>6. QED
    BY <2>1, <2>4, <2>5
<1>3. QED
  BY <1>1, <1>2

LEMMA DeregisterTableStep ==
    ASSUME NamespaceInv, NEW h \in Handles, NEW n \in TableNames, Namespace!DeregisterTable(h, n)
    PROVE  NamespaceInv' /\ NamesSafe
<1>1. CASE Namespace!NoSchema(h)
  <2>1. frame' \in [Frames -> 0 .. providers']
    BY <1>1 DEF Namespace!DeregisterTable, Namespace!NoSchema, NamespaceInv, NamespaceTypes
  <2>2. QED
    BY <1>1, <2>1, NoSchemaStep
<1>2. CASE /\ Namespace!Listed(h) /\ Namespace!Unbind(Namespace!ListOf(h).schema, n)
           /\ UNCHANGED <<handle, state, lists, providers, held, frame>>
  <2>1. Namespace!ListOf(h).schema \in DOMAIN schemas
    BY <1>2, Reached DEF Namespace!Listed
  <2>2. QED
    BY <1>2, <2>1, UnbindStep
<1>3. QED
  BY <1>1, <1>2 DEF Namespace!DeregisterTable

\* Through a schema object that the program keeps.
LEMMA HeldSchemaStep ==
    ASSUME NamespaceInv, NEW n \in TableNames, Namespace!SchemaRegister(n) \/ Namespace!SchemaDeregister(n)
    PROVE  NamespaceInv' /\ NamesSafe
<1>1. held # 0 /\ UNCHANGED <<handle, state, lists, frame, held>>
  BY DEF Namespace!SchemaRegister, Namespace!SchemaDeregister
<1>2. /\ schemas \in Seq(SchemaSet) /\ held \in 0 .. Len(schemas) /\ frame \in [Frames -> 0 .. providers]
      /\ providers \in Nat
  BY DEF NamespaceInv, NamespaceTypes, Namespace!NamespaceAssumption
<1>3. held \in DOMAIN schemas
  BY <1>1, <1>2, LenProperties
<1>4. CASE Namespace!SchemaRegister(n)
  <2>1. Namespace!Bind(held, n) /\ providers' = providers + 1
    BY <1>4 DEF Namespace!SchemaRegister, Namespace!Bind
  <2>2. frame' \in [Frames -> 0 .. providers']
    BY <1>1, <1>2, <2>1
  <2>3. QED
    BY <1>1, <1>3, <2>1, <2>2, BindStep
<1>5. CASE Namespace!SchemaDeregister(n)
  <2>1. Namespace!Unbind(held, n) /\ UNCHANGED providers
    BY <1>5 DEF Namespace!SchemaDeregister
  <2>2. QED
    BY <1>1, <1>3, <2>1, UnbindStep
<1>6. QED
  BY <1>4, <1>5

LEMMA HoldSchemaStep ==
    ASSUME NamespaceInv, NEW h \in Handles, Namespace!HoldSchema(h)
    PROVE  NamespaceInv' /\ NamesSafe
<1>1. /\ Namespace!Open(h) /\ held' = Namespace!ListOf(h).schema /\ out' = "returned"
      /\ UNCHANGED <<handle, state, lists, schemas, providers, frame>>
  BY DEF Namespace!HoldSchema, Namespace!Ok
<1>2. /\ Len(schemas) \in Nat /\ DOMAIN schemas = 1 .. Len(schemas)
      /\ providers \in Nat /\ providers \in 0 .. MaxProviders /\ frame \in [Frames -> 0 .. providers]
  BY LenProperties DEF NamespaceInv, NamespaceTypes, Namespace!NamespaceAssumption
<1>3. held' \in 0 .. Len(schemas)
  <2>1. Namespace!ListOf(h).schema \in DOMAIN schemas
    BY <1>1, Reached
  <2>2. QED
    BY <1>1, <1>2, <2>1
<1>4. /\ providers' \in 0 .. MaxProviders /\ providers' >= providers
      /\ frame' \in [Frames -> 0 .. providers'] /\ out' \in {"returned", "raised"}
  BY <1>1, <1>2
<1>5. QED
  BY <1>1, <1>3, <1>4, NamesStay DEF Outs

\* A call that touches no name: it makes a frame, or raises, or only reads.
LEMMA FrameStep ==
    ASSUME NamespaceInv, UNCHANGED <<handle, state, lists, schemas, held>>,
           providers' = providers \/ (providers < MaxProviders /\ providers' = providers + 1),
           NEW f, NEW p \in 0 .. providers',
           frame' = frame \/ frame' = [frame EXCEPT ![f] = p], out' \in {"returned", "raised"}
    PROVE  NamespaceInv' /\ NamesSafe
<1>1. /\ providers \in Nat /\ MaxProviders \in Nat /\ providers \in 0 .. MaxProviders
      /\ frame \in [Frames -> 0 .. providers] /\ held \in 0 .. Len(schemas)
  BY DEF NamespaceInv, NamespaceTypes, Namespace!NamespaceAssumption
<1>2. providers' \in 0 .. MaxProviders /\ providers' >= providers /\ held' \in 0 .. Len(schemas)
  BY <1>1
<1>3. frame' \in [Frames -> 0 .. providers']
  BY <1>1, <1>2
<1>4. QED
  BY <1>2, <1>3, NamesStay DEF Outs

LEMMA ReadFileStep ==
    ASSUME NamespaceInv, NEW f, NEW types, Namespace!ReadFile(f, types)
    PROVE  NamespaceInv' /\ NamesSafe
<1>1. providers \in Nat
  BY DEF NamespaceInv, NamespaceTypes, Namespace!NamespaceAssumption
<1>2. /\ UNCHANGED <<handle, state, lists, schemas, held>> /\ out' \in {"returned", "raised"}
      /\ \/ providers' = providers /\ frame' = frame
         \/ /\ providers < MaxProviders /\ providers' = providers + 1
            /\ frame' = [frame EXCEPT ![f] = providers']
  BY DEF Namespace!ReadFile, Namespace!Ok, Namespace!Raised
<1>3. providers' \in 0 .. providers'
  BY <1>1, <1>2
<1>4. QED
  BY <1>2, <1>3, FrameStep

LEMMA TableFrameStep ==
    ASSUME NamespaceInv, NEW h \in Handles, NEW n \in TableNames, NEW f, Namespace!TableFrame(h, n, f)
    PROVE  NamespaceInv' /\ NamesSafe
<1>1. /\ Namespace!Open(h) /\ UNCHANGED <<handle, state, lists, schemas, providers, held>>
      /\ out' \in {"returned", "raised"}
      /\ frame' = frame \/ frame' = [frame EXCEPT ![f] = Namespace!Tables(h)[n]]
  BY DEF Namespace!TableFrame, Namespace!Ok, Namespace!Raised
<1>2. providers \in Nat
  BY DEF NamespaceInv, NamespaceTypes, Namespace!NamespaceAssumption
<1>3. schemas[Namespace!ListOf(h).schema] \in SchemaSet
  BY <1>1, Reached
<1>4. Namespace!Tables(h)[n] \in 0 .. providers'
  BY <1>1, <1>2, <1>3 DEF Namespace!Tables, Namespace!Absent, SchemaSet
<1>5. QED
  BY <1>1, <1>4, FrameStep

\* A call that registers, and may bind a frame to what it registered.
LEMMA PutFrame ==
    ASSUME NamespaceInv, NEW f, providers' \in {providers, providers + 1}, NEW p \in 0 .. providers',
           frame' = frame \/ frame' = [frame EXCEPT ![f] = p]
    PROVE  frame' \in [Frames -> 0 .. providers']
<1>1. providers \in Nat /\ frame \in [Frames -> 0 .. providers]
  BY DEF NamespaceInv, NamespaceTypes, Namespace!NamespaceAssumption
<1>2. frame \in [Frames -> 0 .. providers']
  BY <1>1
<1>3. QED
  BY <1>2

LEMMA PutMakes ==
    ASSUME NamespaceInv, NEW h, NEW n, Namespace!Put(h, n) \/ Namespace!PutTemp(h)
    PROVE  providers' \in {providers, providers + 1} /\ 0 \in 0 .. providers' /\ providers' \in 0 .. providers'
<1>1. providers' = providers \/ providers' = providers + 1
  BY DEF Namespace!Put, Namespace!PutTemp, Namespace!NoSchema, Namespace!Bind
<1>2. providers \in Nat
  BY DEF NamespaceInv, NamespaceTypes, Namespace!NamespaceAssumption
<1>3. QED
  BY <1>1, <1>2

LEMMA RegisterTableStep ==
    ASSUME NamespaceInv, NEW h \in Handles, NEW n \in TableNames, Namespace!Put(h, n), UNCHANGED frame
    PROVE  NamespaceInv' /\ NamesSafe
  BY PutMakes, PutFrame, PutStep

LEMMA RegisterFileStep ==
    ASSUME NamespaceInv, NEW h \in Handles, NEW n \in TableNames, NEW types,
           Namespace!RegisterFile(h, n, types)
    PROVE  NamespaceInv' /\ NamesSafe
<1>1. CASE Namespace!Put(h, n) /\ UNCHANGED frame
  BY <1>1, RegisterTableStep
<1>2. CASE out' = "raised" /\ UNCHANGED <<handle, state, lists, schemas, providers, frame, held>>
  <2>1. 0 \in 0 .. providers'
    BY <1>2 DEF NamespaceInv, NamespaceTypes, Namespace!NamespaceAssumption
  <2>2. QED
    BY <1>2, <2>1, FrameStep
<1>3. QED
  BY <1>1, <1>2 DEF Namespace!RegisterFile, Namespace!Raised

\* The frame of a name that was put: what the schema has there now.
LEMMA CreateDataframeStep ==
    ASSUME NamespaceInv, NEW h \in Handles, NEW n \in TableNames, NEW f, Namespace!CreateDataframe(h, n, f)
    PROVE  NamespaceInv' /\ NamesSafe
<1> DEFINE c == Namespace!ListOf(h).schema
           read == schemas'[c].tables[n]
<1>1. /\ Namespace!Put(h, n)
      /\ \/ out' = "returned" /\ frame' = [frame EXCEPT ![f] = read]
         \/ UNCHANGED frame
  BY DEF Namespace!CreateDataframe, Namespace!Ok
<1>2. CASE UNCHANGED frame
  BY <1>1, <1>2, RegisterTableStep
<1>3. CASE out' = "returned" /\ frame' = [frame EXCEPT ![f] = read]
  <2>1. Namespace!Listed(h) /\ Namespace!Bind(c, n)
    BY <1>1, <1>3 DEF Namespace!Put, Namespace!NoSchema, Namespace!Raised
  <2>2. c \in DOMAIN schemas /\ schemas[c] \in SchemaSet
    BY <2>1, Reached DEF Namespace!Listed
  <2>3. PICK t \in {schemas[c].tables[n], providers'} : schemas' = Namespace!Bound(c, n, t)
    BY <1>3, <2>1 DEF Namespace!Bind, Namespace!Raised
  <2> HIDE DEF c
  <2>4. read = t
    BY <2>2, <2>3 DEF Namespace!Bound, SchemaSet
  <2> HIDE DEF read
  <2>5. providers \in Nat /\ providers' = providers + 1
    BY <2>1 DEF Namespace!Bind, NamespaceInv, NamespaceTypes, Namespace!NamespaceAssumption
  <2>6. schemas[c].tables[n] \in 0 .. providers
    BY <2>2 DEF SchemaSet
  <2>7. read \in 0 .. providers'
    BY <2>3, <2>4, <2>5, <2>6
  <2>8. frame' \in [Frames -> 0 .. providers']
    <3>1. 0 .. providers \subseteq 0 .. providers'
      BY <2>5
    <3>2. frame \in [Frames -> 0 .. providers']
      BY <3>1 DEF NamespaceInv, NamespaceTypes
    <3>3. QED
      BY <1>3, <2>7, <3>2
  <2>9. QED
    BY <1>1, <2>8, PutStep
<1>4. QED
  BY <1>1, <1>2, <1>3

LEMMA FromArrowStep ==
    ASSUME NamespaceInv, NEW h \in Handles, NEW f, Namespace!FromArrow(h, f)
    PROVE  NamespaceInv' /\ NamesSafe
<1>1. CASE Namespace!CreateUnnamed(h, f)
  <2>1. /\ Namespace!PutTemp(h) /\ out' \in {"returned", "raised"}
        /\ frame' = frame \/ frame' = [frame EXCEPT ![f] = providers']
    BY <1>1 DEF Namespace!CreateUnnamed, Namespace!Ok, Namespace!Raised
  <2>2. frame' \in [Frames -> 0 .. providers']
    BY <2>1, PutMakes, PutFrame
  <2>3. QED
    BY <2>1, <2>2, PutTempStep
<1>2. QED
  BY <1>1, CreateDataframeStep DEF Namespace!FromArrow

LEMMA SqlOverFrameStep ==
    ASSUME NamespaceInv, NEW h \in Handles, NEW f, NEW g, Namespace!SqlOverFrame(h, f, g)
    PROVE  NamespaceInv' /\ NamesSafe
<1>1. /\ Namespace!PutTemp(h) /\ out' \in {"returned", "raised"}
      /\ frame' = frame \/ frame' = [frame EXCEPT ![g] = providers']
  BY DEF Namespace!SqlOverFrame, Namespace!Ok, Namespace!Raised
<1>2. frame' \in [Frames -> 0 .. providers']
  BY <1>1, PutMakes, PutFrame
<1>3. QED
  BY <1>1, <1>2, PutTempStep

\* A statement that creates, replaces or drops.
LEMMA SqlDdlStep ==
    ASSUME NamespaceInv, NEW h \in Handles, NEW n \in TableNames, NEW views \in 0 .. 1,
           Namespace!SqlDdl(h, n, views)
    PROVE  NamespaceInv' /\ NamesSafe
<1> DEFINE c == Namespace!ListOf(h).schema
           old == schemas[c].tables[n]
           S(t) == [schemas[c] EXCEPT !.tables = [schemas[c].tables EXCEPT ![n] = t], !.temps = @ + views]
<1>1. CASE Namespace!NoSchema(h)
  <2>1. frame' \in [Frames -> 0 .. providers']
    BY <1>1 DEF Namespace!SqlDdl, Namespace!NoSchema, NamespaceInv, NamespaceTypes
  <2>2. QED
    BY <1>1, <2>1, NoSchemaStep
<1>2. CASE ~Namespace!NoSchema(h)
  <2>1. /\ Namespace!Open(h) /\ schemas[c].temps + views <= MaxTemps
        /\ providers < MaxProviders /\ providers' = providers + 1
        /\ UNCHANGED <<handle, state, lists, held, frame>>
    BY <1>2 DEF Namespace!SqlDdl, Namespace!Listed
  <2>2. PICK t \in {old, providers', 0} :
           /\ schemas' = [schemas EXCEPT ![c] = S(t)] /\ out' \in Outs
           /\ schemas[c].kind = "memory" =>
                 \/ t = old
                 \/ out' = "returned" /\ 0 \in {old, t}
                 \/ out' = "replaced"
    BY <1>2 DEF Namespace!SqlDdl, Namespace!Ok, Namespace!Raised, Namespace!Replaced, Namespace!Absent, Outs
  <2>3. c \in DOMAIN schemas /\ schemas[c] \in SchemaSet
    BY <2>1, Reached
  <2> HIDE DEF c
  <2>4. /\ providers \in Nat /\ MaxProviders \in Nat /\ MaxTemps \in Nat
        /\ frame \in [Frames -> 0 .. providers]
    BY DEF NamespaceInv, NamespaceTypes, Namespace!NamespaceAssumption
  <2>5. /\ providers' \in 0 .. MaxProviders /\ providers' >= providers
        /\ frame' \in [Frames -> 0 .. providers'] /\ 0 .. providers \subseteq 0 .. providers'
    BY <2>1, <2>4
  <2>6. schemas[c].tables \in [TableNames -> 0 .. providers'] /\ old \in 0 .. providers'
    BY <2>3, <2>5 DEF SchemaSet
  <2>7. t \in 0 .. providers'
    BY <2>1, <2>2, <2>4, <2>6
  <2>8. schemas[c].temps + views \in 0 .. MaxTemps
    BY <2>1, <2>3, <2>4 DEF SchemaSet
  <2>9. S(t) \in SchemaSet' /\ S(t).tables = [schemas[c].tables EXCEPT ![n] = t]
    BY <2>3, <2>6, <2>7, <2>8 DEF SchemaSet
  <2>10. schemas[c].kind = "memory" =>
            /\ \A m \in TableNames : schemas[c].tables[m] # 0 =>
                  S(t).tables[m] \in {0, schemas[c].tables[m]} \/ out' = "replaced"
            /\ out' = "raised" => S(t).tables = schemas[c].tables
    BY <2>2, <2>6, <2>9
  <2>11. schemas' = [schemas EXCEPT ![c] = S(t)] /\ out' \in Outs
    BY <2>2
  <2> HIDE DEF S
  <2>12. QED
    BY <2>1, <2>3, <2>5, <2>9, <2>10, <2>11, SchemaStep
<1>3. QED
  BY <1>1, <1>2

LEMMA ReadOnlyStep ==
    ASSUME NamespaceInv, NEW h \in Handles, Namespace!ReadEmpty(h)
    PROVE  NamespaceInv' /\ NamesSafe
<1>1. UNCHANGED <<handle, state, lists, schemas, providers, frame, held>> /\ out' \in {"returned", "raised"}
  BY DEF Namespace!ReadEmpty, Namespace!Ok
<1>2. 0 \in 0 .. providers'
  BY <1>1 DEF NamespaceInv, NamespaceTypes, Namespace!NamespaceAssumption
<1>3. QED
  BY <1>1, <1>2, FrameStep

LEMMA NamespaceInit == Namespace!NamespaceAssumption /\ Namespace!Init => NamespaceInv
<1> SUFFICES ASSUME Namespace!NamespaceAssumption, Namespace!Init PROVE NamespaceInv
  OBVIOUS
<1>1. /\ handle = [h \in Handles |-> 0]
      /\ state = <<1>> /\ lists = <<[kind |-> "list", schema |-> 1]>>
      /\ schemas = <<Namespace!EmptySchema("memory")>> /\ providers = 0
      /\ frame = [f \in Frames |-> 0] /\ held = 0 /\ out = "returned"
  BY DEF Namespace!Init, Namespace!Absent, Namespace!Ok
<1>2. Len(state) = 1 /\ Len(lists) = 1 /\ Len(schemas) = 1
  BY <1>1
<1>3. Namespace!EmptySchema("memory") \in SchemaSet
  BY <1>1 DEF Namespace!NamespaceAssumption, Namespace!EmptySchema, Namespace!Absent, SchemaSet
<1>4. schemas \in Seq(SchemaSet)
  BY <1>1, <1>3
<1>5. state \in Seq(StateSet)
  BY <1>1, <1>2 DEF StateSet
<1>6. lists \in Seq(ListSet)
  BY <1>1, <1>2 DEF ListSet
<1>7. NamespaceTypes
  BY <1>1, <1>2, <1>4, <1>5, <1>6 DEF NamespaceTypes, Namespace!NamespaceAssumption, Outs
<1>8. QED
  BY <1>7 DEF NamespaceInv

\* The calls on tables and frames.
LEMMA TableCallSteps ==
    ASSUME NamespaceInv,
           \/ \E h \in Handles, n \in TableNames, t \in Namespace!Columns : Namespace!RegisterFiles(h, n, t)
           \/ \E h \in Handles, n \in TableNames : Namespace!RegisterSome(h, n) \/ Namespace!DeregisterTable(h, n)
           \/ \E h \in Handles, n \in TableNames, views \in 0 .. 1 : Namespace!SqlDdl(h, n, views)
           \/ \E h \in Handles, n \in TableNames, f \in Frames :
                 Namespace!RegisterView(h, n, f) \/ Namespace!TableFrame(h, n, f)
    PROVE  NamespaceInv' /\ NamesSafe
<1>1. ASSUME NEW h \in Handles, NEW n \in TableNames, NEW t \in Namespace!Columns, Namespace!RegisterFiles(h, n, t)
      PROVE  NamespaceInv' /\ NamesSafe
  BY <1>1, RegisterFileStep DEF Namespace!RegisterFiles, Namespace!RegisterListingTable,
     Namespace!RegisterParquet, Namespace!RegisterJson, Namespace!RegisterAvro, Namespace!RegisterArrow
<1>2. ASSUME NEW h \in Handles, NEW n \in TableNames, Namespace!RegisterSome(h, n)
      PROVE  NamespaceInv' /\ NamesSafe
  BY <1>2, RegisterTableStep DEF Namespace!RegisterSome, Namespace!RegisterTable,
     Namespace!RegisterTableProvider, Namespace!RegisterBatch, Namespace!RegisterRecordBatches,
     Namespace!RegisterDataset
<1>3. ASSUME NEW h \in Handles, NEW n \in TableNames, Namespace!DeregisterTable(h, n)
      PROVE  NamespaceInv' /\ NamesSafe
  BY <1>3, DeregisterTableStep
<1>4. ASSUME NEW h \in Handles, NEW n \in TableNames, NEW f \in Frames, Namespace!RegisterView(h, n, f)
      PROVE  NamespaceInv' /\ NamesSafe
  BY <1>4, RegisterTableStep DEF Namespace!RegisterView
<1>5. ASSUME NEW h \in Handles, NEW n \in TableNames, NEW f \in Frames, Namespace!TableFrame(h, n, f)
      PROVE  NamespaceInv' /\ NamesSafe
  BY <1>5, TableFrameStep
<1>6. QED
  BY <1>1, <1>2, <1>3, <1>4, <1>5, SqlDdlStep

LEMMA FrameCallSteps ==
    ASSUME NamespaceInv,
           \/ \E h \in Handles, f \in Frames, t \in Namespace!Columns : Namespace!ReadFiles(h, f, t)
           \/ \E h \in Handles, f \in Frames : Namespace!ReadSome(h, f)
           \/ \E f \in Frames, t \in Namespace!Columns : Namespace!IoRead(f, t)
           \/ \E f \in Frames : Namespace!IoReadCsv(f)
           \/ \E h \in Handles, f, g \in Frames :
                 Namespace!SqlOverFrame(h, f, g) \/ Namespace!SqlWithOptions(h, f, g)
    PROVE  NamespaceInv' /\ NamesSafe
<1>1. ASSUME NEW h \in Handles, NEW f \in Frames, NEW t \in Namespace!Columns, Namespace!ReadFiles(h, f, t)
      PROVE  NamespaceInv' /\ NamesSafe
  BY <1>1, ReadFileStep DEF Namespace!ReadFiles, Namespace!ReadJson, Namespace!ReadParquet,
     Namespace!ReadAvro, Namespace!ReadArrow
<1>2. ASSUME NEW h \in Handles, NEW f \in Frames, Namespace!ReadSome(h, f)
      PROVE  NamespaceInv' /\ NamesSafe
  BY <1>2, ReadFileStep, FromArrowStep DEF Namespace!ReadSome, Namespace!ReadBatches,
     Namespace!ReadTable, Namespace!FromPylist, Namespace!FromPydict, Namespace!FromPandas,
     Namespace!FromPolars
<1>3. ASSUME NEW f \in Frames, NEW t, Namespace!IoRead(f, t) \/ Namespace!IoReadCsv(f)
      PROVE  NamespaceInv' /\ NamesSafe
  BY <1>3, ReadFileStep DEF Namespace!IoRead, Namespace!IoReadParquet, Namespace!IoReadJson,
     Namespace!IoReadAvro, Namespace!IoReadCsv
<1>4. ASSUME NEW h \in Handles, NEW f \in Frames, NEW g \in Frames,
             Namespace!SqlOverFrame(h, f, g) \/ Namespace!SqlWithOptions(h, f, g)
      PROVE  NamespaceInv' /\ NamesSafe
  BY <1>4, SqlOverFrameStep DEF Namespace!SqlWithOptions
<1>5. QED
  BY <1>1, <1>2, <1>3, <1>4

LEMMA HandleCallSteps ==
    ASSUME NamespaceInv,
           \/ \E h \in Handles :
                 \/ Namespace!GlobalCtx(h) \/ Namespace!NewSession(h) \/ Namespace!HoldSchema(h)
                 \/ Namespace!ReadEmpty(h)
           \/ \E h, g \in Handles :
                 \/ Namespace!EnableUrlTable(h, g) \/ Namespace!WithLogicalCodec(h, g)
                 \/ Namespace!WithPhysicalCodec(h, g) \/ Namespace!WithInlining(h, g)
           \/ \E h \in Handles, b \in BOOLEAN : Namespace!RegisterCatalogList(h, b)
           \/ \E h \in Handles, k \in {"memory", "python"} :
                 Namespace!RegisterCatalog(h, k) \/ Namespace!RegisterSchema(h, k)
           \/ \E n \in TableNames : Namespace!SchemaRegister(n) \/ Namespace!SchemaDeregister(n)
    PROVE  NamespaceInv' /\ NamesSafe
<1>1. ASSUME NEW h \in Handles,
             \/ Namespace!GlobalCtx(h) \/ Namespace!NewSession(h) \/ Namespace!HoldSchema(h)
             \/ Namespace!ReadEmpty(h)
      PROVE  NamespaceInv' /\ NamesSafe
  BY <1>1, GlobalCtxStep, NewSessionStep, HoldSchemaStep, ReadOnlyStep
<1>2. ASSUME NEW h \in Handles, NEW g \in Handles,
             \/ Namespace!EnableUrlTable(h, g) \/ Namespace!WithLogicalCodec(h, g)
             \/ Namespace!WithPhysicalCodec(h, g) \/ Namespace!WithInlining(h, g)
      PROVE  NamespaceInv' /\ NamesSafe
  BY <1>2, EnableUrlTableStep, DeriveStep DEF Namespace!WithLogicalCodec,
     Namespace!WithPhysicalCodec, Namespace!WithInlining
<1>3. ASSUME NEW h \in Handles, NEW k \in {"memory", "python"},
             Namespace!RegisterCatalog(h, k) \/ Namespace!RegisterSchema(h, k)
      PROVE  NamespaceInv' /\ NamesSafe
  BY <1>3, RegisterCatalogStep DEF Namespace!RegisterSchema
<1>4. QED
  BY <1>1, <1>2, <1>3, RegisterCatalogListStep, HeldSchemaStep

LEMMA NamespaceSteps ==
    ASSUME NamespaceInv, Namespace!Next
    PROVE  NamespaceInv' /\ NamesSafe
  BY TableCallSteps, FrameCallSteps, HandleCallSteps DEF Namespace!Next

LEMMA NamespaceTyped == NamespaceInv => Namespace!TypeOK
<1> SUFFICES ASSUME NamespaceInv PROVE Namespace!TypeOK
  OBVIOUS
<1>1. \A s \in DOMAIN state : state[s] \in DOMAIN lists
  <2>1. DOMAIN lists = 1 .. Len(lists) /\ \A s \in DOMAIN state : state[s] \in StateSet
    BY LenProperties, ElementOfSeq DEF NamespaceInv, NamespaceTypes
  <2>2. QED
    BY <2>1 DEF StateSet
<1>2. \A l \in DOMAIN lists : lists[l].kind \in {"list", "method"} /\ lists[l].schema \in DOMAIN schemas
  <2>1. DOMAIN schemas = 1 .. Len(schemas) /\ \A l \in DOMAIN lists : lists[l] \in ListSet
    BY LenProperties, ElementOfSeq DEF NamespaceInv, NamespaceTypes
  <2>2. QED
    BY <2>1 DEF ListSet
<1>3. \A c \in DOMAIN schemas : /\ schemas[c].kind \in {"memory", "python"}
                                /\ schemas[c].tables \in [TableNames -> 0 .. providers]
                                /\ schemas[c].temps \in 0 .. MaxTemps
  <2>1. \A c \in DOMAIN schemas : schemas[c] \in SchemaSet
    BY LenProperties, ElementOfSeq DEF NamespaceInv, NamespaceTypes
  <2>2. QED
    BY <2>1 DEF SchemaSet
<1>4. QED
  BY <1>1, <1>2, <1>3 DEF Namespace!TypeOK, NamespaceInv, NamespaceTypes, Outs,
     Namespace!Ok, Namespace!Raised, Namespace!Replaced

-----------------------------------------------------------------------------
(* Expression shipping.                                                    *)

Messages == [fn : Shipping!Fns, code : BOOLEAN, by : Shipping!Slots, on : Threads]
Decodings == [code : BOOLEAN, fn : Shipping!Fns \cup {NoFn}, ctx : Sessions,
              result : Shipping!Fns \cup {NoFn}, wish : Shipping!Slots]
ShippingTypes ==
    /\ registered \in [Sessions -> Shipping!Fns \cup {NoFn}]
    /\ worker \in [Threads -> Shipping!Slots] /\ sender \in [Threads -> Shipping!Slots]
    /\ installed \in [Threads -> [worker : Shipping!Slots, sender : Shipping!Slots]]
    /\ bytes \in Seq(Messages) /\ Len(bytes) <= MaxMessages
    /\ got \in Decodings

ShippingInv == Shipping!ShippingAssumption /\ ShippingTypes /\ Shipping!ShippedAsAllowed

\* A thread's slot changes with what the thread installed there; the bytes and the last
\* decoding stay.
LEMMA SlotStep ==
    ASSUME ShippingInv, NEW t \in Threads, NEW w \in Shipping!Slots, NEW s \in Shipping!Slots,
           worker' = [worker EXCEPT ![t] = w], sender' = [sender EXCEPT ![t] = s],
           installed' = [installed EXCEPT ![t] = [worker |-> w, sender |-> s]],
           UNCHANGED <<registered, bytes, got>>
    PROVE  ShippingInv'
<1>1. ShippingTypes'
  BY DEF ShippingInv, ShippingTypes
<1>2. Shipping!SlotsAreMine'
  BY DEF ShippingInv, Shipping!ShippedAsAllowed, Shipping!SlotsAreMine, ShippingTypes
<1>3. Shipping!StrictSendsNames' /\ Shipping!StrictRefusesCode' /\ Shipping!CodeIsFaithful'
  BY DEF ShippingInv, Shipping!ShippedAsAllowed, Shipping!StrictSendsNames, Shipping!StrictRefusesCode, Shipping!CodeIsFaithful
<1>4. QED
  BY <1>1, <1>2, <1>3 DEF ShippingInv, Shipping!ShippedAsAllowed, Shipping!ShippingAssumption

\* Setting or clearing one slot leaves the other, and the record of it, as they are.
LEMMA WorkerStep ==
    ASSUME ShippingInv, NEW t \in Threads, NEW s \in Shipping!Slots,
           worker' = [worker EXCEPT ![t] = s], installed' = [installed EXCEPT ![t].worker = s],
           UNCHANGED <<registered, sender, bytes, got>>
    PROVE  ShippingInv'
<1>1. installed[t] = [worker |-> worker[t], sender |-> sender[t]] /\ sender[t] \in Shipping!Slots
  BY DEF ShippingInv, Shipping!ShippedAsAllowed, Shipping!SlotsAreMine, ShippingTypes
<1>2. installed' = [installed EXCEPT ![t] = [worker |-> s, sender |-> sender[t]]]
  <2>1. [installed[t] EXCEPT !.worker = s] = [worker |-> s, sender |-> sender[t]]
    BY <1>1
  <2>2. installed' = [installed EXCEPT ![t] = [installed[t] EXCEPT !.worker = s]]
    OBVIOUS
  <2>3. QED
    BY <2>1, <2>2
<1>3. sender' = [sender EXCEPT ![t] = sender[t]]
  BY DEF ShippingInv, ShippingTypes
<1>4. QED
  BY <1>1, <1>2, <1>3, SlotStep

LEMMA SenderStep ==
    ASSUME ShippingInv, NEW t \in Threads, NEW s \in Shipping!Slots,
           sender' = [sender EXCEPT ![t] = s], installed' = [installed EXCEPT ![t].sender = s],
           UNCHANGED <<registered, worker, bytes, got>>
    PROVE  ShippingInv'
<1>1. installed[t] = [worker |-> worker[t], sender |-> sender[t]] /\ worker[t] \in Shipping!Slots
  BY DEF ShippingInv, Shipping!ShippedAsAllowed, Shipping!SlotsAreMine, ShippingTypes
<1>2. installed' = [installed EXCEPT ![t] = [worker |-> worker[t], sender |-> s]]
  <2>1. [installed[t] EXCEPT !.sender = s] = [worker |-> worker[t], sender |-> s]
    BY <1>1
  <2>2. installed' = [installed EXCEPT ![t] = [installed[t] EXCEPT !.sender = s]]
    OBVIOUS
  <2>3. QED
    BY <2>1, <2>2
<1>3. worker' = [worker EXCEPT ![t] = worker[t]]
  BY DEF ShippingInv, ShippingTypes
<1>4. QED
  BY <1>1, <1>2, <1>3, SlotStep

LEMMA RegisterStep ==
    ASSUME ShippingInv, NEW s \in Sessions, NEW f \in Shipping!Fns, Shipping!RegisterUdf(s, f)
    PROVE  ShippingInv'
<1>1. /\ registered' = [registered EXCEPT ![s] = f]
      /\ UNCHANGED <<worker, sender, installed, bytes, got>>
  BY DEF Shipping!RegisterUdf
<1>2. ShippingTypes'
  BY <1>1 DEF ShippingInv, ShippingTypes
<1>3. Shipping!ShippedAsAllowed'
  BY <1>1 DEF ShippingInv, Shipping!ShippedAsAllowed, Shipping!SlotsAreMine, Shipping!StrictSendsNames, Shipping!StrictRefusesCode,
              Shipping!CodeIsFaithful
<1>4. QED
  BY <1>2, <1>3 DEF ShippingInv, Shipping!ShippingAssumption

\* Whichever way its session reached the encoder.
LEMMA SendStep ==
    ASSUME ShippingInv, NEW t \in Threads, NEW f \in Shipping!Fns, NEW ctx \in Shipping!Slots, Shipping!Send(Shipping!Encoded(t, f, ctx))
    PROVE  ShippingInv'
<1> DEFINE m == Shipping!Encoded(t, f, ctx)
<1>1. /\ Len(bytes) < MaxMessages /\ bytes' = Append(bytes, m)
      /\ UNCHANGED <<registered, worker, sender, installed, got>>
  BY DEF Shipping!Send
<1>2. m \in Messages /\ (m.by \in Strict => ~m.code)
  BY DEF Shipping!Encoded, Messages
<1> HIDE DEF m
<1>3. bytes \in Seq(Messages) /\ MaxMessages \in Nat
  BY DEF ShippingInv, ShippingTypes, Shipping!ShippingAssumption
<1>4. /\ bytes' \in Seq(Messages) /\ Len(bytes) \in Nat /\ Len(bytes') = Len(bytes) + 1
      /\ DOMAIN bytes = 1 .. Len(bytes) /\ DOMAIN bytes' = 1 .. Len(bytes) + 1
      /\ \A i \in 1 .. Len(bytes) : bytes'[i] = bytes[i]
      /\ bytes'[Len(bytes) + 1] = m
  BY <1>1, <1>2, <1>3, AppendProperties, LenProperties
<1>5. ShippingTypes'
  BY <1>1, <1>3, <1>4 DEF ShippingInv, ShippingTypes
<1>6. Shipping!StrictSendsNames'
  BY <1>2, <1>4 DEF ShippingInv, Shipping!ShippedAsAllowed, Shipping!StrictSendsNames
<1>7. Shipping!SlotsAreMine' /\ Shipping!StrictRefusesCode' /\ Shipping!CodeIsFaithful'
  BY <1>1 DEF ShippingInv, Shipping!ShippedAsAllowed, Shipping!SlotsAreMine, Shipping!StrictRefusesCode, Shipping!CodeIsFaithful
<1>8. QED
  BY <1>5, <1>6, <1>7 DEF ShippingInv, Shipping!ShippedAsAllowed, Shipping!ShippingAssumption

\* The session that decodes is the one that was wished for: the argument, or what the
\* thread installed; without either the process-wide session, which is not strict.
LEMMA ReceiveStep ==
    ASSUME ShippingInv, NEW t \in Threads, NEW i, NEW c \in Shipping!Slots, Shipping!FromBytes(t, i, c)
    PROVE  ShippingInv'
<1> DEFINE ctx == Shipping!ResolveCtx(t, c)
           wish == IF c # NoCtx THEN c ELSE installed[t].worker
           d == [code |-> bytes[i].code, fn |-> bytes[i].fn, ctx |-> ctx,
                 result |-> Shipping!Decoded(bytes[i], ctx), wish |-> wish]
<1>1. /\ i \in DOMAIN bytes /\ got' = d
      /\ UNCHANGED <<registered, worker, sender, installed, bytes>>
  BY DEF Shipping!FromBytes
<1>2. /\ installed[t].worker = worker[t] /\ worker[t] \in Shipping!Slots
  BY DEF ShippingInv, Shipping!ShippedAsAllowed, Shipping!SlotsAreMine, ShippingTypes
<1>3. ctx \in Sessions /\ wish \in Shipping!Slots /\ (wish \in Strict => ctx = wish)
  BY <1>2 DEF Shipping!ResolveCtx, Shipping!GetWorkerCtx, ShippingInv, Shipping!ShippingAssumption, Shipping!Slots
<1>4. bytes[i] \in Messages
  <2>1. bytes \in Seq(Messages)
    BY DEF ShippingInv, ShippingTypes
  <2>2. QED
    BY <2>1, <1>1, ElementOfSeq, LenProperties
<1>5. bytes[i].code \in BOOLEAN /\ bytes[i].fn \in Shipping!Fns
  BY <1>4 DEF Messages
<1>6. registered[ctx] \in Shipping!Fns \cup {NoFn}
  BY <1>3 DEF ShippingInv, ShippingTypes
<1> HIDE DEF ctx, wish
<1>7. /\ Shipping!Decoded(bytes[i], ctx) \in Shipping!Fns \cup {NoFn}
      /\ bytes[i].code => Shipping!Decoded(bytes[i], ctx) = IF ctx \in Strict THEN NoFn ELSE bytes[i].fn
  BY <1>5, <1>6 DEF Shipping!Decoded
<1>8. got' \in Decodings
  BY <1>1, <1>3, <1>5, <1>7 DEF Decodings
<1>9. ShippingTypes'
  BY <1>1, <1>8 DEF ShippingInv, ShippingTypes
<1>10. Shipping!StrictRefusesCode' /\ Shipping!CodeIsFaithful'
  BY <1>1, <1>3, <1>7 DEF Shipping!StrictRefusesCode, Shipping!CodeIsFaithful
<1>11. Shipping!SlotsAreMine' /\ Shipping!StrictSendsNames'
  BY <1>1 DEF ShippingInv, Shipping!ShippedAsAllowed, Shipping!SlotsAreMine, Shipping!StrictSendsNames
<1>12. QED
  BY <1>9, <1>10, <1>11 DEF ShippingInv, Shipping!ShippedAsAllowed, Shipping!ShippingAssumption

-----------------------------------------------------------------------------
LEMMA ShippingInit == Shipping!ShippingAssumption /\ Shipping!Init => ShippingInv
<1> SUFFICES ASSUME Shipping!ShippingAssumption, Shipping!Init
             PROVE  ShippingInv
  OBVIOUS
<1>1. bytes = <<>> /\ bytes \in Seq(Messages) /\ Len(bytes) = 0 /\ DOMAIN bytes = {}
  BY EmptySeq DEF Shipping!Init
<1>2. got \in Decodings /\ ~got.code
  BY DEF Shipping!Init, Shipping!Nothing, Decodings, Shipping!ShippingAssumption, Shipping!Slots
<1>3. ShippingTypes
  BY <1>1, <1>2 DEF Shipping!Init, ShippingTypes, Shipping!ShippingAssumption, Shipping!Slots
<1>4. Shipping!SlotsAreMine
  BY DEF Shipping!Init, Shipping!SlotsAreMine
<1>5. Shipping!StrictSendsNames /\ Shipping!StrictRefusesCode /\ Shipping!CodeIsFaithful
  BY <1>1, <1>2 DEF Shipping!StrictSendsNames, Shipping!StrictRefusesCode, Shipping!CodeIsFaithful
<1>6. QED
  BY <1>3, <1>4, <1>5 DEF ShippingInv, Shipping!ShippedAsAllowed

LEMMA ShippingSteps == ShippingInv /\ (Shipping!Next \/ UNCHANGED Shipping!vars) => ShippingInv'
<1> SUFFICES ASSUME ShippingInv, (Shipping!Next \/ UNCHANGED Shipping!vars)
             PROVE  ShippingInv'
  OBVIOUS
<1>1. Sessions \subseteq Shipping!Slots /\ NoCtx \in Shipping!Slots
  BY DEF Shipping!Slots
<1>2. ASSUME NEW s \in Sessions, NEW f \in Shipping!Fns, Shipping!RegisterUdf(s, f)
      PROVE  ShippingInv'
  BY <1>2, RegisterStep
<1>3. ASSUME NEW t \in Threads, NEW s \in Sessions, Shipping!SetWorkerCtx(t, s) \/ Shipping!SetSenderCtx(t, s)
      PROVE  ShippingInv'
  BY <1>1, <1>3, WorkerStep, SenderStep DEF Shipping!SetWorkerCtx, Shipping!SetSenderCtx
<1>4. ASSUME NEW t \in Threads, Shipping!ClearWorkerCtx(t) \/ Shipping!ClearSenderCtx(t)
      PROVE  ShippingInv'
  BY <1>1, <1>4, WorkerStep, SenderStep DEF Shipping!ClearWorkerCtx, Shipping!ClearSenderCtx
<1>5. ASSUME NEW t \in Threads, NEW f \in Shipping!Fns, NEW c \in Shipping!Slots, Shipping!ToBytes(t, f, c)
      PROVE  ShippingInv'
  BY <1>5, SendStep DEF Shipping!ToBytes
<1>6. ASSUME NEW t \in Threads, NEW f \in Shipping!Fns, Shipping!Reduce(t, f)
      PROVE  ShippingInv'
  BY <1>6, SendStep DEF Shipping!Reduce, Shipping!GetSenderCtx, ShippingInv, ShippingTypes
<1>7. ASSUME NEW t \in Threads, NEW i \in 1 .. MaxMessages, NEW c \in Shipping!Slots, Shipping!FromBytes(t, i, c)
      PROVE  ShippingInv'
  BY <1>7, ReceiveStep
<1>8. ASSUME NEW t \in Threads, NEW i \in 1 .. MaxMessages, Shipping!Reconstruct(t, i)
      PROVE  ShippingInv'
  BY <1>1, <1>8, ReceiveStep DEF Shipping!Reconstruct
<1>9. CASE UNCHANGED Shipping!vars
  BY <1>9 DEF Shipping!vars, ShippingInv, Shipping!ShippingAssumption, ShippingTypes, Shipping!ShippedAsAllowed, Shipping!SlotsAreMine,
              Shipping!StrictSendsNames, Shipping!StrictRefusesCode, Shipping!CodeIsFaithful
<1>10. QED
  BY <1>2, <1>3, <1>4, <1>5, <1>6, <1>7, <1>8, <1>9 DEF Shipping!Next

LEMMA ShippingTyped == ShippingInv => Shipping!TypeOK
<1> SUFFICES ASSUME ShippingInv
             PROVE  Shipping!TypeOK
  OBVIOUS
<1>1. bytes \in Seq(Messages)
  BY DEF ShippingInv, ShippingTypes
<1>2. \A i \in DOMAIN bytes : bytes[i] \in Messages
  BY <1>1, ElementOfSeq, LenProperties
<1>3. got.result \in Shipping!Fns \cup {NoFn} /\ got.ctx \in Sessions
  BY DEF ShippingInv, ShippingTypes, Decodings
<1>4. QED
  BY <1>2, <1>3 DEF ShippingInv, ShippingTypes, Shipping!TypeOK, Messages

-----------------------------------------------------------------------------
(* User-defined functions.                                                 *)

\* x is the function of an object that can do what a query asks of this kind.
Fit(kind, x) == \E c \in Callables : x = c.id /\ Functions!CanRun(kind, c)
Ids == {c.id : c \in Callables}
HandleSet == {h \in [kind : Functions!Kinds, form : {"udf", "wrapper"}, name : Functions!AllNames,
                     fn : Ids, inject : BOOLEAN, checked : BOOLEAN] : h.checked => Fit(h.kind, h.fn)}
Entries(kind) == {e \in [fn : Ids, checked : BOOLEAN] : e.checked => Fit(kind, e.fn)}
CallErrors == {"", "TypeError", "IndexError", "AttributeError", "KeyError"}
FunctionTypes ==
    /\ handles \in Seq(HandleSet) /\ Len(handles) <= MaxHandles
    /\ DOMAIN registry = Functions!Kinds /\ tables \in [Functions!Places -> BOOLEAN]
    /\ last.err \in CallErrors
RegistryFit == \A k \in Functions!Kinds : \A n \in DOMAIN registry[k] : registry[k][n] \in Entries(k)
FunctionsInv == Functions!FunctionsAssumption /\ FunctionTypes /\ RegistryFit

LEMMA ConstantSets == HandleSet' = HandleSet /\ \A kind : Entries(kind)' = Entries(kind)
  BY DEF HandleSet, Entries, Fit, Ids

\* What a maker gives: an error, a decorator, or a handle of its kind on the object it was
\* given, which can run.
MadeOf(h, kind, c) ==
    \/ \E err \in {"TypeError", "IndexError", "AttributeError"} : h = Functions!Error(err)
    \/ h = Functions!Decorator
    \/ \E name \in Functions!AllNames, inject \in BOOLEAN :
          h = Functions!Handle(kind, name, c, inject) /\ Fit(kind, c.id)

LEMMA NamesOf ==
    ASSUME NEW c \in Callables, NEW given \in Functions!Given
    PROVE  /\ c.cls \in Functions!AllNames /\ c.made \in Functions!AllNames
           /\ Functions!Qualname(c) \in Functions!AllNames
           /\ given # <<>> => given[1] \in Functions!AllNames
           /\ \A d \in Functions!AllNames : Functions!Name(given, d) \in Functions!AllNames
<1>1. c.cls \in Functions!AllNames /\ c.made \in Functions!AllNames
  BY DEF Functions!AllNames
<1>2. Functions!Qualname(c) \in Functions!AllNames
  BY DEF Functions!AllNames
<1>3. given # <<>> => given[1] \in Functions!AllNames
  BY DEF Functions!AllNames, Functions!Given
<1>4. QED
  BY <1>1, <1>2, <1>3 DEF Functions!Name

LEMMA NothingMade ==
    ASSUME NEW c, NEW kind, NEW way, NEW given
    PROVE  /\ \A err \in {"TypeError", "IndexError", "AttributeError"} :
                 MadeOf(Functions!Error(err), kind, c)
           /\ MadeOf(Functions!Misread(way, given), kind, c)
  BY DEF MadeOf, Functions!Misread

LEMMA ScalarMade ==
    ASSUME NEW c \in Callables, NEW given \in Functions!Given, NEW way
    PROVE  MadeOf(Functions!Udf(way, c, given), "scalar", c)
<1>1. c.ffi \/ c.callable => Fit("scalar", c.id)
  BY DEF Fit, Functions!CanRun
<1>2. ASSUME NEW name \in Functions!AllNames, c.ffi \/ c.callable
      PROVE  MadeOf(Functions!ScalarInit(name, c), "scalar", c)
  BY <1>1, <1>2, NamesOf DEF MadeOf, Functions!ScalarInit
<1>3. MadeOf(Functions!ScalarFunction(c, given), "scalar", c)
  <2>1. c.callable => MadeOf(Functions!ScalarInit(Functions!Name(given, Functions!Qualname(c)), c), "scalar", c)
    BY <1>2, NamesOf
  <2>2. QED
    BY <2>1, NothingMade DEF Functions!ScalarFunction
<1>4. c.ffi => MadeOf(Functions!ScalarFromPycapsule(c), "scalar", c)
  BY <1>2, NamesOf DEF Functions!ScalarFromPycapsule
<1>5. QED
  BY <1>3, <1>4, NothingMade DEF Functions!Udf

LEMMA AggregateMade ==
    ASSUME NEW c \in Callables, NEW given \in Functions!Given, NEW way
    PROVE  MadeOf(Functions!Udaf(way, c, given), "aggregate", c)
<1> DEFINE able == c.ffi \/ c.capsule \/ (c.callable /\ c.makes = "Accumulator")
<1>1. able => Fit("aggregate", c.id)
  BY DEF Fit, Functions!CanRun
<1>2. ASSUME NEW name \in Functions!AllNames, NEW typed, able
      PROVE  MadeOf(Functions!AggregateInit(name, c, typed), "aggregate", c)
  <2>1. \A n \in Functions!AllNames : MadeOf(Functions!Handle("aggregate", n, c, FALSE), "aggregate", c)
    BY <1>1, <1>2 DEF MadeOf
  <2>2. QED
    BY <2>1, NothingMade, NamesOf DEF Functions!AggregateInit
<1>3. MadeOf(Functions!AggregateFunction(c, given), "aggregate", c)
  <2>1. c.callable /\ c.makes = "Accumulator" =>
           MadeOf(Functions!AggregateInit(Functions!Name(given, c.made), c, TRUE), "aggregate", c)
    BY <1>2, NamesOf
  <2>2. QED
    BY <2>1, NothingMade DEF Functions!AggregateFunction
<1>4. c.ffi \/ c.capsule => MadeOf(Functions!AggregateFromPycapsule(c), "aggregate", c)
  <2>1. able => MadeOf(Functions!Handle("aggregate", c.cls, c, FALSE), "aggregate", c)
    BY <1>1, NamesOf DEF MadeOf
  <2>2. able => MadeOf(Functions!AggregateInit(c.cls, c, FALSE), "aggregate", c)
    BY <1>2, NamesOf
  <2>3. QED
    BY <2>1, <2>2 DEF Functions!AggregateFromPycapsule
<1>5. QED
  BY <1>3, <1>4, NothingMade DEF Functions!Udaf

LEMMA WindowMade ==
    ASSUME NEW c \in Callables, NEW given \in Functions!Given, NEW way
    PROVE  MadeOf(Functions!Udwf(way, c, given), "window", c)
<1> DEFINE able == c.ffi \/ (c.callable /\ c.makes = "WindowEvaluator")
<1>1. able => Fit("window", c.id)
  BY DEF Fit, Functions!CanRun
<1>2. ASSUME NEW name \in Functions!AllNames, able
      PROVE  MadeOf(Functions!WindowInit(name, c), "window", c)
  BY <1>1, <1>2, NamesOf DEF MadeOf, Functions!WindowInit
<1>3. MadeOf(Functions!WindowFunction(c, given), "window", c)
  <2>1. c.callable /\ c.makes = "WindowEvaluator" =>
           MadeOf(Functions!WindowInit(Functions!Name(given, Functions!Qualname(c)), c), "window", c)
    BY <1>2, NamesOf
  <2>2. QED
    BY <2>1, NothingMade DEF Functions!WindowFunction
<1>4. c.ffi => MadeOf(Functions!WindowFromPycapsule(c), "window", c)
  BY <1>2, NamesOf DEF Functions!WindowFromPycapsule
<1>5. QED
  BY <1>3, <1>4, NothingMade DEF Functions!Udwf

LEMMA TableMade ==
    ASSUME NEW c \in Callables, NEW given \in Functions!Given, NEW way, NEW inject \in BOOLEAN
    PROVE  MadeOf(Functions!Udtf(way, c, given, inject), "table", c)
<1>1. c.ffi \/ c.callable => Fit("table", c.id)
  BY DEF Fit, Functions!CanRun
<1>2. c.ffi \/ c.callable => \A i \in BOOLEAN : MadeOf(Functions!TableFunctionInit(c, given, i), "table", c)
  <2>1. c.ffi \/ c.callable => \A n \in Functions!AllNames, i \in BOOLEAN :
           MadeOf(Functions!Handle("table", n, c, i), "table", c)
    BY <1>1 DEF MadeOf
  <2>2. QED
    BY <2>1, NothingMade, NamesOf DEF Functions!TableFunctionInit
<1>3. MadeOf(Functions!CreateTableUdf(c, given, inject), "table", c)
  BY <1>2, NothingMade DEF Functions!CreateTableUdf
<1>4. QED
  BY <1>2, <1>3, NothingMade DEF Functions!Udtf

\* What a call gives: nothing to register, or a handle.
Settled(h) == \/ h.kind = "none" /\ (h.form = "error" => h.name \in CallErrors)
              \/ h \in HandleSet

LEMMA HandleTyped ==
    ASSUME NEW kind \in Functions!Kinds, NEW c \in Callables, NEW name \in Functions!AllNames,
           NEW inject \in BOOLEAN, NEW h, h = Functions!Handle(kind, name, c, inject)
    PROVE  /\ h.form = "udf" /\ [h EXCEPT !.checked = FALSE] \in HandleSet
           /\ Fit(kind, c.id) => h \in HandleSet /\ [h EXCEPT !.form = "wrapper"] \in HandleSet
<1>1. c.id \in Ids
  BY DEF Ids
<1>2. QED
  BY <1>1 DEF HandleSet, Functions!Handle

LEMMA NothingSettled ==
    /\ \A err \in CallErrors : /\ Settled(Functions!Error(err)) /\ Functions!Error(err).form # "udf"
                               /\ Settled([Functions!Error(err) EXCEPT !.checked = FALSE])
    /\ Settled(Functions!Decorator) /\ Functions!Decorator.form # "udf"
  BY DEF Settled, Functions!Error, Functions!Decorator, Functions!Nothing

LEMMA MadeHandle ==
    ASSUME NEW kind \in Functions!Kinds, NEW c \in Callables, NEW h, MadeOf(h, kind, c)
    PROVE  Settled(h) /\ Settled(Functions!Decorated(kind, h))
<1>1. CASE \E name \in Functions!AllNames, inject \in BOOLEAN :
              h = Functions!Handle(kind, name, c, inject) /\ Fit(kind, c.id)
  <2>1. h.form = "udf" /\ h \in HandleSet /\ [h EXCEPT !.form = "wrapper"] \in HandleSet
    BY <1>1, HandleTyped
  <2>2. Functions!Decorated(kind, h) \in {h, [h EXCEPT !.form = "wrapper"]}
    BY <2>1 DEF Functions!Decorated, Functions!ScalarDecorator, Functions!AggregateDecorator,
                Functions!WindowDecorator, Functions!TableDecorator
  <2>3. QED
    BY <2>1, <2>2 DEF Settled
<1>2. CASE h.form # "udf" /\ Settled(h)
  BY <1>2 DEF Functions!Decorated
<1>3. QED
  BY <1>1, <1>2, NothingSettled DEF MadeOf, CallErrors

\* The classes: the name is there, and nothing is asked of the object.
LEMMA ConstructedMade ==
    ASSUME NEW kind \in Functions!Kinds, NEW c \in Callables, NEW given \in Functions!Given,
           NEW inject \in BOOLEAN
    PROVE  Settled(Functions!Constructed(kind, c, given, inject))
<1>1. "TypeError" \in CallErrors
  BY DEF CallErrors
<1>2. CASE given = <<>>
  BY <1>1, <1>2, NothingSettled DEF Functions!Constructed
<1>3. CASE given # <<>>
  <2>1. given[1] \in Functions!AllNames /\ c.cls \in Functions!AllNames
    BY <1>3, NamesOf
  <2>2. PICK h : /\ Functions!Constructed(kind, c, given, inject) = [h EXCEPT !.checked = FALSE]
                 /\ \/ h = Functions!Error("TypeError")
                    \/ \E name \in Functions!AllNames, i \in BOOLEAN : h = Functions!Handle(kind, name, c, i)
    <3>1. CASE kind = "scalar"
      BY <1>3, <2>1, <3>1 DEF Functions!Constructed, Functions!ScalarInit
    <3>2. CASE kind = "aggregate"
      BY <1>3, <2>1, <3>2 DEF Functions!Constructed, Functions!AggregateInit
    <3>3. CASE kind = "window"
      BY <1>3, <2>1, <3>3 DEF Functions!Constructed, Functions!WindowInit
    <3>4. CASE kind = "table"
      BY <1>3, <2>1, <3>4 DEF Functions!Constructed, Functions!TableFunctionInit
    <3>5. QED
      BY <3>1, <3>2, <3>3, <3>4 DEF Functions!Kinds
  <2>3. Settled([h EXCEPT !.checked = FALSE])
    <3>1. CASE h = Functions!Error("TypeError")
      BY <1>1, <3>1, NothingSettled
    <3>2. CASE \E name \in Functions!AllNames, i \in BOOLEAN : h = Functions!Handle(kind, name, c, i)
      <4>1. [h EXCEPT !.checked = FALSE] \in HandleSet
        BY <3>2, HandleTyped
      <4>2. QED
        BY <4>1 DEF Settled
    <3>3. QED
      BY <2>2, <3>1, <3>2
  <2>4. QED
    BY <2>2, <2>3
<1>4. QED
  BY <1>2, <1>3

LEMMA MadeTyped ==
    ASSUME NEW kind \in Functions!Kinds, NEW way, NEW c \in Callables, NEW given \in Functions!Given,
           NEW inject \in BOOLEAN
    PROVE  Settled(Functions!Made(kind, way, c, given, inject))
<1>1. MadeOf(Functions!ByMaker(kind, way, c, given, inject), kind, c)
  BY ScalarMade, AggregateMade, WindowMade, TableMade DEF Functions!ByMaker, Functions!Kinds
<1>2. Functions!Made(kind, way, c, given, inject) \in
         {Functions!Constructed(kind, c, given, inject), Functions!ByMaker(kind, way, c, given, inject),
          Functions!Decorated(kind, Functions!ByMaker(kind, way, c, given, inject))}
  BY DEF Functions!Made
<1>3. QED
  BY <1>1, <1>2, MadeHandle, ConstructedMade

LEMMA MakeFunctionStep ==
    ASSUME FunctionsInv, NEW kind \in Functions!Kinds, NEW way \in Functions!Ways, NEW c \in Callables,
           NEW given \in Functions!Given, NEW inject \in BOOLEAN,
           Functions!Make(kind, way, c, given, inject)
    PROVE  FunctionsInv' /\ Functions!CallbackTablesPropagate
<1> DEFINE h == Functions!Made(kind, way, c, given, inject)
<1>0. Settled(h)
  BY MadeTyped
<1>1. /\ handles' = IF h.kind = "none" THEN handles ELSE Append(handles, h)
      /\ last' = IF h.form = "error" THEN Functions!Failed(way, h.name) ELSE Functions!Done(way)
      /\ Len(handles) < MaxHandles /\ UNCHANGED <<registry, tables>>
  BY DEF Functions!Make
<1> HIDE DEF h
<1>2. /\ handles' \in Seq(HandleSet) /\ Len(handles') <= MaxHandles
  <2>1. handles \in Seq(HandleSet) /\ MaxHandles \in Nat /\ Len(handles) \in Nat
    BY LenProperties DEF FunctionsInv, FunctionTypes, Functions!FunctionsAssumption
  <2>2. CASE handles' = handles
    BY <1>1, <2>1, <2>2
  <2>3. CASE h \in HandleSet /\ handles' = Append(handles, h)
    BY <1>1, <2>1, <2>3, AppendProperties
  <2>4. QED
    BY <1>0, <1>1, <2>2, <2>3 DEF Settled
<1>3. last'.err \in CallErrors /\ last'.op = way
  <2>1. h.form = "error" => h.name \in CallErrors
    BY <1>0 DEF Settled, HandleSet
  <2>2. QED
    BY <1>1, <2>1 DEF Functions!Failed, Functions!Done, CallErrors
<1>4. FunctionTypes'
  BY <1>1, <1>2, <1>3, ConstantSets DEF FunctionsInv, FunctionTypes
<1>5. RegistryFit'
  BY <1>1, ConstantSets DEF FunctionsInv, RegistryFit
<1>6. Functions!CallbackTablesPropagate
  <2>1. way # "query" /\ way # "direct"
    BY DEF Functions!Ways
  <2>2. tables' = tables /\ tables \in [Functions!Places -> BOOLEAN]
    BY <1>1 DEF FunctionsInv, FunctionTypes
  <2>3. QED
    BY <1>3, <2>1, <2>2 DEF Functions!CallbackTablesPropagate
<1>7. QED
  BY <1>4, <1>5, <1>6 DEF FunctionsInv, Functions!FunctionsAssumption

\* A step that makes no handle.
LEMMA FunctionRest ==
    ASSUME FunctionsInv, DOMAIN registry' = Functions!Kinds, RegistryFit', last'.err \in CallErrors,
           last'.op \notin {"query", "direct"}, UNCHANGED <<handles, tables>>
    PROVE  FunctionsInv' /\ Functions!CallbackTablesPropagate
<1>1. FunctionTypes'
  BY ConstantSets DEF FunctionsInv, FunctionTypes
<1>2. tables \in [Functions!Places -> BOOLEAN]
  BY DEF FunctionsInv, FunctionTypes
<1>3. Functions!CallbackTablesPropagate
  BY <1>2 DEF Functions!CallbackTablesPropagate
<1>4. QED
  BY <1>1, <1>3 DEF FunctionsInv, Functions!FunctionsAssumption

LEMMA RegisterFunctionStep ==
    ASSUME FunctionsInv, NEW i \in DOMAIN handles, Functions!Register(i)
    PROVE  FunctionsInv' /\ Functions!CallbackTablesPropagate
<1> DEFINE h == handles[i]
           e == [fn |-> h.fn, checked |-> h.checked]
<1>1. h \in HandleSet
  BY ElementOfSeq, LenProperties DEF FunctionsInv, FunctionTypes
<1>2. h.kind \in Functions!Kinds /\ e \in Entries(h.kind)
  BY <1>1 DEF HandleSet, Entries
<1>3. /\ \/ registry' = registry
         \/ registry' = [registry EXCEPT ![h.kind] = Functions!Bind(registry[h.kind], h.name, e)]
      /\ last'.op = "register" /\ last'.err \in CallErrors
      /\ UNCHANGED <<handles, tables>>
  BY DEF Functions!Register, Functions!Failed, Functions!Done, CallErrors
<1> HIDE DEF h, e
<1>4. DOMAIN registry = Functions!Kinds /\ RegistryFit
  BY DEF FunctionsInv, FunctionTypes
<1>5. DOMAIN registry' = Functions!Kinds /\ RegistryFit'
  <2>1. CASE registry' = registry
    BY <1>4, <2>1, ConstantSets DEF RegistryFit
  <2>2. CASE registry' = [registry EXCEPT ![h.kind] = Functions!Bind(registry[h.kind], h.name, e)]
    <3>1. /\ DOMAIN registry' = Functions!Kinds
          /\ \A k \in Functions!Kinds : registry'[k] =
                IF k = h.kind THEN Functions!Bind(registry[h.kind], h.name, e) ELSE registry[k]
      BY <1>4, <2>2
    <3>2. \A n \in DOMAIN Functions!Bind(registry[h.kind], h.name, e) :
             Functions!Bind(registry[h.kind], h.name, e)[n] \in Entries(h.kind)
      BY <1>2, <1>4 DEF Functions!Bind, RegistryFit
    <3>3. \A k \in Functions!Kinds : \A n \in DOMAIN registry'[k] : registry'[k][n] \in Entries(k)
      BY <1>4, <3>1, <3>2 DEF RegistryFit
    <3>4. QED
      BY <3>1, <3>3, ConstantSets DEF RegistryFit
  <2>3. QED
    BY <1>3, <2>1, <2>2
<1>6. QED
  BY <1>3, <1>5, FunctionRest

LEMMA DeregisterFunctionStep ==
    ASSUME FunctionsInv, NEW kind \in Functions!Kinds, NEW n, Functions!Deregister(kind, n)
    PROVE  FunctionsInv' /\ Functions!CallbackTablesPropagate
<1> DEFINE names == DOMAIN registry[kind] \ {n}
<1>1. /\ registry' = [registry EXCEPT ![kind] = [x \in names |-> registry[kind][x]]]
      /\ last'.op = "deregister" /\ last'.err \in CallErrors
      /\ UNCHANGED <<handles, tables>>
  BY DEF Functions!Deregister, Functions!Restrict, Functions!Done, CallErrors
<1>2. DOMAIN registry = Functions!Kinds /\ RegistryFit
  BY DEF FunctionsInv, FunctionTypes
<1>3. /\ DOMAIN registry' = Functions!Kinds
      /\ \A k \in Functions!Kinds : registry'[k] =
            IF k = kind THEN [x \in names |-> registry[kind][x]] ELSE registry[k]
  BY <1>1, <1>2
<1>4. \A k \in Functions!Kinds : \A m \in DOMAIN registry'[k] : registry'[k][m] \in Entries(k)
  BY <1>2, <1>3 DEF RegistryFit
<1>5. RegistryFit'
  BY <1>4, ConstantSets DEF RegistryFit
<1>6. QED
  BY <1>1, <1>3, <1>5, FunctionRest

LEMMA FromInternalStep ==
    ASSUME FunctionsInv, NEW kind \in Functions!Kinds, NEW n \in Functions!AllNames,
           Functions!FromInternal(kind, n)
    PROVE  FunctionsInv' /\ Functions!CallbackTablesPropagate
<1> DEFINE h == [kind |-> kind, form |-> "udf", name |-> n, fn |-> registry[kind][n].fn,
                 inject |-> FALSE, checked |-> registry[kind][n].checked]
<1>1. /\ Len(handles) < MaxHandles
      /\ handles' = handles \/ (n \in DOMAIN registry[kind] /\ handles' = Append(handles, h))
      /\ last'.op = "look up" /\ last'.err \in CallErrors
      /\ UNCHANGED <<registry, tables>>
  BY DEF Functions!FromInternal, Functions!Failed, Functions!Done, CallErrors
<1>2. n \in DOMAIN registry[kind] => h \in HandleSet
  <2>1. n \in DOMAIN registry[kind] => registry[kind][n] \in Entries(kind)
    BY DEF FunctionsInv, RegistryFit
  <2>2. QED
    BY <2>1 DEF HandleSet, Entries
<1> HIDE DEF h
<1>3. handles' \in Seq(HandleSet) /\ Len(handles') <= MaxHandles
  <2>1. handles \in Seq(HandleSet) /\ MaxHandles \in Nat /\ Len(handles) \in Nat
    BY LenProperties DEF FunctionsInv, FunctionTypes, Functions!FunctionsAssumption
  <2>2. Len(handles) < MaxHandles
    BY <1>1
  <2>3. CASE handles' = handles
    BY <2>1, <2>2, <2>3
  <2>4. CASE h \in HandleSet /\ handles' = Append(handles, h)
    BY <2>1, <2>2, <2>4, AppendProperties
  <2>5. QED
    BY <1>1, <1>2, <2>3, <2>4
<1>4. FunctionTypes'
  BY <1>1, <1>3, ConstantSets DEF FunctionsInv, FunctionTypes
<1>5. RegistryFit'
  BY <1>1, ConstantSets DEF FunctionsInv, RegistryFit
<1>6. Functions!CallbackTablesPropagate
  <2>1. tables' = tables /\ tables \in [Functions!Places -> BOOLEAN]
    BY <1>1 DEF FunctionsInv, FunctionTypes
  <2>2. QED
    BY <1>1, <2>1 DEF Functions!CallbackTablesPropagate
<1>7. QED
  BY <1>4, <1>5, <1>6 DEF FunctionsInv, Functions!FunctionsAssumption

LEMMA TableCallStep ==
    ASSUME FunctionsInv, NEW i \in DOMAIN handles, NEW direct \in BOOLEAN, Functions!TableCall(i, direct)
    PROVE  FunctionsInv' /\ Functions!CallbackTablesPropagate
<1> DEFINE p == IF direct THEN "global" ELSE "caller"
<1>1. /\ tables' = [tables EXCEPT ![p] = TRUE] /\ UNCHANGED <<registry, handles>>
      /\ last'.op = (IF direct THEN "direct" ELSE "query") /\ last'.err \in CallErrors
  BY DEF Functions!TableCall, Functions!WrapSessionKwarg, Functions!SessionOf,
         Functions!CopiedFunctions, Functions!Done, CallErrors
<1>2. tables \in [Functions!Places -> BOOLEAN]
  BY DEF FunctionsInv, FunctionTypes
<1>3. tables' \in [Functions!Places -> BOOLEAN]
  BY <1>1, <1>2
<1>4. FunctionTypes' /\ RegistryFit'
  BY <1>1, <1>3, ConstantSets DEF FunctionsInv, FunctionTypes, RegistryFit
<1>5. Functions!CallbackTablesPropagate
  <2>1. CASE direct = TRUE
    <3>1. /\ last'.op = "direct" /\ tables' = [tables EXCEPT !["global"] = TRUE]
      BY <1>1, <2>1
    <3>2. \A q \in Functions!Places : tables'[q] = (IF q = "global" THEN TRUE ELSE tables[q])
      BY <1>2, <3>1
    <3>3. \A q \in Functions!Places : tables[q] \in BOOLEAN
      BY <1>2
    <3>4. QED
      BY <3>1, <3>2, <3>3 DEF Functions!CallbackTablesPropagate
  <2>2. CASE direct = FALSE
    <3>1. /\ last'.op = "query" /\ tables' = [tables EXCEPT !["caller"] = TRUE]
      BY <1>1, <2>2
    <3>2. \A q \in Functions!Places : tables'[q] = (IF q = "caller" THEN TRUE ELSE tables[q])
      BY <1>2, <3>1
    <3>3. \A q \in Functions!Places : tables[q] \in BOOLEAN
      BY <1>2
    <3>4. QED
      BY <3>1, <3>2, <3>3 DEF Functions!CallbackTablesPropagate
  <2>3. QED
    BY <2>1, <2>2
<1>6. QED
  BY <1>4, <1>5 DEF FunctionsInv, Functions!FunctionsAssumption

LEMMA FunctionsInit == Functions!FunctionsAssumption /\ Functions!Init => FunctionsInv
<1> SUFFICES ASSUME Functions!FunctionsAssumption, Functions!Init PROVE FunctionsInv
  OBVIOUS
<1>1. /\ handles = <<>> /\ last.err = ""
      /\ DOMAIN registry = Functions!Kinds /\ \A k \in Functions!Kinds : registry[k] = <<>>
      /\ tables \in [Functions!Places -> BOOLEAN]
  BY DEF Functions!Init, Functions!Done, Functions!NoNames
<1>2. FunctionTypes
  <2>1. handles \in Seq(HandleSet) /\ Len(handles) = 0
    BY <1>1, EmptySeq
  <2>2. Len(handles) <= MaxHandles
    BY <2>1 DEF Functions!FunctionsAssumption
  <2>3. QED
    BY <1>1, <2>1, <2>2 DEF FunctionTypes, CallErrors
<1>3. DOMAIN <<>> = {}
  OBVIOUS
<1>4. RegistryFit
  BY <1>1, <1>3 DEF RegistryFit
<1>5. QED
  BY <1>2, <1>4 DEF FunctionsInv

LEMMA FunctionsSteps ==
    ASSUME FunctionsInv, Functions!Next
    PROVE  FunctionsInv' /\ Functions!CallbackTablesPropagate
  BY MakeFunctionStep, RegisterFunctionStep, DeregisterFunctionStep, FromInternalStep, TableCallStep
  DEF Functions!Next

LEMMA FunctionsTyped == FunctionsInv => Functions!TypeOK
<1> SUFFICES ASSUME FunctionsInv PROVE Functions!TypeOK
  OBVIOUS
<1>1. \A i \in DOMAIN handles : handles[i] \in HandleSet
  BY ElementOfSeq, LenProperties DEF FunctionsInv, FunctionTypes
<1>2. \A i \in DOMAIN handles : /\ handles[i].kind \in Functions!Kinds
                                 /\ handles[i].form \in {"udf", "wrapper"}
                                 /\ \E c \in Callables : handles[i].fn = c.id
  BY <1>1 DEF HandleSet, Ids
<1>3. QED
  BY <1>2 DEF Functions!TypeOK, FunctionsInv, FunctionTypes, CallErrors

LEMMA FunctionsRun == FunctionsInv => Functions!RegisteredCanRun
<1> SUFFICES ASSUME FunctionsInv, NEW kind \in Functions!Kinds, NEW n \in DOMAIN registry[kind],
                    registry[kind][n].checked
             PROVE  \E c \in Callables : c.id = registry[kind][n].fn /\ Functions!CanRun(kind, c)
  BY DEF Functions!RegisteredCanRun
<1>1. registry[kind][n] \in Entries(kind)
  BY DEF FunctionsInv, RegistryFit
<1>2. QED
  BY <1>1 DEF Entries, Fit

-----------------------------------------------------------------------------
(* Window evaluators.                                                      *)

\* Induction over rows is by least and greatest elements.
LEMMA LeastOf ==
    ASSUME NEW T, T \subseteq Nat, T # {}
    PROVE  \E x \in T : \A y \in T : x <= y
<1> DEFINE R == OpToRel(<, Nat)
<1>1. IsWellFoundedOn(R, Nat)
  BY NatLessThanWellFounded
<1>2. PICK x \in T : \A y \in T : ~ (<<y, x>> \in R)
  <2> HIDE DEF R
  <2> QED
    BY <1>1, WFMin
<1>3. \A y \in T : ~(y < x)
  BY <1>2 DEF OpToRel
<1>4. QED
  BY <1>3

LEMMA GreatestOf ==
    ASSUME NEW n \in Nat, NEW T, T \subseteq 0 .. n, T # {}
    PROVE  \E x \in T : \A y \in T : y <= x
<1> DEFINE U == {m \in Nat : n - m \in T}
<1>1. U \subseteq Nat
  OBVIOUS
<1>2. \A y \in T : n - y \in U
  OBVIOUS
<1>3. U # {}
  BY <1>2
<1>4. PICK m \in U : \A y \in U : m <= y
  <2> HIDE DEF U
  <2> QED
    BY <1>1, <1>3, LeastOf
<1>5. n - m \in T /\ m \in Nat
  OBVIOUS
<1>6. \A y \in T : y <= n - m
  <2> SUFFICES ASSUME NEW y \in T PROVE y <= n - m
    OBVIOUS
  <2>1. m <= n - y
    BY <1>2, <1>4
  <2>2. QED
    BY <1>5, <2>1
<1>7. QED
  BY <1>5, <1>6

\* k holds n naturals in order.
Ordered(n, k) == /\ n \in Nat /\ \A i \in 1 .. n : k[i] \in Nat
                 /\ \A i \in 1 .. n - 1 : k[i] <= k[i + 1]

LEMMA OrderedThroughout ==
    ASSUME NEW n, NEW k, Ordered(n, k), NEW a \in 1 .. n, NEW b \in 1 .. n, a <= b
    PROVE  k[a] <= k[b]
<1> DEFINE T == {j \in a .. n : k[j] < k[a]}
<1>1. n \in Nat /\ (\A i \in 1 .. n : k[i] \in Nat) /\ (\A i \in 1 .. n - 1 : k[i] <= k[i + 1])
  BY DEF Ordered
<1>2. SUFFICES ASSUME T # {} PROVE FALSE
  <2>1. b \notin T
    BY <1>2
  <2>2. QED
    BY <1>1, <2>1
<1>3. T \subseteq Nat
  BY <1>1
<1>4. PICK x \in T : \A y \in T : x <= y
  <2> HIDE DEF T
  <2> QED
    BY <1>2, <1>3, LeastOf
<1>5. x \in a .. n /\ k[x] < k[a]
  OBVIOUS
<1>6. x # a
  BY <1>1, <1>5
<1>7. x - 1 \in a .. n /\ x - 1 \in 1 .. n - 1 /\ (x - 1) + 1 = x /\ x \in 1 .. n
  BY <1>1, <1>5, <1>6
<1>8. x - 1 \notin T
  <2> HIDE DEF T
  <2> QED
    BY <1>3, <1>4
<1>9. k[x - 1] >= k[a]
  BY <1>1, <1>7, <1>8
<1>10. k[x - 1] <= k[x]
  BY <1>1, <1>7
<1>11. QED
  BY <1>1, <1>5, <1>7, <1>9, <1>10

\* A row where peers start, and the last of them.
Starts(n, k) == {i \in 1 .. n : i = 1 \/ k[i - 1] # k[i]}
IsLast(n, k, i, j) == j \in i .. n /\ k[j] = k[i] /\ (j = n \/ k[j + 1] # k[i])

LEMMA LastThere ==
    ASSUME NEW n, NEW k, Ordered(n, k), NEW i \in 1 .. n
    PROVE  \E j \in i .. n : IsLast(n, k, i, j)
<1> DEFINE T == {j \in i .. n : k[j] = k[i]}
<1>1. n \in Nat /\ T \subseteq 0 .. n /\ i \in T
  BY DEF Ordered
<1>2. T # {}
  BY <1>1
<1>3. PICK j \in T : \A y \in T : y <= j
  <2> HIDE DEF T
  <2> QED
    BY <1>1, <1>2, GreatestOf
<1>4. j \in i .. n /\ k[j] = k[i]
  OBVIOUS
<1>5. j + 1 \notin T
  <2>1. j \in Nat /\ ~(j + 1 <= j)
    BY <1>1, <1>4
  <2> HIDE DEF T
  <2>2. QED
    BY <1>3, <2>1
<1>6. j = n \/ k[j + 1] # k[i]
  BY <1>1, <1>4, <1>5
<1>7. QED
  BY <1>4, <1>6 DEF IsLast

LEMMA StartThere ==
    ASSUME NEW n, NEW k, Ordered(n, k), NEW i \in 1 .. n
    PROVE  \E s \in Starts(n, k) : s <= i /\ k[s] = k[i]
<1> DEFINE T == {s \in 1 .. n : k[s] = k[i]}
<1>1. n \in Nat /\ T \subseteq Nat /\ i \in T
  BY DEF Ordered
<1>2. T # {}
  BY <1>1
<1>3. PICK s \in T : \A y \in T : s <= y
  <2> HIDE DEF T
  <2> QED
    BY <1>1, <1>2, LeastOf
<1>4. s \in 1 .. n /\ k[s] = k[i]
  OBVIOUS
<1>5. s <= i
  <2> HIDE DEF T
  <2> QED
    BY <1>1, <1>3
<1>6. s - 1 \notin T
  <2>1. ~(s <= s - 1)
    BY <1>1, <1>4
  <2> HIDE DEF T
  <2>2. QED
    BY <1>3, <2>1
<1>7. s = 1 \/ k[s - 1] # k[s]
  BY <1>1, <1>4, <1>6
<1>8. QED
  BY <1>4, <1>5, <1>7 DEF Starts

\* A row is between a start and the last of its peers exactly if it is a peer.
LEMMA PeersBetween ==
    ASSUME NEW n, NEW k, Ordered(n, k), NEW i \in 1 .. n, NEW s \in 1 .. n, NEW j, IsLast(n, k, s, j)
    PROVE  /\ s <= i /\ i <= j => k[i] = k[s]
           /\ s <= i /\ k[i] = k[s] => i <= j
<1>1. /\ n \in Nat /\ (\A m \in 1 .. n : k[m] \in Nat)
      /\ j \in s .. n /\ k[j] = k[s] /\ (j = n \/ k[j + 1] # k[s])
  BY DEF Ordered, IsLast
<1>2. ASSUME s <= i, i <= j PROVE k[i] = k[s]
  <2>1. j \in 1 .. n
    BY <1>1
  <2>2. k[s] <= k[i] /\ k[i] <= k[j]
    BY <1>2, <2>1, OrderedThroughout
  <2>3. QED
    BY <1>1, <2>1, <2>2
<1>3. ASSUME s <= i, k[i] = k[s], ~(i <= j) PROVE FALSE
  <2>1. j + 1 \in 1 .. n /\ j + 1 <= i /\ s <= j + 1 /\ j # n
    BY <1>1, <1>3
  <2>2. k[s] <= k[j + 1] /\ k[j + 1] <= k[i]
    BY <2>1, OrderedThroughout
  <2>3. QED
    BY <1>1, <1>3, <2>1, <2>2
<1>4. QED
  BY <1>2, <1>3

LEMMA OneStart ==
    ASSUME NEW n, NEW k, Ordered(n, k), NEW s \in Starts(n, k), NEW t \in Starts(n, k), k[s] = k[t]
    PROVE  s = t
<1>1. ASSUME NEW x \in Starts(n, k), NEW y \in Starts(n, k), k[x] = k[y], x < y PROVE FALSE
  <2>1. n \in Nat /\ x \in 1 .. n /\ y \in 1 .. n /\ k[y - 1] # k[y]
    BY <1>1 DEF Starts, Ordered
  <2>2. y - 1 \in 1 .. n /\ x <= y - 1 /\ y - 1 <= y
    BY <1>1, <2>1
  <2>3. k[x] <= k[y - 1] /\ k[y - 1] <= k[y]
    BY <2>1, <2>2, OrderedThroughout
  <2>4. k[x] \in Nat /\ k[y] \in Nat /\ k[y - 1] \in Nat
    BY <2>1, <2>2 DEF Ordered
  <2>5. QED
    BY <1>1, <2>1, <2>3, <2>4
<1>2. s \in Int /\ t \in Int
  BY DEF Starts, Ordered
<1>3. QED
  BY <1>1, <1>2

LEMMA KeysOrdered == keys \in Windows!SortedKeys => Ordered(Len(keys), keys) /\ keys \in Seq(1 .. 2)
<1> SUFFICES ASSUME keys \in Windows!SortedKeys
             PROVE  Ordered(Len(keys), keys) /\ keys \in Seq(1 .. 2)
  OBVIOUS
<1>1. PICK n \in 1 .. PartitionRows : keys \in [1 .. n -> 1 .. 2]
  BY DEF Windows!SortedKeys
<1>2. n \in Nat
  OBVIOUS
<1>3. keys \in Seq(1 .. 2)
  BY <1>1, <1>2, SeqDef
<1>4. Len(keys) \in Nat /\ DOMAIN keys = 1 .. Len(keys) /\ \A i \in 1 .. Len(keys) : keys[i] \in 1 .. 2
  BY <1>3, LenProperties, ElementOfSeq
<1>5. \A i \in 1 .. Len(keys) - 1 : keys[i] <= keys[i + 1]
  BY DEF Windows!SortedKeys
<1>6. QED
  BY <1>3, <1>4, <1>5 DEF Ordered

\* Every row is in exactly one range of peers.
LEMMA PeersPartition ==
    ASSUME keys \in Windows!SortedKeys, NEW i \in 0 .. Len(keys) - 1
    PROVE  \E p : {r \in Windows!PeerRanges : r[1] <= i /\ i < r[2]} = {p}
<1> DEFINE n == Len(keys)
           Last(s) == CHOOSE j \in s .. n : keys[j] = keys[s] /\ (j = n \/ keys[j + 1] # keys[s])
<1>1. Ordered(n, keys) /\ n \in Nat
  BY KeysOrdered DEF Ordered
<1>2. Windows!PeerRanges = {<<s - 1, Last(s)>> : s \in Starts(n, keys)}
  BY DEF Windows!PeerRanges, Windows!Rows, Starts
<1>3. \A s \in Starts(n, keys) : s \in 1 .. n
  BY DEF Starts
<1>4. \A s \in Starts(n, keys) : IsLast(n, keys, s, Last(s))
  <2> SUFFICES ASSUME NEW s \in Starts(n, keys) PROVE IsLast(n, keys, s, Last(s))
    OBVIOUS
  <2>1. \E j \in s .. n : IsLast(n, keys, s, j)
    BY <1>1, <1>3, LastThere
  <2>2. \E j \in s .. n : keys[j] = keys[s] /\ (j = n \/ keys[j + 1] # keys[s])
    BY <2>1 DEF IsLast
  <2>3. QED
    BY <2>2 DEF IsLast
<1> HIDE DEF Last
<1>5. i + 1 \in 1 .. n /\ i \in Int
  BY <1>1
<1>6. PICK s \in Starts(n, keys) : s <= i + 1 /\ keys[s] = keys[i + 1]
  BY <1>1, <1>5, StartThere
<1> HIDE DEF n
<1>7. \A t \in Starts(n, keys) : (t - 1 <= i /\ i < Last(t)) <=> t = s
  <2> SUFFICES ASSUME NEW t \in Starts(n, keys) PROVE (t - 1 <= i /\ i < Last(t)) <=> t = s
    OBVIOUS
  <2>1. t \in 1 .. n /\ IsLast(n, keys, t, Last(t))
    BY <1>3, <1>4
  <2>2. Last(t) \in t .. n
    BY <2>1 DEF IsLast
  <2>3. t - 1 <= i /\ i < Last(t) <=> t <= i + 1 /\ i + 1 <= Last(t)
    BY <1>1, <1>5, <2>1, <2>2
  <2>4. t <= i + 1 /\ i + 1 <= Last(t) => keys[i + 1] = keys[t]
    BY <1>1, <1>5, <2>1, PeersBetween
  <2>5. t <= i + 1 /\ keys[i + 1] = keys[t] => i + 1 <= Last(t)
    BY <1>1, <1>5, <2>1, PeersBetween
  <2>6. keys[t] = keys[s] => t = s
    BY <1>1, <1>6, OneStart
  <2>7. QED
    BY <1>6, <2>3, <2>4, <2>5, <2>6
<1>8. {r \in Windows!PeerRanges : r[1] <= i /\ i < r[2]} = {<<s - 1, Last(s)>>}
  <2>1. ASSUME NEW r \in Windows!PeerRanges, r[1] <= i, i < r[2] PROVE r = <<s - 1, Last(s)>>
    <3>1. PICK t \in Starts(n, keys) : r = <<t - 1, Last(t)>>
      BY <1>2, <2>1
    <3>2. t - 1 <= i /\ i < Last(t)
      BY <2>1, <3>1
    <3>3. QED
      BY <1>7, <3>1, <3>2
  <2>2. <<s - 1, Last(s)>> \in Windows!PeerRanges /\ s - 1 <= i /\ i < Last(s)
    BY <1>2, <1>6, <1>7
  <2>3. QED
    BY <2>1, <2>2
<1>9. QED
  BY <1>8

\* The whole partition is answered at once, or a row at a time in its range.
WindowTypes ==
    /\ PartitionRows \in Nat /\ keys \in Windows!SortedKeys /\ evaluator \in Windows!Evaluators
    /\ arrived \in 0 .. Windows!Rows /\ ended \in BOOLEAN /\ Len(answered) \in 0 .. arrived
    /\ memoized \in 0 .. Len(answered)
    /\ method \subseteq {"evaluate", "evaluate_all", "evaluate_all_with_rank"}
    /\ ranks \in {{}, Windows!PeerRanges}
EndInv == ended => arrived = Windows!Rows
WholeInv == ~Windows!Bounded =>
    answered = <<>> \/ (arrived = Windows!Rows /\ Len(answered) = Windows!Rows)
RangesInv == Windows!Bounded =>
    answered \in Seq(Int \X Int) /\ \A i \in DOMAIN answered : answered[i] = Windows!RangeOf(i - 1, Windows!Rows)
WindowInv == WindowTypes /\ EndInv /\ WholeInv /\ RangesInv /\ Windows!CallsTheTabledMethod

LEMMA WindowFacts ==
    ASSUME WindowInv
    PROVE  /\ Windows!Rows \in Nat /\ arrived \in Nat /\ Len(answered) \in Nat /\ memoized \in Nat
           /\ evaluator.uses_window_frame \in BOOLEAN /\ evaluator.supports_bounded_execution \in BOOLEAN
           /\ evaluator.include_rank \in BOOLEAN /\ evaluator.ahead \in BOOLEAN
<1>1. Windows!Rows \in Nat
  BY KeysOrdered DEF WindowInv, WindowTypes, Windows!Rows, Ordered
<1>2. evaluator \in Windows!Evaluators /\ arrived \in 0 .. Windows!Rows /\ Len(answered) \in 0 .. arrived
      /\ memoized \in 0 .. Len(answered)
  BY DEF WindowInv, WindowTypes
<1>3. arrived \in Nat /\ Len(answered) \in Nat /\ memoized \in Nat
  BY <1>1, <1>2
<1>4. QED
  BY <1>1, <1>2, <1>3 DEF Windows!Evaluators

\* A row that may be answered has the range it has in the whole partition.
LEMMA RangeSettled ==
    ASSUME WindowInv, Windows!RowDue
    PROVE  /\ Windows!RangeOf(Len(answered), arrived) = Windows!RangeOf(Len(answered), Windows!Rows)
           /\ Windows!RangeOf(Len(answered), arrived) \in Int \X Int
<1> DEFINE x == Len(answered)
           N == Windows!Rows
<1>1. /\ N \in Nat /\ arrived \in Nat /\ x \in Nat /\ arrived <= N /\ (ended => arrived = N)
      /\ evaluator.uses_window_frame \in BOOLEAN /\ evaluator.ahead \in BOOLEAN
  BY WindowFacts DEF WindowInv, WindowTypes, EndInv
<1>2. x < arrived /\ (Windows!RangeOf(x, arrived)[2] < arrived \/ Windows!Causal \/ ended)
  BY DEF Windows!RowDue
<1> HIDE DEF x, N
<1>3. CASE evaluator.uses_window_frame
  BY <1>1, <1>3 DEF Windows!RangeOf, Windows!FrameRange, x, N
<1>4. CASE ~evaluator.uses_window_frame
  <2>1. Windows!RangeOf(x, arrived) = Windows!GetRange(x, arrived) /\ Windows!RangeOf(x, N) = Windows!GetRange(x, N)
    BY <1>4 DEF Windows!RangeOf
  <2>2. Windows!GetRange(x, arrived)[2] < arrived \/ arrived = N
    BY <1>1, <1>2, <1>4, <2>1 DEF Windows!Causal, Windows!IsCausal
  <2>3. Windows!GetRange(x, arrived) \in Int \X Int
    BY <1>1 DEF Windows!GetRange
  <2>4. Windows!GetRange(x, arrived) = Windows!GetRange(x, N)
    <3>1. CASE arrived = N
      BY <3>1
    <3>2. CASE Windows!GetRange(x, arrived)[2] < arrived /\ ~evaluator.ahead
      BY <3>2 DEF Windows!GetRange
    <3>3. CASE Windows!GetRange(x, arrived)[2] < arrived /\ evaluator.ahead
      <4>1. x + 2 <= arrived
        BY <1>1, <3>3 DEF Windows!GetRange
      <4>2. x + 2 <= N
        BY <1>1, <4>1
      <4>3. QED
        BY <4>1, <4>2 DEF Windows!GetRange
    <3>4. QED
      BY <1>1, <2>2, <3>1, <3>2, <3>3
  <2>5. QED
    BY <2>1, <2>3, <2>4 DEF x, N
<1>5. QED
  BY <1>1, <1>3, <1>4 DEF x, N

LEMMA WindowInit == Windows!WindowAssumption /\ Windows!Init => WindowInv
<1> SUFFICES ASSUME Windows!WindowAssumption, Windows!Init PROVE WindowInv
  OBVIOUS
<1>1. /\ keys \in Windows!SortedKeys /\ evaluator \in Windows!Evaluators /\ PartitionRows \in Nat
      /\ arrived = 0 /\ ended = FALSE /\ answered = <<>> /\ method = {} /\ ranks = {} /\ memoized = 0
  BY DEF Windows!Init, Windows!WindowAssumption
<1>2. Windows!Rows \in Nat /\ Len(answered) = 0 /\ answered \in Seq(Int \X Int) /\ DOMAIN answered = {}
  BY <1>1, KeysOrdered, EmptySeq DEF Windows!Rows, Ordered
<1>3. WindowTypes
  <2>1. arrived \in 0 .. Windows!Rows /\ Len(answered) \in 0 .. arrived /\ memoized \in 0 .. Len(answered)
    BY <1>1, <1>2
  <2>2. QED
    BY <1>1, <2>1 DEF WindowTypes
<1>4. EndInv /\ WholeInv /\ RangesInv
  BY <1>1, <1>2 DEF EndInv, WholeInv, RangesInv
<1>5. Windows!CallsTheTabledMethod
  BY <1>1 DEF Windows!CallsTheTabledMethod
<1>6. QED
  BY <1>3, <1>4, <1>5 DEF WindowInv

\* A step that answers nothing.
LEMMA WindowQuiet ==
    ASSUME WindowInv, UNCHANGED <<keys, evaluator, answered, method, ranks>>,
           arrived' \in arrived .. Windows!Rows, ended' \in BOOLEAN, ended' => arrived' = Windows!Rows,
           memoized' \in 0 .. Len(answered)
    PROVE  WindowInv'
<1>1. /\ Windows!Rows \in Nat /\ arrived \in Nat /\ arrived <= Windows!Rows /\ Len(answered) \in 0 .. arrived
  BY WindowFacts DEF WindowInv, WindowTypes
<1>2. Windows!Rows' = Windows!Rows /\ Windows!SortedKeys' = Windows!SortedKeys
      /\ Windows!Evaluators' = Windows!Evaluators /\ Windows!PeerRanges' = Windows!PeerRanges
      /\ (Windows!Bounded' <=> Windows!Bounded)
  BY DEF Windows!Rows, Windows!SortedKeys, Windows!Evaluators, Windows!PeerRanges, Windows!Bounded
<1>3. Len(answered') \in 0 .. arrived' /\ arrived' \in 0 .. Windows!Rows
  BY <1>1
<1>4. WindowTypes'
  BY <1>2, <1>3 DEF WindowInv, WindowTypes
<1>5. EndInv' /\ WholeInv'
  BY <1>1, <1>2 DEF WindowInv, EndInv, WholeInv
<1>6. RangesInv'
  BY <1>2 DEF WindowInv, RangesInv, Windows!RangeOf, Windows!FrameRange, Windows!GetRange
<1>7. Windows!CallsTheTabledMethod'
  BY <1>2 DEF WindowInv, Windows!CallsTheTabledMethod, Windows!ToImplement
<1>8. QED
  BY <1>4, <1>5, <1>6, <1>7 DEF WindowInv

LEMMA EvaluateStep ==
    ASSUME WindowInv, Windows!Evaluate
    PROVE  WindowInv'
<1> DEFINE r == Windows!RangeOf(Len(answered), arrived)
<1>1. /\ Windows!Bounded /\ Len(answered) < arrived /\ Windows!RowDue
      /\ answered' = Append(answered, r) /\ method' = method \cup {"evaluate"}
      /\ UNCHANGED <<keys, evaluator, arrived, ended, ranks, memoized>>
  BY DEF Windows!Evaluate, Windows!RowDue, Windows!AnswerRow
<1>2. r = Windows!RangeOf(Len(answered), Windows!Rows) /\ r \in Int \X Int
  BY <1>1, RangeSettled
<1> HIDE DEF r
<1>3. /\ Windows!Rows \in Nat /\ arrived \in Nat /\ Len(answered) \in Nat /\ memoized \in 0 .. Len(answered)
      /\ arrived \in 0 .. Windows!Rows
  BY WindowFacts DEF WindowInv, WindowTypes
<1>4. Windows!Rows' = Windows!Rows /\ Windows!SortedKeys' = Windows!SortedKeys
      /\ Windows!Evaluators' = Windows!Evaluators /\ Windows!PeerRanges' = Windows!PeerRanges
      /\ (Windows!Bounded' <=> Windows!Bounded)
  BY <1>1 DEF Windows!Rows, Windows!SortedKeys, Windows!Evaluators, Windows!PeerRanges, Windows!Bounded
<1>5. answered \in Seq(Int \X Int) /\ DOMAIN answered = 1 .. Len(answered)
  BY <1>1, LenProperties DEF WindowInv, RangesInv
<1>6. /\ answered' \in Seq(Int \X Int) /\ Len(answered') = Len(answered) + 1
      /\ \A i \in 1 .. Len(answered) : answered'[i] = answered[i]
      /\ answered'[Len(answered) + 1] = r /\ DOMAIN answered' = 1 .. Len(answered')
  BY <1>1, <1>2, <1>5, AppendProperties, LenProperties
<1>7. Len(answered') \in 0 .. arrived' /\ memoized' \in 0 .. Len(answered')
  BY <1>1, <1>3, <1>6
<1>8. WindowTypes'
  BY <1>1, <1>4, <1>7 DEF WindowInv, WindowTypes
<1>9. EndInv' /\ WholeInv'
  BY <1>1, <1>4 DEF WindowInv, EndInv, WholeInv
<1>10. RangesInv'
  <2>2. \A i \in DOMAIN answered' : answered'[i] = Windows!RangeOf(i - 1, Windows!Rows)
    <3> SUFFICES ASSUME NEW i \in DOMAIN answered' PROVE answered'[i] = Windows!RangeOf(i - 1, Windows!Rows)
      OBVIOUS
    <3>1. CASE i \in 1 .. Len(answered)
      BY <1>1, <1>5, <1>6, <3>1 DEF WindowInv, RangesInv
    <3>2. CASE i = Len(answered) + 1
      <4>1. i - 1 = Len(answered)
        BY <1>3, <3>2
      <4>2. QED
        BY <1>2, <1>6, <3>2, <4>1
    <3>3. i \in 1 .. Len(answered) \/ i = Len(answered) + 1
      BY <1>3, <1>6
    <3>4. QED
      BY <3>1, <3>2, <3>3
  <2>3. (\A i \in DOMAIN answered : answered[i] = Windows!RangeOf(i - 1, Windows!Rows))'
    <3>1. evaluator' = evaluator /\ keys' = keys
      BY <1>1
    <3>2. QED
      BY <2>2, <3>1 DEF Windows!RangeOf, Windows!FrameRange, Windows!GetRange, Windows!Rows
  <2>4. QED
    BY <1>6, <2>3 DEF RangesInv
<1>11. Windows!CallsTheTabledMethod'
  BY <1>1 DEF WindowInv, Windows!CallsTheTabledMethod, Windows!ToImplement, Windows!Bounded
<1>12. QED
  BY <1>8, <1>9, <1>10, <1>11 DEF WindowInv

LEMMA FunctionLength ==
    ASSUME NEW n \in Nat, NEW f, DOMAIN f = 1 .. n, f = [i \in 1 .. n |-> f[i]]
    PROVE  Len(f) = n
<1> DEFINE S == {f[i] : i \in 1 .. n}
<1>1. f \in [1 .. n -> S]
  OBVIOUS
<1> HIDE DEF S
<1>2. f \in Seq(S)
  BY <1>1, SeqDef
<1>3. Len(f) \in Nat /\ DOMAIN f = 1 .. Len(f)
  BY <1>2, LenProperties
<1>4. QED
  BY <1>3

\* The whole partition is answered by the method that the table names.
LEMMA WholeStep ==
    ASSUME WindowInv, Windows!EvaluateFrames \/ Windows!EvaluateAll \/ Windows!EvaluateAllWithRank
    PROVE  WindowInv'
<1>1. /\ ~Windows!Bounded /\ ended /\ answered = <<>>
      /\ UNCHANGED <<keys, evaluator, arrived, ended, memoized>>
  BY DEF Windows!EvaluateFrames, Windows!EvaluateAll, Windows!EvaluateAllWithRank, Windows!FramesDue,
         Windows!AllDue, Windows!RanksDue, Windows!PartitionDue
<1>2. DOMAIN answered' = 1 .. Windows!Rows /\ answered' = [i \in 1 .. Windows!Rows |-> answered'[i]]
  BY DEF Windows!EvaluateFrames, Windows!EvaluateAll, Windows!EvaluateAllWithRank
<1>3. ranks' \in {ranks, Windows!PeerRanges}
  BY DEF Windows!EvaluateFrames, Windows!EvaluateAll, Windows!EvaluateAllWithRank, Windows!RanksInPartition
<1>4. \/ evaluator.uses_window_frame /\ method' = method \cup {"evaluate"}
      \/ /\ ~evaluator.uses_window_frame /\ ~evaluator.include_rank
         /\ method' = method \cup {"evaluate_all"}
      \/ /\ ~evaluator.uses_window_frame /\ evaluator.include_rank
         /\ method' = method \cup {"evaluate_all_with_rank"}
  BY DEF Windows!EvaluateFrames, Windows!EvaluateAll, Windows!EvaluateAllWithRank, Windows!FramesDue,
         Windows!AllDue, Windows!RanksDue
<1>5. /\ Windows!Rows \in Nat /\ arrived = Windows!Rows /\ Len(answered) = 0 /\ memoized = 0
  <2>1. Len(answered) = 0
    BY <1>1, EmptySeq
  <2>2. QED
    BY <1>1, <2>1, WindowFacts DEF WindowInv, WindowTypes, EndInv
<1>6. Len(answered') = Windows!Rows
  <2>1. PICK a : a = answered'
    OBVIOUS
  <2>2. Len(a) = Windows!Rows
    BY <1>2, <1>5, <2>1, FunctionLength
  <2>3. QED
    BY <2>1, <2>2
<1>7. Windows!Rows' = Windows!Rows /\ Windows!SortedKeys' = Windows!SortedKeys
      /\ Windows!Evaluators' = Windows!Evaluators /\ Windows!PeerRanges' = Windows!PeerRanges
      /\ (Windows!Bounded' <=> Windows!Bounded)
  BY <1>1 DEF Windows!Rows, Windows!SortedKeys, Windows!Evaluators, Windows!PeerRanges, Windows!Bounded
<1>8. Len(answered') \in 0 .. arrived' /\ memoized' \in 0 .. Len(answered')
  BY <1>1, <1>5, <1>6
<1>9. method' \subseteq {"evaluate", "evaluate_all", "evaluate_all_with_rank"}
  BY <1>4 DEF WindowInv, WindowTypes
<1>10. WindowTypes'
  BY <1>1, <1>3, <1>7, <1>8, <1>9 DEF WindowInv, WindowTypes
<1>11. EndInv' /\ WholeInv' /\ RangesInv'
  BY <1>1, <1>5, <1>6, <1>7 DEF EndInv, WholeInv, RangesInv
<1>12. Windows!CallsTheTabledMethod'
  BY <1>1, <1>4 DEF WindowInv, Windows!CallsTheTabledMethod, Windows!ToImplement, Windows!Bounded
<1>13. QED
  BY <1>10, <1>11, <1>12 DEF WindowInv

LEMMA WindowSteps ==
    ASSUME WindowInv, Windows!Next
    PROVE  WindowInv'
<1>1. /\ Windows!Rows \in Nat /\ arrived \in Nat /\ arrived <= Windows!Rows /\ Len(answered) \in Nat
      /\ memoized \in 0 .. Len(answered) /\ ended \in BOOLEAN /\ (ended => arrived = Windows!Rows)
  BY WindowFacts DEF WindowInv, WindowTypes, EndInv
<1>2. ASSUME NEW k \in 1 .. PartitionRows, Windows!Arrive(k) PROVE WindowInv'
  <2>1. /\ UNCHANGED <<keys, evaluator, ended, answered, method, ranks, memoized>>
        /\ ~ended /\ arrived' = arrived + k /\ arrived + k <= Windows!Rows
    BY <1>2 DEF Windows!Arrive
  <2>2. arrived' \in arrived .. Windows!Rows
    BY <1>1, <2>1
  <2>3. QED
    BY <1>1, <2>1, <2>2, WindowQuiet
<1>3. CASE Windows!End
  <2>1. /\ UNCHANGED <<keys, evaluator, arrived, answered, method, ranks, memoized>>
        /\ arrived = Windows!Rows /\ ended' = TRUE
    BY <1>3 DEF Windows!End
  <2>2. arrived' \in arrived .. Windows!Rows
    BY <1>1, <2>1
  <2>3. QED
    BY <1>1, <2>1, <2>2, WindowQuiet
<1>4. CASE Windows!Memoize
  <2>1. /\ UNCHANGED <<keys, evaluator, arrived, ended, answered, method, ranks>>
        /\ memoized' = Len(answered)
    BY <1>4 DEF Windows!Memoize
  <2>2. arrived' \in arrived .. Windows!Rows /\ memoized' \in 0 .. Len(answered)
    BY <1>1, <2>1
  <2>3. QED
    BY <1>1, <2>1, <2>2, WindowQuiet
<1>5. QED
  BY <1>2, <1>3, <1>4, EvaluateStep, WholeStep DEF Windows!Next

LEMMA WindowTyped == WindowInv => Windows!TypeOK
  BY WindowFacts DEF WindowInv, WindowTypes, Windows!TypeOK

LEMMA WindowCardinality == \A S : Windows!Cardinality(S) = Cardinality(S)
  BY DEF Windows!Cardinality, Cardinality

LEMMA WindowAnswers ==
    WindowInv => /\ Windows!BatchesDoNotShow /\ Windows!RanksPartitionRows
                 /\ Windows!CallsTheTabledMethod /\ Windows!AllAnswered
<1> SUFFICES ASSUME WindowInv
             PROVE  /\ Windows!BatchesDoNotShow /\ Windows!RanksPartitionRows
                    /\ Windows!CallsTheTabledMethod /\ Windows!AllAnswered
  OBVIOUS
<1>1. Windows!BatchesDoNotShow
  BY DEF WindowInv, RangesInv, Windows!BatchesDoNotShow
<1>2. Windows!RanksPartitionRows
  <2> SUFFICES ASSUME ranks # {}, NEW i \in 0 .. Windows!Rows - 1
               PROVE  Windows!Cardinality({r \in ranks : r[1] <= i /\ i < r[2]}) = 1
    BY DEF Windows!RanksPartitionRows
  <2>1. ranks = Windows!PeerRanges /\ keys \in Windows!SortedKeys
    BY DEF WindowInv, WindowTypes
  <2>2. PICK p : {r \in Windows!PeerRanges : r[1] <= i /\ i < r[2]} = {p}
    BY <2>1, PeersPartition DEF Windows!Rows
  <2>3. QED
    BY <2>1, <2>2, FS_Singleton, WindowCardinality
<1>3. Windows!AllAnswered
  <2> SUFFICES ASSUME ended, ~Windows!RowDue, ~Windows!FramesDue, ~Windows!AllDue, ~Windows!RanksDue
               PROVE  Len(answered) = Windows!Rows
    BY DEF Windows!AllAnswered
  <2>1. arrived = Windows!Rows /\ Len(answered) \in 0 .. arrived /\ Windows!Rows \in Nat
    BY WindowFacts DEF WindowInv, WindowTypes, EndInv
  <2>2. CASE Windows!Bounded
    <3>1. ~(Len(answered) < arrived)
      BY <2>2 DEF Windows!RowDue
    <3>2. QED
      BY <2>1, <3>1
  <2>3. CASE ~Windows!Bounded
    <3>1. answered # <<>>
      BY <2>3 DEF Windows!FramesDue, Windows!AllDue, Windows!RanksDue, Windows!PartitionDue
    <3>2. QED
      BY <2>3, <3>1 DEF WindowInv, WholeInv
  <2>4. QED
    BY <2>2, <2>3
<1>4. QED
  BY <1>1, <1>2, <1>3 DEF WindowInv

-----------------------------------------------------------------------------
(* Static publication.                                                     *)

CallPcs == Publication!Ended \cup {"check", "write", "writing", "cleanup", "committed"}
Files == {Publication!IndexFile(p) : p \in Publishers} \cup {Publication!ModelFile(p) : p \in Publishers}
         \cup {Publication!SourceFile(v) : v \in 0 .. PublicationEdits}
\* What a manifest may list, and what an object may hold.
Lists == UNION {[S -> Files] : S \in SUBSET Publication!Paths}
Contents == Files \cup {Publication!None, Publication!Torn, Publication!Stray} \cup {Publication!Manifest(p, l) : p \in Publishers, l \in Lists}
PlanItems == [path : Publication!Paths, content : Contents]
FileItems == [path : Publication!Paths, content : Files]

Calls == [pc : CallPcs, plan : Seq(PlanItems), next : Nat]
PublicationTypes ==
    /\ store \in {"local", "s3"} /\ exists \in BOOLEAN /\ overlap \in BOOLEAN
    /\ object \in [Publication!Paths -> Contents] /\ pub \in [Publishers -> Calls]
    /\ version \in 0 .. PublicationEdits /\ attempts \in 0 .. MaxAttempts

\* A plan lists files, each path once, and ends with the manifest that names them all.
PlanOf(p, base) ==
    Append(base, [path |-> "manifest", content |-> Publication!Manifest(p, Publication!Listed(base))])
IsPlan(p, plan) ==
    Publication!EnsureUniquePaths(plan) /\ \E base \in Seq(FileItems) : plan = PlanOf(p, base)
\* Where a call is in its plan.
InPlan(p, c) ==
    /\ c.pc \in Publication!Ended => c.plan = <<>> /\ c.next = 1
    /\ c.pc \notin Publication!Ended => IsPlan(p, c.plan)
    /\ c.pc = "check" => c.next = 1
    /\ c.pc \in {"check", "write", "writing", "cleanup"} => c.next \in 1 .. Len(c.plan)
    /\ c.pc = "committed" => c.next = Len(c.plan) + 1
PlansInv == \A p \in Publishers : InPlan(p, pub[p])

Busy(p) == pub[p].pc \in {"write", "writing", "cleanup"}
\* One publisher at a time writes: the local directory is made by one of them only, and
\* in S3 the others are noticed.
Exclusive == ~overlap => \A p, q \in Publishers : Busy(p) /\ Busy(q) => p = q
Locked == store = "local" => ~overlap /\ \A p \in Publishers : Busy(p) => exists
Vacant == store = "local" /\ ~exists => \A x \in Publication!Paths : object[x] = Publication!None
\* While it writes, no manifest can be read.
Hidden == ~overlap => \A p \in Publishers : Busy(p) => ~Publication!Visible
\* What a publisher has written so far is there.
Written == ~overlap =>
    \A p \in Publishers : pub[p].pc \in {"write", "writing"} =>
        \A i \in 1 .. pub[p].next - 1 :
            Publication!SameFile(object[pub[p].plan[i].path], pub[p].plan[i].content)

PublicationInv == /\ Publication!PublicationAssumption
        /\ PublicationTypes
        /\ PlansInv
        /\ Exclusive
        /\ Locked
        /\ Vacant
        /\ Hidden
        /\ Written
        /\ Publication!ManifestComplete

-----------------------------------------------------------------------------
\* Plans.

\* The manifest names every file of the plan with its content.
LEMMA ListedNames ==
    ASSUME NEW base \in Seq(FileItems), Publication!EnsureUniquePaths(base)
    PROVE  /\ Publication!Listed(base) \in Lists
           /\ DOMAIN Publication!Listed(base) = {base[i].path : i \in DOMAIN base}
           /\ \A i \in DOMAIN base : Publication!Listed(base)[base[i].path] = base[i].content
<1> DEFINE names == {base[i].path : i \in DOMAIN base}
<1>1. \A i \in DOMAIN base : base[i] \in FileItems
  BY ElementOfSeq, LenProperties
<1>2. names \subseteq Publication!Paths
  BY <1>1 DEF FileItems
<1>3. ASSUME NEW i \in DOMAIN base
      PROVE  (CHOOSE j \in DOMAIN base : base[j].path = base[i].path) = i
  BY DEF Publication!EnsureUniquePaths
<1>4. \A i \in DOMAIN base : Publication!Listed(base)[base[i].path] = base[i].content
  BY <1>3 DEF Publication!Listed
<1>5. \A x \in names : Publication!Listed(base)[x] \in Files
  BY <1>1, <1>4 DEF FileItems
<1>6. Publication!Listed(base) \in [names -> Files]
  BY <1>5 DEF Publication!Listed
<1>7. Publication!Listed(base) \in Lists
  BY <1>2, <1>6 DEF Lists
<1>8. QED
  BY <1>4, <1>7 DEF Publication!Listed

\* The manifest is the last of the plan and names what comes before it.
LEMMA PlanShape ==
    ASSUME NEW p \in Publishers, NEW plan, IsPlan(p, plan)
    PROVE  /\ plan \in Seq(PlanItems) /\ Len(plan) \in Nat \ {0} /\ DOMAIN plan = 1 .. Len(plan)
           /\ \A i \in DOMAIN plan : plan[i].path \in Publication!Paths /\ plan[i].content \in Contents
           /\ plan[Len(plan)].path = "manifest"
           /\ plan[Len(plan)].content.kind = "manifest"
           /\ \A i \in 1 .. Len(plan) - 1 : plan[i].path # "manifest"
           /\ DOMAIN plan[Len(plan)].content.lists = {plan[i].path : i \in 1 .. Len(plan) - 1}
           /\ \A i \in 1 .. Len(plan) - 1 :
                 plan[Len(plan)].content.lists[plan[i].path] = plan[i].content
<1>1. PICK base \in Seq(FileItems) : plan = PlanOf(p, base)
  BY DEF IsPlan
<1> DEFINE n == Len(base)
           m == [path |-> "manifest", content |-> Publication!Manifest(p, Publication!Listed(base))]
<1>2. /\ Files \subseteq Contents /\ FileItems \subseteq PlanItems /\ base \in Seq(PlanItems)
      /\ n \in Nat /\ DOMAIN base = 1 .. n
  <2>1. Files \subseteq Contents /\ FileItems \subseteq PlanItems
    BY DEF Contents, FileItems, PlanItems
  <2>2. QED
    BY <2>1, SeqMonotonic, LenProperties
<1>3. /\ Len(plan) = n + 1 /\ DOMAIN plan = 1 .. n + 1 /\ plan[n + 1] = m
      /\ \A i \in 1 .. n : plan[i] = base[i]
  <2>1. base \in Seq(PlanItems \cup {m})
    BY <1>2, SeqMonotonic
  <2>2. plan = Append(base, m)
    BY <1>1 DEF PlanOf
  <2>3. QED
    BY <2>1, <2>2, <1>2, AppendProperties, LenProperties
<1>4. Publication!EnsureUniquePaths(base)
  BY <1>2, <1>3 DEF IsPlan, Publication!EnsureUniquePaths
<1>5. /\ Publication!Listed(base) \in Lists
      /\ DOMAIN Publication!Listed(base) = {base[i].path : i \in 1 .. n}
      /\ \A i \in 1 .. n : Publication!Listed(base)[base[i].path] = base[i].content
  BY <1>2, <1>4, ListedNames
<1>6. m.path = "manifest" /\ m.content.kind = "manifest" /\ m.content.lists = Publication!Listed(base)
  BY DEF Publication!Manifest
<1>7. m \in PlanItems
  BY <1>5 DEF PlanItems, Contents, Publication!Paths
<1>8. \A i \in 1 .. n : plan[i].path # "manifest"
  BY <1>2, <1>3, <1>6 DEF IsPlan, Publication!EnsureUniquePaths
<1>9. plan \in Seq(PlanItems)
  BY <1>1, <1>2, <1>7, AppendProperties DEF PlanOf
<1>10. \A i \in DOMAIN plan : plan[i] \in PlanItems
  BY <1>9, <1>3, ElementOfSeq
<1>11. \A i \in DOMAIN plan : plan[i].path \in Publication!Paths /\ plan[i].content \in Contents
  BY <1>10 DEF PlanItems
<1>12. Len(plan) - 1 = n
  BY <1>2, <1>3
<1> HIDE DEF n, m
<1>13. {plan[i].path : i \in 1 .. n} = {base[i].path : i \in 1 .. n}
  BY <1>3
<1>14. \A i \in 1 .. n : plan[Len(plan)].content.lists[plan[i].path] = plan[i].content
  BY <1>3, <1>5, <1>6
<1>15. Len(plan) \in Nat \ {0} /\ DOMAIN plan = 1 .. Len(plan)
  BY <1>2, <1>3
<1>16. plan[Len(plan)].path = "manifest" /\ plan[Len(plan)].content.kind = "manifest"
  BY <1>3, <1>6
<1>17. DOMAIN plan[Len(plan)].content.lists = {plan[i].path : i \in 1 .. n}
  BY <1>3, <1>5, <1>6, <1>13
<1>18. QED
  BY <1>8, <1>9, <1>11, <1>12, <1>14, <1>15, <1>16, <1>17

\* publish plans the artifact's file, the source and the model, then the manifest.
LEMMA PublicationIsPlan ==
    ASSUME PublicationTypes, NEW p \in Publishers, NEW r \in Publication!Requests,
           Publication!EnsureUniquePaths(Publication!PublicationObjects(p, r))
    PROVE  IsPlan(p, Publication!PublicationObjects(p, r))
<1> DEFINE source == [i \in DOMAIN r.source |->
                         [path |-> r.source[i], content |-> Publication!SourceFile(version)]]
           modelItem == IF r.embedding THEN <<[path |-> "model", content |-> Publication!ModelFile(p)]>> ELSE <<>>
           base == Publication!ReferencedIndexPaths(p) \o source \o modelItem
<1>1. r.source \in Seq(Publication!Paths)
  <2>1. r.source \in {<<>>, <<"documents">>, <<"index">>, <<"manifest">>}
    BY DEF Publication!Requests, Publication!Request
  <2>2. <<>> \in Seq(Publication!Paths)
    OBVIOUS
  <2>3. \A x \in Publication!Paths : <<x>> \in Seq(Publication!Paths)
    OBVIOUS
  <2>4. QED
    BY <2>1, <2>2, <2>3 DEF Publication!Paths
<1>2. source \in Seq(FileItems)
  <2>1. Len(r.source) \in Nat /\ DOMAIN r.source = 1 .. Len(r.source)
    BY <1>1, LenProperties
  <2>2. \A i \in 1 .. Len(r.source) : r.source[i] \in Publication!Paths
    BY <1>1, ElementOfSeq
  <2>3. Publication!SourceFile(version) \in Files
    BY DEF Files, PublicationTypes
  <2>4. \A i \in 1 .. Len(r.source) :
           [path |-> r.source[i], content |-> Publication!SourceFile(version)] \in FileItems
    BY <2>2, <2>3 DEF FileItems
  <2>5. source \in [1 .. Len(r.source) -> FileItems]
    BY <2>1, <2>4
  <2>6. QED
    BY <2>1, <2>5, SeqDef
<1>3. Publication!ReferencedIndexPaths(p) \in Seq(FileItems)
  <2>1. [path |-> "index", content |-> Publication!IndexFile(p)] \in FileItems
    BY DEF FileItems, Files, Publication!Paths
  <2>2. QED
    BY <2>1 DEF Publication!ReferencedIndexPaths
<1>4. modelItem \in Seq(FileItems)
  <2>1. [path |-> "model", content |-> Publication!ModelFile(p)] \in FileItems
    BY DEF FileItems, Files, Publication!Paths
  <2>2. QED
    BY <2>1
<1>5. base \in Seq(FileItems)
  BY <1>2, <1>3, <1>4, ConcatProperties
<1>6. Publication!PublicationObjects(p, r) = PlanOf(p, base)
  BY DEF Publication!PublicationObjects, PlanOf
<1> HIDE DEF base
<1>7. QED
  BY <1>5, <1>6 DEF IsPlan

-----------------------------------------------------------------------------
\* How the calls move.

LEMMA CallStep ==
    ASSUME PublicationTypes, PlansInv, NEW p \in Publishers, NEW c \in Calls, InPlan(p, c),
           pub' = [pub EXCEPT ![p] = c]
    PROVE  /\ pub' \in [Publishers -> Calls] /\ PlansInv'
           /\ pub'[p] = c /\ \A q \in Publishers \ {p} : pub'[q] = pub[q]
<1>1. /\ pub' \in [Publishers -> Calls]
      /\ pub'[p] = c /\ \A q \in Publishers \ {p} : pub'[q] = pub[q]
  BY DEF PublicationTypes
<1>2. \A q \in Publishers : InPlan(q, pub'[q])
  BY <1>1 DEF PlansInv
<1>3. QED
  BY <1>1, <1>2 DEF PlansInv

LEMMA EndedCall ==
    ASSUME NEW pc \in Publication!Ended
    PROVE  [pc |-> pc, plan |-> <<>>, next |-> 1] \in Calls
<1>1. <<>> \in Seq(PlanItems)
  BY EmptySeq
<1>2. pc \in CallPcs
  BY DEF CallPcs
<1>3. QED
  BY <1>1, <1>2 DEF Calls

\* A call that ends forgets its plan, another keeps its place in it.
LEMMA CallGoes ==
    ASSUME PublicationTypes, PlansInv, NEW p \in Publishers, NEW pc \in CallPcs, Publication!Goto(p, pc),
           pc \in Publication!Ended \/ (pub[p].pc \in {"check", "write", "writing"}
                              /\ pc \in {"write", "writing", "cleanup"})
    PROVE  /\ pub' \in [Publishers -> Calls] /\ PlansInv'
           /\ pub'[p].pc = pc /\ \A q \in Publishers \ {p} : pub'[q] = pub[q]
           /\ pc \notin Publication!Ended => pub'[p].plan = pub[p].plan /\ pub'[p].next = pub[p].next
<1> DEFINE c == IF pc \in Publication!Ended THEN [Publication!Idle EXCEPT !.pc = pc] ELSE [pub[p] EXCEPT !.pc = pc]
<1>1. pub' = [pub EXCEPT ![p] = c]
  BY DEF Publication!Goto
<1>2. pub[p] \in Calls /\ InPlan(p, pub[p])
  BY DEF PublicationTypes, PlansInv
<1>3. CASE pc \in Publication!Ended
  <2>1. c = [pc |-> pc, plan |-> <<>>, next |-> 1]
    BY <1>3 DEF Publication!Idle
  <2>2. c.pc = pc /\ c.plan = <<>> /\ c.next = 1
    BY <2>1
  <2>3. c \in Calls
    BY <2>1, <1>3, EndedCall
  <2>4. InPlan(p, c)
    BY <2>2, <1>3 DEF InPlan, Publication!Ended
  <2>5. QED
    BY <1>1, <2>2, <2>3, <2>4, <1>3, CallStep
<1>4. CASE pc \notin Publication!Ended
  <2>1. /\ c \in Calls /\ c.pc = pc /\ c.plan = pub[p].plan /\ c.next = pub[p].next
    BY <1>2, <1>4 DEF Calls
  <2>2. InPlan(p, c)
    BY <2>1, <1>2, <1>4 DEF InPlan, Publication!Ended
  <2>3. QED
    BY <1>1, <2>1, <2>2, CallStep
<1>5. QED
  BY <1>3, <1>4

\* Nothing is written and nobody starts to write.
LEMMA Bystander ==
    ASSUME PublicationInv, PublicationTypes', PlansInv', UNCHANGED <<store, exists, object, overlap>>,
           \A q \in Publishers : Busy(q)' => Busy(q),
           \A q \in Publishers : pub'[q].pc \in {"write", "writing"} =>
               /\ pub[q].pc \in {"write", "writing"}
               /\ pub'[q].plan = pub[q].plan /\ pub'[q].next = pub[q].next
    PROVE  PublicationInv'
<1>1. Publication!Visible' = Publication!Visible /\ Publication!ManifestComplete'
  BY DEF PublicationInv, Publication!ManifestComplete, Publication!Visible, Publication!SameFile
<1>2. Exclusive' /\ Locked' /\ Vacant' /\ Hidden'
  BY <1>1 DEF PublicationInv, Exclusive, Locked, Vacant, Hidden
<1>3. Written'
  BY DEF PublicationInv, Written, Publication!SameFile
<1>4. QED
  BY <1>1, <1>2, <1>3 DEF PublicationInv, Publication!PublicationAssumption

\* A publisher that is alone changes the destination.
LEMMA Writer ==
    ASSUME PublicationInv, PublicationTypes', PlansInv', NEW p \in Publishers, Busy(p),
           \A q \in Publishers \ {p} : pub'[q] = pub[q],
           UNCHANGED <<store, overlap>>,
           store = "local" => exists' \/ ~Busy(p)',
           Vacant',
           ~overlap => (Busy(p)' => ~Publication!Visible'),
           ~overlap => (pub'[p].pc \in {"write", "writing"} =>
               \A i \in 1 .. pub'[p].next - 1 :
                   Publication!SameFile(object'[pub'[p].plan[i].path], pub'[p].plan[i].content)),
           Publication!ManifestComplete'
    PROVE  PublicationInv'
<1>1. ~overlap => \A q \in Publishers \ {p} : ~Busy(q) /\ ~Busy(q)'
  BY DEF PublicationInv, Exclusive, Busy
<1>2. Exclusive' /\ Hidden'
  BY <1>1 DEF PublicationInv, Exclusive, Hidden
<1>3. Locked'
  BY <1>1 DEF PublicationInv, Locked
<1>4. Written'
  BY <1>1 DEF Written, Busy
<1>5. QED
  BY <1>2, <1>3, <1>4 DEF PublicationInv, Publication!PublicationAssumption

\* While somebody writes alone, there is no manifest.
LEMMA StillHidden ==
    ASSUME PublicationTypes, PublicationTypes', NEW x \in Publication!Paths, NEW c,
           object' = [object EXCEPT ![x] = c],
           x = "manifest" => c.kind # "manifest",
           ~Publication!Visible
    PROVE  ~Publication!Visible'
  BY DEF PublicationTypes, Publication!Visible, Publication!Paths

-----------------------------------------------------------------------------
\* The actions.

LEMMA PublicationInit == Publication!PublicationAssumption /\ Publication!Init => PublicationInv
<1> SUFFICES ASSUME Publication!PublicationAssumption, Publication!Init
             PROVE  PublicationInv
  OBVIOUS
<1>1. Publication!None \in Contents
  BY DEF Contents
<1>2. \A p \in Publishers : pub[p] = [pc |-> "idle", plan |-> <<>>, next |-> 1]
  BY DEF Publication!Init, Publication!Idle
<1>3. \A p \in Publishers : pub[p] \in Calls
  BY <1>2, EndedCall DEF Publication!Ended
<1>4. PublicationTypes
  <2>1. pub \in [Publishers -> Calls]
    BY <1>3 DEF Publication!Init
  <2>2. 0 \in 0 .. PublicationEdits /\ 0 \in 0 .. MaxAttempts
    BY DEF Publication!PublicationAssumption
  <2>3. QED
    BY <1>1, <2>1, <2>2 DEF Publication!Init, PublicationTypes
<1>5. PlansInv
  BY <1>2 DEF PlansInv, InPlan, Publication!Ended
<1>6. \A p \in Publishers : ~Busy(p) /\ pub[p].pc = "idle"
  BY <1>2 DEF Busy
<1>7. ~Publication!Visible
  BY DEF Publication!Visible, Publication!Init, Publication!None, Publication!Paths
<1>8. QED
  BY <1>4, <1>5, <1>6, <1>7
     DEF PublicationInv, Publication!Init, Exclusive, Locked, Vacant, Hidden, Written, Publication!ManifestComplete

LEMMA PublishStep ==
    ASSUME PublicationInv, NEW p \in Publishers, NEW r \in Publication!Requests, Publication!Publish(p, r)
    PROVE  PublicationInv'
<1> DEFINE objs == Publication!PublicationObjects(p, r)
           accepted == /\ (r.source = <<>>) = ~r.keyed
                       /\ r.source # <<>> => Publication!SourceDescriptor(r)
                       /\ Publication!ValidateIndexObjects(r) /\ r.embedding = r.assets
                       /\ Publication!EnsureUniquePaths(objs)
           c == [pc |-> IF accepted THEN "check" ELSE "refused",
                 plan |-> IF accepted THEN objs ELSE <<>>, next |-> 1]
<1>1. /\ pub' = [pub EXCEPT ![p] = c] /\ attempts < MaxAttempts /\ attempts' = attempts + 1
      /\ UNCHANGED <<store, exists, object, version, overlap>>
  BY DEF Publication!Publish
<1>2. PublicationTypes /\ PlansInv
  BY DEF PublicationInv
<1>3. c \in Calls /\ InPlan(p, c)
  <2>1. CASE accepted
    <3>1. IsPlan(p, objs)
      BY <2>1, <1>2, PublicationIsPlan
    <3>2. objs \in Seq(PlanItems) /\ Len(objs) \in Nat \ {0}
      BY <3>1, PlanShape
    <3> HIDE DEF objs
    <3>3. c = [pc |-> "check", plan |-> objs, next |-> 1]
      BY <2>1
    <3>4. c.pc = "check" /\ c.plan = objs /\ c.next = 1
      BY <3>3
    <3>5. c \in Calls
      BY <3>2, <3>3 DEF Calls, CallPcs
    <3>6. 1 \in 1 .. Len(objs)
      BY <3>2
    <3>7. QED
      BY <3>1, <3>4, <3>5, <3>6 DEF InPlan, Publication!Ended
  <2>2. CASE ~accepted
    <3>1. <<>> \in Seq(PlanItems)
      BY EmptySeq
    <3>2. c = [pc |-> "refused", plan |-> <<>>, next |-> 1]
      BY <2>2
    <3>3. c.pc = "refused" /\ c.plan = <<>> /\ c.next = 1
      BY <3>2
    <3>4. QED
      BY <3>1, <3>2, <3>3 DEF InPlan, Publication!Ended, Calls, CallPcs
  <2>3. QED
    BY <2>1, <2>2
<1>4. c.pc \notin {"write", "writing", "cleanup"}
  OBVIOUS
<1> HIDE DEF c
<1>5. /\ pub' \in [Publishers -> Calls] /\ PlansInv'
      /\ pub'[p] = c /\ \A q \in Publishers \ {p} : pub'[q] = pub[q]
  BY <1>1, <1>2, <1>3, CallStep
<1>6. PublicationTypes'
  BY <1>1, <1>2, <1>5 DEF PublicationTypes, PublicationInv, Publication!PublicationAssumption
<1>7. QED
  BY <1>1, <1>4, <1>5, <1>6, Bystander DEF Busy

\* A call that ends, or is refused, without having touched the destination.
LEMMA CallEnds ==
    ASSUME PublicationInv, NEW p \in Publishers, NEW pc \in Publication!Ended, Publication!Goto(p, pc),
           UNCHANGED <<store, exists, object, version, overlap, attempts>>
    PROVE  PublicationInv'
<1>1. PublicationTypes /\ PlansInv /\ pc \in CallPcs
  BY DEF PublicationInv, CallPcs
<1>2. /\ pub' \in [Publishers -> Calls] /\ PlansInv'
      /\ pub'[p].pc = pc /\ \A q \in Publishers \ {p} : pub'[q] = pub[q]
  BY <1>1, CallGoes
<1>3. PublicationTypes'
  BY <1>1, <1>2 DEF PublicationTypes
<1>4. pc \notin {"write", "writing", "cleanup"}
  BY DEF Publication!Ended
<1>5. QED
  BY <1>2, <1>3, <1>4, Bystander DEF Busy

\* The directory is made by one publisher: nobody writes before, and it is empty.
LEMMA LocalEnsureEmptyStep ==
    ASSUME PublicationInv, NEW p \in Publishers, Publication!LocalEnsureEmpty(p)
    PROVE  PublicationInv'
<1>1. CASE exists
  BY <1>1, CallEnds DEF Publication!LocalEnsureEmpty, Publication!Ended
<1>2. CASE ~exists
  <2>1. /\ store = "local" /\ pub[p].pc = "check" /\ Publication!Goto(p, "write") /\ exists' = TRUE
        /\ UNCHANGED <<store, object, version, overlap, attempts>>
    BY <1>2 DEF Publication!LocalEnsureEmpty
  <2>2. /\ pub' \in [Publishers -> Calls] /\ PlansInv'
        /\ pub'[p].pc = "write" /\ \A q \in Publishers \ {p} : pub'[q] = pub[q]
        /\ pub'[p].plan = pub[p].plan /\ pub'[p].next = pub[p].next
    BY <2>1, CallGoes DEF PublicationInv, CallPcs, Publication!Ended
  <2>3. PublicationTypes'
    BY <2>1, <2>2 DEF PublicationInv, PublicationTypes
  <2>4. pub[p].next = 1
    BY <2>1 DEF PublicationInv, PlansInv, InPlan
  <2>5. \A q \in Publishers : ~Busy(q)
    BY <2>1, <1>2 DEF PublicationInv, Locked
  <2>6. \A q \in Publishers \ {p} : ~Busy(q)' /\ pub'[q].pc \notin {"write", "writing"}
    BY <2>2, <2>5 DEF Busy
  <2>7. ~Publication!Visible /\ ~Publication!Visible' /\ ~overlap
    BY <1>2, <2>1 DEF PublicationInv, Locked, Vacant, Publication!Visible, Publication!Paths, Publication!None
  <2>8. Exclusive' /\ Locked' /\ Vacant' /\ Hidden' /\ Publication!ManifestComplete'
    BY <2>1, <2>6, <2>7 DEF Exclusive, Locked, Vacant, Hidden, Publication!ManifestComplete
  <2>9. Written'
    <3>1. \A i \in 1 .. pub'[p].next - 1 : FALSE
      BY <2>2, <2>4
    <3>2. QED
      BY <3>1, <2>6 DEF Written
  <2>10. QED
    BY <2>2, <2>3, <2>8, <2>9 DEF PublicationInv, Publication!PublicationAssumption
<1>3. QED
  BY <1>1, <1>2 DEF PublicationInv, PublicationTypes

\* In S3 the publisher has seen no object of its plan, so no manifest either; another
\* one that is writing is noticed.
LEMMA S3EnsureEmptyStep ==
    ASSUME PublicationInv, NEW p \in Publishers, Publication!S3EnsureEmpty(p)
    PROVE  PublicationInv'
<1> DEFINE taken == \E i \in DOMAIN pub[p].plan : object[pub[p].plan[i].path] # Publication!None
<1>1. CASE taken
  <2>1. Publication!Goto(p, "refused") /\ UNCHANGED <<store, exists, object, version, overlap, attempts>>
    BY <1>1 DEF Publication!S3EnsureEmpty
  <2>2. QED
    BY <2>1, CallEnds DEF Publication!Ended
<1>2. CASE ~taken
  <2>1. /\ store = "s3" /\ pub[p].pc = "check" /\ Publication!Goto(p, "write")
        /\ overlap' = (overlap \/ \E q \in Publishers \ {p} :
                                     pub[q].pc \in {"write", "writing", "cleanup"})
        /\ UNCHANGED <<store, exists, object, version, attempts>>
    BY <1>2 DEF Publication!S3EnsureEmpty
  <2>2. /\ pub' \in [Publishers -> Calls] /\ PlansInv'
        /\ pub'[p].pc = "write" /\ \A q \in Publishers \ {p} : pub'[q] = pub[q]
        /\ pub'[p].plan = pub[p].plan /\ pub'[p].next = pub[p].next
    BY <2>1, CallGoes DEF PublicationInv, CallPcs, Publication!Ended
  <2>3. overlap' \in BOOLEAN /\ (~overlap' => ~overlap)
    BY <2>1 DEF PublicationInv, PublicationTypes
  <2>4. PublicationTypes'
    BY <2>1, <2>2, <2>3 DEF PublicationInv, PublicationTypes
  <2>5. pub[p].next = 1 /\ IsPlan(p, pub[p].plan)
    BY <2>1 DEF PublicationInv, PlansInv, InPlan, Publication!Ended
  <2>6. object["manifest"] = Publication!None
    <3>1. /\ Len(pub[p].plan) \in Nat \ {0} /\ DOMAIN pub[p].plan = 1 .. Len(pub[p].plan)
          /\ pub[p].plan[Len(pub[p].plan)].path = "manifest"
      BY <2>5, PlanShape
    <3>2. Len(pub[p].plan) \in DOMAIN pub[p].plan
      BY <3>1
    <3>3. QED
      BY <1>2, <3>1, <3>2
  <2>7. ~Publication!Visible /\ ~Publication!Visible'
    BY <2>1, <2>6 DEF Publication!Visible, Publication!None
  <2>8. ~overlap' => \A q \in Publishers \ {p} : ~Busy(q) /\ ~Busy(q)'
    BY <2>1, <2>2 DEF Busy
  <2>9. Exclusive' /\ Hidden' /\ Publication!ManifestComplete'
    BY <2>7, <2>8 DEF Exclusive, Hidden, Publication!ManifestComplete
  <2>10. Locked' /\ Vacant'
    BY <2>1 DEF Locked, Vacant
  <2>11. Written'
    <3>1. \A i \in 1 .. pub'[p].next - 1 : FALSE
      BY <2>2, <2>5
    <3>2. ~overlap' => \A q \in Publishers \ {p} : pub'[q].pc \notin {"write", "writing"}
      BY <2>8 DEF Busy
    <3>3. QED
      BY <3>1, <3>2 DEF Written
  <2>12. QED
    BY <2>2, <2>4, <2>9, <2>10, <2>11 DEF PublicationInv, Publication!PublicationAssumption
<1>3. QED
  BY <1>1, <1>2

\* The object a publisher is at.
LEMMA CurrentItem ==
    ASSUME PublicationInv, NEW p \in Publishers, pub[p].pc \in {"write", "writing", "cleanup"}
    PROVE  /\ Busy(p) /\ IsPlan(p, pub[p].plan) /\ pub[p].next \in 1 .. Len(pub[p].plan)
           /\ pub[p].next \in DOMAIN pub[p].plan /\ Len(pub[p].plan) \in Nat \ {0}
           /\ Publication!Current(p).path \in Publication!Paths /\ Publication!Current(p).content \in Contents
           /\ pub[p] \in Calls
<1>1. /\ IsPlan(p, pub[p].plan) /\ pub[p].next \in 1 .. Len(pub[p].plan) /\ pub[p] \in Calls
  BY DEF PublicationInv, PlansInv, InPlan, Publication!Ended, PublicationTypes
<1>2. QED
  BY <1>1, PlanShape DEF Busy, Publication!Current

LEMMA OpenObjectStep ==
    ASSUME PublicationInv, NEW p \in Publishers, Publication!OpenObject(p)
    PROVE  PublicationInv'
<1> DEFINE x == Publication!Current(p).path
<1>1. /\ pub[p].pc = "write" /\ Publication!Goto(p, "writing")
      /\ object' = IF store = "local" THEN [object EXCEPT ![x] = Publication!Torn] ELSE object
      /\ UNCHANGED <<store, exists, version, overlap, attempts>>
  BY DEF Publication!OpenObject
<1>2. /\ pub' \in [Publishers -> Calls] /\ PlansInv'
      /\ pub'[p].pc = "writing" /\ \A q \in Publishers \ {p} : pub'[q] = pub[q]
      /\ pub'[p].plan = pub[p].plan /\ pub'[p].next = pub[p].next
  BY <1>1, CallGoes DEF PublicationInv, CallPcs, Publication!Ended
<1>3. /\ Busy(p) /\ IsPlan(p, pub[p].plan) /\ pub[p].next \in 1 .. Len(pub[p].plan)
      /\ x \in Publication!Paths /\ pub[p].next \in DOMAIN pub[p].plan /\ Len(pub[p].plan) \in Nat
  BY <1>1, CurrentItem
<1>4. object' \in [Publication!Paths -> Contents]
  BY <1>1, <1>3 DEF PublicationInv, PublicationTypes, Contents
<1>5. PublicationTypes'
  BY <1>1, <1>2, <1>4 DEF PublicationInv, PublicationTypes
<1>6. CASE store = "s3"
  <2>1. UNCHANGED <<store, exists, object, overlap>>
    BY <1>1, <1>6
  <2>2. QED
    BY <1>1, <1>2, <1>5, <2>1, Bystander DEF Busy
<1>7. CASE store = "local"
  <2>1. object' = [object EXCEPT ![x] = Publication!Torn] /\ exists /\ exists' /\ ~overlap
    BY <1>1, <1>3, <1>7 DEF PublicationInv, Locked
  <2>2. ~Publication!Visible /\ ~Publication!Visible'
    <3>1. ~Publication!Visible
      BY <1>3, <2>1 DEF PublicationInv, Hidden
    <3>2. QED
      BY <3>1, <2>1, <1>3, <1>5, StillHidden DEF PublicationInv, Publication!Torn
  <2>3. ASSUME NEW i \in 1 .. pub'[p].next - 1
        PROVE  Publication!SameFile(object'[pub'[p].plan[i].path], pub'[p].plan[i].content)
    <3>1. i \in DOMAIN pub[p].plan /\ i # pub[p].next /\ i \in 1 .. pub[p].next - 1
      BY <1>2, <1>3, PlanShape
    <3>2. pub[p].plan[i].path # x /\ pub[p].plan[i].path \in Publication!Paths
      BY <3>1, <1>3, PlanShape DEF IsPlan, Publication!EnsureUniquePaths, Publication!Current
    <3>3. Publication!SameFile(object[pub[p].plan[i].path], pub[p].plan[i].content)
      BY <3>1, <1>1, <2>1 DEF PublicationInv, Written
    <3>4. object'[pub[p].plan[i].path] = object[pub[p].plan[i].path]
      BY <3>2, <2>1 DEF PublicationInv, PublicationTypes
    <3>5. QED
      BY <3>3, <3>4, <1>2
  <2>4. Vacant' /\ Publication!ManifestComplete'
    BY <2>1, <2>2 DEF Vacant, Publication!ManifestComplete
  <2>5. QED
    BY <1>1, <1>2, <1>3, <1>5, <2>1, <2>2, <2>3, <2>4, Writer
<1>8. QED
  BY <1>6, <1>7 DEF PublicationInv, PublicationTypes

\* One more object of the plan is there.  The last one is the manifest: it names the
\* others, which are all there.
LEMMA WriteObjectStep ==
    ASSUME PublicationInv, NEW p \in Publishers, Publication!WriteObject(p)
    PROVE  PublicationInv'
<1> DEFINE x == Publication!Current(p).path
           n == pub[p].next
           plan == pub[p].plan
           c == [pub[p] EXCEPT !.next = n + 1,
                               !.pc = IF n = Len(plan) THEN "committed" ELSE "write"]
<1>1. /\ pub[p].pc = "writing" /\ object' = [object EXCEPT ![x] = Publication!Bytes(Publication!Current(p))]
      /\ UNCHANGED <<store, exists, version, overlap, attempts>>
  BY DEF Publication!WriteObject
<1>2. /\ Busy(p) /\ IsPlan(p, plan) /\ n \in 1 .. Len(plan) /\ n \in DOMAIN plan
      /\ x \in Publication!Paths /\ Len(plan) \in Nat \ {0} /\ pub[p] \in Calls
      /\ Publication!Current(p).content \in Contents /\ plan[n] = Publication!Current(p)
  BY <1>1, CurrentItem DEF Publication!Current
<1>3. pub' = [pub EXCEPT ![p] = c]
  BY DEF Publication!WriteObject, PublicationInv, PublicationTypes
<1>4. /\ c \in Calls /\ c.plan = plan /\ c.next = n + 1
      /\ c.pc = IF n = Len(plan) THEN "committed" ELSE "write"
  <2>1. {"committed", "write"} \subseteq CallPcs
    BY DEF CallPcs
  <2>2. pub[p] \in [pc : CallPcs, plan : Seq(PlanItems), next : Nat] /\ n + 1 \in Nat
    BY <1>2 DEF Calls
  <2>3. QED
    BY <2>1, <2>2 DEF Calls
<1>5. InPlan(p, c)
  BY <1>2, <1>4 DEF InPlan, Publication!Ended
<1> HIDE DEF c
<1>6. /\ pub' \in [Publishers -> Calls] /\ PlansInv'
      /\ pub'[p] = c /\ \A q \in Publishers \ {p} : pub'[q] = pub[q]
  BY <1>3, <1>4, <1>5, CallStep DEF PublicationInv
<1>7. /\ \A i \in 1 .. Len(plan) : plan[i].path \in Publication!Paths
      /\ \A i \in 1 .. n - 1 : plan[i].path # x /\ i \in 1 .. Len(plan)
      /\ n # Len(plan) => x # "manifest"
      /\ n = Len(plan) => x = "manifest" /\ Publication!Current(p).content.kind = "manifest"
  BY <1>2, PlanShape DEF IsPlan, Publication!EnsureUniquePaths
<1>8. Publication!Bytes(Publication!Current(p)) \in Contents /\ Publication!SameFile(Publication!Bytes(Publication!Current(p)), Publication!Current(p).content)
  <2>1. Publication!SourceFile(version) \in Contents
    BY DEF PublicationInv, PublicationTypes, Contents, Files
  <2>2. Publication!SourceFile(version).kind = "source"
    BY DEF Publication!SourceFile
  <2>3. QED
    BY <2>1, <2>2, <1>2 DEF Publication!Bytes, Publication!SameFile
<1>9. object' \in [Publication!Paths -> Contents]
  BY <1>1, <1>2, <1>8 DEF PublicationInv, PublicationTypes
<1>10. PublicationTypes'
  BY <1>1, <1>6, <1>9 DEF PublicationInv, PublicationTypes
<1>11. Vacant' /\ (store = "local" => exists')
  BY <1>1, <1>2 DEF PublicationInv, Locked, Vacant
<1>12. ~overlap => ~Publication!Visible
  BY <1>2 DEF PublicationInv, Hidden
<1>13. ASSUME ~overlap, NEW i \in 1 .. n
       PROVE  Publication!SameFile(object'[plan[i].path], plan[i].content)
  <2>1. CASE i = n
    BY <2>1, <1>1, <1>2, <1>8 DEF PublicationInv, PublicationTypes
  <2>2. CASE i # n
    <3>1. i \in 1 .. n - 1
      BY <2>2, <1>2
    <3>2. Publication!SameFile(object[plan[i].path], plan[i].content)
      BY <3>1, <1>1, <1>13 DEF PublicationInv, Written
    <3>3. object'[plan[i].path] = object[plan[i].path]
      BY <3>1, <1>1, <1>7 DEF PublicationInv, PublicationTypes
    <3>4. QED
      BY <3>2, <3>3
  <2>3. QED
    BY <2>1, <2>2
<1>14. CASE n # Len(plan)
  <2>1. ~overlap => ~Publication!Visible'
    BY <1>1, <1>2, <1>7, <1>10, <1>12, <1>14, StillHidden DEF PublicationInv
  <2>2. Publication!ManifestComplete'
    BY <1>1, <2>1 DEF Publication!ManifestComplete
  <2>3. ~overlap => \A i \in 1 .. pub'[p].next - 1 :
                        Publication!SameFile(object'[pub'[p].plan[i].path], pub'[p].plan[i].content)
    <3>1. pub'[p].next - 1 = n /\ pub'[p].plan = plan
      BY <1>2, <1>4, <1>6
    <3>2. QED
      BY <3>1, <1>13
  <2>4. QED
    BY <1>1, <1>2, <1>6, <1>10, <1>11, <2>1, <2>2, <2>3, Writer
<1>15. CASE n = Len(plan)
  <2>1. /\ object'["manifest"] = Publication!Current(p).content /\ Publication!Current(p).content = plan[Len(plan)].content
        /\ pub'[p].pc = "committed"
    <3>1. Publication!Bytes(Publication!Current(p)) = Publication!Current(p).content
      BY <1>7, <1>15 DEF Publication!Bytes
    <3>2. QED
      BY <1>1, <1>2, <1>4, <1>6, <1>7, <1>15, <3>1 DEF PublicationInv, PublicationTypes
  <2>2. Publication!ManifestComplete'
    <3> SUFFICES ASSUME ~overlap, NEW y \in DOMAIN plan[Len(plan)].content.lists
                 PROVE  Publication!SameFile(object'[y], plan[Len(plan)].content.lists[y])
      BY <1>1, <2>1 DEF Publication!ManifestComplete, Publication!SameFile
    <3>1. PICK i \in 1 .. Len(plan) - 1 : y = plan[i].path
      BY <1>2, PlanShape
    <3>2. plan[Len(plan)].content.lists[y] = plan[i].content
      BY <3>1, <1>2, PlanShape
    <3>3. i \in 1 .. n
      BY <1>2, <1>15, <3>1
    <3>4. QED
      BY <3>1, <3>2, <3>3, <1>13
  <2>3. ~Busy(p)' /\ pub'[p].pc \notin {"write", "writing"}
    BY <2>1 DEF Busy
  <2>4. QED
    BY <1>1, <1>2, <1>6, <1>10, <1>11, <2>2, <2>3, Writer
<1>16. QED
  BY <1>14, <1>15

\* What a write that raised leaves is no manifest, unless one was there.
LEMMA WriteFailsStep ==
    ASSUME PublicationInv, NEW p \in Publishers, Publication!WriteFails(p)
    PROVE  PublicationInv'
<1> DEFINE x == Publication!Current(p).path
           item == Publication!Current(p)
<1>1. /\ pub[p].pc = "writing" /\ Publication!Goto(p, "cleanup")
      /\ \E c \in {Publication!Torn, Publication!Stored(item), Publication!None, object[x]} :
             object' = [object EXCEPT ![x] = c]
      /\ UNCHANGED <<store, exists, version, overlap, attempts>>
  BY DEF Publication!WriteFails
<1>2. /\ pub' \in [Publishers -> Calls] /\ PlansInv'
      /\ pub'[p].pc = "cleanup" /\ \A q \in Publishers \ {p} : pub'[q] = pub[q]
  BY <1>1, CallGoes DEF PublicationInv, CallPcs, Publication!Ended
<1>3. Busy(p) /\ x \in Publication!Paths /\ item.content \in Contents
  BY <1>1, CurrentItem
<1>4. PICK c \in {Publication!Torn, Publication!Stored(item), Publication!None, object[x]} :
          object' = [object EXCEPT ![x] = c]
  BY <1>1
<1>5. Publication!Stored(item) \in Contents /\ Publication!Stored(item).kind # "manifest"
  <2>1. Publication!SourceFile(version) \in Contents /\ Publication!Stray \in Contents
    BY DEF PublicationInv, PublicationTypes, Contents, Files
  <2>2. /\ Publication!SourceFile(version).kind # "manifest" /\ Publication!Stray.kind # "manifest"
    BY DEF Publication!SourceFile, Publication!Stray
  <2>3. QED
    BY <2>1, <2>2, <1>3 DEF Publication!Stored, Publication!Bytes
<1>6. c \in Contents /\ (c = object[x] \/ c.kind # "manifest")
  <2>1. /\ Publication!Torn \in Contents /\ Publication!None \in Contents /\ object[x] \in Contents
    BY <1>3 DEF Contents, PublicationInv, PublicationTypes
  <2>2. Publication!Torn.kind # "manifest" /\ Publication!None.kind # "manifest"
    BY DEF Publication!Torn, Publication!None
  <2>3. QED
    BY <2>1, <2>2, <1>4, <1>5
<1>7. PublicationTypes'
  <2>1. object' \in [Publication!Paths -> Contents]
    BY <1>3, <1>4, <1>6 DEF PublicationInv, PublicationTypes
  <2>2. QED
    BY <1>1, <1>2, <2>1 DEF PublicationInv, PublicationTypes
<1>8. ~overlap => ~Publication!Visible'
  <2>1. ~overlap => ~Publication!Visible
    BY <1>3 DEF PublicationInv, Hidden
  <2>2. ~Publication!Visible => (x = "manifest" => c.kind # "manifest")
    BY <1>6 DEF Publication!Visible
  <2>3. QED
    BY <2>1, <2>2, <1>3, <1>4, <1>7, StillHidden DEF PublicationInv
<1>9. Vacant' /\ (store = "local" => exists') /\ Publication!ManifestComplete'
  BY <1>1, <1>3, <1>8 DEF PublicationInv, Locked, Vacant, Publication!ManifestComplete
<1>10. QED
  BY <1>1, <1>2, <1>3, <1>7, <1>8, <1>9, Writer

LEMMA LocalCleanupStep ==
    ASSUME PublicationInv, NEW p \in Publishers, Publication!LocalCleanup(p)
    PROVE  PublicationInv'
<1>1. /\ store = "local" /\ pub[p].pc = "cleanup" /\ Busy(p)
      /\ UNCHANGED <<store, version, overlap, attempts>>
  BY DEF Publication!LocalCleanup, Busy
<1>2. ~overlap /\ ~Publication!Visible /\ exists
  BY <1>1 DEF PublicationInv, Locked, Hidden
<1>3. ASSUME NEW x \in Publication!Paths, object' = [object EXCEPT ![x] = Publication!None],
             UNCHANGED <<exists, pub>>
      PROVE  PublicationInv'
  <2>1. object' \in [Publication!Paths -> Contents]
    BY <1>3 DEF PublicationInv, PublicationTypes, Contents
  <2>2. PublicationTypes' /\ PlansInv'
    BY <1>1, <1>3, <2>1 DEF PublicationInv, PublicationTypes, PlansInv
  <2>3. Publication!None.kind # "manifest"
    BY DEF Publication!None
  <2>4. ~Publication!Visible'
    BY <1>2, <1>3, <2>2, <2>3, StillHidden DEF PublicationInv
  <2>5. Vacant' /\ exists' /\ Publication!ManifestComplete'
    BY <1>2, <1>3, <2>4 DEF Vacant, Publication!ManifestComplete
  <2>6. pub'[p].pc \notin {"write", "writing"}
    BY <1>1, <1>3
  <2>7. QED
    BY <1>1, <1>3, <2>2, <2>4, <2>5, <2>6, Writer
<1>4. ASSUME Publication!Goto(p, "failed"), UNCHANGED object,
             exists' \in {TRUE, \E x \in Publication!Paths : object[x] # Publication!None}
      PROVE  PublicationInv'
  <2>1. /\ pub' \in [Publishers -> Calls] /\ PlansInv'
        /\ pub'[p].pc = "failed" /\ \A q \in Publishers \ {p} : pub'[q] = pub[q]
    BY <1>1, <1>4, CallGoes DEF PublicationInv, CallPcs, Publication!Ended
  <2>2. exists' \in BOOLEAN /\ (~exists' => \A x \in Publication!Paths : object[x] = Publication!None)
    BY <1>4
  <2>3. PublicationTypes'
    BY <1>1, <1>4, <2>1, <2>2 DEF PublicationInv, PublicationTypes
  <2>4. Vacant' /\ ~Publication!Visible' /\ ~Busy(p)'
    BY <1>2, <1>4, <2>1, <2>2 DEF Vacant, Publication!Visible, Busy
  <2>5. Publication!ManifestComplete' /\ pub'[p].pc \notin {"write", "writing"}
    BY <2>1, <2>4 DEF Publication!ManifestComplete
  <2>6. QED
    BY <1>1, <2>1, <2>3, <2>4, <2>5, Writer
<1>5. QED
  BY <1>3, <1>4 DEF Publication!LocalCleanup

LEMMA S3CleanupStep ==
    ASSUME PublicationInv, NEW p \in Publishers, Publication!S3Cleanup(p)
    PROVE  PublicationInv'
<1> DEFINE plan == pub[p].plan
           n == pub[p].next
           c == [pub[p] EXCEPT !.next = n - 1]
<1>1. /\ store = "s3" /\ pub[p].pc = "cleanup"
      /\ UNCHANGED <<store, exists, version, overlap, attempts>>
  BY DEF Publication!S3Cleanup
<1>2. CASE n = 1
  <2>1. Publication!Goto(p, "failed") /\ UNCHANGED object
    BY <1>2 DEF Publication!S3Cleanup
  <2>2. QED
    BY <1>1, <2>1, CallEnds DEF Publication!Ended
<1>3. CASE n # 1
  <2>1. /\ pub' = [pub EXCEPT ![p] = c]
        /\ object' \in {object, [object EXCEPT ![plan[n - 1].path] = Publication!None]}
    BY <1>3 DEF Publication!S3Cleanup, PublicationInv, PublicationTypes
  <2>2. /\ Busy(p) /\ IsPlan(p, plan) /\ n \in 1 .. Len(plan) /\ Len(plan) \in Nat
        /\ pub[p] \in Calls
    BY <1>1, CurrentItem
  <2>3. n - 1 \in 1 .. Len(plan) /\ plan[n - 1].path \in Publication!Paths
    <3>1. n - 1 \in 1 .. Len(plan)
      BY <1>3, <2>2
    <3>2. QED
      BY <3>1, <2>2, PlanShape
  <2>4. c \in Calls /\ c.plan = plan /\ c.next = n - 1 /\ c.pc = "cleanup"
    BY <1>1, <2>2, <2>3 DEF Calls
  <2>5. InPlan(p, c)
    BY <2>2, <2>3, <2>4 DEF InPlan, Publication!Ended
  <2> HIDE DEF c
  <2>6. /\ pub' \in [Publishers -> Calls] /\ PlansInv'
        /\ pub'[p] = c /\ \A q \in Publishers \ {p} : pub'[q] = pub[q]
    BY <2>1, <2>4, <2>5, CallStep DEF PublicationInv
  <2>7. object' \in [Publication!Paths -> Contents]
    BY <2>1, <2>3 DEF PublicationInv, PublicationTypes, Contents
  <2>8. PublicationTypes'
    BY <1>1, <2>6, <2>7 DEF PublicationInv, PublicationTypes
  <2>9. ~overlap => ~Publication!Visible'
    <3>1. ~overlap => ~Publication!Visible
      BY <2>2 DEF PublicationInv, Hidden
    <3>2. CASE object' = object
      BY <3>1, <3>2 DEF Publication!Visible
    <3>3. CASE object' = [object EXCEPT ![plan[n - 1].path] = Publication!None]
      BY <3>1, <3>3, <2>3, <2>8, StillHidden DEF PublicationInv, Publication!None
    <3>4. QED
      BY <2>1, <3>2, <3>3
  <2>10. Vacant' /\ Publication!ManifestComplete'
    BY <1>1, <2>9 DEF Vacant, Publication!ManifestComplete
  <2>11. QED
    BY <1>1, <2>2, <2>4, <2>6, <2>8, <2>9, <2>10, Writer
<1>4. QED
  BY <1>2, <1>3

LEMMA SourceEdited ==
    ASSUME PublicationInv, Publication!EditSource
    PROVE  PublicationInv'
<1>1. /\ version < PublicationEdits /\ version' = version + 1
      /\ UNCHANGED <<store, exists, object, pub, overlap, attempts>>
  BY DEF Publication!EditSource
<1>2. PublicationTypes'
  BY <1>1 DEF PublicationInv, PublicationTypes, Publication!PublicationAssumption
<1>3. PlansInv'
  BY <1>1 DEF PublicationInv, PlansInv
<1>4. QED
  BY <1>1, <1>2, <1>3, Bystander DEF Busy

-----------------------------------------------------------------------------
LEMMA PublicationSteps == PublicationInv /\ (Publication!Next \/ UNCHANGED Publication!vars) => PublicationInv'
<1> SUFFICES ASSUME PublicationInv, (Publication!Next \/ UNCHANGED Publication!vars)
             PROVE  PublicationInv'
  OBVIOUS
<1>1. CASE Publication!EditSource
  BY <1>1, SourceEdited
<1>2. ASSUME NEW p \in Publishers, Publication!Step(p)
      PROVE  PublicationInv'
  <2>1. ASSUME NEW r \in Publication!Requests, Publication!Publish(p, r)
        PROVE  PublicationInv'
    BY <2>1, PublishStep
  <2>2. CASE Publication!LocalEnsureEmpty(p)
    BY <2>2, LocalEnsureEmptyStep
  <2>3. CASE Publication!S3EnsureEmpty(p)
    BY <2>3, S3EnsureEmptyStep
  <2>4. CASE Publication!OpenObject(p)
    BY <2>4, OpenObjectStep
  <2>5. CASE Publication!WriteObject(p)
    BY <2>5, WriteObjectStep
  <2>6. CASE Publication!WriteFails(p)
    BY <2>6, WriteFailsStep
  <2>7. CASE Publication!LocalCleanup(p)
    BY <2>7, LocalCleanupStep
  <2>8. CASE Publication!S3Cleanup(p)
    BY <2>8, S3CleanupStep
  <2>9. CASE Publication!VerifyPublication(p)
    BY <2>9, CallEnds DEF Publication!VerifyPublication, Publication!Ended
  <2>10. CASE Publication!Kill(p)
    BY <2>10, CallEnds DEF Publication!Kill, Publication!Ended
  <2>11. QED
    BY <1>2, <2>1, <2>2, <2>3, <2>4, <2>5, <2>6, <2>7, <2>8, <2>9, <2>10 DEF Publication!Step
<1>3. CASE UNCHANGED Publication!vars
  <2>1. UNCHANGED <<store, exists, object, version, attempts, pub, overlap>>
    BY <1>3 DEF Publication!vars
  <2>2. PublicationTypes' /\ PlansInv'
    BY <2>1 DEF PublicationInv, PublicationTypes, PlansInv
  <2>3. QED
    BY <2>1, <2>2, Bystander DEF Busy
<1>4. QED
  BY <1>1, <1>2, <1>3 DEF Publication!Next

LEMMA PublicationTyped == PublicationInv => Publication!TypeOK
<1> SUFFICES ASSUME PublicationInv
             PROVE  Publication!TypeOK
  OBVIOUS
<1>1. ASSUME NEW p \in Publishers
      PROVE  /\ pub[p].pc \in CallPcs /\ pub[p].next \in 1 .. Len(pub[p].plan) + 1
  <2>1. pub[p] \in Calls /\ InPlan(p, pub[p])
    BY DEF PublicationInv, PublicationTypes, PlansInv
  <2>2. CASE pub[p].pc \in Publication!Ended
    BY <2>1, <2>2 DEF InPlan, Calls
  <2>3. CASE pub[p].pc \notin Publication!Ended
    <3>1. Len(pub[p].plan) \in Nat \ {0}
      BY <2>1, <2>3, PlanShape DEF InPlan
    <3>2. QED
      BY <2>1, <2>3, <3>1 DEF InPlan, Calls, CallPcs
  <2>4. QED
    BY <2>2, <2>3
<1>2. QED
  BY <1>1 DEF PublicationInv, PublicationTypes, Vacant, Publication!TypeOK, CallPcs

LEMMA CommittedIsKept == PublicationInv /\ Publication!Next => Publication!CommittedStays
<1> SUFFICES ASSUME PublicationInv, Publication!Next, ~overlap, Publication!Visible
             PROVE  object' = object
  BY DEF Publication!CommittedStays
<1>1. \A p \in Publishers : pub[p].pc \notin {"write", "writing", "cleanup"}
  BY DEF PublicationInv, Hidden, Busy
<1>2. CASE Publication!EditSource
  BY <1>2 DEF Publication!EditSource
<1>3. ASSUME NEW p \in Publishers, Publication!Step(p)
      PROVE  object' = object
  BY <1>1, <1>3
     DEF Publication!Step, Publication!Publish, Publication!LocalEnsureEmpty, Publication!S3EnsureEmpty, Publication!OpenObject, Publication!WriteObject, Publication!WriteFails,
         Publication!LocalCleanup, Publication!S3Cleanup, Publication!VerifyPublication, Publication!Kill
<1>4. QED
  BY <1>2, <1>3 DEF Publication!Next

-----------------------------------------------------------------------------
(* Publication build.                                                      *)

SourceVersions == {0, 1}
BuildRequests == [sha : SourceVersions, text : BOOLEAN, nlist : 0 .. SourceRows + 1]
BuiltIndexes == [nlist : 0 .. SourceRows + 1, text : BOOLEAN, whole : BOOLEAN, source : SourceVersions]
BuildOutcomes ==
    [kind : {"none", "failed", "taken"}] \cup [kind : {"refused"}, request : BuildRequests]
    \cup [kind : {"refused"}, request : BuildRequests, arguments : {TRUE}]
    \cup [kind : {"built"}, request : BuildRequests, artifact : BuiltIndexes]

BuildTypes ==
    /\ made \in BOOLEAN /\ statePart \in BOOLEAN /\ disturbed \in BOOLEAN
    /\ state = <<>> \/ \E r \in BuildRequests : state = <<r>>
    /\ artifact = <<>> \/ \E a \in BuiltIndexes : artifact = <<a>>
    /\ model \in [ModelFiles -> {"none", "part", "whole"}]
    /\ embedded = Build!Absent \/ embedded \in [status : {"part", "whole"}, source : SourceVersions]
    /\ version \in SourceVersions /\ runs \in 0 .. MaxRuns /\ edits \in 0 .. BuildEdits
    /\ run = Build!NotRunning \/ run \in [pc : Build!Pcs, request : BuildRequests, model : BOOLEAN]
    /\ out \in BuildOutcomes

\* Before its request is recorded a command has found no record; after that the record
\* is its own.
Starting == {"make", "part", "replace"}
Working == {"download", "downloading", "embed", "embedding", "find", "register", "index", "publish"}
RecordInv ==
    /\ run.pc \in Starting => state = <<>> /\ embedded = Build!Absent /\ artifact = <<>>
    /\ run.pc \in {"make", "part"} => ~statePart
    /\ run.pc \in Working => state = <<run.request>>
    /\ run.pc \in {"part", "replace"} \cup Working => made
    /\ state # <<>> \/ statePart \/ artifact # <<>> \/ embedded # Build!Absent => made
    /\ embedded # Build!Absent \/ artifact # <<>> => state # <<>>
\* An undisturbed command reads the source it hashed, so that what it makes is made of
\* the recorded source.
SourceInv ==
    /\ run # Build!NotRunning /\ ~disturbed => version = run.request.sha
    /\ embedded # Build!Absent /\ ~disturbed => embedded.source = state[1].sha
    /\ artifact # <<>> =>
          /\ artifact[1].whole /\ artifact[1].nlist = state[1].nlist
          /\ artifact[1].text = state[1].text
          /\ ~disturbed => artifact[1].source = state[1].sha
\* How far a command is.
ProgressInv ==
    /\ run.pc = "embedding" => embedded # Build!Absent /\ embedded.status = "part"
    /\ run.pc \in {"embed", "embedding"} => run.request.text
    /\ run.pc \in {"find", "register", "index"} /\ run.request.text => embedded.status = "whole"
    /\ run.pc \in {"register", "index"} => artifact = <<>>
    /\ run.pc = "publish" => artifact # <<>>
\* A refused request stays refused: either another one is recorded, or the directory
\* has the leftover of an unfinished record, and nothing will be recorded in it.
Refused == out.kind = "refused" /\ "arguments" \notin DOMAIN out
RefusedInv ==
    /\ Build!NotRefusedAgain
    /\ Refused /\ state = <<>> => statePart /\ run.pc \notin Starting

BuildInv == Build!BuildAssumption /\ BuildTypes /\ RecordInv /\ SourceInv /\ ProgressInv /\ RefusedInv
        /\ Build!BuiltFromRequest
\* The source is registered by the run that goes on to build the index: the name is taken
\* without an index only when such a run was stopped.
WarehouseInv ==
    /\ catalogued \in BOOLEAN /\ halted \in BOOLEAN
    /\ catalogued => artifact # <<>> \/ run.pc = "index" \/ halted
    /\ Build!TakenAfterHalt
WorkInv == BuildInv /\ WarehouseInv

-----------------------------------------------------------------------------
\* The command.

\* A command that is somewhere has a request.
LEMMA Running ==
    ASSUME BuildTypes, run.pc \in Build!Pcs
    PROVE  run \in [pc : Build!Pcs, request : BuildRequests, model : BOOLEAN] /\ run # Build!NotRunning
<1>1. run # Build!NotRunning
  BY DEF Build!NotRunning, Build!Pcs
<1>2. QED
  BY <1>1 DEF BuildTypes

LEMMA RunGoes ==
    ASSUME BuildTypes, run.pc \in Build!Pcs, NEW pc \in Build!Pcs, Build!Goto(pc)
    PROVE  /\ run' \in [pc : Build!Pcs, request : BuildRequests, model : BOOLEAN] /\ run' # Build!NotRunning /\ run # Build!NotRunning
           /\ run'.pc = pc /\ run'.request = run.request /\ run.request \in BuildRequests
           /\ out' = out
<1>1. run \in [pc : Build!Pcs, request : BuildRequests, model : BOOLEAN] /\ run # Build!NotRunning
  BY Running
<1>2. /\ run' \in [pc : Build!Pcs, request : BuildRequests, model : BOOLEAN]
      /\ run'.pc = pc /\ run'.request = run.request
  BY <1>1 DEF Build!Goto
<1>3. run' # Build!NotRunning
  BY <1>2 DEF Build!NotRunning, Build!Pcs
<1>4. QED
  BY <1>1, <1>2, <1>3 DEF Build!Goto

\* A command ends without an index: the directory is as it was.
LEMMA RunEnds ==
    ASSUME BuildInv, NEW result \in BuildOutcomes, Build!End(result), result.kind # "built",
           UNCHANGED <<Build!files, version, edits, disturbed>>, runs' \in 0 .. MaxRuns,
           result.kind = "refused" /\ "arguments" \notin DOMAIN result =>
               state # <<result.request>> /\ (state = <<>> => statePart)
    PROVE  BuildInv'
<1>1. /\ run' = Build!NotRunning /\ out' = result /\ run'.pc = "none"
      /\ UNCHANGED <<made, statePart, state, model, embedded, artifact, version, edits, disturbed>>
  BY DEF Build!End, Build!files, Build!NotRunning
<1>2. BuildTypes'
  BY <1>1 DEF BuildInv, BuildTypes
<1>3. RecordInv'
  BY <1>1 DEF BuildInv, RecordInv, Starting, Working
<1>4. SourceInv'
  BY <1>1 DEF BuildInv, SourceInv
<1>5. ProgressInv'
  BY <1>1 DEF ProgressInv
<1>6. RefusedInv' /\ Build!BuiltFromRequest'
  BY <1>1 DEF RefusedInv, Build!NotRefusedAgain, Refused, Starting, Build!BuiltFromRequest
<1>7. QED
  BY <1>2, <1>3, <1>4, <1>5, <1>6 DEF BuildInv, Build!BuildAssumption

LEMMA BuildInit == Build!BuildAssumption /\ Build!Init => BuildInv
<1> SUFFICES ASSUME Build!BuildAssumption, Build!Init
             PROVE  BuildInv
  OBVIOUS
<1>1. run.pc = "none" /\ out.kind = "none" /\ out \in BuildOutcomes
  BY DEF Build!Init, Build!NotRunning, BuildOutcomes
<1>2. BuildTypes
  <2>1. 0 \in 0 .. MaxRuns /\ 0 \in 0 .. BuildEdits /\ 0 \in SourceVersions
    BY DEF Build!BuildAssumption, SourceVersions
  <2>2. QED
    BY <2>1, <1>1 DEF BuildTypes, Build!Init
<1>3. RecordInv /\ SourceInv /\ ProgressInv
  BY <1>1 DEF Build!Init, RecordInv, SourceInv, ProgressInv, Starting, Working
<1>4. RefusedInv /\ Build!BuiltFromRequest
  BY <1>1 DEF RefusedInv, Build!NotRefusedAgain, Refused, Build!BuiltFromRequest
<1>5. QED
  BY <1>2, <1>3, <1>4 DEF BuildInv

LEMMA CommandStep ==
    ASSUME BuildInv, NEW a \in Build!Arguments, Build!Command(a)
    PROVE  BuildInv'
<1>1. /\ run = Build!NotRunning /\ runs < MaxRuns /\ runs' = runs + 1
      /\ UNCHANGED <<made, statePart, state, model, embedded, artifact, version, edits, disturbed>>
      /\ UNCHANGED <<Build!files, version, edits, disturbed>>
  BY DEF Build!Command, Build!files
<1>2. Build!RequestOf(a) \in BuildRequests /\ Build!RequestOf(a).sha = version /\ runs' \in 0 .. MaxRuns
  BY <1>1 DEF BuildInv, BuildTypes, Build!RequestOf, BuildRequests, Build!Arguments, Build!BuildAssumption
<1>3. CASE Build!CommandAccepts(a) /\ Build!BuildAccepts(a)
  <2>1. /\ run' = [pc |-> "prepare", request |-> Build!RequestOf(a), model |-> a.include_model]
        /\ out' = out
    BY <1>3 DEF Build!Command
  <2>2. run'.pc = "prepare" /\ run'.request.sha = version /\ run' \in [pc : Build!Pcs, request : BuildRequests, model : BOOLEAN]
    BY <2>1, <1>2 DEF Build!Pcs, Build!Arguments
  <2>3. BuildTypes'
    BY <1>1, <1>2, <2>1, <2>2 DEF BuildInv, BuildTypes
  <2>4. RecordInv'
    BY <1>1, <2>2 DEF BuildInv, RecordInv, Starting, Working
  <2>5. SourceInv'
    BY <1>1, <2>2 DEF BuildInv, SourceInv
  <2>6. ProgressInv'
    BY <2>2 DEF ProgressInv
  <2>7. RefusedInv' /\ Build!BuiltFromRequest'
    BY <1>1, <2>1, <2>2
       DEF BuildInv, RefusedInv, Build!NotRefusedAgain, Refused, Starting, Build!BuiltFromRequest
  <2>8. QED
    BY <2>3, <2>4, <2>5, <2>6, <2>7 DEF BuildInv, Build!BuildAssumption
<1>4. CASE ~(Build!CommandAccepts(a) /\ Build!BuildAccepts(a))
  <2> DEFINE result == [kind |-> "refused", request |-> Build!RequestOf(a), arguments |-> TRUE]
  <2>1. Build!End(result)
    BY <1>4 DEF Build!Command
  <2>2. result \in BuildOutcomes /\ result.kind = "refused" /\ "arguments" \in DOMAIN result
    BY <1>2 DEF BuildOutcomes
  <2> HIDE DEF result
  <2>3. QED
    BY <1>1, <1>2, <2>1, <2>2, RunEnds
<1>5. QED
  BY <1>3, <1>4

\* A request is refused for another record, or for leftovers without a record.
LEMMA PrepareStep ==
    ASSUME BuildInv, Build!PrepareBuildWork
    PROVE  BuildInv'
<1>1. /\ run.pc = "prepare"
      /\ UNCHANGED <<made, statePart, state, model, embedded, artifact, version, runs, edits,
                     disturbed>>
      /\ UNCHANGED <<Build!files, version, edits, disturbed>>
  BY DEF Build!PrepareBuildWork, Build!files
<1>2. run \in [pc : Build!Pcs, request : BuildRequests, model : BOOLEAN] /\ run.request \in BuildRequests /\ run.pc \in Build!Pcs
  BY <1>1, Running DEF BuildInv, Build!Pcs
<1>3. CASE Build!Refuse(run.request) /\ state # <<run.request>> /\ (state = <<>> => statePart)
  <2> DEFINE result == [kind |-> "refused", request |-> run.request]
  <2>1. Build!End(result)
    BY <1>3 DEF Build!Refuse
  <2>2. result \in BuildOutcomes /\ result.kind = "refused" /\ result.request = run.request
    BY <1>2 DEF BuildOutcomes
  <2>3. runs' \in 0 .. MaxRuns
    BY <1>1 DEF BuildInv, BuildTypes
  <2> HIDE DEF result
  <2>4. QED
    BY <1>1, <1>3, <2>1, <2>2, <2>3, RunEnds
<1>4. ASSUME NEW pc \in {"download", "make"}, Build!Goto(pc),
             pc = "download" => state = <<run.request>>,
             pc = "make" => state = <<>> /\ ~statePart /\ embedded = Build!Absent /\ artifact = <<>>
      PROVE  BuildInv'
  <2>1. /\ run' \in [pc : Build!Pcs, request : BuildRequests, model : BOOLEAN] /\ run' # Build!NotRunning /\ run # Build!NotRunning
        /\ run'.pc = pc /\ run'.request = run.request /\ out' = out
    BY <1>2, <1>4, RunGoes DEF BuildInv, Build!Pcs
  <2>2. BuildTypes'
    BY <1>1, <2>1 DEF BuildInv, BuildTypes
  <2>3. RecordInv'
    <3>1. CASE pc = "download"
      <4>1. state = <<run.request>> /\ state # <<>> /\ made
        BY <1>4, <3>1 DEF BuildInv, RecordInv
      <4>2. QED
        BY <1>1, <2>1, <3>1, <4>1 DEF BuildInv, RecordInv, Starting, Working
    <3>2. CASE pc = "make"
      BY <1>1, <1>4, <2>1, <3>2 DEF BuildInv, RecordInv, Starting, Working
    <3>3. QED
      BY <3>1, <3>2
  <2>4. SourceInv' /\ ProgressInv'
    BY <1>1, <1>4, <2>1 DEF BuildInv, SourceInv, ProgressInv
  <2>5. RefusedInv' /\ Build!BuiltFromRequest'
    BY <1>1, <1>4, <2>1
       DEF BuildInv, RefusedInv, Build!NotRefusedAgain, Refused, Starting, Build!BuiltFromRequest
  <2>6. QED
    BY <2>2, <2>3, <2>4, <2>5 DEF BuildInv, Build!BuildAssumption
<1>5. CASE state # <<>>
  <2>1. PICK r \in BuildRequests : state = <<r>>
    BY <1>5 DEF BuildInv, BuildTypes
  <2>2. CASE state[1] = run.request
    BY <1>4, <1>5, <2>1, <2>2 DEF Build!PrepareBuildWork
  <2>3. CASE state[1] # run.request
    <3>1. state # <<run.request>> /\ Build!Refuse(run.request)
      BY <1>5, <2>3 DEF Build!PrepareBuildWork
    <3>2. QED
      BY <3>1, <1>3, <1>5
  <2>4. QED
    BY <2>2, <2>3
<1>6. CASE state = <<>>
  <2>1. embedded = Build!Absent /\ artifact = <<>>
    BY <1>6 DEF BuildInv, RecordInv
  <2>2. CASE statePart
    BY <1>3, <1>6, <2>2 DEF Build!PrepareBuildWork
  <2>3. CASE ~statePart
    BY <1>4, <1>6, <2>1, <2>3 DEF Build!PrepareBuildWork
  <2>4. QED
    BY <2>2, <2>3
<1>7. QED
  BY <1>5, <1>6

-----------------------------------------------------------------------------
\* The steps of the build.

LEMMA MakeStep ==
    ASSUME BuildInv, Build!MakeWork
    PROVE  BuildInv'
<1>1. /\ run.pc = "make" /\ Build!Goto("part")
      /\ made' = TRUE
      /\ UNCHANGED <<statePart, state, model, embedded, artifact, version, runs, edits, disturbed>>
  BY DEF Build!MakeWork
<1>2. /\ run' \in [pc : Build!Pcs, request : BuildRequests, model : BOOLEAN] /\ run' # Build!NotRunning /\ run # Build!NotRunning
      /\ run'.pc = "part" /\ run'.request = run.request /\ run.request \in BuildRequests
      /\ out' = out
  BY <1>1, RunGoes DEF BuildInv, Build!Pcs
<1>3. BuildTypes'
  BY <1>1, <1>2 DEF BuildInv, BuildTypes
<1>4. RecordInv'
  BY <1>1, <1>2 DEF BuildInv, RecordInv, Starting, Working
<1>5. SourceInv'
  BY <1>1, <1>2 DEF BuildInv, SourceInv
<1>6. ProgressInv'
  BY <1>1, <1>2 DEF BuildInv, ProgressInv
<1>7. RefusedInv' /\ Build!BuiltFromRequest'
  BY <1>1, <1>2 DEF BuildInv, RefusedInv, Build!NotRefusedAgain, Refused, Starting, Build!BuiltFromRequest
<1>8. QED
  BY <1>3, <1>4, <1>5, <1>6, <1>7 DEF BuildInv, Build!BuildAssumption

LEMMA PartStep ==
    ASSUME BuildInv, Build!WriteStatePart
    PROVE  BuildInv'
<1>1. /\ run.pc = "part" /\ Build!Goto("replace")
      /\ statePart' = TRUE
      /\ UNCHANGED <<made, state, model, embedded, artifact, version, runs, edits, disturbed>>
  BY DEF Build!WriteStatePart
<1>2. /\ run' \in [pc : Build!Pcs, request : BuildRequests, model : BOOLEAN] /\ run' # Build!NotRunning /\ run # Build!NotRunning
      /\ run'.pc = "replace" /\ run'.request = run.request /\ run.request \in BuildRequests
      /\ out' = out
  BY <1>1, RunGoes DEF BuildInv, Build!Pcs
<1>3. BuildTypes'
  BY <1>1, <1>2 DEF BuildInv, BuildTypes
<1>4. RecordInv'
  BY <1>1, <1>2 DEF BuildInv, RecordInv, Starting, Working
<1>5. SourceInv'
  BY <1>1, <1>2 DEF BuildInv, SourceInv
<1>6. ProgressInv'
  BY <1>1, <1>2 DEF BuildInv, ProgressInv
<1>7. RefusedInv' /\ Build!BuiltFromRequest'
  BY <1>1, <1>2 DEF BuildInv, RefusedInv, Build!NotRefusedAgain, Refused, Starting, Build!BuiltFromRequest
<1>8. QED
  BY <1>3, <1>4, <1>5, <1>6, <1>7 DEF BuildInv, Build!BuildAssumption

\* Nobody was refused for lack of a record: the leftover would still be there.
LEMMA ReplaceStateStep ==
    ASSUME BuildInv, Build!ReplaceState
    PROVE  BuildInv'
<1>1. /\ run.pc = "replace" /\ Build!Goto("download")
      /\ statePart' = FALSE /\ state' = <<run.request>>
      /\ UNCHANGED <<made, model, embedded, artifact, version, runs, edits, disturbed>>
  BY DEF Build!ReplaceState
<1>2. /\ run' \in [pc : Build!Pcs, request : BuildRequests, model : BOOLEAN] /\ run' # Build!NotRunning /\ run # Build!NotRunning
      /\ run'.pc = "download" /\ run'.request = run.request /\ run.request \in BuildRequests
      /\ out' = out
  BY <1>1, RunGoes DEF BuildInv, Build!Pcs
<1>3. state = <<>> /\ embedded = Build!Absent /\ artifact = <<>> /\ ~Refused
  BY <1>1 DEF BuildInv, RecordInv, RefusedInv, Starting
<1>4. BuildTypes'
  BY <1>1, <1>2 DEF BuildInv, BuildTypes
<1>5. RecordInv'
  BY <1>1, <1>2 DEF BuildInv, RecordInv, Starting, Working
<1>6. SourceInv'
  BY <1>1, <1>2, <1>3 DEF BuildInv, SourceInv
<1>7. ProgressInv'
  BY <1>1, <1>2 DEF BuildInv, ProgressInv
<1>8. RefusedInv' /\ Build!BuiltFromRequest'
  BY <1>1, <1>2, <1>3 DEF BuildInv, RefusedInv, Build!NotRefusedAgain, Refused, Starting, Build!BuiltFromRequest
<1>9. QED
  BY <1>4, <1>5, <1>6, <1>7, <1>8 DEF BuildInv, Build!BuildAssumption

\* Nothing but the model changes while it is downloaded.
LEMMA DownloadStep ==
    ASSUME BuildInv, Build!DownloadMinilm
    PROVE  BuildInv'
<1>1. /\ run.pc = "download"
      /\ UNCHANGED <<made, statePart, state, embedded, artifact, version, runs, edits, disturbed>>
  BY DEF Build!DownloadMinilm
<1>2. PICK pc \in {"embed", "downloading", "find"} :
          Build!Goto(pc) /\ (pc = "embed" => run.request.text) /\ (pc = "find" => ~run.request.text)
  BY DEF Build!DownloadMinilm
<1>3. model' \in [ModelFiles -> {"none", "part", "whole"}]
  <2>1. model \in [ModelFiles -> {"none", "part", "whole"}]
    BY DEF BuildInv, BuildTypes
  <2> DEFINE missing == {f \in ModelFiles : model[f] # "whole"}
  <2>2. \/ model' = model
        \/ model' = [model EXCEPT ![CHOOSE f \in missing : TRUE] = "part"]
    BY DEF Build!DownloadMinilm
  <2>3. QED
    BY <2>1, <2>2
<1>4. /\ run' \in [pc : Build!Pcs, request : BuildRequests, model : BOOLEAN] /\ run' # Build!NotRunning /\ run # Build!NotRunning
      /\ run'.pc = pc /\ run'.request = run.request /\ run.request \in BuildRequests
      /\ out' = out
  BY <1>1, <1>2, RunGoes DEF BuildInv, Build!Pcs
<1>5. BuildTypes'
  BY <1>1, <1>3, <1>4 DEF BuildInv, BuildTypes
<1>6. RecordInv'
  BY <1>1, <1>2, <1>4 DEF BuildInv, RecordInv, Starting, Working
<1>7. SourceInv'
  BY <1>1, <1>4 DEF BuildInv, SourceInv
<1>8. ProgressInv'
  BY <1>1, <1>2, <1>4 DEF BuildInv, ProgressInv
<1>9. RefusedInv' /\ Build!BuiltFromRequest'
  BY <1>1, <1>2, <1>4
     DEF BuildInv, RefusedInv, Build!NotRefusedAgain, Refused, Starting, Build!BuiltFromRequest
<1>10. QED
  BY <1>5, <1>6, <1>7, <1>8, <1>9 DEF BuildInv, Build!BuildAssumption

LEMMA ReplaceModelStep ==
    ASSUME BuildInv, Build!ReplaceModelFile
    PROVE  BuildInv'
<1>1. /\ run.pc = "downloading" /\ Build!Goto("download")
      /\ model' = [f \in ModelFiles |-> IF model[f] = "part" THEN "whole" ELSE model[f]]
      /\ UNCHANGED <<made, statePart, state, embedded, artifact, version, runs, edits, disturbed>>
  BY DEF Build!ReplaceModelFile
<1>2. /\ run' \in [pc : Build!Pcs, request : BuildRequests, model : BOOLEAN] /\ run' # Build!NotRunning /\ run # Build!NotRunning
      /\ run'.pc = "download" /\ run'.request = run.request /\ run.request \in BuildRequests
      /\ out' = out
  BY <1>1, RunGoes DEF BuildInv, Build!Pcs
<1>3. BuildTypes'
  BY <1>1, <1>2 DEF BuildInv, BuildTypes
<1>4. RecordInv'
  BY <1>1, <1>2 DEF BuildInv, RecordInv, Starting, Working
<1>5. SourceInv'
  BY <1>1, <1>2 DEF BuildInv, SourceInv
<1>6. ProgressInv'
  BY <1>1, <1>2 DEF BuildInv, ProgressInv
<1>7. RefusedInv' /\ Build!BuiltFromRequest'
  BY <1>1, <1>2 DEF BuildInv, RefusedInv, Build!NotRefusedAgain, Refused, Starting, Build!BuiltFromRequest
<1>8. QED
  BY <1>3, <1>4, <1>5, <1>6, <1>7 DEF BuildInv, Build!BuildAssumption

\* The embedding is made of the recorded source unless the run was disturbed.
LEMMA EmbedStep ==
    ASSUME BuildInv, Build!EmbedMinilm
    PROVE  BuildInv'
<1>1. /\ run.pc = "embed"
      /\ UNCHANGED <<made, statePart, state, model, artifact, version, runs, edits, disturbed>>
  BY DEF Build!EmbedMinilm
<1>2. PICK pc \in {"find", "embedding"} :
          /\ Build!Goto(pc)
          /\ pc = "find" => embedded.status = "whole" /\ embedded' = embedded
          /\ pc = "embedding" => /\ embedded' = [status |-> "part", source |-> version]
                                 /\ embedded.status # "whole"
  BY DEF Build!EmbedMinilm
<1>3. /\ run' \in [pc : Build!Pcs, request : BuildRequests, model : BOOLEAN] /\ run' # Build!NotRunning /\ run # Build!NotRunning
      /\ run'.pc = pc /\ run'.request = run.request /\ run.request \in BuildRequests
      /\ out' = out
  BY <1>1, <1>2, RunGoes DEF BuildInv, Build!Pcs
<1>4. state = <<run.request>> /\ run.request.text /\ made
  BY <1>1 DEF BuildInv, RecordInv, ProgressInv, Working
<1>5. pc = "embedding" => /\ embedded' \in [status : {"part", "whole"}, source : SourceVersions]
                          /\ embedded' # Build!Absent /\ embedded'.status = "part"
                          /\ embedded'.source = version
  BY <1>2 DEF BuildInv, BuildTypes, Build!Absent
<1>6. BuildTypes'
  BY <1>1, <1>2, <1>3, <1>5 DEF BuildInv, BuildTypes
<1>7. RecordInv'
  BY <1>1, <1>2, <1>3, <1>4 DEF BuildInv, RecordInv, Starting, Working
<1>8. SourceInv'
  <2>1. ~disturbed => version = state[1].sha
    BY <1>3, <1>4 DEF BuildInv, SourceInv
  <2>2. QED
    BY <1>1, <1>2, <1>3, <1>5, <2>1 DEF BuildInv, SourceInv
<1>9. ProgressInv'
  BY <1>1, <1>2, <1>3, <1>4, <1>5 DEF BuildInv, ProgressInv
<1>10. RefusedInv' /\ Build!BuiltFromRequest'
  BY <1>1, <1>2, <1>3
     DEF BuildInv, RefusedInv, Build!NotRefusedAgain, Refused, Starting, Build!BuiltFromRequest
<1>11. QED
  BY <1>6, <1>7, <1>8, <1>9, <1>10 DEF BuildInv, Build!BuildAssumption

LEMMA ReplaceEmbeddedStep ==
    ASSUME BuildInv, Build!ReplaceEmbedded
    PROVE  BuildInv'
<1>1. /\ run.pc = "embedding" /\ Build!Goto("find")
      /\ embedded' = [embedded EXCEPT !.status = "whole"]
      /\ UNCHANGED <<made, statePart, state, model, artifact, version, runs, edits, disturbed>>
  BY DEF Build!ReplaceEmbedded
<1>2. /\ run' \in [pc : Build!Pcs, request : BuildRequests, model : BOOLEAN] /\ run' # Build!NotRunning /\ run # Build!NotRunning
      /\ run'.pc = "find" /\ run'.request = run.request /\ run.request \in BuildRequests
      /\ out' = out
  BY <1>1, RunGoes DEF BuildInv, Build!Pcs
<1>3. /\ embedded # Build!Absent /\ embedded' # Build!Absent /\ embedded'.status = "whole"
      /\ embedded' \in [status : {"part", "whole"}, source : SourceVersions]
      /\ embedded'.source = embedded.source
  <2>1. embedded # Build!Absent /\ embedded \in [status : {"part", "whole"}, source : SourceVersions]
    BY <1>1 DEF BuildInv, BuildTypes, ProgressInv
  <2>2. QED
    BY <1>1, <2>1 DEF Build!Absent
<1>4. state # <<>>
  BY <1>3 DEF BuildInv, RecordInv
<1>5. BuildTypes'
  BY <1>1, <1>2, <1>3 DEF BuildInv, BuildTypes
<1>6. RecordInv'
  BY <1>1, <1>2, <1>3, <1>4 DEF BuildInv, RecordInv, Starting, Working
<1>7. SourceInv'
  BY <1>1, <1>2, <1>3, <1>4 DEF BuildInv, SourceInv
<1>8. ProgressInv'
  BY <1>1, <1>2, <1>3 DEF BuildInv, ProgressInv
<1>9. RefusedInv' /\ Build!BuiltFromRequest'
  BY <1>1, <1>2 DEF BuildInv, RefusedInv, Build!NotRefusedAgain, Refused, Starting, Build!BuiltFromRequest
<1>10. QED
  BY <1>5, <1>6, <1>7, <1>8, <1>9 DEF BuildInv, Build!BuildAssumption

LEMMA FindStep ==
    ASSUME BuildInv, Build!FindIndexArtifact
    PROVE  BuildInv'
<1>1. /\ run.pc = "find"
      /\ UNCHANGED <<made, statePart, state, model, embedded, artifact, version, runs, edits,
                     disturbed>>
  BY DEF Build!FindIndexArtifact, Build!files
<1>2. PICK pc \in {"publish", "register"} :
          Build!Goto(pc) /\ (pc = "publish" => artifact # <<>>) /\ (pc = "register" => artifact = <<>>)
  BY DEF Build!FindIndexArtifact
<1>3. /\ run' \in [pc : Build!Pcs, request : BuildRequests, model : BOOLEAN] /\ run' # Build!NotRunning /\ run # Build!NotRunning
      /\ run'.pc = pc /\ run'.request = run.request /\ run.request \in BuildRequests
      /\ out' = out
  BY <1>1, <1>2, RunGoes DEF BuildInv, Build!Pcs
<1>4. BuildTypes'
  BY <1>1, <1>3 DEF BuildInv, BuildTypes
<1>5. RecordInv'
  BY <1>1, <1>2, <1>3 DEF BuildInv, RecordInv, Starting, Working
<1>6. SourceInv'
  BY <1>1, <1>3 DEF BuildInv, SourceInv
<1>7. ProgressInv'
  BY <1>1, <1>2, <1>3 DEF BuildInv, ProgressInv
<1>8. RefusedInv' /\ Build!BuiltFromRequest'
  BY <1>1, <1>2, <1>3
     DEF BuildInv, RefusedInv, Build!NotRefusedAgain, Refused, Starting, Build!BuiltFromRequest
<1>9. QED
  BY <1>4, <1>5, <1>6, <1>7, <1>8 DEF BuildInv, Build!BuildAssumption

LEMMA RegisterSourceStep ==
    ASSUME BuildInv, Build!RegisterSource
    PROVE  BuildInv'
<1>1. /\ run.pc = "register"
      /\ UNCHANGED <<made, statePart, state, model, embedded, artifact, version, runs, edits,
                     disturbed>>
      /\ UNCHANGED <<Build!files, version, edits, disturbed>>
  BY DEF Build!RegisterSource, Build!files
<1>2. CASE Build!End([kind |-> "taken"])
  <2>1. [kind |-> "taken"] \in BuildOutcomes
    BY DEF BuildOutcomes
  <2>2. runs' \in 0 .. MaxRuns
    BY <1>1 DEF BuildInv, BuildTypes
  <2>3. QED
    BY <1>1, <1>2, <2>1, <2>2, RunEnds
<1>3. CASE Build!Goto("index")
  <2>1. /\ run' \in [pc : Build!Pcs, request : BuildRequests, model : BOOLEAN] /\ run' # Build!NotRunning /\ run # Build!NotRunning
        /\ run'.pc = "index" /\ run'.request = run.request /\ run.request \in BuildRequests
        /\ out' = out
    BY <1>1, <1>3, RunGoes DEF BuildInv, Build!Pcs
  <2>2. BuildTypes'
    BY <1>1, <2>1 DEF BuildInv, BuildTypes
  <2>3. RecordInv' /\ SourceInv'
    BY <1>1, <2>1 DEF BuildInv, RecordInv, SourceInv, Starting, Working
  <2>4. ProgressInv'
    BY <1>1, <2>1 DEF BuildInv, ProgressInv
  <2>5. RefusedInv' /\ Build!BuiltFromRequest'
    BY <1>1, <2>1
       DEF BuildInv, RefusedInv, Build!NotRefusedAgain, Refused, Starting, Build!BuiltFromRequest
  <2>6. QED
    BY <2>2, <2>3, <2>4, <2>5 DEF BuildInv, Build!BuildAssumption
<1>4. QED
  BY <1>2, <1>3 DEF Build!RegisterSource

\* The index is built from the whole embedding of the recorded source, or from the
\* source itself.
LEMMA IndexStep ==
    ASSUME BuildInv, Build!BuildParqdbIndex
    PROVE  BuildInv'
<1> DEFINE a == [nlist |-> run.request.nlist, text |-> run.request.text,
                 whole |-> run.request.text => embedded.status = "whole",
                 source |-> IF run.request.text THEN embedded.source ELSE version]
<1>1. /\ run.pc = "index" /\ Build!Goto("publish") /\ artifact' = <<a>>
      /\ UNCHANGED <<made, statePart, state, model, embedded, version, runs, edits, disturbed>>
  BY DEF Build!BuildParqdbIndex
<1>2. /\ run' \in [pc : Build!Pcs, request : BuildRequests, model : BOOLEAN] /\ run' # Build!NotRunning /\ run # Build!NotRunning
      /\ run'.pc = "publish" /\ run'.request = run.request /\ run.request \in BuildRequests
      /\ out' = out
  BY <1>1, RunGoes DEF BuildInv, Build!Pcs
<1>3. state = <<run.request>> /\ made /\ artifact = <<>>
  BY <1>1 DEF BuildInv, RecordInv, ProgressInv, Working
<1>4. run.request.text => embedded.status = "whole" /\ embedded # Build!Absent
  BY <1>1 DEF BuildInv, ProgressInv, Build!Absent
<1>5. run.request.text \in BOOLEAN /\ run.request.nlist \in 0 .. SourceRows + 1
  BY <1>2 DEF BuildRequests
<1>6. IF run.request.text THEN embedded.source \in SourceVersions ELSE version \in SourceVersions
  BY <1>4 DEF BuildInv, BuildTypes
<1>7. /\ a \in BuiltIndexes /\ a.whole /\ a.nlist = run.request.nlist /\ a.text = run.request.text
      /\ ~disturbed => a.source = run.request.sha
  <2>1. ~disturbed => version = run.request.sha
    BY <1>2 DEF BuildInv, SourceInv
  <2>2. ~disturbed /\ run.request.text => embedded.source = run.request.sha
    BY <1>3, <1>4 DEF BuildInv, SourceInv
  <2>3. (run.request.text => embedded.status = "whole") = TRUE
    BY <1>4, <1>5
  <2>4. a \in BuiltIndexes
    BY <1>5, <1>6, <2>3 DEF BuiltIndexes
  <2>5. QED
    BY <2>1, <2>2, <2>3, <2>4, <1>5
<1> HIDE DEF a
<1>8. BuildTypes'
  BY <1>1, <1>2, <1>7 DEF BuildInv, BuildTypes
<1>9. RecordInv'
  BY <1>1, <1>2, <1>3 DEF BuildInv, RecordInv, Starting, Working
<1>10. SourceInv'
  BY <1>1, <1>2, <1>3, <1>7 DEF BuildInv, SourceInv
<1>11. ProgressInv'
  BY <1>1, <1>2 DEF BuildInv, ProgressInv
<1>12. RefusedInv' /\ Build!BuiltFromRequest'
  BY <1>1, <1>2
     DEF BuildInv, RefusedInv, Build!NotRefusedAgain, Refused, Starting, Build!BuiltFromRequest
<1>13. QED
  BY <1>8, <1>9, <1>10, <1>11, <1>12 DEF BuildInv, Build!BuildAssumption

LEMMA BuiltStep ==
    ASSUME BuildInv, Build!BuiltIndex
    PROVE  BuildInv'
<1>1. /\ run.pc = "publish"
      /\ UNCHANGED <<made, statePart, state, model, embedded, artifact, version, runs, edits,
                     disturbed>>
      /\ UNCHANGED <<Build!files, version, edits, disturbed>>
  BY DEF Build!BuiltIndex, Build!files
<1>2. run.request \in BuildRequests /\ artifact # <<>> /\ state = <<run.request>>
  BY <1>1, Running DEF BuildInv, Build!Pcs, ProgressInv, RecordInv, Working
<1>3. CASE Build!End([kind |-> "refused", request |-> run.request, arguments |-> TRUE])
  <2> DEFINE result == [kind |-> "refused", request |-> run.request, arguments |-> TRUE]
  <2>1. result \in BuildOutcomes /\ result.kind = "refused" /\ "arguments" \in DOMAIN result
    BY <1>2 DEF BuildOutcomes
  <2>2. runs' \in 0 .. MaxRuns /\ Build!End(result)
    BY <1>1, <1>3 DEF BuildInv, BuildTypes
  <2> HIDE DEF result
  <2>3. QED
    BY <1>1, <2>1, <2>2, RunEnds
<1>4. CASE Build!End([kind |-> "built", request |-> run.request, artifact |-> artifact[1]])
  <2> DEFINE result == [kind |-> "built", request |-> run.request, artifact |-> artifact[1]]
  <2>1. run' = Build!NotRunning /\ out' = result
    BY <1>4 DEF Build!End
  <2>2. artifact[1] \in BuiltIndexes
    BY <1>2 DEF BuildInv, BuildTypes
  <2>3. /\ artifact[1].whole /\ artifact[1].nlist = run.request.nlist
        /\ artifact[1].text = run.request.text
        /\ ~disturbed => artifact[1].source = run.request.sha
    BY <1>2 DEF BuildInv, SourceInv
  <2>4. /\ result \in BuildOutcomes /\ result.kind = "built" /\ result.request = run.request
        /\ result.artifact = artifact[1]
    BY <1>2, <2>2 DEF BuildOutcomes
  <2> HIDE DEF result
  <2>5. run'.pc = "none"
    BY <2>1 DEF Build!NotRunning
  <2>6. BuildTypes'
    BY <1>1, <2>1, <2>4 DEF BuildInv, BuildTypes
  <2>7. RecordInv' /\ SourceInv' /\ ProgressInv'
    BY <1>1, <2>1, <2>5 DEF BuildInv, RecordInv, SourceInv, ProgressInv, Starting, Working
  <2>8. RefusedInv' /\ Build!BuiltFromRequest'
    BY <1>1, <2>1, <2>3, <2>4, <2>5 DEF RefusedInv, Build!NotRefusedAgain, Refused, Build!BuiltFromRequest
  <2>9. QED
    BY <2>6, <2>7, <2>8 DEF BuildInv, Build!BuildAssumption
<1>5. QED
  BY <1>3, <1>4 DEF Build!BuiltIndex

LEMMA StopStep ==
    ASSUME BuildInv, Build!Stop
    PROVE  BuildInv'
<1>1. [kind |-> "failed"] \in BuildOutcomes
  BY DEF BuildOutcomes
<1>2. runs' \in 0 .. MaxRuns
  BY DEF BuildInv, BuildTypes, Build!Stop
<1>3. QED
  BY <1>1, <1>2, RunEnds DEF Build!Stop

LEMMA BuildSourceEdited ==
    ASSUME BuildInv, Build!EditSource
    PROVE  BuildInv'
<1>1. /\ edits < BuildEdits /\ edits' = edits + 1 /\ version' = 1 - version
      /\ disturbed' = (disturbed \/ run # Build!NotRunning)
      /\ UNCHANGED <<made, statePart, state, model, embedded, artifact, run, runs, out>>
  BY DEF Build!EditSource, Build!files
<1>2. version' \in SourceVersions /\ edits' \in 0 .. BuildEdits /\ disturbed' \in BOOLEAN
  BY <1>1 DEF BuildInv, BuildTypes, SourceVersions, Build!BuildAssumption
<1>3. BuildTypes'
  BY <1>1, <1>2 DEF BuildInv, BuildTypes
<1>4. RecordInv' /\ ProgressInv'
  BY <1>1 DEF BuildInv, RecordInv, ProgressInv
<1>5. SourceInv'
  BY <1>1 DEF BuildInv, SourceInv
<1>6. RefusedInv' /\ Build!BuiltFromRequest'
  BY <1>1 DEF BuildInv, RefusedInv, Build!NotRefusedAgain, Refused, Build!BuiltFromRequest
<1>7. QED
  BY <1>3, <1>4, <1>5, <1>6 DEF BuildInv, Build!BuildAssumption

-----------------------------------------------------------------------------
LEMMA BuildSteps == BuildInv /\ (Build!Next \/ UNCHANGED Build!vars) => BuildInv'
<1> SUFFICES ASSUME BuildInv, (Build!Next \/ UNCHANGED Build!vars)
             PROVE  BuildInv'
  OBVIOUS
<1>1. ASSUME NEW a \in Build!Arguments, Build!Command(a)
      PROVE  BuildInv'
  BY <1>1, CommandStep
<1>2. CASE Build!PrepareBuildWork \/ Build!MakeWork \/ Build!WriteStatePart \/ Build!ReplaceState
  BY <1>2, PrepareStep, MakeStep, PartStep, ReplaceStateStep
<1>3. CASE Build!DownloadMinilm \/ Build!ReplaceModelFile \/ Build!EmbedMinilm \/ Build!ReplaceEmbedded
  BY <1>3, DownloadStep, ReplaceModelStep, EmbedStep, ReplaceEmbeddedStep
<1>4. CASE Build!FindIndexArtifact \/ Build!RegisterSource \/ Build!BuildParqdbIndex \/ Build!BuiltIndex
  BY <1>4, FindStep, RegisterSourceStep, IndexStep, BuiltStep
<1>5. CASE Build!Stop \/ Build!EditSource
  BY <1>5, StopStep, BuildSourceEdited
<1>6. CASE UNCHANGED Build!vars
  <2>1. UNCHANGED <<made, statePart, state, model, embedded, artifact, version, run, runs, edits,
                    disturbed, out>>
    BY <1>6 DEF Build!vars
  <2>2. BuildTypes' /\ RecordInv' /\ SourceInv' /\ ProgressInv'
    BY <2>1 DEF BuildInv, BuildTypes, RecordInv, SourceInv, ProgressInv
  <2>3. RefusedInv' /\ Build!BuiltFromRequest'
    BY <2>1 DEF BuildInv, RefusedInv, Build!NotRefusedAgain, Refused, Build!BuiltFromRequest
  <2>4. QED
    BY <2>2, <2>3 DEF BuildInv, Build!BuildAssumption
<1>7. QED
  BY <1>1, <1>2, <1>3, <1>4, <1>5, <1>6 DEF Build!Next

LEMMA CompleteWorkIsKept == BuildInv /\ Build!Next => Build!WorkIsKept
<1> SUFFICES ASSUME BuildInv, Build!Next
             PROVE  Build!WorkIsKept
  OBVIOUS
<1>1. state # <<>> => state' = state
  BY DEF BuildInv, RecordInv, Starting, Build!Next, Build!Command, Build!PrepareBuildWork, Build!MakeWork, Build!WriteStatePart,
         Build!ReplaceState, Build!DownloadMinilm, Build!ReplaceModelFile, Build!EmbedMinilm, Build!ReplaceEmbedded,
         Build!FindIndexArtifact, Build!RegisterSource, Build!BuildParqdbIndex, Build!BuiltIndex, Build!Stop, Build!EditSource, Build!files
<1>2. ASSUME NEW f \in ModelFiles, model[f] = "whole"
      PROVE  model'[f] = "whole"
  <2>1. CASE Build!DownloadMinilm
    <3> DEFINE missing == {m \in ModelFiles : model[m] # "whole"}
    <3>1. \/ model' = model
          \/ missing # {} /\ model' = [model EXCEPT ![CHOOSE m \in missing : TRUE] = "part"]
      BY <2>1 DEF Build!DownloadMinilm
    <3>2. missing # {} => (CHOOSE m \in missing : TRUE) \in missing
      OBVIOUS
    <3>3. missing # {} => (CHOOSE m \in missing : TRUE) # f
      BY <3>2, <1>2
    <3> HIDE DEF missing
    <3>4. QED
      BY <1>2, <3>1, <3>3 DEF BuildInv, BuildTypes
  <2>2. CASE Build!ReplaceModelFile
    BY <1>2, <2>2 DEF Build!ReplaceModelFile
  <2>3. CASE ~Build!DownloadMinilm /\ ~Build!ReplaceModelFile
    BY <1>2, <2>3 DEF Build!Next, Build!Command, Build!PrepareBuildWork, Build!MakeWork, Build!WriteStatePart, Build!ReplaceState,
           Build!EmbedMinilm, Build!ReplaceEmbedded, Build!FindIndexArtifact, Build!RegisterSource, Build!BuildParqdbIndex, Build!BuiltIndex, Build!Stop,
           Build!EditSource, Build!files
  <2>4. QED
    BY <2>1, <2>2, <2>3
<1>3. embedded.status = "whole" => embedded' = embedded
  BY DEF BuildInv, ProgressInv, Build!Next, Build!Command, Build!PrepareBuildWork, Build!MakeWork, Build!WriteStatePart,
         Build!ReplaceState, Build!DownloadMinilm, Build!ReplaceModelFile, Build!EmbedMinilm, Build!ReplaceEmbedded,
         Build!FindIndexArtifact, Build!RegisterSource, Build!BuildParqdbIndex, Build!BuiltIndex, Build!Stop, Build!EditSource, Build!files
<1>4. artifact # <<>> => artifact' = artifact
  BY DEF BuildInv, ProgressInv, Build!Next, Build!Command, Build!PrepareBuildWork, Build!MakeWork, Build!WriteStatePart,
         Build!ReplaceState, Build!DownloadMinilm, Build!ReplaceModelFile, Build!EmbedMinilm, Build!ReplaceEmbedded,
         Build!FindIndexArtifact, Build!RegisterSource, Build!BuildParqdbIndex, Build!BuiltIndex, Build!Stop, Build!EditSource, Build!files
<1>5. QED
  BY <1>1, <1>2, <1>3, <1>4 DEF Build!WorkIsKept

\* The name of the source: registered by a run that ends with the index or is stopped.
LEMMA WarehouseSteps == WorkInv /\ (Build!Next \/ UNCHANGED Build!vars) => WorkInv'
<1> SUFFICES ASSUME BuildInv, WarehouseInv, (Build!Next \/ UNCHANGED Build!vars)
             PROVE  WarehouseInv'
  BY BuildSteps DEF WorkInv
<1>1. CASE Build!RegisterSource
  <2>1. run.pc = "register" /\ artifact = <<>> /\ UNCHANGED <<artifact, halted>>
    BY <1>1 DEF Build!RegisterSource, Build!files, BuildInv, ProgressInv
  <2>2. CASE catalogued
    <3>1. halted /\ catalogued' = catalogued
      BY <1>1, <2>1, <2>2 DEF WarehouseInv, Build!RegisterSource
    <3>2. QED
      BY <2>1, <3>1 DEF WarehouseInv, Build!TakenAfterHalt
  <2>3. CASE ~catalogued
    <3>1. Build!Goto("index") /\ catalogued' = TRUE
      BY <1>1, <2>3 DEF Build!RegisterSource
    <3>2. run'.pc = "index" /\ out' = out
      BY <2>1, <3>1, RunGoes DEF BuildInv, Build!Pcs
    <3>3. QED
      BY <2>1, <3>1, <3>2 DEF WarehouseInv, Build!TakenAfterHalt
  <2>4. QED
    BY <2>2, <2>3
<1>2. CASE Build!BuildParqdbIndex
  <2>1. artifact' # <<>> /\ UNCHANGED <<catalogued, halted, out>>
    BY <1>2 DEF Build!BuildParqdbIndex, Build!Goto, Build!warehouse
  <2>2. QED
    BY <2>1 DEF WarehouseInv, Build!TakenAfterHalt
<1>3. CASE Build!Stop
  <2>1. /\ halted' = (halted \/ run.pc = "index") /\ out'.kind = "failed"
        /\ UNCHANGED <<artifact, catalogued>>
    BY <1>3 DEF Build!Stop, Build!End, Build!files
  <2>2. QED
    BY <2>1 DEF WarehouseInv, Build!TakenAfterHalt
<1>4. CASE /\ UNCHANGED <<catalogued, halted, artifact>> /\ run.pc # "index"
           /\ out' = out \/ out'.kind # "taken"
  BY <1>4 DEF WarehouseInv, Build!TakenAfterHalt
<1>5. CASE UNCHANGED <<catalogued, halted, artifact, run, out>>
  BY <1>5 DEF WarehouseInv, Build!TakenAfterHalt
<1>6. ASSUME NEW a \in Build!Arguments, Build!Command(a)
      PROVE  WarehouseInv'
  <2>1. run.pc = "none" /\ UNCHANGED <<catalogued, halted, artifact>>
    BY <1>6 DEF Build!Command, Build!NotRunning, Build!files, Build!warehouse
  <2>2. out' = out \/ out'.kind # "taken"
    BY <1>6 DEF Build!Command, Build!End
  <2>3. QED
    BY <2>1, <2>2, <1>4
<1>7. CASE Build!PrepareBuildWork \/ Build!BuiltIndex
  <2>1. run.pc # "index" /\ UNCHANGED <<catalogued, halted, artifact>>
    BY <1>7 DEF Build!PrepareBuildWork, Build!BuiltIndex, Build!files, Build!warehouse
  <2>2. out' = out \/ out'.kind # "taken"
    BY <1>7 DEF Build!PrepareBuildWork, Build!BuiltIndex, Build!Goto, Build!Refuse, Build!End
  <2>3. QED
    BY <2>1, <2>2, <1>4
<1>8. CASE \/ Build!MakeWork \/ Build!WriteStatePart \/ Build!ReplaceState \/ Build!DownloadMinilm
           \/ Build!ReplaceModelFile \/ Build!EmbedMinilm \/ Build!ReplaceEmbedded \/ Build!FindIndexArtifact
  <2>1. run.pc # "index" /\ UNCHANGED <<catalogued, halted, artifact, out>>
    BY <1>8 DEF Build!MakeWork, Build!WriteStatePart, Build!ReplaceState, Build!DownloadMinilm,
                Build!ReplaceModelFile, Build!EmbedMinilm, Build!ReplaceEmbedded, Build!FindIndexArtifact,
                Build!files, Build!warehouse, Build!Goto
  <2>2. QED
    BY <2>1, <1>4
<1>9. CASE Build!EditSource
  BY <1>9, <1>5 DEF Build!EditSource, Build!files, Build!warehouse
<1>10. CASE UNCHANGED Build!vars
  BY <1>10, <1>5 DEF Build!vars
<1>11. QED
  BY <1>1, <1>2, <1>3, <1>6, <1>7, <1>8, <1>9, <1>10 DEF Build!Next

LEMMA WorkInit == Build!BuildAssumption /\ Build!Init => WorkInv
<1>1. Build!Init => catalogued = FALSE /\ halted = FALSE /\ out.kind = "none"
  BY DEF Build!Init
<1>2. Build!Init => WarehouseInv
  BY <1>1 DEF WarehouseInv, Build!TakenAfterHalt
<1>3. QED
  BY <1>2, BuildInit DEF WorkInv

LEMMA BuildTyped == WorkInv => Build!TypeOK
<1> SUFFICES ASSUME BuildInv, WarehouseInv
             PROVE  Build!TypeOK
  BY DEF WorkInv
<1>1. Len(state) <= 1 /\ Len(artifact) <= 1
  <2>1. \A r \in BuildRequests : Len(<<r>>) <= 1
    OBVIOUS
  <2>2. \A a \in BuiltIndexes : Len(<<a>>) <= 1
    OBVIOUS
  <2>3. Len(<<>>) <= 1
    OBVIOUS
  <2>4. QED
    BY <2>1, <2>2, <2>3, Zenon DEF BuildInv, BuildTypes
<1>2. embedded.status \in {"none", "part", "whole"}
  BY DEF BuildInv, BuildTypes, Build!Absent
<1>3. run.pc \in Build!Pcs \cup {"none"}
  BY DEF BuildInv, BuildTypes, Build!NotRunning
<1>4. out.kind \in {"none", "refused", "failed", "taken", "built"}
  BY DEF BuildInv, BuildTypes, BuildOutcomes
<1>5. runs <= MaxRuns /\ edits <= BuildEdits
  BY DEF BuildInv, BuildTypes, Build!BuildAssumption
<1>6. QED
  BY <1>1, <1>2, <1>3, <1>4, <1>5 DEF Build!TypeOK, BuildInv, BuildTypes, RecordInv, SourceVersions, WarehouseInv

-----------------------------------------------------------------------------
(* The composition: a step is of the component that runs.                  *)

ApiInv == /\ component = "options" => OptionsInv
          /\ component = "namespace" => NamespaceInv
          /\ component = "shipping" => ShippingInv
          /\ component = "functions" => FunctionsInv
          /\ component = "windows" => WindowInv
          /\ component = "publication" => PublicationInv
          /\ component = "build" => WorkInv
Kept == /\ component = "namespace" => Namespace!NamesKeep /\ Namespace!RefusedChangesNoName
        /\ component = "functions" => Functions!CallbackTablesPropagate
        /\ component = "publication" => Publication!CommittedStays
        /\ component = "build" => Build!WorkIsKept

LEMMA ApiInit == Init => ApiInv
<1> SUFFICES ASSUME Init PROVE ApiInv
  OBVIOUS
<1>1. /\ Options!OptionsAssumption /\ Namespace!NamespaceAssumption /\ Shipping!ShippingAssumption
      /\ Publication!PublicationAssumption /\ Build!BuildAssumption /\ Functions!FunctionsAssumption
      /\ Windows!WindowAssumption
  BY ApiAssumption DEF ApiAssumption
<1>2. /\ component = "options" => Options!Init
      /\ component = "namespace" => Namespace!Init
      /\ component = "shipping" => Shipping!Init
      /\ component = "functions" => Functions!Init
      /\ component = "windows" => Windows!Init
      /\ component = "publication" => Publication!Init
      /\ component = "build" => Build!Init
  BY DEF Init
<1>3. QED
  BY <1>1, <1>2, OptionsInit, NamespaceInit, ShippingInit, FunctionsInit, WindowInit, PublicationInit,
     WorkInit
  DEF ApiInv

\* A step in which nothing changes.
LEMMA ApiStutter == ApiInv /\ UNCHANGED vars => ApiInv'
<1> SUFFICES ASSUME ApiInv, UNCHANGED vars PROVE ApiInv'
  OBVIOUS
<1>1. component' = component
  BY DEF vars
<1>2. OptionsInv => OptionsInv'
  <2>1. UNCHANGED <<v1, v2, v3, v4>>
    BY DEF vars, slots
  <2>2. QED
    BY <2>1 DEF OptionsInv, OptionTypes, Options!CheckedCharacters
<1>3. NamespaceInv => NamespaceInv'
  <2>1. UNCHANGED <<handle, state, lists, schemas, providers, frame, held, out>>
    BY DEF vars, namespace
  <2>2. QED
    BY <2>1 DEF NamespaceInv, NamespaceTypes, StateSet, ListSet, SchemaSet,
                Namespace!NamespaceAssumption
<1>4. ShippingInv => ShippingInv'
  <2>1. UNCHANGED Shipping!vars
    BY DEF vars, shipping, Shipping!vars
  <2>2. QED
    BY <2>1, ShippingSteps
<1>5. FunctionsInv => FunctionsInv'
  <2>1. UNCHANGED <<handles, registry, tables, last>>
    BY DEF vars, functions
  <2>2. QED
    BY <2>1, ConstantSets DEF FunctionsInv, FunctionTypes, RegistryFit, Functions!FunctionsAssumption
<1>6. WindowInv => WindowInv'
  <2> SUFFICES ASSUME WindowInv PROVE WindowInv'
    OBVIOUS
  <2>1. UNCHANGED <<keys, evaluator, arrived, ended, answered, method, ranks, memoized>>
    BY DEF vars, windows
  <2>2. /\ arrived \in arrived .. Windows!Rows /\ ended \in BOOLEAN
        /\ memoized \in 0 .. Len(answered) /\ (ended => arrived = Windows!Rows)
    BY WindowFacts DEF WindowInv, WindowTypes, EndInv
  <2>3. QED
    BY <2>1, <2>2, WindowQuiet
<1>7. PublicationInv => PublicationInv'
  <2>1. UNCHANGED Publication!vars
    BY DEF vars, publication, Publication!vars
  <2>2. QED
    BY <2>1, PublicationSteps
<1>8. WorkInv => WorkInv'
  <2>1. UNCHANGED Build!vars
    BY DEF vars, build, Build!vars
  <2>2. QED
    BY <2>1, WarehouseSteps
<1>9. QED
  BY <1>1, <1>2, <1>3, <1>4, <1>5, <1>6, <1>7, <1>8 DEF ApiInv

LEMMA ApiSteps == ApiInv /\ [Next]_vars => ApiInv' /\ [Kept]_vars
<1> SUFFICES ASSUME ApiInv, [Next]_vars PROVE ApiInv' /\ [Kept]_vars
  OBVIOUS
<1>1. CASE OptionsNext
  <2>1. component = "options" /\ component' = component /\ Options!Next /\ OptionsInv
    BY <1>1 DEF OptionsNext, OptionsRest, Named, ApiInv
  <2>2. OptionsInv'
    BY <2>1, OptionsSteps
  <2>3. QED
    BY <2>1, <2>2 DEF ApiInv, Kept
<1>2. CASE NamespaceNext
  <2>1. component = "namespace" /\ component' = component /\ Namespace!Next /\ NamespaceInv
    BY <1>2 DEF NamespaceNext, NamespaceRest, ApiInv
  <2>2. NamespaceInv' /\ Namespace!NamesKeep /\ Namespace!RefusedChangesNoName
    BY <2>1, NamespaceSteps DEF NamesSafe
  <2>3. QED
    BY <2>1, <2>2 DEF ApiInv, Kept
<1>3. CASE ShippingNext
  <2>1. component = "shipping" /\ component' = component /\ Shipping!Next /\ ShippingInv
    BY <1>3 DEF ShippingNext, ShippingRest, ApiInv
  <2>2. ShippingInv'
    BY <2>1, ShippingSteps
  <2>3. QED
    BY <2>1, <2>2 DEF ApiInv, Kept
<1>4. CASE FunctionsNext
  <2>1. component = "functions" /\ component' = component /\ Functions!Next /\ FunctionsInv
    BY <1>4 DEF FunctionsNext, FunctionsRest, ApiInv
  <2>2. FunctionsInv' /\ Functions!CallbackTablesPropagate
    BY <2>1, FunctionsSteps
  <2>3. QED
    BY <2>1, <2>2 DEF ApiInv, Kept
<1>5. CASE WindowsNext
  <2>1. component = "windows" /\ component' = component /\ Windows!Next /\ WindowInv
    BY <1>5 DEF WindowsNext, WindowsRest, ApiInv
  <2>2. WindowInv'
    BY <2>1, WindowSteps
  <2>3. QED
    BY <2>1, <2>2 DEF ApiInv, Kept
<1>6. CASE PublicationNext
  <2>1. component = "publication" /\ component' = component /\ Publication!Next /\ PublicationInv
    BY <1>6 DEF PublicationNext, PublicationRest, ApiInv
  <2>2. PublicationInv' /\ Publication!CommittedStays
    BY <2>1, PublicationSteps, CommittedIsKept
  <2>3. QED
    BY <2>1, <2>2 DEF ApiInv, Kept
<1>7. CASE BuildNext
  <2>1. component = "build" /\ component' = component /\ Build!Next /\ WorkInv
    BY <1>7 DEF BuildNext, BuildRest, ApiInv
  <2>2. WorkInv' /\ Build!WorkIsKept
    BY <2>1, WarehouseSteps, CompleteWorkIsKept DEF WorkInv
  <2>3. QED
    BY <2>1, <2>2 DEF ApiInv, Kept
<1>8. CASE BuildersNext \/ FramesNext
  BY <1>8 DEF BuildersNext, FramesNext, BuildersRest, Named, ApiInv, Kept
<1>9. CASE UNCHANGED vars
  BY <1>9, ApiStutter
<1>10. QED
  BY <1>1, <1>2, <1>3, <1>4, <1>5, <1>6, <1>7, <1>8, <1>9 DEF Next

\* The inductive invariant holds in every state.
THEOREM ApiInvariance == Spec => []ApiInv
  BY ApiInit, ApiSteps, PTL DEF Spec

\* The slots of a thread hold what it installed, bytes of a strict session carry no code and
\* make none, and what travelled as code is never taken for another function of its name
\* (ShippedAsAllowed), for any number of threads, sessions, functions and messages.
THEOREM ExpressionsShipAsAllowed == Spec => []ShippedAsAllowed
<1>1. ApiInv => ShippedAsAllowed
  BY DEF ApiInv, ShippedAsAllowed, ShippingInv
<1>2. QED
  BY <1>1, ApiInvariance, PTL

\* A manifest whose write ended lists objects that are there and whole, for S3 unless
\* publications overlapped, an index is returned to the build of the request it was made
\* for, and the source's name is only taken after a build that stopped between registering
\* it and recording the index (PublishedAsRequested), whichever write, removal of a partial
\* object or clean-up fails, and whatever changes between any two of them.
THEOREM PublicationsAreAsRequested == Spec => []PublishedAsRequested
<1>1. ApiInv => PublishedAsRequested
  BY DEF ApiInv, PublishedAsRequested, PublicationInv, WorkInv, BuildInv, RefusedInv, WarehouseInv,
         Build!PublishedAsRequested, Build!ResumedOnceRecorded
<1>2. QED
  BY <1>1, ApiInvariance, PTL

\* A function that a maker made can run wherever it is registered, looked up and registered
\* again, with those the classes made unchecked beside it; a window function is asked by the
\* tabled method over ranges that no cut into batches shows, each row in one rank and each
\* row answered (EvaluatedAsDeclared), for any number of objects, names, handles and rows.
THEOREM FunctionsEvaluatedAsDeclared == Spec => []EvaluatedAsDeclared
<1>1. ApiInv => EvaluatedAsDeclared
  BY FunctionsRun, WindowAnswers DEF ApiInv, EvaluatedAsDeclared
<1>2. QED
  BY <1>1, ApiInvariance, PTL

\* No step takes from a name of a schema in memory its provider unless it removes it or is
\* a statement that says OR REPLACE, from a publication what is committed, or from a build
\* what is complete; a call that raises, DDL or not, changes no such name, and a callback's
\* table reaches the session of the call (NothingLost).
THEOREM NothingIsLost == Spec => NothingLost
<1>1. Spec => [][Kept]_vars
  BY ApiInvariance, ApiSteps, PTL DEF Spec
<1>2. QED
  BY <1>1, PTL DEF NothingLost, Kept

\* A reader over options that no setter was called on uses the characters it was given
\* (CsvReadOptions, to_inner), however many variables share the options; and seven of the
\* components stay within their types, in which a context, list or schema object is never
\* dangling and no row is answered before it arrived.
THEOREM ReadersAndTypes ==
    Spec => [](/\ component = "options" => Options!CheckedCharacters /\ Options!TypeOK
               /\ component = "namespace" => Namespace!TypeOK
               /\ component = "shipping" => Shipping!TypeOK
               /\ component = "functions" => Functions!TypeOK
               /\ component = "windows" => Windows!TypeOK
               /\ component = "publication" => Publication!TypeOK
               /\ component = "build" => Build!TypeOK)
<1>1. ApiInv => /\ component = "options" => Options!CheckedCharacters /\ Options!TypeOK
                /\ component = "namespace" => Namespace!TypeOK
                /\ component = "shipping" => Shipping!TypeOK
                /\ component = "functions" => Functions!TypeOK
                /\ component = "windows" => Windows!TypeOK
                /\ component = "publication" => Publication!TypeOK
                /\ component = "build" => Build!TypeOK
  BY OptionsTyped, NamespaceTyped, ShippingTyped, FunctionsTyped, WindowTyped, PublicationTyped,
     BuildTyped
  DEF ApiInv, OptionsInv
<1>2. QED
  BY <1>1, ApiInvariance, PTL
=============================================================================
