--------------------------- MODULE SessionOptions ---------------------------
(***************************************************************************)
(* The option objects of the DataFusion API: SessionConfig,                *)
(* RuntimeEnvBuilder, SQLOptions (context.py) and CsvReadOptions           *)
(* (options.py), and the calls that read them.  A Python variable holds a  *)
(* reference; a with_ method replaces the native value inside the object   *)
(* and returns the object itself, so that variables share it.  A session,  *)
(* a statement or a reader takes the native value there is when it is      *)
(* made.  The CSV character options are strings, here sequences of         *)
(* characters, of which the native reader takes the first.                 *)
(***************************************************************************)
EXTENDS Integers, Sequences, FiniteSets

CONSTANTS Vars,        \* variables of the program
          Sessions,    \* SessionContexts it may open
          MaxObjects,  \* option objects (model bound)
          Char, Other  \* two characters

OptionsAssumption == MaxObjects \in Nat /\ Char # Other

\* One setting of each kind stands for all of them: they do not interact.
Kinds == {"config", "runtime", "sql", "csv"}
Settings(kind) == CASE kind = "config"  -> {"batch_size"}
                    [] kind = "runtime" -> {"memory_pool"}
                    [] kind = "sql"     -> {"allow_ddl"}
                    [] kind = "csv"     -> {"delimiter"}
Strings == {<<>>, <<Char>>, <<Other>>, <<Char, Other>>}
Values(kind) == IF kind = "csv" THEN Strings ELSE 0 .. 1
Default(kind) == [s \in Settings(kind) |-> IF kind = "csv" THEN <<Char>> ELSE 0]

VARIABLES obj,      \* the option objects made so far, in order
          ref,      \* variable |-> the object it names (0: none)
          session,  \* session |-> the settings it was opened with
          reader    \* the last CSV reader: the strings given, the characters used, whether
                    \* a setter was called on its options

vars == <<obj, ref, session, reader>>
Nothing == [kind |-> "none"]

TypeOK ==
    /\ Len(obj) <= MaxObjects
    /\ \A i \in DOMAIN obj : /\ obj[i].kind \in Kinds /\ obj[i].changed \in BOOLEAN
                             /\ obj[i].set \in [Settings(obj[i].kind) -> Values(obj[i].kind)]
    /\ ref \in [Vars -> 0 .. Len(obj)]
    /\ \A s \in Sessions : session[s].kind \in {"none", "open"}
    /\ reader.kind \in {"none", "csv"}

Init ==
    /\ obj = <<>> /\ ref = [v \in Vars |-> 0]
    /\ session = [s \in Sessions |-> Nothing] /\ reader = Nothing

\* v names a new object with these settings.
Make(v, kind, set) ==
    /\ Len(obj) < MaxObjects
    /\ obj' = Append(obj, [kind |-> kind, set |-> set, changed |-> FALSE])
    /\ ref' = [ref EXCEPT ![v] = Len(obj) + 1]
    /\ UNCHANGED <<session, reader>>

\* validate_single_character
Single(str) == Len(str) = 1

NewConfig(v) == Make(v, "config", Default("config"))
NewRuntime(v) == Make(v, "runtime", Default("runtime"))
NewSql(v) == Make(v, "sql", Default("sql"))
\* CsvReadOptions.__init__ raises unless every option is one character.
NewCsv(v) ==
    \E set \in [Settings("csv") -> Strings] :
        (\A s \in Settings("csv") : Single(set[s])) /\ Make(v, "csv", set)

\* w = v.with_...(x): the object v names is changed, and w names it too.
SetOption(kind, v, w, s, x) ==
    /\ ref[v] # 0 /\ obj[ref[v]].kind = kind /\ s \in Settings(kind) /\ x \in Values(kind)
    /\ obj' = [obj EXCEPT ![ref[v]].set[s] = x, ![ref[v]].changed = TRUE]
    /\ ref' = [ref EXCEPT ![w] = ref[v]]
    /\ UNCHANGED <<session, reader>>
WithConfig(v, w) == \E s \in Settings("config"), x \in 0 .. 1 : SetOption("config", v, w, s, x)
WithRuntime(v, w) == \E s \in Settings("runtime"), x \in 0 .. 1 : SetOption("runtime", v, w, s, x)
WithSql(v, w) == \E s \in Settings("sql"), x \in 0 .. 1 : SetOption("sql", v, w, s, x)
\* The setters of CsvReadOptions check nothing, and say that they return self.
WithCsv(v, w) == \E s \in Settings("csv"), x \in Strings : SetOption("csv", v, w, s, x)

\* SessionContext(config, runtime) takes the native values.
OpenSession(n, v, w) ==
    /\ session[n].kind = "none"
    /\ ref[v] # 0 /\ obj[ref[v]].kind = "config" /\ ref[w] # 0 /\ obj[ref[w]].kind = "runtime"
    /\ session' = [session EXCEPT ![n] =
          [kind |-> "open", config |-> obj[ref[v]].set, runtime |-> obj[ref[w]].set]]
    /\ UNCHANGED <<obj, ref, reader>>
\* copied_config: a new object over a copy of the session's settings.
CopiedConfig(n, v) == session[n].kind = "open" /\ Make(v, "config", session[n].config)

\* to_inner: the first character of each option, or the default for an empty one.
ToInner(set) == [s \in DOMAIN set |-> IF set[s] = <<>> THEN Default("csv")[s][1] ELSE set[s][1]]
\* register_csv and read_csv with options: the options alone count, other arguments
\* that differ from their defaults only raise a warning.
ReadCsv(v) ==
    /\ ref[v] # 0 /\ obj[ref[v]].kind = "csv"
    /\ reader' = [kind |-> "csv", given |-> obj[ref[v]].set, used |-> ToInner(obj[ref[v]].set),
                  changed |-> obj[ref[v]].changed]
    /\ UNCHANGED <<obj, ref, session>>
\* Without options, a new object is made from the arguments and is checked.
ReadCsvArguments(x) ==
    /\ Single(x)
    /\ LET set == [Default("csv") EXCEPT !["delimiter"] = x]
       IN  reader' = [kind |-> "csv", given |-> set, used |-> ToInner(set), changed |-> FALSE]
    /\ UNCHANGED <<obj, ref, session>>

Next == \/ \E v \in Vars : NewConfig(v) \/ NewRuntime(v) \/ NewSql(v) \/ NewCsv(v) \/ ReadCsv(v)
        \/ \E v, w \in Vars : WithConfig(v, w) \/ WithRuntime(v, w) \/ WithSql(v, w) \/ WithCsv(v, w)
        \/ \E n \in Sessions, v, w \in Vars : OpenSession(n, v, w)
        \/ \E n \in Sessions, v \in Vars : CopiedConfig(n, v)
        \/ \E x \in Strings : ReadCsvArguments(x)
Spec == Init /\ [][Next]_vars

-----------------------------------------------------------------------------
(* A reader over options that no setter was called on uses the characters  *)
(* it was given, whole: the check made when the options are built is enough *)
(* for every variable that shares them.                                    *)
CheckedCharacters ==
    reader.kind = "csv" /\ ~reader.changed =>
        \A s \in Settings("csv") : reader.given[s] = <<reader.used[s]>>
=============================================================================
