---------------------------- MODULE UserFunctions ----------------------------
(***************************************************************************)
(* User-defined functions as Python makes, names, registers and looks them *)
(* up (datafusion/user_defined.py): scalar, aggregate, window and table    *)
(* functions, made by the makers (udf, udaf, udwf, udtf), as a function or *)
(* as a decorator, or by the constructors of their classes, from Python    *)
(* callables, from objects that export a native function and from others.  *)
(***************************************************************************)
EXTENDS Naturals, Sequences, FiniteSets, Functions

CONSTANTS Callables,              \* records of what user_defined.py asks of an object:
                                  \*   id, callable, ffi (exports a native function),
                                  \*   capsule (is one, a bare PyCapsule),
                                  \*   qual (<<>>: no __qualname__), cls (its class),
                                  \*   makes (what a call returns), made (the class of that)
          Explicit, Inner,        \* names the program and a callback give
          MaxHandles              \* model bound

FunctionsAssumption ==
    /\ MaxHandles \in Nat
    /\ \A c \in Callables : /\ {c.callable, c.ffi, c.capsule} \subseteq BOOLEAN
                            /\ Len(c.qual) \in 0 .. 1

Kinds == {"scalar", "aggregate", "window", "table"}
\* How a function is made: by a maker with the callable, with positional arguments as a
\* decorator, with keyword arguments as a decorator, or by the class itself.
Ways == {"function", "decorator", "keywords", "constructor"}
Given == {<<>>, <<Explicit>>}           \* the optional name argument
Places == {"caller", "global"}          \* the session queried, the process-wide one

VARIABLES handles,   \* objects the makers returned, in order
          registry,  \* the caller's session: kind |-> names with their function and
                     \* whether a maker made it
          tables,    \* session |-> has a callback registered its table there?
          last       \* the last call and how it ended
vars == <<handles, registry, tables, last>>

NoNames == <<>>                        \* a function with an empty domain
Bind(f, n, v) == [k \in DOMAIN f \cup {n} |-> IF k = n THEN v ELSE f[k]]
Done(op) == [op |-> op, err |-> ""]
Failed(op, err) == [op |-> op, err |-> err]
\* What a call returns: a handle, an error, or a decorator that waits for its function.
Handle(kind, name, c, inject) ==
    [kind |-> kind, form |-> "udf", name |-> name, fn |-> c.id, inject |-> inject,
     checked |-> TRUE]
Nothing(form, name) ==
    [kind |-> "none", form |-> form, name |-> name, fn |-> "", inject |-> FALSE,
     checked |-> FALSE]
Error(err) == Nothing("error", err)
Decorator == Nothing("decorator", "")

TypeOK ==
    /\ \A i \in DOMAIN handles : /\ handles[i].kind \in Kinds
                                 /\ handles[i].form \in {"udf", "wrapper"}
                                 /\ \E c \in Callables : handles[i].fn = c.id
    /\ DOMAIN registry = Kinds /\ tables \in [Places -> BOOLEAN]
    /\ Len(handles) <= MaxHandles
    /\ last.err \in {"", "TypeError", "IndexError", "AttributeError", "KeyError"}

Init ==
    /\ handles = <<>> /\ last = Done("start")
    /\ registry = [k \in Kinds |-> NoNames]
    /\ tables = [p \in Places |-> FALSE]
-----------------------------------------------------------------------------
(* What the makers return.                                                 *)
Qualname(c) == IF c.qual # <<>> THEN c.qual[1] ELSE c.cls
Name(given, default) == IF given # <<>> THEN given[1] ELSE default
\* The constructors: a native export brings its own name and types.
ScalarInit(name, c) == Handle("scalar", IF c.ffi THEN c.cls ELSE name, c, FALSE)
WindowInit(name, c) == Handle("window", IF c.ffi THEN c.cls ELSE name, c, FALSE)
\* typed: are the types and the volatility there?
AggregateInit(name, c, typed) ==
    IF c.ffi THEN Handle("aggregate", c.cls, c, FALSE)
    ELSE IF ~typed THEN Error("TypeError") ELSE Handle("aggregate", name, c, FALSE)
ScalarFromPycapsule(c) == ScalarInit(c.cls, c)
\* A bare capsule is taken past the constructor.
AggregateFromPycapsule(c) ==
    IF c.capsule THEN Handle("aggregate", c.cls, c, FALSE) ELSE AggregateInit(c.cls, c, FALSE)
WindowFromPycapsule(c) == WindowInit(c.cls, c)

ScalarFunction(c, given) ==
    IF ~c.callable THEN Error("TypeError")
    ELSE ScalarInit(Name(given, Qualname(c)), c)
\* The factory is called to see what it makes; the name is that of its class.
AggregateFunction(c, given) ==
    IF ~c.callable \/ c.makes # "Accumulator" THEN Error("TypeError")
    ELSE AggregateInit(Name(given, c.made), c, TRUE)
WindowFunction(c, given) ==
    IF ~c.callable \/ c.makes # "WindowEvaluator" THEN Error("TypeError")
    ELSE IF given = <<>> /\ c.qual = <<>> THEN Error("AttributeError")
    ELSE WindowInit(Name(given, Qualname(c)), c)
\* A name must be there, and the native constructor takes no None.
TableFunctionInit(c, given, inject) ==
    IF given = <<>> \/ (inject /\ c.ffi) THEN Error("TypeError")
    ELSE Handle("table", given[1], c, inject)
CreateTableUdf(c, given, inject) ==
    IF ~c.callable THEN Error("TypeError") ELSE TableFunctionInit(c, given, inject)

\* The dispatch of udf, udaf and udwf: args[0] is read before args is tested.  What is
\* neither callable nor native is taken for the first argument of a decorator: there is
\* room for it when no name was given.
Misread(way, given) ==
    IF way = "function" /\ given = <<>> THEN Decorator ELSE Error("TypeError")
Udf(way, c, given) ==
    IF way = "keywords" THEN Error("IndexError")
    ELSE IF c.ffi THEN ScalarFromPycapsule(c)
    ELSE IF c.callable THEN ScalarFunction(c, given) ELSE Misread(way, given)
Udaf(way, c, given) ==
    IF way = "keywords" THEN Error("IndexError")
    ELSE IF c.ffi \/ c.capsule THEN AggregateFromPycapsule(c)
    ELSE IF c.callable THEN AggregateFunction(c, given) ELSE Misread(way, given)
\* The window decorator goes to the maker, not back to the dispatch.
Udwf(way, c, given) ==
    IF way = "keywords" THEN Error("IndexError")
    ELSE IF way = "function" /\ c.ffi THEN WindowFromPycapsule(c)
    ELSE IF way = "function" /\ ~c.callable THEN Misread(way, given)
    ELSE WindowFunction(c, given)
Udtf(way, c, given, inject) ==
    IF way # "function" \/ c.callable THEN CreateTableUdf(c, given, inject)
    ELSE IF ~c.ffi THEN Misread(way, given)
    ELSE IF inject THEN Error("TypeError")
    ELSE IF given = <<>> THEN Error("IndexError")
    ELSE TableFunctionInit(c, given, FALSE)

\* Decorating gives a plain function around the handle, except for tables.
ScalarDecorator(h) == [h EXCEPT !.form = "wrapper"]
AggregateDecorator(h) == [h EXCEPT !.form = "wrapper"]
WindowDecorator(h) == [h EXCEPT !.form = "wrapper"]
TableDecorator(h) == h

Decorated(kind, h) ==
    IF h.form # "udf" THEN h
    ELSE CASE kind = "scalar"    -> ScalarDecorator(h)
           [] kind = "aggregate" -> AggregateDecorator(h)
           [] kind = "window"    -> WindowDecorator(h)
           [] OTHER              -> TableDecorator(h)
\* The classes ask for a name and look neither at what is called nor at what it makes.
Constructed(kind, c, given, inject) ==
    IF given = <<>> THEN Error("TypeError")
    ELSE LET h == CASE kind = "scalar"    -> ScalarInit(given[1], c)
                    [] kind = "aggregate" -> AggregateInit(given[1], c, TRUE)
                    [] kind = "window"    -> WindowInit(given[1], c)
                    [] OTHER              -> TableFunctionInit(c, given, inject)
         IN  [h EXCEPT !.checked = FALSE]
ByMaker(kind, way, c, given, inject) ==
    CASE kind = "scalar"    -> Udf(way, c, given)
      [] kind = "aggregate" -> Udaf(way, c, given)
      [] kind = "window"    -> Udwf(way, c, given)
      [] OTHER              -> Udtf(way, c, given, inject)
Made(kind, way, c, given, inject) ==
    CASE way = "constructor" -> Constructed(kind, c, given, inject)
      [] way = "function"    -> ByMaker(kind, way, c, given, inject)
      [] OTHER               -> Decorated(kind, ByMaker(kind, way, c, given, inject))

Make(kind, way, c, given, inject) ==
    LET h == Made(kind, way, c, given, inject) IN
    /\ Len(handles) < MaxHandles /\ (inject => kind = "table")
    /\ handles' = IF h.kind = "none" THEN handles ELSE Append(handles, h)
    /\ last' = IF h.form = "error" THEN Failed(way, h.name) ELSE Done(way)
    /\ UNCHANGED <<registry, tables>>
-----------------------------------------------------------------------------
(* Registering and looking up, and what a table function registers.        *)
\* register_udf reads ._udf of what it is given: a wrapper has none.
Register(i) ==
    LET h == handles[i] IN
    /\ registry' = IF h.form = "wrapper" THEN registry
                   ELSE [registry EXCEPT ![h.kind] = Bind(@, h.name, [fn |-> h.fn, checked |-> h.checked])]
    /\ last' = IF h.form = "wrapper" THEN Failed("register", "AttributeError")
               ELSE Done("register")
    /\ UNCHANGED <<handles, tables>>
Deregister(kind, n) ==
    /\ registry' = [registry EXCEPT ![kind] = Restrict(@, DOMAIN @ \ {n})]
    /\ last' = Done("deregister")
    /\ UNCHANGED <<handles, tables>>

\* _from_internal: a handle on the function the name has now.
FromInternal(kind, n) ==
    LET names == registry[kind] IN
    /\ kind # "table" /\ Len(handles) < MaxHandles
    /\ handles' = IF n \notin DOMAIN names THEN handles
                  ELSE Append(handles, [kind |-> kind, form |-> "udf", name |-> n, fn |-> names[n].fn,
                                        inject |-> FALSE, checked |-> names[n].checked])
    /\ last' = IF n \in DOMAIN names THEN Done("look up") ELSE Failed("look up", "KeyError")
    /\ UNCHANGED <<registry, tables>>

\* A table function is called by a query of the caller's session, or directly,
\* and then with the process-wide session.  Its callback registers a table and
\* the scalar function Inner through the session it is given, a context over a
\* copy of the state of the call.
SessionOf(direct) == IF direct THEN "global" ELSE "caller"
WrapSessionKwarg(direct) == [tables EXCEPT ![SessionOf(direct)] = TRUE]
\* A copied state shares the catalogs and has its own maps of functions.
CopiedFunctions(h) == registry
TableCall(i, direct) ==
    LET h == handles[i] IN
    /\ h.kind = "table" /\ h.inject
    /\ direct \/ (h.name \in DOMAIN registry["table"] /\ registry["table"][h.name].fn = h.fn)
    /\ tables' = WrapSessionKwarg(direct) /\ registry' = CopiedFunctions(h)
    /\ last' = Done(IF direct THEN "direct" ELSE "query")
    /\ UNCHANGED handles

AllNames == {Explicit} \cup {c.cls : c \in Callables} \cup {c.made : c \in Callables}
            \cup {Qualname(c) : c \in Callables}
Next ==
    \/ \E kind \in Kinds, way \in Ways, c \in Callables, given \in Given, inject \in BOOLEAN :
           Make(kind, way, c, given, inject)
    \/ \E i \in DOMAIN handles : Register(i)
    \/ \E kind \in Kinds, n \in AllNames :
           \/ n \in DOMAIN registry[kind] /\ Deregister(kind, n)
           \/ FromInternal(kind, n)
    \/ \E i \in DOMAIN handles, direct \in BOOLEAN : TableCall(i, direct)

Spec == Init /\ [][Next]_vars
-----------------------------------------------------------------------------
(* Properties.                                                             *)
\* What a query asks of the object behind a function.
CanRun(kind, c) ==
    \/ c.ffi \/ (kind = "aggregate" /\ c.capsule)
    \/ /\ c.callable
       /\ kind = "aggregate" => c.makes = "Accumulator"
       /\ kind = "window" => c.makes = "WindowEvaluator"
\* A registered function that was made by udf, udaf, udwf or udtf, looked up and registered
\* again or not, can be instantiated by a query.  One made by the class itself, which checks
\* nothing, may fail there.
RegisteredCanRun ==
    \A kind \in Kinds : \A n \in DOMAIN registry[kind] : registry[kind][n].checked =>
        \E c \in Callables : c.id = registry[kind][n].fn /\ CanRun(kind, c)

\* A table registered by a table function's callback through the session it is
\* given is a table of the session of the call, and of no other.
CallbackTablesPropagate ==
    \A p \in Places : tables'[p] = (tables[p] \/ (last'.op = "query" /\ p = "caller")
                                             \/ (last'.op = "direct" /\ p = "global"))

=============================================================================
