---------------------------- MODULE MCPythonApi -----------------------------
(***************************************************************************)
(* PythonApi with two handles, threads, variables or publishers, a strict  *)
(* and the process-wide session, two Python functions of one name and a    *)
(* native one, three publications and three builds.                        *)
(***************************************************************************)
EXTENDS PythonApi, TLC

CONSTANTS a1, a2, b1, b2, g, s, ffi, none

\* Objects a program makes functions from: a plain function, an accumulator factory,
\* a window factory without __qualname__, a native export, a bare capsule and an object
\* that is none of these.
Object(id, callable, qual, cls, makes, product) ==
    [id |-> id, callable |-> callable, ffi |-> id = "native", capsule |-> id = "capsule",
     qual |-> qual, cls |-> cls, makes |-> makes, made |-> product]
Objects ==
    { Object("double", TRUE, <<"double">>, "function", "value", "array"),
      Object("biased", TRUE, <<"biased">>, "function", "Accumulator", "summarize"),
      Object("partial", TRUE, <<>>, "partial", "WindowEvaluator", "numbers"),
      Object("native", FALSE, <<>>, "native", "value", "value"),
      Object("capsule", FALSE, <<>>, "PyCapsule", "value", "value"),
      Object("text", FALSE, <<>>, "str", "value", "value") }

ThreeItems == <<"x", "y", "z">>

\* Handles, threads, variables and publishers are interchangeable.
Symmetry == Permutations({a1, a2})
=============================================================================
