-------------------------- MODULE MCServiceRuntime --------------------------
(***************************************************************************)
(* ServiceRuntime with one slot and two queue places for four queries,     *)
(* three pages for two readers, three calls on two worker threads, and     *)
(* names that are hard to route.                                           *)
(***************************************************************************)
EXTENDS ServiceRuntime

\* Two pages of one unit and one of two.
PageBytes == [a |-> 1, b |-> 1, wide |-> 2]

\* A build, a status call and a maintenance run: reservation, roots and publication;
\* a read; a collection.
Shared(awaits) == [mode |-> "shared", awaits |-> awaits]
Exclusive(awaits) == [mode |-> "exclusive", awaits |-> awaits]
CallSections == [build    |-> <<Shared(TRUE), Shared(FALSE), Exclusive(TRUE)>>,
                 status   |-> <<Shared(TRUE)>>,
                 maintain |-> <<Exclusive(TRUE)>>]

\* Names with slashes, delimiters, percent escapes and the words of the routes, as
\* sequences of characters <<escapes, character>>.
Chars(string) == [k \in DOMAIN string |-> <<0, string[k]>>]
Escape == << <<1, "a">> >>
TableNames ==
    { <<Chars(<<"a">>)>>, <<Chars(<<"a", "$", "b">>)>>, <<Chars(<<"a">>), Chars(<<"b">>)>>, <<Escape>>,
      <<Chars(<<"index">>)>>, <<Chars(<<"a", "/", "index", "/", "b">>)>>,
      <<Chars(<<"a", "/", "register">>)>>, <<Chars(<<"a">>), Chars(<<"b", "/", "b">>)>>,
      <<Chars(<<"$", "~", "!", "^", "|">>)>> }
IndexNames ==
    { Chars(<<"a">>), Chars(<<"b", "/", "a">>), Chars(<<"list">>), Escape,
      Chars(<<"a", "/", "index", "/", "b">>) }
=============================================================================
