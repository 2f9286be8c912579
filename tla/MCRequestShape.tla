--------------------------- MODULE MCRequestShape ---------------------------
(***************************************************************************)
(* An instance of RequestShape: two models, a cap of two, every field with *)
(* the values its readers tell apart, three of them in every order.        *)
(***************************************************************************)
EXTENDS RequestShape

CONSTANTS A, B

Key(name, exact) == [name |-> name, exact |-> exact]

Having(key, values) == [key : {key}, value : values]

MCFields ==
    Having(Key("model", TRUE), {A, B, Null, Wrong, Broken})
    \cup Having(Key("model", FALSE), {B})
    \cup Having(Key("max_tokens", TRUE), {0, 1, 2, 3, Null, Broken, Cut})
    \cup Having(Key("max_tokens", FALSE), {1, 3, Null})
    \cup Having(Key("max_completion_tokens", TRUE), {3})
    \cup Having(Key("max_completion_tokens", FALSE), {3})
    \cup Having(Key("n", TRUE), {1, 2, Broken})
    \cup Having(Key("n", FALSE), {2})
    \cup Having(Key("best_of", TRUE), {2})
    \cup Having(Key("other", TRUE), {Broken, Cut})
    \cup Having(Undecodable, {Wrong})
=============================================================================
