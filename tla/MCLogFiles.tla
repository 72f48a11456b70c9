----------------------------- MODULE MCLogFiles -----------------------------
(* LogFiles for TLC: the name y is x, a dash and more; z has nothing to do    *)
(* with them.                                                              *)
EXTENDS LogFiles

CONSTANTS x, y, z, a, b

XBeginsY == {<<x, y>>}

\* Two apps: one's retention takes the files of the other for its own, or does
\* not; or there is one app only, which logs more, and any call may fail; or they
\* have the same name.
Different == {(a :> x) @@ (b :> y), (a :> x) @@ (b :> z), (a :> z) @@ (b :> x)}
Same == {(a :> x) @@ (b :> x)}
Mostly ==
    [n \in Naming |-> IF n[a] = z THEN (a :> 7) @@ (b :> 0) ELSE (a :> 3) @@ (b :> 1)]
Anything ==
    [n \in Naming |-> CASE n[a] = z -> {"create", "temp", "rename", "remove"}
                       [] n[b] = y -> {"create", "rename", "remove"}
                       [] OTHER    -> {"rename"}]
Creation == [n \in Naming |-> {"create", "temp"}]
=============================================================================
