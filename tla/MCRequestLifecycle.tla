-------------------------- MODULE MCRequestLifecycle --------------------------
(***************************************************************************)
(* Small instances of RequestLifecycle for TLC.                            *)
(***************************************************************************)
EXTENDS RequestLifecycle

CONSTANTS r1, c1

Profile(k, s, g, m, n) ==
    [kind |-> k, storage |-> s, get |-> g, more |-> m, mws |-> n]

EveryProfile ==
    {Profile(k, s, g, m, n) : k \in Kinds, s \in Storages, g \in BOOLEAN,
                              m \in BOOLEAN, n \in 0..2}

\* One request of every storage and kind, with up to two middlewares.  A query
\* string has a run of its own, lifecycle_query.
OneRequest == {r1}
OneConn == [r \in {r1} |-> c1]
PlainProfiles == {p \in EveryProfile : p.kind # "query"}

QueryProfiles == {Profile("query", "memory", TRUE, FALSE, 1)}
FileProfiles == {Profile("regular", "file", FALSE, TRUE, 1)}
GetProfiles == {Profile("regular", "memory", TRUE, TRUE, 1)}
===============================================================================
