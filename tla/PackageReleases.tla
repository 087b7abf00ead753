-------------------------- MODULE PackageReleases --------------------------
(***************************************************************************)
(* What the package build promises to whoever downloads: a history of      *)
(* releases.  Version 1 is released first and every later version after    *)
(* the one before it; a release names the build its files came from, and   *)
(* is never withdrawn, replaced or made twice.                             *)
(***************************************************************************)
EXTENDS Naturals

CONSTANTS
    Builders,       \* who can build a version
    NoOne,          \* the version is not released
    MaxVersion

Version == 1..MaxVersion

VARIABLE release    \* for each version, whose files it consists of

Init == release = [v \in Version |-> NoOne]

Release(v, b) ==
    /\ release[v] = NoOne
    /\ \A u \in 1..(v - 1) : release[u] # NoOne
    /\ release' = [release EXCEPT ![v] = b]

Next == \E v \in Version, b \in Builders : Release(v, b)

Spec == Init /\ [][Next]_release
=============================================================================
