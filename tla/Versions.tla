------------------------------ MODULE Versions ------------------------------
(***************************************************************************)
(* Optimistic version preconditions, shared by every command of the        *)
(* backend.  A client sends back the version it loaded; the server refuses *)
(* a command that carries no version, or another one than the current one. *)
(* Versions are 32-bit columns: MaxVersion stands for 2147483647.          *)
(***************************************************************************)
EXTENDS Naturals

CONSTANTS
    MaxVersion,   \* the largest value a version column can hold
    NoVersion     \* a command sent without a precondition (null)

ASSUME MaxVersionAssumption == MaxVersion \in Nat
ASSUME NoVersionAssumption == NoVersion \notin Nat

Version == 0 .. MaxVersion

\* What a DTO lets through: null or a non-negative 32-bit integer.
Precondition == Version \union {NoVersion}

\* Mutation: any stated version passes, as after a dropped comparison.
VersionStated(actual, expected) == expected # NoVersion

\* requireVersion returns normally.
VersionMatches(actual, expected) ==
    /\ expected # NoVersion
    /\ actual = expected

\* requireVersionCapacity returns normally.
HasCapacity(version) == version < MaxVersion
=============================================================================
