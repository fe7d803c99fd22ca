--------------------------- MODULE AccountVersions ---------------------------
(***************************************************************************)
(* The accounts that responses and query results are made from.  Of an     *)
(* account a cache can only tell whether it has changed: it is a version.  *)
(***************************************************************************)
EXTENDS Integers

CONSTANTS Pubkeys,      \* accounts
          MaxVersion    \* bound: version of an account

ASSUME VersionAssumption == MaxVersion \in Nat

VARIABLE version        \* the accounts' current versions

VersionInit == version = [p \in Pubkeys |-> 0]

\* The accounts in P change.
ChangeAccounts(P) ==
    /\ \A p \in P : version[p] < MaxVersion
    /\ version' = [p \in Pubkeys |-> IF p \in P THEN version[p] + 1 ELSE version[p]]
=============================================================================
