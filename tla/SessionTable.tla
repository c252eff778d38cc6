---------------------------- MODULE SessionTable ----------------------------
(***************************************************************************)
(* What the interface of pkg/up/dataplane.go stands for, as a user plane's *)
(* handlers use it: a table of sessions, in which an establishment puts    *)
(* all the rules of one request, in one step, under the lowest free SEID,  *)
(* from which a deletion takes them, and which a crash empties.            *)
(***************************************************************************)
EXTENDS Naturals, GoMap

CONSTANTS
  SEID,      \* the SEIDs a user plane may allocate
  RuleSets   \* what there may be installed for a session

VARIABLE table  \* SEID -> what is installed for the session

Init == table = EmptyMap

Establish(s, rules) ==
  /\ s \notin DOMAIN table
  /\ \A t \in 1 .. s - 1 : t \in DOMAIN table
  /\ table' = Assign(table, s, rules)

Delete(s) ==
  /\ s \in DOMAIN table
  /\ table' = Without(table, s)

Crash == table' = EmptyMap

Next ==
  \/ \E s \in SEID : Delete(s) \/ \E rules \in RuleSets : Establish(s, rules)
  \/ Crash

Spec == Init /\ [][Next]_table
=============================================================================
