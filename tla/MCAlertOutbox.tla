---------------------------- MODULE MCAlertOutbox ----------------------------
(***************************************************************************)
(* Small instances of AlertOutbox: two runs of one task, a list of one or  *)
(* two recipients, mail that is switched on and off.                       *)
(***************************************************************************)
EXTENDS AlertOutbox, TLC

CONSTANTS a, b, p, q, task

OneTask == [r \in Runs |-> task]

\* Switched off, the settings keep their recipients.
OffFor(list) == [enabled |-> FALSE, recipients |-> list, hours |-> 0]
OnFor(list, hours) == [enabled |-> TRUE, recipients |-> list, hours |-> hours]

TwoPlaces == {OffFor(<<q>>), OnFor(<<p, q>>, 1)}
OnePlace == {OffFor(<<p>>), OnFor(<<p>>, 1)}
NoWindow == {OnFor(<<p>>, 0)}

=============================================================================
