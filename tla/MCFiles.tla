------------------------------ MODULE MCFiles -------------------------------
(* Files with two files in the tray of one session and one in a library.   *)
EXTENDS Files, TLC

CONSTANTS tray1, tray2, lib, s1, d1, d2

\* More disturbances allow more behaviours, so that a set stands for all its subsets.
\* What disturbs an upload is looked at two at a time.  Of crashes and failing
\* database calls only TrayIsEmptied makes a promise.
MCEnvironments ==
  {{}, {"early", "miniofail"}, {"late", "early"}, {"late", "miniofail"},
   {"dbfail", "crash"}}

MCContext == [f \in FileIds |-> IF f = lib THEN Library ELSE s1]
=============================================================================
