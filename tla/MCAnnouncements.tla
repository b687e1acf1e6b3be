--------------------------- MODULE MCAnnouncements ---------------------------
(***************************************************************************)
(* Instances of Announcements for TLC: the event loop and the retention    *)
(* sweeper in one process, or in two.                                      *)
(***************************************************************************)
EXTENDS Announcements

CONSTANTS sweeper, one, two

OneProcess == [t \in Threads |-> one]
TwoProcesses == [t \in Threads |-> IF t = loop THEN one ELSE two]
==============================================================================
