------------------------------- MODULE MCSpool -------------------------------
(* Values for the constants of Spool, for TLC. *)
EXTENDS SpoolInductive

Registrations == {"REGISTRATION"}
Hosts == {"h1", "h2"}

Events(fault, restart, rst, outage) ==
    [e \in Event |-> CASE e = "fault" -> fault [] e = "restart" -> restart
                       [] e = "reset" -> rst [] e = "outage" -> outage]

Rough == Events(2, 1, 1, 1)
Offline == Events(0, 0, 0, 1)
=============================================================================
