---------------------------- MODULE MCIOPacket ----------------------------
(***************************************************************************)
(* Two requests of a thread, and the page-ins of its APCs.                 *)
(***************************************************************************)
EXTENDS IOPacket

Synchronous(t)  == [how |-> "sync", target |-> t, routine |-> FALSE]
Asynchronous(t) == [how |-> "async", target |-> t, routine |-> FALSE]

MCRequests ==
  {Synchronous(t) : t \in {"file", "volume", "duplex"}}
    \cup {Asynchronous(t) : t \in {"file", "duplex"}}
    \cup {[Asynchronous("file") EXCEPT !.routine = TRUE]}
FATWrites == {Synchronous("fats")}
=============================================================================
