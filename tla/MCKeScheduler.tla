--------------------------- MODULE MCKeScheduler ---------------------------
(***************************************************************************)
(* A small processor for TLC: an idle thread and a few others, time-sharing *)
(* priorities 1..2 and real-time priority 3.                               *)
(***************************************************************************)
EXTENDS KeScheduler

CONSTANTS idle, t1, t2, t3, p1

MCThreads2 == {idle, t1, t2}
MCThreads3 == {idle, t1, t2, t3}
MCProcess  == [t \in Thread |-> p1]
MCBase     == [t \in Thread |-> IF t = t1 THEN 2 ELSE 1]
MCFirst    == {t2}
MCKinds    == {<<"USER", "WAITING">>}
=============================================================================
