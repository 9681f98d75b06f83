----------------------------- MODULE MCExRwLock -----------------------------
(***************************************************************************)
(* Three threads: one that demotes, one that overtakes waiting writers and *)
(* polls, and one that is killed.                                          *)
(***************************************************************************)
EXTENDS ExRwLock

CONSTANTS a, b, c

Plain(o)  == [op |-> o, nowait |-> FALSE, canstarve |-> FALSE, alertable |-> FALSE]
Alerted(o) == [Plain(o) EXCEPT !.alertable = TRUE]

MCCalls == [t \in Thread |->
  CASE t = a -> {Plain("shared"), Plain("exclusive"), Plain("demote")}
    [] t = b -> {Plain("shared"), [Plain("shared") EXCEPT !.canstarve = TRUE],
                 [Plain("shared") EXCEPT !.nowait = TRUE]}
    [] t = c -> {Alerted("shared"), Alerted("exclusive")}]

\* Only one of them holds the lock twice.
MCMaxDepth == [t \in Thread |-> IF t = a THEN 2 ELSE 1]
=============================================================================
