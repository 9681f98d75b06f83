--------------------------- MODULE ReadersWriter ---------------------------
(***************************************************************************)
(* What an executive reader-writer lock promises to the threads that       *)
(* acquire it: a thread holds it shared with other readers or exclusively  *)
(* and alone, any number of times over, and may give up exclusivity        *)
(* without giving up the lock.                                             *)
(***************************************************************************)
EXTENDS Naturals

CONSTANT Thread

VARIABLES
  mode,   \* [Thread -> {"none", "shared", "exclusive"}]
  depth   \* [Thread -> Nat], how many releases the thread owes

vars == <<mode, depth>>

Init ==
  /\ mode = [t \in Thread |-> "none"]
  /\ depth = [t \in Thread |-> 0]

Take(t, m) ==
  /\ mode[t] = "none"
  /\ \A u \in Thread : mode[u] \in IF m = "exclusive" THEN {"none"} ELSE {"none", "shared"}
  /\ mode' = [mode EXCEPT ![t] = m]
  /\ depth' = [depth EXCEPT ![t] = 1]

TakeAgain(t) ==
  /\ mode[t] # "none"
  /\ depth' = [depth EXCEPT ![t] = @ + 1]
  /\ UNCHANGED mode

Drop(t) ==
  /\ mode[t] # "none"
  /\ depth' = [depth EXCEPT ![t] = @ - 1]
  /\ mode' = IF depth[t] = 1 THEN [mode EXCEPT ![t] = "none"] ELSE mode

Demote(t) ==
  /\ mode[t] = "exclusive"
  /\ mode' = [mode EXCEPT ![t] = "shared"]
  /\ UNCHANGED depth

Next == \E t \in Thread : \/ Take(t, "shared") \/ Take(t, "exclusive")
                          \/ TakeAgain(t) \/ Drop(t) \/ Demote(t)

Spec == Init /\ [][Next]_vars
=============================================================================
