----------------------------- MODULE DiskQueue -----------------------------
(***************************************************************************)
(* What the AHCI driver promises to the packets that are sent to its       *)
(* disks: every drive serves one packet at a time, block after block, and  *)
(* when one is finished it goes on with a waiting packet that starts no    *)
(* later on the medium than any other.                                     *)
(***************************************************************************)
EXTENDS Naturals

CONSTANTS Packet, Drive, None

VARIABLES
  state,   \* [Packet -> {"new", "waiting", "served", "ended"}]
  drive,   \* [Packet -> Drive \cup {None}]
  start,   \* [Packet -> Nat], where on the medium the packet begins
  size,    \* [Packet -> Nat], how many blocks it has
  moved    \* [Packet -> Nat], how many of them have been transferred

vars == <<state, drive, start, size, moved>>

Init ==
  /\ state = [r \in Packet |-> "new"]
  /\ drive = [r \in Packet |-> None]
  /\ start = [r \in Packet |-> 0]
  /\ size  = [r \in Packet |-> 0]
  /\ moved = [r \in Packet |-> 0]

InState(s, d) == {r \in Packet : state[r] = s /\ drive[r] = d}

\* A packet that is not acceptable ends at once.
Refuse(r) ==
  /\ state[r] = "new"
  /\ state' = [state EXCEPT ![r] = "ended"]
  /\ UNCHANGED <<drive, start, size, moved>>

\* A packet is served when its drive is idle, and waits otherwise.
Accept(r) ==
  /\ state[r] = "new"
  /\ drive'[r] \in Drive /\ start'[r] \in Nat /\ size'[r] \in Nat \ {0}
  /\ state' = [state EXCEPT ![r] = IF InState("served", drive'[r]) = {} THEN "served" ELSE "waiting"]
  /\ drive' = [drive EXCEPT ![r] = drive'[r]]
  /\ start' = [start EXCEPT ![r] = start'[r]]
  /\ size'  = [size EXCEPT ![r] = size'[r]]
  /\ UNCHANGED moved

Move(r) ==
  /\ state[r] = "served"
  /\ moved[r] < size[r]
  /\ moved' = [moved EXCEPT ![r] = @ + 1]
  /\ UNCHANGED <<state, drive, start, size>>

\* The elevator: nobody who waits begins before the packet that is next.
Finish(r) ==
  LET rest == InState("waiting", drive[r])
  IN /\ state[r] = "served"
     /\ moved[r] = size[r]
     /\ IF rest = {}
        THEN state' = [state EXCEPT ![r] = "ended"]
        ELSE \E n \in rest :
               /\ \A q \in rest : start[n] <= start[q]
               /\ state' = [state EXCEPT ![r] = "ended", ![n] = "served"]
     /\ UNCHANGED <<drive, start, size, moved>>

Next == \E r \in Packet : Refuse(r) \/ Accept(r) \/ Move(r) \/ Finish(r)

Spec == Init /\ [][Next]_vars
=============================================================================
