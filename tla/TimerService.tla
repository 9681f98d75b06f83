---------------------------- MODULE TimerService ----------------------------
(***************************************************************************)
(* What the kernel's timers promise to those who start them: a timer asked *)
(* for some ticks ahead expires at most once, not before its tick, and not *)
(* at all once it was cancelled.  KeTimer implements it.                   *)
(***************************************************************************)
EXTENDS Naturals

CONSTANTS
  Timer,
  Client,   \* the threads that start timers
  Delay,    \* the numbers of ticks they ask for, positive
  Idle      \* is what a timer that is not running, or a request not made, is

VARIABLES
  ticks,    \* the time
  wanted,   \* the timer a client is starting and the tick it is to expire at
  armed,    \* the tick at which each running timer is to expire
  signaled  \* the timers that have expired since they were last reset

vars == <<ticks, wanted, armed, signaled>>

Init ==
  /\ ticks = 0
  /\ wanted = [c \in Client |-> Idle]
  /\ armed = [t \in Timer |-> Idle]
  /\ signaled = [t \in Timer |-> FALSE]

Tick ==
  /\ ticks' = ticks + 1
  /\ UNCHANGED <<wanted, armed, signaled>>

\* The call is made: the time counts from now.
Ask(c, t, n) ==
  /\ wanted[c] = Idle
  /\ wanted' = [wanted EXCEPT ![c] = [timer |-> t, due |-> ticks + n]]
  /\ UNCHANGED <<ticks, armed, signaled>>

\* The timer starts, unless it is running already.
Start(c) ==
  /\ wanted[c] # Idle
  /\ LET t == wanted[c].timer
     IN  armed' = IF armed[t] = Idle THEN [armed EXCEPT ![t] = wanted[c].due]
                  ELSE armed
  /\ wanted' = [wanted EXCEPT ![c] = Idle]
  /\ UNCHANGED <<ticks, signaled>>

Expire(t) ==
  /\ armed[t] # Idle
  /\ armed[t] <= ticks
  /\ armed' = [armed EXCEPT ![t] = Idle]
  /\ signaled' = [signaled EXCEPT ![t] = TRUE]
  /\ UNCHANGED <<ticks, wanted>>

Cancel(t) ==
  /\ armed[t] # Idle
  /\ armed' = [armed EXCEPT ![t] = Idle]
  /\ UNCHANGED <<ticks, wanted, signaled>>

Reset(t) ==
  /\ signaled' = [signaled EXCEPT ![t] = FALSE]
  /\ UNCHANGED <<ticks, wanted, armed>>

Next ==
  \/ Tick
  \/ \E c \in Client : \/ \E t \in Timer, n \in Delay : Ask(c, t, n)
                       \/ Start(c)
  \/ \E t \in Timer : Expire(t) \/ Cancel(t) \/ Reset(t)

Spec == Init /\ [][Next]_vars
=============================================================================
