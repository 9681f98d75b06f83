------------------------------ MODULE MCKeWait ------------------------------
(***************************************************************************)
(* Small instances of KeWait for TLC.                                      *)
(***************************************************************************)
EXTENDS KeWait, TLC

CONSTANTS t1, t2, t3, o1, o2, m1, m2

For(type, objs, timeout) ==
  [type |-> type, objects |-> objs, timeout |-> timeout,
   mode |-> "kernel", alertable |-> FALSE]
Alertable(w) == [w EXCEPT !.alertable = TRUE]
User(w)      == [w EXCEPT !.mode = "user"]

OneMutex  == For("any", <<m1>>, "infinite")
BothTaken == For("all", <<m2, m1>>, "infinite")
Nap       == For("sleep", <<>>, "finite")

\* Three threads at three kinds of object.
KindsSignals == (o1 :> "synchronization") @@ (o2 :> "semaphore") @@ (m1 :> "mutex")
WaitsSignals == {For("any", <<o1, m1>>, "infinite"), For("all", <<m1, o2>>, "finite"),
                 For("all", <<o1, o2>>, "infinite"), For("any", <<o2>>, "finite"), OneMutex}

\* Waits of all modes while alerts come in, and mutexes that get abandoned.
KindsAlerts == (o1 :> "notification") @@ (m1 :> "mutex") @@ (m2 :> "mutex")
WaitsAlerts == {User(Alertable(For("any", <<o1, m1>>, "infinite"))), User(OneMutex),
                Alertable(BothTaken), User(Alertable(Nap)), For("sleep", <<>>, "none"),
                For("any", <<m2>>, "none")}

\* One mutex, asked for with and without a timeout.
KindsMutex   == m1 :> "mutex"
WaitsPassing == {OneMutex, For("any", <<m1>>, "finite"), For("any", <<m1>>, "none")}

KindsMutexes == (m1 :> "mutex") @@ (m2 :> "mutex")
WaitsPolled  == {For("all", <<m1, m2>>, "none")}

KindsOne  == o1 :> "synchronization"
WaitsUser == {User(Alertable(Nap))}

Once  == 0
Twice == -1
=============================================================================
