----------------------------- MODULE Entitlement -----------------------------
(***************************************************************************)
(* What the subscription code promises a store, without requests: time is  *)
(* added to what is left, a payment counts once, suspending closes the     *)
(* store and reinstating opens it for a trial.  Code: the comments and     *)
(* docstrings of routers/subscription.py and routers/platform.py.          *)
(***************************************************************************)
EXTENDS Integers

CONSTANTS Store, Payment, Trial, Month, Months

VARIABLES
    clock,
    access,     \* "absent", "trialing", "active" or "cancelled"
    trial,      \* the end of the trial
    until,      \* the end of the paid time
    counted     \* payments that were counted

vars == <<clock, access, trial, until, counted>>

Init ==
    /\ clock = 0
    /\ access = [st \in Store |-> "absent"]
    /\ trial = [st \in Store |-> 0]
    /\ until = [st \in Store |-> 0]
    /\ counted = {}

\* A store opens with a trial: at registration and when it is reinstated.  The
\* trial runs from when its request looked at the clock, as an extension does.
Open(st) ==
    /\ access' = [access EXCEPT ![st] = "trialing"]
    /\ \E t \in 0..clock : trial' = [trial EXCEPT ![st] = t + Trial]
    /\ UNCHANGED <<clock, until, counted>>

\* If renewing, extend from current expiry; otherwise start now.
Extend(st, m) ==
    /\ access[st] # "absent"
    /\ access' = [access EXCEPT ![st] = "active"]
    /\ \E t \in 0..clock :
          until' = [until EXCEPT ![st] = (IF @ > t THEN @ ELSE t) + Month * m]
    /\ UNCHANGED <<clock, trial>>

Count(st, p, m) == p \notin counted /\ counted' = counted \cup {p} /\ Extend(st, m)

Give(st, m) == UNCHANGED counted /\ Extend(st, m)

Close(st) ==
    /\ access' = [access EXCEPT ![st] = "cancelled"]
    /\ UNCHANGED <<clock, trial, until, counted>>

Pass == clock' = clock + 1 /\ UNCHANGED <<access, trial, until, counted>>

Next ==
    \/ \E st \in Store :
        \/ Open(st)
        \/ Close(st)
        \/ \E m \in Months : Give(st, m) \/ \E p \in Payment : Count(st, p, m)
    \/ Pass

Spec == Init /\ [][Next]_vars
=============================================================================
