----------------------------- MODULE MCServices -----------------------------
(***************************************************************************)
(* Three parts around the sessions, checked side by side in one run: the    *)
(* daemon's push worker, the relay's push services and the start of the     *)
(* daemon.  They share no state, so an initial state picks one part, and    *)
(* the others keep their initial state.                                     *)
(* In the push part, one phone changes its token and another has just one.  *)
(***************************************************************************)
EXTENDS PushDispatcher, PushProviders, DaemonStartup, TLC

CONSTANTS phone, tablet, old, new, other

TwoPhones == (phone :> {old, new}) @@ (tablet :> {other})

VARIABLE part    \* the part that runs

all == <<pushVars, providersVars, startupVars, part>>

ServicesInit ==
    /\ part \in {"push", "providers", "startup"}
    /\ PushInit /\ ProvidersInit /\ StartupInit
    /\ part # "providers" => platform = "none"

Push == part = "push" /\ PushNext /\ UNCHANGED <<providersVars, startupVars, part>>
Providers == part = "providers" /\ ProvidersNext /\ UNCHANGED <<pushVars, startupVars, part>>
Startup == part = "startup" /\ StartupNext /\ UNCHANGED <<pushVars, providersVars, part>>

ServicesNext == Push \/ Providers \/ Startup

\* The fairness of each module's specification, of the part that runs.
ServicesFairness ==
    /\ WF_pushVars(part = "push" /\ Work)
    /\ \A s \in Sends : WF_providersVars(part = "providers" /\ SendStep(s))
    /\ \A p \in Procs : WF_startupVars(part = "startup" /\ ProcNext(p))
    /\ \A c \in Callers : WF_startupVars(part = "startup" /\ CallerNext(c))

ServicesSpec == ServicesInit /\ [][ServicesNext]_all /\ ServicesFairness

\* A notification makes its way: the worker takes up every event and tries every
\* token, and the relay ends every delivery (push.rs, fcm.rs, apns.rs).
DeliveriesEnd ==
    /\ EveryTokenIsTried
    /\ QueueDrains
    /\ SendsEnd
=============================================================================
