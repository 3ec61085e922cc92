--------------------------- MODULE PrefillPolicy ---------------------------
(***************************************************************************)
(* The two admission policies of docker/glm_decode_first_scheduler.py, of  *)
(* which the launcher picks one for the life of an engine. Under "static"  *)
(* every call to schedule() follows the cadence and no profile is read;    *)
(* under "adaptive" every call begins by looking at the profile file. What *)
(* an adaptive call does with its profile is in AdaptiveScheduler.         *)
(***************************************************************************)
EXTENDS StaticScheduler, ProfileReload

VARIABLE policy           \* PREFILL_ADMISSION_POLICY, by way of --scheduler-cls

policyVars == <<policy, vars, reloadVars>>

PolicyInit ==
    /\ policy \in {"static", "adaptive"}
    /\ Init
    /\ ReloadInit

StaticStep(A) == policy = "static" /\ A /\ UNCHANGED <<policy, reloadVars>>
AdaptiveStep(A) == policy = "adaptive" /\ A /\ UNCHANGED <<policy, vars>>

PolicyNext == StaticStep(Next) \/ AdaptiveStep(ReloadNext)

\* The engine keeps calling schedule(), a call ends, and time passes. A parent
\* that raises at every call would keep step where it is for ever: Return is
\* strongly fair.
Fairness ==
    /\ WF_policyVars(StaticStep(EnterSome)) /\ SF_policyVars(StaticStep(Return))
    /\ WF_policyVars(AdaptiveStep(PeriodElapses))
    /\ WF_policyVars(AdaptiveStep(StatFile)) /\ WF_policyVars(AdaptiveStep(ReadFile))

PolicySpec == PolicyInit /\ [][PolicyNext]_policyVars /\ Fairness
-----------------------------------------------------------------------------
\* The cadence never keeps a waiting prefill out for good: an open step comes
\* again and again while the engine runs. (lines 186-189)
OpenAgainAndAgain == policy = "static" => []<>(InCall /\ ~Protected)

\* Once the operator leaves a good file alone, it is the one in use from then
\* on, provided every edit gave the file a new time. (lines 113-145)
GoodFileIsUsed ==
    policy = "adaptive" /\ <>[](Good(file) /\ ~restored) /\ <>[][file' = file]_reloadVars
        => <>[](file # NoFile => cache = Parsed(file))
=============================================================================
