--------------------------- MODULE EngineLifecycle --------------------------
(***************************************************************************)
(* Turning the LAN engine of one device on and off: the preference of the  *)
(* page, the flag and the engine slot of the shell (P2pState), and the     *)
(* engines themselves, which start in the background.                      *)
(*                                                                         *)
(* A call of p2p_set_enabled and the engine it starts are one job.  Each   *)
(* lock of the shell is a step.                                            *)
(***************************************************************************)
EXTENDS Integers

CONSTANTS
    MaxJobs,     \* bound: calls of p2p_set_enabled
    MaxTroubles  \* bound: restarts, reloads, engines that fail to start, failed writes

ASSUME LifecycleAssumption == {MaxJobs, MaxTroubles} \subseteq Nat

VARIABLES
    pref,  \* the page's preference, in localStorage
    flag,  \* P2pState::enabled
    slot,  \* P2pState::engine: the job of the published engine, or 0
    job,   \* job[e]: how far job e is
    used   \* how much of the bound on troubles is spent

lifecycle == <<pref, flag, slot, job, used>>

Job == 1..MaxJobs

\* A call is none, then spawn or take; its engine is starting, up (its loops
\* run), checked, published, closing; and over, or failed to start.
Phase == {"none", "spawn", "take", "starting", "up", "checked", "run", "closing",
          "over", "failed"}

\* The engine's socket is open and its accept loop runs.
Serves(e) == job[e] \in {"up", "checked", "run"}

Trouble == used < MaxTroubles /\ used' = used + 1

\* The next call; one may come while another is being handled.
NextCall(e) == job[e] = "none" /\ \A d \in Job : d < e => job[d] # "none"

\* onP2pToggle, setP2pEnabled, and the first lock of p2p_set_enabled.
Toggle(e) ==
    /\ NextCall(e)
    /\ pref' = ~pref
    /\ flag' = ~pref
    /\ job' = [job EXCEPT ![e] = IF pref THEN "take" ELSE "spawn"]
    /\ UNCHANGED <<slot, used>>

\* p2p.js is loaded: at the start of the process, or again.
PageLoads(e) ==
    /\ NextCall(e)
    /\ pref
    /\ IF flag THEN Trouble ELSE UNCHANGED used
    /\ flag' = TRUE
    /\ job' = [job EXCEPT ![e] = "spawn"]
    /\ UNCHANGED <<pref, slot>>

\* spawn_startup: the first look at the flag.
SpawnStartup(e) ==
    /\ job[e] = "spawn"
    /\ job' = [job EXCEPT ![e] = IF flag THEN "starting" ELSE "over"]
    /\ UNCHANGED <<pref, flag, slot, used>>

\* P2p::start
Start(e) ==
    /\ job[e] = "starting"
    /\ job' = [job EXCEPT ![e] = "up"]
    /\ UNCHANGED <<pref, flag, slot, used>>

StartFails(e) ==
    /\ job[e] = "starting"
    /\ Trouble
    /\ job' = [job EXCEPT ![e] = "failed"]
    /\ UNCHANGED <<pref, flag, slot>>

\* The second look at the flag ...
CheckFlag(e) ==
    /\ job[e] = "up"
    /\ job' = [job EXCEPT ![e] = IF flag THEN "checked" ELSE "closing"]
    /\ UNCHANGED <<pref, flag, slot, used>>

\* ... and the slot; what was in it goes on by itself.
Publish(e) ==
    /\ job[e] = "checked"
    /\ job' = [job EXCEPT ![e] = "run"]
    /\ slot' = e
    /\ UNCHANGED <<pref, flag, used>>

\* p2p_set_enabled(false): the engine in the slot is taken out.
TakeSlot(e) ==
    /\ job[e] = "take"
    /\ job' = [d \in Job |-> IF d = e THEN "over" ELSE IF d = slot THEN "closing" ELSE job[d]]
    /\ slot' = 0
    /\ UNCHANGED <<pref, flag, used>>

\* close: the loops end.
Close(e) ==
    /\ job[e] = "closing"
    /\ job' = [job EXCEPT ![e] = "over"]
    /\ UNCHANGED <<pref, flag, slot, used>>

Restart ==
    /\ Trouble
    /\ flag' = FALSE /\ slot' = 0
    /\ job' = [e \in Job |-> IF job[e] = "none" THEN "none" ELSE "over"]
    /\ UNCHANGED pref

\* A fresh install: the engine is off until the user asks for it.
LifecycleInit ==
    /\ pref = FALSE /\ flag = FALSE /\ slot = 0
    /\ job = [e \in Job |-> "none"]
    /\ used = 0

\* What the shell does by itself.
ShellStep(e) ==
    SpawnStartup(e) \/ Start(e) \/ StartFails(e) \/ CheckFlag(e) \/ Publish(e)
    \/ TakeSlot(e) \/ Close(e)

-----------------------------------------------------------------------------

\* Every variable has its type.
LifecycleTypeOK ==
    /\ {pref, flag} \subseteq BOOLEAN
    /\ slot \in {0} \cup Job
    /\ job \in [Job -> Phase]
    /\ used \in 0..MaxTroubles
=============================================================================
