------------------------------ MODULE MCWorker ------------------------------
(* Two things the workflow worker does in every round of its loop, each on a *)
(* small instance: it runs due workflows, and it fires due calendar entries. *)
(* A behaviour follows one of them, as neither waits for the other.          *)
EXTENDS WorkflowEngine

CONSTANTS MaxEntries, MaxTime, MaxCrashes

VARIABLES duty,
          status, at, name, recurring, linked, active, completed,
          pc, batch, cur, read, made, now, runs, follow, crashes

Calendar == INSTANCE Scheduling WITH faults <- crashes, MaxFaults <- MaxCrashes

calendarVars == <<status, at, name, recurring, linked, active, completed,
                  pc, batch, cur, read, made, now, runs, follow, crashes>>
loopVars     == <<duty, allVars, calendarVars>>

LoopInit ==
    /\ duty \in {"workflows", "calendar"}
    /\ EngineInit /\ Calendar!SchedInit

LoopNext ==
    \/ duty = "workflows" /\ EngineNext /\ UNCHANGED <<duty, calendarVars>>
    \/ duty = "calendar" /\ Calendar!SchedNext /\ UNCHANGED <<duty, allVars>>

LoopSpec ==
    /\ LoopInit /\ [][LoopNext]_loopVars
    /\ EngineFairness /\ Calendar!SchedFairness

(* A due entry is fired, fails or is edited away: DueFires of Scheduling. *)
DueFires == Calendar!DueFires
=============================================================================
