----------------------------- MODULE MCServices -----------------------------
(* Small instances of the services that share nothing with one another, side *)
(* by side: a behaviour picks one of them and follows it.                    *)
EXTENDS ConnectionPool, ToolSandbox, Campaigns, RuleCache, RuleVersions, BackgroundTasks, Timeline,
        GraphPublishing, TLC

VARIABLE service

servicesVars == <<service, poolVars, sandboxVars, campaignVars, cacheVars, versionVars,
                  jobVars, timelineVars, graphVars>>

ServicesInit ==
    /\ service \in {"pool", "sandbox", "campaigns", "cache", "versions", "jobs", "timeline", "graph"}
    /\ PoolInit /\ SandboxInit /\ CampaignInit /\ CacheInit /\ VersionsInit /\ JobsInit
    /\ TimelineInit /\ GraphInit

PoolTurn ==
    service = "pool" /\ PoolNext
        /\ UNCHANGED <<service, sandboxVars, campaignVars, cacheVars, versionVars,
                       jobVars, timelineVars, graphVars>>
SandboxTurn ==
    service = "sandbox" /\ SandboxNext
        /\ UNCHANGED <<service, poolVars, campaignVars, cacheVars, versionVars,
                       jobVars, timelineVars, graphVars>>
CampaignTurn ==
    service = "campaigns" /\ CampaignNext
        /\ UNCHANGED <<service, poolVars, sandboxVars, cacheVars, versionVars,
                       jobVars, timelineVars, graphVars>>
CacheTurn ==
    service = "cache" /\ CacheNext
        /\ UNCHANGED <<service, poolVars, sandboxVars, campaignVars, versionVars,
                       jobVars, timelineVars, graphVars>>
VersionsTurn ==
    service = "versions" /\ VersionsNext
        /\ UNCHANGED <<service, poolVars, sandboxVars, campaignVars, cacheVars,
                       jobVars, timelineVars, graphVars>>
JobsTurn ==
    service = "jobs" /\ JobsNext
        /\ UNCHANGED <<service, poolVars, sandboxVars, campaignVars, cacheVars,
                       versionVars, timelineVars, graphVars>>
TimelineTurn ==
    service = "timeline" /\ TimelineNext
        /\ UNCHANGED <<service, poolVars, sandboxVars, campaignVars, cacheVars,
                       versionVars, jobVars, graphVars>>
GraphTurn ==
    service = "graph" /\ GraphNext
        /\ UNCHANGED <<service, poolVars, sandboxVars, campaignVars, cacheVars,
                       versionVars, jobVars, timelineVars>>

ServicesNext ==
    PoolTurn \/ SandboxTurn \/ CampaignTurn \/ CacheTurn \/ VersionsTurn \/ JobsTurn
        \/ TimelineTurn \/ GraphTurn

\* Which operation of the shop is which makes no difference.
ServicesSymmetry == Permutations(Writer)

ServicesSpec == ServicesInit /\ [][ServicesNext]_servicesVars
=============================================================================
