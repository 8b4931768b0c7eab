--------------------------- MODULE MCParallelYears ---------------------------
(* Small sets of settings for ParallelYears. *)
EXTENDS ParallelYears

CONSTANTS Spans, CoreCounts

\* More years than the simulation has: the interval given to a kind that is
\* generated once, and the default interval of a kind that is not refreshed.
Huge == NbYears + 1

MCKinds == {"load", "solar", "thermal"}
MCRenewables == {"solar"}
MCThermal == "thermal"

\* The intervals of a set of refreshed kinds, and of thermal when it is forced.
Intervals(refreshed, forced) ==
    { iv \in [MCKinds -> Spans \cup {Huge}] :
        \A k \in MCKinds :
            /\ k \in refreshed => iv[k] > 0
            /\ k \in refreshed \/ (k = MCThermal /\ forced) \/ iv[k] = Huge }

Settings(parallel, aggregated, forced, hot) ==
    UNION { [ playlist      : (SUBSET Years) \ {{}},
              refreshed     : {r},
              interval      : Intervals(r, forced),
              cores         : CoreCounts,
              parallel      : {parallel},
              aggregated    : {aggregated},
              thermalForced : {forced},
              hotStart      : {hot} ] : r \in SUBSET MCKinds }

\* Parallel runs where the study and the solver agree on what is refreshed.
AgreedSettings == Settings(TRUE, TRUE, FALSE, TRUE)

\* The sequential mode, which keeps one space whatever the cores.
SequentialSettings == Settings(FALSE, TRUE, FALSE, TRUE)

\* Renewables modelled by clusters: solar is counted by the study only.
ClusterSettings == Settings(TRUE, FALSE, FALSE, FALSE)

\* A thermal cluster forces its own generation.
ForcedSettings(parallel, hot) ==
    { c \in Settings(parallel, TRUE, TRUE, hot) : "solar" \notin c.refreshed }

LocalConfigs == ForcedSettings(TRUE, FALSE)
AllConfigs == AgreedSettings \cup SequentialSettings \cup ClusterSettings
              \cup LocalConfigs \cup ForcedSettings(FALSE, TRUE)
=============================================================================
