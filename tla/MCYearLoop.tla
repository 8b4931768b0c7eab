----------------------------- MODULE MCYearLoop -----------------------------
(* Small sets of settings for YearLoop. *)
EXTENDS YearLoop

CONSTANTS Spans, CoreCounts

MCKinds == {"load", "thermal"}
MCThermal == "thermal"

Huge == NbYears + 1

\* The thermal interval may be 0 when thermal series are not refreshed.
Settings(parallel, forced, hot) ==
    UNION { [ playlist      : (SUBSET (0 .. NbYears - 1)) \ {{}},
              refreshed     : {r},
              interval      : { iv \in [MCKinds -> Spans \cup {Huge}] :
                                  \A k \in MCKinds :
                                    /\ k \in r => iv[k] > 0
                                    /\ (k \in r \/ (k = MCThermal)) \/ iv[k] = Huge
                                    /\ k \notin r => iv[k] \in {0, 2, Huge} },
              cores         : IF parallel THEN CoreCounts ELSE {1},
              parallel      : {parallel},
              aggregated    : {TRUE},
              thermalForced : {forced},
              hotStart      : hot ] : r \in SUBSET MCKinds }

ParallelSettings == Settings(TRUE, FALSE, BOOLEAN)

\* One space: a set is full as soon as it performs a year.
SequentialForced == Settings(FALSE, TRUE, BOOLEAN)

\* The study does not know the refreshes of the cluster.
ParallelForced == Settings(TRUE, TRUE, {FALSE})

MCConfigs == ParallelSettings \cup SequentialForced \cup ParallelForced
=============================================================================
