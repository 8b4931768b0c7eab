----------------------------- MODULE MCWeekLoop -----------------------------
(* Two years of three weeks of two intervals in one space. *)
EXTENDS WeekLoop

Settings == [mode : {"economy", "adequacy"}, patch : BOOLEAN, matching : BOOLEAN,
             second : BOOLEAN, stop : BOOLEAN, first : BOOLEAN]

AllConfigs == {c \in Settings : /\ c.patch => c.mode = "economy"
                                /\ c.matching => c.patch}
=============================================================================
