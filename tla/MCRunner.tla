------------------------------ MODULE MCRunner ------------------------------
(* Instances of Runner for TLC. *)
EXTENDS Runner

EveryPlan == Accepted
Simple(mode) == [mode |-> mode, noClobber |-> FALSE, timestamps |-> FALSE,
                 continue |-> FALSE, parallel |-> TRUE]
FilePlans     == {p \in Accepted : p.mode = "file"}
PlainFile     == {Simple("file")}
PlainSingle   == {Simple("single")}
PlainFiles    == {Simple("single"), Simple("file")}
ContinueFile  == {[Simple("file") EXCEPT !.continue = TRUE]}
OldSingle     == {[Simple("single") EXCEPT !.noClobber = TRUE],
                  [Simple("single") EXCEPT !.timestamps = TRUE]}
=============================================================================
