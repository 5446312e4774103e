---------------------------- MODULE MCTelemetry ----------------------------
(* Instances of Telemetry for TLC. *)
EXTENDS Telemetry

Base == [source |-> "train", requests |-> 1, chars |-> 0, letters |-> 1, rewrites |-> 0,
         beats |-> 0, adds |-> 0, losses |-> 0, platformRestarts |-> 0, taaRestarts |-> 0]

\* A training run with its progress: the held 100%, retries, late reports.
Training == [Base EXCEPT !.beats = 2, !.losses = 1]
\* Enough lines to fill the platform's store, the platform restarting.
Files == [Base EXCEPT !.chars = 5, !.losses = 1, !.platformRestarts = 1]
\* A log file the model truncates.
Truncated == [Base EXCEPT !.chars = 3, !.rewrites = 1]
\* An FHE run whose service starts its log over.
Replays == [Base EXCEPT !.source = "fhe", !.chars = 3, !.letters = 2, !.rewrites = 1]
\* An FHE run with progress, its lines repeated and late.
FheRun == [Base EXCEPT !.source = "fhe", !.chars = 2, !.beats = 1, !.losses = 1]
\* Two runs in a row, late requests of the first reaching the platform in the second,
\* and the platform restarting.
TwoRuns == [Base EXCEPT !.requests = 2, !.chars = 2, !.losses = 1, !.platformRestarts = 1]
\* TAA's own log, sent under changing requests to a platform that restarts.
OwnLog == [Base EXCEPT !.adds = 2, !.losses = 1, !.platformRestarts = 1]
\* TAA's own log, overflowing its buffer.
OwnFull == [Base EXCEPT !.requests = 0, !.adds = 4, !.losses = 2]
\* The same with TAA restarting, and with both sides restarting.
OwnRestart == [Base EXCEPT !.requests = 0, !.adds = 3, !.losses = 1, !.taaRestarts = 1]
BothRestart == [OwnRestart EXCEPT !.platformRestarts = 1]

MCScenarios == {Training, Files, Truncated, Replays, FheRun, TwoRuns, OwnLog, OwnFull, BothRestart}
MCRestart == {OwnRestart}
=============================================================================
