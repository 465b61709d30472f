----------------------------- MODULE MCGraphics -----------------------------
(* Small instances of Graphics: one set of clients and faults at a time. *)
EXTENDS Graphics

Quiet ==
    [supports |-> TRUE, common |-> TRUE, avc |-> TRUE, v2 |-> FALSE, x264 |-> TRUE, early |-> TRUE,
     changes |-> 0, resizes |-> 0, resets |-> 0, closes |-> 0, suspends |-> 0,
     refreshes |-> 0, hides |-> 0, lags |-> 0, windows |-> 0, faults |-> 0]

Behind == [Quiet EXCEPT !.changes = 2, !.lags = 1]
Pacing == [Quiet EXCEPT !.changes = 2, !.windows = 2]
Suspending == [Quiet EXCEPT !.changes = 1, !.suspends = 1, !.resizes = 1]
Restarting == [Quiet EXCEPT !.changes = 1, !.resets = 1]
Moving == [Quiet EXCEPT !.changes = 2, !.v2 = TRUE]
Resizing == [Quiet EXCEPT !.resets = 1, !.resizes = 1]
Asking == [Quiet EXCEPT !.changes = 1, !.refreshes = 1]
Hiding == [Quiet EXCEPT !.changes = 1, !.hides = 1]
Failing == [Quiet EXCEPT !.changes = 1, !.faults = 1]
NoX264 == [Quiet EXCEPT !.changes = 1, !.lags = 1, !.x264 = FALSE]
NoAvc == [Quiet EXCEPT !.changes = 1, !.lags = 1, !.avc = FALSE]
Closing == [Quiet EXCEPT !.changes = 1, !.closes = 1]
Opening == [Quiet EXCEPT !.resizes = 1, !.closes = 1, !.early = FALSE]
NoCaps == [Quiet EXCEPT !.common = FALSE, !.refreshes = 1, !.early = FALSE]
Bitmaps == [Quiet EXCEPT !.supports = FALSE, !.changes = 1, !.resizes = 1, !.early = FALSE]

AllScenarios ==
    {Behind, Pacing, Suspending, Restarting, Moving, Resizing, Asking, Hiding, Failing, NoX264,
     NoAvc, Closing, Opening, NoCaps, Bitmaps}

OneRestart == {Resizing}
=============================================================================
