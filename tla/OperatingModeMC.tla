-------------------------- MODULE OperatingModeMC --------------------------
(* Instances of OperatingMode for TLC: model values come from the .cfg     *)
(* files.                                                                  *)
EXTENDS OperatingMode

CONSTANTS w1, w2, t1, t2

OneWorker == {w1}

TwoWorkers == {w1, w2}

OneTimer == {t1}

TwoTimers == {t1, t2}

\* Permanent modes, and the end of any mode.
Untimed == {-1, 0}

\* The end of any mode, and modes of one and of two ticks.
Timed == {0, 1, 2}

OneTick == {1}

AnyDuration == {-1, 0, 1, 2}

=============================================================================
