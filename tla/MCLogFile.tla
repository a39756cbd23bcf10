------------------------------ MODULE MCLogFile -------------------------------
(* LogFile with small sets for TLC.                                        *)
EXTENDS LogFile

CONSTANTS t1, t2, home, other, rslog

TwoThreads == {t1, t2}
TwoDirs == {home, other}
OneBase == {rslog}
InfoAndWarn == {2, 3}

=============================================================================
