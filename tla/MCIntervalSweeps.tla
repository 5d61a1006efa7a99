--------------------------- MODULE MCIntervalSweeps ---------------------------
EXTENDS IntervalSweeps

\* kMinIntegerValue is negative, which a .cfg cannot write.
MCkMinIntegerValue == -1
====
