--------------------------- MODULE MCUpdateMonitor ---------------------------
EXTENDS UpdateMonitor
MCVersions == 1..3
=============================================================================
