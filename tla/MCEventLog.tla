---------------------------- MODULE MCEventLog ----------------------------
EXTENDS EventLog

CONSTANTS e1, e2
MCEvents == {e1, e2}
=============================================================================
