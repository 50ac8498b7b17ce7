--------------------------- MODULE MCSupervisor ---------------------------
EXTENDS Supervisor

MCStreams == {"stdout", "stderr"}
=============================================================================
