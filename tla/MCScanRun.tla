------------------------------ MODULE MCScanRun ------------------------------
EXTENDS ScanRun
=============================================================================
