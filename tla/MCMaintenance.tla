--------------------------- MODULE MCMaintenance ---------------------------
EXTENDS Maintenance
=============================================================================
