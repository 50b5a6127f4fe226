---------------------------- MODULE MC_Watchdog ----------------------------
EXTENDS Watchdog
=============================================================================
