---------------------------- MODULE MC_PWAStore ----------------------------
EXTENDS PWAStore, TLC

=============================================================================
