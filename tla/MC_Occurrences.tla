--------------------------- MODULE MC_Occurrences ---------------------------
EXTENDS Occurrences, TLC

=============================================================================
