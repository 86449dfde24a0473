------------------------- MODULE MC_AnalysisStatus -------------------------
EXTENDS AnalysisStatus, TLC

=============================================================================
