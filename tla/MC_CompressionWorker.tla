------------------------ MODULE MC_CompressionWorker ------------------------
EXTENDS CompressionWorker, TLC

CONSTANTS t1, t2, garbage

MCTexts == {t1, t2}

=============================================================================
