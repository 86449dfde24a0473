------------------------- MODULE MC_ResultEnvelope -------------------------
EXTENDS ResultEnvelope, TLC

\* An issue as the Issue schema accepts it.
MCIssue == [severity |-> "text", message |-> "text"]

=============================================================================
