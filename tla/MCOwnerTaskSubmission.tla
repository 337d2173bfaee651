----------------------- MODULE MCOwnerTaskSubmission -----------------------
\* OwnerTaskSubmission for TLC.
EXTENDS OwnerTaskSubmission

CONSTANTS FirstKey, LastOp

\* An event that overlaps every task may appear in the owner's Google calendar.
Others == {[calendar |-> "google", at |-> 4]}

\* Of two behaviours that differ only in which task has which operation key,
\* one is enough.
OneNaming == placement[FirstKey].op # LastOp
=============================================================================
