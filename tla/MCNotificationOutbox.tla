------------------------ MODULE MCNotificationOutbox ------------------------
\* NotificationOutbox for TLC: workers and contents are interchangeable.
EXTENDS NotificationOutbox, TLC

WorkerSymmetry == Permutations(Workers)
=============================================================================
