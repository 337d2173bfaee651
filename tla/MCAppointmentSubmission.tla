---------------------- MODULE MCAppointmentSubmission ----------------------
\* AppointmentSubmission for TLC.
EXTENDS AppointmentSubmission, FiniteSets

CONSTANT MaxDisturbances

\* What the owner and the delivery worker did to a submission.
Disturbances(q) ==
    {r \in Recipients : notes[q][r] = "moved"}
    \cup {p \in {"decided"} : proposal[q] \notin {"none", "pending"}}
    \cup {e \in {"answered"} : google[q].state \in {"accepted", "declined", "deleted"}}

\* They do so a bounded number of times, as faults are bounded.
FewDisturbances == \A q \in Quotes : Cardinality(Disturbances(q)) <= MaxDisturbances
=============================================================================
