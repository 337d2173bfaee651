--------------------------- MODULE RecordedEffect ---------------------------
(***************************************************************************)
(* What the PA service promises of every request that changes somebody's   *)
(* calendar: the request is admitted into the store, its remote effect is  *)
(* performed at most once, the identity of the effect is recorded once,    *)
(* and only then is the request announced (notifications and audit rows).  *)
(* Nothing of it is ever taken back, whatever fails, is repeated or runs   *)
(* at the same time.                                                       *)
(*                                                                         *)
(* AppointmentSubmission and OwnerTaskSubmission implement it.             *)
(***************************************************************************)
CONSTANT Requests

VARIABLES
    admitted,   \* requests the store has accepted
    performed,  \* requests whose calendar event was created
    recorded,   \* requests whose event identity is in the store
    announced   \* requests about which somebody was notified or a row audited

effectVars == <<admitted, performed, recorded, announced>>

Init ==
    /\ admitted = {}
    /\ performed = {}
    /\ recorded = {}
    /\ announced = {}

Admit(r) ==
    /\ r \notin admitted
    /\ admitted' = admitted \cup {r}
    /\ UNCHANGED <<performed, recorded, announced>>

Perform(r) ==
    /\ r \in admitted \ performed
    /\ performed' = performed \cup {r}
    /\ UNCHANGED <<admitted, recorded, announced>>

Record(r) ==
    /\ r \in performed \ recorded
    /\ recorded' = recorded \cup {r}
    /\ UNCHANGED <<admitted, performed, announced>>

Announce(r) ==
    /\ r \in recorded \ announced
    /\ announced' = announced \cup {r}
    /\ UNCHANGED <<admitted, performed, recorded>>

Next ==
    \E r \in Requests : Admit(r) \/ Perform(r) \/ Record(r) \/ Announce(r)

Spec == Init /\ [][Next]_effectVars

-----------------------------------------------------------------------------
\* What a reader of the store may conclude: an announced request is recorded,
\* a recorded one was performed, a performed one was admitted.
Ordered ==
    /\ announced \subseteq recorded
    /\ recorded \subseteq performed
    /\ performed \subseteq admitted
    /\ admitted \subseteq Requests
=============================================================================
