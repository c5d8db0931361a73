------------------------ MODULE VerificationService ------------------------
(***************************************************************************)
(* What a CCheckQueue used through CCheckQueueControl promises, without    *)
(* threads, batches or counters: clients take turns; a client submits      *)
(* checks and gets one verdict on exactly the checks it submitted; it does *)
(* not let go of the service before the verdict exists.                    *)
(***************************************************************************)
CONSTANTS Clients, Checks, Fails, Nobody

VARIABLES
    owner,      \* the client being served
    submitted,  \* the checks it has submitted
    decided,    \* whether there is a verdict on them
    verdict     \* the last verdict

svars == <<owner, submitted, decided, verdict>>

Init ==
    /\ owner = Nobody
    /\ submitted = {}
    /\ decided = FALSE
    /\ verdict = TRUE

Open(c) ==
    /\ owner = Nobody
    /\ owner' = c
    /\ submitted' = {}
    /\ decided' = FALSE
    /\ UNCHANGED verdict

Submit(S) ==
    /\ owner # Nobody
    /\ ~decided
    /\ submitted' = submitted \cup S
    /\ UNCHANGED <<owner, decided, verdict>>

Decide ==
    /\ owner # Nobody
    /\ ~decided
    /\ decided' = TRUE
    /\ verdict' = (submitted \cap Fails = {})
    /\ UNCHANGED <<owner, submitted>>

Close ==
    /\ owner # Nobody
    /\ decided
    /\ owner' = Nobody
    /\ UNCHANGED <<submitted, decided, verdict>>

Next ==
    \/ \E c \in Clients : Open(c)
    \/ \E S \in SUBSET Checks : Submit(S)
    \/ Decide
    \/ Close

Spec == Init /\ [][Next]_svars
=============================================================================
