---------------------------- MODULE ToolConsent ----------------------------
(***************************************************************************)
(* What the Harness promises about the Tool calls of a Run, whoever drives *)
(* it and whatever goes wrong meanwhile: the policy looks at a call once,  *)
(* the user is asked about a call before a verdict on it is taken, one     *)
(* verdict settles it, and a Tool is started in the very step that the     *)
(* policy or the user allows it.  There are no sessions, no store and no   *)
(* transcript here; AgentHarness is shown to implement this.               *)
(***************************************************************************)
EXTENDS Naturals

CONSTANT Call

VARIABLES
    known,      \* the calls that exist
    consent,    \* what has been said of each call
    ran         \* how often each call's Tool was started

vars == <<known, consent, ran>>

Init ==
    /\ known = {}
    /\ consent = [c \in Call |-> "none"]
    /\ ran = [c \in Call |-> 0]

Started(calls) == ran' = [c \in Call |-> ran[c] + IF c \in calls THEN 1 ELSE 0]

\* The Provider issues calls.
Issue ==
    /\ \E calls \in SUBSET (Call \ known) : known' = known \union calls
    /\ UNCHANGED <<consent, ran>>

\* The policy allows some calls, which start, and leaves some to the user.
Judge ==
    \E allowed, asked \in SUBSET known :
        /\ allowed \intersect asked = {}
        /\ \A c \in allowed \union asked : consent[c] = "none" /\ ran[c] = 0
        /\ consent' = [c \in Call |-> IF c \in asked THEN "asked" ELSE consent[c]]
        /\ Started(allowed)
        /\ UNCHANGED known

\* The user approves some of the calls asked about, which start, and denies some.
Answer ==
    \E approved, denied \in SUBSET known :
        /\ approved \intersect denied = {}
        /\ \A c \in approved \union denied : consent[c] = "asked" /\ ran[c] = 0
        /\ consent' = [c \in Call |->
               IF c \in approved THEN "approved"
               ELSE IF c \in denied THEN "denied" ELSE consent[c]]
        /\ Started(approved)
        /\ UNCHANGED known

Next == Issue \/ Judge \/ Answer

Spec == Init /\ [][Next]_vars
=============================================================================
