-------------------------- MODULE PendingLoadSpec --------------------------
(***************************************************************************)
(* What loading the pending members promises (spec section 4.1 and 5):    *)
(* the two list endpoints answer in any order; the load fails when one of *)
(* them fails; otherwise, once both have answered, the map is built in one *)
(* step from the two answers, so partial results are never aggregated.    *)
(***************************************************************************)
EXTENDS PendingReference

CONSTANTS
    RolePayloads,   \* the lists the role endpoint can answer with
    GroupPayloads,  \* the lists the group endpoint can answer with
    NoReply         \* an endpoint that has not answered with data

Endpoints == {"group", "role"}

VARIABLES
    replies,  \* replies[e]: the list endpoint e answered with, or NoReply
    status,   \* "loading", "failed" or "loaded"
    map,      \* the map the load returned (empty until loaded)
    order     \* its keys in iteration order

specVars == <<replies, status, map, order>>

SpecInit ==
    /\ replies = [e \in Endpoints |-> NoReply]
    /\ status = "loading"
    /\ map = <<>>
    /\ order = <<>>

\* Endpoint e answers with data p.
Reply(e, p) ==
    /\ replies[e] = NoReply
    /\ replies' = [replies EXCEPT ![e] = p]
    /\ UNCHANGED <<status, map, order>>

\* An endpoint that has not answered with data fails, and so does the load.
Fail ==
    /\ status = "loading"
    /\ \E e \in Endpoints : replies[e] = NoReply
    /\ status' = "failed"
    /\ UNCHANGED <<replies, map, order>>

\* Both answered: the map of the two answers, role entries processed first.
Load ==
    /\ status = "loading"
    /\ \A e \in Endpoints : replies[e] # NoReply
    /\ status' = "loaded"
    /\ map' = ReferenceMapOf(ProcessedOf(replies["role"], replies["group"]))
    /\ order' = ReferenceOrderOf(ProcessedOf(replies["role"], replies["group"]))
    /\ UNCHANGED replies

SpecNext ==
    \/ Fail \/ Load
    \/ \E p \in RolePayloads : Reply("role", p)
    \/ \E p \in GroupPayloads : Reply("group", p)

LoadSpec == SpecInit /\ [][SpecNext]_specVars

=============================================================================
