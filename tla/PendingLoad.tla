----------------------------- MODULE PendingLoad -----------------------------
(***************************************************************************)
(* Loading the pending members, src/ui/src/server/utils/apiUtils.js:       *)
(* getPendingDomainMembersPromise pushes two promises, the first around    *)
(* the ZMS call getPendingDomainGroupMembersList, the second around        *)
(* getPendingDomainRoleMembersList.  Each ZMS callback runs                *)
(*     if (err) reject(err);  if (data) resolve(data);                     *)
(* so a callback with both settles by the rejection, and one with neither  *)
(* leaves its promise pending.  The caller awaits Promise.all of the two   *)
(* and hands the values to getPendingDomainMemberData, which reads the     *)
(* role list from values[1] and the group list from values[0]; a          *)
(* rejection ends the load.                                                *)
(*                                                                         *)
(* Promise c of the model is promises[c - 1]; the aggregation steps are    *)
(* those of module PendingAggregator.                                      *)
(***************************************************************************)
EXTENDS PromiseAll, PendingReference

CONSTANTS
    RolePayloads,   \* the role lists ZMS can answer with
    GroupPayloads,  \* the group lists ZMS can answer with
    NoReply,        \* no list received (yet) from an endpoint
    EmptyReplies    \* whether ZMS can call back with neither err nor data

ASSUME PendingLoadAssumption ==
    /\ Calls = 1..2
    /\ EmptyReplies \in BOOLEAN
    /\ Undefined \notin Errors

VARIABLES
    roleData, groupData, source, d, m, g, pendingMap, keyOrder,
    calledBack,  \* the promises whose ZMS callback has run
    replied,     \* replied[e]: the list endpoint e resolved its promise with
    loaded       \* "fetching", "aggregating" or "failed"

aggVars == <<roleData, groupData, source, d, m, g, pendingMap, keyOrder>>
vars == <<results, outcome, calledBack, replied, loaded, aggVars>>

Agg == INSTANCE PendingAggregator

\* Mutant: the role promise pushed first.
PushOrderRoleFirst == <<"role", "group">>

\* The endpoint of each promise, in the order they are pushed.
PushOrder == <<"group", "role">>

\* The (err, data) pairs the ZMS client can call promise c's callback with.
Replies(c) ==
    {r \in [err : Errors \cup {Undefined}, data : Responses[c] \cup {Undefined}] :
        EmptyReplies \/ r.err # Undefined \/ r.data # Undefined}

TypeOK ==
    /\ PATypeOK
    /\ Agg!TypeOK
    /\ calledBack \subseteq Calls
    /\ replied \in [{"group", "role"} -> RolePayloads \cup GroupPayloads \cup {NoReply}]
    /\ loaded \in {"fetching", "aggregating", "failed"}

Init ==
    /\ PAInit
    /\ calledBack = {}
    /\ replied = [e \in {"group", "role"} |-> NoReply]
    /\ loaded = "fetching"
    /\ roleData = <<>> /\ groupData = <<>>
    /\ source = "role" /\ d = 1 /\ m = 1 /\ g = 1
    /\ pendingMap = <<>> /\ keyOrder = <<>>

\* Mutant: the callback that forgets resolve(data).
CallbackNoResolve(c, r) ==
    /\ c \notin calledBack
    /\ calledBack' = calledBack \cup {c}
    /\ IF outcome = Pending /\ r.err # Undefined
       THEN Reject(c, r.err)
       ELSE UNCHANGED paVars
    /\ UNCHANGED <<replied, loaded, aggVars>>

\* The ZMS client calls promise c's callback once with r.  After the
\* aggregate has settled, the promise still settles, unobserved.
Callback(c, r) ==
    /\ c \notin calledBack
    /\ calledBack' = calledBack \cup {c}
    /\ IF outcome = Pending /\ r.err # Undefined
       THEN Reject(c, r.err) /\ UNCHANGED replied
       ELSE IF outcome = Pending /\ r.data # Undefined
       THEN /\ Resolve(c, r.data)
            /\ replied' = [replied EXCEPT ![PushOrder[c]] = r.data]
       ELSE UNCHANGED <<paVars, replied>>
    /\ UNCHANGED <<loaded, aggVars>>

\* Mutant: the whole values array taken as the role data.
StartAggregationWholeValues ==
    /\ loaded = "fetching"
    /\ outcome \in Resolved
    /\ loaded' = "aggregating"
    /\ roleData' = results
    /\ groupData' = results[1]
    /\ UNCHANGED <<results, outcome, calledBack, replied,
                   source, d, m, g, pendingMap, keyOrder>>

\* Both resolved: getPendingDomainMemberData(values) starts, with
\* data = values[1] for the role loop and values[0] for the group loop.
StartAggregation ==
    /\ loaded = "fetching"
    /\ outcome \in Resolved
    /\ loaded' = "aggregating"
    /\ roleData' = results[2]
    /\ groupData' = results[1]
    /\ UNCHANGED <<results, outcome, calledBack, replied,
                   source, d, m, g, pendingMap, keyOrder>>

\* Promise.all rejected: the load fails.
LoadFails ==
    /\ loaded = "fetching"
    /\ outcome \in Rejected
    /\ loaded' = "failed"
    /\ UNCHANGED <<results, outcome, calledBack, replied, aggVars>>

\* One step of the aggregation loops.
Aggregate ==
    /\ loaded = "aggregating"
    /\ Agg!Next
    /\ UNCHANGED <<results, outcome, calledBack, replied, loaded>>

Next ==
    \/ \E c \in Calls : \E r \in Replies(c) : Callback(c, r)
    \/ StartAggregation \/ LoadFails \/ Aggregate

\* The ZMS client calls every callback (it has a request timeout), and the
\* continuations and the synchronous loops run once they can.
Fairness ==
    /\ \A c \in Calls : WF_vars(\E r \in Replies(c) : Callback(c, r))
    /\ WF_vars(StartAggregation) /\ WF_vars(LoadFails) /\ WF_vars(Aggregate)

Spec == Init /\ [][Next]_vars /\ Fairness

(***************************************************************************)
(* Properties                                                              *)
(***************************************************************************)
\* The load implements PendingLoadSpec: the map it returns is the
\* reference map of the role endpoint's list followed by the group
\* endpoint's, built only once both resolved, and a failed call fails it.
LS == INSTANCE PendingLoadSpec
        WITH replies <- replied,
             status <- IF loaded = "failed" THEN "failed"
                       ELSE IF source = "done" THEN "loaded" ELSE "loading",
             map <- IF source = "done" THEN pendingMap ELSE <<>>,
             order <- IF source = "done" THEN keyOrder ELSE <<>>

ImplementsLoadSpec == LS!LoadSpec

\* Every load ends: the map is built or the load fails.  It needs every
\* ZMS callback to carry err or data (apiUtils.js settles on nothing else).
LoadFinishes == <>(loaded = "failed" \/ source = "done")

=============================================================================
