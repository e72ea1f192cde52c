---------------------------- MODULE MCPendingLoad ----------------------------
(***************************************************************************)
(* Lists for TLC: one domain, up to two entries of member "a", each with   *)
(* at most one grant of collection "b" or "c", so the role and the group   *)
(* list can carry the same (domain, member, collection) triple.            *)
(***************************************************************************)
EXTENDS PendingLoad

MCGrants == [name : {<<"b">>, <<"c">>}, expiration : {Undefined, <<"e">>}]
MCMembers == [memberName : {<<"a">>}, grants : BoundedSeq(MCGrants, 1)]
MCPayloads == BoundedSeq([domainName : {<<"d">>},
                          members : BoundedSeq(MCMembers, 2)], 1)

\* The promises answer with the list of the endpoint they were pushed for.
MCResponses == [c \in 1..2 |-> IF PushOrder[c] = "role" THEN RolePayloads
                                                         ELSE GroupPayloads]
=============================================================================
