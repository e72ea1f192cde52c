------------------------- MODULE MCPendingAggregator -------------------------
(***************************************************************************)
(* Payloads for TLC: one domain, up to two members of it, each with up to  *)
(* one pending grant.  The names are chosen so that two different          *)
(* (member, collection) pairs concatenate to the same key ("a"+"bb" and    *)
(* "ab"+"b"), and the same triple can come from both payloads.             *)
(***************************************************************************)
EXTENDS PendingAggregator

MCDomainNames == {<<"a">>}
MCMemberNames == {<<"a">>, <<"a", "b">>}
MCCollectionNames == {<<"b">>, <<"b", "b">>}
MCExpirations == {Undefined, <<"e">>}

MCGrants == [name : MCCollectionNames, expiration : MCExpirations]
MCMembers == [memberName : MCMemberNames, grants : BoundedSeq(MCGrants, 1)]
MCPayloads == BoundedSeq([domainName : MCDomainNames,
                          members : BoundedSeq(MCMembers, 2)], 1)
=============================================================================
