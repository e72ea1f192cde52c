-------------------------- MODULE PendingAggregator --------------------------
(***************************************************************************)
(* getPendingDomainMemberData(values) of src/ui/src/server/utils/apiUtils.js*)
(*                                                                         *)
(* The function walks two nested lists, the pending role members          *)
(* (values[1].domainRoleMembersList) and then the pending group members    *)
(* (values[0].domainGroupMembersList), domain by domain, member by member, *)
(* grant by grant, and stores one record per grant in the plain object     *)
(* pendingMap under the key domainName + memberName + roleName (string     *)
(* concatenation).  A later grant with the same key overwrites the record  *)
(* in place: a JavaScript object keeps the position a key had when it was  *)
(* first inserted.  keyOrder is that iteration order.                      *)
(*                                                                         *)
(* The three forEach loops are a state machine over the indices d, m, g.   *)
(* In a payload the members' grant list (memberRoles / memberGroups) is    *)
(* called grants and a grant's roleName / groupName is called name.        *)
(***************************************************************************)
EXTENDS PendingReference

CONSTANTS
    RolePayloads,   \* the domainRoleMembersList values the loader can pass
    GroupPayloads   \* the domainGroupMembersList values the loader can pass

\* The loader hands over the lists of the two ZMS endpoints.
ASSUME PendingAggregatorAssumption ==
    RolePayloads \cup GroupPayloads \subseteq Payload

VARIABLES
    roleData,    \* values[1].domainRoleMembersList
    groupData,   \* values[0].domainGroupMembersList
    source,      \* the loop running: "role", then "group", then "done"
    d, m, g,     \* the domain, member and grant indices of the loops
    pendingMap,  \* the object built: key |-> record
    keyOrder     \* the keys of pendingMap in iteration order

vars == <<roleData, groupData, source, d, m, g, pendingMap, keyOrder>>

\* Mutant: values[0] and values[1] swapped, the group list walked first.
DataGroupFirst == IF source = "role" THEN groupData ELSE roleData

Data == IF source = "role" THEN roleData ELSE groupData

TypeOK ==
    /\ roleData \in RolePayloads
    /\ groupData \in GroupPayloads
    /\ source \in {"role", "group", "done"}
    /\ d \in Nat \ {0} /\ m \in Nat \ {0} /\ g \in Nat \ {0}
    /\ DOMAIN pendingMap = ToSet(keyOrder)
    /\ keyOrder \in Seq(Seq(STRING))

Init ==
    /\ roleData \in RolePayloads
    /\ groupData \in GroupPayloads
    /\ source = "role"
    /\ d = 1 /\ m = 1 /\ g = 1
    /\ pendingMap = <<>>
    /\ keyOrder = <<>>

\* Mutant: a new key stored without taking its place in the iteration order.
VisitGrantNoOrder ==
    /\ source # "done"
    /\ d <= Len(Data)
    /\ m <= Len(Data[d].members)
    /\ g <= Len(Data[d].members[m].grants)
    /\ LET r   == Record(source, Data[d].domainName,
                         Data[d].members[m].memberName,
                         Data[d].members[m].grants[g])
       IN  pendingMap' = [k \in DOMAIN pendingMap \cup {KeyOf(r)} |->
                             IF k = KeyOf(r) THEN r ELSE pendingMap[k]]
    /\ g' = g + 1
    /\ UNCHANGED <<roleData, groupData, source, d, m, keyOrder>>

\* pendingMap[key] = {...}: body of the innermost forEach.
VisitGrant ==
    /\ source # "done"
    /\ d <= Len(Data)
    /\ m <= Len(Data[d].members)
    /\ g <= Len(Data[d].members[m].grants)
    /\ LET r   == Record(source, Data[d].domainName,
                         Data[d].members[m].memberName,
                         Data[d].members[m].grants[g])
           key == KeyOf(r)
       IN  /\ pendingMap' = [k \in DOMAIN pendingMap \cup {key} |->
                                IF k = key THEN r ELSE pendingMap[k]]
           /\ keyOrder' = IF key \in DOMAIN pendingMap THEN keyOrder
                                                     ELSE Append(keyOrder, key)
    /\ g' = g + 1
    /\ UNCHANGED <<roleData, groupData, source, d, m>>

\* member.memberRoles.forEach returns: next member.
EndMember ==
    /\ source # "done"
    /\ d <= Len(Data)
    /\ m <= Len(Data[d].members)
    /\ g > Len(Data[d].members[m].grants)
    /\ m' = m + 1
    /\ g' = 1
    /\ UNCHANGED <<roleData, groupData, source, d, pendingMap, keyOrder>>

\* domain.members.forEach returns: next domain.
EndDomain ==
    /\ source # "done"
    /\ d <= Len(Data)
    /\ m > Len(Data[d].members)
    /\ d' = d + 1
    /\ m' = 1
    /\ g' = 1
    /\ UNCHANGED <<roleData, groupData, source, pendingMap, keyOrder>>

\* The role loop returns and the group loop starts; the group loop returns
\* and the function returns pendingMap.
EndSource ==
    /\ source # "done"
    /\ d > Len(Data)
    /\ source' = IF source = "role" THEN "group" ELSE "done"
    /\ d' = 1
    /\ UNCHANGED <<roleData, groupData, m, g, pendingMap, keyOrder>>

Next == VisitGrant \/ EndMember \/ EndDomain \/ EndSource

Spec == Init /\ [][Next]_vars

\* The records of all grants, in processing order.
Processed == ProcessedOf(roleData, groupData)

(***************************************************************************)
(* The positions of the loops: <<source, d, m, g>> names the g-th grant of *)
(* the m-th member of the d-th domain of a list; the loops visit them in   *)
(* lexicographic order, the role list first.                               *)
(***************************************************************************)
PayloadOf(s) == IF s = "role" THEN roleData ELSE groupData

GrantsAt(s, i, j) == PayloadOf(s)[i].members[j].grants

\* The positions of the grants of one member, of one domain, of one list.
GrantPositions(s, i, j) == {<<s, i, j, k>> : k \in 1..Len(GrantsAt(s, i, j))}

MemberPositions(s, i) ==
    UNION {GrantPositions(s, i, j) : j \in 1..Len(PayloadOf(s)[i].members)}

ListPositions(s) == UNION {MemberPositions(s, i) : i \in 1..Len(PayloadOf(s))}

Positions == ListPositions("role") \cup ListPositions("group")

SourceRank(s) == IF s = "role" THEN 1 ELSE IF s = "group" THEN 2 ELSE 3

\* Position t is visited before position u.
Before(t, u) ==
    \/ SourceRank(t[1]) < SourceRank(u[1])
    \/ SourceRank(t[1]) = SourceRank(u[1]) /\ t[2] < u[2]
    \/ SourceRank(t[1]) = SourceRank(u[1]) /\ t[2] = u[2] /\ t[3] < u[3]
    \/ SourceRank(t[1]) = SourceRank(u[1]) /\ t[2] = u[2] /\ t[3] = u[3]
       /\ t[4] < u[4]

\* The record and the key the loop body builds at position t.
RecordAt(t) ==
    Record(t[1], PayloadOf(t[1])[t[2]].domainName,
           PayloadOf(t[1])[t[2]].members[t[3]].memberName,
           GrantsAt(t[1], t[2], t[3])[t[4]])

KeyAt(t) == KeyOf(RecordAt(t))

\* pendingMap and keyOrder are what storing the records of the positions V
\* in loop order gives: one entry per key, holding the record of the last
\* position with that key, and the keys ordered by their first position.
BuiltFrom(V) ==
    /\ DOMAIN pendingMap = {KeyAt(t) : t \in V}
    /\ ToSet(keyOrder) = DOMAIN pendingMap
    /\ \A key \in DOMAIN pendingMap :
          \E t \in V : /\ KeyAt(t) = key
                      /\ pendingMap[key] = RecordAt(t)
                      /\ \A u \in V : KeyAt(u) = key => ~Before(t, u)
    /\ \A i, j \in 1..Len(keyOrder) :
          i < j => \E t \in V : /\ KeyAt(t) = keyOrder[i]
                               /\ \A u \in V : KeyAt(u) = keyOrder[j] => Before(t, u)

(***************************************************************************)
(* Properties                                                              *)
(***************************************************************************)
\* When the loops have returned, pendingMap holds, for each key, the record
\* of the last grant with that key (group grants after role grants), and
\* iterates its keys in the order they were first stored.
AggregateMatchesReference ==
    source = "done" =>
        /\ pendingMap = ReferenceMapOf(Processed)
        /\ keyOrder = ReferenceOrderOf(Processed)

\* When the loops have returned, every grant of both lists has been stored:
\* each key maps to the record of the last grant carrying it in loop order
\* (a later grant overwrites an earlier one), and the object iterates its
\* keys in the order of their first grant (an overwrite keeps the place).
LastWriteWinsInLoopOrder == source = "done" => BuiltFrom(Positions)

\* Spec: the mapping has one entry per distinct (domain, member, collection)
\* triple found in the two payloads.
SizeEqualsDistinctTriples ==
    source = "done" =>
        Len(keyOrder) =
            Cardinality({<<Processed[i].domainName, Processed[i].memberName,
                           Processed[i].roleName>> : i \in 1..Len(Processed)})

\* Spec: in iteration order, the role-sourced entries come before the
\* group-sourced ones.
RoleEntriesFirst ==
    source = "done" =>
        \A i, j \in 1..Len(keyOrder) :
            i < j => ~(/\ pendingMap[keyOrder[i]].category = "group"
                       /\ pendingMap[keyOrder[j]].category = "role")

=============================================================================
