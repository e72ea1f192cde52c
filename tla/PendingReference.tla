-------------------------- MODULE PendingReference --------------------------
(***************************************************************************)
(* The records getPendingDomainMemberData (src/ui/src/server/utils/        *)
(* apiUtils.js) stores, their keys, and a reference definition of the map  *)
(* it is meant to return: for each key, the record of the last grant with  *)
(* that key in processing order (role payload, then group payload), with   *)
(* the keys in the order of their first record.                            *)
(*                                                                         *)
(* A payload is a sequence of domains [domainName, members], a member is   *)
(* [memberName, grants], a grant is [name, expiration].                    *)
(***************************************************************************)
EXTENDS Naturals, Sequences, SequencesExt

CONSTANTS
    Undefined,      \* a missing field
    Null            \* JavaScript null

\* The lists ZMS answers with: a name is a string, an expiration a string
\* or missing.
Name == Seq(STRING)
Grant == [name : Name, expiration : Name \cup {Undefined}]
Member == [memberName : Name, grants : Seq(Grant)]
Payload == Seq([domainName : Name, members : Seq(Member)])

\* role.expiration || null : undefined and '' become null.
OrNull(v) == IF v = Undefined \/ v = <<>> THEN Null ELSE v

\* The record stored for one grant (the display names, userComment,
\* requestPrincipal and requestTime are copied the same way and omitted).
Record(cat, dom, mem, grant) ==
    [category |-> cat, domainName |-> dom, memberName |-> mem,
     roleName |-> grant.name, expiryDate |-> OrNull(grant.expiration)]

\* const key = domainName + memberName + roleName
KeyOf(r) == r.domainName \o r.memberName \o r.roleName

\* The records of the grants of one payload, in loop order.
EntriesOf(data, cat) ==
    FlattenSeq([i \in 1..Len(data) |->
      FlattenSeq([j \in 1..Len(data[i].members) |->
        [k \in 1..Len(data[i].members[j].grants) |->
           Record(cat, data[i].domainName, data[i].members[j].memberName,
                  data[i].members[j].grants[k])]])])

\* All records, role payload first.
ProcessedOf(role, group) == EntriesOf(role, "role") \o EntriesOf(group, "group")

\* The map with, for each key, the last record carrying it.
ReferenceMapOf(p) ==
    [k \in {KeyOf(p[i]) : i \in 1..Len(p)} |->
        p[CHOOSE i \in 1..Len(p) :
             /\ KeyOf(p[i]) = k
             /\ \A j \in (i + 1)..Len(p) : KeyOf(p[j]) # k]]

\* The keys in the order of their first record.
ReferenceOrderOf(p) ==
    LET first == SelectSeq([i \in 1..Len(p) |-> i],
                           LAMBDA i : \A j \in 1..(i - 1) : KeyOf(p[j]) # KeyOf(p[i]))
    IN  [i \in 1..Len(first) |-> KeyOf(p[first[i]])]

=============================================================================
