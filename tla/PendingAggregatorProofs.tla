----------------------- MODULE PendingAggregatorProofs -----------------------
(***************************************************************************)
(* Proofs about getPendingDomainMemberData, for all role and group lists  *)
(* of the shape ZMS answers with: the loops' state is well typed, and when *)
(* they return, pendingMap holds the last record of every key in loop      *)
(* order and iterates the keys in the order of their first record          *)
(* (LastWriteWinsInLoopOrder).                                             *)
(*                                                                         *)
(* The loop invariant says that pendingMap and keyOrder are BuiltFrom the  *)
(* positions visited so far: those before <<source, d, m, g>> in loop      *)
(* order.  A grant step adds exactly the current position, which comes     *)
(* after every visited one; the steps that end a member, a domain or a     *)
(* list add none, because the indices they skip address no grant.          *)
(***************************************************************************)
EXTENDS PendingAggregator, SequenceTheorems, TLAPS

\* The positions whose grants the loops have stored.
Visited == {t \in Positions : Before(t, <<source, d, m, g>>)}

\* A list loop ends with its inner indices reset.
FrontierReset == source # "done" /\ d > Len(Data) => m = 1 /\ g = 1

IInv == TypeOK /\ FrontierReset /\ BuiltFrom(Visited)

\* The positions are the 4-tuples that address a grant of a list.
LEMMA PositionsIff ==
    ASSUME NEW t
    PROVE  t \in Positions <=>
             \E s \in {"role", "group"}, i \in Nat, j \in Nat, k \in Nat :
               /\ t = <<s, i, j, k>>
               /\ i \in 1..Len(PayloadOf(s))
               /\ j \in 1..Len(PayloadOf(s)[i].members)
               /\ k \in 1..Len(GrantsAt(s, i, j))
<1>1. ASSUME NEW s, NEW i
      PROVE  t \in MemberPositions(s, i) <=>
               \E j \in 1..Len(PayloadOf(s)[i].members) :
                 \E k \in 1..Len(GrantsAt(s, i, j)) : t = <<s, i, j, k>>
  BY DEF MemberPositions, GrantPositions
<1>2. ASSUME NEW s
      PROVE  t \in ListPositions(s) <=>
               \E i \in 1..Len(PayloadOf(s)) : t \in MemberPositions(s, i)
  BY DEF ListPositions
<1>3. ASSUME t \in Positions
      PROVE  \E s \in {"role", "group"}, i \in Nat, j \in Nat, k \in Nat :
               /\ t = <<s, i, j, k>>
               /\ i \in 1..Len(PayloadOf(s))
               /\ j \in 1..Len(PayloadOf(s)[i].members)
               /\ k \in 1..Len(GrantsAt(s, i, j))
  <2>1. PICK s \in {"role", "group"} : t \in ListPositions(s)
    BY <1>3 DEF Positions
  <2>2. PICK i \in 1..Len(PayloadOf(s)) : t \in MemberPositions(s, i)
    BY <2>1, <1>2
  <2>3. PICK j \in 1..Len(PayloadOf(s)[i].members) :
          \E k \in 1..Len(GrantsAt(s, i, j)) : t = <<s, i, j, k>>
    BY <2>2, <1>1
  <2>4. PICK k \in 1..Len(GrantsAt(s, i, j)) : t = <<s, i, j, k>>
    BY <2>3
  <2>5. QED
    BY <2>4
<1>4. ASSUME NEW s \in {"role", "group"}, NEW i \in Nat, NEW j \in Nat,
             NEW k \in Nat, t = <<s, i, j, k>>, i \in 1..Len(PayloadOf(s)),
             j \in 1..Len(PayloadOf(s)[i].members),
             k \in 1..Len(GrantsAt(s, i, j))
      PROVE  t \in Positions
  <2>1. t \in MemberPositions(s, i)
    BY <1>4, <1>1
  <2>2. t \in ListPositions(s)
    BY <1>4, <2>1, <1>2
  <2>3. QED
    BY <1>4, <2>2 DEF Positions
<1>5. QED
  BY <1>3, <1>4

\* The lists have the shape of the ZMS answers, so their lengths are
\* numbers.
LEMMA ShapeAt ==
    ASSUME TypeOK, NEW s \in {"role", "group"}
    PROVE  /\ PayloadOf(s) \in Payload
           /\ \A i \in 1..Len(PayloadOf(s)) :
                /\ PayloadOf(s)[i].members \in Seq(Member)
                /\ \A j \in 1..Len(PayloadOf(s)[i].members) :
                     /\ GrantsAt(s, i, j) \in Seq(Grant)
                     /\ PayloadOf(s)[i].members[j].memberName \in Name
                /\ PayloadOf(s)[i].domainName \in Name
<1>1. PayloadOf(s) \in Payload
  BY PendingAggregatorAssumption DEF TypeOK, PayloadOf
<1>2. ASSUME NEW i \in 1..Len(PayloadOf(s))
      PROVE  PayloadOf(s)[i] \in [domainName : Name, members : Seq(Member)]
  BY <1>1, ElementOfSeq DEF Payload
<1>3. ASSUME NEW i \in 1..Len(PayloadOf(s)),
             NEW j \in 1..Len(PayloadOf(s)[i].members)
      PROVE  PayloadOf(s)[i].members[j] \in Member
  BY <1>2, ElementOfSeq
<1>4. ASSUME NEW i \in 1..Len(PayloadOf(s)),
             NEW j \in 1..Len(PayloadOf(s)[i].members)
      PROVE  /\ GrantsAt(s, i, j) \in Seq(Grant)
             /\ PayloadOf(s)[i].members[j].memberName \in Name
  BY <1>3 DEF Member, GrantsAt
<1>5. QED
  BY <1>1, <1>2, <1>4

\* Loop order is a strict order on positions: irreflexive and asymmetric.
LEMMA BeforeStrict ==
    ASSUME NEW t, NEW u, t \in Positions, u \in Positions
    PROVE  /\ ~Before(t, t)
           /\ Before(t, u) => ~Before(u, t)
<1>1. PICK s \in {"role", "group"}, i \in Nat, j \in Nat, k \in Nat :
        t = <<s, i, j, k>>
  BY PositionsIff
<1>2. PICK s2 \in {"role", "group"}, i2 \in Nat, j2 \in Nat, k2 \in Nat :
        u = <<s2, i2, j2, k2>>
  BY PositionsIff
<1>3. QED
  BY <1>1, <1>2 DEF Before, SourceRank

\* Every position comes after the loops' first position.
LEMMA NoneBeforeStart ==
    ASSUME NEW t \in Positions
    PROVE  ~Before(t, <<"role", 1, 1, 1>>)
<1>1. PICK s \in {"role", "group"}, i \in Nat \ {0}, j \in Nat \ {0},
           k \in Nat \ {0} : t = <<s, i, j, k>>
  BY PositionsIff
<1>2. QED
  BY <1>1 DEF Before, SourceRank

\* A list's entries have the payload shape.
LEMMA DataShape ==
    ASSUME TypeOK
    PROVE  /\ roleData \in Payload /\ groupData \in Payload
           /\ Data \in Payload
BY PendingAggregatorAssumption DEF TypeOK, Data

THEOREM InitIInv == Init => IInv
<1> SUFFICES ASSUME Init PROVE IInv
  OBVIOUS
<1>1. TypeOK
  BY DEF Init, TypeOK, ToSet
<1>2. Visited = {}
  BY NoneBeforeStart DEF Init, Visited
<1>3. FrontierReset
  BY DEF Init, FrontierReset
<1>4. BuiltFrom(Visited)
  BY <1>2 DEF Init, BuiltFrom, ToSet
<1>5. QED
  BY <1>1, <1>3, <1>4 DEF IInv
\* The lists are not changed by the loops, so neither are the positions.
LEMMA PositionsUnchanged ==
    ASSUME UNCHANGED <<roleData, groupData>>
    PROVE  Positions' = Positions
BY DEF Positions, ListPositions, MemberPositions, GrantPositions, GrantsAt,
       PayloadOf

\* The position the loops are at, and the list they walk.
Cur == <<source, d, m, g>>

LEMMA DataIsPayloadOf ==
    ASSUME source # "done"
    PROVE  Data = PayloadOf(source)
BY DEF Data, PayloadOf

\* A grant step stores the grant at the current position, which comes after
\* every position visited so far, and moves past it.
LEMMA VisitGrantVisited ==
    ASSUME TypeOK, VisitGrant
    PROVE  /\ Cur \in Positions
           /\ Visited' = Visited \cup {Cur}
<1> USE DEF TypeOK
<1>1. source \in {"role", "group"} /\ Data = PayloadOf(source)
  BY DataIsPayloadOf DEF VisitGrant
<1>2. Cur \in Positions
  <2>1. /\ d \in 1..Len(PayloadOf(source))
        /\ m \in 1..Len(PayloadOf(source)[d].members)
        /\ g \in 1..Len(GrantsAt(source, d, m))
    BY <1>1 DEF VisitGrant, GrantsAt
  <2>2. \E s \in {"role", "group"}, i \in Nat, j \in Nat, k \in Nat :
          /\ Cur = <<s, i, j, k>>
          /\ i \in 1..Len(PayloadOf(s))
          /\ j \in 1..Len(PayloadOf(s)[i].members)
          /\ k \in 1..Len(GrantsAt(s, i, j))
    BY <1>1, <2>1 DEF Cur
  <2>3. QED
    BY <2>2, PositionsIff
<1>3. ASSUME NEW t \in Positions
      PROVE  Before(t, Cur') <=> Before(t, Cur) \/ t = Cur
  <2>1. PICK s \in {"role", "group"}, i \in Nat, j \in Nat, k \in Nat :
          t = <<s, i, j, k>>
    BY PositionsIff
  <2>2. Cur' = <<source, d, m, g + 1>>
    BY DEF VisitGrant, Cur
  <2>3. QED
    BY <1>1, <2>1, <2>2 DEF Before, SourceRank, Cur
<1>4. QED
  BY <1>2, <1>3, PositionsUnchanged DEF Visited, VisitGrant, Cur

\* The steps that end a member, a domain or a list skip only indices that
\* address no grant.
LEMMA EndMemberVisited ==
    ASSUME TypeOK, EndMember
    PROVE  Visited' = Visited
<1> USE DEF TypeOK
<1>1. source \in {"role", "group"} /\ Data = PayloadOf(source)
  BY DataIsPayloadOf DEF EndMember
<1>2. ASSUME NEW t \in Positions
      PROVE  Before(t, Cur') <=> Before(t, Cur)
  <2>1. PICK s \in {"role", "group"}, i \in Nat, j \in Nat, k \in Nat :
          /\ t = <<s, i, j, k>>
          /\ i \in 1..Len(PayloadOf(s))
          /\ j \in 1..Len(PayloadOf(s)[i].members)
          /\ k \in 1..Len(GrantsAt(s, i, j))
    BY PositionsIff
  <2>2. Cur' = <<source, d, m + 1, 1>>
    BY DEF EndMember, Cur
  <2>3. s = source /\ i = d /\ j = m => k < g
    <3>1. Len(GrantsAt(s, i, j)) \in Nat
      BY <2>1, ShapeAt
    <3>2. s = source /\ i = d /\ j = m => g > Len(GrantsAt(s, i, j))
      BY <1>1 DEF EndMember, GrantsAt
    <3>3. QED
      BY <2>1, <3>1, <3>2
  <2>4. QED
    BY <1>1, <2>1, <2>2, <2>3 DEF Before, SourceRank, Cur
<1>3. QED
  BY <1>2, PositionsUnchanged DEF Visited, EndMember, Cur

LEMMA EndDomainVisited ==
    ASSUME TypeOK, EndDomain
    PROVE  Visited' = Visited
<1> USE DEF TypeOK
<1>1. source \in {"role", "group"} /\ Data = PayloadOf(source)
  BY DataIsPayloadOf DEF EndDomain
<1>2. ASSUME NEW t \in Positions
      PROVE  Before(t, Cur') <=> Before(t, Cur)
  <2>1. PICK s \in {"role", "group"}, i \in Nat, j \in Nat, k \in Nat :
          /\ t = <<s, i, j, k>>
          /\ i \in 1..Len(PayloadOf(s))
          /\ j \in 1..Len(PayloadOf(s)[i].members)
          /\ k \in 1..Len(GrantsAt(s, i, j))
    BY PositionsIff
  <2>2. Cur' = <<source, d + 1, 1, 1>>
    BY DEF EndDomain, Cur
  <2>3. s = source /\ i = d => j < m
    <3>1. Len(PayloadOf(s)[i].members) \in Nat
      BY <2>1, ShapeAt
    <3>2. s = source /\ i = d => m > Len(PayloadOf(s)[i].members)
      BY <1>1 DEF EndDomain
    <3>3. QED
      BY <2>1, <3>1, <3>2
  <2>4. QED
    BY <1>1, <2>1, <2>2, <2>3 DEF Before, SourceRank, Cur
<1>3. QED
  BY <1>2, PositionsUnchanged DEF Visited, EndDomain, Cur

LEMMA EndSourceVisited ==
    ASSUME TypeOK, FrontierReset, EndSource
    PROVE  Visited' = Visited
<1> USE DEF TypeOK
<1>1. source \in {"role", "group"} /\ Data = PayloadOf(source)
  BY DataIsPayloadOf DEF EndSource
<1>2. m = 1 /\ g = 1
  BY DEF EndSource, FrontierReset
<1>3. ASSUME NEW t \in Positions
      PROVE  Before(t, Cur') <=> Before(t, Cur)
  <2>1. PICK s \in {"role", "group"}, i \in Nat, j \in Nat, k \in Nat :
          /\ t = <<s, i, j, k>>
          /\ i \in 1..Len(PayloadOf(s))
          /\ j \in 1..Len(PayloadOf(s)[i].members)
          /\ k \in 1..Len(GrantsAt(s, i, j))
    BY PositionsIff
  <2>2. Cur' = <<IF source = "role" THEN "group" ELSE "done", 1, 1, 1>>
    BY <1>2 DEF EndSource, Cur
  <2>3. s = source => i < d
    <3>1. Len(PayloadOf(s)) \in Nat
      BY ShapeAt
    <3>2. s = source => d > Len(PayloadOf(s))
      BY <1>1 DEF EndSource
    <3>3. QED
      BY <2>1, <3>1, <3>2
  <2>4. QED
    BY <1>1, <1>2, <2>1, <2>2, <2>3 DEF Before, SourceRank, Cur
<1>4. QED
  BY <1>3, PositionsUnchanged DEF Visited, EndSource, Cur

\* The grant step stores RecordAt(Cur) under KeyAt(Cur).
LEMMA VisitGrantUpdate ==
    ASSUME VisitGrant
    PROVE  /\ pendingMap' = [k \in DOMAIN pendingMap \cup {KeyAt(Cur)} |->
                               IF k = KeyAt(Cur) THEN RecordAt(Cur)
                                                 ELSE pendingMap[k]]
           /\ keyOrder' = IF KeyAt(Cur) \in DOMAIN pendingMap
                          THEN keyOrder ELSE Append(keyOrder, KeyAt(Cur))
<1>1. Data = PayloadOf(source)
  BY DataIsPayloadOf DEF VisitGrant
<1>2. QED
  BY <1>1 DEF VisitGrant, RecordAt, KeyAt, Cur, GrantsAt

\* The key of a position is a string.
LEMMA KeyAtType ==
    ASSUME TypeOK, NEW t \in Positions
    PROVE  KeyAt(t) \in Seq(STRING)
<1>1. PICK s \in {"role", "group"}, i \in Nat, j \in Nat, k \in Nat :
        /\ t = <<s, i, j, k>>
        /\ i \in 1..Len(PayloadOf(s))
        /\ j \in 1..Len(PayloadOf(s)[i].members)
        /\ k \in 1..Len(GrantsAt(s, i, j))
  BY PositionsIff
<1>2. /\ PayloadOf(s)[i].domainName \in Name
      /\ PayloadOf(s)[i].members[j].memberName \in Name
      /\ GrantsAt(s, i, j) \in Seq(Grant)
  BY <1>1, ShapeAt
<1>3. GrantsAt(s, i, j)[k] \in Grant
  BY <1>1, <1>2, ElementOfSeq
<1>4. GrantsAt(s, i, j)[k].name \in Name
  BY <1>3 DEF Grant
<1>5. QED
  BY <1>1, <1>2, <1>4 DEF KeyAt, KeyOf, RecordAt, Record, Name

\* The loops do not change the lists, so neither the keys nor the records
\* of the positions.
LEMMA AtUnchanged ==
    ASSUME UNCHANGED <<roleData, groupData>>, NEW t
    PROVE  KeyAt(t)' = KeyAt(t) /\ RecordAt(t)' = RecordAt(t)
BY DEF KeyAt, RecordAt, GrantsAt, PayloadOf

\* Storing the record of a position that comes after all of V keeps the map
\* and the key order BuiltFrom the positions visited.
LEMMA VisitGrantBuilt ==
    ASSUME TypeOK, BuiltFrom(Visited), VisitGrant
    PROVE  BuiltFrom(Visited)'
<1> DEFINE c == Cur
           key == KeyAt(c)
           V == Visited
<1>1. c \in Positions /\ Visited' = V \cup {c}
  BY VisitGrantVisited
<1>2. \A t \in V : Before(t, c) /\ ~Before(c, t)
  BY <1>1, BeforeStrict DEF Visited, Cur
<1>3. ~Before(c, c)
  BY <1>1, BeforeStrict
<1>4. \A t : KeyAt(t)' = KeyAt(t) /\ RecordAt(t)' = RecordAt(t)
  BY AtUnchanged DEF VisitGrant
<1>5. /\ pendingMap' = [k \in DOMAIN pendingMap \cup {key} |->
                          IF k = key THEN RecordAt(c) ELSE pendingMap[k]]
      /\ keyOrder' = IF key \in DOMAIN pendingMap
                     THEN keyOrder ELSE Append(keyOrder, key)
  BY VisitGrantUpdate
<1>6. keyOrder \in Seq(Seq(STRING)) /\ key \in Seq(STRING)
  BY <1>1, KeyAtType DEF TypeOK
<1>7. DOMAIN pendingMap' = {KeyAt(t)' : t \in Visited'}
  BY <1>1, <1>4, <1>5 DEF BuiltFrom
<1>8. ToSet(keyOrder') = DOMAIN pendingMap'
  <2>1. CASE key \in DOMAIN pendingMap
    BY <2>1, <1>5 DEF BuiltFrom
  <2>2. CASE key \notin DOMAIN pendingMap
    <3>1. /\ keyOrder' = Append(keyOrder, key)
          /\ DOMAIN pendingMap' = DOMAIN pendingMap \cup {key}
      BY <2>2, <1>5
    <3>2. /\ DOMAIN keyOrder' = 1..(Len(keyOrder) + 1)
          /\ \A i \in 1..Len(keyOrder) : keyOrder'[i] = keyOrder[i]
          /\ keyOrder'[Len(keyOrder) + 1] = key
      BY <3>1, <1>6, AppendProperties
    <3>3. ToSet(keyOrder') = ToSet(keyOrder) \cup {key}
      <4>1. DOMAIN keyOrder = 1..Len(keyOrder) /\ Len(keyOrder) \in Nat
        BY <1>6, LenProperties
      <4>2. ASSUME NEW x
            PROVE  x \in ToSet(keyOrder') <=> x \in ToSet(keyOrder) \cup {key}
        BY <3>2, <4>1 DEF ToSet
      <4>3. QED
        BY <4>2
    <3>4. QED
      BY <3>1, <3>3 DEF BuiltFrom
  <2>3. QED
    BY <2>1, <2>2
<1>9. \A k \in DOMAIN pendingMap' :
        \E t \in Visited' : /\ KeyAt(t)' = k
                           /\ pendingMap'[k] = RecordAt(t)'
                           /\ \A u \in Visited' : KeyAt(u)' = k => ~Before(t, u)
  <2> SUFFICES ASSUME NEW k \in DOMAIN pendingMap'
               PROVE  \E t \in V \cup {c} :
                        /\ KeyAt(t) = k
                        /\ pendingMap'[k] = RecordAt(t)
                        /\ \A u \in V \cup {c} : KeyAt(u) = k => ~Before(t, u)
    BY <1>1, <1>4
  <2>1. CASE k = key
    BY <2>1, <1>2, <1>3, <1>5
  <2>2. CASE k # key
    <3>1. k \in DOMAIN pendingMap /\ pendingMap'[k] = pendingMap[k]
      BY <2>2, <1>5
    <3>2. PICK t \in V : /\ KeyAt(t) = k
                        /\ pendingMap[k] = RecordAt(t)
                        /\ \A u \in V : KeyAt(u) = k => ~Before(t, u)
      BY <3>1 DEF BuiltFrom
    <3>3. QED
      BY <2>2, <3>1, <3>2
  <2>3. QED
    BY <2>1, <2>2
<1>10. \A i, j \in 1..Len(keyOrder') :
         i < j => \E t \in Visited' :
                    /\ KeyAt(t)' = keyOrder'[i]
                    /\ \A u \in Visited' : KeyAt(u)' = keyOrder'[j] => Before(t, u)
  <2> SUFFICES ASSUME NEW i \in 1..Len(keyOrder'), NEW j \in 1..Len(keyOrder'),
                      i < j
               PROVE  \E t \in V \cup {c} :
                        /\ KeyAt(t) = keyOrder'[i]
                        /\ \A u \in V \cup {c} : KeyAt(u) = keyOrder'[j] => Before(t, u)
    BY <1>1, <1>4
  <2>1. i \in 1..Len(keyOrder) /\ keyOrder'[i] = keyOrder[i]
    BY <1>5, <1>6
  <2>2. CASE j \in 1..Len(keyOrder)
    <3>1. keyOrder'[j] = keyOrder[j]
      BY <2>2, <1>5, <1>6
    <3>2. PICK t \in V : /\ KeyAt(t) = keyOrder[i]
                        /\ \A u \in V : KeyAt(u) = keyOrder[j] => Before(t, u)
      BY <2>1, <2>2 DEF BuiltFrom
    <3>3. QED
      BY <1>2, <2>1, <3>1, <3>2
  <2>3. CASE j \notin 1..Len(keyOrder)
    <3>1. key \notin DOMAIN pendingMap /\ keyOrder'[j] = key
      BY <2>3, <1>5, <1>6
    <3>2. keyOrder[i] \in DOMAIN pendingMap
      <4>1. keyOrder[i] \in ToSet(keyOrder)
        BY <2>1 DEF TypeOK, ToSet
      <4>2. QED
        BY <4>1 DEF BuiltFrom
    <3>3. PICK t \in V : KeyAt(t) = keyOrder[i]
      BY <3>2 DEF BuiltFrom
    <3>4. \A u \in V : KeyAt(u) # key
      BY <3>1 DEF BuiltFrom
    <3>5. QED
      BY <1>2, <2>1, <3>1, <3>3, <3>4
  <2>4. QED
    BY <2>2, <2>3
<1>11. QED
  BY <1>7, <1>8, <1>9, <1>10 DEF BuiltFrom

\* A step that stores nothing and visits nothing keeps BuiltFrom.
LEMMA BuiltUnchanged ==
    ASSUME BuiltFrom(Visited), Visited' = Visited,
           UNCHANGED <<roleData, groupData, pendingMap, keyOrder>>
    PROVE  BuiltFrom(Visited)'
<1>1. \A t : KeyAt(t)' = KeyAt(t) /\ RecordAt(t)' = RecordAt(t)
  BY AtUnchanged
<1>2. (DOMAIN pendingMap = {KeyAt(t) : t \in Visited})'
  <2>1. {KeyAt(t)' : t \in Visited'} = {KeyAt(t) : t \in Visited}
    BY <1>1
  <2>2. QED
    BY <2>1 DEF BuiltFrom
<1>3. (ToSet(keyOrder) = DOMAIN pendingMap)'
  BY DEF BuiltFrom, ToSet
<1>4. (\A key \in DOMAIN pendingMap :
        \E t \in Visited : /\ KeyAt(t) = key
                          /\ pendingMap[key] = RecordAt(t)
                          /\ \A u \in Visited : KeyAt(u) = key => ~Before(t, u))'
  BY <1>1 DEF BuiltFrom
<1>5. (\A i, j \in 1..Len(keyOrder) :
        i < j => \E t \in Visited :
                   /\ KeyAt(t) = keyOrder[i]
                   /\ \A u \in Visited : KeyAt(u) = keyOrder[j] => Before(t, u))'
  BY <1>1 DEF BuiltFrom
<1>6. QED
  BY <1>2, <1>3, <1>4, <1>5 DEF BuiltFrom

THEOREM NextIInv == IInv /\ [Next]_vars => IInv'
<1> SUFFICES ASSUME IInv, [Next]_vars PROVE IInv'
  OBVIOUS
<1> USE DEF IInv
<1>1. CASE VisitGrant
  <2>1. BuiltFrom(Visited)'
    BY <1>1, VisitGrantBuilt
  <2>2. KeyAt(Cur) \in Seq(STRING) /\ keyOrder \in Seq(Seq(STRING))
    BY <1>1, VisitGrantVisited, KeyAtType DEF TypeOK
  <2>3. keyOrder' \in Seq(Seq(STRING))
    BY <1>1, <2>2, VisitGrantUpdate, AppendProperties
  <2>4. (DOMAIN pendingMap = ToSet(keyOrder))'
    BY <2>1 DEF BuiltFrom
  <2>5. TypeOK'
    <3>1. /\ roleData' \in RolePayloads /\ groupData' \in GroupPayloads
          /\ source' \in {"role", "group", "done"}
          /\ d' \in Nat \ {0} /\ m' \in Nat \ {0}
      BY <1>1 DEF VisitGrant, TypeOK
    <3>2. g' \in Nat \ {0}
      BY <1>1 DEF VisitGrant, TypeOK
    <3>3. QED
      BY <2>3, <2>4, <3>1, <3>2 DEF TypeOK
  <2>6. Data' = Data /\ source' = source /\ d' = d /\ d <= Len(Data)
    BY <1>1 DEF VisitGrant, Data
  <2>7. FrontierReset'
    BY <2>6, <1>1 DEF FrontierReset, TypeOK
  <2>8. QED
    BY <2>1, <2>5, <2>7
<1>2. CASE EndMember
  <2>1. BuiltFrom(Visited)'
    BY <1>2, EndMemberVisited, BuiltUnchanged DEF EndMember
  <2>2. QED
    BY <1>2, <2>1 DEF EndMember, TypeOK, FrontierReset, Data
<1>3. CASE EndDomain
  <2>1. BuiltFrom(Visited)'
    BY <1>3, EndDomainVisited, BuiltUnchanged DEF EndDomain
  <2>2. QED
    BY <1>3, <2>1 DEF EndDomain, TypeOK, FrontierReset
<1>4. CASE EndSource
  <2>1. BuiltFrom(Visited)'
    BY <1>4, EndSourceVisited, BuiltUnchanged DEF EndSource
  <2>2. m = 1 /\ g = 1
    BY <1>4 DEF EndSource, FrontierReset
  <2>3. QED
    BY <1>4, <2>1, <2>2 DEF EndSource, TypeOK, FrontierReset
<1>5. CASE UNCHANGED vars
  <2>1. Visited' = Visited
    BY <1>5, PositionsUnchanged DEF vars, Visited
  <2>2. BuiltFrom(Visited)'
    BY <1>5, <2>1, BuiltUnchanged DEF vars
  <2>3. QED
    BY <1>5, <2>2 DEF vars, TypeOK, FrontierReset, Data
<1>6. QED
  BY <1>1, <1>2, <1>3, <1>4, <1>5 DEF Next

\* The loops' state is always well typed, for all lists of the ZMS shape.
THEOREM AggregatorTypeCorrect == Spec => []TypeOK
BY InitIInv, NextIInv, PTL DEF Spec, IInv

\* Once both lists are walked, every position has been visited.
LEMMA DoneVisitedAll ==
    ASSUME source = "done"
    PROVE  Visited = Positions
<1>1. ASSUME NEW t \in Positions PROVE Before(t, <<source, d, m, g>>)
  <2>1. PICK s \in {"role", "group"}, i \in Nat, j \in Nat, k \in Nat :
          t = <<s, i, j, k>>
    BY PositionsIff
  <2>2. QED
    BY <2>1 DEF Before, SourceRank
<1>2. QED
  BY <1>1 DEF Visited

\* For all role and group lists, when getPendingDomainMemberData returns,
\* pendingMap maps every key to the record of the last grant carrying it in
\* loop order, and iterates the keys in the order of their first grant: an
\* overwrite replaces the record and keeps the key's place.
THEOREM AggregatorLastWriteWins == Spec => []LastWriteWinsInLoopOrder
<1>1. IInv => LastWriteWinsInLoopOrder
  BY DoneVisitedAll DEF IInv, LastWriteWinsInLoopOrder
<1>2. QED
  BY <1>1, InitIInv, NextIInv, PTL DEF Spec

=============================================================================
