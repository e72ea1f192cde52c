--------------------------- MODULE GroupPageProofs ---------------------------
(***************************************************************************)
(* Proofs about the groups page loader, for every set of calls, responses *)
(* and errors that satisfy the modules' assumptions: the type invariant,  *)
(* that the page is rendered only when every call resolved and never      *)
(* crashes on the empty objects of the .catch() (RenderedOnlyWithAllData),*)
(* and that every prop holds the response of the call it is named for     *)
(* (PropsWiredToCalls).                                                    *)
(*                                                                         *)
(* The inductive invariant records, besides what the tags page needs,     *)
(* that a resolved aggregate has every result in hand: the render step    *)
(* then reads a real getHeaderDetails response, which carries userData.   *)
(***************************************************************************)
EXTENDS GroupPage, PageLoaderProofs, SequenceTheorems, WellFoundedInduction

\* A Promise.all that settled without rejecting has a response for every
\* call.
ResolvedHasAllResults ==
    outcome # Pending /\ outcome \notin Rejected =>
        \A c \in Calls : results[c] # Pending

\* Props, once built, were built after the aggregate settled, and say so.
PropsReflectOutcome ==
    props # None =>
        /\ outcome # Pending
        /\ props.reload \in BOOLEAN
        /\ outcome \in Rejected => props.reload = TRUE \/ props.error # Null

\* Props built after every call resolved hold the responses, by position.
PropsFromResults ==
    props # None /\ outcome \in Resolved =>
        /\ props.domains = results[listUserDomains]
        /\ props.headerDetails = results[getHeaderDetails]
        /\ props.users = results[getHeaderDetails]
        /\ props.domain = Get(results[getDomain], "name")
        /\ props.domainDetails.isAWSTemplateApplied =
               Truthy(results[isAWSTemplateApplied])
        /\ props.groups = results[getGroups]
        /\ props.pending = results[getPendingDomainMembersList]
        /\ props.csrf = results[getForm]
        /\ props.featureFlag = results[getFeatureFlag]
        /\ props.validBusinessServices = BusinessServiceOptions(results[getMeta])
        /\ props.validBusinessServicesAll =
               BusinessServiceOptions(results[getMetaAll])
        /\ props.domainPendingMemberCount =
               results[getPendingDomainMembersCountByDomain]

\* The page (or the crash) comes only from props with neither reload nor
\* error.
RenderedFromCleanProps ==
    rendered \in {"page", "crash"} =>
        /\ props # None /\ props.reload = FALSE /\ props.error = Null
        /\ rendered = "crash" <=> Get(props.headerDetails, "userData") = Undefined

\* The inductive invariant.
IInv == /\ TypeOK /\ ResolvedHasAllResults /\ PropsReflectOutcome
        /\ PropsFromResults /\ RenderedFromCleanProps

\* The positions the props block reads are those of the named calls.
LEMMA CallsNamed ==
    /\ CallNamed("listUserDomains") = listUserDomains
    /\ CallNamed("getHeaderDetails") = getHeaderDetails
    /\ CallNamed("getDomain") = getDomain
    /\ CallNamed("getGroups") = getGroups
    /\ CallNamed("getPendingDomainMembersList") = getPendingDomainMembersList
    /\ CallNamed("getForm") = getForm
    /\ CallNamed("isAWSTemplateApplied") = isAWSTemplateApplied
    /\ CallNamed("getFeatureFlag") = getFeatureFlag
    /\ CallNamed("getMeta") = getMeta
    /\ CallNamed("getMetaAll") = getMetaAll
    /\ CallNamed("getPendingDomainMembersCountByDomain") =
           getPendingDomainMembersCountByDomain
BY DEF CallNamed, PromiseAllArray, listUserDomains, getHeaderDetails,
       getDomain, getGroups, getPendingDomainMembersList, getForm,
       isAWSTemplateApplied, getFeatureFlag, getMeta, getMetaAll,
       getPendingDomainMembersCountByDomain

THEOREM InitIInv == Init => IInv
BY GroupPageAssumption
   DEF Init, PAInit, IInv, TypeOK, PATypeOK, ResolvedHasAllResults,
       PropsReflectOutcome, PropsFromResults, RenderedFromCleanProps

THEOREM NextIInv == IInv /\ [Next]_vars => IInv'
<1> SUFFICES ASSUME IInv, [Next]_vars PROVE IInv'
  OBVIOUS
<1> USE DEF IInv
<1>1. ASSUME NEW c \in Calls, NEW v \in Responses[c], Resolve(c, v),
             UNCHANGED <<props, rendered>>
      PROVE  IInv'
  <2>1. props = None
    BY <1>1 DEF Resolve, PropsReflectOutcome
  <2>2. TypeOK'
    BY <1>1 DEF Resolve, TypeOK, PATypeOK, Resolved
  <2>3. ResolvedHasAllResults'
    BY <1>1, PromiseAllAssumption DEF Resolve, ResolvedHasAllResults, TypeOK,
                                      PATypeOK
  <2>4. QED
    BY <1>1, <2>1, <2>2, <2>3 DEF PropsReflectOutcome, PropsFromResults,
                                  RenderedFromCleanProps
<1>2. ASSUME NEW c \in Calls, NEW e \in Errors, Reject(c, e),
             UNCHANGED <<props, rendered>>
      PROVE  IInv'
  <2>1. props = None
    BY <1>2 DEF Reject, PropsReflectOutcome
  <2>2. TypeOK'
    BY <1>2 DEF Reject, TypeOK, PATypeOK, Rejected
  <2>3. ResolvedHasAllResults'
    BY <1>2 DEF Reject, ResolvedHasAllResults, Rejected
  <2>4. QED
    BY <1>2, <2>1, <2>2, <2>3 DEF PropsReflectOutcome, PropsFromResults,
                                  RenderedFromCleanProps
<1>3. CASE ReturnProps
  <2>1. /\ LoadStatus.reload \in BOOLEAN
        /\ outcome \in Rejected => LoadStatus.reload = TRUE \/ LoadStatus.error # Null
        /\ outcome \notin Rejected => LoadedData = results
    BY LoadStatusSignals DEF TypeOK, PATypeOK
  <2>2. PropsReflectOutcome'
    BY <1>3, <2>1 DEF ReturnProps, PropsReflectOutcome
  <2>3. PropsFromResults'
    <3>1. outcome \in Resolved => outcome \notin Rejected
      BY DEF Resolved, Rejected
    <3>2. QED
      BY <1>3, <2>1, <3>1 DEF ReturnProps, PropsFromResults
  <2>4. QED
    BY <1>3, <2>2, <2>3 DEF ReturnProps, TypeOK, PATypeOK,
                            ResolvedHasAllResults, RenderedFromCleanProps
<1>4. CASE Render
  <2>1. props.reload \in BOOLEAN
    BY <1>4 DEF Render, PropsReflectOutcome
  <2>2. QED
    BY <1>4, <2>1 DEF Render, TypeOK, PATypeOK, ResolvedHasAllResults,
                      PropsReflectOutcome, PropsFromResults,
                      RenderedFromCleanProps
<1>5. CASE UNCHANGED vars
  BY <1>5 DEF vars, TypeOK, PATypeOK, ResolvedHasAllResults,
              PropsReflectOutcome, PropsFromResults, RenderedFromCleanProps
<1>6. QED
  BY <1>1, <1>2, <1>3, <1>4, <1>5 DEF Next, CallSettles, PANext

\* The page loader's state is always well typed.
THEOREM GroupTypeCorrect == Spec => []TypeOK
BY InitIInv, NextIInv, PTL DEF Spec, IInv

\* Props the page or a crash is rendered from were built from responses.
LEMMA RenderedFromResponses ==
    ASSUME IInv, rendered \in {"page", "crash"}
    PROVE  /\ outcome \in Resolved /\ outcome # Pending
           /\ outcome \notin Rejected /\ props # None
BY DEF IInv, TypeOK, PATypeOK, PropsReflectOutcome, RenderedFromCleanProps

\* Whatever the eleven calls answer and in whatever order, the groups page
\* is rendered only after every call resolved, and render never
\* dereferences the userData of the {} the .catch() substitutes: a
\* rejection always ends in a reload or the error page.
THEOREM GroupRenderedOnlyWithAllData == Spec => []RenderedOnlyWithAllData
<1>1. IInv => RenderedOnlyWithAllData
  <2> SUFFICES ASSUME IInv PROVE RenderedOnlyWithAllData
    OBVIOUS
  <2>1. rendered = "page" => outcome \in Resolved
    BY RenderedFromResponses
  <2>2. rendered = "crash" =>
          /\ outcome \in Resolved /\ props # None
          /\ results[getHeaderDetails] \in Responses[getHeaderDetails]
    BY RenderedFromResponses, GroupPageAssumption
       DEF IInv, TypeOK, PATypeOK, ResolvedHasAllResults, getHeaderDetails
  <2>3. rendered # "crash"
    BY <2>2, GroupPageAssumption
       DEF IInv, PropsFromResults, RenderedFromCleanProps
  <2>4. QED
    BY <2>1, <2>3 DEF RenderedOnlyWithAllData
<1>2. QED
  BY <1>1, InitIInv, NextIInv, PTL DEF Spec

\* When the page is rendered, each prop holds the response of the call it
\* is named for: the Promise.all array and the domains[...] indices agree.
THEOREM GroupPropsWiredToCalls == Spec => []PropsWiredToCalls
<1>1. IInv => PropsWiredToCalls
  <2> SUFFICES ASSUME IInv, rendered = "page" PROVE PropsWiredToCalls
    BY DEF PropsWiredToCalls
  <2>1. outcome \in Resolved /\ props # None
    BY RenderedFromResponses
  <2>2. QED
    BY <2>1, CallsNamed DEF IInv, PropsFromResults, PropsWiredToCalls
<1>2. QED
  BY <1>1, InitIInv, NextIInv, PTL DEF Spec
(***************************************************************************)
(* indexOf(':') and the two substring calls of the business-service loop. *)
(***************************************************************************)
\* A character that occurs in s has a first occurrence.
LEMMA FirstOccurrence ==
    ASSUME NEW s \in Seq(STRING), NEW ch, \E i \in 1..Len(s) : s[i] = ch
    PROVE  \E i \in 1..Len(s) : s[i] = ch /\ \A j \in 1..(i - 1) : s[j] # ch
<1> DEFINE T == {i \in 1..Len(s) : s[i] = ch}
<1>1. T \subseteq Nat /\ T # {}
  OBVIOUS
<1>2. PICK x \in T : \A y \in T : ~(<<y, x>> \in OpToRel(<, Nat))
  BY <1>1, NatLessThanWellFounded, WFMin
<1>3. \A y \in T : ~(y < x)
  BY <1>1, <1>2 DEF OpToRel
<1>4. QED
  BY <1>3

\* indexOf answers the 0-based position of the first occurrence, or -1.
LEMMA IndexOfFirst ==
    ASSUME NEW s \in Seq(STRING), NEW ch
    PROVE  IF \E i \in 1..Len(s) : s[i] = ch
           THEN /\ IndexOf(s, ch) \in 0..(Len(s) - 1)
                /\ s[IndexOf(s, ch) + 1] = ch
                /\ \A j \in 1..IndexOf(s, ch) : s[j] # ch
           ELSE IndexOf(s, ch) = -1
<1>1. CASE \E i \in 1..Len(s) : s[i] = ch
  <2>1. \E i \in 1..Len(s) : s[i] = ch /\ \A j \in 1..(i - 1) : s[j] # ch
    BY <1>1, FirstOccurrence
  <2>2. Len(s) \in Nat
    BY LenProperties
  <2>3. QED
    BY <1>1, <2>1, <2>2 DEF IndexOf
<1>2. QED
  BY <1>1 DEF IndexOf

\* The option built for one valid value: the part before the first ':' and
\* the part after it, or an empty id and the whole value.
LEMMA SplitAtColon ==
    ASSUME NEW v \in Seq(STRING)
    PROVE  LET opt == BusinessServiceOption(v)
           IN  IF \E j \in 1..Len(v) : v[j] = ":"
               THEN /\ opt.value \o <<":">> \o opt.name = v
                    /\ \A j \in 1..Len(opt.value) : opt.value[j] # ":"
               ELSE opt = [value |-> <<>>, name |-> v]
<1> DEFINE p == IndexOf(v, ":")
<1>1. Len(v) \in Nat
  BY LenProperties
<1>2. CASE \E j \in 1..Len(v) : v[j] = ":"
  <2>1. /\ p \in 0..(Len(v) - 1) /\ v[p + 1] = ":"
        /\ \A j \in 1..p : v[j] # ":"
    BY <1>2, IndexOfFirst
  <2>2. p \in Nat /\ p + 1 \in 1..Len(v)
    BY <1>1, <2>1
  <2>3. /\ BusinessServiceOption(v).value = SubSeq(v, 1, p)
        /\ BusinessServiceOption(v).name = SubSeq(v, p + 2, Len(v))
    <3>1. /\ Clamp(v, 0) = 0 /\ Clamp(v, p) = p
          /\ Clamp(v, p + 1) = p + 1 /\ Clamp(v, Len(v)) = Len(v)
      BY <1>1, <2>2 DEF Clamp
    <3>2. Substring(v, 0, p) = SubSeq(v, 0 + 1, p)
      BY <2>2, <3>1 DEF Substring
    <3>3. Substring(v, p + 1, Len(v)) = SubSeq(v, (p + 1) + 1, Len(v))
      BY <1>1, <2>2, <3>1 DEF Substring
    <3>4. 0 + 1 = 1 /\ (p + 1) + 1 = p + 2
      BY <2>2
    <3>5. QED
      BY <3>2, <3>3, <3>4 DEF BusinessServiceOption
  <2>4. /\ SubSeq(v, 1, p) \in Seq(STRING) /\ Len(SubSeq(v, 1, p)) = p
        /\ \A j \in 1..p : SubSeq(v, 1, p)[j] = v[j]
        /\ SubSeq(v, p + 2, Len(v)) \in Seq(STRING)
        /\ Len(SubSeq(v, p + 2, Len(v))) = Len(v) - (p + 1)
        /\ \A j \in 1..(Len(v) - (p + 1)) :
             SubSeq(v, p + 2, Len(v))[j] = v[j + p + 1]
    BY <1>1, <2>1, <2>2, SubSeqProperties
  <2>5. SubSeq(v, 1, p) \o <<":">> \o SubSeq(v, p + 2, Len(v)) = v
    <3> DEFINE lhs == SubSeq(v, 1, p) \o <<":">> \o SubSeq(v, p + 2, Len(v))
    <3> DEFINE head == SubSeq(v, 1, p) \o <<":">>
               tail == SubSeq(v, p + 2, Len(v))
    <3>0. <<":">> \in Seq(STRING) /\ Len(<<":">>) = 1 /\ <<":">>[1] = ":"
      <4>1. ":" \in STRING
        BY <2>1, <2>2, ElementOfSeq
      <4>2. QED
        BY <4>1
    <3>1. /\ head \in Seq(STRING)
          /\ Len(head) = p + 1
          /\ \A j \in 1..(p + 1) : head[j] = IF j <= p THEN v[j] ELSE ":"
      <4>1. /\ head \in Seq(STRING)
            /\ Len(head) = Len(SubSeq(v, 1, p)) + Len(<<":">>)
            /\ \A j \in 1..(Len(SubSeq(v, 1, p)) + Len(<<":">>)) :
                 head[j] = IF j <= Len(SubSeq(v, 1, p)) THEN SubSeq(v, 1, p)[j]
                           ELSE <<":">>[j - Len(SubSeq(v, 1, p))]
        BY <2>4, <3>0, ConcatProperties
      <4>2. QED
        BY <2>2, <2>4, <3>0, <4>1
    <3>2. /\ lhs \in Seq(STRING)
          /\ Len(lhs) = Len(head) + Len(tail)
          /\ \A j \in 1..(Len(head) + Len(tail)) :
               lhs[j] = IF j <= Len(head) THEN head[j] ELSE tail[j - Len(head)]
      BY <2>4, <3>1, ConcatProperties
    <3> HIDE DEF lhs, head, tail
    <3>3. Len(lhs) = Len(v)
      BY <1>1, <2>2, <2>4, <3>1, <3>2 DEF tail
    <3>5. \A j \in 1..Len(v) : lhs[j] = v[j]
      <4> TAKE j \in 1..Len(v)
      <4>1. j \in 1..(Len(head) + Len(tail)) /\ j \in Nat
        BY <1>1, <2>2, <2>4, <3>1 DEF tail
      <4>2. CASE j <= p
        BY <2>2, <3>1, <3>2, <4>1, <4>2
      <4>3. CASE j = p + 1
        BY <2>1, <2>2, <3>1, <3>2, <4>1, <4>3
      <4>4. CASE j > p + 1
        <5>1. ~(j <= Len(head)) /\ j - Len(head) = j - (p + 1)
          BY <2>2, <3>1, <4>1, <4>4
        <5>2. lhs[j] = tail[j - (p + 1)]
          BY <3>2, <4>1, <5>1
        <5>3. j - (p + 1) \in 1..(Len(v) - (p + 1))
          BY <1>1, <2>2, <4>1, <4>4
        <5>4. tail[j - (p + 1)] = v[j - (p + 1) + p + 1]
          BY <2>4, <5>3 DEF tail
        <5>5. QED
          BY <2>2, <4>1, <5>2, <5>4
      <4>5. QED
        BY <2>2, <4>2, <4>3, <4>4
    <3>6. lhs = v
      BY <3>2, <3>3, <3>5, SeqEqual
    <3>4. QED
      BY <3>6 DEF lhs
  <2>6. QED
    BY <1>2, <2>1, <2>3, <2>4, <2>5
<1>3. CASE ~\E j \in 1..Len(v) : v[j] = ":"
  <2>1. p = -1
    BY <1>3, IndexOfFirst
  <2>2. SubSeq(v, 1, 0) = <<>> /\ SubSeq(v, 1, Len(v)) = v
    BY <1>1, SubSeqEmpty, SubSeqFull
  <2>3. QED
    BY <1>1, <1>3, <2>1, <2>2 DEF BusinessServiceOption, Substring, Clamp
<1>4. QED
  BY <1>2, <1>3

\* Whatever the eleven calls answer and in whatever order, every option of
\* the business-service dropdown the rendered page receives is the valid
\* value at the same index of the getMeta answer, split at its first ':'.
THEOREM GroupBusinessServicesSplit == Spec => []BusinessServicesSplitAtColon
<1>1. IInv => BusinessServicesSplitAtColon
  <2> SUFFICES ASSUME IInv, rendered = "page",
                      NEW i \in 1..Len(props.validBusinessServices)
               PROVE  LET v   == results[getMeta].validValues[i]
                          opt == props.validBusinessServices[i]
                      IN  IF \E j \in 1..Len(v) : v[j] = ":"
                          THEN /\ opt.value \o <<":">> \o opt.name = v
                               /\ \A j \in 1..Len(opt.value) : opt.value[j] # ":"
                          ELSE opt = [value |-> <<>>, name |-> v]
    BY CallsNamed DEF BusinessServicesSplitAtColon
  <2> DEFINE meta == results[getMeta]
  <2>1. outcome \in Resolved /\ outcome # Pending /\ outcome \notin Rejected
        /\ props # None
    BY RenderedFromResponses
  <2>2. props.validBusinessServices = BusinessServiceOptions(meta)
    BY <2>1 DEF IInv, PropsFromResults
  <2>3. meta \in Responses[getMeta]
    BY <2>1, GroupPageAssumption DEF IInv, ResolvedHasAllResults, TypeOK,
                                      PATypeOK, getMeta
  <2>4. CASE Truthy(meta) /\ Truthy(Get(meta, "validValues"))
    <3>1. meta.validValues \in Seq(Seq(STRING))
      BY <2>3, <2>4, GroupPageAssumption
    <3>2. props.validBusinessServices =
              [k \in 1..Len(meta.validValues) |->
                   BusinessServiceOption(meta.validValues[k])]
      BY <2>2, <2>4 DEF BusinessServiceOptions
    <3>3. i \in 1..Len(meta.validValues)
      BY <3>1, <3>2, LenProperties
    <3>4. meta.validValues[i] \in Seq(STRING)
      BY <3>1, <3>3, ElementOfSeq
    <3>5. props.validBusinessServices[i] =
              BusinessServiceOption(meta.validValues[i])
      BY <3>2, <3>3
    <3>6. QED
      BY <3>4, <3>5, SplitAtColon
  <2>5. CASE ~(Truthy(meta) /\ Truthy(Get(meta, "validValues")))
    <3>1. props.validBusinessServices = <<>>
      BY <2>2, <2>5 DEF BusinessServiceOptions
    <3>2. FALSE
      BY <3>1
    <3>3. QED
      BY <3>2
  <2>6. QED
    BY <2>4, <2>5
<1>2. QED
  BY <1>1, InitIInv, NextIInv, PTL DEF Spec

=============================================================================
