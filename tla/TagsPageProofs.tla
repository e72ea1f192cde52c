--------------------------- MODULE TagsPageProofs ---------------------------
(***************************************************************************)
(* Proofs about the tags page loader, for every set of calls, responses   *)
(* and errors: the type invariant, that the tag list is rendered only     *)
(* when every call resolved (RenderedOnlyWithAllData), and that it is     *)
(* rendered from the responses of the calls its props are named for       *)
(* (PropsWiredToCalls).                                                   *)
(*                                                                         *)
(* Neither property is inductive.  The step of Render needs to know that  *)
(* props built after a rejection carry a reload or an error, and what the *)
(* props were built from; the steps of the calls need that once props are *)
(* built the aggregate has settled, so no call can change the results.    *)
(***************************************************************************)
EXTENDS TagsPage, PageLoaderProofs

\* Props, once built, were built after the aggregate settled, and say so.
PropsReflectOutcome ==
    props # None =>
        /\ outcome # Pending
        /\ props.reload \in BOOLEAN
        /\ outcome \in Rejected => props.reload = TRUE \/ props.error # Null

\* Props built after every call resolved hold the responses, by position.
PropsFromResults ==
    props # None /\ outcome \in Resolved =>
        /\ props.domains = results[listUserDomains]
        /\ props.headerDetails = results[getHeaderDetails]
        /\ props.domainDetails = results[getDomain]
        /\ props.groupDetails = OmitUndefined(results[getGroup])
        /\ props.csrf = results[getForm]

\* The tag list is shown only from props with neither reload nor error.
PageFromCleanProps ==
    rendered = "page" => props # None /\ props.reload = FALSE /\ props.error = Null

\* The inductive invariant.
IInv == TypeOK /\ PropsReflectOutcome /\ PropsFromResults /\ PageFromCleanProps

\* The positions the props block reads are those of the named calls in the
\* Promise.all array.
LEMMA CallsNamed ==
    /\ CallNamed("listUserDomains") = listUserDomains
    /\ CallNamed("getHeaderDetails") = getHeaderDetails
    /\ CallNamed("getDomain") = getDomain
    /\ CallNamed("getGroup") = getGroup
    /\ CallNamed("getForm") = getForm
BY DEF CallNamed, PromiseAllArray, listUserDomains, getHeaderDetails,
       getDomain, getGroup, getForm

THEOREM InitIInv == Init => IInv
BY TagsPageAssumption
   DEF Init, PAInit, IInv, TypeOK, PATypeOK, PropsReflectOutcome,
       PropsFromResults, PageFromCleanProps

THEOREM NextIInv == IInv /\ [Next]_vars => IInv'
<1> SUFFICES ASSUME IInv, [Next]_vars PROVE IInv'
  OBVIOUS
<1> USE DEF IInv
<1>1. ASSUME NEW c \in Calls, NEW v \in Responses[c], Resolve(c, v),
             UNCHANGED <<props, rendered>>
      PROVE  IInv'
  <2>1. props = None
    BY <1>1 DEF Resolve, PropsReflectOutcome
  <2>2. TypeOK'
    BY <1>1 DEF Resolve, TypeOK, PATypeOK, Resolved
  <2>3. QED
    BY <1>1, <2>1, <2>2 DEF PropsReflectOutcome, PropsFromResults,
                            PageFromCleanProps
<1>2. ASSUME NEW c \in Calls, NEW e \in Errors, Reject(c, e),
             UNCHANGED <<props, rendered>>
      PROVE  IInv'
  <2>1. props = None
    BY <1>2 DEF Reject, PropsReflectOutcome
  <2>2. TypeOK'
    BY <1>2 DEF Reject, TypeOK, PATypeOK, Rejected
  <2>3. QED
    BY <1>2, <2>1, <2>2 DEF PropsReflectOutcome, PropsFromResults,
                            PageFromCleanProps
<1>3. CASE ReturnProps
  <2>1. /\ LoadStatus.reload \in BOOLEAN
        /\ outcome \in Rejected => LoadStatus.reload = TRUE \/ LoadStatus.error # Null
        /\ outcome \notin Rejected => LoadedData = results
    BY LoadStatusSignals DEF TypeOK, PATypeOK
  <2>2. PropsReflectOutcome'
    BY <1>3, <2>1 DEF ReturnProps, PropsReflectOutcome
  <2>3. PropsFromResults'
    <3>1. outcome \in Resolved => outcome \notin Rejected
      BY DEF Resolved, Rejected
    <3>2. QED
      BY <1>3, <2>1, <3>1 DEF ReturnProps, PropsFromResults
  <2>4. QED
    BY <1>3, <2>2, <2>3 DEF ReturnProps, TypeOK, PATypeOK, PageFromCleanProps
<1>4. CASE Render
  <2>1. props.reload \in BOOLEAN
    BY <1>4 DEF Render, PropsReflectOutcome
  <2>2. QED
    BY <1>4, <2>1 DEF Render, TypeOK, PATypeOK, PropsReflectOutcome,
                      PropsFromResults, PageFromCleanProps
<1>5. CASE UNCHANGED vars
  BY <1>5 DEF vars, TypeOK, PATypeOK, PropsReflectOutcome, PropsFromResults,
              PageFromCleanProps
<1>6. QED
  BY <1>1, <1>2, <1>3, <1>4, <1>5 DEF Next, CallSettles, PANext

\* The page loader's state is always well typed.
THEOREM TagsTypeCorrect == Spec => []TypeOK
BY InitIInv, NextIInv, PTL DEF Spec, IInv

\* A rendered tag list was built from responses only.
LEMMA PageRenderedResolved ==
    ASSUME IInv, rendered = "page"
    PROVE  outcome \in Resolved
BY DEF IInv, TypeOK, PATypeOK, PropsReflectOutcome, PageFromCleanProps

\* Whatever the five calls answer and in whatever order, GroupTagsPage
\* renders the tag list only after every call resolved: a rejection always
\* ends in a reload or the error page.
THEOREM TagsRenderedOnlyWithAllData == Spec => []RenderedOnlyWithAllData
<1>1. IInv => RenderedOnlyWithAllData
  BY PageRenderedResolved DEF RenderedOnlyWithAllData
<1>2. QED
  BY <1>1, InitIInv, NextIInv, PTL DEF Spec

\* When the tag list is rendered, every prop holds the response of the call
\* it is named for, and the tag list gets the group's own tags after
\* omitUndefined.
THEOREM TagsPropsWiredToCalls == Spec => []PropsWiredToCalls
<1>1. IInv => PropsWiredToCalls
  <2> SUFFICES ASSUME IInv, rendered = "page" PROVE PropsWiredToCalls
    BY DEF PropsWiredToCalls
  <2>1. outcome \in Resolved /\ props # None
    BY PageRenderedResolved DEF IInv, PageFromCleanProps
  <2>2. Get(props.groupDetails, "tags") = Get(results[getGroup], "tags")
    BY <2>1, OmitUndefinedGet DEF IInv, PropsFromResults, OmitUndefined
  <2>3. QED
    BY <2>1, <2>2, CallsNamed DEF IInv, PropsFromResults, PropsWiredToCalls
<1>2. QED
  BY <1>1, InitIInv, NextIInv, PTL DEF Spec
=============================================================================
