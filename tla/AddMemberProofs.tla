--------------------------- MODULE AddMemberProofs ---------------------------
(***************************************************************************)
(* Proofs about the AddMember form, for all values of its constants: the   *)
(* type invariant, and that every addMember call the form makes passed    *)
(* onSubmit()'s validation (RequestsPassedValidation).                     *)
(*                                                                         *)
(* RequestsPassedValidation is inductive together with TypeOK: a new call *)
(* is appended only by SubmitValid, whose guard is the validation, and the *)
(* settling actions change only the status field of a call.                *)
(***************************************************************************)
EXTENDS AddMember, SequenceTheorems, FiniteSetTheorems, TLAPS

\* The inductive invariant.
IInv == TypeOK /\ RequestsPassedValidation

\* trim() of the empty string is the empty string.
LEMMA TrimEmpty == Trim(<<>>) = <<>>
BY DEF Trim

\* A field that is not blank is a truthy string.
LEMMA NotBlankTruthy ==
    ASSUME NEW s, ~Blank(s)
    PROVE  Truthy(s)
BY TrimEmpty DEF Blank, Truthy

\* When onSubmit()'s checks all pass, the call it builds is well typed.
LEMMA NewRequestType ==
    ASSUME TypeOK, ValidationError = NoError
    PROVE  NewRequest \in Request
<1>1. ~Blank(memberName)
  BY DEF ValidationError, NoError
<1>2. memberName \in NameInputs
  BY <1>1 DEF TypeOK, Blank
<1>3. SentDate(memberExpiry) \in SentDates /\ SentDate(memberReviewReminder) \in SentDates
  BY DEF TypeOK, SentDate, SentDates, Truthy
<1>4. (IF Truthy(justification) THEN justification ELSE Placeholder) \in SentJustifications
  BY DEF TypeOK, Truthy, SentJustifications
<1>5. QED
  BY <1>2, <1>3, <1>4 DEF NewRequest, Request, Status

\* When onSubmit()'s checks all pass, the call it builds passes them too.
LEMMA NewRequestValidated ==
    ASSUME TypeOK, ValidationError = NoError
    PROVE  Validated(NewRequest)
<1>1. ~Blank(memberName)
  BY DEF ValidationError, NoError
<1>2. Category = "group" => MatchesGroupRegex(memberName)
  BY <1>1 DEF ValidationError, NoError
<1>3. JustificationRequired => ~Blank(justification)
  BY <1>1, <1>2 DEF ValidationError, NoError
<1>4. JustificationRequired => Truthy(justification)
  BY <1>3, NotBlankTruthy
<1>5. JustificationRequired => justification \in JustificationInputs
  BY <1>4 DEF TypeOK, Truthy
<1>6. JustificationRequired => justification # Placeholder
  BY <1>5, InputsAssumption
<1>7. QED
  BY <1>1, <1>2, <1>3, <1>4, <1>6 DEF Validated, NewRequest

\* Settling call i changes its status only, and keeps the calls well typed.
LEMMA SettleType ==
    ASSUME NEW rs \in Seq(Request), NEW i \in 1..Len(rs), NEW st \in Status
    PROVE  /\ [rs EXCEPT ![i].status = st] \in Seq(Request)
           /\ Len([rs EXCEPT ![i].status = st]) = Len(rs)
           /\ \A j \in 1..Len(rs) :
                  /\ [rs EXCEPT ![i].status = st][j].memberName = rs[j].memberName
                  /\ [rs EXCEPT ![i].status = st][j].justification = rs[j].justification
<1> DEFINE e == [rs[i] EXCEPT !.status = st]
<1>0. rs[i] \in Request
  OBVIOUS
<1>1. e \in Request
  <2>1. e = [memberName |-> rs[i].memberName, expiration |-> rs[i].expiration,
             reviewReminder |-> rs[i].reviewReminder,
             justification |-> rs[i].justification, status |-> st]
    BY <1>0 DEF Request
  <2>2. QED
    BY <1>0, <2>1 DEF Request
<1>2. [rs EXCEPT ![i].status = st] = [rs EXCEPT ![i] = e]
  OBVIOUS
<1>3. QED
  BY <1>1, <1>2, ExceptSeq DEF Request

THEOREM InitIInv == Init => IInv
BY FlagsAssumption DEF Init, IInv, TypeOK, RequestsPassedValidation

THEOREM NextIInv == IInv /\ [Next]_vars => IInv'
<1> SUFFICES ASSUME IInv, [Next]_vars PROVE IInv'
  OBVIOUS
<1> USE DEF IInv
<1>1. ASSUME NEW v \in NameInputs, ChangeMemberName(v) PROVE IInv'
  BY <1>1 DEF ChangeMemberName, TypeOK, RequestsPassedValidation
<1>2. ASSUME NEW v \in JustificationInputs, ChangeJustification(v) PROVE IInv'
  BY <1>2 DEF ChangeJustification, TypeOK, RequestsPassedValidation
<1>3. ASSUME NEW v \in DateInputs, PickExpiry(v) PROVE IInv'
  BY <1>3 DEF PickExpiry, TypeOK, RequestsPassedValidation
<1>4. ASSUME NEW v \in DateInputs, PickReviewReminder(v) PROVE IInv'
  BY <1>4 DEF PickReviewReminder, TypeOK, RequestsPassedValidation
<1>5. ASSUME SubmitInvalid PROVE IInv'
  <2>1. ValidationError \in ValidationErrors \cup {NoError}
    BY DEF ValidationError, ValidationErrors, NoError
  <2>2. QED
    BY <1>5, <2>1 DEF SubmitInvalid, TypeOK, RequestsPassedValidation, NoError
<1>6. ASSUME SubmitValid PROVE IInv'
  <2>1. NewRequest \in Request /\ Validated(NewRequest)
    BY <1>6, NewRequestType, NewRequestValidated DEF SubmitValid
  <2>2. TypeOK'
    BY <1>6, <2>1 DEF SubmitValid, TypeOK
  <2>3. RequestsPassedValidation'
    BY <1>6, <2>1 DEF SubmitValid, TypeOK, RequestsPassedValidation
  <2>4. QED
    BY <2>2, <2>3
<1>7. ASSUME NEW i \in 1..Len(requests), AddMemberSucceeds(i) PROVE IInv'
  <2>1. requests' \in Seq(Request)
    BY <1>7, SettleType DEF AddMemberSucceeds, TypeOK, Status
  <2>2. [key |-> memberName, request |-> i] \in Notification
    BY DEF TypeOK, Notification
  <2>3. notified' \in Seq(Notification)
    BY <1>7, <2>2 DEF AddMemberSucceeds, TypeOK
  <2>4. TypeOK'
    BY <1>7, <2>1, <2>3 DEF AddMemberSucceeds, TypeOK
  <2>5. RequestsPassedValidation'
    BY <1>7, SettleType DEF AddMemberSucceeds, TypeOK, Status,
                            RequestsPassedValidation, Validated
  <2>6. QED
    BY <2>4, <2>5
<1>8. ASSUME NEW i \in 1..Len(requests), AddMemberFails(i) PROVE IInv'
  <2>1. TypeOK'
    BY <1>8, SettleType DEF AddMemberFails, TypeOK, Status
  <2>2. RequestsPassedValidation'
    BY <1>8, SettleType DEF AddMemberFails, TypeOK, Status,
                            RequestsPassedValidation, Validated
  <2>3. QED
    BY <2>1, <2>2
<1>9. CASE UNCHANGED vars
  BY <1>9 DEF vars, TypeOK, RequestsPassedValidation, Validated
<1>10. QED
  BY <1>1, <1>2, <1>3, <1>4, <1>5, <1>6, <1>7, <1>8, <1>9 DEF Next

\* The form's state is always well typed.
THEOREM TypeCorrect == Spec => []TypeOK
BY InitIInv, NextIInv, PTL DEF Spec, IInv

\* Every addMember call the form makes, in every behaviour and for every
\* category, flag and input set, passed the validation of onSubmit().
THEOREM ValidationGuardsBackend == Spec => []RequestsPassedValidation
BY InitIInv, NextIInv, PTL DEF Spec, IInv

(***************************************************************************)
(* FormMatchesOutcomes.  Together with IInv it is inductive: only a         *)
(* success adds an index to Succeeded, and a fresh one, since a call       *)
(* settles from "pending"; the same step closes the modal and appends one  *)
(* notification.                                                           *)
(***************************************************************************)
\* The set of succeeded calls is finite.
LEMMA SucceededFinite ==
    ASSUME TypeOK
    PROVE  IsFiniteSet(Succeeded)
<1>1. IsFiniteSet(1..Len(requests))
  BY FS_Interval DEF TypeOK
<1>2. QED
  BY <1>1, FS_Subset DEF Succeeded

\* Appending a pending call leaves the succeeded calls as they were.
LEMMA AppendPendingSucceeded ==
    ASSUME TypeOK, NEW r \in Request, r.status = "pending",
           requests' = Append(requests, r)
    PROVE  Succeeded' = Succeeded
BY DEF TypeOK, Succeeded

\* Settling pending call i with status st adds i to the succeeded calls
\* exactly when st is "ok".
LEMMA SettleSucceeded ==
    ASSUME TypeOK, NEW i \in 1..Len(requests), requests[i].status = "pending",
           NEW st \in Status, requests' = [requests EXCEPT ![i].status = st]
    PROVE  /\ i \notin Succeeded
           /\ Succeeded' = IF st = "ok" THEN Succeeded \cup {i} ELSE Succeeded
BY DEF TypeOK, Succeeded, Status

THEOREM InitFormOutcomes == Init => FormMatchesOutcomes
<1> SUFFICES ASSUME Init PROVE FormMatchesOutcomes
  OBVIOUS
<1>1. Succeeded = {}
  BY DEF Init, Succeeded
<1>2. QED
  BY <1>1, FS_EmptySet, FlagsAssumption DEF Init, FormMatchesOutcomes

THEOREM NextFormOutcomes ==
    IInv /\ FormMatchesOutcomes /\ [Next]_vars => FormMatchesOutcomes'
<1> SUFFICES ASSUME IInv, FormMatchesOutcomes, [Next]_vars
             PROVE  FormMatchesOutcomes'
  OBVIOUS
<1> USE DEF IInv
<1>1. CASE UNCHANGED <<requests, notified, showModal>>
  <2>1. Succeeded' = Succeeded
    BY <1>1 DEF Succeeded
  <2>2. QED
    BY <1>1, <2>1 DEF FormMatchesOutcomes
<1>2. CASE SubmitValid
  <2>1. NewRequest \in Request /\ NewRequest.status = "pending"
    BY <1>2, NewRequestType DEF SubmitValid, NewRequest
  <2>2. Succeeded' = Succeeded
    BY <1>2, <2>1, AppendPendingSucceeded DEF SubmitValid
  <2>3. QED
    BY <1>2, <2>2 DEF SubmitValid, FormMatchesOutcomes
<1>3. ASSUME NEW i \in 1..Len(requests), AddMemberSucceeds(i)
      PROVE  FormMatchesOutcomes'
  <2>1. /\ i \notin Succeeded
        /\ Succeeded' = Succeeded \cup {i}
    BY <1>3, SettleSucceeded DEF AddMemberSucceeds, Status
  <2>2. Cardinality(Succeeded') = Cardinality(Succeeded) + 1
    BY <2>1, SucceededFinite, FS_AddElement
  <2>3. Len(notified') = Len(notified) + 1
    BY <1>3 DEF AddMemberSucceeds, TypeOK
  <2>4. QED
    BY <1>3, <2>1, <2>2, <2>3 DEF AddMemberSucceeds, FormMatchesOutcomes
<1>4. ASSUME NEW i \in 1..Len(requests), AddMemberFails(i)
      PROVE  FormMatchesOutcomes'
  <2>1. Succeeded' = Succeeded
    BY <1>4, SettleSucceeded DEF AddMemberFails, Status
  <2>2. QED
    BY <1>4, <2>1 DEF AddMemberFails, FormMatchesOutcomes
<1>5. QED
  BY <1>1, <1>2, <1>3, <1>4
     DEF Next, vars, ChangeMemberName, ChangeJustification, PickExpiry,
         PickReviewReminder, SubmitInvalid

\* The modal is open exactly while no addMember call has succeeded, and
\* the parent has been told once per successful call: for every category,
\* flag, input set and submit bound.
THEOREM FormOutcomesInvariant == Spec => []FormMatchesOutcomes
<1>1. Init => IInv /\ FormMatchesOutcomes
  BY InitIInv, InitFormOutcomes
<1>2. IInv /\ FormMatchesOutcomes /\ [Next]_vars => (IInv /\ FormMatchesOutcomes)'
  BY NextIInv, NextFormOutcomes
<1>3. QED
  BY <1>1, <1>2, PTL DEF Spec

=============================================================================
