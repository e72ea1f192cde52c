----------------------------- MODULE AddMember -----------------------------
(***************************************************************************)
(* The AddMember form of the UI (src/ui/src/components/member/AddMember.js)*)
(* and the asynchronous addMember call it makes.                           *)
(*                                                                         *)
(* The component keeps its input fields and its modal / error state in     *)
(* React state.  onSubmit() validates the fields and, when they pass,      *)
(* issues api.addMember(...), a promise that settles later: its .then      *)
(* closes the modal, clears the justification and calls the parent's       *)
(* onSubmit callback with a key built from this.state.memberName as it is  *)
(* when the promise settles; its .catch shows the backend error.  Nothing  *)
(* stops a second submit while a call is in flight, and the inputs stay    *)
(* editable meanwhile, so calls and edits interleave.                      *)
(*                                                                         *)
(* Strings are sequences of one-character strings, so that trim() and the  *)
(* JavaScript truthiness of '' are modelled by what they do.               *)
(***************************************************************************)
EXTENDS Naturals, Sequences, FiniteSets

CONSTANTS
    Category,              \* this.props.category: "role" or "group"
    JustificationRequired, \* this.props.justificationRequired
    ShowAddMember,         \* this.props.showAddMember
    NameInputs,            \* strings the member-name input can be set to
    JustificationInputs,   \* strings the justification input can be set to
    DateInputs,            \* strings the FlatPicker onChange can hand over
    GroupNameMatches,      \* the strings GROUP_MEMBER_NAME_REGEX accepts
    Undefined,             \* a state field that was never set
    Placeholder,           \* the string 'added using Athenz UI'
    BackendError,          \* RequestUtils.xhrErrorCheckHelper(err)
    MaxSubmits             \* bound on the number of addMember calls

Space == " "

\* A string is a finite sequence of one-character strings.
IsString(s) == s \in Seq(STRING)

ASSUME CategoryAssumption == Category \in {"role", "group"}
ASSUME FlagsAssumption ==
    JustificationRequired \in BOOLEAN /\ ShowAddMember \in BOOLEAN
ASSUME InputsAssumption ==
    /\ \A s \in NameInputs \cup JustificationInputs \cup DateInputs : IsString(s)
    /\ GroupNameMatches \subseteq NameInputs
    /\ Undefined \notin NameInputs \cup JustificationInputs \cup DateInputs
    /\ Placeholder \notin JustificationInputs
ASSUME MaxSubmitsAssumption == MaxSubmits \in Nat

(***************************************************************************)
(* The string operations the handler uses.                                 *)
(***************************************************************************)
\* s.trim(): s without its leading and trailing spaces.
Trim(s) ==
    IF \A i \in 1..Len(s) : s[i] = Space
    THEN <<>>
    ELSE LET first == CHOOSE i \in 1..Len(s) :
                        s[i] # Space /\ \A j \in 1..(i - 1) : s[j] = Space
             last  == CHOOSE i \in 1..Len(s) :
                        s[i] # Space /\ \A j \in (i + 1)..Len(s) : s[j] = Space
         IN  SubSeq(s, first, last)

\* !s || s.trim() === ''  (and  s === undefined || s.trim() === '')
Blank(s) == s = Undefined \/ Trim(s) = <<>>

\* JavaScript truthiness of a string field: neither undefined nor ''.
Truthy(s) == s # Undefined /\ s # <<>>

\* RegexUtils.validate(s, GROUP_MEMBER_NAME_REGEX)
MatchesGroupRegex(s) == s \in GroupNameMatches

\* dateUtils.uxDatetimeToRDLTimestamp(d): an injective conversion to a
\* non-empty wire string (marked here by a trailing "Z").
ToRDLTimestamp(d) == d \o <<"Z">>

VARIABLES
    memberName,           \* this.state.memberName
    justification,        \* this.state.justification
    memberExpiry,         \* this.state.memberExpiry
    memberReviewReminder, \* this.state.memberReviewReminder
    errorMessage,         \* this.state.errorMessage
    showModal,            \* this.state.showModal
    requests,             \* the addMember calls made, in order, with outcome
    notified              \* the calls of this.props.onSubmit, in order

vars == <<memberName, justification, memberExpiry, memberReviewReminder,
          errorMessage, showModal, requests, notified>>

NoError == "none"
ValidationErrors == {"nameRequired", "regexMismatch", "justificationRequired"}
Status == {"pending", "ok", "failed"}

SentJustifications == JustificationInputs \cup {Placeholder}
SentDates == {<<>>} \cup {ToRDLTimestamp(d) : d \in DateInputs}

Request == [memberName : NameInputs, expiration : SentDates,
            reviewReminder : SentDates, justification : SentJustifications,
            status : Status]

\* A call of onSubmit(key, false); "request" is a model-only record of the
\* addMember call whose .then made it.
Notification == [key : NameInputs \cup {Undefined}, request : Nat]

TypeOK ==
    /\ memberName \in NameInputs \cup {Undefined}
    /\ justification \in JustificationInputs \cup {Undefined, <<>>}
    /\ memberExpiry \in DateInputs \cup {Undefined}
    /\ memberReviewReminder \in DateInputs \cup {Undefined}
    /\ errorMessage \in ValidationErrors \cup {Undefined, BackendError}
    /\ showModal \in BOOLEAN
    /\ requests \in Seq(Request)
    /\ notified \in Seq(Notification)

Init ==
    /\ memberName = Undefined
    /\ justification = Undefined
    /\ memberExpiry = Undefined
    /\ memberReviewReminder = Undefined
    /\ errorMessage = Undefined
    /\ showModal = ShowAddMember
    /\ requests = <<>>
    /\ notified = <<>>

(***************************************************************************)
(* Input handlers.  The inputs are rendered inside the modal, the date     *)
(* pickers only for the role category, the justification input only when  *)
(* a justification is required.                                            *)
(***************************************************************************)
\* inputChanged('memberName', evt)
ChangeMemberName(v) ==
    /\ showModal
    /\ memberName' = v
    /\ UNCHANGED <<justification, memberExpiry, memberReviewReminder,
                   errorMessage, showModal, requests, notified>>

\* inputChanged('justification', evt)
ChangeJustification(v) ==
    /\ showModal
    /\ JustificationRequired
    /\ justification' = v
    /\ UNCHANGED <<memberName, memberExpiry, memberReviewReminder,
                   errorMessage, showModal, requests, notified>>

\* FlatPicker onChange: this.setState({ memberExpiry })
PickExpiry(d) ==
    /\ showModal
    /\ Category = "role"
    /\ memberExpiry' = d
    /\ UNCHANGED <<memberName, justification, memberReviewReminder,
                   errorMessage, showModal, requests, notified>>

\* FlatPicker onChange: this.setState({ memberReviewReminder })
PickReviewReminder(d) ==
    /\ showModal
    /\ Category = "role"
    /\ memberReviewReminder' = d
    /\ UNCHANGED <<memberName, justification, memberExpiry,
                   errorMessage, showModal, requests, notified>>

(***************************************************************************)
(* onSubmit(): the three checks in order, each returning early with its    *)
(* message, then the addMember call.                                       *)
(***************************************************************************)
\* Mutant: the member-name check dropped.
ValidationErrorNoNameCheck ==
    IF Category = "group" /\ ~MatchesGroupRegex(memberName)
         THEN "regexMismatch"
    ELSE IF JustificationRequired /\ Blank(justification)
         THEN "justificationRequired"
    ELSE NoError

\* Mutant: the member name tested with !memberName only, without trim().
ValidationErrorNoTrim ==
    IF memberName = Undefined \/ memberName = <<>> THEN "nameRequired"
    ELSE IF Category = "group" /\ ~MatchesGroupRegex(memberName)
         THEN "regexMismatch"
    ELSE IF JustificationRequired /\ Blank(justification)
         THEN "justificationRequired"
    ELSE NoError

\* Mutant: the group-regex check dropped.
ValidationErrorNoRegex ==
    IF Blank(memberName) THEN "nameRequired"
    ELSE IF JustificationRequired /\ Blank(justification)
         THEN "justificationRequired"
    ELSE NoError

ValidationError ==
    IF Blank(memberName) THEN "nameRequired"
    ELSE IF Category = "group" /\ ~MatchesGroupRegex(memberName)
         THEN "regexMismatch"
    ELSE IF JustificationRequired /\ Blank(justification)
         THEN "justificationRequired"
    ELSE NoError

\* memberExpiry && memberExpiry.length > 0 ? convert(memberExpiry) : ''
SentDate(d) == IF Truthy(d) THEN ToRDLTimestamp(d) ELSE <<>>

\* The arguments of this.api.addMember(...), read from the state now.
NewRequest ==
    [memberName     |-> memberName,
     expiration     |-> SentDate(memberExpiry),
     reviewReminder |-> SentDate(memberReviewReminder),
     justification  |-> IF Truthy(justification) THEN justification
                                                 ELSE Placeholder,
     status         |-> "pending"]

SubmitInvalid ==
    /\ showModal
    /\ ValidationError # NoError
    /\ errorMessage' = ValidationError
    /\ UNCHANGED <<memberName, justification, memberExpiry,
                   memberReviewReminder, showModal, requests, notified>>

SubmitValid ==
    /\ showModal
    /\ ValidationError = NoError
    /\ Len(requests) < MaxSubmits
    /\ requests' = Append(requests, NewRequest)
    /\ UNCHANGED <<memberName, justification, memberExpiry,
                   memberReviewReminder, errorMessage, showModal, notified>>

(***************************************************************************)
(* The addMember promise of call i settles.  The backend may accept or     *)
(* refuse any call, and calls settle in any order.                         *)
(***************************************************************************)
\* .then(): close the modal, clear the justification, tell the parent,
\* with the key built from this.state.memberName as it is now.
AddMemberSucceeds(i) ==
    /\ requests[i].status = "pending"
    /\ requests' = [requests EXCEPT ![i].status = "ok"]
    /\ showModal' = FALSE
    /\ justification' = <<>>
    /\ notified' = Append(notified, [key |-> memberName, request |-> i])
    /\ UNCHANGED <<memberName, memberExpiry, memberReviewReminder,
                   errorMessage>>

\* Mutant: the .catch() also closes the modal.
AddMemberFailsClosingModal(i) ==
    /\ requests[i].status = "pending"
    /\ requests' = [requests EXCEPT ![i].status = "failed"]
    /\ errorMessage' = BackendError
    /\ showModal' = FALSE
    /\ UNCHANGED <<memberName, justification, memberExpiry,
                   memberReviewReminder, notified>>

\* .catch(): show the formatted backend error.
AddMemberFails(i) ==
    /\ requests[i].status = "pending"
    /\ requests' = [requests EXCEPT ![i].status = "failed"]
    /\ errorMessage' = BackendError
    /\ UNCHANGED <<memberName, justification, memberExpiry,
                   memberReviewReminder, showModal, notified>>

Next ==
    \/ \E v \in NameInputs : ChangeMemberName(v)
    \/ \E v \in JustificationInputs : ChangeJustification(v)
    \/ \E d \in DateInputs : PickExpiry(d)
    \/ \E d \in DateInputs : PickReviewReminder(d)
    \/ SubmitInvalid
    \/ SubmitValid
    \/ \E i \in 1..Len(requests) : AddMemberSucceeds(i)
    \/ \E i \in 1..Len(requests) : AddMemberFails(i)

Spec == Init /\ [][Next]_vars

(***************************************************************************)
(* Properties                                                              *)
(***************************************************************************)
\* A call passed the checks onSubmit() makes before calling the backend.
Validated(r) ==
    /\ ~Blank(r.memberName)
    /\ Category = "group" => MatchesGroupRegex(r.memberName)
    /\ JustificationRequired =>
           r.justification # Placeholder /\ ~Blank(r.justification)

\* Every addMember call the form ever made carried a non-blank member name,
\* a name the group regex accepts for a group, and, when a justification
\* is required, the user's non-blank justification and never the
\* placeholder: however edits, failed submits and settled calls interleave.
RequestsPassedValidation == \A i \in 1..Len(requests) : Validated(requests[i])

Succeeded == {i \in 1..Len(requests) : requests[i].status = "ok"}

\* The modal is open exactly while no addMember call has succeeded, and the
\* parent's onSubmit callback has been called once per successful call and
\* for no other: the form state matches the outcomes of the calls.
FormMatchesOutcomes ==
    /\ showModal = (ShowAddMember /\ Succeeded = {})
    /\ Len(notified) = Cardinality(Succeeded)

\* The key the .then() hands to the parent's onSubmit names the member that
\* call added (spec: the key is memberName-category-domain-collection of
\* the submission).
NotifiedKeyNamesAddedMember ==
    \A j \in 1..Len(notified) :
        notified[j].key = requests[notified[j].request].memberName

\* The member name and justification are sent trimmed (spec: memberName is
\* "required, non-empty, trimmed"; the justification sent is "the trimmed
\* user input").
SubmittedInputsTrimmed ==
    \A i \in 1..Len(requests) :
        /\ Trim(requests[i].memberName) = requests[i].memberName
        /\ requests[i].justification # Placeholder =>
               Trim(requests[i].justification) = requests[i].justification

\* A backend failure is shown in an open form (spec: on failure the modal
\* is kept open with the error message set).
FailureShownInOpenForm == errorMessage = BackendError => showModal

=============================================================================
