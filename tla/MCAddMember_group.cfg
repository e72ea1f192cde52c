\* A group form, justification required, opened by its parent.
CONSTANTS
    Category = "group"
    JustificationRequired = TRUE
    ShowAddMember = TRUE
    NameInputs <- MCNameInputs
    JustificationInputs <- MCJustificationInputs
    DateInputs <- MCDateInputs
    GroupNameMatches <- MCGroupNameMatches
    Undefined = Undefined
    Placeholder = Placeholder
    BackendError = BackendError
    MaxSubmits = 2
SPECIFICATION Spec
INVARIANT RequestsPassedValidation
\* Once a call succeeds the modal is closed and no handler is enabled.
CHECK_DEADLOCK FALSE
