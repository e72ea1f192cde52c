\* A role form, justification optional: a spec claim checked against the code.
CONSTANTS
    Category = "role"
    JustificationRequired = FALSE
    ShowAddMember = TRUE
    NameInputs <- MCNameInputs
    JustificationInputs <- MCJustificationInputs
    DateInputs <- MCDateInputs
    GroupNameMatches <- MCGroupNameMatches
    Undefined = Undefined
    Placeholder = Placeholder
    BackendError = BackendError
    MaxSubmits = 2
SPECIFICATION Spec
\* Once a call succeeds the modal is closed and no handler is enabled.
INVARIANT SubmittedInputsTrimmed
CHECK_DEADLOCK FALSE
