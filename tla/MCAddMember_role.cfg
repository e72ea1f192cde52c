\* A role form, justification optional, opened by its parent.
CONSTANTS
    Category = "role"
    JustificationRequired = FALSE
    ShowAddMember = TRUE
    NameInputs <- MCNameInputs
    JustificationInputs <- MCJustificationInputs
    DateInputs <- MCDateInputs
    GroupNameMatches <- MCGroupNameMatches
    Undefined = Undefined
    Placeholder = Placeholder
    BackendError = BackendError
    MaxSubmits = 2
SPECIFICATION Spec
INVARIANT TypeOK
INVARIANT RequestsPassedValidation
INVARIANT FormMatchesOutcomes
\* Once a call succeeds the modal is closed and no handler is enabled.
CHECK_DEADLOCK FALSE
