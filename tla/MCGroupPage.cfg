\* The eleven calls of the group page settling in every order and way.
CONSTANTS
    Calls = {1, 2, 3, 4, 5, 6, 7, 8, 9, 10, 11}
    Responses <- MCResponses
    Errors = {ReloadError, ServerError}
    Pending = Pending
    Undefined = Undefined
    Null = Null
    ReloadError = ReloadError
    None = None
    JSFalse = JSFalse
SPECIFICATION Spec
INVARIANT TypeOK
INVARIANT RenderedOnlyWithAllData
INVARIANT PropsWiredToCalls
INVARIANT BusinessServicesSplitAtColon
\* The request is served once the page has rendered.
CHECK_DEADLOCK FALSE
