----------------------------- MODULE PageLoader -----------------------------
(***************************************************************************)
(* What the server-side page loaders (getServerSideProps of the pages under *)
(* src/ui/src/pages) share: they await Promise.all of their API calls,     *)
(* and on a rejection the .catch() turns the error into a reload flag or   *)
(* an error object with RequestUtils.errorCheckHelper and substitutes an   *)
(* empty object {} for every result.  API responses are records.           *)
(***************************************************************************)
EXTENDS PromiseAll

CONSTANTS
    Undefined,    \* a missing field
    Null,         \* JavaScript null
    ReloadError,  \* the error errorCheckHelper answers with reload = true
    JSFalse,      \* the JavaScript value false in a response
    None          \* props not yet returned, page not yet rendered

ASSUME PageLoaderAssumption ==
    /\ ReloadError \in Errors
    /\ Null \notin Errors

\* The empty object {} the .catch() returns for every call.
EmptyObject == [empty |-> TRUE]

\* obj.f, undefined when obj has no field f.
Get(obj, f) == IF f \in DOMAIN obj THEN obj[f] ELSE Undefined

\* !!v, for the values a response holds (objects and arrays are truthy).
Truthy(v) == v \notin {JSFalse, Undefined, Null}

\* Mutant: a helper that reports neither a reload nor an error.
ErrorCheckHelperDropsError(err) == [reload |-> err = ReloadError, error |-> Null]

\* RequestUtils.errorCheckHelper(err): a reload flag or an error object.
ErrorCheckHelper(err) ==
    IF err = ReloadError THEN [reload |-> TRUE, error |-> Null]
                         ELSE [reload |-> FALSE, error |-> err]

\* The results the props are read from: the responses, or {} for every
\* call once the aggregate has rejected.
LoadedData == IF outcome \in Rejected THEN [c \in Calls |-> EmptyObject]
                                      ELSE results

\* The reload and error props: from the helper after a rejection, else
\* false and null.
LoadStatus == IF outcome \in Rejected THEN ErrorCheckHelper(outcome.error)
                                      ELSE [reload |-> FALSE, error |-> Null]

=============================================================================
