----------------------------- MODULE PromiseAll -----------------------------
(***************************************************************************)
(* Promise.all([p1, ..., pn]) as the page loaders use it: the n calls are  *)
(* in flight together and settle in any order.  The aggregate promise      *)
(* resolves, with the values in call order, once every call has resolved,  *)
(* and rejects with the error of the first call to reject, in time order.  *)
(* After the aggregate has settled, the remaining calls' outcomes are      *)
(* observed by nobody, so they are not modelled.                           *)
(***************************************************************************)
EXTENDS Naturals, FiniteSets

CONSTANTS
    Calls,      \* the indices of the calls in the array
    Responses,  \* Responses[c]: the values call c can resolve with
    Errors,     \* the errors a call can reject with
    Pending     \* a call or the aggregate that has not settled

ASSUME PromiseAllAssumption ==
    /\ IsFiniteSet(Calls)
    /\ DOMAIN Responses = Calls
    /\ \A c \in Calls : Pending \notin Responses[c]
    /\ Pending \notin Errors

VARIABLES
    results,  \* results[c]: the value call c resolved with, or Pending
    outcome   \* the aggregate: Pending, or a record saying how it settled

paVars == <<results, outcome>>

Resolved == [state : {"resolved"}]
Rejected == [state : {"rejected"}, error : Errors, call : Calls]

PATypeOK ==
    /\ \A c \in Calls : results[c] \in Responses[c] \cup {Pending}
    /\ DOMAIN results = Calls
    /\ outcome \in {Pending} \cup Resolved \cup Rejected

PAInit ==
    /\ results = [c \in Calls |-> Pending]
    /\ outcome = Pending

\* Call c resolves with v; the last one to resolve resolves the aggregate.
Resolve(c, v) ==
    /\ outcome = Pending
    /\ results[c] = Pending
    /\ results' = [results EXCEPT ![c] = v]
    /\ outcome' = IF \A o \in Calls \ {c} : results[o] # Pending
                  THEN [state |-> "resolved"]
                  ELSE Pending

\* Mutant: the rejected call's slot overwritten with the error.
RejectStoringError(c, e) ==
    /\ outcome = Pending
    /\ results[c] = Pending
    /\ outcome' = [state |-> "rejected", error |-> e, call |-> c]
    /\ results' = [results EXCEPT ![c] = e]

\* Call c rejects with e: the aggregate rejects with e at once.
Reject(c, e) ==
    /\ outcome = Pending
    /\ results[c] = Pending
    /\ outcome' = [state |-> "rejected", error |-> e, call |-> c]
    /\ UNCHANGED results

PANext ==
    \E c \in Calls :
        \/ \E v \in Responses[c] : Resolve(c, v)
        \/ \E e \in Errors : Reject(c, e)

PASpec == PAInit /\ [][PANext]_paVars

=============================================================================
