-------------------------- MODULE PageLoaderProofs --------------------------
(***************************************************************************)
(* Lemmas about what the page loaders share: the .catch() with             *)
(* RequestUtils.errorCheckHelper and the data the props are read from.     *)
(***************************************************************************)
EXTENDS PageLoader, TLAPS

\* errorCheckHelper answers every error with a reload or an error object.
LEMMA HelperSignalsFailure ==
    ASSUME NEW e \in Errors
    PROVE  /\ ErrorCheckHelper(e).reload \in BOOLEAN
           /\ ErrorCheckHelper(e).reload = TRUE \/ ErrorCheckHelper(e).error # Null
BY PageLoaderAssumption DEF ErrorCheckHelper

\* The reload / error props are a Boolean and, after a rejection, signal it;
\* before one, the props are read from the responses themselves.
LEMMA LoadStatusSignals ==
    ASSUME outcome \in {Pending} \cup Resolved \cup Rejected
    PROVE  /\ LoadStatus.reload \in BOOLEAN
           /\ outcome \in Rejected =>
                  LoadStatus.reload = TRUE \/ LoadStatus.error # Null
           /\ outcome \notin Rejected =>
                  /\ LoadStatus.reload = FALSE /\ LoadStatus.error = Null
                  /\ LoadedData = results
<1>1. outcome \in Rejected => outcome.error \in Errors
  BY DEF Rejected
<1>2. QED
  BY <1>1, HelperSignalsFailure DEF LoadStatus, LoadedData

\* obj.f is the same after JsonUtils.omitUndefined(obj).
LEMMA OmitUndefinedGet ==
    ASSUME NEW obj, NEW f
    PROVE  Get([h \in {k \in DOMAIN obj : obj[k] # Undefined} |-> obj[h]], f)
           = Get(obj, f)
BY DEF Get

=============================================================================
