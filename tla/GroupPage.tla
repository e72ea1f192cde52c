------------------------------ MODULE GroupPage ------------------------------
(***************************************************************************)
(* The groups page of a domain, src/ui/src/pages/domain/[domain]/group.js:  *)
(* getServerSideProps awaits Promise.all of eleven API calls, on a         *)
(* rejection substitutes eleven empty objects and the reload / error of    *)
(* RequestUtils.errorCheckHelper, splits the business-service values at    *)
(* their first ':', and returns the props; GroupPage.render then reloads,  *)
(* shows the error page, or renders the page from the props.               *)
(*                                                                         *)
(* Call i of the model is domains[i - 1] of the code.  API responses are   *)
(* records; the empty object {} is EmptyObject.                            *)
(***************************************************************************)
EXTENDS Integers, Sequences, PageLoader

\* The calls of the Promise.all array, in the order they are listed.
PromiseAllArray ==
    <<"listUserDomains", "getHeaderDetails", "getDomain", "getGroups",
      "getPendingDomainMembersList", "getForm", "isAWSTemplateApplied",
      "getFeatureFlag", "getMeta", "getMetaAll",
      "getPendingDomainMembersCountByDomain">>

\* The position of the named call in the array.
CallNamed(name) == CHOOSE c \in 1..Len(PromiseAllArray) : PromiseAllArray[c] = name

\* The indices the props block reads the results at (domains[i] is i + 1).
listUserDomains == 1
getHeaderDetails == 2
getDomain == 3
getGroups == 4
\* Mutant: the pending list read one slot early.
getPendingDomainMembersListOffByOne == 4
getPendingDomainMembersList == 5
getForm == 6
isAWSTemplateApplied == 7
getFeatureFlag == 8
getMeta == 9
getMetaAll == 10
getPendingDomainMembersCountByDomain == 11

\* Eleven calls; render reads headerDetails.userData.userLink unguarded, so
\* it relies on every getHeaderDetails response carrying userData; the
\* validValues of a domain meta answer, when present, is a list of strings.
ASSUME GroupPageAssumption ==
    /\ Calls = 1..11
    /\ None \notin {"reload", "errorPage", "page", "crash"}
    /\ \A r \in Responses[getHeaderDetails] : Get(r, "userData") # Undefined
    /\ \A c \in {getMeta, getMetaAll} : \A r \in Responses[c] :
          Truthy(Get(r, "validValues")) => r.validValues \in Seq(Seq(STRING))

(***************************************************************************)
(* String.prototype.indexOf and substring, on strings as sequences of      *)
(* one-character strings, with JavaScript's clamping of the bounds.        *)
(***************************************************************************)
\* Mutant: indexOf answering 1-based positions.
IndexOfOneBased(s, ch) ==
    IF \E i \in 1..Len(s) : s[i] = ch
    THEN CHOOSE i \in 1..Len(s) : s[i] = ch /\ \A j \in 1..(i - 1) : s[j] # ch
    ELSE -1

IndexOf(s, ch) ==
    IF \E i \in 1..Len(s) : s[i] = ch
    THEN (CHOOSE i \in 1..Len(s) : s[i] = ch /\ \A j \in 1..(i - 1) : s[j] # ch) - 1
    ELSE -1

Clamp(s, x) == IF x < 0 THEN 0 ELSE IF x > Len(s) THEN Len(s) ELSE x

Substring(s, a, b) ==
    LET lo == IF Clamp(s, a) <= Clamp(s, b) THEN Clamp(s, a) ELSE Clamp(s, b)
        hi == IF Clamp(s, a) <= Clamp(s, b) THEN Clamp(s, b) ELSE Clamp(s, a)
    IN  SubSeq(s, lo + 1, hi)

\* { value: bServiceOnlyId, name: bServiceOnlyName } of one valid value.
BusinessServiceOption(v) ==
    [value |-> Substring(v, 0, IndexOf(v, ":")),
     name  |-> Substring(v, IndexOf(v, ":") + 1, Len(v))]

\* if (meta && meta.validValues) meta.validValues.forEach(...push(...))
BusinessServiceOptions(meta) ==
    IF Truthy(meta) /\ Truthy(Get(meta, "validValues"))
    THEN [i \in 1..Len(meta.validValues) |->
             BusinessServiceOption(meta.validValues[i])]
    ELSE <<>>

VARIABLES
    props,     \* the props getServerSideProps returned, or None
    rendered   \* what GroupPage.render produced, or None

vars == <<results, outcome, props, rendered>>

TypeOK ==
    /\ PATypeOK
    /\ rendered \in {None, "reload", "errorPage", "page", "crash"}

Init ==
    /\ PAInit
    /\ props = None
    /\ rendered = None

\* One of the eleven calls settles.
CallSettles ==
    /\ PANext
    /\ UNCHANGED <<props, rendered>>

\* The await resumes: .catch() on a rejection, then the props are built.
ReturnProps ==
    /\ outcome # Pending
    /\ props = None
    /\ LET domains == LoadedData
           domainDetails ==
               [f \in DOMAIN domains[getDomain] \cup {"isAWSTemplateApplied"} |->
                   IF f = "isAWSTemplateApplied"
                   THEN Truthy(domains[isAWSTemplateApplied])
                   ELSE domains[getDomain][f]]
       IN  props' =
             [reload        |-> LoadStatus.reload,
              error         |-> LoadStatus.error,
              domains       |-> domains[listUserDomains],
              headerDetails |-> domains[getHeaderDetails],
              domain        |-> Get(domains[getDomain], "name"),
              domainDetails |-> domainDetails,
              groups        |-> domains[getGroups],
              users         |-> domains[getHeaderDetails],
              pending       |-> domains[getPendingDomainMembersList],
              csrf          |-> domains[getForm],
              featureFlag   |-> domains[getFeatureFlag],
              validBusinessServices    |-> BusinessServiceOptions(domains[getMeta]),
              validBusinessServicesAll |-> BusinessServiceOptions(domains[getMetaAll]),
              domainPendingMemberCount |->
                  domains[getPendingDomainMembersCountByDomain]]
    /\ UNCHANGED <<results, outcome, rendered>>

\* GroupPage.render(): reload, error page, or the page, which reads
\* headerDetails.userData.userLink.
Render ==
    /\ props # None
    /\ rendered = None
    /\ rendered' =
         IF props.reload THEN "reload"
         ELSE IF props.error # Null THEN "errorPage"
         ELSE IF Get(props.headerDetails, "userData") = Undefined THEN "crash"
         ELSE "page"
    /\ UNCHANGED <<results, outcome, props>>

Next == CallSettles \/ ReturnProps \/ Render

Spec == Init /\ [][Next]_vars

(***************************************************************************)
(* Properties                                                              *)
(***************************************************************************)
\* Whatever the calls do and in whatever order they settle, the page is
\* rendered only when every call resolved, and never crashes on the empty
\* objects the .catch substitutes: a rejection always ends in a reload or
\* the error page.
RenderedOnlyWithAllData ==
    /\ rendered = "page" => outcome \in Resolved
    /\ rendered # "crash"

\* When the page is rendered, each prop holds the response of the call it
\* is named for (the Promise.all array and the domains[...] indices agree).
PropsWiredToCalls ==
    LET R(name) == results[CallNamed(name)]
    IN  rendered = "page" =>
        /\ props.domains = R("listUserDomains")
        /\ props.headerDetails = R("getHeaderDetails")
        /\ props.users = R("getHeaderDetails")
        /\ props.domain = Get(R("getDomain"), "name")
        /\ props.groups = R("getGroups")
        /\ props.pending = R("getPendingDomainMembersList")
        /\ props.csrf = R("getForm")
        /\ props.featureFlag = R("getFeatureFlag")
        /\ props.domainDetails.isAWSTemplateApplied =
               Truthy(R("isAWSTemplateApplied"))
        /\ props.validBusinessServices =
               BusinessServiceOptions(R("getMeta"))
        /\ props.validBusinessServicesAll =
               BusinessServiceOptions(R("getMetaAll"))
        /\ props.domainPendingMemberCount =
               R("getPendingDomainMembersCountByDomain")

\* Each business-service option is the valid value split at its first ':'
\* (value before, name after); a value without ':' gives an empty id and
\* the whole value as its name.
BusinessServicesSplitAtColon ==
    rendered = "page" =>
        \A i \in 1..Len(props.validBusinessServices) :
            LET v   == results[CallNamed("getMeta")].validValues[i]
                opt == props.validBusinessServices[i]
            IN  IF \E j \in 1..Len(v) : v[j] = ":"
                THEN /\ opt.value \o <<":">> \o opt.name = v
                     /\ \A j \in 1..Len(opt.value) : opt.value[j] # ":"
                ELSE opt = [value |-> <<>>, name |-> v]

=============================================================================
