------------------------------ MODULE TagsPage ------------------------------
(***************************************************************************)
(* The tags page of a group,                                               *)
(* src/ui/src/pages/domain/[domain]/group/[group]/tags.js:                  *)
(* getServerSideProps awaits Promise.all of five API calls, on a rejection *)
(* substitutes five empty objects and the reload / error of                *)
(* RequestUtils.errorCheckHelper, strips the undefined fields of the group *)
(* and returns the props; GroupTagsPage.render then reloads, shows the     *)
(* error page, or renders the tag list of the group.                       *)
(*                                                                         *)
(* Call i of the model is tagsData[i - 1] of the code.                     *)
(***************************************************************************)
EXTENDS Integers, Sequences, PageLoader

CONSTANTS
    QueryDomain,  \* context.query.domain
    QueryGroup    \* context.query.group

ASSUME TagsPageAssumption ==
    /\ Calls = 1..5
    /\ None \notin {"reload", "errorPage", "page"}

\* The calls of the Promise.all array, in the order they are listed.
PromiseAllArray ==
    <<"listUserDomains", "getHeaderDetails", "getDomain", "getGroup", "getForm">>

\* The position of the named call in the array.
CallNamed(name) == CHOOSE c \in 1..Len(PromiseAllArray) : PromiseAllArray[c] = name

\* The indices the props block reads the results at (tagsData[i] is i + 1).
listUserDomains == 1
getHeaderDetails == 2
getDomain == 3
\* Mutant: the group read from the domain's slot.
getGroupOffByOne == 3
getGroup == 4
getForm == 5

\* JsonUtils.omitUndefined(obj): obj without its undefined fields.
OmitUndefined(obj) == [f \in {h \in DOMAIN obj : obj[h] # Undefined} |-> obj[f]]

VARIABLES
    props,     \* the props getServerSideProps returned, or None
    rendered   \* what GroupTagsPage.render produced, or None

vars == <<results, outcome, props, rendered>>

TypeOK ==
    /\ PATypeOK
    /\ rendered \in {None, "reload", "errorPage", "page"}

Init ==
    /\ PAInit
    /\ props = None
    /\ rendered = None

\* One of the five calls settles.
CallSettles ==
    /\ PANext
    /\ UNCHANGED <<props, rendered>>

\* The await resumes: .catch() on a rejection, then the props are built.
ReturnProps ==
    /\ outcome # Pending
    /\ props = None
    /\ props' =
         [reload        |-> LoadStatus.reload,
          error         |-> LoadStatus.error,
          groupName     |-> QueryGroup,
          domains       |-> LoadedData[listUserDomains],
          headerDetails |-> LoadedData[getHeaderDetails],
          domainDetails |-> LoadedData[getDomain],
          groupDetails  |-> OmitUndefined(LoadedData[getGroup]),
          csrf          |-> LoadedData[getForm],
          domain        |-> QueryDomain]
    /\ UNCHANGED <<results, outcome, rendered>>

\* GroupTagsPage.render(): reload, error page, or the page with the tag
\* list of groupDetails.
Render ==
    /\ props # None
    /\ rendered = None
    /\ rendered' = IF props.reload THEN "reload"
                   ELSE IF props.error # Null THEN "errorPage"
                   ELSE "page"
    /\ UNCHANGED <<results, outcome, props>>

Next == CallSettles \/ ReturnProps \/ Render

Spec == Init /\ [][Next]_vars

(***************************************************************************)
(* Properties                                                              *)
(***************************************************************************)
\* The tag list is rendered only when every call resolved: a rejection
\* always ends in a reload or the error page, never in a tag list of the
\* empty defaults.
RenderedOnlyWithAllData == rendered = "page" => outcome \in Resolved

\* When the page is rendered, each prop holds the response of the call it
\* is named for, and the tag list gets the group's own tags.
PropsWiredToCalls ==
    LET R(name) == results[CallNamed(name)]
    IN  rendered = "page" =>
        /\ props.domains = R("listUserDomains")
        /\ props.headerDetails = R("getHeaderDetails")
        /\ props.domainDetails = R("getDomain")
        /\ Get(props.groupDetails, "tags") = Get(R("getGroup"), "tags")
        /\ props.csrf = R("getForm")

=============================================================================
