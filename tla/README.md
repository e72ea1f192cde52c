# TLA+ models of the Athenz UI: member form, pending-member aggregation, page loaders

This directory holds TLA+ models of the parts of `src/ui/src` that hold state
or combine asynchronous results. It also holds TLC configurations that check
the models on small instances, and TLAPS proofs of the central invariants of
the member form and the tags page loader.

## 1. The system and its parts

| Part | Source | State | Operations |
|---|---|---|---|
| AddMember form | `components/member/AddMember.js` | `memberName`, `justification`, `memberExpiry`, `memberReviewReminder`, `errorMessage`, `showModal` (React state) | `inputChanged` (name, justification), the two FlatPicker `onChange`s, `onSubmit` (three checks, then `api.addMember`), the call's `.then` and `.catch` |
| Pending-member aggregation | `server/utils/apiUtils.js` `getPendingDomainMemberData` | the object `pendingMap` being built, and the loop positions | one write per grant: the role lists first, then the group lists |
| Pending-member fetch | `apiUtils.js` `getPendingDomainMembersPromise` | two promises around ZMS callbacks | push the group promise, then push the role promise |
| Group list page | `pages/domain/[domain]/group.js` | results of eleven calls, the props, the render | `getServerSideProps` (Promise.all, `.catch`, business-service split, props), `render` |
| Group tags page | `pages/domain/[domain]/group/[group]/tags.js` | results of five calls, the props, the render | `getServerSideProps`, `render` |

How the parts interact:
- The form calls the backend (`api.addMember`) and, on success, the parent's
  `onSubmit(key, false)`. Nothing stops a second submit while a call is in
  flight.
- The aggregation consumes the array of `getPendingDomainMembersPromise`.
  Index 0 is the group list and index 1 is the role list.
- Both pages use the same pattern: `await Promise.all([...]).catch(...)`.
  The catch replaces every result with `{}` and sets `reload` or `error`
  through `RequestUtils.errorCheckHelper`.

The behaviours that make this code hard to test:
- Calls settle in any order.
- A form submit races with later edits and with a second submit.
- One rejection in a `Promise.all` empties every result.
- A JavaScript object keeps a key's first insertion position when the key
  is overwritten.
- Keys are built by string concatenation.
- A promise that never settles when a callback gets neither `err` nor `data`.

## 2. Modules

| Module | Models | Notes |
|---|---|---|
| `AddMember` | the form | Each handler is one action. The async call is split into `SubmitValid` (the call is issued) and `AddMemberSucceeds(i)` / `AddMemberFails(i)` (its `.then` / `.catch`). `requests` is the history of calls, and `notified` the history of the parent's `onSubmit` calls (with a ghost `request` index). |
| `AddMemberProofs`, `PageLoaderProofs`, `TagsPageProofs`, `GroupPageProofs`, `PendingAggregatorProofs` | proofs | The inductive invariants, the lemmas and the theorems (section 5). |
| `PendingReference` | the record, key and `\|\| null` of `getPendingDomainMemberData` | It also holds the reference definition of the intended result, `ReferenceMapOf` and `ReferenceOrderOf`: last write wins per key, with keys in first-insertion order. |
| `PendingAggregator` | `getPendingDomainMemberData` | The three nested `forEach` loops become a state machine over `d, m, g`. `keyOrder` is the object's iteration order. |
| `PendingLoadSpec` | abstract spec of the load (spec §4.1, §5) | Endpoints reply in any order. The load fails if one fails, or builds the reference map of both replies in one step. |
| `PendingLoad` | `getPendingDomainMembersPromise` composed with Promise.all and the aggregation | Extends `PromiseAll` and instantiates `PendingAggregator`. Covers the two pushed promises, each ZMS callback (`if (err) reject; if (data) resolve`) called once with any (err, data) pair, the hand-off `values[1]` → role and `values[0]` → group, and the caller's failure path (outside `src/`, modelled from the spec). It refines `PendingLoadSpec`, and states `Fairness` and `LoadFinishes`. |
| `PromiseAll` | `Promise.all` as the loaders use it | A call resolves or rejects, in any order. The aggregate resolves after the last resolution and rejects at the first rejection. |
| `PageLoader` | the loaders' shared `.catch` | Extends `PromiseAll`. `errorCheckHelper` is a stub modelled from the spec: status 0 gives reload, anything else gives error. |
| `GroupPage`, `TagsPage` | the two pages | Extend `PageLoader`. Their actions are `CallSettles`, `ReturnProps` (the code after the await) and `Render`. |
| `MC*` | TLC instances | Small sets of names, responses and payloads. |

Data is abstracted as follows:
- Strings are sequences of one-character strings, so `trim`, `indexOf`,
  `substring` (with its clamping) and `+` are modelled by what they do.
- `undefined`, `null`, `false`, the placeholder justification and backend
  errors are model values.
- The `{}` that the catch substitutes is the record `EmptyObject`. Reading a
  missing field of it gives `Undefined`.

## 3. Runs

| Run | Checks | Bounds | Result |
|---|---|---|---|
| `addmember_role` | TypeOK, RequestsPassedValidation, FormMatchesOutcomes | names `"", " ", "a", "b", " a"`; two dates; at most 2 calls | pass (75k states) |
| `addmember_group` | RequestsPassedValidation, for a group form with justification required (the regex and justification branches the role form never takes) | names as above; justifications `"", " ", "a"` | pass |
| `aggregator_reference` | TypeOK, AggregateMatchesReference | one domain, at most 2 members with at most 1 grant each, in both payloads; names built so that keys collide | pass (147k states) |
| `grouppage` | TypeOK, RenderedOnlyWithAllData, PropsWiredToCalls, BusinessServicesSplitAtColon | 11 calls, each with one or a few responses; two errors (reload, server error) | pass (1.08M states) |
| `tagspage` | TypeOK, RenderedOnlyWithAllData, PropsWiredToCalls | 5 calls; group with tags, without tags, or with undefined tags | pass |
| `pendingload` | TypeOK, ImplementsLoadSpec (refinement), LoadFinishes (liveness) | each callback gets one of: error only, data only, both (one error, a list of ≤1 domain with ≤2 entries of one member with ≤1 grant of two collections) | pass (12.6k states) |
| `pendingload_hang` | LoadFinishes | as pendingload, plus callbacks with neither err nor data | violation |
| `addmember_stale_key` | NotifiedKeyNamesAddedMember | as role | violation |
| `addmember_failure_on_closed_form` | FailureShownInOpenForm | as role | violation |
| `addmember_untrimmed` | SubmittedInputsTrimmed | as role | violation |
| `aggregator_key_collision` | SizeEqualsDistinctTriples | as aggregator | violation |
| `aggregator_order` | RoleEntriesFirst | as aggregator | violation |

Why these bounds are enough:
- Two calls are the smallest number at which overlapping submits happen.
  After them, edits between and after the calls reach every order of
  (submit, edit, settle).
- The name set contains an empty name, a blank name, a name with a space
  (which fails the group regex and shows trimming), and two distinct valid
  names (for the stale-key case).
- The aggregator's names `"a"+"bb"` and `"ab"+"b"` collide. The same triple
  can also appear in both payloads, which is the overwrite case.
- Each page call may reject. Every order of settling is explored.

The pendingload lists can carry the same triple in both endpoints and twice in one list. That exercises last-write-wins and key order through the refinement. The aggregator run already covers concatenation collisions.

Deadlock checking is off in all runs, and each cfg says so. Each model ends
in a final state: the loops have returned, the page has rendered, or the
submit budget is used up. This matches the code, where that is where the
handler stops.

Fairness is assumed only for steps that the code does not leave to a user:
- `PendingLoad.Fairness` is weak fairness of each ZMS callback, of the
  continuation after the `await`, and of the aggregation loop steps.

The callbacks and API calls are assumed to be answered eventually: the
clients have request timeouts. That assumption lives outside `src/`. The
continuations and loops are synchronous JavaScript that the event loop runs.

The form (`AddMember`) has no fairness, because a user need never act.
The pages (`GroupPage`, `TagsPage`) have none either. Once the calls
settle, the continuation and the render always run, and a rejection is
caught. The calls settling is an assumption about the backend, so a
"the page is eventually shown" property would hold by that assumption
alone.

## 4. Findings

1. **Stale key** (`AddMember.js:172`). `.then` builds the parent's key from
   `this.state.memberName` at settle time. If the name is edited while the
   call is in flight, the parent refreshes for a member that was not added.
2. **Failure on a closed form** (`AddMember.js:154,177`). There is no
   in-flight guard. Suppose two submits are made, one succeeds and the other
   fails. The success closes the modal, so the error is never shown.
3. **Untrimmed values** (`AddMember.js:158`). The name is validated with
   `trim()` but sent as typed.
4. **Key collision** (`apiUtils.js:30`). `domainName + memberName + roleName`
   has no separator. Two pending requests with different triples share one
   entry, so one request is lost.
5. **Order** (`apiUtils.js:58`). A group grant that overwrites a role grant's
   key keeps the role key's early position. As a result, the role entries do
   not all come first.
6. **Hang** (`apiUtils.js:88`). A ZMS callback settles its promise only
   for a truthy `err` or `data`. With neither, that promise and the
   Promise.all over it never settle, so the load never ends
   (`pendingload_hang`). Under the same fairness, without such replies,
   every load ends.

## 5. Proofs (TLAPS)

Each proof module extends the module it is about and TLAPS. Every
invariant below is proved as `Spec => []P` from an inductive invariant
`IInv`: `Init => IInv` (`InitIInv` or `Init...`), `IInv /\ [Next]_vars =>
IInv'` (`NextIInv` or `Next...`), and `IInv => P`, combined by PTL. Before
it was proved, each strengthened `IInv` was checked by TLC as an invariant
of the module's run.

### `AddMemberProofs`

The proofs hold for every category, flag value, input set and submit bound
that satisfies the module's assumptions:
- `TypeCorrect`: `Spec => []TypeOK`.
- `ValidationGuardsBackend`: `Spec => []RequestsPassedValidation`. Every
  call the form makes passed the checks of `onSubmit`: the name is not
  blank, a group name matches the regex, and a required justification is
  not blank and is not replaced by the placeholder.
- `FormOutcomesInvariant`: `Spec => []FormMatchesOutcomes`. The modal is
  open exactly while no call has succeeded, and `onSubmit` has been called
  once per successful call. It covers every interleaving of submits, edits
  and calls that settle out of order.

The inductive invariant of the first two is `IInv == TypeOK /\
RequestsPassedValidation`. `RequestsPassedValidation` alone is not
inductive:
- its step for `SubmitValid` needs the type of the form's fields, to
  conclude that the new call is a well-typed, validated record;
- its steps for the settling actions need `requests \in Seq(Request)`, to
  know that `EXCEPT` changes only the status.

`FormMatchesOutcomes` is inductive relative to `IInv`. `NextFormOutcomes`
proves `IInv /\ FormMatchesOutcomes /\ [Next]_vars =>
FormMatchesOutcomes'`, with one case per action:
- a submit appends a pending call, so `Succeeded` is unchanged (lemma
  `AppendPendingSucceeded`);
- a success adds exactly its own, still pending, index to `Succeeded`,
  and appends one notification (lemma `SettleSucceeded`, with
  `FS_AddElement`);
- a failure leaves `Succeeded` alone.

The proofs rest on these lemmas:
- `NewRequestType` and `NewRequestValidated`: the call that `onSubmit`
  builds is well typed and validated when the checks pass.
- `SettleType`: settling a call changes only its status. It uses
  `ExceptSeq` of SequenceTheorems.
- `TrimEmpty` and `NotBlankTruthy`: a non-blank field is truthy, so the
  placeholder is not used.
- `SucceededFinite`, `AppendPendingSucceeded` and `SettleSucceeded`: how
  the set of successful calls evolves, and that it is finite (`FS_Subset`
  of an interval), so `Cardinality` applies.

### `PageLoaderProofs`

These are lemmas about the loaders' shared `.catch` and helpers, cited by
both page proofs:
- `HelperSignalsFailure`: `errorCheckHelper` of any backend error gives
  `reload = TRUE` or a non-null error. It relies on `Null \notin Errors`.
- `LoadStatusSignals`: after a rejection the status signals failure.
  Otherwise it is `reload = FALSE, error = null`, and `LoadedData` is the
  results themselves.
- `OmitUndefinedGet`: reading a field of `omitUndefined(obj)` gives what
  reading it of `obj` gives.

### `TagsPageProofs`

These proofs hold for every set of calls, responses and errors that satisfies
`PromiseAllAssumption`, `PageLoaderAssumption` and `TagsPageAssumption`:
- `TagsTypeCorrect`: `Spec => []TypeOK`.
- `TagsRenderedOnlyWithAllData`: `Spec => []RenderedOnlyWithAllData`.
- `TagsPropsWiredToCalls`: `Spec => []PropsWiredToCalls`. When the tag
  list is rendered, each prop is the response of the call it is named
  for. Lemma `CallsNamed` ties the `Promise.all` array to the indices
  the props block reads.

`TagsPageAssumption` includes that `None` is not a render result.

The inductive invariant is `TypeOK /\ PropsReflectOutcome /\
PropsFromResults /\ PageFromCleanProps`. It says four things:
- props exist only after the aggregate has settled;
- props built after a rejection carry `reload = TRUE` or a non-null
  error;
- props built after a resolution hold the results, by position;
- the tag list is rendered only from props with neither reload nor error.

It is needed because:
- the `Render` step alone cannot see why props with no error come from a
  resolved aggregate;
- the call steps need that no call can change the outcome, or the
  results, once props exist.

### `GroupPageProofs`

These proofs hold for every set of responses and errors that satisfies the
assumptions, including `GroupPageAssumption`:
- `GroupTypeCorrect`: `Spec => []TypeOK`.
- `GroupRenderedOnlyWithAllData`: `Spec => []RenderedOnlyWithAllData`.
  The page is rendered only after all eleven calls resolved, and `render`
  never reaches `headerDetails.userData.userLink` on the `{}` of the
  `.catch()`.
- `GroupPropsWiredToCalls`: `Spec => []PropsWiredToCalls`. This covers all
  twelve props read from `domains[0..10]`, including
  `domainDetails.isAWSTemplateApplied` and the two business-service lists.

`render` dereferences `headerDetails.userData` without a guard (group.js
render). So "never crashes" holds only if every `getHeaderDetails`
response carries `userData`. This is the API's contract, and
`GroupPageAssumption` states it. It is not hollow:
- TLC evaluates the assumption on the `grouppage` run, whose responses
  satisfy it;
- without the `.catch()`'s error status, a rejection does reach the crash
  (the mutant `ErrorCheckHelperDropsError`).

The inductive invariant adds `ResolvedHasAllResults` to the tags page's
conjuncts: an aggregate that settled without rejecting holds a response
for every call. That conjunct is what lets the `Render` step conclude
that `props.headerDetails` is a real `getHeaderDetails` response, and so
carries `userData`. `RenderedFromCleanProps` also records that
`rendered = "crash"` exactly when that field is missing.

### `PendingAggregatorProofs`

These proofs hold for all role and group lists of the shape ZMS answers
with, any number of domains, members and grants. The shape (`Payload` of
`PendingReference`: names are strings, an expiration is a string or
missing) is stated by `PendingAggregatorAssumption`:
- `AggregatorTypeCorrect`: `Spec => []TypeOK`.
- `AggregatorLastWriteWins`: `Spec => []LastWriteWinsInLoopOrder`. When
  `getPendingDomainMemberData` returns, `pendingMap` has exactly the keys
  of the grants. Each key maps to the record of the last grant with that
  key in loop order (role list before group list, then domain, member
  and grant index). `keyOrder` lists the keys in the order of their first
  grant. This is the result that `AggregateMatchesReference` checks on
  the `aggregator_reference` run, restated over loop positions so that it
  can be proved for lists of every size. No run checks it separately.

The property names the grants by their positions `<<source, d, m, g>>`,
ordered by `Before`. The loop invariant is `IInv == TypeOK /FrontierReset /\ BuiltFrom(Visited)`. `Visited` is the set of positions
before the loops' current one. `BuiltFrom(V)` says the map and the key
order are last-write-wins over `V`. Each conjunct is needed:
- `VisitGrant` adds exactly the current position, which comes after every
  visited one. Writing its record keeps last-write-wins (lemma
  `VisitGrantBuilt`), and `Append` keeps first-insertion order.
- `EndMember`, `EndDomain` and `EndSource` add no position: the indices
  they step over address no grant (lemmas `End...Visited`).
- `EndSource` needs `FrontierReset`: a finished list loop has reset its
  member and grant indices, so the first position of the group list
  comes after every role position.
- When `source = "done"`, every position is visited (`DoneVisitedAll`).

`PositionsIff` unfolds the three nested `UNION`s of `Positions`. It is
proved one level at a time.

### `GroupPageProofs`: the business-service options

`GroupBusinessServicesSplit` proves `Spec =>
[]BusinessServicesSplitAtColon` for valid values of every length: each
option of the rendered page is the `getMeta` valid value at the same index
split at its first `':'`. A value with no colon gives an empty id and the
whole value. It rests on these lemmas:
- `FirstOccurrence`: a character that occurs has a first occurrence. It
  uses `WFMin` on `<` over `Nat` from WellFoundedInduction, so no
  induction with an operator parameter is needed.
- `IndexOfFirst`: `indexOf` gives its 0-based position, or -1.
- `SplitAtColon`: `substring` with its clamping cuts out the two parts,
  which concatenate back to the value around `':'`. This uses
  `SubSeqProperties`, `ConcatProperties` and `SeqEqual`.

`GroupPageAssumption` adds the contract this needs: a `validValues` field,
when present, is a list of strings. TLC evaluates the assumption on the
`grouppage` run.

### What stays model-checked only

- **Liveness.** `LoadFinishes` needs fairness and ENABLED,
  which are beyond TLAPS.
- **`AggregateMatchesReference` and the refinement `ImplementsLoadSpec`.**
  Both compare against `ReferenceMapOf(ProcessedOf(...))`. `ProcessedOf`
  flattens the nested lists with `FlattenSeq`, a recursive function.
  Unfolding it for lists of every length needs the inductive-definition
  theorem of NaturalsInduction, whose operator parameter the installed
  provers cannot instantiate. `LastWriteWinsInLoopOrder` states the same
  last-write-wins result over positions instead, and it is proved.
- **The composition in `PendingLoad`.** A theorem of `PendingAggregatorProofs`
  cited through `INSTANCE` is not available to tlapm 1.4.5 (even `BY
  AP!NextIInv` fails for its own statement). `PendingLoad` cannot extend
  the proof module either, because both define `Init`, `Next` and
  `TypeOK`. Proving it would mean repeating the aggregator's proof.
- **`PendingLoad`'s `TypeOK`.** The model starts with `roleData = <<>>`
  before any list arrives. It is typed only if the empty list is one of
  `RolePayloads`. The code does not promise that, so no assumption says it.

## 6. Not modelled

- **The caller of `getPendingDomainMembersPromise`** (server API code) is
  outside `src/`. Its `await Promise.all` and its failure path are modelled
  from the spec (`LoadFails`, `Aggregate`).
- **The ZMS server, RequestUtils, DateUtils, JsonUtils, RegexUtils,
  userService and React** are outside `src/`. `errorCheckHelper`,
  `uxDatetimeToRDLTimestamp` and `omitUndefined` are stubs modelled from
  the spec.
- **The snapshot tests** hold no state.
- **Layout, wording and the rendered component trees** are left out, except
  for the single field that `render` dereferences.

## 7. Plan for later work

1. An abstract spec of the form, with `AddMember` refining it through
   `INSTANCE ... WITH`.
2. More proofs: a TLAPS refinement proof once an abstract form spec
   exists; the pending load's composition, once its aggregator invariant
   can be stated in one module with the load's.
3. Liveness of the group page on a reduced instance.
