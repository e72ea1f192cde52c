---------------------------- MODULE MCAddMember ----------------------------
(***************************************************************************)
(* Small instances of AddMember for TLC.  Characters are "a", "b" and the  *)
(* space; the inputs include the blank cases trim() decides, two distinct *)
(* valid names (so a name can change while a call is in flight) and a     *)
(* name with a space, which the group regex refuses.                       *)
(***************************************************************************)
EXTENDS AddMember

MCNameInputs == {<<>>, <<" ">>, <<"a">>, <<"b">>, <<" ", "a">>}
MCJustificationInputs == {<<>>, <<" ">>, <<"a">>}
MCDateInputs == {<<>>, <<"b">>}
\* GROUP_MEMBER_NAME_REGEX admits no space.
MCGroupNameMatches == {s \in MCNameInputs : s # <<>> /\ \A i \in 1..Len(s) : s[i] # " "}
=============================================================================
