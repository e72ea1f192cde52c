------------------------------ MODULE MCTagsPage ------------------------------
(***************************************************************************)
(* Responses for TLC: each response names its call; the group comes with  *)
(* tags, with no tags field, or with tags undefined, which omitUndefined   *)
(* strips.                                                                 *)
(***************************************************************************)
EXTENDS TagsPage

MCResponses ==
    [c \in 1..5 |->
        IF c = getGroup
        THEN {[call |-> c, tags |-> "tags"], [call |-> c],
              [call |-> c, tags |-> Undefined]}
        ELSE {[call |-> c]}]
=============================================================================
