------------------------------ MODULE MCGroupPage ------------------------------
(***************************************************************************)
(* Responses for TLC: each call's response names the call; getDomain and  *)
(* getHeaderDetails carry the fields the page reads; isAWSTemplateApplied *)
(* answers either boolean; the two getMeta calls answer with or without a  *)
(* validValues list of one value over "a", "b" and ":", with no colon,     *)
(* one, a leading one or two.                                              *)
(***************************************************************************)
EXTENDS GroupPage, SequencesExt

JSTrue == "true"

MCValidValues == {<<"a", ":", "b">>, <<"a", "b">>, <<":", "b">>, <<"a", ":", ":">>}
MCMeta(c) == {[call |-> c]} \cup
             {[call |-> c, validValues |-> vv] : vv \in BoundedSeq(MCValidValues, 1)}

MCResponses ==
    [c \in 1..11 |->
        CASE c = getHeaderDetails -> {[call |-> c, userData |-> "userLink"]}
          [] c = getDomain -> {[call |-> c, name |-> "dom"]}
          [] c = isAWSTemplateApplied -> {JSTrue, JSFalse}
          [] c \in {getMeta, getMetaAll} -> MCMeta(c)
          [] OTHER -> {[call |-> c]}]
=============================================================================
