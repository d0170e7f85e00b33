------------------------------- MODULE MCText -------------------------------
(* Documents of one or two short paragraphs: plain, bold, and none at all.  *)
EXTENDS Text

Bold(s) == [i \in DOMAIN s |-> [ch |-> s[i], bold |-> TRUE]]

MCDocuments ==
  {<<>>, <<Plain(<<"a", "b">>)>>, <<Plain(<<"a">>), Plain(<<"a">>)>>,
   <<Bold(<<"a">>)>>}

(* As it should be, too long, and from two places before: elsewhere, or from *)
(* a negative offset.                                                       *)
MCShifts == {<<0, 0>>, <<0, 1>>, <<-2, 0>>}

(* A word and two paragraphs.                                               *)
MCTexts == {<<<<"x">>>>, <<<<"x">>, <<"y">>>>}

MCCharacters == {"a", "b", "x", "y", "sp", "nl", "<", ">"}

=============================================================================
