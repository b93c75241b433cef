-------------------------- MODULE MCRequestReader --------------------------
(* Instances of RequestReader for TLC; with MaxInt = 12, "12" is the last   *)
(* length that is an int and "20" the first that is none here.              *)
EXTENDS RequestReader

\* Values of Content-Length.  Numbers of one and two digits; numbers in other
\* spellings; and what std::stoi or std::string reject.
Numbers == {<<"0">>, <<"2">>, <<"1", "0">>}
Spellings ==
  {<<"2", "letter">>, <<"0", "2">>, <<"1", "2">>, <<"minus", "0">>, <<"plus", "2">>}
NoNumbers ==
  {<<>>, <<"letter", "2">>, <<"plus">>, <<"minus", "2">>, <<"minus", "minus", "0">>,
   <<"2", "0">>, <<"1", "0", "0">>}

\* No header, each number alone, and two headers that contradict one another.
GoodLists ==
  {<<>>} \cup {<<v>> : v \in Numbers} \cup {<< <<"2">>, <<"1", "0">> >>, << <<"letter">>, <<"2">> >>}

\* Bodies shorter, as long as and longer than declared; with a next request.
AllMessages ==
  {Message(l, body, 0) : l \in GoodLists, body \in {0, 1, 2, 10}}
    \cup {Message(l, 2, 1) : l \in GoodLists}
    \cup {Message(<<v>>, 2, 0) : v \in Spellings \cup NoNumbers}

\* One POST whose length has two digits.
OnePost == {Message(<< <<"1", "0">> >>, 10, 0)}
=============================================================================
