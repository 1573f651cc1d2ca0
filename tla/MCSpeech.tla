------------------------------ MODULE MCSpeech ------------------------------
(***************************************************************************)
(* Speech with calls whose strings hold commas, parentheses, quotes of the *)
(* other kind, a comment's # and a reference, and a joinner that thinks,   *)
(* acts, breaks lines and says halves of stop strings.                     *)
(***************************************************************************)
EXTENDS Speech

Text(quote, text) == [kind |-> "string", quote |-> quote, text |-> text]
Ref(n) == [kind |-> "ref", quote |-> "\"", text |-> <<n>>]
Number(text) == [kind |-> "int", text |-> text]

MCCalls == {
  <<>>,
  <<Text("\"", <<"hi", ",", " ", "ho">>), Number(<<"-", "1", "2">>)>>,
  <<Text("\"", <<"wolf", "(", "'", ")">>), Ref("1")>>,
  <<Text("'", <<"\"", "#", "1">>), Text("\"", <<>>), Text("'", <<"#", "#">>)>>,
  <<Text("\"", <<"wolf", ")", "#">>), Number(<<"1">>)>>,
  <<Text("\"", <<"$", "hi">>), Text("'", <<")", " ", "hi">>), Ref("2")>>,
  <<Text("'", <<")", " ", "#">>), Ref("1")>>,
  <<Number(<<"2", "1">>), Ref("2")>>
}

MCTokens == {
  <<"Action:">>, <<" Answer:">>, <<"Thought:">>, <<"(">>, <<")">>, <<"Replan">>,
  <<"word", " ">>, <<"\n">>, <<"</">>, <<"s>">>, <<"s>", "</", "s>">>
}

MCStops == [planner |-> {<<"#", "#", "#">>, <<"</", "s>">>}, joinner |-> {<<"</", "s>">>}]

MCDigits == {"1", "2"}

(* 21 is too large.                                                        *)
MCFits == [int |-> {<<"1">>, <<"2">>, <<"1", "2">>, <<"-", "1", "2">>}, ref |-> {<<"1">>, <<"2">>}]

MCPieces ==
  UNION {{token[i] : i \in DOMAIN token} : token \in MCTokens}
    \cup {"1.f(", ")", ",", " ", "$", "-", "\"", "'", "#", "1", "2", "hi", "ho", "wolf", "("}
=============================================================================
