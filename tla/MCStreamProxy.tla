---------------------------- MODULE MCStreamProxy ----------------------------
(***************************************************************************)
(* StreamProxy for TLC: every pair of formats, with replies that mix       *)
(* thinking, text and calls.                                               *)
(***************************************************************************)
EXTENDS StreamProxy

Replies ==
  {<<Vendor!Thinking(<<"k">>, <<"s">>), Vendor!Text(<<"t", "u">>), Vendor!Call("a", <<"a1", "a2">>)>>,
   <<Vendor!Call("a", <<"a1", "a2">>), Vendor!Call("b", <<"b1">>)>>,
   <<Vendor!Sealed, Vendor!Text(<<"t">>)>>}
AllJson == {<<"a1", "a2">>, <<"b1">>}

Upstreams == {[from |-> f, api |-> f, brief |-> FALSE] : f \in Formats}
             \cup {[from |-> "gemini", api |-> "code_assist", brief |-> FALSE],
                   [from |-> "claude", api |-> "claude", brief |-> TRUE]}
AllCases == {[from |-> u.from, api |-> u.api, brief |-> u.brief, to |-> t, reply |-> r, limit |-> l] :
               u \in Upstreams, t \in Formats, r \in Replies, l \in {3, 40}}
===============================================================================
