---------------------------- MODULE MCHttpdSend -----------------------------
(* HttpdSend with short tags and every page of up to two fragments.        *)
EXTENDS HttpdSend, TLC

MCTagDesc == <<[lead_in |-> <<"<", "#">>, lead_out |-> <<"-", ">">>],
               [lead_in |-> <<"/", "#">>, lead_out |-> <<"*", "/">>]>>
MCKnown == (<<"n">> :> <<<<"1", "2">>, <<"3">>>>) @@ (<<"m">> :> <<<<>>>>)

Fragments == {<<"a">>, <<"<", "#", "n", "-", ">">>, <<"<", "#", " ", "m", " ", "-", ">">>,
              <<"/", "#", "x", "*", "/">>, <<"<", "#", "-", ">">>, <<"<", "#", "n", "n", "-">>, <<"<", "a">>}
Hdrs == <<<<"h", "i", "j", "k">>, <<>>, <<"l">>>>

MCPages ==
  {[kind |-> "ssi", text |-> f \o g, hdrs |-> <<>>] : f \in Fragments, g \in Fragments}
  \cup {[kind |-> k, text |-> <<"a", "b", "c">>, hdrs |-> h] : k \in {"memory", "read"}, h \in {<<>>, Hdrs}}
  \cup {[kind |-> "none", text |-> <<>>, hdrs |-> h] : h \in {<<>>, Hdrs}}
=============================================================================
