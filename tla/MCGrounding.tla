---------------------------- MODULE MCGrounding ------------------------------
(* Two buyer questions (the third persona has no prompts), five searches (one  *)
(* verbatim, the same again, one trimmed, one off topic, one that names the    *)
(* brand), a blog with three pages, a forum and a shop with one each, the      *)
(* brand's own page.                                                           *)
EXTENDS Grounding

MCQueryWords ==
    [verbatim |-> {"which", "ship", "cabins"}, again |-> {"which", "ship", "cabins"},
     trimmed |-> {"family", "cruise"}, astray |-> {"weather"}, lookup |-> {"disney", "family"}]
MCPromptLists == << <<{"which", "ship", "cabins"}>>, <<>>,
                    <<{"cheap", "tickets"}, {"best", "family", "cruise", "singapore"}>> >>

MCDomainOf == [blog1 |-> "blog", blog2 |-> "blog", blog3 |-> "blog", thread |-> "forum", review |-> "shop", own |-> "disney"]
MCTitles == [blog1 |-> 0, blog2 |-> 1, blog3 |-> 0, thread |-> 0, review |-> 1, own |-> 2]
MCPassages == [blog1 |-> 0, blog2 |-> 0, blog3 |-> 1, thread |-> 1, review |-> 0, own |-> 1]

Found(list) == [ok |-> TRUE, pages |-> list]
Error == [ok |-> FALSE, pages |-> <<>>]
Returned == {Error, Found(<<>>), Found(<<"review">>),
             Found(<<"blog1", "blog2", "own">>), Found(<<"thread", "blog3">>)}
MCRan == {<<"verbatim">>, <<"verbatim", "again">>, <<"verbatim", "trimmed">>, <<"trimmed", "lookup">>, <<"astray", "lookup">>}
MCResponses ==
    UNION {[ran : {ran}, results : [ToSet(ran) -> Returned], cited : {<<>>, <<"blog3">>}] : ran \in MCRan}
MCBodies == [brand : {0, 2}, rival : {0, 1}]
==============================================================================
