----------------------------- MODULE MCAnalysis ------------------------------
(* Two personas, one with two prompts, and four answers: an empty one, one     *)
(* with the context name in a category sentence and an unlisted product of a   *)
(* rival, one with the brand's full name and another rival's product, one with *)
(* words whose capital grammar forces and the context name outside the         *)
(* category, next to a rival.  The rival Carnival is sent without aliases.     *)
EXTENDS Analysis

MCFold ==
    [Disney |-> "disney", Cruise |-> "cruise", Line |-> "line", Wish |-> "wish",
     Royal |-> "royal", Caribbean |-> "caribbean", Icon |-> "icon", Carnival |-> "carnival"]
MCBrand == <<"disney", "cruise", "line">>
MCBrandNames == <<MCBrand, <<"disney", "cruise">>>>
MCContextNames == <<<<"disney">>>>
MCRivals == <<[name |-> <<"royal", "caribbean">>, names |-> <<<<"royal", "caribbean", "group">>>>],
              [name |-> <<"carnival">>, names |-> <<>>]>>

MCPersonas == <<"anna", "ben">>
MCIdOf == [anna |-> "a", ben |-> "b"]
MCPromptsOf == [anna |-> <<1, 2>>, ben |-> <<3>>]
MCAnswers ==
    { <<>>,
      <<"Royal", "Caribbean", "Icon", ":", "Disney", "Wish", "cruise">>,
      <<"Disney", "Cruise", "Line", "suits", ".", "Carnival", "Icon">>,
      <<"Cruise", ":", "Icon", ".", "Carnival", "copies", "Disney">> }

Suggest(competitor, text) == [competitor |-> competitor, mentionText |-> text]
MCReplies ==
    [ sentiment   : {"Positive", "Neutral", "Negative", "unlisted"},
      mentionText : {<<>>, <<"cruise">>, <<"disney", "wish">>, <<"icon">>},
      competitorMentions :
        { <<>>,
          <<Suggest(<<"royal", "caribbean">>, <<"icon">>), Suggest(<<"msc">>, <<"icon">>)>>,
          <<Suggest(<<"carnival">>, <<"icon">>), Suggest(<<"carnival">>, <<"disney">>)>> } ]

\* The theorems on evidence, ranks and numbers are about names and ids like these.
ASSUME MCNamesAreApart == DistinctiveNames /\ RivalsApart /\ IdsApart
==============================================================================
