---------------------------- MODULE MCInventory ------------------------------
(* Two exports.  The first lists a site twice for one creative type, another   *)
(* site by a mangled name, a hosting platform and two apps of one publisher;   *)
(* the second has only the site, with other figures, and one of the apps.      *)
EXTENDS Inventory

Yahoo    == <<"yahoo", "com">>
Tumblr   == <<"tumblr", "com">>
Player   == <<"tunein", "com">>          \* a publisher's website
Invented == <<"tuneinradio", "com">>     \* resolves to nothing
Radio    == <<"418987775">>              \* its apps, by store id
Sport    == <<"com", "tunein", "app">>   \* and by package
Mangled  == <<"merriam webster", "com">>

Row(token, creative, bids, lo, hi) ==
    [token |-> token, creative |-> creative, bids |-> bids, lo |-> lo, hi |-> hi]

First ==
    { Row(<<"www", "yahoo", "com">>, "banner", 90, 2, 4), Row(Yahoo, "banner", 60, 1, 3),
      Row(Mangled, "native", 20, 1, 2), Row(Tumblr, "banner", -1, 1, 2),
      Row(Tumblr, "native", 50, 1, 2),
      Row(Radio, "video", 40, 5, 9), Row(Sport, "video", 30, 4, 8) }
Second ==
    { Row(Yahoo, "banner", 70, 2, 3), Row(Yahoo, "video", 10, 6, 9),
      Row(Radio, "video", 45, 5, 9) }
\* The publisher's website is for sale itself.
Third == {Row(Player, "banner", 15, 1, 2), Row(Radio, "video", 45, 5, 9)}

MCCandidates == Mangled :> <<<<"merriam-webster", "com">>, <<"merriamwebster", "com">>>>
TwoExports == {First, Second}
WithWebsite == {Second, Third}
MCNamed == {Yahoo, Player, Invented}
MCResolving == {Player, <<"merriam-webster", "com">>, <<"merriamwebster", "com">>}
MCLookedUp ==
    { <<"sg", "news", "yahoo", "com">>, <<"www", "tumblr", "com">>, <<"someone", "tumblr", "com">>,
      Player, Invented, <<"www", "merriam-webster", "com">> }
MCHostingPlatforms == {Tumblr}
==============================================================================
