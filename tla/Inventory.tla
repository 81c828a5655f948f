------------------------------ MODULE Inventory ------------------------------
(* The inventory of ad placements (app/services/inventory.py) and the two      *)
(* scripts that keep it: build_inventory.py reads an export of sites and apps, *)
(* tag_inventory.py has a model label them and adds the websites it names for  *)
(* the publishers of apps.  They share two files, sg_inventory.json and        *)
(* sg_apps.json, which each writes one after the other; a script may die       *)
(* between.  A host is the sequence of its labels.                             *)
EXTENDS Lists, Functions, FiniteSetsExt, SequencesExt

CONSTANTS
    Tlds,               \* _GENERIC_TLDS and _CC_TLDS
    PackagePrefixes,    \* what an Android package starts with
    Spaced,             \* labels with a blank, of a mangled name
    Digits,             \* labels of digits only: an iOS id
    Candidates,         \* repair_candidates: hyphenated, then joined
    HostingPlatforms,   \* hosts whose subdomains are other people's sites
    Exports,            \* the CSV files: sets of rows
    Named,              \* websites the model may name for an app, real or not
    Resolving,          \* the hosts that exist
    LookedUp            \* hosts of sources the app asks about

ASSUME InventoryAssumption ==
    /\ \A rows \in Exports : IsFiniteSet(rows) /\ \A row \in rows :
            row.bids \in Int /\ row.lo \in Nat /\ row.hi \in Nat /\ Len(row.token) > 0
    /\ \A name \in DOMAIN Candidates :
            /\ \E i \in DOMAIN name : name[i] \in Spaced
            /\ Candidates[name] \in Seq(Seq(STRING))
    /\ LookedUp \subseteq Seq(STRING) \ {<<>>}

VARIABLES
    data,               \* sg_inventory.json: host -> entry
    apps,               \* sg_apps.json: id -> entry
    script,             \* the script that is between its two writes
    exported,           \* the rows of the last build that wrote its sites
    current             \* a tagging completed, and nothing was written since

vars == <<data, apps, script, exported, current>>

None == <<>>            \* no host, no reach, nothing running

------------------------------------------------------------------------------
(* parse_csv()                                                                *)

WithoutWww(token) == IF Head(token) = "www" THEN Tail(token) ELSE token
Dotted(token) == Len(token) > 1 /\ ToSet(token) \cap Spaced = {}

\* _clean_domain: packages are shaped like hosts, told apart by their ends.
IsSite(token) ==
    LET host == WithoutWww(token)
    IN  /\ Dotted(host)
        /\ Last(host) \in Tlds
        /\ Len(host) < 3 \/ Head(host) \notin PackagePrefixes
IsApp(token) == ~IsSite(token) /\ (Dotted(token) \/ (Len(token) = 1 /\ Head(token) \in Digits))

\* A malformed row counts as one with bids -1, and is skipped.
WellFormed(rows) == {row \in rows : row.bids >= 0}

\* add_repaired, after verified_repairs: the first candidate that is up.
Repair(name, up) ==
    LET alive == Sift(Candidates[name], up)
    IN  IF alive = <<>> THEN None ELSE Head(alive)

\* The host whose entry a row adds to, or None.
SiteOf(row, up) ==
    CASE IsSite(row.token) -> WithoutWww(row.token)
      [] row.token \in DOMAIN Candidates -> Repair(row.token, up)
      [] OTHER -> None

\* _merge_creative: an item listed twice for a type keeps the larger volume and
\* the widest CPM range.
Merge(rows) ==
    [ type \in {row.creative : row \in rows} |->
        LET same == {row \in rows : row.creative = type}
        IN  [ bids |-> Max({row.bids : row \in same}),
              lo   |-> Min({row.lo : row \in same}),
              hi   |-> Max({row.hi : row \in same}) ] ]

------------------------------------------------------------------------------
(* build_inventory.py                                                         *)

Site(creative)   == [creative |-> creative, tagged |-> FALSE, via |-> FALSE, app |-> None]
MobileApp(reach) == [creative |-> reach, tagged |-> FALSE, web |-> None, verified |-> FALSE]

\* The keys of _TAG_KEYS_SITE are copied from the entry the file had.
KeepTags(entry, prev) ==
    [entry EXCEPT !.tagged = prev.tagged, !.via = prev.via, !.app = prev.app]

BuiltSites(rows, up) ==
    LET hosts == {SiteOf(row, up) : row \in rows} \ {None}
        derived == {h \in DOMAIN data : data[h].via} \ hosts
        New(h) == Site(Merge({row \in rows : SiteOf(row, up) = h}))
    IN  [ h \in hosts \cup derived |->
            CASE h \in derived -> data[h]
              [] h \in hosts /\ h \in DOMAIN data -> KeepTags(New(h), data[h])
              [] OTHER -> New(h) ]

BuiltApps(rows) ==
    LET ids == {row.token : row \in {r \in rows : IsApp(r.token)}}
        New(id) == MobileApp(Merge({row \in rows : row.token = id}))
    IN  [ id \in ids |-> IF id \in DOMAIN apps
                         THEN [apps[id] EXCEPT !.creative = New(id).creative] ELSE New(id) ]

\* check_pages: of the hosts asked for those that exist, less some that do not
\* answer now.
Answering(hosts) == SUBSET (hosts \cap Resolving)

\* main() up to its first write.
BuildSites ==
    /\ script = None
    /\ \E export \in Exports :
       LET rows == WellFormed(export)
           repairs == UNION {ToSet(Candidates[row.token]) :
                                row \in {r \in rows : r.token \in DOMAIN Candidates}}
       IN  \E up \in Answering(repairs) :
                /\ data' = BuiltSites(rows, up)
                /\ script' = [doing |-> "build", apps |-> BuiltApps(rows)]
                /\ exported' = rows
    /\ current' = FALSE
    /\ UNCHANGED apps

BuildApps ==
    /\ script # None /\ script.doing = "build"
    /\ apps' = script.apps
    /\ script' = None
    /\ UNCHANGED <<data, exported, current>>

------------------------------------------------------------------------------
(* tag_inventory.py                                                           *)

\* The batches of a gather: each may fail, and the model may leave items out.
Label(entries, labelled) ==
    [i \in DOMAIN entries |-> [entries[i] EXCEPT !.tagged = @ \/ i \in labelled]]

\* What the model answers of the apps asked about: a publisher, and a website
\* or none.
Identify(answers) ==
    [id \in DOMAIN apps |->
        IF id \in DOMAIN answers
        THEN [apps[id] EXCEPT !.tagged = TRUE, !.web = answers[id]] ELSE apps[id]]

Websites(entries) == {entries[id].web : id \in DOMAIN entries} \ {None}

\* Mutant: the website the model names is taken at its word.
VerifiedByName(entry, known, up) == entry.web # None

\* "The model can name a domain that doesn't exist": it counts when the list
\* has it or it answers.
Verified(entry, known, up) == entry.web # None /\ entry.web \in known \cup up

Verify(entries, known, up) ==
    [id \in DOMAIN entries |->
        [entries[id] EXCEPT !.verified = Verified(entries[id], known, up)]]

\* Without sg_apps.json there is nothing derived either: as with an empty one.
TagApps ==
    /\ script = None
    /\ \E retag \in BOOLEAN :
       LET sites == {h \in DOMAIN data : retag \/ ~data[h].tagged}
           todo  == {id \in DOMAIN apps : retag \/ ~apps[id].tagged}
       IN  \E labelled \in SUBSET sites, answered \in SUBSET todo :
           \E answers \in [answered -> Named \cup {None}] :
           \E up \in Answering(Websites(Identify(answers)) \ DOMAIN data) :
                /\ apps' = Verify(Identify(answers), DOMAIN data, up)
                /\ script' = [doing |-> "tag", sites |-> Label(data, labelled)]
    /\ current' = FALSE
    /\ UNCHANGED <<data, exported>>

\* _combine: one publisher's apps, their volumes added up by creative type.
Combine(members) ==
    [ type \in UNION {DOMAIN apps[id].creative : id \in members} |->
        LET with == {id \in members : type \in DOMAIN apps[id].creative}
        IN  [ bids |-> SumFunction([id \in with |-> apps[id].creative[type].bids]),
              lo   |-> Min({apps[id].creative[type].lo : id \in with}),
              hi   |-> Max({apps[id].creative[type].hi : id \in with}) ] ]

Members(h) == {id \in DOMAIN apps : apps[id].verified /\ apps[id].web = h}

\* Mutant: what an exported site was given by apps stays when they are gone.
MergedInto(site, h) == IF Members(h) = {} THEN site ELSE [site EXCEPT !.app = Combine(Members(h))]

WithReach(site, h) ==
    [site EXCEPT !.app = IF Members(h) = {} THEN None ELSE Combine(Members(h))]

\* Mutant: a derived site is made anew, without the tags it had.
DerivedAnew(sites, h) == [Site(None) EXCEPT !.via = TRUE, !.app = Combine(Members(h))]

\* The site of a publisher that the list does not have, with the tags paid for.
Derived(sites, h) ==
    [ Site(None) EXCEPT !.via = TRUE, !.app = Combine(Members(h)),
        !.tagged = h \in DOMAIN sites /\ sites[h].via /\ sites[h].tagged ]

\* The app-derived part is rebuilt from scratch, then its new sites labelled;
\* here a batch that fails ends the script (Dies).
TagSites ==
    /\ script # None /\ script.doing = "tag"
    /\ LET sites == script.sites
           kept  == {h \in DOMAIN sites : ~sites[h].via}
           new   == {apps[id].web : id \in {i \in DOMAIN apps : apps[i].verified}} \ kept
           built == [h \in kept \cup new |->
                        IF h \in kept THEN WithReach(sites[h], h) ELSE Derived(sites, h)]
       IN  \E labelled \in SUBSET {h \in new : ~built[h].tagged} : data' = Label(built, labelled)
    /\ script' = None
    /\ current' = TRUE
    /\ UNCHANGED <<apps, exported>>

\* The script is stopped, or an exception ends it, between its writes.
Dies ==
    /\ script # None
    /\ script' = None
    /\ UNCHANGED <<data, apps, exported, current>>

Init ==
    /\ data = None /\ apps = None /\ script = None
    /\ exported = {} /\ current = FALSE

Next == BuildSites \/ BuildApps \/ TagApps \/ TagSites \/ Dies

Spec == Init /\ [][Next]_vars

------------------------------------------------------------------------------
(* What the sitelist shows of a source (lookup, sitelist_fields).             *)

Parents(host) == [i \in 1..(Len(host) - 1) |-> SubSeq(host, i, Len(host))]

\* Mutant: the platform's own entry is found for the sites it hosts.
LookupAnyParent(host) ==
    LET hits == SelectSeq(Parents(WithoutWww(host)), LAMBDA p : p \in DOMAIN data)
    IN  IF hits = <<>> THEN None ELSE Head(hits)

\* The nearest parent in the list, never past a platform that hosts others.
Lookup(host) ==
    LET parents == Parents(WithoutWww(host))
        Platform(i) == i > 1 /\ parents[i] \in HostingPlatforms
        hits == {i \in DOMAIN parents : parents[i] \in DOMAIN data /\ \A k \in 1..i : ~Platform(k)}
    IN  IF hits = {} THEN None ELSE parents[Min(hits)]

Volume(reach) == SumFunction([type \in DOMAIN reach |-> reach[type].bids])

\* Nothing for an entry without figures: it is not buyable.
SitelistFields(host) ==
    LET hit == Lookup(host)
    IN  IF hit = None THEN None
        ELSE LET web == data[hit].creative  app == data[hit].app
                 prices == Range(web) \cup Range(app)
             IN  IF prices = {} THEN None
                 ELSE << [ entry |-> hit, web |-> Volume(web), inApp |-> Volume(app),
                           lo |-> Min({c.lo : c \in prices}), hi |-> Max({c.hi : c \in prices}) ] >>

------------------------------------------------------------------------------
\* A source is shown as buyable only through a site that exists: one the exports
\* list or that answered, never one a model made up or a repair guessed, however
\* often it was carried over since; and "buying tumblr.com doesn't target
\* someone.tumblr.com" (inventory.py:184-185, tag_inventory.py:190).
OnlyRealSitesAreBuyable ==
    \A host \in LookedUp : SitelistFields(host) # None =>
        LET entry == SitelistFields(host)[1].entry
            site == WithoutWww(host)
        IN  /\ entry \in Resolving \/ \E rows \in Exports : \E row \in rows :
                                            IsSite(row.token) /\ entry = WithoutWww(row.token)
            /\ IsSuffix(entry, site)
            /\ site # entry => \A i \in 2..(Len(site) - 1) :
                    SubSeq(site, i, Len(site)) \in HostingPlatforms => Len(entry) > Len(site) - i + 1

\* After a tagging has completed, the reach the sites show is that of the apps
\* in the file: each app whose publisher's website is verified is counted in
\* exactly one site, every other in none, whatever earlier exports, labels or
\* stopped runs had left (tag_inventory.py:199-223).
ReachIsCurrent ==
    current =>
        /\ SumFunction([h \in DOMAIN data |-> Volume(data[h].app)])
             = SumFunction([id \in {i \in DOMAIN apps : apps[i].verified} |->
                                Volume(apps[id].creative)])
        /\ \A id \in DOMAIN apps : apps[id].verified =>
             /\ apps[id].web \in DOMAIN data
             /\ DOMAIN apps[id].creative \subseteq DOMAIN data[apps[id].web].app

\* Labels are paid for: a site or an app that stays in its file keeps them, over
\* rebuilds, taggings with failed batches and runs that stop halfway
\* (build_inventory.py:6, tag_inventory.py:199-200).
PaidTagsSurvive ==
    [][ /\ \A h \in DOMAIN data \cap DOMAIN data' : data[h].tagged => data'[h].tagged
        /\ \A id \in DOMAIN apps \cap DOMAIN apps' : apps[id].tagged => apps'[id].tagged ]_vars

\* "One entry per web domain": what the last export says of a site's volume and
\* price is what its entry shows, whatever is known of apps of its publisher
\* (inventory.py:98-101, tag_inventory.py:15-18).
ExportIsShown ==
    \A row \in exported : IsSite(row.token) =>
        \E fields \in ToSet(SitelistFields(row.token)) :
            /\ fields.entry = WithoutWww(row.token)
            /\ fields.web >= row.bids
            /\ fields.lo <= row.lo /\ row.hi <= fields.hi
==============================================================================
