-------------------------- MODULE Inventory_proof --------------------------
(***************************************************************************)
(* Proofs about Inventory: for any exports, apps, answers of the model and *)
(* hosts that answer, whatever order the two scripts run in and wherever   *)
(* they stop, every site in the file exists, no label is lost that was     *)
(* paid for, and after a tagging the reach of the sites is that of the     *)
(* apps.                                                                   *)
(***************************************************************************)
EXTENDS Inventory, Lists_proof

-----------------------------------------------------------------------------
(* Entries, and what the functions of the scripts leave of them.           *)

SiteEntry(e) ==
    \E creative, app : \E tagged, via \in BOOLEAN :
        e = [creative |-> creative, tagged |-> tagged, via |-> via, app |-> app]

AppEntry(e) ==
    \E creative, web : \E tagged, verified \in BOOLEAN :
        e = [creative |-> creative, tagged |-> tagged, web |-> web, verified |-> verified]

\* A site that answered, or that an export lists.
Real(h) ==
    \/ h \in Resolving
    \/ \E rows \in Exports : \E row \in rows : IsSite(row.token) /\ h = WithoutWww(row.token)

SitesSound(sites) == \A h \in DOMAIN sites : Real(h) /\ SiteEntry(sites[h])

AppsSound(list) ==
    \A id \in DOMAIN list : AppEntry(list[id]) /\ (list[id].verified => Real(list[id].web))

\* What is in both files keeps its label.
LabelsKept(old, new) == \A i \in DOMAIN old \cap DOMAIN new : old[i].tagged => new[i].tagged

LEMMA NoEntries == DOMAIN None = {}
  <1>1. <<>> \in Seq({}) /\ Len(<<>>) = 0 /\ DOMAIN <<>> = 1..Len(<<>>)
    BY EmptySeq, LenProperties
  <1>2. QED
    BY <1>1 DEF None

LEMMA LabelledSites ==
    ASSUME NEW sites, SitesSound(sites), NEW labelled
    PROVE  /\ DOMAIN Label(sites, labelled) = DOMAIN sites
           /\ SitesSound(Label(sites, labelled))
           /\ LabelsKept(sites, Label(sites, labelled))
  <1> DEFINE new == Label(sites, labelled)
  <1>1. new = [i \in DOMAIN sites |-> [sites[i] EXCEPT !.tagged = @ \/ i \in labelled]]
    BY DEF Label
  <1>2. ASSUME NEW h \in DOMAIN sites
        PROVE  SiteEntry(new[h]) /\ (sites[h].tagged => new[h].tagged)
    <2>1. PICK c, a : \E t, v \in BOOLEAN : sites[h] = [creative |-> c, tagged |-> t, via |-> v, app |-> a]
      BY DEF SitesSound, SiteEntry
    <2>2. PICK t \in BOOLEAN, v \in BOOLEAN : sites[h] = [creative |-> c, tagged |-> t, via |-> v, app |-> a]
      BY <2>1
    <2>3. new[h] = [creative |-> c, tagged |-> (t \/ h \in labelled), via |-> v, app |-> a]
      BY <1>1, <2>2
    <2>4. sites[h].tagged = t /\ new[h].tagged = (t \/ h \in labelled)
      BY <2>2, <2>3
    <2>5. (t \/ h \in labelled) \in BOOLEAN
      OBVIOUS
    <2> HIDE DEF new
    <2>6. SiteEntry(new[h])
      BY <2>3, <2>5 DEF SiteEntry
    <2>7. QED
      BY <2>4, <2>6
  <1>3. DOMAIN new = DOMAIN sites
    BY <1>1
  <1> HIDE DEF new
  <1>4. SitesSound(new) /\ LabelsKept(sites, new)
    BY <1>2, <1>3 DEF SitesSound, LabelsKept
  <1>5. QED
    BY <1>3, <1>4 DEF new

LEMMA NewEntries ==
    ASSUME NEW creative
    PROVE  /\ SiteEntry(Site(creative))
           /\ AppEntry(MobileApp(creative)) /\ ~MobileApp(creative).verified
  BY DEF SiteEntry, AppEntry, Site, MobileApp

-----------------------------------------------------------------------------
(* build_inventory.py: a site is listed, or the repair of a name answers.  *)

LEMMA RepairAnswers ==
    ASSUME NEW name \in DOMAIN Candidates, NEW up, Repair(name, up) # None
    PROVE  Repair(name, up) \in up
  <1> DEFINE alive == Sift(Candidates[name], up)
  <1>1. Candidates[name] \in Seq(Seq(STRING))
    BY InventoryAssumption
  <1>2. alive \in Seq(Seq(STRING)) /\ ToSet(alive) = ToSet(Candidates[name]) \cap up
    BY <1>1, SiftIs
  <1> HIDE DEF alive
  <1>3. alive # <<>> => Head(alive) \in up
    BY <1>2, SeqMeets
  <1>4. QED
    BY <1>3 DEF Repair, alive

LEMMA BuiltSitesAreSound ==
    ASSUME SitesSound(data), NEW export \in Exports, NEW up \in SUBSET Resolving
    PROVE  LET built == BuiltSites(WellFormed(export), up)
           IN  SitesSound(built) /\ LabelsKept(data, built)
  <1> DEFINE rows == WellFormed(export)
             hosts == {SiteOf(row, up) : row \in rows} \ {None}
             derived == {h \in DOMAIN data : data[h].via} \ hosts
             New(h) == Site(Merge({row \in rows : SiteOf(row, up) = h}))
             built == BuiltSites(rows, up)
  <1>1. rows \subseteq export
    BY DEF WellFormed
  <1>2. ASSUME NEW h \in hosts PROVE Real(h)
    <2>1. PICK row \in rows : h = SiteOf(row, up) /\ h # None
      OBVIOUS
    <2>2. \/ IsSite(row.token) /\ h = WithoutWww(row.token)
          \/ row.token \in DOMAIN Candidates /\ h = Repair(row.token, up)
      BY <2>1 DEF SiteOf
    <2>3. CASE IsSite(row.token) /\ h = WithoutWww(row.token)
      BY <1>1, <2>3 DEF Real
    <2>4. CASE row.token \in DOMAIN Candidates /\ h = Repair(row.token, up)
      BY <2>1, <2>4, RepairAnswers DEF Real
    <2>5. QED
      BY <2>2, <2>3, <2>4
  <1> HIDE DEF rows, hosts
  <1>3. DOMAIN built = hosts \cup derived
    BY DEF BuiltSites, hosts
  <1>4. \A h \in hosts \cup derived : built[h] =
            CASE h \in derived -> data[h]
              [] h \in hosts /\ h \in DOMAIN data -> KeepTags(New(h), data[h])
              [] OTHER -> New(h)
    BY DEF BuiltSites, hosts
  <1> HIDE DEF built
  <1>5. ASSUME NEW h \in hosts \cup derived
        PROVE  /\ Real(h) /\ SiteEntry(built[h])
               /\ h \in DOMAIN data /\ data[h].tagged => built[h].tagged
    <2>1. CASE h \in derived
      BY <1>4, <2>1 DEF SitesSound
    <2>2. CASE h \in hosts /\ h \notin derived /\ h \in DOMAIN data
      <3> DEFINE new == Merge({row \in rows : SiteOf(row, up) = h})
      <3>1. built[h] = KeepTags(Site(new), data[h])
        BY <1>4, <2>2
      <3> HIDE DEF new
      <3>2. PICK c, a : \E t, v \in BOOLEAN : data[h] = [creative |-> c, tagged |-> t, via |-> v, app |-> a]
        BY <2>2 DEF SitesSound, SiteEntry
      <3>3. PICK t \in BOOLEAN, v \in BOOLEAN : data[h] = [creative |-> c, tagged |-> t, via |-> v, app |-> a]
        BY <3>2
      <3>4. data[h].tagged = t /\ data[h].via = v /\ data[h].app = a
        BY <3>3
      <3>5. built[h] = [Site(new) EXCEPT !.tagged = t, !.via = v, !.app = a]
        BY <3>1, <3>4, Zenon DEF KeepTags
      <3>6. built[h] = [creative |-> new, tagged |-> t, via |-> v, app |-> a]
        BY <3>5 DEF Site
      <3>7. SiteEntry(built[h])
        BY <3>6, Zenon DEF SiteEntry
      <3>8. built[h].tagged = t
        BY <3>6
      <3>9. QED
        BY <1>2, <2>2, <3>4, <3>7, <3>8, Zenon
    <2>3. CASE h \in hosts /\ h \notin derived /\ h \notin DOMAIN data
      <3>1. built[h] = New(h)
        BY <1>4, <2>3
      <3>2. QED
        BY <1>2, <2>3, <3>1, NewEntries
    <2>4. QED
      BY <2>1, <2>2, <2>3
  <1>6. SitesSound(built) /\ LabelsKept(data, built)
    BY <1>3, <1>5 DEF SitesSound, LabelsKept
  <1>7. QED
    BY <1>6 DEF built, rows

LEMMA BuiltAppsAreSound ==
    ASSUME AppsSound(apps), NEW rows
    PROVE  AppsSound(BuiltApps(rows)) /\ LabelsKept(apps, BuiltApps(rows))
  <1> DEFINE ids == {row.token : row \in {r \in rows : IsApp(r.token)}}
             New(id) == MobileApp(Merge({row \in rows : row.token = id}))
             built == BuiltApps(rows)
  <1>1. built = [ id \in ids |-> IF id \in DOMAIN apps
                         THEN [apps[id] EXCEPT !.creative = New(id).creative] ELSE New(id) ]
    BY DEF BuiltApps
  <1> HIDE DEF ids
  <1>2. DOMAIN built = ids
    BY <1>1
  <1>3. ASSUME NEW id \in ids
        PROVE  /\ AppEntry(built[id]) /\ (built[id].verified => Real(built[id].web))
               /\ id \in DOMAIN apps /\ apps[id].tagged => built[id].tagged
    <2>1. CASE id \notin DOMAIN apps
      <3>1. built[id] = New(id)
        BY <1>1, <2>1
      <3>2. QED
        BY <2>1, <3>1, NewEntries
    <2>2. CASE id \in DOMAIN apps
      <3> DEFINE new == New(id).creative
      <3>1. built[id] = [apps[id] EXCEPT !.creative = new]
        BY <1>1, <2>2
      <3> HIDE DEF new, built
      <3>2. PICK c, w : \E t, v \in BOOLEAN : apps[id] = [creative |-> c, tagged |-> t, web |-> w, verified |-> v]
        BY <2>2 DEF AppsSound, AppEntry
      <3>3. PICK t \in BOOLEAN, v \in BOOLEAN : apps[id] = [creative |-> c, tagged |-> t, web |-> w, verified |-> v]
        BY <3>2
      <3>4. built[id] = [creative |-> new, tagged |-> t, web |-> w, verified |-> v]
        BY <3>1, <3>3
      <3>5. AppEntry(built[id])
        BY <3>4, Zenon DEF AppEntry
      <3>6. apps[id].tagged = t /\ apps[id].verified = v /\ apps[id].web = w
        BY <3>3
      <3>7. built[id].tagged = t /\ built[id].verified = v /\ built[id].web = w
        BY <3>4
      <3>8. apps[id].verified => Real(apps[id].web)
        BY <2>2 DEF AppsSound
      <3>9. QED
        BY <3>5, <3>6, <3>7, <3>8, Zenon
    <2>3. QED
      BY <2>1, <2>2
  <1> HIDE DEF built
  <1>4. AppsSound(built) /\ LabelsKept(apps, built)
    BY <1>2, <1>3 DEF AppsSound, LabelsKept
  <1>5. QED
    BY <1>4 DEF built

-----------------------------------------------------------------------------
(* tag_inventory.py: a website counts when the list has it or it answers.  *)

LEMMA VerifiedAppsAreSound ==
    ASSUME SitesSound(data), AppsSound(apps), NEW answers, NEW up \in SUBSET Resolving
    PROVE  LET list == Verify(Identify(answers), DOMAIN data, up)
           IN  AppsSound(list) /\ LabelsKept(apps, list)
  <1> DEFINE known == Identify(answers)
             list == Verify(known, DOMAIN data, up)
  <1>1. DOMAIN known = DOMAIN apps
    BY DEF Identify
  <1>2. list = [id \in DOMAIN apps |-> [known[id] EXCEPT !.verified = Verified(known[id], DOMAIN data, up)]]
    BY <1>1 DEF Verify
  <1>3. ASSUME NEW id \in DOMAIN apps
        PROVE  AppEntry(known[id]) /\ (apps[id].tagged => known[id].tagged)
    <2>1. known[id] = IF id \in DOMAIN answers
                      THEN [apps[id] EXCEPT !.tagged = TRUE, !.web = answers[id]] ELSE apps[id]
      BY DEF Identify
    <2> HIDE DEF known
    <2>2. AppEntry(apps[id])
      BY DEF AppsSound
    <2>3. CASE id \in DOMAIN answers
      <3>1. PICK c, w : \E t, v \in BOOLEAN : apps[id] = [creative |-> c, tagged |-> t, web |-> w, verified |-> v]
        BY <2>2 DEF AppEntry
      <3>2. PICK t \in BOOLEAN, v \in BOOLEAN : apps[id] = [creative |-> c, tagged |-> t, web |-> w, verified |-> v]
        BY <3>1
      <3>3. \E y \in BOOLEAN : y = TRUE
        OBVIOUS
      <3>4. PICK y \in BOOLEAN : y = TRUE
        BY <3>3
      <3> DEFINE u == answers[id]
      <3>5. known[id] = [apps[id] EXCEPT !.tagged = y, !.web = u]
        BY <2>1, <2>3, <3>4, Zenon
      <3> HIDE DEF u
      <3>6. known[id] = [creative |-> c, tagged |-> y, web |-> u, verified |-> v]
        <4>1. known[id] = [[creative |-> c, tagged |-> t, web |-> w, verified |-> v]
                               EXCEPT !.tagged = y, !.web = u]
          BY <3>2, <3>5, Zenon
        <4>2. QED
          BY <4>1
      <3>7. AppEntry(known[id])
        BY <3>6, Zenon DEF AppEntry
      <3>8. known[id].tagged = y
        BY <3>6
      <3>9. QED
        BY <3>4, <3>7, <3>8, Zenon
    <2>4. CASE id \notin DOMAIN answers
      BY <2>1, <2>2, <2>4
    <2>5. QED
      BY <2>3, <2>4
  <1> HIDE DEF known, list
  <1>4. ASSUME NEW id \in DOMAIN apps
        PROVE  /\ AppEntry(list[id]) /\ (list[id].verified => Real(list[id].web))
               /\ apps[id].tagged => list[id].tagged
    <2> DEFINE counts == Verified(known[id], DOMAIN data, up)
    <2>1. counts \in BOOLEAN /\ (counts => Real(known[id].web))
      BY DEF Verified, SitesSound, Real
    <2>2. list[id] = [known[id] EXCEPT !.verified = counts]
      BY <1>2
    <2> HIDE DEF counts
    <2>3. PICK c, w : \E t, v \in BOOLEAN : known[id] = [creative |-> c, tagged |-> t, web |-> w, verified |-> v]
      BY <1>3 DEF AppEntry
    <2>4. PICK t \in BOOLEAN, v \in BOOLEAN : known[id] = [creative |-> c, tagged |-> t, web |-> w, verified |-> v]
      BY <2>3
    <2>5. list[id] = [creative |-> c, tagged |-> t, web |-> w, verified |-> counts]
      BY <2>2, <2>4
    <2>6. AppEntry(list[id])
      BY <2>1, <2>5, Zenon DEF AppEntry
    <2>7. known[id].tagged = t /\ known[id].web = w
      BY <2>4
    <2>8. list[id].tagged = t /\ list[id].verified = counts /\ list[id].web = w
      BY <2>5
    <2>9. QED
      BY <1>3, <2>1, <2>6, <2>7, <2>8, Zenon
  <1>5. DOMAIN list = DOMAIN apps
    BY <1>2
  <1>6. AppsSound(list) /\ LabelsKept(apps, list)
    BY <1>4, <1>5 DEF AppsSound, LabelsKept
  <1>7. QED
    BY <1>6 DEF list, known

\* The sites once the part that comes from apps is rebuilt.
Rebuilt(sites) ==
    LET kept == {h \in DOMAIN sites : ~sites[h].via}
        new  == {apps[id].web : id \in {i \in DOMAIN apps : apps[i].verified}} \ kept
    IN  [h \in kept \cup new |-> IF h \in kept THEN WithReach(sites[h], h) ELSE Derived(sites, h)]

LEMMA RebuiltSitesAreSound ==
    ASSUME AppsSound(apps), NEW sites, SitesSound(sites)
    PROVE  SitesSound(Rebuilt(sites)) /\ LabelsKept(sites, Rebuilt(sites))
  <1> DEFINE kept == {h \in DOMAIN sites : ~sites[h].via}
             new  == {apps[id].web : id \in {i \in DOMAIN apps : apps[i].verified}} \ kept
             built == Rebuilt(sites)
  <1>1. built = [h \in kept \cup new |-> IF h \in kept THEN WithReach(sites[h], h) ELSE Derived(sites, h)]
    BY DEF Rebuilt
  <1>2. \A h \in new : Real(h) /\ h \notin kept
    BY DEF AppsSound
  <1>3. \A h \in kept : h \in DOMAIN sites
    OBVIOUS
  <1>4. ASSUME NEW h \in new, h \in DOMAIN sites PROVE sites[h].via
    BY <1>4
  <1> HIDE DEF built, kept, new
  <1>5. DOMAIN built = kept \cup new
    BY <1>1
  <1>6. ASSUME NEW h \in kept
        PROVE  Real(h) /\ SiteEntry(built[h]) /\ (sites[h].tagged => built[h].tagged)
    <2> DEFINE reach == IF Members(h) = {} THEN None ELSE Combine(Members(h))
    <2>1. built[h] = [sites[h] EXCEPT !.app = reach]
      BY <1>1 DEF WithReach
    <2> HIDE DEF reach
    <2>2. PICK c, a : \E t, v \in BOOLEAN : sites[h] = [creative |-> c, tagged |-> t, via |-> v, app |-> a]
      BY <1>3 DEF SitesSound, SiteEntry
    <2>3. PICK t \in BOOLEAN, v \in BOOLEAN : sites[h] = [creative |-> c, tagged |-> t, via |-> v, app |-> a]
      BY <2>2
    <2>4. built[h] = [creative |-> c, tagged |-> t, via |-> v, app |-> reach]
      BY <2>1, <2>3
    <2>5. SiteEntry(built[h])
      BY <2>4, Zenon DEF SiteEntry
    <2>6. sites[h].tagged = t /\ built[h].tagged = t
      BY <2>3, <2>4
    <2>7. QED
      BY <1>3, <2>5, <2>6 DEF SitesSound
  <1>7. ASSUME NEW h \in new
        PROVE  /\ Real(h) /\ SiteEntry(built[h])
               /\ h \in DOMAIN sites /\ sites[h].tagged => built[h].tagged
    <2> DEFINE reach == Combine(Members(h))
               had == h \in DOMAIN sites /\ sites[h].via /\ sites[h].tagged
    <2>1. built[h] = [Site(None) EXCEPT !.via = TRUE, !.app = reach, !.tagged = had]
      BY <1>1, <1>2 DEF Derived
    <2>2. had \in BOOLEAN
      <3>1. CASE h \notin DOMAIN sites
        BY <3>1
      <3>2. CASE h \in DOMAIN sites
        <4>1. \E t, v \in BOOLEAN : sites[h].tagged = t /\ sites[h].via = v
          BY <3>2 DEF SitesSound, SiteEntry
        <4>2. QED
          BY <4>1
      <3>3. QED
        BY <3>1, <3>2
    <2>3. h \in DOMAIN sites /\ sites[h].tagged => had
      BY <1>4
    <2> HIDE DEF reach, had
    <2>4. built[h] = [creative |-> None, tagged |-> had, via |-> TRUE, app |-> reach]
      BY <2>1 DEF Site
    <2>5. SiteEntry(built[h])
      BY <2>2, <2>4, Zenon DEF SiteEntry
    <2>6. built[h].tagged = had
      BY <2>4
    <2>7. QED
      BY <1>2, <2>3, <2>5, <2>6, Zenon
  <1>8. SitesSound(built) /\ LabelsKept(sites, built)
    BY <1>5, <1>6, <1>7 DEF SitesSound, LabelsKept
  <1>9. QED
    BY <1>8 DEF built

-----------------------------------------------------------------------------
(* The invariant: the files are sound, and so is what a script is about to *)
(* write to the second of them, with the labels that the file has.         *)

Building ==
    \E list : /\ script = [doing |-> "build", apps |-> list]
              /\ AppsSound(list) /\ LabelsKept(apps, list)

Tagging ==
    \E sites : /\ script = [doing |-> "tag", sites |-> sites]
               /\ SitesSound(sites) /\ LabelsKept(data, sites) /\ DOMAIN sites = DOMAIN data

InventoryInv ==
    /\ SitesSound(data)
    /\ AppsSound(apps)
    /\ script = None \/ Building \/ Tagging

FilesKeep ==
    /\ InventoryInv'
    /\ LabelsKept(data, data')
    /\ LabelsKept(apps, apps')

LEMMA Stays == ASSUME NEW f PROVE LabelsKept(f, f)
  BY DEF LabelsKept

LEMMA StepKeeps == ASSUME InventoryInv, Next PROVE FilesKeep
  <1> USE DEF InventoryInv
  <1>1. CASE BuildSites
    <2>1. PICK export \in Exports :
             LET rows == WellFormed(export)
                 repairs == UNION {ToSet(Candidates[row.token]) :
                                      row \in {r \in rows : r.token \in DOMAIN Candidates}}
             IN  \E up \in Answering(repairs) :
                      /\ data' = BuiltSites(rows, up)
                      /\ script' = [doing |-> "build", apps |-> BuiltApps(rows)]
                      /\ exported' = rows
      BY <1>1 DEF BuildSites
    <2> DEFINE rows == WellFormed(export)
    <2>2. PICK up \in SUBSET Resolving : /\ data' = BuiltSites(rows, up)
                                         /\ script' = [doing |-> "build", apps |-> BuiltApps(rows)]
      BY <2>1 DEF Answering
    <2>3. apps' = apps
      BY <1>1 DEF BuildSites
    <2>4. SitesSound(data') /\ LabelsKept(data, data')
      BY <2>2, BuiltSitesAreSound
    <2>5. AppsSound(BuiltApps(rows)) /\ LabelsKept(apps, BuiltApps(rows))
      BY BuiltAppsAreSound
    <2> HIDE DEF rows
    <2>6. Building'
      BY <2>2, <2>3, <2>5 DEF Building
    <2>7. QED
      BY <2>3, <2>4, <2>6, Stays DEF FilesKeep
  <1>2. CASE BuildApps
    <2>1. PICK list : /\ script = [doing |-> "build", apps |-> list]
                      /\ AppsSound(list) /\ LabelsKept(apps, list)
      BY <1>2 DEF BuildApps, Building, Tagging
    <2>2. apps' = list /\ data' = data /\ script' = None
      BY <1>2, <2>1 DEF BuildApps
    <2>3. QED
      BY <2>1, <2>2, Stays DEF FilesKeep
  <1>3. CASE TagApps
    <2>1. PICK labelled, answers, up :
             /\ up \in SUBSET Resolving
             /\ apps' = Verify(Identify(answers), DOMAIN data, up)
             /\ script' = [doing |-> "tag", sites |-> Label(data, labelled)]
      BY <1>3 DEF TagApps, Answering
    <2>2. data' = data
      BY <1>3 DEF TagApps
    <2>3. AppsSound(apps') /\ LabelsKept(apps, apps')
      BY <2>1, VerifiedAppsAreSound
    <2>4. /\ DOMAIN Label(data, labelled) = DOMAIN data /\ SitesSound(Label(data, labelled))
          /\ LabelsKept(data, Label(data, labelled))
      BY LabelledSites
    <2>5. Tagging'
      BY <2>1, <2>2, <2>4 DEF Tagging
    <2>6. QED
      BY <2>2, <2>3, <2>5, Stays DEF FilesKeep
  <1>4. CASE TagSites
    <2>1. PICK sites : /\ script = [doing |-> "tag", sites |-> sites]
                       /\ SitesSound(sites) /\ LabelsKept(data, sites) /\ DOMAIN sites = DOMAIN data
      BY <1>4 DEF TagSites, Building, Tagging
    <2>2. PICK labelled : data' = Label(Rebuilt(sites), labelled)
      <3>1. \E labelled : data' = Label(Rebuilt(script.sites), labelled)
        BY <1>4, Zenon DEF TagSites, Rebuilt
      <3>2. QED
        BY <2>1, <3>1
    <2>3. apps' = apps /\ script' = None
      BY <1>4 DEF TagSites
    <2>4. SitesSound(Rebuilt(sites)) /\ LabelsKept(sites, Rebuilt(sites))
      BY <2>1, RebuiltSitesAreSound
    <2>5. /\ SitesSound(data') /\ LabelsKept(Rebuilt(sites), data')
          /\ DOMAIN data' = DOMAIN Rebuilt(sites)
      BY <2>2, <2>4, LabelledSites
    <2>6. LabelsKept(data, data')
      BY <2>1, <2>4, <2>5 DEF LabelsKept
    <2>7. QED
      BY <2>3, <2>5, <2>6, Stays DEF FilesKeep
  <1>5. CASE Dies
    BY <1>5, Stays DEF Dies, FilesKeep
  <1>6. QED
    BY <1>1, <1>2, <1>3, <1>4, <1>5 DEF Next

LEMMA InvHolds == Spec => []InventoryInv
  <1>1. Init => InventoryInv
    BY NoEntries DEF Init, InventoryInv, SitesSound, AppsSound
  <1>2. InventoryInv /\ [Next]_vars => InventoryInv'
    <2> SUFFICES ASSUME InventoryInv, [Next]_vars PROVE InventoryInv'
      OBVIOUS
    <2>1. CASE Next
      BY <2>1, StepKeeps DEF FilesKeep
    <2>2. CASE UNCHANGED vars
      BY <2>2 DEF vars, InventoryInv, Building, Tagging
    <2>3. QED
      BY <2>1, <2>2
  <1>3. QED
    BY <1>1, <1>2, PTL DEF Spec

(* Labels are paid for: a site or an app that stays in its file keeps them *)
(* over rebuilds, taggings with failed batches and runs that stop between  *)
(* two writes (build_inventory.py:6, tag_inventory.py:199-200).            *)
THEOREM LabelsSurvive == Spec => PaidTagsSurvive
  <1>1. InventoryInv /\ [Next]_vars =>
          [ /\ \A h \in DOMAIN data \cap DOMAIN data' : data[h].tagged => data'[h].tagged
            /\ \A id \in DOMAIN apps \cap DOMAIN apps' : apps[id].tagged => apps'[id].tagged ]_vars
    BY StepKeeps DEF FilesKeep, LabelsKept
  <1>2. QED
    BY <1>1, InvHolds, PTL DEF Spec, PaidTagsSurvive

-----------------------------------------------------------------------------
(* lookup(): the nearest parent in the list, never past a platform.        *)

LEMMA LookupFinds ==
    ASSUME NEW host \in LookedUp, Lookup(host) # None
    PROVE  LET site == WithoutWww(host)
           IN  /\ site \in Seq(STRING)
               /\ Lookup(host) \in DOMAIN data
               /\ \E m \in 1..(Len(site) - 1) :
                     /\ Lookup(host) = SubSeq(site, m, Len(site))
                     /\ \A k \in 2..m : SubSeq(site, k, Len(site)) \notin HostingPlatforms
  <1> DEFINE site == WithoutWww(host)
             parents == Parents(site)
             N == Len(site) - 1
             hits == {i \in DOMAIN parents : /\ parents[i] \in DOMAIN data
                                             /\ \A k \in 1..i : ~(k > 1 /\ parents[k] \in HostingPlatforms)}
  <1>1. site \in Seq(STRING) /\ Len(site) \in Nat
    <2>1. host \in Seq(STRING) /\ host # <<>>
      BY InventoryAssumption
    <2>2. site \in Seq(STRING)
      BY <2>1, HeadTailProperties DEF WithoutWww
    <2>3. QED
      BY <2>2, LenProperties
  <1>2. Lookup(host) = IF hits = {} THEN None ELSE parents[Min(hits)]
    BY DEF Lookup
  <1>3. parents = [i \in 1..N |-> SubSeq(site, i, Len(site))]
    BY DEF Parents
  <1> HIDE DEF site, parents
  <1>4. hits \in SUBSET Nat /\ hits \subseteq 1..N
    BY <1>1, <1>3
  <1>5. hits # {} /\ Lookup(host) = parents[Min(hits)]
    BY <1>2
  <1>6. Min(hits) \in hits
    <2> HIDE DEF hits
    <2>1. \E m \in hits : \A k \in hits : m <= k
      BY <1>4, <1>5, LeastOf
    <2>2. QED
      BY <2>1 DEF Min
  <1> DEFINE m == Min(hits)
  <1>7. /\ m \in 1..N /\ parents[m] \in DOMAIN data /\ Lookup(host) = parents[m]
        /\ \A k \in 1..m : ~(k > 1 /\ parents[k] \in HostingPlatforms)
    BY <1>4, <1>5, <1>6
  <1> HIDE DEF m, hits
  <1>8. \A k \in 1..m : parents[k] = SubSeq(site, k, Len(site))
    BY <1>1, <1>3, <1>7
  <1>9. \A k \in 2..m : SubSeq(site, k, Len(site)) \notin HostingPlatforms
    <2>1. \A k \in 2..m : k \in 1..m /\ k > 1
      BY <1>1, <1>7
    <2>2. QED
      BY <1>7, <1>8, <2>1
  <1>10. Lookup(host) = SubSeq(site, m, Len(site)) /\ Lookup(host) \in DOMAIN data
    BY <1>1, <1>7, <1>8
  <1>11. QED
    BY <1>1, <1>7, <1>9, <1>10 DEF site

LEMMA RestIsSuffix ==
    ASSUME NEW T, NEW s \in Seq(T), NEW m \in 1..Len(s)
    PROVE  /\ IsSuffix(SubSeq(s, m, Len(s)), s)
           /\ Len(SubSeq(s, m, Len(s))) = Len(s) - m + 1
  <1> DEFINE L == Len(s)
             n == L - m + 1
             e == SubSeq(s, m, L)
  <1>1. L \in Nat /\ \A i \in 1..L : s[i] \in T
    BY LenProperties, ElementOfSeq
  <1>2. m \in Int /\ L \in Int /\ m <= L /\ n \in 1..L /\ \A i \in m..L : s[i] \in T
    BY <1>1
  <1>3. e \in Seq(T) /\ Len(e) = n /\ \A i \in 1..n : e[i] = s[m + i - 1]
    BY <1>2, SubSeqProperties
  <1> HIDE DEF e, n
  <1> DEFINE re == [i \in 1..n |-> e[n - i + 1]]
             rs == [i \in 1..L |-> s[L - i + 1]]
  <1>4. Reverse(e) = re /\ Reverse(s) = rs
    BY <1>3 DEF Reverse
  <1>5. \A i \in 1..n : n - i + 1 \in 1..n /\ L - i + 1 \in 1..L /\ m + (n - i + 1) - 1 = L - i + 1
    BY <1>1, <1>2 DEF n
  <1>6. \A i \in 1..n : e[n - i + 1] = s[L - i + 1] /\ e[n - i + 1] \in T
    BY <1>1, <1>3, <1>5
  <1>7. \A i \in 1..L : s[L - i + 1] \in T
    BY <1>1
  <1>8. re \in Seq(T) /\ rs \in Seq(T) /\ Len(re) = n /\ Len(rs) = L
    <2>1. n \in Nat /\ L \in Nat
      BY <1>1, <1>2
    <2> HIDE DEF L
    <2>2. re \in Seq(T) /\ DOMAIN re = 1..n
      BY <1>6, <2>1, IsASeq
    <2>3. rs \in Seq(T) /\ DOMAIN rs = 1..L
      BY <1>7, <2>1, IsASeq
    <2>4. QED
      BY <2>1, <2>2, <2>3, LenProperties
  <1>9. \A i \in 1..n : re[i] = rs[i]
    BY <1>2, <1>6
  <1> HIDE DEF re, rs
  <1>10. SubSeq(re, 1, n) = SubSeq(rs, 1, n)
    <2>1. n \in 0..Len(re) /\ n \in 0..Len(rs)
      BY <1>2, <1>8
    <2>2. /\ SubSeq(re, 1, n) \in Seq(T) /\ Len(SubSeq(re, 1, n)) = n
          /\ \A i \in 1..n : SubSeq(re, 1, n)[i] = re[i]
      BY <1>8, <2>1, SubSeqFromStart
    <2>3. /\ SubSeq(rs, 1, n) \in Seq(T) /\ Len(SubSeq(rs, 1, n)) = n
          /\ \A i \in 1..n : SubSeq(rs, 1, n)[i] = rs[i]
      BY <1>8, <2>1, SubSeqFromStart
    <2>4. \A i \in 1..n : SubSeq(re, 1, n)[i] = SubSeq(rs, 1, n)[i]
      BY <1>9, <2>2, <2>3
    <2>5. QED
      BY <2>2, <2>3, <2>4, SeqEqual
  <1>11. IsSuffix(e, s)
    BY <1>2, <1>4, <1>8, <1>10 DEF IsSuffix, IsPrefix
  <1>12. QED
    BY <1>3, <1>11 DEF e, n

(* A source is shown as buyable only through a site that exists, one the   *)
(* exports list or that answered, never one that a model made up or a      *)
(* repair guessed, however often rebuilds carried it over; and never       *)
(* through the platform that hosts it (inventory.py:184-205,               *)
(* tag_inventory.py:190).                                                  *)
THEOREM BuyableSitesExist == Spec => []OnlyRealSitesAreBuyable
  <1>1. InventoryInv => OnlyRealSitesAreBuyable
    <2> SUFFICES ASSUME InventoryInv, NEW host \in LookedUp, SitelistFields(host) # None
                 PROVE  LET entry == SitelistFields(host)[1].entry
                            site == WithoutWww(host)
                        IN  /\ Real(entry)
                            /\ IsSuffix(entry, site)
                            /\ site # entry => \A i \in 2..(Len(site) - 1) :
                                 SubSeq(site, i, Len(site)) \in HostingPlatforms
                                     => Len(entry) > Len(site) - i + 1
      BY Zenon DEF OnlyRealSitesAreBuyable, Real
    <2> DEFINE entry == SitelistFields(host)[1].entry
               site == WithoutWww(host)
    <2>1. Lookup(host) # None /\ entry = Lookup(host)
      BY DEF SitelistFields
    <2> HIDE DEF entry, site
    <2>2. site \in Seq(STRING) /\ entry \in DOMAIN data
      BY <2>1, LookupFinds DEF site
    <2>3. PICK m \in 1..(Len(site) - 1) :
             /\ entry = SubSeq(site, m, Len(site))
             /\ \A k \in 2..m : SubSeq(site, k, Len(site)) \notin HostingPlatforms
      BY <2>1, LookupFinds DEF site
    <2>4. Real(entry)
      BY <2>2 DEF InventoryInv, SitesSound
    <2>5. Len(site) \in Nat /\ m \in 1..Len(site)
      BY <2>2, LenProperties
    <2>6. IsSuffix(entry, site) /\ Len(entry) = Len(site) - m + 1
      BY <2>2, <2>3, <2>5, RestIsSuffix
    <2>7. ASSUME NEW i \in 2..(Len(site) - 1), SubSeq(site, i, Len(site)) \in HostingPlatforms
          PROVE  Len(entry) > Len(site) - i + 1
      <3>1. ~(i <= m)
        BY <2>3, <2>5, <2>7
      <3>2. QED
        BY <2>5, <2>6, <3>1
    <2>8. QED
      BY <2>4, <2>6, <2>7 DEF entry, site
  <1>2. QED
    BY <1>1, InvHolds, PTL

-----------------------------------------------------------------------------
(* Sums, which the library defines by recursion over the subsets of a      *)
(* domain: a sum of the sizes of finite sets is the size of their disjoint *)
(* union, so two sums agree when a bijection relates the unions.           *)

\* What SumFunction is: a run over the subsets of the domain.
SumRun(f, r) ==
    r = [s \in SUBSET DOMAIN f |->
            IF s = {} THEN 0
            ELSE f[CHOOSE x \in s : TRUE] + r[s \ {CHOOSE x \in s : TRUE}]]

\* f tells how many elements each set of A has.
Tallies(f, A) ==
    /\ IsFiniteSet(DOMAIN f)
    /\ \A x \in DOMAIN f : IsFiniteSet(A[x]) /\ f[x] = Cardinality(A[x])

Pairs(A, S) == UNION {{x} \X A[x] : x \in S}

LEMMA SumUnfolds ==
    ASSUME NEW f, NEW g, SumRun(f, g)
    PROVE  \E r : SumRun(f, r) /\ SumFunction(f) = r[DOMAIN f]
  <1> DEFINE r == CHOOSE q : SumRun(f, q)
  <1>1. SumRun(f, r)
    BY Zenon
  <1>2. SumFunction(f) = r[DOMAIN f]
    BY DEF SumFunction, SumFunctionOnSet, FoldFunctionOnSet, MapThenFoldSet, SumRun
  <1> HIDE DEF r
  <1>3. QED
    BY <1>1, <1>2

\* The subsets of a finite set, by how many elements they have.
LEMMA InductionOnSubsets ==
    ASSUME NEW D, IsFiniteSet(D), NEW Q \in SUBSET (SUBSET D), {} \in Q,
           \A s \in SUBSET D : s # {} /\ (\A x \in s : s \ {x} \in Q) => s \in Q
    PROVE  Q = SUBSET D
  <1> DEFINE T == {n \in Nat : \A s \in SUBSET D : Cardinality(s) = n => s \in Q}
  <1>1. \A s \in SUBSET D : IsFiniteSet(s) /\ Cardinality(s) \in Nat
    BY FS_Subset, FS_CardinalityType
  <1>2. T \in SUBSET Nat
    OBVIOUS
  <1>3. 0 \in T
    BY <1>1, FS_EmptySet
  <1>4. \A n \in T : n + 1 \in T
    <2> SUFFICES ASSUME NEW n \in T, NEW s \in SUBSET D, Cardinality(s) = n + 1 PROVE s \in Q
      OBVIOUS
    <2>1. s # {} /\ n \in Nat /\ IsFiniteSet(s)
      BY <1>1, FS_EmptySet
    <2>2. ASSUME NEW x \in s PROVE s \ {x} \in Q
      <3>1. Cardinality(s \ {x}) = Cardinality(s) - 1
        BY <2>1, FS_RemoveElement
      <3>2. s \ {x} \in SUBSET D /\ Cardinality(s \ {x}) = n
        BY <2>1, <3>1
      <3>3. QED
        BY <3>2
    <2>3. QED
      BY <2>1, <2>2
  <1>5. T = Nat
    <2> HIDE DEF T
    <2>1. QED
      BY <1>2, <1>3, <1>4, InductionOnNat
  <1>6. QED
    BY <1>1, <1>5

LEMMA PairsGrow ==
    ASSUME NEW A, NEW S, NEW x \in S, IsFiniteSet(A[x]), IsFiniteSet(Pairs(A, S \ {x}))
    PROVE  /\ IsFiniteSet(Pairs(A, S))
           /\ Cardinality(Pairs(A, S)) = Cardinality(A[x]) + Cardinality(Pairs(A, S \ {x}))
  <1> DEFINE row == {x} \X A[x]
             rest == Pairs(A, S \ {x})
  <1>1. Pairs(A, S) = row \cup rest
    BY DEF Pairs
  <1>2. row \cap rest = {}
    BY DEF Pairs
  <1>3. IsFiniteSet({x}) /\ Cardinality({x}) = 1
    BY FS_Singleton
  <1>4. IsFiniteSet(row) /\ Cardinality(row) = 1 * Cardinality(A[x])
    BY <1>3, FS_Product
  <1>5. Cardinality(A[x]) \in Nat /\ Cardinality(rest) \in Nat
    BY FS_CardinalityType
  <1> HIDE DEF row, rest
  <1>6. IsFiniteSet(rest)
    BY DEF rest
  <1>7. /\ IsFiniteSet(row \cup rest)
        /\ Cardinality(row \cup rest) = Cardinality(row) + Cardinality(rest) - Cardinality(row \cap rest)
    BY <1>4, <1>6, FS_Union
  <1>8. Cardinality(row \cap rest) = 0
    BY <1>2, FS_EmptySet
  <1>9. QED
    BY <1>1, <1>4, <1>5, <1>7, <1>8 DEF rest

\* A sum of the sizes of sets is the size of their disjoint union.
LEMMA SumIsCount ==
    ASSUME NEW f, NEW A, Tallies(f, A)
    PROVE  /\ IsFiniteSet(Pairs(A, DOMAIN f))
           /\ SumFunction(f) = Cardinality(Pairs(A, DOMAIN f))
  <1> DEFINE D == DOMAIN f
             Some(s) == CHOOSE x \in s : TRUE
             Q == {s \in SUBSET D : IsFiniteSet(Pairs(A, s))}
             g == [s \in SUBSET D |-> Cardinality(Pairs(A, s))]
  <1>1. IsFiniteSet(D) /\ \A x \in D : IsFiniteSet(A[x]) /\ f[x] = Cardinality(A[x])
    BY DEF Tallies
  <1>2. Pairs(A, {}) = {} /\ IsFiniteSet({}) /\ Cardinality({}) = 0
    BY FS_EmptySet DEF Pairs
  <1> HIDE DEF D
  <1>3. Q = SUBSET D
    <2>1. Q \in SUBSET (SUBSET D) /\ {} \in Q
      BY <1>2
    <2>2. ASSUME NEW s \in SUBSET D, s # {}, \A x \in s : s \ {x} \in Q PROVE s \in Q
      <3>1. PICK x \in s : TRUE
        BY <2>2
      <3>2. IsFiniteSet(Pairs(A, s \ {x})) /\ IsFiniteSet(A[x])
        BY <1>1, <2>2
      <3>3. QED
        BY <3>2, PairsGrow
    <2> HIDE DEF Q
    <2>3. QED
      BY <1>1, <2>1, <2>2, InductionOnSubsets
  <1>4. \A s \in SUBSET D : \A x \in s : g[s] = f[x] + g[s \ {x}]
    <2> SUFFICES ASSUME NEW s \in SUBSET D, NEW x \in s PROVE g[s] = f[x] + g[s \ {x}]
      OBVIOUS
    <2>1. s \ {x} \in SUBSET D /\ x \in D
      OBVIOUS
    <2>2. IsFiniteSet(Pairs(A, s \ {x})) /\ IsFiniteSet(A[x]) /\ f[x] = Cardinality(A[x])
      BY <1>1, <1>3, <2>1
    <2>3. Cardinality(Pairs(A, s)) = Cardinality(A[x]) + Cardinality(Pairs(A, s \ {x}))
      BY <2>2, PairsGrow
    <2>4. QED
      BY <2>1, <2>2, <2>3
  <1>5. g[{}] = 0
    BY <1>2
  <1>6. \A s \in SUBSET D : s # {} => Some(s) \in s
    OBVIOUS
  <1>7. DOMAIN g = SUBSET D /\ g = [s \in SUBSET D |-> g[s]]
    OBVIOUS
  <1> HIDE DEF g, Q, Some
  <1>8. g = [s \in SUBSET D |-> IF s = {} THEN 0 ELSE f[Some(s)] + g[s \ {Some(s)}]]
    <2> DEFINE k == [s \in SUBSET D |-> IF s = {} THEN 0 ELSE f[Some(s)] + g[s \ {Some(s)}]]
    <2>1. ASSUME NEW s \in SUBSET D PROVE g[s] = k[s]
      BY <1>4, <1>5, <1>6
    <2>2. DOMAIN k = SUBSET D /\ k = [s \in SUBSET D |-> k[s]]
      OBVIOUS
    <2> HIDE DEF k
    <2>3. g = k
      BY <1>7, <2>1, <2>2
    <2>4. QED
      BY <2>3 DEF k
  <1>9. SumRun(f, g)
    BY <1>8 DEF SumRun, D, Some
  <1>10. PICK r : SumRun(f, r) /\ SumFunction(f) = r[D]
    BY <1>9, SumUnfolds DEF D
  <1>11. \A s \in SUBSET D : r[s] = IF s = {} THEN 0 ELSE f[Some(s)] + r[s \ {Some(s)}]
    BY <1>10 DEF SumRun, D, Some
  <1> DEFINE E == {s \in SUBSET D : r[s] = g[s]}
  <1>12. E = SUBSET D
    <2>1. E \in SUBSET (SUBSET D) /\ {} \in E
      BY <1>5, <1>11
    <2>2. ASSUME NEW s \in SUBSET D, s # {}, \A x \in s : s \ {x} \in E PROVE s \in E
      <3>1. Some(s) \in s
        BY <1>6, <2>2
      <3>2. r[s \ {Some(s)}] = g[s \ {Some(s)}]
        BY <2>2, <3>1
      <3>3. r[s] = f[Some(s)] + r[s \ {Some(s)}] /\ g[s] = f[Some(s)] + g[s \ {Some(s)}]
        BY <1>4, <1>11, <2>2, <3>1
      <3>4. QED
        BY <3>2, <3>3
    <2> HIDE DEF E
    <2>3. QED
      BY <1>1, <2>1, <2>2, InductionOnSubsets
  <1>13. QED
    BY <1>3, <1>10, <1>12 DEF g, Q, D

LEMMA ImageIsFinite ==
    ASSUME NEW g, IsFiniteSet(DOMAIN g)
    PROVE  IsFiniteSet({g[x] : x \in DOMAIN g})
  <1> DEFINE D == DOMAIN g
             T == {g[x] : x \in D}
             k == [x \in D |-> g[x]]
  <1>1. k \in Surjection(D, T)
    BY DEF Surjection
  <1>2. IsFiniteSet(D)
    OBVIOUS
  <1> HIDE DEF D, T, k
  <1>3. IsFiniteSet(T)
    BY <1>1, <1>2, FS_Surjection
  <1>4. QED
    BY <1>3 DEF T, D

LEMMA FiniteSetHasMax ==
    ASSUME NEW S \in SUBSET Nat, IsFiniteSet(S), S # {}
    PROVE  Max(S) \in S
  <1> DEFINE Q == {s \in SUBSET S : s = {} \/ \E m \in s : \A k \in s : m >= k}
  <1>1. ASSUME NEW s \in SUBSET S, s # {}, \A x \in s : s \ {x} \in Q PROVE s \in Q
    <2>1. PICK x \in s : TRUE
      BY <1>1
    <2>2. s \ {x} = {} \/ \E m \in s \ {x} : \A k \in s \ {x} : m >= k
      BY <1>1
    <2>3. CASE s \ {x} = {}
      <3>1. \A k \in s : x >= k
        BY <2>3
      <3>2. QED
        BY <3>1
    <2>4. CASE \E m \in s \ {x} : \A k \in s \ {x} : m >= k
      <3>1. PICK m \in s \ {x} : \A k \in s \ {x} : m >= k
        BY <2>4
      <3>2. CASE m >= x
        <4>1. \A k \in s : m >= k
          BY <3>1, <3>2
        <4>2. QED
          BY <3>1, <4>1
      <3>3. CASE x >= m
        <4>1. \A k \in s : x >= k
          BY <3>1, <3>3
        <4>2. QED
          BY <4>1
      <3>4. QED
        BY <3>2, <3>3
    <2>5. QED
      BY <2>2, <2>3, <2>4
  <1>2. Q \in SUBSET (SUBSET S) /\ {} \in Q
    OBVIOUS
  <1>3. Q = SUBSET S
    <2> HIDE DEF Q
    <2>1. QED
      BY <1>1, <1>2, InductionOnSubsets
  <1>4. \E m \in S : \A k \in S : m >= k
    BY <1>3
  <1>5. QED
    BY <1>4 DEF Max

-----------------------------------------------------------------------------
(* The reach of the sites is that of the apps: both are counted in units,  *)
(* one for each bid request, of an app and a creative type.                *)

\* The figures of apps can be added up.
Figured(list) ==
    /\ IsFiniteSet(DOMAIN list)
    /\ \A id \in DOMAIN list :
          /\ IsFiniteSet(DOMAIN list[id].creative)
          /\ \A type \in DOMAIN list[id].creative : list[id].creative[type].bids \in Nat

Types(id) == DOMAIN apps[id].creative
Weight(id, type) == 1..apps[id].creative[type].bids
VerifiedApps == {id \in DOMAIN apps : apps[id].verified}
AppUnits(id) == Pairs([type \in Types(id) |-> Weight(id, type)], Types(id))

OfType(h, type) == {id \in Members(h) : type \in Types(id)}
TypesAt(h) == UNION {Types(id) : id \in Members(h)}
TypeUnits(h, type) == Pairs([id \in OfType(h, type) |-> Weight(id, type)], OfType(h, type))
SiteUnits(h) == Pairs([type \in TypesAt(h) |-> TypeUnits(h, type)], TypesAt(h))

LEMMA VolumeOfApp ==
    ASSUME Figured(apps), NEW id \in DOMAIN apps
    PROVE  /\ IsFiniteSet(AppUnits(id))
           /\ Volume(apps[id].creative) = Cardinality(AppUnits(id))
  <1> DEFINE f == [type \in Types(id) |-> apps[id].creative[type].bids]
             A == [type \in Types(id) |-> Weight(id, type)]
  <1>1. IsFiniteSet(Types(id)) /\ \A type \in Types(id) : apps[id].creative[type].bids \in Nat
    BY DEF Figured, Types
  <1>2. DOMAIN f = Types(id) /\ Volume(apps[id].creative) = SumFunction(f)
    BY DEF Volume, Types
  <1>3. ASSUME NEW type \in Types(id) PROVE IsFiniteSet(A[type]) /\ f[type] = Cardinality(A[type])
    <2>1. f[type] \in Nat /\ A[type] = 1..f[type]
      BY <1>1, <1>3 DEF Weight
    <2> HIDE DEF f, A
    <2>2. IsFiniteSet(1..f[type]) /\ Cardinality(1..f[type]) = f[type]
      BY <2>1, FS_Interval
    <2>3. QED
      BY <2>1, <2>2
  <1> HIDE DEF f, A
  <1>4. Tallies(f, A)
    BY <1>1, <1>2, <1>3 DEF Tallies
  <1>5. QED
    BY <1>2, <1>4, SumIsCount DEF AppUnits, A

LEMMA VolumeOfType ==
    ASSUME Figured(apps), NEW h, NEW type \in TypesAt(h)
    PROVE  /\ IsFiniteSet(TypeUnits(h, type))
           /\ Combine(Members(h))[type].bids = Cardinality(TypeUnits(h, type))
  <1> DEFINE with == OfType(h, type)
             f == [id \in with |-> apps[id].creative[type].bids]
             A == [id \in with |-> Weight(id, type)]
  <1>1. /\ with \subseteq DOMAIN apps
        /\ \A id \in with : apps[id].creative[type].bids \in Nat
    BY DEF Figured, OfType, Types, Members
  <1>2. IsFiniteSet(with)
    BY <1>1, FS_Subset DEF Figured
  <1>3. Combine(Members(h))[type].bids = SumFunction(f)
    BY DEF Combine, TypesAt, Types, OfType
  <1> HIDE DEF with
  <1>4. ASSUME NEW id \in with PROVE IsFiniteSet(A[id]) /\ f[id] = Cardinality(A[id])
    <2>1. f[id] \in Nat /\ A[id] = 1..f[id]
      BY <1>1, <1>4 DEF Weight
    <2> HIDE DEF f, A
    <2>2. IsFiniteSet(1..f[id]) /\ Cardinality(1..f[id]) = f[id]
      BY <2>1, FS_Interval
    <2>3. QED
      BY <2>1, <2>2
  <1>5. DOMAIN f = with
    OBVIOUS
  <1> HIDE DEF f, A
  <1>6. Tallies(f, A)
    BY <1>2, <1>4, <1>5 DEF Tallies
  <1>7. QED
    BY <1>3, <1>5, <1>6, SumIsCount DEF TypeUnits, A, with

\* What a site is given by its publisher's apps.
Reach(h) == IF Members(h) = {} THEN None ELSE Combine(Members(h))

LEMMA ReachHas == ASSUME NEW h PROVE DOMAIN Reach(h) = TypesAt(h)
  <1>1. CASE Members(h) = {}
    BY <1>1, NoEntries DEF Reach, TypesAt
  <1>2. CASE Members(h) # {}
    BY <1>2 DEF Reach, Combine, TypesAt, Types
  <1>3. QED
    BY <1>1, <1>2

LEMMA VolumeOfSite ==
    ASSUME Figured(apps), NEW h
    PROVE  /\ IsFiniteSet(SiteUnits(h))
           /\ Volume(Reach(h)) = Cardinality(SiteUnits(h))
  <1> DEFINE f == [type \in DOMAIN Reach(h) |-> Reach(h)[type].bids]
             A == [type \in TypesAt(h) |-> TypeUnits(h, type)]
  <1>1. Volume(Reach(h)) = SumFunction(f) /\ DOMAIN f = TypesAt(h)
    BY ReachHas DEF Volume
  <1>2. IsFiniteSet(TypesAt(h))
    <2> DEFINE g == [id \in Members(h) |-> Types(id)]
               T == {g[id] : id \in DOMAIN g}
    <2>1. IsFiniteSet(Members(h)) /\ \A id \in Members(h) : IsFiniteSet(Types(id))
      BY FS_Subset DEF Figured, Members, Types
    <2>2. DOMAIN g = Members(h)
      OBVIOUS
    <2>3. \A t \in T : IsFiniteSet(t)
      BY <2>1
    <2>4. UNION T = TypesAt(h)
      BY DEF TypesAt
    <2> HIDE DEF g
    <2>5. IsFiniteSet(T)
      BY <2>1, <2>2, ImageIsFinite
    <2> HIDE DEF T
    <2>6. QED
      BY <2>3, <2>4, <2>5, FS_UNION
  <1>3. ASSUME NEW type \in TypesAt(h) PROVE IsFiniteSet(A[type]) /\ f[type] = Cardinality(A[type])
    <2>1. Members(h) # {} /\ type \in DOMAIN Reach(h)
      BY <1>3, ReachHas DEF TypesAt
    <2>2. f[type] = Combine(Members(h))[type].bids
      BY <2>1 DEF Reach
    <2>3. A[type] = TypeUnits(h, type)
      BY <1>3
    <2> HIDE DEF f, A
    <2>4. QED
      BY <1>3, <2>2, <2>3, VolumeOfType
  <1> HIDE DEF f, A
  <1>4. Tallies(f, A)
    BY <1>1, <1>2, <1>3 DEF Tallies
  <1>5. QED
    BY <1>1, <1>4, SumIsCount DEF SiteUnits, A

\* Every unit of a verified app is one unit of one site: its publisher's.
Moved(unit) == <<apps[unit[1]].web, <<unit[2][1], <<unit[1], unit[2][2]>>>>>>

LEMMA UnitsOfSites ==
    ASSUME NEW H, \A id \in VerifiedApps : apps[id].web \in H
    PROVE  LET all == Pairs([id \in VerifiedApps |-> AppUnits(id)], VerifiedApps)
           IN  [unit \in all |-> Moved(unit)]
                   \in Bijection(all, Pairs([h \in H |-> SiteUnits(h)], H))
  <1> DEFINE all == Pairs([id \in VerifiedApps |-> AppUnits(id)], VerifiedApps)
             sites == Pairs([h \in H |-> SiteUnits(h)], H)
             move == [unit \in all |-> Moved(unit)]
  <1>1. \A unit : unit \in all <=>
            \E id \in VerifiedApps : \E type \in Types(id) : \E k \in Weight(id, type) :
                unit = <<id, <<type, k>>>>
    BY DEF Pairs, AppUnits
  <1>2. \A unit : unit \in sites <=>
            \E h \in H : \E type \in TypesAt(h) : \E id \in OfType(h, type) : \E k \in Weight(id, type) :
                unit = <<h, <<type, <<id, k>>>>>>
    BY DEF Pairs, SiteUnits, TypeUnits
  <1> HIDE DEF all, sites
  <1>3. ASSUME NEW unit \in all PROVE Moved(unit) \in sites
    <2>1. PICK id \in VerifiedApps : \E type \in Types(id) : \E k \in Weight(id, type) :
                unit = <<id, <<type, k>>>>
      BY <1>1, <1>3
    <2>0. PICK type \in Types(id) : \E k \in Weight(id, type) : unit = <<id, <<type, k>>>>
      BY <2>1
    <2>2. PICK k \in Weight(id, type) : unit = <<id, <<type, k>>>>
      BY <2>0
    <2> DEFINE h == apps[id].web
    <2>3. h \in H
      OBVIOUS
    <2>4. id \in Members(h)
      BY DEF VerifiedApps, Members
    <2>5. id \in OfType(h, type) /\ type \in TypesAt(h)
      BY <2>4 DEF OfType, TypesAt
    <2>6. Moved(unit) = <<h, <<type, <<id, k>>>>>>
      BY <2>2 DEF Moved
    <2> HIDE DEF h
    <2>7. QED
      BY <1>2, <2>2, <2>3, <2>5, <2>6
  <1>4. ASSUME NEW u \in all, NEW v \in all, Moved(u) = Moved(v) PROVE u = v
    <2>1. PICK id1, type1, k1 : u = <<id1, <<type1, k1>>>>
      BY <1>1, <1>4
    <2>2. PICK id2, type2, k2 : v = <<id2, <<type2, k2>>>>
      BY <1>1, <1>4
    <2>3. /\ Moved(u) = <<apps[id1].web, <<type1, <<id1, k1>>>>>>
          /\ Moved(v) = <<apps[id2].web, <<type2, <<id2, k2>>>>>>
      BY <2>1, <2>2 DEF Moved
    <2>4. type1 = type2 /\ id1 = id2 /\ k1 = k2
      <3>1. /\ Moved(u)[2] = <<type1, <<id1, k1>>>> /\ Moved(v)[2] = <<type2, <<id2, k2>>>>
        BY <2>3
      <3>2. <<type1, <<id1, k1>>>> = <<type2, <<id2, k2>>>>
        BY <1>4, <3>1, Zenon
      <3>3. QED
        BY <3>2
    <2>5. QED
      BY <2>1, <2>2, <2>4
  <1>5. ASSUME NEW s \in sites PROVE \E unit \in all : Moved(unit) = s
    <2>1. PICK h \in H : \E type \in TypesAt(h) : \E id \in OfType(h, type) : \E k \in Weight(id, type) :
                s = <<h, <<type, <<id, k>>>>>>
      BY <1>2, <1>5
    <2>0. PICK type \in TypesAt(h) : \E id \in OfType(h, type) : \E k \in Weight(id, type) :
                s = <<h, <<type, <<id, k>>>>>>
      BY <2>1
    <2>2. PICK id \in OfType(h, type) : \E k \in Weight(id, type) : s = <<h, <<type, <<id, k>>>>>>
      BY <2>0
    <2>3. PICK k \in Weight(id, type) : s = <<h, <<type, <<id, k>>>>>>
      BY <2>2
    <2>4. id \in VerifiedApps /\ apps[id].web = h /\ type \in Types(id)
      BY DEF OfType, Members, VerifiedApps
    <2> DEFINE unit == <<id, <<type, k>>>>
    <2>5. unit \in all
      BY <1>1, <2>4
    <2>6. Moved(unit) = s
      BY <2>3, <2>4 DEF Moved
    <2>7. QED
      BY <2>5, <2>6
  <1>6. move \in Bijection(all, sites)
    <2>1. move \in [all -> sites] /\ \A unit \in all : move[unit] = Moved(unit)
      BY <1>3
    <2> HIDE DEF move
    <2>2. IsInjective(move)
      BY <1>4, <2>1 DEF IsInjective
    <2>3. \A s \in sites : \E unit \in all : move[unit] = s
      BY <1>5, <2>1
    <2>4. QED
      BY <2>1, <2>2, <2>3 DEF Bijection, Injection, Surjection
  <1>7. QED
    BY <1>6 DEF all, sites

LEMMA TotalsAgree ==
    ASSUME Figured(apps), NEW H, IsFiniteSet(H), \A id \in VerifiedApps : apps[id].web \in H
    PROVE  SumFunction([h \in H |-> Volume(Reach(h))])
             = SumFunction([id \in VerifiedApps |-> Volume(apps[id].creative)])
  <1> DEFINE ofSite == [h \in H |-> Volume(Reach(h))]
             siteUnits == [h \in H |-> SiteUnits(h)]
             ofApp == [id \in VerifiedApps |-> Volume(apps[id].creative)]
             appUnits == [id \in VerifiedApps |-> AppUnits(id)]
             all == Pairs(appUnits, VerifiedApps)
             sites == Pairs(siteUnits, H)
  <1>1. Tallies(ofSite, siteUnits)
    <2>1. \A h \in H : IsFiniteSet(siteUnits[h]) /\ ofSite[h] = Cardinality(siteUnits[h])
      BY VolumeOfSite
    <2>2. DOMAIN ofSite = H
      OBVIOUS
    <2> HIDE DEF ofSite, siteUnits
    <2>3. QED
      BY <2>1, <2>2 DEF Tallies
  <1>2. Tallies(ofApp, appUnits)
    <2>1. \A id \in VerifiedApps : IsFiniteSet(appUnits[id]) /\ ofApp[id] = Cardinality(appUnits[id])
      BY VolumeOfApp DEF VerifiedApps
    <2>2. DOMAIN ofApp = VerifiedApps /\ IsFiniteSet(VerifiedApps)
      BY FS_Subset DEF Figured, VerifiedApps
    <2> HIDE DEF ofApp, appUnits
    <2>3. QED
      BY <2>1, <2>2 DEF Tallies
  <1>3. DOMAIN ofSite = H /\ DOMAIN ofApp = VerifiedApps
    OBVIOUS
  <1>4. [unit \in all |-> Moved(unit)] \in Bijection(all, sites)
    BY UnitsOfSites
  <1> HIDE DEF ofSite, siteUnits, ofApp, appUnits, all, sites
  <1>5. IsFiniteSet(sites) /\ SumFunction(ofSite) = Cardinality(sites)
    BY <1>1, <1>3, SumIsCount DEF sites
  <1>6. IsFiniteSet(all) /\ SumFunction(ofApp) = Cardinality(all)
    BY <1>2, <1>3, SumIsCount DEF all
  <1>7. Cardinality(sites) = Cardinality(all)
    BY <1>4, <1>6, FS_Bijection DEF ExistsBijection
  <1>8. QED
    BY <1>5, <1>6, <1>7 DEF ofSite, ofApp

-----------------------------------------------------------------------------
(* The files stay finite, and their figures can be added up.               *)

LEMMA MergeAddsUp ==
    ASSUME NEW rows, IsFiniteSet(rows), \A row \in rows : row.bids \in Nat
    PROVE  /\ IsFiniteSet(DOMAIN Merge(rows))
           /\ \A type \in DOMAIN Merge(rows) : Merge(rows)[type].bids \in Nat
  <1> DEFINE types == {row.creative : row \in rows}
  <1>1. DOMAIN Merge(rows) = types
    BY DEF Merge
  <1>2. IsFiniteSet(types)
    <2> DEFINE g == [row \in rows |-> row.creative]
    <2>1. DOMAIN g = rows /\ types = {g[row] : row \in DOMAIN g}
      OBVIOUS
    <2> HIDE DEF g, types
    <2>2. QED
      BY <2>1, ImageIsFinite
  <1>3. ASSUME NEW type \in types PROVE Merge(rows)[type].bids \in Nat
    <2> DEFINE same == {row \in rows : row.creative = type}
               g == [row \in same |-> row.bids]
               B == {g[row] : row \in DOMAIN g}
    <2>1. Merge(rows)[type].bids = Max(B)
      BY DEF Merge
    <2>2. same # {} /\ IsFiniteSet(same) /\ \A row \in same : row.bids \in Nat
      BY FS_Subset
    <2> HIDE DEF same
    <2>3. B \in SUBSET Nat /\ B # {}
      BY <2>2
    <2>4. DOMAIN g = same
      OBVIOUS
    <2> HIDE DEF g
    <2>5. IsFiniteSet(B)
      BY <2>2, <2>4, ImageIsFinite
    <2> HIDE DEF B
    <2>6. QED
      BY <2>1, <2>3, <2>5, FiniteSetHasMax
  <1>4. QED
    BY <1>1, <1>2, <1>3

LEMMA ExportsAddUp ==
    ASSUME NEW export \in Exports
    PROVE  /\ IsFiniteSet(WellFormed(export))
           /\ \A row \in WellFormed(export) : row.bids \in Nat
  <1>1. IsFiniteSet(export) /\ \A row \in export : row.bids \in Int
    BY InventoryAssumption
  <1>2. WellFormed(export) \in SUBSET export /\ \A row \in WellFormed(export) : row.bids >= 0
    BY DEF WellFormed
  <1>3. QED
    BY <1>1, <1>2, FS_Subset

LEMMA BuiltAppsAddUp ==
    ASSUME AppsSound(apps), NEW export \in Exports
    PROVE  Figured(BuiltApps(WellFormed(export)))
  <1> DEFINE rows == WellFormed(export)
             listed == {r \in rows : IsApp(r.token)}
             ids == {row.token : row \in listed}
             Same(id) == {row \in rows : row.token = id}
             built == BuiltApps(rows)
  <1>1. IsFiniteSet(rows) /\ \A row \in rows : row.bids \in Nat
    BY ExportsAddUp
  <1>2. DOMAIN built = ids
        /\ \A id \in ids : built[id] = IF id \in DOMAIN apps
                                       THEN [apps[id] EXCEPT !.creative = MobileApp(Merge(Same(id))).creative]
                                       ELSE MobileApp(Merge(Same(id)))
    BY DEF BuiltApps
  <1>3. IsFiniteSet(ids)
    <2> DEFINE g == [row \in listed |-> row.token]
    <2>1. IsFiniteSet(listed)
      BY <1>1, FS_Subset
    <2>2. DOMAIN g = listed /\ ids = {g[row] : row \in DOMAIN g}
      OBVIOUS
    <2> HIDE DEF g, listed, ids
    <2>3. QED
      BY <2>1, <2>2, ImageIsFinite
  <1> HIDE DEF rows, built, ids
  <1>4. ASSUME NEW id \in ids
        PROVE  /\ IsFiniteSet(DOMAIN built[id].creative)
               /\ \A type \in DOMAIN built[id].creative : built[id].creative[type].bids \in Nat
    <2> DEFINE new == Merge(Same(id))
    <2>1. IsFiniteSet(Same(id)) /\ \A row \in Same(id) : row.bids \in Nat
      BY <1>1, FS_Subset
    <2>2. IsFiniteSet(DOMAIN new) /\ \A type \in DOMAIN new : new[type].bids \in Nat
      <3> HIDE DEF Same
      <3>1. QED
        BY <2>1, MergeAddsUp
    <2>3. built[id] = IF id \in DOMAIN apps
                      THEN [apps[id] EXCEPT !.creative = MobileApp(new).creative] ELSE MobileApp(new)
      BY <1>2
    <2> HIDE DEF new
    <2>4. MobileApp(new).creative = new
      BY DEF MobileApp
    <2>5. CASE id \in DOMAIN apps
      <3>1. PICK c, w : \E t, v \in BOOLEAN : apps[id] = [creative |-> c, tagged |-> t, web |-> w, verified |-> v]
        BY <2>5 DEF AppsSound, AppEntry
      <3>2. PICK t \in BOOLEAN, v \in BOOLEAN : apps[id] = [creative |-> c, tagged |-> t, web |-> w, verified |-> v]
        BY <3>1
      <3>3. built[id] = [apps[id] EXCEPT !.creative = new]
        BY <2>3, <2>4, <2>5
      <3>4. built[id].creative = new
        BY <3>2, <3>3
      <3>5. QED
        BY <2>2, <3>4
    <2>6. CASE id \notin DOMAIN apps
      BY <2>2, <2>3, <2>4, <2>6
    <2>7. QED
      BY <2>5, <2>6
  <1>5. Figured(built)
    BY <1>2, <1>3, <1>4 DEF Figured
  <1>6. QED
    BY <1>5 DEF built, rows

LEMMA VerifiedAppsAddUp ==
    ASSUME AppsSound(apps), Figured(apps), NEW answers, NEW known, NEW up
    PROVE  Figured(Verify(Identify(answers), known, up))
  <1> DEFINE named == Identify(answers)
             list == Verify(named, known, up)
  <1>1. /\ DOMAIN list = DOMAIN apps
        /\ \A id \in DOMAIN apps : list[id] = [named[id] EXCEPT !.verified = Verified(named[id], known, up)]
    BY DEF Verify, Identify
  <1>2. ASSUME NEW id \in DOMAIN apps PROVE list[id].creative = apps[id].creative
    <2>1. named[id] = IF id \in DOMAIN answers
                      THEN [apps[id] EXCEPT !.tagged = TRUE, !.web = answers[id]] ELSE apps[id]
      BY DEF Identify
    <2>2. PICK c, w : \E t, v \in BOOLEAN : apps[id] = [creative |-> c, tagged |-> t, web |-> w, verified |-> v]
      BY DEF AppsSound, AppEntry
    <2>3. PICK t \in BOOLEAN, v \in BOOLEAN : apps[id] = [creative |-> c, tagged |-> t, web |-> w, verified |-> v]
      BY <2>2
    <2> DEFINE counts == Verified(named[id], known, up)
               u == answers[id]
    <2>4. list[id] = [named[id] EXCEPT !.verified = counts]
      BY <1>1
    <2> HIDE DEF counts, list, named, u
    <2>5. \E z : named[id] = [creative |-> c, tagged |-> z.t, web |-> z.w, verified |-> v]
      <3>1. CASE id \in DOMAIN answers
        <4>1. PICK y \in BOOLEAN : y = TRUE
          OBVIOUS
        <4>2. named[id] = [apps[id] EXCEPT !.tagged = y, !.web = u]
          BY <2>1, <3>1, <4>1, Zenon DEF u
        <4>3. named[id] = [[creative |-> c, tagged |-> t, web |-> w, verified |-> v]
                               EXCEPT !.tagged = y, !.web = u]
          BY <2>3, <4>2, Zenon
        <4>4. named[id] = [creative |-> c, tagged |-> y, web |-> u, verified |-> v]
          BY <4>3
        <4> DEFINE z == [t |-> y, w |-> u]
        <4>5. z.t = y /\ z.w = u
          OBVIOUS
        <4>6. QED
          BY <4>4, <4>5
      <3>2. CASE id \notin DOMAIN answers
        <4> DEFINE z == [t |-> t, w |-> w]
        <4>1. z.t = t /\ z.w = w /\ named[id] = [creative |-> c, tagged |-> t, web |-> w, verified |-> v]
          BY <2>1, <2>3, <3>2
        <4>2. QED
          BY <4>1
      <3>3. QED
        BY <3>1, <3>2
    <2>6. PICK z : named[id] = [creative |-> c, tagged |-> z.t, web |-> z.w, verified |-> v]
      BY <2>5
    <2>7. list[id].creative = c
      BY <2>4, <2>6
    <2>8. QED
      BY <2>3, <2>7
  <1> HIDE DEF list
  <1>3. Figured(list)
    BY <1>1, <1>2 DEF Figured
  <1>4. QED
    BY <1>3 DEF list

LEMMA BuiltSitesAreFinite ==
    ASSUME NEW export \in Exports, NEW up, IsFiniteSet(DOMAIN data)
    PROVE  IsFiniteSet(DOMAIN BuiltSites(WellFormed(export), up))
  <1> DEFINE rows == WellFormed(export)
             g == [row \in rows |-> SiteOf(row, up)]
             T == {g[row] : row \in DOMAIN g}
             hosts == {SiteOf(row, up) : row \in rows} \ {None}
             derived == {h \in DOMAIN data : data[h].via} \ hosts
  <1>1. DOMAIN BuiltSites(rows, up) = hosts \cup derived
    BY DEF BuiltSites
  <1>2. derived \in SUBSET DOMAIN data /\ hosts \in SUBSET T
    OBVIOUS
  <1>3. DOMAIN g = rows /\ IsFiniteSet(rows)
    BY ExportsAddUp
  <1> HIDE DEF g, rows
  <1>4. IsFiniteSet(T)
    BY <1>3, ImageIsFinite
  <1> HIDE DEF T, hosts, derived
  <1>5. IsFiniteSet(hosts) /\ IsFiniteSet(derived)
    BY <1>2, <1>4, FS_Subset
  <1>6. IsFiniteSet(hosts \cup derived)
    BY <1>5, FS_Union
  <1>7. QED
    BY <1>1, <1>6 DEF rows

\* Rebuilt from scratch, the sites show the reach of the apps and no other.
LEMMA RebuiltSitesShowReach ==
    ASSUME AppsSound(apps), Figured(apps), NEW sites, SitesSound(sites), IsFiniteSet(DOMAIN sites)
    PROVE  LET built == Rebuilt(sites)
           IN  /\ IsFiniteSet(DOMAIN built)
               /\ \A id \in VerifiedApps : apps[id].web \in DOMAIN built
               /\ \A h \in DOMAIN built : built[h].app = Reach(h)
  <1> DEFINE kept == {h \in DOMAIN sites : ~sites[h].via}
             webs == {apps[id].web : id \in {i \in DOMAIN apps : apps[i].verified}}
             new  == webs \ kept
             built == Rebuilt(sites)
  <1>1. DOMAIN built = kept \cup new
        /\ \A h \in kept \cup new : built[h] = IF h \in kept THEN WithReach(sites[h], h) ELSE Derived(sites, h)
    BY DEF Rebuilt
  <1>2. IsFiniteSet(kept \cup new)
    <2> DEFINE g == [id \in VerifiedApps |-> apps[id].web]
    <2>1. DOMAIN g = VerifiedApps /\ webs = {g[id] : id \in DOMAIN g}
      BY DEF VerifiedApps
    <2>2. IsFiniteSet(VerifiedApps)
      BY FS_Subset DEF Figured, VerifiedApps
    <2>3. IsFiniteSet(webs)
      <3> HIDE DEF g, webs
      <3>1. QED
        BY <2>1, <2>2, ImageIsFinite
    <2>4. IsFiniteSet(kept) /\ IsFiniteSet(new)
      BY <2>3, FS_Subset
    <2> HIDE DEF kept, new
    <2>5. QED
      BY <2>4, FS_Union
  <1>3. \A id \in VerifiedApps : apps[id].web \in kept \cup new
    BY DEF VerifiedApps
  <1>4. ASSUME NEW h \in kept \cup new PROVE built[h].app = Reach(h)
    <2>1. CASE h \in kept
      <3> DEFINE reach == Reach(h)
      <3>1. PICK c, a : \E t, v \in BOOLEAN : sites[h] = [creative |-> c, tagged |-> t, via |-> v, app |-> a]
        BY <2>1 DEF SitesSound, SiteEntry
      <3>2. PICK t \in BOOLEAN, v \in BOOLEAN : sites[h] = [creative |-> c, tagged |-> t, via |-> v, app |-> a]
        BY <3>1
      <3>3. built[h] = [sites[h] EXCEPT !.app = reach]
        BY <1>1, <2>1 DEF WithReach, Reach
      <3> HIDE DEF reach, built, kept
      <3>4. built[h].app = reach
        BY <3>2, <3>3
      <3>5. QED
        BY <3>4 DEF reach
    <2>2. CASE h \notin kept
      <3> DEFINE reach == Combine(Members(h))
                 had == h \in DOMAIN sites /\ sites[h].via /\ sites[h].tagged
      <3>1. Members(h) # {}
        BY <1>4, <2>2 DEF Members
      <3>2. built[h] = [Site(None) EXCEPT !.via = TRUE, !.app = reach, !.tagged = had]
        BY <1>1, <2>2 DEF Derived
      <3> HIDE DEF reach, built, kept, new, had
      <3>3. built[h].app = reach
        BY <3>2 DEF Site
      <3>4. QED
        BY <3>1, <3>3 DEF reach, Reach
    <2>3. QED
      BY <2>1, <2>2
  <1> HIDE DEF built, kept, new
  <1>5. QED
    BY <1>1, <1>2, <1>3, <1>4 DEF built

LEMMA LabelsKeepReach ==
    ASSUME NEW sites, SitesSound(sites), NEW labelled
    PROVE  /\ DOMAIN Label(sites, labelled) = DOMAIN sites
           /\ \A h \in DOMAIN sites : Label(sites, labelled)[h].app = sites[h].app
  <1>1. /\ DOMAIN Label(sites, labelled) = DOMAIN sites
        /\ \A h \in DOMAIN sites : Label(sites, labelled)[h] = [sites[h] EXCEPT !.tagged = @ \/ h \in labelled]
    BY DEF Label
  <1>2. ASSUME NEW h \in DOMAIN sites PROVE Label(sites, labelled)[h].app = sites[h].app
    <2> DEFINE new == Label(sites, labelled)
    <2>1. PICK c, a : \E t, v \in BOOLEAN : sites[h] = [creative |-> c, tagged |-> t, via |-> v, app |-> a]
      BY DEF SitesSound, SiteEntry
    <2>2. PICK t \in BOOLEAN, v \in BOOLEAN : sites[h] = [creative |-> c, tagged |-> t, via |-> v, app |-> a]
      BY <2>1
    <2>3. new[h] = [creative |-> c, tagged |-> (t \/ h \in labelled), via |-> v, app |-> a]
      BY <1>1, <2>2
    <2> HIDE DEF new
    <2>4. new[h].app = a /\ sites[h].app = a
      BY <2>2, <2>3
    <2>5. QED
      BY <2>4 DEF new
  <1>3. QED
    BY <1>1, <1>2

-----------------------------------------------------------------------------
(* A completed tagging is current until the next script writes.            *)

ReachInv ==
    /\ InventoryInv
    /\ IsFiniteSet(DOMAIN data)
    /\ Figured(apps)
    /\ \A list : script = [doing |-> "build", apps |-> list] => Figured(list)
    /\ script # None => ~current
    /\ ReachIsCurrent

LEMMA ReachOfSites ==
    ASSUME Figured(apps), NEW sites, IsFiniteSet(DOMAIN sites),
           \A id \in VerifiedApps : apps[id].web \in DOMAIN sites,
           \A h \in DOMAIN sites : sites[h].app = Reach(h)
    PROVE  /\ SumFunction([h \in DOMAIN sites |-> Volume(sites[h].app)])
                = SumFunction([id \in VerifiedApps |-> Volume(apps[id].creative)])
           /\ \A id \in VerifiedApps :
                 /\ apps[id].web \in DOMAIN sites
                 /\ DOMAIN apps[id].creative \subseteq DOMAIN sites[apps[id].web].app
  <1>1. SumFunction([h \in DOMAIN sites |-> Volume(Reach(h))])
          = SumFunction([id \in VerifiedApps |-> Volume(apps[id].creative)])
    BY TotalsAgree
  <1>2. [h \in DOMAIN sites |-> Volume(sites[h].app)] = [h \in DOMAIN sites |-> Volume(Reach(h))]
    OBVIOUS
  <1>3. ASSUME NEW id \in VerifiedApps
        PROVE  DOMAIN apps[id].creative \subseteq DOMAIN sites[apps[id].web].app
    <2> DEFINE h == apps[id].web
    <2>1. h \in DOMAIN sites /\ id \in Members(h)
      BY DEF VerifiedApps, Members
    <2> HIDE DEF h
    <2>2. DOMAIN sites[h].app = TypesAt(h)
      BY <2>1, ReachHas
    <2>3. QED
      BY <2>1, <2>2 DEF h, TypesAt, Types
  <1>4. QED
    BY <1>1, <1>2, <1>3

LEMMA ReachStep == ASSUME ReachInv, Next PROVE ReachInv'
  <1>0. InventoryInv'
    BY StepKeeps DEF ReachInv, FilesKeep
  <1> USE DEF ReachInv
  <1>1. CASE BuildSites
    <2>0. PICK export \in Exports : \E up :
             /\ data' = BuiltSites(WellFormed(export), up)
             /\ script' = [doing |-> "build", apps |-> BuiltApps(WellFormed(export))]
      BY <1>1 DEF BuildSites
    <2>1. PICK up : /\ data' = BuiltSites(WellFormed(export), up)
                    /\ script' = [doing |-> "build", apps |-> BuiltApps(WellFormed(export))]
      BY <2>0
    <2>2. apps' = apps /\ current' = FALSE
      BY <1>1 DEF BuildSites
    <2>3. IsFiniteSet(DOMAIN data')
      BY <2>1, BuiltSitesAreFinite
    <2>4. Figured(BuiltApps(WellFormed(export)))
      BY BuiltAppsAddUp DEF InventoryInv
    <2>5. \A list : script' = [doing |-> "build", apps |-> list] => Figured(list)
      <3> DEFINE list0 == BuiltApps(WellFormed(export))
      <3> HIDE DEF list0
      <3>1. script' = [doing |-> "build", apps |-> list0] /\ Figured(list0)
        BY <2>1, <2>4 DEF list0
      <3>2. QED
        BY <3>1
    <2>6. QED
      BY <1>0, <2>2, <2>3, <2>5 DEF ReachIsCurrent
  <1>2. CASE BuildApps
    <2>1. PICK list : script = [doing |-> "build", apps |-> list]
      BY <1>2 DEF BuildApps, InventoryInv, Building, Tagging
    <2>2. apps' = list /\ data' = data /\ script' = None /\ current' = current
      BY <1>2, <2>1 DEF BuildApps
    <2>3. Figured(list) /\ ~current
      BY <1>2, <2>1 DEF BuildApps
    <2>4. \A l : script' # [doing |-> "build", apps |-> l]
      BY <2>2 DEF None
    <2>5. QED
      BY <1>0, <2>2, <2>3, <2>4 DEF ReachIsCurrent
  <1>3. CASE TagApps
    <2>1. PICK labelled, answers, up :
             /\ apps' = Verify(Identify(answers), DOMAIN data, up)
             /\ script' = [doing |-> "tag", sites |-> Label(data, labelled)]
      BY <1>3 DEF TagApps
    <2>2. data' = data /\ current' = FALSE
      BY <1>3 DEF TagApps
    <2>3. Figured(apps')
      BY <2>1, VerifiedAppsAddUp DEF InventoryInv
    <2>4. \A list : script' # [doing |-> "build", apps |-> list]
      BY <2>1
    <2>5. QED
      BY <1>0, <2>2, <2>3, <2>4 DEF ReachIsCurrent
  <1>4. CASE TagSites
    <2>1. PICK sites : /\ script = [doing |-> "tag", sites |-> sites]
                       /\ SitesSound(sites) /\ DOMAIN sites = DOMAIN data
      BY <1>4 DEF TagSites, InventoryInv, Building, Tagging
    <2>2. PICK labelled : data' = Label(Rebuilt(sites), labelled)
      <3>1. \E labelled : data' = Label(Rebuilt(script.sites), labelled)
        BY <1>4, Zenon DEF TagSites, Rebuilt
      <3>2. QED
        BY <2>1, <3>1
    <2>3. apps' = apps /\ script' = None
      BY <1>4 DEF TagSites
    <2> DEFINE built == Rebuilt(sites)
    <2>4. /\ IsFiniteSet(DOMAIN built)
          /\ \A id \in VerifiedApps : apps[id].web \in DOMAIN built
          /\ \A h \in DOMAIN built : built[h].app = Reach(h)
      BY <2>1, RebuiltSitesShowReach DEF InventoryInv
    <2>5. SitesSound(built)
      BY <2>1, RebuiltSitesAreSound DEF InventoryInv
    <2> HIDE DEF built
    <2>6. DOMAIN data' = DOMAIN built /\ \A h \in DOMAIN built : data'[h].app = built[h].app
      BY <2>2, <2>5, LabelsKeepReach DEF built
    <2>7. ReachIsCurrent'
      <3>1. PICK final : final = data'
        OBVIOUS
      <3>2. /\ IsFiniteSet(DOMAIN final)
            /\ \A id \in VerifiedApps : apps[id].web \in DOMAIN final
            /\ \A h \in DOMAIN final : final[h].app = Reach(h)
        BY <2>4, <2>6, <3>1
      <3>3. /\ SumFunction([h \in DOMAIN final |-> Volume(final[h].app)])
                 = SumFunction([id \in VerifiedApps |-> Volume(apps[id].creative)])
            /\ \A id \in VerifiedApps :
                  /\ apps[id].web \in DOMAIN final
                  /\ DOMAIN apps[id].creative \subseteq DOMAIN final[apps[id].web].app
        BY <3>2, ReachOfSites
      <3>4. QED
        BY <2>3, <3>1, <3>3 DEF ReachIsCurrent, VerifiedApps, Volume
    <2>8. \A list : script' # [doing |-> "build", apps |-> list]
      BY <2>3 DEF None
    <2>9. IsFiniteSet(DOMAIN data') /\ Figured(apps')
      BY <2>3, <2>4, <2>6
    <2>10. QED
      BY <1>0, <2>3, <2>7, <2>8, <2>9
  <1>5. CASE Dies
    <2>1. script' = None /\ UNCHANGED <<data, apps, current>>
      BY <1>5 DEF Dies
    <2>2. \A list : script' # [doing |-> "build", apps |-> list]
      BY <2>1 DEF None
    <2>3. ReachIsCurrent'
      BY <2>1 DEF ReachIsCurrent, Volume
    <2>4. QED
      BY <1>0, <2>1, <2>2, <2>3
  <1>6. QED
    BY <1>1, <1>2, <1>3, <1>4, <1>5 DEF Next

(* After a tagging has completed, the reach that the sites show is that of *)
(* the apps in the file: their bid requests add up to the same number, and *)
(* each app whose website is verified is counted at that website, whatever *)
(* earlier exports, labels or stopped runs had left                        *)
(* (tag_inventory.py:155-223).                                             *)
THEOREM ReachStaysCurrent == Spec => []ReachIsCurrent
  <1>1. Init => ReachInv
    <2> SUFFICES ASSUME Init PROVE ReachInv
      OBVIOUS
    <2>1. InventoryInv
      BY NoEntries DEF Init, InventoryInv, SitesSound, AppsSound
    <2>2. DOMAIN data = {} /\ DOMAIN apps = {} /\ script = None /\ current = FALSE
      BY NoEntries DEF Init
    <2>3. IsFiniteSet(DOMAIN data) /\ Figured(apps)
      BY <2>2, FS_EmptySet DEF Figured
    <2>4. \A list : script # [doing |-> "build", apps |-> list]
      BY <2>2 DEF None
    <2>5. QED
      BY <2>1, <2>2, <2>3, <2>4 DEF ReachInv, ReachIsCurrent
  <1>2. ReachInv /\ [Next]_vars => ReachInv'
    <2> SUFFICES ASSUME ReachInv, [Next]_vars PROVE ReachInv'
      OBVIOUS
    <2>1. CASE Next
      BY <2>1, ReachStep
    <2>2. CASE UNCHANGED vars
      BY <2>2 DEF vars, ReachInv, InventoryInv, Building, Tagging, ReachIsCurrent, Volume
    <2>3. QED
      BY <2>1, <2>2
  <1>3. ReachInv => ReachIsCurrent
    BY DEF ReachInv
  <1>4. QED
    BY <1>1, <1>2, <1>3, PTL DEF Spec
=============================================================================
