---------------------------- MODULE RecipeStore -----------------------------
(***************************************************************************)
(* The recipes of one machine: the local store in entry.options, the YAML  *)
(* layer below it, the merged view each coordinator caches, and everything *)
(* that writes the store: the services (create, edit, delete, import,      *)
(* export), the panel (save a pod's recipe), the options flow, the bundled *)
(* seed at setup, the one-time cloud seed in the background, and the       *)
(* migration of older stores.                                              *)
(*                                                                         *)
(* Cloud calls are awaited: a task begins on one coordinator, and a reload *)
(* of the entry may replace that coordinator before the answer comes.  The *)
(* options-update listener hears a write only while the entry is set up.   *)
(***************************************************************************)
EXTENDS Naturals, Functions

CONSTANTS
    Base,       \* recipe names as users and the cloud write them
    Yaml,       \* names in configuration.yaml
    Bundled,    \* names of default_recipes.py
    Official,   \* names the official cloud list answers with
    Account,    \* names the account's own cloud list answers with
    PodName,    \* the name on the scanned pods' recipes
    MaxSuffix,  \* bound: the n of "name (n)"
    MaxWrites,  \* bound: writes of the store
    MaxGen      \* bound: coordinators since Home Assistant started

ASSUME RecipeStoreAssumption ==
    /\ Yaml \subseteq Base /\ Bundled \subseteq Base /\ Bundled # {}
    /\ Official \subseteq Base /\ Account \subseteq Base /\ PodName \in Base
    /\ MaxSuffix \in Nat \ {0} /\ MaxWrites \in Nat \ {0} /\ MaxGen \in Nat \ {0}

VARIABLES
    version,    \* entry.version
    store,      \* entry.options["recipes"]: the recipes
    tombs,      \* entry.options["recipes"]: the names whose value is None
    seeded,     \* the seed flags set in entry.options
    account,    \* entry.data holds an email and a password
    phase,      \* where setup of the entry is
    gen,        \* the coordinator of the latest setup
    view,       \* self.recipes of each coordinator
    snap,       \* options_snapshot
    using,      \* whether the latest coordinator was given an account
    selected,   \* selected_recipe of the latest coordinator
    seeds,      \* async_seed_recipes tasks awaiting the cloud
    job,        \* the import or export awaiting the cloud
    writes,     \* writes of the store so far; the n-th mints uids <<n, _>>
    missed,     \* history: a write during setup that the coordinator has not seen since
    gone        \* history: names that went when a seeding was over, with that seeding

entry == <<store, tombs, seeded>>
history == <<missed, gone>>
vars == <<version, entry, account, phase, gen, view, snap, using, selected, seeds, job, writes, history>>

Names == Base \X (1 .. MaxSuffix)      \* <<b, 2>> is "b (2)"
Plain(b) == <<b, 1>>
NoName == <<"none", 0>>
PlainOf(S) == {Plain(b) : b \in S}

Uids == (0 .. MaxWrites) \X Names        \* <<0, n>> is the uid derived from a YAML name
NoUid == <<0, NoName>>                 \* a recipe stored before version 3
Links == {"none", "pod", "account"}      \* where its share link and cloud id lead
Pods == {"linked", "plain"}              \* scanned pods: with a share link, and without one
Recipe == [uid : Uids \cup {NoUid}, link : Links, pod : Pods \cup {"none"}, fields : {1, 2}]

(* A recipe's source is "pod" when its pod is not "none".                  *)
New(k, n) == [uid |-> <<k, n>>, link |-> "none", pod |-> "none", fields |-> 2]
YamlRecipe(n) == New(0, n)

Gens == 1 .. MaxGen
Partial(S) == UNION {[D -> S] : D \in SUBSET Names}
Nothing == [n \in {} |-> YamlRecipe(NoName)]
Seedings == {"initial", "account"}
NoJob == [kind |-> "none", gen |-> 1, name |-> NoName, raw |-> YamlRecipe(NoName)]

IsView(v) == DOMAIN v \subseteq Names /\ v \in [DOMAIN v -> Recipe]

(* Every recipe a coordinator shows has a uid and the current fields, and  *)
(* a name is never both a recipe and a tombstone.                          *)
TypeOK ==
    /\ version \in 1 .. 3
    /\ IsView(store) /\ tombs \subseteq Names /\ DOMAIN store \cap tombs = {}
    /\ seeded \subseteq Seedings
    /\ account \in BOOLEAN /\ using \in BOOLEAN
    /\ phase \in {"boot", "setup", "forward", "up"} /\ gen \in Gens
    /\ \A g \in Gens : IsView(view[g]) /\ \A n \in DOMAIN view[g] :
                          view[g][n].uid # NoUid /\ view[g][n].fields = 2
    /\ IsView(snap[1]) /\ snap[2] \subseteq Names /\ snap[3] \subseteq Seedings
    /\ selected \in Names \cup {NoName}
    /\ seeds \subseteq [gen : Gens, account : BOOLEAN]
    /\ job.kind \in {"none", "import", "export"} /\ job.gen \in Gens
    /\ writes \in 1 .. MaxWrites
    /\ missed \in BOOLEAN /\ gone \subseteq Names \X Seedings

(* YAML < the store; a tombstone hides the YAML recipe of its name.        *)
Visible(s, t) ==
    [n \in DOMAIN s \cup (PlainOf(Yaml) \ t) |-> IF n \in DOMAIN s THEN s[n] ELSE YamlRecipe(n)]

\* Variant: the name is taken as it comes.
DedupeNever(b, taken) == Plain(b)

DedupeName(b, taken) ==
    <<b, CHOOSE k \in 1 .. MaxSuffix : <<b, k>> \notin taken /\ \A j \in 1 .. (k - 1) : <<b, j>> \in taken>>

Free(b, taken) == \E k \in 1 .. MaxSuffix : <<b, k>> \notin taken
With(s, n, r) == [x \in DOMAIN s \cup {n} |-> IF x = n THEN r ELSE s[x]]
Without(s, n) == Restrict(s, DOMAIN s \ {n})

(* What a coordinator finds for an identifier: a uid, a cloud id or a      *)
(* share link leads to a recipe it shows, and a name to any of them.       *)
Found(recipes) == DOMAIN recipes

(* A fresh entry, one of an older version, or one whose first seeding is   *)
(* over and left it with a recipe saved from a pod.                        *)
FromPod(p, k, n) ==
    [New(k, n) EXCEPT !.link = IF p = "linked" THEN "pod" ELSE "none", !.pod = p]

Init ==
    /\ version \in 1 .. 3
    /\ \/ \E old \in {{}, PlainOf(Base \ Yaml)} :
             /\ tombs \in {{}, IF old = {} THEN PlainOf(Yaml) ELSE {}}
             /\ store = [n \in old |-> [YamlRecipe(n) EXCEPT !.uid = IF version = 3 THEN <<1, n>> ELSE NoUid,
                                                             !.fields = IF version = 1 THEN 1 ELSE 2]]
             /\ seeded = {}
       \/ /\ version = 3 /\ seeded = {"initial"} /\ tombs = {}
          /\ store = [n \in {Plain(PodName)} |-> FromPod("linked", 1, n)]
    /\ writes = 1 /\ account \in BOOLEAN
    /\ phase = "boot" /\ gen = 1 /\ view = [g \in Gens |-> Nothing]
    /\ snap = <<Nothing, {}, {}>> /\ using = FALSE /\ selected = NoName
    /\ seeds = {} /\ job = NoJob
    /\ missed = FALSE /\ gone = {}

----------------------------------------------------------------------------
(* The entry is unloaded, to be set up with a new coordinator.  Tasks of   *)
(* the old one go on; its view is kept while an import still needs it.     *)
Needs(g) == job.kind = "import" /\ job.gen = g

Unload ==
    /\ gen < MaxGen /\ gen' = gen + 1
    /\ phase' = "boot" /\ selected' = NoName
    /\ view' = [view EXCEPT ![gen] = IF Needs(gen) THEN @ ELSE Nothing]
    /\ missed' = FALSE

Kind(t) == IF t.account THEN "account" ELSE "initial"
Over(k) == k \in seeded /\ \A t \in seeds : Kind(t) # k
Shown == Visible(store, tombs)

(* What a write that leaves the store s and the tombstones t makes go, and *)
(* what it shows again.                                                    *)
GoneAfter(s, t) ==
    {p \in gone \cup ((DOMAIN Shown \ DOMAIN Visible(s, t)) \X {k \in Seedings : Over(k)}) :
        p[1] \notin DOMAIN Visible(s, t)}

\* Variant: the update listener is not registered.
HeardNever(new) == phase = "up" /\ FALSE

(* A write of the options, and a coordinator w rebuilding its view after   *)
(* it (0: the flow has none).  The listener compares with its snapshot: a  *)
(* change of recipe keys rebuilds the view, no change reloads the entry.   *)
Heard(new) == phase = "up" /\ new # entry

Write(s, t, sd, w, sel) ==
    LET new == <<s, t, sd>>
        rebuilt == {g \in Gens : \/ g = gen /\ phase # "boot" /\ (w = gen \/ Heard(new))
                                 \/ g = w /\ Needs(w)}
    IN
    /\ writes < MaxWrites /\ writes' = writes + 1
    /\ store' = s /\ tombs' = t /\ seeded' = sd
    /\ snap' = IF Heard(new) THEN new ELSE snap
    /\ IF Heard(new) /\ new = snap
       THEN Unload
       ELSE /\ view' = [g \in Gens |-> IF g \in rebuilt THEN Visible(s, t) ELSE view[g]]
            /\ selected' = sel
            /\ missed' = (gen \notin rebuilt /\ (missed \/ phase \in {"setup", "forward"}))
            /\ UNCHANGED <<gen, phase>>
    /\ gone' = GoneAfter(s, t)
    /\ UNCHANGED <<version, account, using>>

Serving == phase = "up"
Mine == view[gen]

(* create_local_recipe                                                     *)
Create(b) ==
    /\ Serving /\ Free(b, DOMAIN Mine)
    /\ LET n == DedupeName(b, DOMAIN Mine) IN
          Write(With(store, n, New(writes + 1, n)), tombs \ {n}, seeded, gen, selected)
    /\ UNCHANGED <<seeds, job>>

(* A recipe with a share link is known by it, one without by its name      *)
(* among all that were saved from pods.                                    *)
Known(p) ==
    \E n \in DOMAIN Mine : IF p = "linked" THEN Mine[n].link = "pod"
                           ELSE Mine[n].pod # "none" /\ n = Plain(PodName)

(* save_pod_recipes.                                                       *)
SavePod(p) ==
    /\ phase \in {"forward", "up"}
    /\ ~Known(p) /\ Free(PodName, DOMAIN Mine)
    /\ LET n == DedupeName(PodName, DOMAIN Mine) IN
          Write(With(store, n, FromPod(p, writes + 1, n)), tombs \ {n}, seeded, gen, selected)
    /\ UNCHANGED <<seeds, job>>

\* Variant: a rename leaves the selection on the old name.
EditKeepsSelection(n, m) ==
    /\ Serving /\ n \in Found(Mine)
    /\ m # n => m \notin DOMAIN Mine
    /\ LET left == IF m = n THEN store ELSE Without(store, n)
           hidden == IF m = n THEN tombs ELSE (tombs \ {n}) \cup ({n} \cap PlainOf(Yaml))
       IN  Write(With(left, m, Mine[n]), hidden \ {m}, seeded, gen, selected)
    /\ UNCHANGED <<seeds, job>>

\* Variant: an edit leaves the share link out.
EditDropsLink(n, m) ==
    /\ Serving /\ n \in Found(Mine)
    /\ m # n => m \notin DOMAIN Mine
    /\ LET left == IF m = n THEN store ELSE Without(store, n)
           hidden == IF m = n THEN tombs ELSE (tombs \ {n}) \cup ({n} \cap PlainOf(Yaml))
       IN  Write(With(left, m, [Mine[n] EXCEPT !.link = "none"]), hidden \ {m}, seeded, gen,
                 IF selected = n THEN m ELSE selected)
    /\ UNCHANGED <<seeds, job>>

(* async_edit_local_recipe: a recipe n patched, and renamed when m # n.    *)
Edit(n, m) ==
    /\ Serving /\ n \in Found(Mine)
    /\ m # n => m \notin DOMAIN Mine
    /\ LET left == IF m = n THEN store ELSE Without(store, n)
           hidden == IF m = n THEN tombs ELSE (tombs \ {n}) \cup ({n} \cap PlainOf(Yaml))
       IN  Write(With(left, m, Mine[n]), hidden \ {m}, seeded, gen, IF selected = n THEN m ELSE selected)
    /\ UNCHANGED <<seeds, job>>

\* Variant: deleting a YAML recipe leaves no tombstone.
DeleteUnmarked(n) ==
    /\ Serving /\ n \in Found(Mine)
    /\ Write(Without(store, n), tombs \ {n}, seeded, gen, IF selected = n THEN NoName ELSE selected)
    /\ UNCHANGED <<seeds, job>>

(* delete_local_recipe                                                     *)
Delete(n) ==
    /\ Serving /\ n \in Found(Mine)
    /\ Write(Without(store, n), (tombs \ {n}) \cup ({n} \cap PlainOf(Yaml)), seeded, gen,
             IF selected = n THEN NoName ELSE selected)
    /\ UNCHANGED <<seeds, job>>

(* select_recipe                                                           *)
Select(n) ==
    /\ Serving /\ n \in Found(Mine)
    /\ selected' = n
    /\ UNCHANGED <<version, entry, account, phase, gen, view, snap, using, seeds, job, writes, history>>

----------------------------------------------------------------------------
(* async_import_cloud_recipe: the fetch, then the store as it is by then,  *)
(* named against the view of the coordinator that began it.                *)
ImportBegin(b) ==
    /\ Serving /\ job = NoJob
    /\ job' = [NoJob EXCEPT !.kind = "import", !.gen = gen, !.name = Plain(b)]
    /\ UNCHANGED <<version, entry, account, phase, gen, view, snap, using, selected, seeds, writes, history>>

ImportDone ==
    /\ job.kind = "import"
    /\ LET taken == DOMAIN view[job.gen]
           b == job.name[1]
           n == DedupeName(b, taken)
       IN  Free(b, taken) /\ Write(With(store, n, New(writes + 1, n)), tombs \ {n}, seeded, job.gen, selected)
    /\ job' = NoJob
    /\ UNCHANGED seeds

(* async_export_recipe: creates the recipe on the account, or updates it   *)
(* in place, and stores the cloud identity under the name it had.          *)
ExportBegin(n) ==
    /\ Serving /\ using /\ job = NoJob /\ n \in Found(Mine)
    /\ job' = [kind |-> "export", gen |-> gen, name |-> n, raw |-> Mine[n]]
    /\ UNCHANGED <<version, entry, account, phase, gen, view, snap, using, selected, seeds, writes, history>>

ExportDone ==
    /\ job.kind = "export"
    /\ LET r == IF job.name \in DOMAIN store THEN store[job.name] ELSE job.raw
       IN  Write(With(store, job.name, [r EXCEPT !.link = "account"]), tombs \ {job.name}, seeded,
                 job.gen, selected)
    /\ job' = NoJob
    /\ UNCHANGED seeds

(* The cloud does not answer, refuses, or answers with an invalid recipe.  *)
CloudFails ==
    /\ job # NoJob /\ job' = NoJob
    /\ UNCHANGED <<version, entry, account, phase, gen, view, snap, using, selected, seeds, writes, history>>

----------------------------------------------------------------------------
(* The options flow.  It reads the options themselves, keeps the recipes   *)
(* of the store but none of its tombstones, and has no coordinator.        *)
Idle == phase # "boot"

FlowAdd(b) ==
    LET n == Plain(b) IN
    /\ Idle /\ n \notin DOMAIN Shown
    /\ Write(With(store, n, New(writes + 1, n)), {}, seeded, 0, selected)
    /\ UNCHANGED <<seeds, job>>

FlowEdit(n, m) ==
    /\ Idle /\ n \in DOMAIN Shown
    /\ Write(With(Without(store, n), m, Shown[n]), {}, seeded, 0, selected)
    /\ UNCHANGED <<seeds, job>>

FlowDelete(n) ==
    /\ Idle /\ n \in DOMAIN Shown
    /\ Write(Without(store, n), IF n \in DOMAIN store THEN {} ELSE {n}, seeded, 0, selected)
    /\ UNCHANGED <<seeds, job>>

(* The account step writes entry.data.  The listener sees no change of     *)
(* options since its snapshot and reloads the entry; when it does see one, *)
(* it rebuilds the view and returns.                                       *)
SetAccount ==
    /\ Idle /\ account' = ~account
    /\ IF phase = "up" /\ entry = snap
       THEN Unload /\ UNCHANGED snap
       ELSE /\ IF phase = "up" THEN /\ view' = [view EXCEPT ![gen] = Shown]
                                    /\ snap' = entry
                               ELSE UNCHANGED <<view, snap>>
            /\ missed' = (phase # "up" /\ missed)
            /\ UNCHANGED <<gen, phase, selected>>
    /\ UNCHANGED <<version, entry, using, seeds, job, writes, gone>>

----------------------------------------------------------------------------
(* async_seed_recipes, after the fetch: what the store holds by then, its  *)
(* tombstones and the YAML names win over what was fetched.                *)
Fetched(t) == PlainOf(IF t.account THEN Account ELSE Official)
Wanted(t) == Fetched(t) \ (DOMAIN store \cup tombs \cup PlainOf(Yaml))
Flags(t) == IF t.account THEN {"account", "initial"} ELSE {"initial"}

FromCloud(t, n) == [New(writes + 1, n) EXCEPT !.link = IF t.account THEN "account" ELSE "none"]

SeedDone(t) ==
    /\ t \in seeds
    /\ Write([n \in DOMAIN store \cup Wanted(t) |-> IF n \in DOMAIN store THEN store[n] ELSE FromCloud(t, n)],
             tombs, seeded \cup Flags(t), t.gen, selected)
    /\ seeds' = seeds \ {t}
    /\ UNCHANGED job

SeedFails(t) ==
    /\ t \in seeds /\ seeds' = seeds \ {t}
    /\ UNCHANGED <<version, entry, account, phase, gen, view, snap, using, selected, job, writes, history>>

----------------------------------------------------------------------------
(* Setup.  async_migrate_entry, then async_setup_entry: the bundled seed   *)
(* and the first rebuild, the snapshot once the first refresh is done, the *)
(* listener and the cloud seed once the platforms are set up.              *)
V1toV2(r) == [r EXCEPT !.fields = 2]

V2toV3(r, n) == IF r.uid = NoUid THEN [r EXCEPT !.uid = <<1, n>>] ELSE r

Migrate ==
    /\ phase = "boot" /\ version < 3
    /\ \/ /\ version = 1
          /\ store' = [n \in DOMAIN store |-> V1toV2(store[n])]
       \/ /\ version = 2
          /\ store' = [n \in DOMAIN store |-> V2toV3(store[n], n)]
    /\ version' = version + 1
    /\ UNCHANGED <<tombs, seeded, account, phase, gen, view, snap, using, selected, seeds, job, writes, history>>

Seeded ==
    IF store = Nothing /\ tombs = {} /\ "initial" \notin seeded
    THEN [n \in PlainOf(Bundled) |-> New(writes + 1, n)] ELSE store

SetupBegins ==
    /\ phase = "boot" /\ version = 3
    /\ store' = Seeded /\ writes' = IF store' = store THEN writes ELSE writes + 1
    /\ writes' <= MaxWrites
    /\ view' = [view EXCEPT ![gen] = Visible(store', tombs)]
    /\ using' = account /\ phase' = "setup"
    /\ gone' = GoneAfter(store', tombs)
    /\ UNCHANGED <<version, tombs, seeded, account, gen, snap, selected, seeds, job, missed>>

Snapshot ==
    /\ phase = "setup" /\ phase' = "forward" /\ snap' = entry
    /\ UNCHANGED <<version, entry, account, gen, view, using, selected, seeds, job, writes, history>>

\* Variant: the flag is not asked.
DueAlways(t) == TRUE

Due(t) == Kind(t) \notin seeded

SetupDone ==
    /\ phase = "forward" /\ phase' = "up"
    /\ seeds' = seeds \cup {t \in {[gen |-> gen, account |-> using]} : Due(t)}
    /\ UNCHANGED <<version, entry, account, gen, view, snap, using, selected, job, writes, history>>

(* A reload asked for by the user or by a setting that needs one: the      *)
(* tasks go on.                                                            *)
Reload ==
    /\ phase = "up" /\ Unload
    /\ UNCHANGED <<version, entry, account, snap, using, seeds, job, writes, gone>>

(* Home Assistant stops and starts, with what is stored and nothing else.  *)
Restart ==
    /\ phase' = "boot" /\ gen' = 1 /\ view' = [g \in Gens |-> Nothing]
    /\ selected' = NoName /\ seeds' = {} /\ job' = NoJob
    /\ snap' = <<Nothing, {}, {}>> /\ using' = FALSE /\ missed' = FALSE
    /\ UNCHANGED <<version, entry, account, writes, gone>>

FlowSaves ==
    \/ \E b \in Base : FlowAdd(b)
    \/ \E n \in Names : \E m \in {n} \cup PlainOf(Base) : FlowEdit(n, m)
    \/ \E n \in Names : FlowDelete(n)

Next ==
    \/ \E b \in Base : Create(b) \/ ImportBegin(b)
    \/ \E n \in Names : \E m \in {n} \cup PlainOf(Base) : Edit(n, m)
    \/ \E n \in Names : Delete(n) \/ Select(n) \/ ExportBegin(n)
    \/ \E p \in Pods : SavePod(p)
    \/ ImportDone \/ ExportDone \/ CloudFails
    \/ FlowSaves \/ SetAccount
    \/ \E t \in seeds : SeedDone(t) \/ SeedFails(t)
    \/ Migrate \/ SetupBegins \/ Snapshot \/ SetupDone \/ Reload \/ Restart

Spec == Init /\ [][Next]_vars

----------------------------------------------------------------------------
UidsOf(recipes) == {recipes[n].uid : n \in DOMAIN recipes}

(* The coordinator g works from a view the store has moved on from: it was *)
(* replaced, or a task of another one wrote during its setup; and a        *)
(* service, the panel or an import writes by what such a view shows.       *)
Behind(g) == view[g] # Shown
WritesBehind ==
    \/ Behind(gen) /\ ((\E p \in Pods : SavePod(p)) \/ (\E b \in Base : Create(b)) \/ (\E n, m \in Names : Edit(n, m)))
    \/ ImportDone /\ Behind(job.gen)

(* An export ends whose recipe was deleted, renamed or hidden by then, or  *)
(* has left its name to the one in YAML: it stores the copy it began with. *)
ExportsCopy ==
    ExportDone /\ job.name \notin DOMAIN store
      /\ (job.name \in DOMAIN Shown => job.raw.uid # Shown[job.name].uid)

(* A step in which the seeding k writes the store.                         *)
SeedsNow(k) ==
    \/ \E t \in seeds \ seeds' : Kind(t) = k
    \/ k = "initial" /\ phase = "boot" /\ phase' = "setup"

(* What was deleted, renamed away or hidden stays gone.  A name that went  *)
(* once a seeding was over (its flag set, no task of it still waiting for  *)
(* the cloud) is not brought back by that seeding, whatever restarts,      *)
(* reloads and account changes follow.  And no step brings the recipe      *)
(* itself back (the same uid).  Three writers do, and are left out: an     *)
(* export that ends after its recipe was deleted or renamed stores the     *)
(* copy it began with, the options flow drops tombstones, and an edit      *)
(* through a view behind the store writes what that view held.             *)
NoResurrection ==
    [][version = 3 /\ entry' # entry =>
          /\ \A p \in gone : SeedsNow(p[2]) => p[1] \notin DOMAIN Shown'
          /\ \/ \A u \in UidsOf(Shown') : u \in UidsOf(Shown) \/ u[1] > writes
             \/ FlowSaves \/ ExportsCopy \/ WritesBehind]_vars

(* No recipe disappears unless it is deleted.  Every other service, the    *)
(* seeds, restarts and reloads in between keep it, whatever their tasks    *)
(* overlap with; only a coordinator that is behind the store can write     *)
(* over a name it does not know, the options flow renames over one, and    *)
(* two cover a YAML recipe of the same name: an export that outlived its   *)
(* recipe, and the bundled seed of a fresh install.                        *)
NothingLost ==
    [][version = 3 /\ entry' # entry => \A u \in UidsOf(Shown) \ UidsOf(Shown') :
          \/ \E n \in Names : Delete(n) /\ Shown[n].uid = u
          \/ SetupBegins /\ \E n \in PlainOf(Bundled \cap Yaml) : u = YamlRecipe(n).uid
          \/ FlowSaves \/ ExportsCopy \/ WritesBehind]_vars

(* Once the entry is set up, its coordinator shows the store as it is,     *)
(* whoever wrote it: a service, the options flow, or a task of a replaced  *)
(* coordinator.  One window is left open: a write between the first view   *)
(* and the listener's registration, which the coordinator did not make     *)
(* itself, is seen only with the next one.                                 *)
UpdatesShown == phase = "up" /\ ~missed => Mine = Shown

(* The selected recipe stays the same recipe (by uid) through edits,       *)
(* renames, imports, exports and seeds, until another one is selected or   *)
(* it is deleted.  The options flow renames and deletes without telling,   *)
(* and an export that outlived its recipe stores another in its place.     *)
SelectionFollows ==
    [][(selected' # NoName /\ selected \in DOMAIN Shown) =>
          \/ /\ selected' \in DOMAIN Shown'
             /\ (Shown'[selected']).uid = Shown[selected].uid
          \/ \E n \in Names : Select(n)
          \/ FlowSaves \/ ExportsCopy
          \/ WritesBehind]_vars

(* A pod's recipe is not saved again while a copy of it is there, through  *)
(* restarts, renames, edits and reloads.  Two ways to a second copy are    *)
(* the code's: an export gives a copy the account's share link in place of *)
(* the pod's, and a copy without a link is known by its name alone, which  *)
(* a user may change and which is another one when the name was taken.     *)
Copies(p, recipes) == {recipes[n] : n \in {m \in DOMAIN recipes : recipes[m].pod = p}}

PodSavedOnce ==
    [][entry' # entry => \A p \in Pods : (\E c \in Copies(p, Shown') \ Copies(p, Shown) : c.uid[1] > writes) =>
          \/ p = "linked" /\ \A c \in Copies(p, Shown) : c.link = "account"
          \/ p = "plain" /\ \A n \in DOMAIN Shown : Shown[n].pod = p => n # Plain(PodName)
          \/ WritesBehind]_vars
=============================================================================
