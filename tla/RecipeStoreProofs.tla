-------------------------- MODULE RecipeStoreProofs -------------------------
(***************************************************************************)
(* Proofs about RecipeStore for any names, any YAML, bundled and cloud     *)
(* lists, and any number of writes and coordinators: what may happen to a  *)
(* recipe that is shown, hidden, selected or saved from a pod when         *)
(* services, seeds, exports, imports, reloads and restarts overlap.        *)
(***************************************************************************)
EXTENDS RecipeStore, WellFoundedInduction, TLAPS

\* Recipes as a coordinator may show them: with a uid and the current fields.
Whole(s) ==
    IsView(s) /\ \A n \in DOMAIN s : s[n].uid # NoUid /\ s[n].fields = 2

\* What an import or an export began with.
JobInv ==
    /\ job.kind \in {"none", "import", "export"} /\ job.gen \in Gens
    /\ job.kind = "import" => job.name \in PlainOf(Base)
    /\ job.kind = "export" => /\ job.name \in Names /\ job.raw \in Recipe
                              /\ job.raw.uid # NoUid /\ job.raw.fields = 2

\* Nothing runs before the store is migrated.
OldInv ==
    /\ version >= 2 => \A n \in DOMAIN store : store[n].fields = 2
    /\ version = 3 => Whole(store)
    /\ version < 3 => phase = "boot" /\ job.kind = "none" /\ seeds = {}

\* A coordinator that is not set up has nothing selected.
BootInv == phase = "boot" => selected = NoName

\* The inductive invariant of the types; LiveInv, GoneInv and OriginInv, below,
\* are inductive with it.
IInv ==
    /\ TypeOK /\ view = [g \in Gens |-> view[g]]
    /\ JobInv /\ OldInv /\ BootInv

-----------------------------------------------------------------------------
(* Names, views and writes *)

LEMMA NamesOf ==
  /\ \A S : S \subseteq Base => PlainOf(S) \subseteq Names
  /\ NoName \notin Names
  /\ \A n \in Names : <<0, n>> # NoUid
  <1>1. 1 \in 1 .. MaxSuffix BY RecipeStoreAssumption
  <1>2. NoName \notin Names BY DEF NoName, Names
  <1> QED BY <1>1, <1>2 DEF PlainOf, Plain, Names, NoUid

\* A number after the name makes it a new one (_dedupe_name).
LEMMA DedupeFree ==
  ASSUME NEW b \in Base, NEW taken, Free(b, taken)
  PROVE  DedupeName(b, taken) \in Names \ taken
  <1> DEFINE T == {k \in 1 .. MaxSuffix : <<b, k>> \notin taken}
  <1>1. T \subseteq Nat /\ T # {} BY DEF Free
  <1>2. IsWellFoundedOn(OpToRel(<, Nat), Nat) BY NatLessThanWellFounded
  <1>3. PICK k \in T : \A j \in T : ~(<<j, k>> \in OpToRel(<, Nat))
    <2> HIDE DEF T
    <2> QED BY <1>1, <1>2, WFMin
  <1>4. \A j \in T : ~(j < k) BY <1>1, <1>3 DEF OpToRel
  <1>5. <<b, k>> \notin taken /\ \A j \in 1 .. (k - 1) : <<b, j>> \in taken
    BY <1>4, RecipeStoreAssumption
  <1> QED BY <1>5 DEF DedupeName, Names

LEMMA NewIsWhole ==
  ASSUME NEW k \in 0 .. MaxWrites, NEW n \in Names
  PROVE  /\ New(k, n) \in Recipe /\ New(k, n).uid = <<k, n>> /\ New(k, n).uid # NoUid
         /\ New(k, n).fields = 2 /\ New(k, n).link = "none" /\ New(k, n).pod = "none"
  BY NamesOf DEF New, Recipe, Uids, Links, NoUid

LEMMA FromPodIsWhole ==
  ASSUME NEW p \in Pods, NEW k \in 0 .. MaxWrites, NEW n \in Names
  PROVE  /\ FromPod(p, k, n) \in Recipe /\ FromPod(p, k, n).uid = <<k, n>>
         /\ FromPod(p, k, n).uid # NoUid /\ FromPod(p, k, n).fields = 2
         /\ FromPod(p, k, n).pod = p
         /\ p = "linked" => FromPod(p, k, n).link = "pod"
  <1> DEFINE l == IF p = "linked" THEN "pod" ELSE "none"
  <1>1. FromPod(p, k, n) = [New(k, n) EXCEPT !.link = l, !.pod = p] BY DEF FromPod
  <1>2. l \in Links /\ (p = "linked" => l = "pod") BY DEF Links
  <1>3. /\ New(k, n) \in Recipe /\ New(k, n).uid = <<k, n>> /\ New(k, n).uid # NoUid
        /\ New(k, n).fields = 2
    BY NewIsWhole
  <1> HIDE DEF l
  <1>4. /\ FromPod(p, k, n) \in Recipe /\ FromPod(p, k, n).uid = New(k, n).uid
        /\ FromPod(p, k, n).fields = New(k, n).fields
        /\ FromPod(p, k, n).pod = p /\ FromPod(p, k, n).link = l
    BY <1>1, <1>2, <1>3 DEF Recipe, Pods
  <1> QED BY <1>2, <1>3, <1>4

LEMMA WithIsWhole ==
  ASSUME NEW s, Whole(s), NEW n \in Names, NEW r \in Recipe, r.uid # NoUid, r.fields = 2
  PROVE  Whole(With(s, n, r))
  <1>1. DOMAIN With(s, n, r) = DOMAIN s \cup {n} BY DEF With
  <1>2. With(s, n, r) \in [DOMAIN s \cup {n} -> Recipe] BY DEF With, Whole, IsView
  <1>3. \A x \in DOMAIN s \cup {n} : With(s, n, r)[x] = IF x = n THEN r ELSE s[x] BY DEF With
  <1> QED BY <1>1, <1>2, <1>3 DEF Whole, IsView

LEMMA WithoutIsWhole ==
  ASSUME NEW s, Whole(s), NEW n
  PROVE  Whole(Without(s, n)) /\ DOMAIN Without(s, n) = DOMAIN s \ {n}
         /\ \A x \in DOMAIN s \ {n} : Without(s, n)[x] = s[x]
  BY DEF Whole, IsView, Without, Restrict

LEMMA VisibleIsWhole ==
  ASSUME NEW s, Whole(s), NEW t
  PROVE  Whole(Visible(s, t))
  <1>1. DOMAIN Visible(s, t) = DOMAIN s \cup (PlainOf(Yaml) \ t) BY DEF Visible
  <1>2. PlainOf(Yaml) \subseteq Names BY NamesOf, RecipeStoreAssumption
  <1>3. 0 \in 0 .. MaxWrites BY RecipeStoreAssumption
  <1>4. \A n \in Names : /\ YamlRecipe(n) \in Recipe /\ YamlRecipe(n).uid # NoUid
                         /\ YamlRecipe(n).fields = 2
    BY <1>3, NewIsWhole DEF YamlRecipe
  <1>5. \A n \in DOMAIN Visible(s, t) :
          Visible(s, t)[n] = IF n \in DOMAIN s THEN s[n] ELSE YamlRecipe(n)
    BY DEF Visible
  <1>6. \A n \in DOMAIN s : s[n] \in Recipe BY DEF Whole, IsView
  <1>7. Visible(s, t) \in [DOMAIN Visible(s, t) -> Recipe]
    <2>1. Visible(s, t) = [n \in DOMAIN Visible(s, t) |-> Visible(s, t)[n]] BY <1>1 DEF Visible
    <2>2. \A n \in DOMAIN Visible(s, t) : Visible(s, t)[n] \in Recipe
      BY <1>1, <1>2, <1>4, <1>5, <1>6
    <2> QED BY <2>1, <2>2
  <1> HIDE DEF Visible
  <1> QED BY <1>1, <1>2, <1>4, <1>5, <1>7 DEF Whole, IsView

LEMMA NothingIsWhole == Whole(Nothing)
  BY DEF Whole, IsView, Nothing

\* What a write may put into the entry, and whom it may tell.
Fits(s, t, sd, w, sel) ==
    /\ Whole(s) /\ t \subseteq Names /\ DOMAIN s \cap t = {}
    /\ sd \subseteq Seedings /\ w \in 0 .. MaxGen
    /\ sel \in Names \cup {NoName} /\ (phase = "boot" => sel = NoName)

\* What a write does to the entry and to what is shown, selected and cached.
LEMMA WriteEffect ==
  ASSUME NEW s, NEW t, NEW sd, NEW w, NEW sel, Write(s, t, sd, w, sel)
  PROVE  /\ store' = s /\ tombs' = t /\ seeded' = sd /\ Shown' = Visible(s, t)
         /\ selected' \in {sel, NoName}
         /\ version' = version /\ account' = account /\ using' = using
         /\ writes < MaxWrites /\ writes' = writes + 1
         /\ missed' \in BOOLEAN /\ gone' = GoneAfter(s, t)
  BY DEF Write, Shown, Unload

\* Whatever goes is a name that was shown.
LEMMA GoneTyped ==
  ASSUME IInv, Whole(store), NEW s, NEW t
  PROVE  GoneAfter(s, t) \subseteq Names \X Seedings
  <1>1. DOMAIN Shown \subseteq Names BY VisibleIsWhole DEF Shown, Whole, IsView
  <1> HIDE DEF Shown
  <1> QED BY <1>1 DEF GoneAfter, IInv, TypeOK

LEMMA UnloadKeeps ==
  ASSUME IInv, Unload
  PROVE  /\ gen' \in Gens /\ phase' = "boot" /\ selected' = NoName
         /\ view' = [g \in Gens |-> view'[g]] /\ \A g \in Gens : Whole(view'[g])
         /\ missed' = FALSE
  <1>1. gen' \in Gens BY RecipeStoreAssumption DEF Unload, IInv, TypeOK, Gens
  <1>2. gen \in Gens /\ \A g \in Gens : Whole(view[g]) BY DEF IInv, TypeOK, Whole
  <1>3. view' = [view EXCEPT ![gen] = IF Needs(gen) THEN view[gen] ELSE Nothing]
    BY DEF Unload
  <1>4. \A g \in Gens : view'[g] \in {view[g], Nothing} BY <1>2, <1>3 DEF IInv
  <1>5. \A g \in Gens : Whole(view'[g]) BY <1>2, <1>4, NothingIsWhole
  <1>6. view' = [g \in Gens |-> view'[g]] BY <1>2, <1>3 DEF IInv
  <1> QED BY <1>1, <1>5, <1>6 DEF Unload

LEMMA WriteKeeps ==
  ASSUME IInv, version = 3, NEW s, NEW t, NEW sd, NEW w, NEW sel,
         Fits(s, t, sd, w, sel), Write(s, t, sd, w, sel), JobInv',
         seeds' \subseteq [gen : Gens, account : BOOLEAN]
  PROVE  IInv'
  <1>1. /\ store' = s /\ tombs' = t /\ seeded' = sd /\ selected' \in {sel, NoName}
        /\ version' = version /\ account' = account /\ using' = using
        /\ writes < MaxWrites /\ writes' = writes + 1
        /\ missed' \in BOOLEAN /\ gone' = GoneAfter(s, t)
    BY WriteEffect
  <1>0. gone' \subseteq Names \X Seedings BY <1>1, GoneTyped DEF IInv, OldInv
  <1>2. Whole(Visible(s, t)) BY VisibleIsWhole DEF Fits
  <1>3. \A g \in Gens : Whole(view[g]) BY DEF IInv, TypeOK, Whole
  <1>4. /\ gen' \in Gens /\ phase' \in {phase, "boot"} /\ (phase' = "boot" => selected' = NoName)
        /\ view' = [g \in Gens |-> view'[g]] /\ \A g \in Gens : Whole(view'[g])
    <2>1. CASE Unload BY <2>1, UnloadKeeps
    <2>2. CASE ~Unload
      <3>1. /\ selected' = sel /\ gen' = gen /\ phase' = phase
            /\ view' = [g \in Gens |-> IF g \in {h \in Gens :
                                            \/ h = gen /\ phase # "boot" /\ (w = gen \/ Heard(<<s, t, sd>>))
                                            \/ h = w /\ Needs(w)}
                                       THEN Visible(s, t) ELSE view[g]]
        BY <2>2 DEF Write
      <3>2. \A g \in Gens : view'[g] \in {Visible(s, t), view[g]} BY <3>1
      <3>3. \A g \in Gens : Whole(view'[g]) BY <1>2, <1>3, <3>2
      <3>4. view' = [g \in Gens |-> view'[g]] BY <3>1
      <3> QED BY <3>1, <3>3, <3>4 DEF Fits, IInv, TypeOK
    <2> QED BY <2>1, <2>2
  <1>5. snap' \in {snap, <<s, t, sd>>} BY DEF Write
  <1>6. TypeOK'
    <2>1. version' \in 1 .. 3 /\ account' \in BOOLEAN /\ using' \in BOOLEAN
          /\ writes' \in 1 .. MaxWrites
      BY <1>1, RecipeStoreAssumption DEF IInv, TypeOK
    <2>2. IsView(store)' /\ tombs' \subseteq Names /\ DOMAIN store' \cap tombs' = {}
          /\ seeded' \subseteq Seedings /\ selected' \in Names \cup {NoName}
      BY <1>1 DEF Fits, Whole, IsView
    <2>3. IsView(snap[1])' /\ snap'[2] \subseteq Names /\ snap'[3] \subseteq Seedings
      <3>1. CASE snap' = snap BY <3>1 DEF IInv, TypeOK, IsView
      <3>2. CASE snap' = <<s, t, sd>> BY <3>2 DEF Fits, Whole, IsView
      <3> QED BY <1>5, <3>1, <3>2
    <2>4. \A g \in Gens : IsView(view'[g]) /\ \A n \in DOMAIN view'[g] :
                             view'[g][n].uid # NoUid /\ view'[g][n].fields = 2
      BY <1>4 DEF Whole
    <2>5. phase' \in {"boot", "setup", "forward", "up"} /\ gen' \in Gens
      BY <1>4 DEF IInv, TypeOK
    <2>6. missed' \in BOOLEAN /\ gone' \subseteq Names \X Seedings BY <1>0, <1>1
    <2> HIDE DEF IsView
    <2> QED BY <2>1, <2>2, <2>3, <2>4, <2>5, <2>6 DEF TypeOK, JobInv, IsView
  <1>7. OldInv' BY <1>1 DEF OldInv, Fits, Whole, IsView
  <1> QED BY <1>4, <1>6, <1>7 DEF IInv, BootInv

\* Once something is set up, or awaits the cloud, the store is migrated.
LEMMA Migrated ==
  ASSUME IInv, phase # "boot" \/ job.kind # "none" \/ seeds # {}
  PROVE  version = 3 /\ Whole(store)
  BY DEF IInv, TypeOK, OldInv

LEMMA NextUid == ASSUME IInv, writes < MaxWrites PROVE writes + 1 \in 0 .. MaxWrites
  BY RecipeStoreAssumption DEF IInv, TypeOK

-----------------------------------------------------------------------------
(* The steps *)

\* A new recipe under a name that is free for its coordinator.
LEMMA AddKeeps ==
  ASSUME IInv, version = 3, NEW n \in Names, NEW r \in Recipe, r.uid # NoUid, r.fields = 2,
         NEW w \in 0 .. MaxGen, Write(With(store, n, r), tombs \ {n}, seeded, w, selected),
         JobInv', seeds' \subseteq [gen : Gens, account : BOOLEAN]
  PROVE  IInv'
  <1>1. Whole(store) BY DEF IInv, OldInv
  <1>2. Whole(With(store, n, r)) BY <1>1, WithIsWhole
  <1>3. DOMAIN With(store, n, r) = DOMAIN store \cup {n} BY DEF With
  <1>4. Fits(With(store, n, r), tombs \ {n}, seeded, w, selected)
    BY <1>2, <1>3 DEF Fits, IInv, TypeOK, BootInv
  <1> QED BY <1>4, WriteKeeps

LEMMA CreateKeeps ==
  ASSUME IInv, NEW b \in Base, Create(b)
  PROVE  IInv'
  <1> DEFINE n == DedupeName(b, DOMAIN Mine)
  <1>1. n \in Names BY DedupeFree DEF Create
  <1>2. /\ Write(With(store, n, New(writes + 1, n)), tombs \ {n}, seeded, gen, selected)
        /\ UNCHANGED <<seeds, job>>
    BY DEF Create
  <1> HIDE DEF n
  <1>3. version = 3 BY Migrated DEF Create, Serving
  <1>4. writes < MaxWrites BY <1>2, WriteEffect
  <1>5. gen \in 0 .. MaxGen /\ writes + 1 \in 0 .. MaxWrites
    BY <1>4, NextUid DEF IInv, TypeOK, Gens
  <1>6. JobInv' /\ seeds' \subseteq [gen : Gens, account : BOOLEAN]
    BY <1>2 DEF IInv, TypeOK, JobInv
  <1> QED BY <1>1, <1>2, <1>3, <1>5, <1>6, NewIsWhole, AddKeeps

LEMMA SavePodKeeps ==
  ASSUME IInv, NEW p \in Pods, SavePod(p)
  PROVE  IInv'
  <1> DEFINE n == DedupeName(PodName, DOMAIN Mine)
  <1>1. n \in Names BY DedupeFree, RecipeStoreAssumption DEF SavePod
  <1>2. /\ Write(With(store, n, FromPod(p, writes + 1, n)), tombs \ {n}, seeded, gen, selected)
        /\ UNCHANGED <<seeds, job>>
    BY DEF SavePod
  <1> HIDE DEF n
  <1>3. version = 3 BY Migrated DEF SavePod
  <1>4. writes < MaxWrites BY <1>2, WriteEffect
  <1>5. gen \in 0 .. MaxGen /\ writes + 1 \in 0 .. MaxWrites
    BY <1>4, NextUid DEF IInv, TypeOK, Gens
  <1>6. JobInv' /\ seeds' \subseteq [gen : Gens, account : BOOLEAN]
    BY <1>2 DEF IInv, TypeOK, JobInv
  <1> QED BY <1>1, <1>2, <1>3, <1>5, <1>6, FromPodIsWhole, AddKeeps

LEMMA ImportDoneKeeps ==
  ASSUME IInv, ImportDone
  PROVE  IInv'
  <1> DEFINE n == DedupeName(job.name[1], DOMAIN view[job.gen])
  <1>1. job.name[1] \in Base BY DEF ImportDone, IInv, JobInv, PlainOf, Plain
  <1>2. n \in Names BY <1>1, DedupeFree DEF ImportDone
  <1>3. /\ Write(With(store, n, New(writes + 1, n)), tombs \ {n}, seeded, job.gen, selected)
        /\ job' = NoJob /\ UNCHANGED seeds
    BY DEF ImportDone
  <1> HIDE DEF n
  <1>4. version = 3 BY Migrated DEF ImportDone
  <1>5. writes < MaxWrites BY <1>3, WriteEffect
  <1>6. job.gen \in 0 .. MaxGen /\ writes + 1 \in 0 .. MaxWrites
    BY <1>5, NextUid DEF IInv, JobInv, Gens
  <1>7. JobInv' /\ seeds' \subseteq [gen : Gens, account : BOOLEAN]
    BY <1>3, RecipeStoreAssumption DEF IInv, TypeOK, JobInv, NoJob, Gens
  <1> QED BY <1>2, <1>3, <1>4, <1>6, <1>7, NewIsWhole, AddKeeps

LEMMA EditKeeps ==
  ASSUME IInv, NEW n \in Names, NEW m \in Names, Edit(n, m)
  PROVE  IInv'
  <1> DEFINE left == IF m = n THEN store ELSE Without(store, n)
             hidden == IF m = n THEN tombs ELSE (tombs \ {n}) \cup ({n} \cap PlainOf(Yaml))
             sel == IF selected = n THEN m ELSE selected
             s == With(left, m, Mine[n])
  <1>1. /\ phase = "up" /\ n \in DOMAIN Mine
        /\ Write(s, hidden \ {m}, seeded, gen, sel)
        /\ UNCHANGED <<seeds, job>>
    BY DEF Edit, Serving, Found
  <1>2. version = 3 /\ Whole(store) BY <1>1, Migrated
  <1>3. Mine[n] \in Recipe /\ Mine[n].uid # NoUid /\ Mine[n].fields = 2
    BY <1>1 DEF Mine, IInv, TypeOK, IsView
  <1>4. Whole(left) /\ DOMAIN left \subseteq DOMAIN store /\ (m # n => n \notin DOMAIN left)
    BY <1>2, WithoutIsWhole
  <1>5. Whole(s) BY <1>3, <1>4, WithIsWhole
  <1>6. DOMAIN s = DOMAIN left \cup {m} BY DEF With
  <1>7. hidden \subseteq Names /\ DOMAIN left \cap hidden = {}
    BY <1>4 DEF IInv, TypeOK
  <1>8. Fits(s, hidden \ {m}, seeded, gen, sel)
    <2> HIDE DEF s, left, hidden
    <2> QED BY <1>1, <1>5, <1>6, <1>7 DEF Fits, IInv, TypeOK, Gens
  <1>9. JobInv' /\ seeds' \subseteq [gen : Gens, account : BOOLEAN]
    BY <1>1 DEF IInv, TypeOK, JobInv
  <1> HIDE DEF s, hidden, sel
  <1> QED BY <1>1, <1>2, <1>8, <1>9, WriteKeeps

LEMMA DeleteKeeps ==
  ASSUME IInv, NEW n \in Names, Delete(n)
  PROVE  IInv'
  <1> DEFINE s == Without(store, n)
             t == (tombs \ {n}) \cup ({n} \cap PlainOf(Yaml))
             sel == IF selected = n THEN NoName ELSE selected
  <1>1. phase = "up" /\ Write(s, t, seeded, gen, sel) /\ UNCHANGED <<seeds, job>>
    BY DEF Delete, Serving
  <1>2. version = 3 /\ Whole(store) BY <1>1, Migrated
  <1>3. Whole(s) /\ DOMAIN s = DOMAIN store \ {n} BY <1>2, WithoutIsWhole
  <1>4. Fits(s, t, seeded, gen, sel)
    <2> HIDE DEF s
    <2> QED BY <1>1, <1>3 DEF Fits, IInv, TypeOK, Gens
  <1>5. JobInv' /\ seeds' \subseteq [gen : Gens, account : BOOLEAN]
    BY <1>1 DEF IInv, TypeOK, JobInv
  <1> HIDE DEF s, t, sel
  <1> QED BY <1>1, <1>2, <1>4, <1>5, WriteKeeps

LEMMA ExportDoneKeeps ==
  ASSUME IInv, ExportDone
  PROVE  IInv'
  <1> DEFINE n == job.name
             r == IF n \in DOMAIN store THEN store[n] ELSE job.raw
             s == With(store, n, [r EXCEPT !.link = "account"])
  <1>1. /\ job.kind = "export" /\ Write(s, tombs \ {n}, seeded, job.gen, selected)
        /\ job' = NoJob /\ UNCHANGED seeds
    BY DEF ExportDone
  <1>2. version = 3 /\ Whole(store) BY <1>1, Migrated
  <1>3. n \in Names /\ r \in Recipe /\ r.uid # NoUid /\ r.fields = 2
    BY <1>1, <1>2 DEF IInv, JobInv, Whole, IsView
  <1>4. /\ [r EXCEPT !.link = "account"] \in Recipe
        /\ [r EXCEPT !.link = "account"].uid # NoUid /\ [r EXCEPT !.link = "account"].fields = 2
    <2> HIDE DEF r
    <2> QED BY <1>3 DEF Recipe, Links
  <1>5. Whole(s) /\ DOMAIN s = DOMAIN store \cup {n}
    <2> HIDE DEF r
    <2>1. DOMAIN s = DOMAIN store \cup {n} BY DEF With
    <2> QED BY <1>2, <1>3, <1>4, <2>1, WithIsWhole
  <1>6. Fits(s, tombs \ {n}, seeded, job.gen, selected)
    <2> HIDE DEF s
    <2> QED BY <1>1, <1>5 DEF Fits, IInv, TypeOK, BootInv, JobInv, Gens
  <1>7. JobInv' /\ seeds' \subseteq [gen : Gens, account : BOOLEAN]
    BY <1>1, RecipeStoreAssumption DEF IInv, TypeOK, JobInv, NoJob, Gens
  <1> HIDE DEF s, n
  <1> QED BY <1>1, <1>2, <1>6, <1>7, WriteKeeps

LEMMA FlowKeeps ==
  ASSUME IInv, FlowSaves
  PROVE  IInv'
  <1> USE DEF Idle
  <1>1. ASSUME NEW s, NEW t \in SUBSET Names, Whole(s), DOMAIN s \cap t = {}, phase # "boot",
               Write(s, t, seeded, 0, selected), UNCHANGED <<seeds, job>>
        PROVE  IInv'
    <2>1. Fits(s, t, seeded, 0, selected)
      BY <1>1, RecipeStoreAssumption DEF Fits, IInv, TypeOK, BootInv
    <2>2. JobInv' /\ seeds' \subseteq [gen : Gens, account : BOOLEAN]
      BY <1>1 DEF IInv, TypeOK, JobInv
    <2>3. version = 3 BY <1>1, Migrated
    <2> QED BY <1>1, <2>1, <2>2, <2>3, WriteKeeps
  <1>2. ASSUME phase # "boot" PROVE Whole(store) /\ Whole(Shown)
    BY <1>2, Migrated, VisibleIsWhole DEF Shown
  <1>3. ASSUME NEW b \in Base, FlowAdd(b) PROVE IInv'
    <2> DEFINE n == Plain(b)
               s == With(store, n, New(writes + 1, n))
    <2>1. phase # "boot" /\ Write(s, {}, seeded, 0, selected) /\ UNCHANGED <<seeds, job>>
      BY <1>3 DEF FlowAdd
    <2>2. n \in Names /\ writes + 1 \in 0 .. MaxWrites
      <3>1. writes < MaxWrites BY <2>1, WriteEffect
      <3>2. 1 \in 1 .. MaxSuffix BY RecipeStoreAssumption
      <3> QED BY <3>1, <3>2, NextUid DEF Plain, Names
    <2>3. Whole(s)
      <3> HIDE DEF n
      <3> QED BY <1>2, <2>1, <2>2, NewIsWhole, WithIsWhole
    <2> HIDE DEF s
    <2> QED BY <1>1, <2>1, <2>3
  <1>4. ASSUME NEW n \in Names, NEW m \in Names, FlowEdit(n, m) PROVE IInv'
    <2> DEFINE s == With(Without(store, n), m, Shown[n])
    <2>1. /\ phase # "boot" /\ n \in DOMAIN Shown
          /\ Write(s, {}, seeded, 0, selected) /\ UNCHANGED <<seeds, job>>
      BY <1>4 DEF FlowEdit
    <2>2. Shown[n] \in Recipe /\ Shown[n].uid # NoUid /\ Shown[n].fields = 2
      BY <1>2, <2>1 DEF Whole, IsView
    <2>3. Whole(s)
      <3> HIDE DEF Shown
      <3> QED BY <1>2, <2>1, <2>2, WithIsWhole, WithoutIsWhole
    <2> HIDE DEF s
    <2> QED BY <1>1, <2>1, <2>3
  <1>5. ASSUME NEW n \in Names, FlowDelete(n) PROVE IInv'
    <2> DEFINE s == Without(store, n)
               t == IF n \in DOMAIN store THEN {} ELSE {n}
    <2>1. /\ phase # "boot" /\ Write(s, t, seeded, 0, selected) /\ UNCHANGED <<seeds, job>>
      BY <1>5 DEF FlowDelete
    <2>2. Whole(s) /\ DOMAIN s = DOMAIN store \ {n} BY <1>2, <2>1, WithoutIsWhole
    <2>3. t \in SUBSET Names /\ DOMAIN s \cap t = {} BY <2>2
    <2> HIDE DEF s, t
    <2> QED BY <1>1, <2>1, <2>2, <2>3
  <1>6. \A n \in Names : {n} \cup PlainOf(Base) \subseteq Names
    BY RecipeStoreAssumption DEF Plain, PlainOf, Names
  <1> QED BY <1>3, <1>4, <1>5, <1>6 DEF FlowSaves

LEMMA SeedDoneKeeps ==
  ASSUME IInv, NEW t \in seeds, SeedDone(t)
  PROVE  IInv'
  <1> DEFINE W == Wanted(t)
             s == [n \in DOMAIN store \cup W |-> IF n \in DOMAIN store THEN store[n]
                                                 ELSE FromCloud(t, n)]
  <1>1. /\ Write(s, tombs, seeded \cup Flags(t), t.gen, selected)
        /\ seeds' = seeds \ {t} /\ UNCHANGED job
    BY DEF SeedDone
  <1>2. version = 3 /\ Whole(store) BY Migrated
  <1>3. t.gen \in Gens BY DEF IInv, TypeOK
  <1>4. W \subseteq Names /\ W \cap tombs = {} /\ W \cap DOMAIN store = {}
    <2>1. Fetched(t) \subseteq Names BY NamesOf, RecipeStoreAssumption DEF Fetched
    <2> QED BY <2>1 DEF Wanted
  <1>5. writes + 1 \in 0 .. MaxWrites
    <2>1. writes < MaxWrites BY <1>1, WriteEffect
    <2> QED BY <2>1, NextUid
  <1>6. \A n \in W : /\ FromCloud(t, n) \in Recipe /\ FromCloud(t, n).uid # NoUid
                     /\ FromCloud(t, n).fields = 2
    <2> SUFFICES ASSUME NEW n \in Names
                 PROVE  /\ FromCloud(t, n) \in Recipe /\ FromCloud(t, n).uid # NoUid
                        /\ FromCloud(t, n).fields = 2
      BY <1>4
    <2>1. CASE t.account
      <3>1. FromCloud(t, n) = [New(writes + 1, n) EXCEPT !.link = "account"]
        BY <2>1 DEF FromCloud
      <3> QED BY <1>5, <3>1, NewIsWhole DEF Recipe, Links
    <2>2. CASE ~t.account
      <3>1. FromCloud(t, n) = [New(writes + 1, n) EXCEPT !.link = "none"]
        BY <2>2 DEF FromCloud
      <3> QED BY <1>5, <3>1, NewIsWhole DEF Recipe, Links
    <2> QED BY <2>1, <2>2
  <1>7. Whole(s) /\ DOMAIN s = DOMAIN store \cup W
    <2> HIDE DEF W
    <2>1. DOMAIN s = DOMAIN store \cup W OBVIOUS
    <2>2. \A n \in DOMAIN store : s[n] = store[n] /\ store[n] \in Recipe
      BY <1>2 DEF Whole, IsView
    <2>3. \A n \in W \ DOMAIN store : s[n] = FromCloud(t, n) OBVIOUS
    <2>4. s \in [DOMAIN s -> Recipe] BY <1>6, <2>1, <2>2, <2>3
    <2> HIDE DEF s
    <2> QED BY <1>2, <1>4, <1>6, <2>1, <2>2, <2>3, <2>4 DEF Whole, IsView
  <1>8. Fits(s, tombs, seeded \cup Flags(t), t.gen, selected)
    <2> HIDE DEF s, W
    <2> QED BY <1>3, <1>4, <1>7 DEF Fits, IInv, TypeOK, BootInv, Flags, Gens, Seedings
  <1>9. JobInv' /\ seeds' \subseteq [gen : Gens, account : BOOLEAN]
    BY <1>1 DEF IInv, TypeOK, JobInv
  <1> HIDE DEF s
  <1> QED BY <1>1, <1>2, <1>8, <1>9, WriteKeeps

\* Steps that leave the entry, its coordinators and the setup alone.
LEMMA QuietKeeps ==
  ASSUME IInv, UNCHANGED <<version, entry, account, phase, gen, view, snap, using, writes, history>>,
         selected' \in Names \cup {NoName}, phase = "boot" => selected' = NoName,
         seeds' \subseteq seeds, JobInv', phase = "boot" => job' = job \/ job'.kind = "none"
  PROVE  IInv'
  <1> USE DEF IInv, entry, history
  <1>1. TypeOK' BY DEF TypeOK, JobInv, IsView
  <1>2. OldInv' BY DEF OldInv, Whole, IsView
  <1> QED BY <1>1, <1>2 DEF BootInv

LEMMA ServiceKeeps ==
  ASSUME IInv,
         \/ \E n \in Names : Select(n) \/ ExportBegin(n)
         \/ \E b \in Base : ImportBegin(b)
         \/ CloudFails
         \/ \E t \in seeds : SeedFails(t)
  PROVE  IInv'
  <1> USE DEF entry, history
  <1>1. ASSUME NEW n \in Names, Select(n) PROVE IInv'
    <2>1. JobInv' BY <1>1 DEF Select, IInv, JobInv
    <2> QED BY <1>1, <2>1, QuietKeeps DEF Select, Serving
  <1>2. ASSUME NEW n \in Names, ExportBegin(n) PROVE IInv'
    <2>1. Mine[n] \in Recipe /\ Mine[n].uid # NoUid /\ Mine[n].fields = 2 /\ gen \in Gens
      BY <1>2 DEF ExportBegin, Found, Mine, IInv, TypeOK, IsView
    <2>2. JobInv' BY <1>2, <2>1 DEF ExportBegin, JobInv
    <2> QED BY <1>2, <2>2, QuietKeeps DEF ExportBegin, Serving, IInv, TypeOK
  <1>3. ASSUME NEW b \in Base, ImportBegin(b) PROVE IInv'
    <2>1. gen \in Gens BY DEF IInv, TypeOK
    <2>2. Plain(b) \in PlainOf(Base) BY DEF PlainOf
    <2>3. JobInv' BY <1>3, <2>1, <2>2 DEF ImportBegin, JobInv, NoJob
    <2> QED BY <1>3, <2>3, QuietKeeps DEF ImportBegin, Serving, IInv, TypeOK
  <1>4. ASSUME CloudFails PROVE IInv'
    <2>1. JobInv' /\ job'.kind = "none"
      BY <1>4, RecipeStoreAssumption DEF CloudFails, JobInv, NoJob, Gens
    <2> QED BY <1>4, <2>1, QuietKeeps DEF CloudFails, IInv, TypeOK, BootInv
  <1>5. ASSUME NEW t \in seeds, SeedFails(t) PROVE IInv'
    <2>1. JobInv' BY <1>5 DEF SeedFails, IInv, JobInv
    <2> QED BY <1>5, <2>1, QuietKeeps DEF SeedFails, IInv, TypeOK, BootInv
  <1> QED BY <1>1, <1>2, <1>3, <1>4, <1>5

\* Unloading the entry leaves the store as it is.
LEMMA UnloadedKeeps ==
  ASSUME IInv, Unload, phase # "boot", account' \in BOOLEAN,
         UNCHANGED <<version, entry, snap, using, seeds, job, writes, gone>>
  PROVE  IInv'
  <1> USE DEF entry, history
  <1>1. /\ gen' \in Gens /\ phase' = "boot" /\ selected' = NoName
        /\ view' = [g \in Gens |-> view'[g]] /\ \A g \in Gens : Whole(view'[g])
        /\ missed' \in BOOLEAN
    BY UnloadKeeps
  <1>2. JobInv' BY DEF IInv, JobInv
  <1>3. TypeOK' BY <1>1, <1>2 DEF IInv, TypeOK, Whole, IsView, JobInv
  <1>4. OldInv' BY DEF IInv, OldInv, Whole, IsView
  <1> QED BY <1>1, <1>2, <1>3, <1>4 DEF IInv, BootInv

LEMMA SetAccountKeeps ==
  ASSUME IInv, SetAccount
  PROVE  IInv'
  <1> USE DEF entry, history, Idle
  <1>0. /\ phase # "boot" /\ account' \in BOOLEAN /\ missed' \in BOOLEAN
        /\ UNCHANGED <<version, entry, using, seeds, job, writes, gone>>
    BY DEF SetAccount, Unload, IInv, TypeOK
  <1>1. CASE Unload /\ UNCHANGED snap BY <1>0, <1>1, UnloadedKeeps
  <1>2. CASE /\ \/ view' = [view EXCEPT ![gen] = Shown] /\ snap' = entry
                \/ UNCHANGED <<view, snap>>
             /\ UNCHANGED <<gen, phase, selected>>
    <2>1. Whole(store) /\ Whole(Shown) BY <1>0, Migrated, VisibleIsWhole DEF Shown
    <2>2. \A g \in Gens : Whole(view[g]) BY DEF IInv, TypeOK, Whole
    <2>3. \A g \in Gens : view'[g] \in {view[g], Shown} BY <1>2 DEF IInv, TypeOK
    <2>4. \A g \in Gens : Whole(view'[g]) BY <2>1, <2>2, <2>3
    <2>5. view' = [g \in Gens |-> view'[g]] BY <1>2 DEF IInv
    <2>6. JobInv' BY <1>0 DEF IInv, JobInv
    <2>7. snap' \in {snap, <<store, tombs, seeded>>} BY <1>2
    <2>8. IsView(snap'[1]) /\ snap'[2] \subseteq Names /\ snap'[3] \subseteq Seedings
      <3>1. CASE snap' = snap BY <3>1 DEF IInv, TypeOK
      <3>2. CASE snap' = <<store, tombs, seeded>> BY <3>2 DEF IInv, TypeOK
      <3> QED BY <2>7, <3>1, <3>2
    <2>9. TypeOK' BY <1>0, <1>2, <2>4, <2>6, <2>8 DEF IInv, TypeOK, Whole, IsView, JobInv
    <2>10. OldInv' BY <1>0, <1>2 DEF IInv, OldInv, Whole, IsView
    <2> QED BY <1>0, <1>2, <2>5, <2>6, <2>9, <2>10 DEF IInv, BootInv
  <1> QED BY <1>1, <1>2 DEF SetAccount

LEMMA MigrateKeeps ==
  ASSUME IInv, Migrate
  PROVE  IInv'
  <1>1. /\ phase = "boot" /\ version' = version + 1
        /\ UNCHANGED <<tombs, seeded, account, phase, gen, view, snap, using, selected, seeds,
                       job, writes, missed, gone>>
    BY DEF Migrate, history
  <1>2. JobInv' BY <1>1 DEF IInv, JobInv
  <1>3. /\ store \in [DOMAIN store -> Recipe] /\ DOMAIN store \subseteq Names
        /\ version \in 1 .. 3
    BY DEF IInv, TypeOK, IsView
  <1>4. 1 \in 0 .. MaxWrites BY RecipeStoreAssumption
  <1>5. CASE version = 1
    <2>1. store' = [n \in DOMAIN store |-> V1toV2(store[n])] BY <1>5 DEF Migrate
    <2>2. \A n \in DOMAIN store : V1toV2(store[n]) \in Recipe /\ V1toV2(store[n]).fields = 2
      BY <1>3 DEF V1toV2, Recipe
    <2>3. /\ DOMAIN store' = DOMAIN store /\ store' \in [DOMAIN store -> Recipe]
          /\ \A n \in DOMAIN store : store'[n] = V1toV2(store[n])
      BY <2>1, <2>2
    <2>4. IsView(store)' BY <1>3, <2>3 DEF IsView
    <2>5. TypeOK' BY <1>1, <1>2, <1>5, <2>3, <2>4 DEF IInv, TypeOK, IsView, JobInv
    <2>6. OldInv' BY <1>1, <1>5, <2>2, <2>3 DEF IInv, OldInv
    <2> QED BY <1>1, <1>2, <2>5, <2>6 DEF IInv, BootInv
  <1>6. CASE version = 2
    <2>1. store' = [n \in DOMAIN store |-> V2toV3(store[n], n)] BY <1>6 DEF Migrate
    <2>2. \A n \in DOMAIN store : /\ V2toV3(store[n], n) \in Recipe /\ V2toV3(store[n], n).uid # NoUid
                                  /\ V2toV3(store[n], n).fields = 2
      <3> TAKE n \in DOMAIN store
      <3>1. store[n] \in Recipe /\ store[n].fields = 2 /\ n \in Names
        BY <1>3, <1>6 DEF IInv, OldInv
      <3>2. <<1, n>> \in Uids /\ <<1, n>> # NoUid BY <1>4, <3>1 DEF Uids, NoUid
      <3>3. CASE store[n].uid = NoUid
        BY <3>1, <3>2, <3>3 DEF V2toV3, Recipe
      <3>4. CASE store[n].uid # NoUid
        BY <3>1, <3>4 DEF V2toV3
      <3> QED BY <3>3, <3>4
    <2>3. /\ DOMAIN store' = DOMAIN store /\ store' \in [DOMAIN store -> Recipe]
          /\ \A n \in DOMAIN store : store'[n] = V2toV3(store[n], n)
      BY <2>1, <2>2
    <2>4. IsView(store)' BY <1>3, <2>3 DEF IsView
    <2>5. TypeOK' BY <1>1, <1>2, <1>6, <2>3, <2>4 DEF IInv, TypeOK, IsView, JobInv
    <2>6. OldInv' BY <1>1, <1>6, <2>2, <2>3, <2>4 DEF OldInv, Whole
    <2> QED BY <1>1, <1>2, <2>5, <2>6 DEF IInv, BootInv
  <1> QED BY <1>3, <1>5, <1>6 DEF Migrate

LEMMA SetupBeginsKeeps ==
  ASSUME IInv, SetupBegins
  PROVE  IInv'
  <1>1. /\ phase = "boot" /\ version = 3 /\ store' = Seeded /\ writes' <= MaxWrites
        /\ writes' \in {writes, writes + 1} /\ (writes' = writes => store' = store)
        /\ view' = [view EXCEPT ![gen] = Visible(store', tombs)]
        /\ using' = account /\ phase' = "setup"
        /\ gone' = GoneAfter(store', tombs)
        /\ UNCHANGED <<version, tombs, seeded, account, gen, snap, selected, seeds, job, missed>>
    BY DEF SetupBegins, IInv, TypeOK
  <1>2. Whole(store) BY <1>1 DEF IInv, OldInv
  <1>0. gone' \subseteq Names \X Seedings BY <1>1, <1>2, GoneTyped
  <1>3. Whole(store') /\ DOMAIN store' \cap tombs = {}
    <2>1. CASE store' = store BY <1>2, <2>1 DEF IInv, TypeOK
    <2>2. CASE store' # store
      <3>1. /\ store' = [n \in PlainOf(Bundled) |-> New(writes + 1, n)] /\ tombs = {}
            /\ writes' = writes + 1
        BY <1>1, <2>2 DEF Seeded
      <3>2. writes + 1 \in 0 .. MaxWrites BY <1>1, <3>1 DEF IInv, TypeOK
      <3>3. PlainOf(Bundled) \subseteq Names BY NamesOf, RecipeStoreAssumption
      <3>4. \A n \in PlainOf(Bundled) : /\ New(writes + 1, n) \in Recipe
                                        /\ New(writes + 1, n).uid # NoUid
                                        /\ New(writes + 1, n).fields = 2
        BY <3>2, <3>3, NewIsWhole
      <3>5. /\ DOMAIN store' = PlainOf(Bundled) /\ store' \in [PlainOf(Bundled) -> Recipe]
            /\ \A n \in PlainOf(Bundled) : store'[n] = New(writes + 1, n)
        BY <3>1, <3>4
      <3> QED BY <3>1, <3>3, <3>4, <3>5 DEF Whole, IsView
    <2> QED BY <2>1, <2>2
  <1>4. Whole(Visible(store', tombs)) BY <1>3, VisibleIsWhole
  <1>5. \A g \in Gens : Whole(view[g]) BY DEF IInv, TypeOK, Whole
  <1>6. \A g \in Gens : view'[g] \in {view[g], Visible(store', tombs)} BY <1>1 DEF IInv, TypeOK
  <1>7. \A g \in Gens : Whole(view'[g]) BY <1>4, <1>5, <1>6
  <1>8. view' = [g \in Gens |-> view'[g]] BY <1>1 DEF IInv
  <1>9. JobInv' BY <1>1 DEF IInv, JobInv
  <1>10. writes' \in 1 .. MaxWrites BY <1>1, RecipeStoreAssumption DEF IInv, TypeOK
  <1>11. TypeOK' BY <1>0, <1>1, <1>3, <1>7, <1>9, <1>10 DEF IInv, TypeOK, Whole, IsView, JobInv
  <1>12. OldInv' BY <1>1, <1>3 DEF OldInv, Whole, IsView
  <1> QED BY <1>1, <1>8, <1>9, <1>11, <1>12 DEF IInv, BootInv

LEMMA SetupKeeps ==
  ASSUME IInv, Snapshot \/ SetupDone
  PROVE  IInv'
  <1> USE DEF entry, history
  <1>1. /\ phase \in {"setup", "forward"} /\ phase' \in {"forward", "up"}
        /\ snap' \in {snap, <<store, tombs, seeded>>}
        /\ seeds' \subseteq seeds \cup {[gen |-> gen, account |-> using]}
        /\ UNCHANGED <<version, entry, account, gen, view, using, selected, job, writes, history>>
    BY DEF Snapshot, SetupDone
  <1>2. JobInv' BY <1>1 DEF IInv, JobInv
  <1>3. IsView(snap'[1]) /\ snap'[2] \subseteq Names /\ snap'[3] \subseteq Seedings
    <2>1. CASE snap' = snap BY <2>1 DEF IInv, TypeOK
    <2>2. CASE snap' = <<store, tombs, seeded>> BY <2>2 DEF IInv, TypeOK
    <2> QED BY <1>1, <2>1, <2>2
  <1>4. seeds' \subseteq [gen : Gens, account : BOOLEAN] BY <1>1 DEF IInv, TypeOK
  <1>5. TypeOK' BY <1>1, <1>2, <1>3, <1>4 DEF IInv, TypeOK, IsView, JobInv
  <1>6. version = 3 BY <1>1, Migrated
  <1>7. OldInv' BY <1>1, <1>6 DEF IInv, OldInv, Whole, IsView
  <1> QED BY <1>1, <1>2, <1>5, <1>7 DEF IInv, BootInv

LEMMA ReloadKeeps ==
  ASSUME IInv, Reload
  PROVE  IInv'
  BY UnloadedKeeps DEF Reload, IInv, TypeOK

LEMMA RestartKeeps ==
  ASSUME IInv, Restart
  PROVE  IInv'
  <1> USE DEF entry, history
  <1>1. JobInv' /\ job'.kind = "none"
    BY RecipeStoreAssumption DEF Restart, JobInv, NoJob, Gens
  <1>2. \A g \in Gens : Whole(view'[g]) BY NothingIsWhole DEF Restart
  <1>3. view' = [g \in Gens |-> view'[g]] BY DEF Restart
  <1>4. 1 \in Gens BY RecipeStoreAssumption DEF Gens
  <1>5. IsView(snap'[1]) /\ snap'[2] = {} /\ snap'[3] = {}
    BY NothingIsWhole DEF Restart, Whole
  <1>6. TypeOK' BY <1>1, <1>2, <1>4, <1>5 DEF Restart, IInv, TypeOK, Whole, IsView, JobInv
  <1>7. OldInv' BY <1>1 DEF Restart, IInv, OldInv, Whole, IsView
  <1> QED BY <1>1, <1>3, <1>6, <1>7 DEF Restart, IInv, BootInv

\* The stores Home Assistant may start with, of every version.
LEMMA InitStore ==
  ASSUME Init
  PROVE  /\ IsView(store) /\ tombs \subseteq Names /\ DOMAIN store \cap tombs = {}
         /\ seeded \subseteq Seedings
         /\ version >= 2 => \A n \in DOMAIN store : store[n].fields = 2
         /\ version = 3 => Whole(store)
  <1>0. version \in 1 .. 3 BY DEF Init
  <1>1. 0 \in 0 .. MaxWrites /\ 1 \in 0 .. MaxWrites BY RecipeStoreAssumption
  <1>2. \A n \in Names : <<1, n>> # NoUid BY DEF NoUid
  <1>3. ASSUME NEW old \in {{}, PlainOf(Base \ Yaml)},
               tombs \in {{}, IF old = {} THEN PlainOf(Yaml) ELSE {}},
               store = [n \in old |-> [YamlRecipe(n) EXCEPT !.uid = IF version = 3 THEN <<1, n>> ELSE NoUid,
                                                             !.fields = IF version = 1 THEN 1 ELSE 2]],
               seeded = {}
        PROVE  /\ IsView(store) /\ tombs \subseteq Names /\ DOMAIN store \cap tombs = {}
               /\ seeded \subseteq Seedings
               /\ version >= 2 => \A n \in DOMAIN store : store[n].fields = 2
               /\ version = 3 => Whole(store)
    <2> DEFINE u(n) == IF version = 3 THEN <<1, n>> ELSE NoUid
               f == IF version = 1 THEN 1 ELSE 2
    <2>1. PlainOf(Base \ Yaml) \subseteq Names /\ PlainOf(Yaml) \subseteq Names
      BY NamesOf, RecipeStoreAssumption
    <2>2. \A n \in old : store[n] \in Recipe /\ store[n].uid = u(n) /\ store[n].fields = f
      <3> TAKE n \in old
      <3>1. n \in Names /\ YamlRecipe(n) \in Recipe BY <1>1, <1>3, <2>1, NewIsWhole DEF YamlRecipe
      <3>2. u(n) \in Uids \cup {NoUid} /\ f \in {1, 2} BY <1>1, <3>1 DEF Uids
      <3>3. store[n] = [YamlRecipe(n) EXCEPT !.uid = u(n), !.fields = f] BY <1>3
      <3> HIDE DEF u, f
      <3> QED BY <3>1, <3>2, <3>3 DEF Recipe
    <2>3. DOMAIN store = old /\ store = [n \in old |-> store[n]] BY <1>3
    <2>4. IsView(store) BY <1>3, <2>1, <2>2, <2>3 DEF IsView
    <2>5. version >= 2 => \A n \in DOMAIN store : store[n].fields = 2
      <3>1. version >= 2 => f = 2 BY <1>0
      <3> HIDE DEF f, u
      <3> QED BY <2>2, <2>3, <3>1
    <2>6. version = 3 => Whole(store)
      <3>1. version = 3 => \A n \in old : u(n) # NoUid BY <1>2, <2>1
      <3>2. version = 3 => version >= 2 OBVIOUS
      <3> HIDE DEF f, u
      <3> QED BY <2>2, <2>3, <2>4, <2>5, <3>1, <3>2 DEF Whole
    <2> QED BY <1>3, <2>1, <2>3, <2>4, <2>5, <2>6
  <1>4. ASSUME version = 3, seeded = {"initial"}, tombs = {},
               store = [n \in {Plain(PodName)} |-> FromPod("linked", 1, n)]
        PROVE  IsView(store) /\ Whole(store)
    <2>1. Plain(PodName) \in Names BY NamesOf, RecipeStoreAssumption DEF PlainOf
    <2>2. /\ FromPod("linked", 1, Plain(PodName)) \in Recipe
          /\ FromPod("linked", 1, Plain(PodName)).uid # NoUid
          /\ FromPod("linked", 1, Plain(PodName)).fields = 2
      BY <1>1, <2>1, FromPodIsWhole DEF Pods
    <2>3. DOMAIN store = {Plain(PodName)} /\ store[Plain(PodName)] = FromPod("linked", 1, Plain(PodName))
          /\ store = [n \in {Plain(PodName)} |-> store[n]]
      BY <1>4
    <2>4. store \in [{Plain(PodName)} -> Recipe] BY <2>2, <2>3
    <2> QED BY <2>1, <2>2, <2>3, <2>4 DEF IsView, Whole
  <1> QED BY <1>3, <1>4 DEF Init, Seedings, Whole

LEMMA InitHolds == Init => IInv
  <1> SUFFICES ASSUME Init PROVE IInv OBVIOUS
  <1>0. /\ version \in 1 .. 3 /\ account \in BOOLEAN
        /\ phase = "boot" /\ gen = 1 /\ view = [g \in Gens |-> Nothing]
        /\ snap = <<Nothing, {}, {}>> /\ using = FALSE /\ selected = NoName
        /\ seeds = {} /\ job = NoJob /\ writes = 1 /\ missed = FALSE /\ gone = {}
    BY DEF Init
  <1>1. 1 \in Gens /\ writes \in 1 .. MaxWrites BY <1>0, RecipeStoreAssumption DEF Gens
  <1>2. OldInv
    <2>1. job.kind = "none" BY <1>0 DEF NoJob
    <2> QED BY <1>0, <2>1, InitStore DEF OldInv
  <1>3. JobInv BY <1>0, <1>1 DEF JobInv, NoJob
  <1>4. Whole(Nothing) BY NothingIsWhole
  <1>5. \A g \in Gens : IsView(view[g]) /\ \A n \in DOMAIN view[g] :
                            view[g][n].uid # NoUid /\ view[g][n].fields = 2
    BY <1>0, <1>4 DEF Whole
  <1>6. IsView(snap[1]) /\ snap[2] = {} /\ snap[3] = {} BY <1>0, <1>4 DEF Whole
  <1>7. TypeOK BY <1>0, <1>1, <1>3, <1>5, <1>6, InitStore DEF TypeOK, JobInv
  <1> QED BY <1>0, <1>2, <1>3, <1>7 DEF IInv, BootInv

LEMMA StepHolds == IInv /\ [Next]_vars => IInv'
  <1> SUFFICES ASSUME IInv, [Next]_vars PROVE IInv' OBVIOUS
  <1>1. CASE UNCHANGED vars
    BY <1>1 DEF vars, entry, history, IInv, TypeOK, IsView, JobInv, OldInv, Whole, BootInv
  <1>2. \A n \in Names : {n} \cup PlainOf(Base) \subseteq Names
    BY RecipeStoreAssumption DEF Plain, PlainOf, Names
  <1>3. CASE \E n \in Names : \E m \in {n} \cup PlainOf(Base) : Edit(n, m)
    BY <1>2, <1>3, EditKeeps
  <1>4. CASE \E n \in Names : Delete(n) \/ Select(n) \/ ExportBegin(n)
    BY <1>4, DeleteKeeps, ServiceKeeps
  <1>5. CASE \E b \in Base : Create(b) \/ ImportBegin(b)
    BY <1>5, CreateKeeps, ServiceKeeps
  <1>6. CASE (\E p \in Pods : SavePod(p)) \/ ImportDone \/ ExportDone \/ CloudFails
    BY <1>6, SavePodKeeps, ImportDoneKeeps, ExportDoneKeeps, ServiceKeeps
  <1>7. CASE FlowSaves \/ SetAccount BY <1>7, FlowKeeps, SetAccountKeeps
  <1>8. CASE \E t \in seeds : SeedDone(t) \/ SeedFails(t)
    BY <1>8, SeedDoneKeeps, ServiceKeeps
  <1>9. CASE Migrate \/ SetupBegins \/ Snapshot \/ SetupDone \/ Reload \/ Restart
    BY <1>9, MigrateKeeps, SetupBeginsKeeps, SetupKeeps, ReloadKeeps, RestartKeeps
  <1> QED BY <1>1, <1>3, <1>4, <1>5, <1>6, <1>7, <1>8, <1>9 DEF Next

\* Whatever a coordinator shows has a uid and the current fields, whichever
\* version its store was written by (async_migrate_entry), and no name is both
\* a recipe and a tombstone.
THEOREM TypeCorrect == Spec => []TypeOK
  <1>1. IInv => TypeOK BY DEF IInv
  <1> QED BY <1>1, InitHolds, StepHolds, PTL DEF Spec

-----------------------------------------------------------------------------
(* What a step does to the recipes that are shown *)

\* Every recipe shown, but for those under the names in lost, is shown after.
Kept(lost) ==
    \A n \in DOMAIN Shown \ lost : \E m \in DOMAIN Shown' : Shown'[m].uid = Shown[n].uid

\* Every recipe shown after was shown before, or is a new one.
NoneBack ==
    \A m \in DOMAIN Shown' : \/ (Shown'[m].uid)[1] > writes
                             \/ \E n \in DOMAIN Shown : Shown[n].uid = Shown'[m].uid

\* What is selected is the recipe that was selected.
Followed ==
    \/ selected' = NoName \/ selected \notin DOMAIN Shown
    \/ selected' \in DOMAIN Shown' /\ Shown'[selected'].uid = Shown[selected].uid

\* A new recipe under a name that is not shown leaves the others alone.
LEMMA AddEffect ==
  ASSUME IInv, version = 3, NEW n \in Names, n \notin DOMAIN Shown, NEW r,
         r.uid = <<writes + 1, n>>, NEW w,
         Write(With(store, n, r), tombs \ {n}, seeded, w, selected)
  PROVE  Kept({}) /\ NoneBack /\ Followed
  <1> DEFINE s == With(store, n, r)
  <1>1. Shown' = Visible(s, tombs \ {n}) /\ selected' \in {selected, NoName} BY WriteEffect
  <1>2. DOMAIN s = DOMAIN store \cup {n} /\ s[n] = r /\ \A x \in DOMAIN store \ {n} : s[x] = store[x]
    BY DEF With
  <1>3. /\ DOMAIN Shown = DOMAIN store \cup (PlainOf(Yaml) \ tombs)
        /\ \A x \in DOMAIN Shown : Shown[x] = IF x \in DOMAIN store THEN store[x] ELSE YamlRecipe(x)
    BY DEF Shown, Visible
  <1> HIDE DEF s
  <1>4. /\ DOMAIN Shown' = DOMAIN s \cup (PlainOf(Yaml) \ (tombs \ {n}))
        /\ \A x \in DOMAIN Shown' : Shown'[x] = IF x \in DOMAIN s THEN s[x] ELSE YamlRecipe(x)
    BY <1>1 DEF Visible
  <1> HIDE DEF Shown
  <1>5. DOMAIN Shown' = DOMAIN Shown \cup {n} /\ Shown'[n] = r
        /\ \A x \in DOMAIN Shown : Shown'[x] = Shown[x]
    BY <1>2, <1>3, <1>4
  <1>6. r.uid[1] > writes
    <2>1. r.uid[1] = writes + 1 OBVIOUS
    <2> QED BY <2>1 DEF IInv, TypeOK
  <1> QED BY <1>1, <1>5, <1>6 DEF Kept, NoneBack, Followed

\* The recipe n moves to the name m, and every other one stays.
LEMMA EditEffect ==
  ASSUME IInv, NEW n \in Names, NEW m \in Names, Edit(n, m), ~Behind(gen)
  PROVE  Kept({}) /\ NoneBack /\ Followed
  <1> DEFINE left == IF m = n THEN store ELSE Without(store, n)
             hidden == IF m = n THEN tombs ELSE (tombs \ {n}) \cup ({n} \cap PlainOf(Yaml))
             sel == IF selected = n THEN m ELSE selected
             s == With(left, m, Mine[n])
  <1>1. Mine = Shown BY DEF Behind, Mine
  <1>2. /\ phase = "up" /\ n \in DOMAIN Shown /\ (m # n => m \notin DOMAIN Shown)
        /\ Write(s, hidden \ {m}, seeded, gen, sel)
    BY <1>1 DEF Edit, Serving, Found
  <1>3. Whole(store) BY <1>2, Migrated
  <1>4. /\ DOMAIN left = IF m = n THEN DOMAIN store ELSE DOMAIN store \ {n}
        /\ \A x \in DOMAIN left : left[x] = store[x]
    BY <1>3, WithoutIsWhole
  <1>5. /\ DOMAIN Shown = DOMAIN store \cup (PlainOf(Yaml) \ tombs)
        /\ \A x \in DOMAIN Shown : Shown[x] = IF x \in DOMAIN store THEN store[x] ELSE YamlRecipe(x)
    BY DEF Shown, Visible
  <1>6. DOMAIN s = DOMAIN left \cup {m} /\ s[m] = Shown[n] /\ \A x \in DOMAIN left \ {m} : s[x] = left[x]
    <2> HIDE DEF left, Shown
    <2> QED BY <1>1 DEF With
  <1>7. Shown' = Visible(s, hidden \ {m}) /\ selected' \in {sel, NoName}
    <2> HIDE DEF s, hidden, sel, Shown
    <2> QED BY <1>2, WriteEffect
  <1> HIDE DEF s
  <1>8. /\ DOMAIN Shown' = DOMAIN s \cup (PlainOf(Yaml) \ (hidden \ {m}))
        /\ \A x \in DOMAIN Shown' : Shown'[x] = IF x \in DOMAIN s THEN s[x] ELSE YamlRecipe(x)
    BY <1>7 DEF Visible
  <1> HIDE DEF Shown
  <1>9. /\ DOMAIN Shown' = IF m = n THEN DOMAIN Shown ELSE (DOMAIN Shown \ {n}) \cup {m}
        /\ Shown'[m] = Shown[n] /\ \A x \in DOMAIN Shown' \ {m} : Shown'[x] = Shown[x]
    <2>1. CASE m = n
      BY <1>2, <1>4, <1>5, <1>6, <1>8, <2>1
    <2>2. CASE m # n
      BY <1>2, <1>4, <1>5, <1>6, <1>8, <2>2
    <2> QED BY <2>1, <2>2
  <1> HIDE DEF left, hidden
  <1> QED BY <1>2, <1>7, <1>9 DEF Kept, NoneBack, Followed

\* A deleted recipe goes, with its YAML recipe, and every other one stays.
LEMMA DeleteEffect ==
  ASSUME IInv, NEW n \in Names, Delete(n)
  PROVE  Kept({n}) /\ NoneBack /\ Followed
  <1> DEFINE s == Without(store, n)
             t == (tombs \ {n}) \cup ({n} \cap PlainOf(Yaml))
             sel == IF selected = n THEN NoName ELSE selected
  <1>1. phase = "up" /\ Write(s, t, seeded, gen, sel) BY DEF Delete, Serving
  <1>2. Whole(store) BY <1>1, Migrated
  <1>3. DOMAIN s = DOMAIN store \ {n} /\ \A x \in DOMAIN s : s[x] = store[x]
    BY <1>2, WithoutIsWhole
  <1>4. Shown' = Visible(s, t) /\ selected' \in {sel, NoName}
    <2> HIDE DEF s, t, sel, Shown
    <2> QED BY <1>1, WriteEffect
  <1>5. /\ DOMAIN Shown = DOMAIN store \cup (PlainOf(Yaml) \ tombs)
        /\ \A x \in DOMAIN Shown : Shown[x] = IF x \in DOMAIN store THEN store[x] ELSE YamlRecipe(x)
    BY DEF Shown, Visible
  <1> HIDE DEF s
  <1>6. /\ DOMAIN Shown' = DOMAIN s \cup (PlainOf(Yaml) \ t)
        /\ \A x \in DOMAIN Shown' : Shown'[x] = IF x \in DOMAIN s THEN s[x] ELSE YamlRecipe(x)
    BY <1>4 DEF Visible
  <1> HIDE DEF Shown
  <1>7. DOMAIN Shown' = DOMAIN Shown \ {n} /\ \A x \in DOMAIN Shown' : Shown'[x] = Shown[x]
    BY <1>3, <1>5, <1>6
  <1> HIDE DEF t
  <1> QED BY <1>4, <1>7 DEF Kept, NoneBack, Followed

\* An export whose recipe is still there changes its link and nothing else.
LEMMA ExportEffect ==
  ASSUME IInv, ExportDone
  PROVE  ExportsCopy \/ (Kept({}) /\ NoneBack /\ Followed)
  <1> DEFINE n == job.name
             r == IF n \in DOMAIN store THEN store[n] ELSE job.raw
             ra == [r EXCEPT !.link = "account"]
             s == With(store, n, ra)
  <1>1. job.kind = "export" /\ Write(s, tombs \ {n}, seeded, job.gen, selected)
    BY DEF ExportDone
  <1>2. Whole(store) BY <1>1, Migrated
  <1>3. r \in Recipe /\ ra.uid = r.uid /\ ra.link = "account"
    <2>1. r \in Recipe BY <1>1, <1>2 DEF IInv, JobInv, Whole, IsView
    <2> HIDE DEF r
    <2> QED BY <2>1 DEF Recipe
  <1> HIDE DEF ra
  <1>4. DOMAIN s = DOMAIN store \cup {n} /\ s[n] = ra /\ \A x \in DOMAIN store \ {n} : s[x] = store[x]
    <2> HIDE DEF n
    <2> QED BY DEF With
  <1>5. Shown' = Visible(s, tombs \ {n}) /\ selected' \in {selected, NoName}
    <2> HIDE DEF s, n, Shown
    <2> QED BY <1>1, WriteEffect
  <1>6. /\ DOMAIN Shown = DOMAIN store \cup (PlainOf(Yaml) \ tombs)
        /\ \A x \in DOMAIN Shown : Shown[x] = IF x \in DOMAIN store THEN store[x] ELSE YamlRecipe(x)
    BY DEF Shown, Visible
  <1> HIDE DEF s
  <1>7. /\ DOMAIN Shown' = DOMAIN s \cup (PlainOf(Yaml) \ (tombs \ {n}))
        /\ \A x \in DOMAIN Shown' : Shown'[x] = IF x \in DOMAIN s THEN s[x] ELSE YamlRecipe(x)
    BY <1>5 DEF Visible
  <1> HIDE DEF Shown
  <1>8. DOMAIN Shown' = DOMAIN Shown \cup {n} /\ Shown'[n] = ra
        /\ \A x \in DOMAIN Shown \ {n} : Shown'[x] = Shown[x]
    <2> HIDE DEF n
    <2> QED BY <1>4, <1>6, <1>7
  <1>9. ExportsCopy \/ (n \in DOMAIN Shown /\ ra.uid = Shown[n].uid)
    <2>1. CASE n \in DOMAIN store BY <1>3, <1>6, <2>1
    <2>2. CASE n \notin DOMAIN store
      <3>1. ra.uid = job.raw.uid BY <1>3, <2>2
      <3> QED BY <2>2, <3>1 DEF ExportsCopy
    <2> QED BY <2>1, <2>2
  <1> HIDE DEF n
  <1>10. ASSUME n \in DOMAIN Shown, ra.uid = Shown[n].uid PROVE Kept({}) /\ NoneBack /\ Followed
    <2>1. DOMAIN Shown' = DOMAIN Shown /\ \A x \in DOMAIN Shown : Shown'[x].uid = Shown[x].uid
      BY <1>8, <1>10
    <2> QED BY <1>5, <2>1 DEF Kept, NoneBack, Followed
  <1> QED BY <1>9, <1>10

\* A seed adds recipes under names that are neither stored, hidden nor YAML's.
LEMMA SeedEffect ==
  ASSUME IInv, NEW t \in seeds, SeedDone(t)
  PROVE  Kept({}) /\ NoneBack /\ Followed
  <1> DEFINE W == Wanted(t)
             s == [n \in DOMAIN store \cup W |-> IF n \in DOMAIN store THEN store[n]
                                                 ELSE FromCloud(t, n)]
  <1>1. Write(s, tombs, seeded \cup Flags(t), t.gen, selected) BY DEF SeedDone
  <1>2. W \cap DOMAIN store = {} BY DEF Wanted
  <1>3. \A n \in W : (FromCloud(t, n).uid)[1] > writes
    <2>1. writes \in Nat BY DEF IInv, TypeOK
    <2>2. \A n : FromCloud(t, n).uid = <<writes + 1, n>>
      BY DEF FromCloud, New
    <2>3. \A n : (FromCloud(t, n).uid)[1] = writes + 1 BY <2>2
    <2> QED BY <2>1, <2>2, <2>3
  <1>4. /\ DOMAIN s = DOMAIN store \cup W /\ \A n \in DOMAIN store : s[n] = store[n]
        /\ \A n \in W \ DOMAIN store : s[n] = FromCloud(t, n)
    <2> HIDE DEF W
    <2> QED OBVIOUS
  <1>5. Shown' = Visible(s, tombs) /\ selected' \in {selected, NoName}
    <2> HIDE DEF s, Shown
    <2> QED BY <1>1, WriteEffect
  <1>6. /\ DOMAIN Shown = DOMAIN store \cup (PlainOf(Yaml) \ tombs)
        /\ \A x \in DOMAIN Shown : Shown[x] = IF x \in DOMAIN store THEN store[x] ELSE YamlRecipe(x)
    BY DEF Shown, Visible
  <1> HIDE DEF s
  <1>7. /\ DOMAIN Shown' = DOMAIN s \cup (PlainOf(Yaml) \ tombs)
        /\ \A x \in DOMAIN Shown' : Shown'[x] = IF x \in DOMAIN s THEN s[x] ELSE YamlRecipe(x)
    BY <1>5 DEF Visible
  <1>8. W \cap PlainOf(Yaml) = {} BY DEF Wanted
  <1> HIDE DEF Shown, W
  <1>9. DOMAIN Shown' = DOMAIN Shown \cup W /\ (\A x \in DOMAIN Shown : Shown'[x] = Shown[x])
        /\ \A x \in W : Shown'[x] = FromCloud(t, x)
    BY <1>2, <1>4, <1>6, <1>7, <1>8
  <1> QED BY <1>3, <1>5, <1>9 DEF Kept, NoneBack, Followed

\* The bundled seed of a fresh install adds its recipes; nothing is selected yet.
LEMMA SetupEffect ==
  ASSUME IInv, SetupBegins
  PROVE  Kept(PlainOf(Bundled \cap Yaml)) /\ NoneBack /\ Followed
         /\ \A n \in PlainOf(Bundled \cap Yaml) \cap DOMAIN Shown :
              entry' # entry => Shown[n] = YamlRecipe(n)
  <1>1. phase = "boot" /\ selected' = selected /\ tombs' = tombs /\ seeded' = seeded /\ store' = Seeded
    BY DEF SetupBegins
  <1>2. Followed BY <1>1 DEF Followed, IInv, BootInv
  <1>3. CASE store' = store
    <2>1. Shown' = Shown /\ entry' = entry BY <1>1, <1>3 DEF Shown, entry
    <2> HIDE DEF Shown
    <2> QED BY <1>2, <2>1 DEF Kept, NoneBack
  <1>4. CASE store' # store
    <2>1. /\ store' = [n \in PlainOf(Bundled) |-> New(writes + 1, n)]
          /\ store = Nothing /\ tombs = {}
      BY <1>1, <1>4 DEF Seeded
    <2>2. DOMAIN Shown = PlainOf(Yaml) /\ \A x \in DOMAIN Shown : Shown[x] = YamlRecipe(x)
      <3>1. DOMAIN store = {} BY <2>1 DEF Nothing
      <3> QED BY <2>1, <3>1 DEF Shown, Visible
    <2>3. DOMAIN store' = PlainOf(Bundled) /\ \A n \in PlainOf(Bundled) : store'[n] = New(writes + 1, n)
      BY <2>1
    <2>4. /\ DOMAIN Shown' = PlainOf(Bundled) \cup PlainOf(Yaml)
          /\ \A x \in DOMAIN Shown' : Shown'[x] = IF x \in PlainOf(Bundled) THEN New(writes + 1, x)
                                                  ELSE YamlRecipe(x)
      <3>1. Shown' = Visible(store', tombs') BY DEF Shown
      <3> QED BY <1>1, <2>1, <2>3, <3>1 DEF Visible
    <2>5. \A n : (New(writes + 1, n).uid)[1] > writes
      <3>1. writes \in Nat BY DEF IInv, TypeOK
      <3>2. \A n : New(writes + 1, n).uid = <<writes + 1, n>> BY DEF New
      <3>3. \A n : (New(writes + 1, n).uid)[1] = writes + 1 BY <3>2
      <3> QED BY <3>1, <3>2, <3>3
    <2>6. PlainOf(Bundled) \cap PlainOf(Yaml) = PlainOf(Bundled \cap Yaml) BY DEF PlainOf, Plain
    <2> HIDE DEF Shown
    <2>7. Kept(PlainOf(Bundled \cap Yaml)) BY <2>2, <2>4, <2>6 DEF Kept
    <2>8. NoneBack BY <2>2, <2>4, <2>5 DEF NoneBack
    <2> QED BY <1>2, <2>2, <2>7, <2>8
  <1> QED BY <1>3, <1>4

\* A name that is free in a view that is not behind is not shown.
LEMMA CreateEffect ==
  ASSUME IInv, ~Behind(gen), NEW b \in Base, Create(b)
  PROVE  Kept({}) /\ NoneBack /\ Followed
  <1> DEFINE n == DedupeName(b, DOMAIN Mine)
             r == New(writes + 1, n)
  <1>1. n \in Names \ DOMAIN Mine BY DedupeFree DEF Create
  <1>2. n \notin DOMAIN Shown BY <1>1 DEF Behind, Mine
  <1>3. Write(With(store, n, r), tombs \ {n}, seeded, gen, selected) BY DEF Create
  <1>4. version = 3 BY Migrated DEF Create, Serving
  <1>5. r.uid = <<writes + 1, n>> BY DEF New
  <1> HIDE DEF n, r
  <1> QED BY <1>1, <1>2, <1>3, <1>4, <1>5, AddEffect

LEMMA SavePodEffect ==
  ASSUME IInv, ~Behind(gen), NEW p \in Pods, SavePod(p)
  PROVE  Kept({}) /\ NoneBack /\ Followed
  <1> DEFINE n == DedupeName(PodName, DOMAIN Mine)
             r == FromPod(p, writes + 1, n)
  <1>1. n \in Names \ DOMAIN Mine BY DedupeFree, RecipeStoreAssumption DEF SavePod
  <1>2. n \notin DOMAIN Shown BY <1>1 DEF Behind, Mine
  <1>3. Write(With(store, n, r), tombs \ {n}, seeded, gen, selected) BY DEF SavePod
  <1>4. version = 3 BY Migrated DEF SavePod
  <1>5. r.uid = <<writes + 1, n>> BY DEF FromPod, New
  <1> HIDE DEF n, r
  <1> QED BY <1>1, <1>2, <1>3, <1>4, <1>5, AddEffect

LEMMA ImportEffect ==
  ASSUME IInv, ~Behind(job.gen), ImportDone
  PROVE  Kept({}) /\ NoneBack /\ Followed
  <1> DEFINE n == DedupeName(job.name[1], DOMAIN view[job.gen])
             r == New(writes + 1, n)
  <1>1. job.name[1] \in Base BY DEF ImportDone, IInv, JobInv, PlainOf, Plain
  <1>2. n \in Names \ DOMAIN view[job.gen] BY <1>1, DedupeFree DEF ImportDone
  <1>3. n \notin DOMAIN Shown BY <1>2 DEF Behind
  <1>4. Write(With(store, n, r), tombs \ {n}, seeded, job.gen, selected) BY DEF ImportDone
  <1>5. version = 3 BY Migrated DEF ImportDone
  <1>6. r.uid = <<writes + 1, n>> BY DEF New
  <1> HIDE DEF n, r
  <1> QED BY <1>2, <1>3, <1>4, <1>5, <1>6, AddEffect

\* All a step can do to the recipes that are shown or selected.
LEMMA StepEffect ==
  ASSUME IInv, [Next]_vars
  PROVE  \/ entry' = entry /\ (selected' \in {selected, NoName} \/ \E n \in Names : Select(n))
         \/ version # 3 /\ selected' = NoName
         \/ Kept({}) /\ NoneBack /\ Followed
         \/ \E n \in Names : Delete(n) /\ Kept({n}) /\ NoneBack /\ Followed
         \/ /\ SetupBegins /\ Kept(PlainOf(Bundled \cap Yaml)) /\ NoneBack /\ Followed
            /\ \A n \in PlainOf(Bundled \cap Yaml) \cap DOMAIN Shown :
                 entry' # entry => Shown[n] = YamlRecipe(n)
         \/ FlowSaves \/ ExportsCopy
         \/ WritesBehind
  <1>1. \A n \in Names : {n} \cup PlainOf(Base) \subseteq Names
    BY RecipeStoreAssumption DEF Plain, PlainOf, Names
  <1>2. CASE \E n \in Names : \E m \in {n} \cup PlainOf(Base) : Edit(n, m)
    <2>1. PICK n \in Names, m \in Names : Edit(n, m) BY <1>1, <1>2
    <2>2. CASE Behind(gen) BY <2>1, <2>2 DEF WritesBehind
    <2>3. CASE ~Behind(gen) BY <2>1, <2>3, EditEffect
    <2> QED BY <2>2, <2>3
  <1>3. CASE \E n \in Names : Delete(n) BY <1>3, DeleteEffect
  <1>4. CASE \E b \in Base : Create(b) BY <1>4, CreateEffect DEF WritesBehind
  <1>5. CASE \E p \in Pods : SavePod(p) BY <1>5, SavePodEffect DEF WritesBehind
  <1>6. CASE ImportDone BY <1>6, ImportEffect DEF WritesBehind
  <1>7. CASE ExportDone BY <1>7, ExportEffect
  <1>8. CASE FlowSaves BY <1>8
  <1>9. CASE \E t \in seeds : SeedDone(t) BY <1>9, SeedEffect
  <1>10. CASE Migrate
    <2>1. version # 3 /\ selected' = NoName BY <1>10 DEF Migrate, IInv, TypeOK, BootInv
    <2> QED BY <2>1
  <1>11. CASE SetupBegins BY <1>11, SetupEffect
  <1>12. CASE \E n \in Names : Select(n) BY <1>12 DEF Select
  <1>13. CASE \/ \E n \in Names : ExportBegin(n)
              \/ \E b \in Base : ImportBegin(b)
              \/ CloudFails \/ SetAccount
              \/ \E t \in seeds : SeedFails(t)
              \/ Snapshot \/ SetupDone \/ Reload \/ Restart \/ UNCHANGED vars
    BY <1>13 DEF ExportBegin, ImportBegin, CloudFails, SetAccount, SeedFails, Snapshot, SetupDone,
                 Reload, Restart, Unload, vars
  <1> QED BY <1>2, <1>3, <1>4, <1>5, <1>6, <1>7, <1>8, <1>9, <1>10, <1>11, <1>12, <1>13 DEF Next

-----------------------------------------------------------------------------
(* What a coordinator shows, what is gone, and who minted a recipe *)

\* A coordinator that has been set up, and missed nothing, shows the store.
LiveInv == phase # "boot" /\ ~missed => view[gen] = Shown

\* A name that is gone is not shown, and the seeding it went after is over.
GoneInv == \A p \in gone : Over(p[2]) /\ p[1] \notin DOMAIN Shown

\* A recipe minted by the first k writes; one from a pod with a share link has one.
Minted(r, k) == (r.uid)[1] <= k /\ (r.pod = "linked" => r.link # "none")

AllMinted(s, k) == \A n \in DOMAIN s : Minted(s[n], k)

OriginInv ==
    /\ AllMinted(store, writes) /\ \A g \in Gens : AllMinted(view[g], writes)
    /\ job.kind = "export" => Minted(job.raw, writes)

\* No recipe shown after was saved from a pod by this step.
NoPodMinted == \A m \in DOMAIN Shown' : Shown'[m].pod = "none" \/ (Shown'[m].uid)[1] <= writes

\* Where a write leaves the coordinators' views.
LEMMA WriteViews ==
  ASSUME IInv, NEW s, NEW t, NEW sd, NEW w, NEW sel, Write(s, t, sd, w, sel)
  PROVE  /\ \A g \in Gens : view'[g] \in {view[g], Visible(s, t), Nothing}
         /\ \/ phase' = "boot"
            \/ /\ gen' = gen /\ phase' = phase
               /\ \/ view'[gen] = Visible(s, t)
                  \/ /\ view'[gen] = view[gen]
                     /\ ~missed' => /\ ~missed /\ phase \notin {"setup", "forward"}
                                    /\ (phase = "up" => <<s, t, sd>> = entry)
  <1>1. gen \in Gens BY DEF IInv, TypeOK
  <1>2. CASE Unload
    <2>1. view' = [view EXCEPT ![gen] = IF Needs(gen) THEN view[gen] ELSE Nothing] /\ phase' = "boot"
      BY <1>2 DEF Unload
    <2> QED BY <1>1, <2>1 DEF IInv
  <1>3. CASE ~Unload
    <2> DEFINE R == {h \in Gens : \/ h = gen /\ phase # "boot" /\ (w = gen \/ Heard(<<s, t, sd>>))
                                  \/ h = w /\ Needs(w)}
    <2>1. /\ view' = [g \in Gens |-> IF g \in R THEN Visible(s, t) ELSE view[g]]
          /\ gen' = gen /\ phase' = phase
          /\ missed' = (gen \notin R /\ (missed \/ phase \in {"setup", "forward"}))
      BY <1>3 DEF Write
    <2>2. \A g \in Gens : view'[g] \in {view[g], Visible(s, t)} BY <2>1
    <2>3. CASE gen \in R BY <1>1, <2>1, <2>2, <2>3
    <2>4. CASE gen \notin R
      <3>1. ~Heard(<<s, t, sd>>) \/ phase = "boot" BY <1>1, <2>4
      <3>2. phase = "up" => <<s, t, sd>> = entry BY <3>1 DEF Heard
      <3> HIDE DEF R
      <3>3. missed' = (missed \/ phase \in {"setup", "forward"}) BY <2>1, <2>4
      <3>4. phase = "up" => phase \notin {"setup", "forward"} OBVIOUS
      <3> QED BY <1>1, <2>1, <2>2, <2>4, <3>2, <3>3, <3>4
    <2> QED BY <2>3, <2>4
  <1> QED BY <1>2, <1>3

\* A step writes the options, sets the entry up, or leaves the store alone.
LEMMA StepKinds ==
  ASSUME Next, NEW P,
         \A s, t, sd, w, sel : Write(s, t, sd, w, sel) /\ seeded \subseteq sd /\ seeds' \subseteq seeds => P
  PROVE  \/ P \/ Migrate \/ SetupBegins \/ Snapshot \/ SetupDone \/ SetAccount \/ Reload \/ Restart
         \/ UNCHANGED <<version, entry, phase, gen, view, writes, history>> /\ seeds' \subseteq seeds
  <1>1. CASE \/ \E b \in Base : Create(b)
             \/ \E n \in Names : Delete(n)
             \/ \E p \in Pods : SavePod(p)
             \/ ImportDone \/ ExportDone
    BY <1>1 DEF Create, Delete, SavePod, ImportDone, ExportDone
  <1>2. CASE \E n \in Names : \E m \in {n} \cup PlainOf(Base) : Edit(n, m)
    BY <1>2 DEF Edit
  <1>3. CASE FlowSaves
    BY <1>3 DEF FlowSaves, FlowAdd, FlowEdit, FlowDelete
  <1>4. CASE \E t \in seeds : SeedDone(t)
    BY <1>4 DEF SeedDone
  <1>5. CASE \/ \E n \in Names : Select(n) \/ ExportBegin(n)
             \/ \E b \in Base : ImportBegin(b)
             \/ CloudFails
             \/ \E t \in seeds : SeedFails(t)
    BY <1>5 DEF Select, ExportBegin, ImportBegin, CloudFails, SeedFails
  <1> QED BY <1>1, <1>2, <1>3, <1>4, <1>5 DEF Next

LEMMA LiveStep ==
  ASSUME IInv, LiveInv, [Next]_vars
  PROVE  LiveInv'
  <1>0. gen \in Gens BY DEF IInv, TypeOK
  <1>1. ASSUME NEW s, NEW t, NEW sd, NEW w, NEW sel, Write(s, t, sd, w, sel)
        PROVE  LiveInv'
    <2>1. Shown' = Visible(s, t) BY <1>1, WriteEffect
    <2>2. <<s, t, sd>> = entry => Shown = Visible(s, t) BY DEF entry, Shown
    <2>3. phase \in {"boot", "setup", "forward", "up"} BY DEF IInv, TypeOK
    <2> HIDE DEF Shown
    <2> QED BY <1>1, <2>1, <2>2, <2>3, WriteViews DEF LiveInv
  <1>2. CASE Migrate BY <1>2 DEF Migrate, LiveInv
  <1>3. CASE SetupBegins
    <2>1. /\ view' = [view EXCEPT ![gen] = Visible(store', tombs)] /\ gen' = gen /\ tombs' = tombs
      BY <1>3 DEF SetupBegins
    <2>2. view'[gen'] = Visible(store', tombs') BY <1>0, <2>1 DEF IInv
    <2> QED BY <2>2 DEF LiveInv, Shown
  <1>4. CASE Snapshot \/ SetupDone
    <2>1. /\ phase # "boot" /\ UNCHANGED <<entry, gen, view, missed>>
      BY <1>4 DEF Snapshot, SetupDone, history
    <2>2. Shown' = Shown BY <2>1 DEF Shown, entry
    <2> HIDE DEF Shown
    <2> QED BY <2>1, <2>2 DEF LiveInv
  <1>5. CASE SetAccount
    <2>1. entry' = entry BY <1>5 DEF SetAccount
    <2>2. Shown' = Shown BY <2>1 DEF Shown, entry
    <2>3. CASE phase' = "boot" BY <2>3 DEF LiveInv
    <2>4. CASE phase' # "boot" /\ phase = "up"
      <3>1. view' = [view EXCEPT ![gen] = Shown] /\ gen' = gen
        BY <1>5, <2>4 DEF SetAccount, Unload
      <3>2. view'[gen'] = Shown BY <1>0, <3>1 DEF IInv
      <3> HIDE DEF Shown
      <3> QED BY <2>2, <3>2 DEF LiveInv
    <2>5. CASE phase # "up"
      <3>1. UNCHANGED <<view, gen, phase>> /\ missed' = (phase # "up" /\ missed)
        BY <1>5, <2>5 DEF SetAccount
      <3> HIDE DEF Shown
      <3> QED BY <2>2, <2>5, <3>1 DEF LiveInv
    <2> QED BY <2>3, <2>4, <2>5
  <1>6. CASE Reload \/ Restart BY <1>6 DEF Reload, Restart, Unload, LiveInv
  <1>7. CASE UNCHANGED <<version, entry, phase, gen, view, writes, history>> \/ UNCHANGED vars
    <2>1. UNCHANGED <<entry, phase, gen, view, missed>> BY <1>7 DEF history, vars
    <2>2. Shown' = Shown BY <2>1 DEF Shown, entry
    <2> HIDE DEF Shown
    <2> QED BY <2>1, <2>2 DEF LiveInv
  <1> QED BY <1>1, <1>2, <1>3, <1>4, <1>5, <1>6, <1>7, StepKinds

LEMMA GoneStep ==
  ASSUME IInv, GoneInv, [Next]_vars
  PROVE  GoneInv'
  <1>1. ASSUME NEW s, NEW t, gone' = GoneAfter(s, t), Shown' = Visible(s, t),
               seeded \subseteq seeded', seeds' \subseteq seeds
        PROVE  GoneInv'
    <2>1. \A k : Over(k) => Over(k)' BY <1>1 DEF Over, Kind
    <2>2. \A p \in gone' : (p \in gone \/ Over(p[2])) /\ p[1] \notin DOMAIN Visible(s, t)
      BY <1>1 DEF GoneAfter
    <2> HIDE DEF Shown, Over
    <2> QED BY <1>1, <2>1, <2>2 DEF GoneInv
  <1>2. ASSUME NEW s, NEW t, NEW sd, NEW w, NEW sel, Write(s, t, sd, w, sel),
               seeded \subseteq sd, seeds' \subseteq seeds
        PROVE  GoneInv'
    <2>1. /\ seeded' = sd /\ gone' = GoneAfter(s, t) /\ Shown' = Visible(s, t)
      BY <1>2, WriteEffect
    <2> HIDE DEF Shown
    <2> QED BY <1>1, <1>2, <2>1
  <1>3. CASE SetupBegins
    <2>1. /\ gone' = GoneAfter(store', tombs) /\ UNCHANGED <<tombs, seeded, seeds>>
      BY <1>3 DEF SetupBegins
    <2>2. Shown' = Visible(store', tombs) BY <2>1 DEF Shown
    <2> HIDE DEF Shown
    <2> QED BY <1>1, <2>1, <2>2
  <1>4. ASSUME gone' = gone, DOMAIN Shown' = DOMAIN Shown, \A k : Over(k) => Over(k)'
        PROVE  GoneInv'
    <2> HIDE DEF Shown, Over
    <2> QED BY <1>4 DEF GoneInv
  <1>5. CASE SetupDone
    <2>1. UNCHANGED <<entry, gone>> /\ seeds' = seeds \cup {t \in {[gen |-> gen, account |-> using]} : Due(t)}
      BY <1>5 DEF SetupDone, history
    <2>2. Shown' = Shown BY <2>1 DEF Shown, entry
    <2>3. ASSUME NEW k, Over(k) PROVE Over(k)'
      BY <2>1, <2>3 DEF Over, Due, Kind, entry
    <2> QED BY <1>4, <2>1, <2>2, <2>3
  <1>6. CASE \/ Snapshot \/ SetAccount \/ Reload \/ Restart \/ UNCHANGED vars
             \/ UNCHANGED <<version, entry, phase, gen, view, writes, history>> /\ seeds' \subseteq seeds
    <2>1. UNCHANGED <<entry, gone>> /\ seeds' \subseteq seeds
      BY <1>6 DEF Snapshot, SetAccount, Reload, Restart, Unload, history, vars
    <2>2. Shown' = Shown BY <2>1 DEF Shown, entry
    <2>3. \A k : Over(k) => Over(k)' BY <2>1 DEF Over, Kind, entry
    <2> QED BY <1>4, <2>1, <2>2, <2>3
  <1>7. CASE Migrate
    <2>1. UNCHANGED <<tombs, seeded, seeds, gone>> /\ DOMAIN store' = DOMAIN store
      BY <1>7 DEF Migrate, history
    <2>2. DOMAIN Shown' = DOMAIN Shown BY <2>1 DEF Shown, Visible
    <2>3. \A k : Over(k) => Over(k)' BY <2>1 DEF Over, Kind
    <2> QED BY <1>4, <2>1, <2>2, <2>3
  <1> QED BY <1>2, <1>3, <1>5, <1>6, <1>7, StepKinds

LEMMA MintedLater ==
  ASSUME NEW k \in Nat, NEW l \in Nat, k <= l, NEW r, r.uid \in Uids \cup {NoUid}, Minted(r, k)
  PROVE  Minted(r, l)
  <1>1. (r.uid)[1] \in Nat BY DEF Uids, NoUid
  <1> QED BY <1>1 DEF Minted

LEMMA YamlIsMinted ==
  ASSUME NEW k \in Nat, NEW n
  PROVE  Minted(YamlRecipe(n), k) /\ YamlRecipe(n).pod = "none" /\ (YamlRecipe(n).uid)[1] = 0
  <1>1. /\ YamlRecipe(n).uid = <<0, n>> /\ YamlRecipe(n).pod = "none"
    BY DEF YamlRecipe, New
  <1> QED BY <1>1 DEF Minted

\* What a recipe in a store that is written may be: one that was there, or a new
\* one that is from no pod.
OldOrNew(r) == Minted(r, writes) \/ ((r.uid)[1] = writes + 1 /\ r.pod = "none")

LEMMA WriteOrigin ==
  ASSUME IInv, OriginInv, NEW s, NEW t, NEW sd, NEW w, NEW sel, Write(s, t, sd, w, sel),
         \A n \in DOMAIN s : Minted(s[n], writes + 1), job' \in {job, NoJob}
  PROVE  OriginInv'
  <1>1. writes \in Nat /\ writes' = writes + 1 /\ store' = s
    BY WriteEffect DEF IInv, TypeOK
  <1>2. \A n : Minted(YamlRecipe(n), writes + 1) BY <1>1, YamlIsMinted
  <1>3. AllMinted(Visible(s, t), writes + 1)
    <2>1. \A n \in DOMAIN Visible(s, t) : Visible(s, t)[n] = IF n \in DOMAIN s THEN s[n] ELSE YamlRecipe(n)
      BY DEF Visible
    <2> HIDE DEF Visible
    <2> QED BY <1>2, <2>1 DEF AllMinted
  <1>4. \A g \in Gens : AllMinted(view[g], writes + 1)
    <2> SUFFICES ASSUME NEW g \in Gens, NEW n \in DOMAIN view[g]
                 PROVE  Minted(view[g][n], writes + 1)
      BY DEF AllMinted
    <2>1. view[g][n].uid \in Uids \cup {NoUid} BY DEF IInv, TypeOK, IsView, Recipe
    <2>2. Minted(view[g][n], writes) BY DEF OriginInv, AllMinted
    <2> QED BY <1>1, <2>1, <2>2, MintedLater
  <1>5. AllMinted(Nothing, writes + 1) BY DEF AllMinted, Nothing
  <1>6. \A g \in Gens : view'[g] \in {view[g], Visible(s, t), Nothing} BY WriteViews
  <1>7. \A g \in Gens : AllMinted(view'[g], writes + 1)
    <2> HIDE DEF Visible
    <2> QED BY <1>3, <1>4, <1>5, <1>6
  <1>8. job'.kind = "export" => Minted(job'.raw, writes + 1)
    <2> SUFFICES ASSUME job' = job, job.kind = "export" PROVE Minted(job.raw, writes + 1)
      BY DEF NoJob
    <2>1. job.raw.uid \in Uids \cup {NoUid} BY DEF IInv, JobInv, Recipe
    <2> QED BY <1>1, <2>1, MintedLater DEF OriginInv
  <1>9. AllMinted(store', writes') BY <1>1 DEF AllMinted
  <1> QED BY <1>1, <1>7, <1>8, <1>9 DEF OriginInv

\* A write whose recipes are old, or new and from no pod.
LEMMA WritePlain ==
  ASSUME IInv, OriginInv, NEW s, NEW t, NEW sd, NEW w, NEW sel, Write(s, t, sd, w, sel),
         \A n \in DOMAIN s : s[n].uid \in Uids \cup {NoUid} /\ OldOrNew(s[n]), job' \in {job, NoJob}
  PROVE  OriginInv' /\ NoPodMinted
  <1>1. writes \in Nat BY DEF IInv, TypeOK
  <1>2. ASSUME NEW n \in DOMAIN s PROVE Minted(s[n], writes + 1)
    <2>1. CASE Minted(s[n], writes) BY <1>1, <2>1, MintedLater
    <2>2. CASE (s[n].uid)[1] = writes + 1 /\ s[n].pod = "none" BY <1>1, <2>2 DEF Minted
    <2> QED BY <2>1, <2>2 DEF OldOrNew
  <1>3. OriginInv' BY <1>2, WriteOrigin
  <1>4. Shown' = Visible(s, t) BY WriteEffect
  <1>5. \A m \in DOMAIN Shown' : Shown'[m] = IF m \in DOMAIN s THEN s[m] ELSE YamlRecipe(m)
    BY <1>4 DEF Visible
  <1>6. \A m : YamlRecipe(m).pod = "none" BY <1>1, YamlIsMinted
  <1>7. \A m \in DOMAIN s : s[m].pod = "none" \/ (s[m].uid)[1] <= writes
    BY DEF OldOrNew, Minted
  <1> HIDE DEF Shown
  <1>8. NoPodMinted BY <1>5, <1>6, <1>7 DEF NoPodMinted
  <1> QED BY <1>3, <1>8

\* A recipe put into a part of the store.
LEMMA WithOrigin ==
  ASSUME IInv, OriginInv, NEW D \in SUBSET DOMAIN store, NEW left, DOMAIN left = D,
         \A x \in D : left[x] = store[x],
         NEW n, NEW r, r.uid \in Uids \cup {NoUid}, OldOrNew(r), NEW t, NEW sd, NEW w, NEW sel,
         Write(With(left, n, r), t, sd, w, sel), job' \in {job, NoJob}
  PROVE  OriginInv' /\ NoPodMinted
  <1> DEFINE s == With(left, n, r)
  <1>1. DOMAIN s = D \cup {n} /\ s[n] = r /\ \A x \in D \ {n} : s[x] = store[x] BY DEF With
  <1>2. \A x \in D : store[x].uid \in Uids \cup {NoUid} /\ OldOrNew(store[x])
    BY DEF IInv, TypeOK, IsView, Recipe, OriginInv, AllMinted, OldOrNew
  <1> HIDE DEF s
  <1>3. \A x \in DOMAIN s : s[x].uid \in Uids \cup {NoUid} /\ OldOrNew(s[x]) BY <1>1, <1>2
  <1>4. Write(s, t, sd, w, sel) BY DEF s
  <1> QED BY <1>3, <1>4, WritePlain

\* What is shown is old: it is stored, or is a recipe of YAML.
LEMMA ShownIsOld ==
  ASSUME IInv, OriginInv, NEW n \in DOMAIN Shown
  PROVE  Shown[n].uid \in Uids \cup {NoUid} /\ Minted(Shown[n], writes)
  <1>1. Shown[n] = IF n \in DOMAIN store THEN store[n] ELSE YamlRecipe(n) BY DEF Shown, Visible
  <1>2. writes \in Nat /\ 0 \in 0 .. MaxWrites BY RecipeStoreAssumption DEF IInv, TypeOK
  <1>3. n \in DOMAIN store => store[n].uid \in Uids \cup {NoUid} /\ Minted(store[n], writes)
    BY DEF IInv, TypeOK, IsView, Recipe, OriginInv, AllMinted
  <1>4. n \notin DOMAIN store => n \in Names
    BY NamesOf, RecipeStoreAssumption DEF Shown, Visible
  <1>5. n \notin DOMAIN store => YamlRecipe(n).uid \in Uids
    BY <1>2, <1>4 DEF YamlRecipe, New, Uids
  <1> HIDE DEF Shown
  <1> QED BY <1>1, <1>2, <1>3, <1>5, YamlIsMinted

\* Every writer but save_pod_recipes writes recipes that are old or from no pod.
LEMMA WritersOrigin ==
  ASSUME IInv, OriginInv,
         \/ \E b \in Base : Create(b)
         \/ \E n \in Names : \E m \in {n} \cup PlainOf(Base) : Edit(n, m)
         \/ \E n \in Names : Delete(n)
         \/ ImportDone \/ ExportDone \/ FlowSaves
         \/ \E t \in seeds : SeedDone(t)
  PROVE  OriginInv' /\ NoPodMinted
  <1>0. IsView(store) /\ writes \in Nat BY DEF IInv, TypeOK
  <1>1. ASSUME writes < MaxWrites, NEW n \in Names
        PROVE  New(writes + 1, n).uid \in Uids \cup {NoUid} /\ OldOrNew(New(writes + 1, n))
    <2>1. writes + 1 \in 0 .. MaxWrites BY <1>1, NextUid
    <2>2. /\ New(writes + 1, n).uid = <<writes + 1, n>> /\ New(writes + 1, n).pod = "none"
          /\ New(writes + 1, n) \in Recipe
      BY <2>1, NewIsWhole
    <2> QED BY <2>2 DEF OldOrNew, Recipe
  <1>2. /\ \A n : DOMAIN Without(store, n) = DOMAIN store \ {n}
        /\ \A n : \A x \in DOMAIN store \ {n} : Without(store, n)[x] = store[x]
    BY DEF Without, Restrict
  <1>3. \A x \in DOMAIN store : store[x].uid \in Uids \cup {NoUid} /\ OldOrNew(store[x])
    BY <1>0 DEF IsView, Recipe, OriginInv, AllMinted, OldOrNew
  <1>4. ASSUME NEW b \in Base, Create(b) PROVE OriginInv' /\ NoPodMinted
    <2> DEFINE n == DedupeName(b, DOMAIN Mine)
    <2>1. /\ Write(With(store, n, New(writes + 1, n)), tombs \ {n}, seeded, gen, selected)
          /\ job' = job
      BY <1>4 DEF Create
    <2>2. n \in Names BY <1>4, DedupeFree DEF Create
    <2> HIDE DEF n
    <2>3. writes < MaxWrites BY <2>1, WriteEffect
    <2> QED BY <1>1, <2>1, <2>2, <2>3, WithOrigin
  <1>5. ASSUME ImportDone PROVE OriginInv' /\ NoPodMinted
    <2> DEFINE n == DedupeName(job.name[1], DOMAIN view[job.gen])
    <2>1. /\ Write(With(store, n, New(writes + 1, n)), tombs \ {n}, seeded, job.gen, selected)
          /\ job' = NoJob
      BY <1>5 DEF ImportDone
    <2>2. job.name[1] \in Base BY <1>5 DEF ImportDone, IInv, JobInv, PlainOf, Plain
    <2>3. n \in Names BY <1>5, <2>2, DedupeFree DEF ImportDone
    <2> HIDE DEF n
    <2>4. writes < MaxWrites BY <2>1, WriteEffect
    <2> QED BY <1>1, <2>1, <2>3, <2>4, WithOrigin
  <1>6. ASSUME NEW n \in Names, NEW m \in {n} \cup PlainOf(Base), Edit(n, m)
        PROVE  OriginInv' /\ NoPodMinted
    <2> DEFINE left == IF m = n THEN store ELSE Without(store, n)
               hidden == IF m = n THEN tombs ELSE (tombs \ {n}) \cup ({n} \cap PlainOf(Yaml))
               sel == IF selected = n THEN m ELSE selected
    <2>1. /\ n \in DOMAIN Mine /\ Write(With(left, m, Mine[n]), hidden \ {m}, seeded, gen, sel)
          /\ job' = job
      BY <1>6 DEF Edit, Found
    <2>2. Mine[n].uid \in Uids \cup {NoUid} /\ OldOrNew(Mine[n])
      BY <2>1 DEF Mine, IInv, TypeOK, IsView, Recipe, OriginInv, AllMinted, OldOrNew
    <2>3. DOMAIN left \in SUBSET DOMAIN store /\ \A x \in DOMAIN left : left[x] = store[x]
      BY <1>2
    <2> HIDE DEF left, hidden, sel
    <2> QED BY <2>1, <2>2, <2>3, WithOrigin
  <1>7. ASSUME NEW n \in Names, Delete(n) PROVE OriginInv' /\ NoPodMinted
    <2> DEFINE s == Without(store, n)
               t == (tombs \ {n}) \cup ({n} \cap PlainOf(Yaml))
               sel == IF selected = n THEN NoName ELSE selected
    <2>1. Write(s, t, seeded, gen, sel) /\ job' = job BY <1>7 DEF Delete
    <2>2. \A x \in DOMAIN s : s[x].uid \in Uids \cup {NoUid} /\ OldOrNew(s[x]) BY <1>2, <1>3
    <2> HIDE DEF s, t, sel
    <2> QED BY <2>1, <2>2, WritePlain
  <1>8. ASSUME ExportDone PROVE OriginInv' /\ NoPodMinted
    <2> DEFINE r == IF job.name \in DOMAIN store THEN store[job.name] ELSE job.raw
               ra == [r EXCEPT !.link = "account"]
    <2>1. /\ job.kind = "export" /\ job' = NoJob
          /\ Write(With(store, job.name, ra), tombs \ {job.name}, seeded, job.gen, selected)
      BY <1>8 DEF ExportDone
    <2>2. r \in Recipe /\ Minted(r, writes)
      BY <1>0, <2>1 DEF IInv, JobInv, IsView, OriginInv, AllMinted
    <2> HIDE DEF r
    <2>3. ra \in Recipe /\ ra.uid = r.uid /\ ra.link = "account" /\ ra.pod = r.pod
      BY <2>2 DEF Recipe, Links
    <2> HIDE DEF ra
    <2>4. ra.uid \in Uids \cup {NoUid} BY <2>3 DEF Recipe
    <2>5. OldOrNew(ra) BY <2>2, <2>3 DEF OldOrNew, Minted
    <2> QED BY <2>1, <2>4, <2>5, WithOrigin
  <1>9. ASSUME FlowSaves PROVE OriginInv' /\ NoPodMinted
    <2>1. ASSUME NEW b \in Base, FlowAdd(b) PROVE OriginInv' /\ NoPodMinted
      <3> DEFINE n == Plain(b)
      <3>1. Write(With(store, n, New(writes + 1, n)), {}, seeded, 0, selected) /\ job' = job
        BY <2>1 DEF FlowAdd
      <3>2. n \in Names BY RecipeStoreAssumption DEF Plain, Names
      <3> HIDE DEF n
      <3>3. writes < MaxWrites BY <3>1, WriteEffect
      <3> QED BY <1>1, <3>1, <3>2, <3>3, WithOrigin
    <2>2. ASSUME NEW n \in Names, NEW m \in {n} \cup PlainOf(Base), FlowEdit(n, m)
          PROVE  OriginInv' /\ NoPodMinted
      <3>1. /\ n \in DOMAIN Shown /\ job' = job
            /\ Write(With(Without(store, n), m, Shown[n]), {}, seeded, 0, selected)
        BY <2>2 DEF FlowEdit
      <3>2. Shown[n].uid \in Uids \cup {NoUid} /\ OldOrNew(Shown[n]) BY <3>1, ShownIsOld DEF OldOrNew
      <3> HIDE DEF Shown
      <3> QED BY <1>2, <3>1, <3>2, WithOrigin
    <2>3. ASSUME NEW n \in Names, FlowDelete(n) PROVE OriginInv' /\ NoPodMinted
      <3> DEFINE s == Without(store, n)
                 t == IF n \in DOMAIN store THEN {} ELSE {n}
      <3>1. Write(s, t, seeded, 0, selected) /\ job' = job BY <2>3 DEF FlowDelete
      <3>2. \A x \in DOMAIN s : s[x].uid \in Uids \cup {NoUid} /\ OldOrNew(s[x]) BY <1>2, <1>3
      <3> HIDE DEF s, t
      <3> QED BY <3>1, <3>2, WritePlain
    <2> QED BY <1>9, <2>1, <2>2, <2>3 DEF FlowSaves
  <1>10. ASSUME NEW t \in seeds, SeedDone(t) PROVE OriginInv' /\ NoPodMinted
    <2> DEFINE W == Wanted(t)
               s == [n \in DOMAIN store \cup W |-> IF n \in DOMAIN store THEN store[n] ELSE FromCloud(t, n)]
    <2>1. Write(s, tombs, seeded \cup Flags(t), t.gen, selected) /\ job' = job
      BY <1>10 DEF SeedDone
    <2>2. W \subseteq Names
      <3>1. Fetched(t) \subseteq Names BY NamesOf, RecipeStoreAssumption DEF Fetched
      <3> QED BY <3>1 DEF Wanted
    <2> HIDE DEF W
    <2>3. DOMAIN s = DOMAIN store \cup W
          /\ \A n \in DOMAIN s : s[n] = IF n \in DOMAIN store THEN store[n] ELSE FromCloud(t, n)
      OBVIOUS
    <2> HIDE DEF s
    <2>4. writes < MaxWrites BY <2>1, WriteEffect
    <2>5. writes + 1 \in 0 .. MaxWrites BY <2>4, NextUid
    <2>6. \A n : FromCloud(t, n).uid = <<writes + 1, n>> /\ FromCloud(t, n).pod = "none"
      BY DEF FromCloud, New
    <2>7. \A n \in W : FromCloud(t, n).uid \in Uids \cup {NoUid} /\ OldOrNew(FromCloud(t, n))
      <3>1. \A n : (FromCloud(t, n).uid)[1] = writes + 1 BY <2>6
      <3>2. \A n \in W : <<writes + 1, n>> \in Uids BY <2>2, <2>5 DEF Uids
      <3> QED BY <2>6, <3>1, <3>2 DEF OldOrNew
    <2>8. \A x \in DOMAIN s : s[x].uid \in Uids \cup {NoUid} /\ OldOrNew(s[x])
      BY <1>3, <2>3, <2>7
    <2> QED BY <2>1, <2>8, WritePlain
  <1> QED BY <1>4, <1>5, <1>6, <1>7, <1>8, <1>9, <1>10

\* save_pod_recipes mints a recipe from a pod, and keeps its share link.
LEMMA SavePodOrigin ==
  ASSUME IInv, OriginInv, NEW p \in Pods, SavePod(p)
  PROVE  OriginInv' /\ \A c \in DOMAIN Shown' : \/ Shown'[c].pod \in {"none", p}
                                                \/ (Shown'[c].uid)[1] <= writes
  <1> DEFINE n == DedupeName(PodName, DOMAIN Mine)
             r == FromPod(p, writes + 1, n)
             s == With(store, n, r)
  <1>1. Write(s, tombs \ {n}, seeded, gen, selected) /\ job' = job BY DEF SavePod
  <1>2. n \in Names BY DedupeFree, RecipeStoreAssumption DEF SavePod
  <1> HIDE DEF n
  <1>3. writes < MaxWrites /\ Shown' = Visible(s, tombs \ {n})
    <2> HIDE DEF s, Shown
    <2> QED BY <1>1, WriteEffect
  <1>4. writes \in Nat /\ writes + 1 \in 0 .. MaxWrites BY <1>3, NextUid DEF IInv, TypeOK
  <1>5. /\ r.uid = <<writes + 1, n>> /\ r.pod = p /\ (p = "linked" => r.link = "pod")
    BY <1>2, <1>4, FromPodIsWhole
  <1> HIDE DEF r
  <1>6. Minted(r, writes + 1) BY <1>4, <1>5 DEF Minted
  <1>7. DOMAIN s = DOMAIN store \cup {n} /\ s[n] = r /\ \A x \in DOMAIN store \ {n} : s[x] = store[x]
    BY DEF With
  <1> HIDE DEF s
  <1>8. \A x \in DOMAIN store : store[x].uid \in Uids \cup {NoUid} /\ Minted(store[x], writes)
    BY DEF IInv, TypeOK, IsView, Recipe, OriginInv, AllMinted
  <1>9. \A x \in DOMAIN store : Minted(store[x], writes + 1) BY <1>4, <1>8, MintedLater
  <1>10. \A x \in DOMAIN s : Minted(s[x], writes + 1) BY <1>6, <1>7, <1>9
  <1>11. OriginInv' BY <1>1, <1>10, WriteOrigin
  <1>12. \A x \in DOMAIN s : s[x].pod = p \/ (s[x].uid)[1] <= writes
    BY <1>5, <1>7, <1>8 DEF Minted
  <1>13. \A x \in DOMAIN Shown' : Shown'[x] = IF x \in DOMAIN s THEN s[x] ELSE YamlRecipe(x)
    BY <1>3 DEF Visible
  <1> HIDE DEF Shown
  <1>14. \A x \in DOMAIN Shown' : Shown'[x].pod \in {"none", p} \/ (Shown'[x].uid)[1] <= writes
    BY <1>4, <1>12, <1>13, YamlIsMinted
  <1> QED BY <1>11, <1>14

LEMMA SetupOrigin ==
  ASSUME IInv, OriginInv, SetupBegins
  PROVE  OriginInv' /\ NoPodMinted
  <1>0. writes \in Nat /\ gen \in Gens BY DEF IInv, TypeOK
  <1>1. /\ store' = Seeded /\ view' = [view EXCEPT ![gen] = Visible(store', tombs)]
        /\ UNCHANGED <<tombs, job>>
        /\ writes' = IF store' = store THEN writes ELSE writes + 1
    BY DEF SetupBegins
  <1>2. writes' \in Nat /\ writes <= writes' /\ (store' # store => writes' = writes + 1)
    BY <1>0, <1>1
  <1>3. \A x \in DOMAIN store : store[x].uid \in Uids \cup {NoUid} /\ Minted(store[x], writes)
    BY DEF IInv, TypeOK, IsView, Recipe, OriginInv, AllMinted
  <1>4. \A x \in DOMAIN store' : /\ Minted(store'[x], writes')
                                 /\ store'[x].pod = "none" \/ (store'[x].uid)[1] <= writes
    <2>1. CASE store' = store
      <3>1. \A x \in DOMAIN store : Minted(store[x], writes') BY <1>0, <1>2, <1>3, MintedLater
      <3> QED BY <1>3, <2>1, <3>1 DEF Minted
    <2>2. CASE store' # store
      <3>1. store' = [n \in PlainOf(Bundled) |-> New(writes + 1, n)] BY <1>1, <2>2 DEF Seeded
      <3>2. \A n : New(writes + 1, n).uid = <<writes + 1, n>> /\ New(writes + 1, n).pod = "none"
        BY DEF New
      <3>3. \A n : (New(writes + 1, n).uid)[1] = writes + 1 BY <3>2
      <3>4. \A n : Minted(New(writes + 1, n), writes') BY <1>0, <1>2, <2>2, <3>2, <3>3 DEF Minted
      <3>5. DOMAIN store' = PlainOf(Bundled) /\ \A n \in DOMAIN store' : store'[n] = New(writes + 1, n)
        BY <3>1
      <3> QED BY <3>2, <3>4, <3>5
    <2> QED BY <2>1, <2>2
  <1>5. /\ DOMAIN Visible(store', tombs) = DOMAIN Shown'
        /\ \A x \in DOMAIN Shown' : Shown'[x] = IF x \in DOMAIN store' THEN store'[x] ELSE YamlRecipe(x)
        /\ Shown' = Visible(store', tombs)
    BY <1>1 DEF Shown, Visible
  <1> HIDE DEF Shown
  <1>6. \A x : YamlRecipe(x).pod = "none" /\ Minted(YamlRecipe(x), writes') BY <1>2, YamlIsMinted
  <1>7. NoPodMinted BY <1>4, <1>5, <1>6 DEF NoPodMinted
  <1>8. AllMinted(Shown', writes') BY <1>4, <1>5, <1>6 DEF AllMinted
  <1>9. \A g \in Gens : AllMinted(view[g], writes')
    <2> SUFFICES ASSUME NEW g \in Gens, NEW n \in DOMAIN view[g]
                 PROVE  Minted(view[g][n], writes')
      BY DEF AllMinted
    <2>1. view[g][n].uid \in Uids \cup {NoUid} /\ Minted(view[g][n], writes)
      BY DEF IInv, TypeOK, IsView, Recipe, OriginInv, AllMinted
    <2> QED BY <1>0, <1>2, <2>1, MintedLater
  <1>10. \A g \in Gens : view'[g] \in {view[g], Shown'} BY <1>1, <1>5 DEF IInv
  <1>11. \A g \in Gens : AllMinted(view'[g], writes') BY <1>8, <1>9, <1>10
  <1>12. job'.kind = "export" => Minted(job'.raw, writes')
    <2> SUFFICES ASSUME job.kind = "export" PROVE Minted(job.raw, writes') BY <1>1
    <2>1. job.raw.uid \in Uids \cup {NoUid} BY DEF IInv, JobInv, Recipe
    <2> QED BY <1>0, <1>2, <2>1, MintedLater DEF OriginInv
  <1>13. AllMinted(store', writes') BY <1>4 DEF AllMinted
  <1> QED BY <1>7, <1>11, <1>12, <1>13 DEF OriginInv

LEMMA MigrateOrigin ==
  ASSUME IInv, OriginInv, Migrate
  PROVE  OriginInv' /\ NoPodMinted
  <1>1. UNCHANGED <<view, job, writes>> /\ version \in {1, 2} BY DEF Migrate, IInv, TypeOK
  <1>2. writes \in Nat /\ 1 <= writes /\ \A x \in DOMAIN store : store[x] \in Recipe
    BY DEF IInv, TypeOK, IsView
  <1>3. \A x \in DOMAIN store : Minted(store[x], writes) BY DEF OriginInv, AllMinted
  <1>4. ASSUME NEW x \in DOMAIN store
        PROVE  Minted(V1toV2(store[x]), writes) /\ Minted(V2toV3(store[x], x), writes)
    <2> DEFINE r == store[x]
    <2>1. r \in Recipe /\ Minted(r, writes) BY <1>2, <1>3
    <2> HIDE DEF r
    <2>2. V1toV2(r).uid = r.uid /\ V1toV2(r).pod = r.pod /\ V1toV2(r).link = r.link
      BY <2>1 DEF V1toV2, Recipe
    <2>3. /\ V2toV3(r, x).uid \in {r.uid, <<1, x>>}
          /\ V2toV3(r, x).pod = r.pod /\ V2toV3(r, x).link = r.link
      BY <2>1 DEF V2toV3, Recipe
    <2>4. <<1, x>>[1] <= writes BY <1>2
    <2>5. Minted(V1toV2(r), writes) /\ Minted(V2toV3(r, x), writes)
      BY <2>1, <2>2, <2>3, <2>4 DEF Minted
    <2> QED BY <2>5 DEF r
  <1>5. /\ DOMAIN store' = DOMAIN store
        /\ \A x \in DOMAIN store : store'[x] \in {V1toV2(store[x]), V2toV3(store[x], x)}
    <2>1. CASE store' = [n \in DOMAIN store |-> V1toV2(store[n])] BY <2>1
    <2>2. CASE store' = [n \in DOMAIN store |-> V2toV3(store[n], n)] BY <2>2
    <2> QED BY <2>1, <2>2 DEF Migrate
  <1>6. AllMinted(store', writes) BY <1>4, <1>5 DEF AllMinted
  <1>7. \A x \in DOMAIN Shown' : Shown'[x] = IF x \in DOMAIN store' THEN store'[x] ELSE YamlRecipe(x)
    BY DEF Shown, Visible
  <1>8. \A x : YamlRecipe(x).pod = "none" BY DEF YamlRecipe, New
  <1> HIDE DEF Shown
  <1>9. NoPodMinted BY <1>6, <1>7, <1>8 DEF NoPodMinted, AllMinted, Minted
  <1> QED BY <1>1, <1>6, <1>9 DEF OriginInv

LEMMA OriginInit == Init => OriginInv
  <1> SUFFICES ASSUME Init PROVE OriginInv OBVIOUS
  <1>1. /\ writes = 1 /\ view = [g \in Gens |-> Nothing] /\ job = NoJob BY DEF Init
  <1>2. \A g \in Gens : AllMinted(view[g], writes) BY <1>1 DEF AllMinted, Nothing
  <1>3. AllMinted(store, writes)
    <2>1. ASSUME NEW old, store = [n \in old |-> [YamlRecipe(n) EXCEPT
                                      !.uid = IF version = 3 THEN <<1, n>> ELSE NoUid,
                                      !.fields = IF version = 1 THEN 1 ELSE 2]]
          PROVE  AllMinted(store, writes)
      <3>1. \A n \in old : store[n].uid \in {<<1, n>>, NoUid} /\ store[n].pod = "none"
        <4> TAKE n \in old
        <4> DEFINE u == IF version = 3 THEN <<1, n>> ELSE NoUid
                   f == IF version = 1 THEN 1 ELSE 2
        <4>1. store[n] = [YamlRecipe(n) EXCEPT !.uid = u, !.fields = f] BY <2>1
        <4>2. u \in {<<1, n>>, NoUid} OBVIOUS
        <4> HIDE DEF u, f
        <4> QED BY <4>1, <4>2 DEF YamlRecipe, New
      <3>2. \A n : <<1, n>>[1] <= 1 /\ NoUid[1] <= 1 BY DEF NoUid
      <3>3. \A n \in old : (store[n].uid)[1] <= 1 BY <3>1, <3>2
      <3> QED BY <1>1, <2>1, <3>1, <3>3 DEF AllMinted, Minted
    <2>2. ASSUME store = [n \in {Plain(PodName)} |-> FromPod("linked", 1, n)]
          PROVE  AllMinted(store, writes)
      <3>1. \A n : FromPod("linked", 1, n).uid = <<1, n>> /\ FromPod("linked", 1, n).link = "pod"
        BY DEF FromPod, New
      <3>2. \A n : (FromPod("linked", 1, n).uid)[1] <= 1 BY <3>1
      <3> QED BY <1>1, <2>2, <3>1, <3>2 DEF AllMinted, Minted
    <2> QED BY <2>1, <2>2 DEF Init
  <1> QED BY <1>1, <1>2, <1>3 DEF OriginInv, NoJob

\* No step but save_pod_recipes shows a recipe it minted from a pod.
LEMMA OriginStep ==
  ASSUME IInv, OriginInv, [Next]_vars
  PROVE  OriginInv' /\ (entry' = entry \/ NoPodMinted \/ \E p \in Pods : SavePod(p))
  <1>1. CASE \/ \E b \in Base : Create(b)
             \/ \E n \in Names : \E m \in {n} \cup PlainOf(Base) : Edit(n, m)
             \/ \E n \in Names : Delete(n)
             \/ ImportDone \/ ExportDone \/ FlowSaves
             \/ \E t \in seeds : SeedDone(t)
    BY <1>1, WritersOrigin
  <1>2. CASE \E p \in Pods : SavePod(p) BY <1>2, SavePodOrigin
  <1>3. CASE SetupBegins BY <1>3, SetupOrigin
  <1>4. CASE Migrate BY <1>4, MigrateOrigin
  <1>5. CASE \E n \in Names : ExportBegin(n)
    <2>1. PICK n \in Names : ExportBegin(n) BY <1>5
    <2>2. /\ n \in DOMAIN Mine /\ job'.raw = Mine[n] /\ gen \in Gens
          /\ UNCHANGED <<entry, view, writes>>
      BY <2>1 DEF ExportBegin, Found, IInv, TypeOK
    <2>3. Minted(job'.raw, writes) BY <2>2 DEF Mine, OriginInv, AllMinted
    <2> QED BY <2>2, <2>3 DEF OriginInv, entry
  <1>6. CASE \/ \E n \in Names : Select(n)
             \/ \E b \in Base : ImportBegin(b)
             \/ CloudFails
             \/ \E t \in seeds : SeedFails(t)
             \/ Snapshot \/ SetupDone \/ UNCHANGED vars
    <2>1. UNCHANGED <<entry, view, writes>>
      BY <1>6 DEF Select, ImportBegin, CloudFails, SeedFails, Snapshot, SetupDone, vars
    <2>2. ASSUME NEW b, ImportBegin(b) PROVE job'.kind # "export" BY <2>2 DEF ImportBegin, NoJob
    <2>3. CloudFails => job'.kind # "export" BY DEF CloudFails, NoJob
    <2>4. job' = job \/ job'.kind # "export"
      BY <1>6, <2>2, <2>3 DEF Select, SeedFails, Snapshot, SetupDone, vars
    <2> QED BY <2>1, <2>4 DEF OriginInv, entry
  <1>7. CASE SetAccount \/ Reload \/ Restart
    <2>1. UNCHANGED <<entry, writes>> /\ (job' = job \/ job'.kind # "export")
      BY <1>7 DEF SetAccount, Reload, Restart, NoJob
    <2>2. AllMinted(Nothing, writes) BY DEF AllMinted, Nothing
    <2>3. AllMinted(Shown, writes) BY ShownIsOld DEF AllMinted
    <2>4. \A g \in Gens : view'[g] \in {view[g], Nothing, Shown}
      BY <1>7 DEF SetAccount, Reload, Restart, Unload, IInv
    <2> HIDE DEF Shown
    <2>5. \A g \in Gens : AllMinted(view'[g], writes) BY <2>2, <2>3, <2>4 DEF OriginInv
    <2> QED BY <2>1, <2>5 DEF OriginInv, entry
  <1> QED BY <1>1, <1>2, <1>3, <1>4, <1>5, <1>6, <1>7 DEF Next

\* What is shown is a recipe.
LEMMA VisibleTyped ==
  ASSUME NEW s, IsView(s), NEW t, NEW n \in DOMAIN Visible(s, t)
  PROVE  Visible(s, t)[n].uid \in Uids \cup {NoUid} /\ Visible(s, t)[n].link \in Links
  <1>1. Visible(s, t)[n] = IF n \in DOMAIN s THEN s[n] ELSE YamlRecipe(n) BY DEF Visible
  <1>2. n \in DOMAIN s => s[n] \in Recipe BY DEF IsView
  <1>3. n \notin DOMAIN s => n \in Names
    BY NamesOf, RecipeStoreAssumption DEF Visible
  <1>4. 0 \in 0 .. MaxWrites BY RecipeStoreAssumption
  <1>5. n \notin DOMAIN s => YamlRecipe(n) \in Recipe BY <1>3, <1>4, NewIsWhole DEF YamlRecipe
  <1> HIDE DEF Visible
  <1> QED BY <1>1, <1>2, <1>5 DEF Recipe

\* Only async_setup_entry sets the entry up.
LEMMA SetsUp ==
  ASSUME IInv, [Next]_vars, phase = "boot", phase' = "setup"
  PROVE  SetupBegins
  <1>1. ASSUME NEW s, NEW t, NEW sd, NEW w, NEW sel, Write(s, t, sd, w, sel)
        PROVE  FALSE
    BY <1>1, WriteViews
  <1>2. ~(\/ Migrate \/ Snapshot \/ SetupDone \/ SetAccount \/ Reload \/ Restart
          \/ UNCHANGED <<version, entry, phase, gen, view, writes, history>> \/ UNCHANGED vars)
    BY DEF Migrate, Snapshot, SetupDone, SetAccount, Idle, Reload, Restart, Unload, vars
  <1> QED BY <1>1, <1>2, StepKinds

-----------------------------------------------------------------------------
(* The theorems about steps *)

\* A name that went once a seeding was over is never brought back by it, and no
\* recipe that is gone comes back but by the writers NoResurrection names
\* (async_seed_recipes, delete_local_recipe).
THEOREM GoneStaysGone == Spec => NoResurrection
  <1>1. ASSUME IInv, GoneInv, [Next]_vars
        PROVE  [version = 3 /\ entry' # entry =>
                  /\ \A p \in gone : SeedsNow(p[2]) => p[1] \notin DOMAIN Shown'
                  /\ \/ \A u \in UidsOf(Shown') : u \in UidsOf(Shown) \/ u[1] > writes
                     \/ FlowSaves \/ ExportsCopy \/ WritesBehind]_vars
    <2>1. ASSUME NEW p \in gone, SeedsNow(p[2]), entry' # entry
          PROVE  p[1] \notin DOMAIN Shown'
      <3>1. Over(p[2]) /\ p[1] \notin DOMAIN Shown BY <1>1 DEF GoneInv
      <3>2. p[2] = "initial" /\ phase = "boot" /\ phase' = "setup"
        BY <2>1, <3>1 DEF SeedsNow, Over
      <3>3. SetupBegins BY <1>1, <3>2, SetsUp
      <3>4. store' = store /\ tombs' = tombs BY <3>1, <3>2, <3>3 DEF SetupBegins, Seeded, Over
      <3>5. Shown' = Shown BY <3>4 DEF Shown
      <3> HIDE DEF Shown
      <3> QED BY <3>1, <3>5
    <2>2. ASSUME version = 3, entry' # entry, ~FlowSaves, ~ExportsCopy, ~WritesBehind
          PROVE  \A u \in UidsOf(Shown') : u \in UidsOf(Shown) \/ u[1] > writes
      <3>1. NoneBack BY <1>1, <2>2, StepEffect
      <3> HIDE DEF Shown
      <3> QED BY <3>1 DEF NoneBack, UidsOf
    <2> QED BY <2>1, <2>2
  <1>2. Init => GoneInv BY DEF Init, GoneInv
  <1> QED BY <1>1, <1>2, InitHolds, StepHolds, GoneStep, PTL DEF Spec, NoResurrection

\* No recipe that is shown disappears unless it is deleted, but for a YAML recipe
\* the bundled seed covers, whatever the tasks of old coordinators overlap with.
THEOREM NoneDisappears == Spec => NothingLost
  <1>1. ASSUME IInv, [Next]_vars
        PROVE  [version = 3 /\ entry' # entry => \A u \in UidsOf(Shown) \ UidsOf(Shown') :
                  \/ \E n \in Names : Delete(n) /\ Shown[n].uid = u
                  \/ SetupBegins /\ \E n \in PlainOf(Bundled \cap Yaml) : u = YamlRecipe(n).uid
                  \/ FlowSaves \/ ExportsCopy \/ WritesBehind]_vars
    <2> SUFFICES ASSUME version = 3, entry' # entry, ~FlowSaves, ~ExportsCopy, ~WritesBehind,
                        NEW u \in UidsOf(Shown) \ UidsOf(Shown')
                 PROVE  \/ \E n \in Names : Delete(n) /\ Shown[n].uid = u
                        \/ SetupBegins /\ \E n \in PlainOf(Bundled \cap Yaml) : u = YamlRecipe(n).uid
      OBVIOUS
    <2>1. \/ Kept({}) \/ \E n \in Names : Delete(n) /\ Kept({n})
          \/ /\ SetupBegins /\ Kept(PlainOf(Bundled \cap Yaml))
             /\ \A n \in PlainOf(Bundled \cap Yaml) \cap DOMAIN Shown : Shown[n] = YamlRecipe(n)
      BY <1>1, StepEffect
    <2> HIDE DEF Shown
    <2>2. PICK x \in DOMAIN Shown : Shown[x].uid = u BY DEF UidsOf
    <2>3. \A m \in DOMAIN Shown' : Shown'[m].uid # u BY DEF UidsOf
    <2>4. \A lost : Kept(lost) => x \in lost BY <2>2, <2>3 DEF Kept
    <2> QED BY <2>1, <2>2, <2>4
  <1> QED BY <1>1, InitHolds, StepHolds, PTL DEF Spec, NothingLost

\* The selected recipe stays the same recipe until another is selected or it is
\* deleted: edits and renames carry the selection along.
THEOREM SelectionIsKept == Spec => SelectionFollows
  <1>1. ASSUME IInv, [Next]_vars
        PROVE  [(selected \in DOMAIN Shown /\ selected' # NoName) =>
                  \/ /\ selected' \in DOMAIN Shown'
                     /\ (Shown'[selected']).uid = Shown[selected].uid
                  \/ \E n \in Names : Select(n)
                  \/ FlowSaves \/ ExportsCopy
                  \/ WritesBehind]_vars
    <2> SUFFICES ASSUME selected \in DOMAIN Shown, selected' # NoName, ~FlowSaves, ~ExportsCopy,
                        ~WritesBehind, ~(\E n \in Names : Select(n))
                 PROVE  selected' \in DOMAIN Shown' /\ (Shown'[selected']).uid = Shown[selected].uid
      OBVIOUS
    <2>1. Followed \/ (entry' = entry /\ selected' = selected) BY <1>1, StepEffect
    <2>2. CASE Followed BY <2>2 DEF Followed
    <2>3. CASE entry' = entry /\ selected' = selected
      <3>1. Shown' = Shown BY <2>3 DEF Shown, entry
      <3> QED BY <2>3, <3>1
    <2> QED BY <2>1, <2>2, <2>3
  <1> QED BY <1>1, InitHolds, StepHolds, PTL DEF Spec, SelectionFollows

\* A pod's recipe is saved again only when every copy of it has lost what
\* save_pod_recipes knows it by: the pod's share link to an export, or its name.
THEOREM PodIsSavedOnce == Spec => PodSavedOnce
  <1>1. ASSUME IInv, OriginInv, [Next]_vars
        PROVE  [entry' # entry =>
                  \A p \in Pods : (\E c \in Copies(p, Shown') \ Copies(p, Shown) : c.uid[1] > writes) =>
                     \/ p = "linked" /\ \A c \in Copies(p, Shown) : c.link = "account"
                     \/ p = "plain" /\ \A n \in DOMAIN Shown : Shown[n].pod = p => n # Plain(PodName)
                     \/ WritesBehind]_vars
    <2> SUFFICES ASSUME entry' # entry, NEW p \in Pods, NEW c \in Copies(p, Shown') \ Copies(p, Shown),
                        c.uid[1] > writes, ~WritesBehind
                 PROVE  \/ p = "linked" /\ \A d \in Copies(p, Shown) : d.link = "account"
                        \/ p = "plain" /\ \A n \in DOMAIN Shown : Shown[n].pod = p => n # Plain(PodName)
      OBVIOUS
    <2>0. p # "none" /\ p \in {"linked", "plain"} BY DEF Pods
    <2>1. PICK m \in DOMAIN Shown' : Shown'[m] = c /\ c.pod = p BY DEF Copies
    <2>2. writes \in Nat /\ c.uid \in Uids \cup {NoUid}
      <3>1. IsView(store') BY <1>1, StepHolds DEF IInv, TypeOK
      <3>2. Shown' = Visible(store', tombs') BY DEF Shown
      <3> QED BY <1>1, <2>1, <3>1, <3>2, VisibleTyped DEF IInv, TypeOK
    <2>3. ~((c.uid)[1] <= writes)
      <3>1. (c.uid)[1] \in Nat BY <2>2 DEF Uids, NoUid
      <3> QED BY <2>2, <3>1
    <2>4. ~NoPodMinted
      <3> HIDE DEF Shown
      <3> QED BY <2>0, <2>1, <2>3 DEF NoPodMinted
    <2>5. PICK q \in Pods : SavePod(q) BY <1>1, <2>4, OriginStep
    <2>6. q = p
      <3>1. \A x \in DOMAIN Shown' : Shown'[x].pod \in {"none", q} \/ (Shown'[x].uid)[1] <= writes
        BY <1>1, <2>5, SavePodOrigin
      <3> HIDE DEF Shown
      <3> QED BY <2>0, <2>1, <2>3, <3>1
    <2>7. Mine = Shown BY <2>5 DEF WritesBehind, Behind, Mine
    <2>8. ~Known(p) BY <2>5, <2>6 DEF SavePod
    <2>9. \A n \in DOMAIN Shown : Shown[n].link \in Links /\ Minted(Shown[n], writes)
      BY <1>1, ShownIsOld, VisibleTyped DEF Shown, IInv, TypeOK
    <2> HIDE DEF Shown
    <2>10. CASE p = "linked"
      <3>1. \A n \in DOMAIN Shown : Shown[n].link # "pod" BY <2>7, <2>8, <2>10 DEF Known
      <3> QED BY <2>9, <2>10, <3>1 DEF Copies, Minted, Links
    <2>11. CASE p = "plain"
      <3>1. \A n \in DOMAIN Shown : ~(Shown[n].pod # "none" /\ n = Plain(PodName))
        BY <2>7, <2>8, <2>11 DEF Known
      <3> QED BY <2>11, <3>1
    <2> QED BY <2>0, <2>10, <2>11
  <1> QED BY <1>1, InitHolds, StepHolds, OriginInit, OriginStep, PTL DEF Spec, PodSavedOnce

\* Once the entry is set up and nothing was written unseen during its setup, its
\* coordinator shows what is stored, whoever wrote it (async_update_listener).
THEOREM ViewIsLive == Spec => []UpdatesShown
  <1>1. Init => LiveInv BY DEF Init, LiveInv
  <1>2. LiveInv => UpdatesShown BY DEF LiveInv, UpdatesShown, Mine
  <1> QED BY <1>1, <1>2, InitHolds, StepHolds, LiveStep, PTL DEF Spec
=============================================================================
