--------------------------- MODULE EntitiesProofs ---------------------------
(***************************************************************************)
(* Proofs about Entities, for any names, recipes and requests, and         *)
(* whatever names are alike.                                               *)
(***************************************************************************)
EXTENDS Entities, TLAPS

(* Beside nobody, a request remembers all there is of what it has read. *)
CalmCache ==
  \A q \in Requests : req[q].calm =>
    \A e \in mealie : Kind(e) \in req[q].read => e \in req[q].cache

(* A name that was refused would be refused again. *)
ConflictsStand ==
  \A q \in Requests : req[q].pc = "conflict" =>
    req[q].name \in Names /\ Refuses(req[q].name)

(* Nothing of a recipe is passed over, and only upgrades go on to patch. *)
Resolved ==
  \A q \in Requests :
    /\ req[q].pc # "idle" =>
         \A n \in Uses(req[q].recipe) : n \in req[q].todo \/ req[q].found[n] # None
    /\ req[q].pc \in {"patch", "verify", "rollback"} =>
         req[q].todo = {} /\ req[q].op = "upgrade"

(* The links of a recipe are there, and its foods are of its own names. *)
Kept(links, r) ==
  \A n \in Uses(r) :
    /\ links[n] # None
    /\ Kind(n) = "food" => Key(links[n]) = Key(n)

Upgrades(q, r) == req[q].op = "upgrade" /\ req[q].recipe = r

UpgradesAlone ==
  \A r \in Text \ disturbed : \A p, q \in Requests :
    Upgrades(p, r) /\ Upgrades(q, r) => p = q

(* An upgrade of a recipe reported before can put back what was reported. *)
KeptMeanwhile ==
  \A r \in reported \ disturbed : \A q \in Requests : Upgrades(q, r) =>
    /\ Kept(req[q].before, r)
    /\ req[q].pc \notin {"verify", "rollback"} => Kept(recipe[r], r)

(* The inductive invariant. *)
EntitiesInvariant ==
  /\ TypeOK
  /\ CalmCache
  /\ ConflictsStand
  /\ Resolved
  /\ UpgradesAlone
  /\ KeptMeanwhile
  /\ UpgradeIsKept

-----------------------------------------------------------------------------
LEMMA EntitiesInit == Init => EntitiesInvariant
<1> SUFFICES ASSUME Init PROVE EntitiesInvariant
  OBVIOUS
<1>1. TypeOK
  BY EntitiesAssumption DEF Init, TypeOK, Links, NoLinks, Idle
<1>2. CalmCache /\ ConflictsStand /\ Resolved
  BY DEF Init, CalmCache, ConflictsStand, Resolved, Idle
<1>3. UpgradesAlone /\ KeptMeanwhile /\ UpgradeIsKept
  BY DEF Init, UpgradesAlone, KeptMeanwhile, UpgradeIsKept, Upgrades, Idle
<1> QED
  BY <1>1, <1>2, <1>3 DEF EntitiesInvariant

(* Entities are added, never taken away: what was refused stays refused. *)
LEMMA RefusalsStand ==
  ASSUME NEW n \in Names, Refuses(n), mealie \subseteq mealie'
  PROVE  Refuses(n)'
BY DEF Refuses, InTheWay, OfKind

(***************************************************************************)
(* A step of the resolution: the request q becomes x, the others at most   *)
(* cease to be calm, and no recipe changes.                                *)
(***************************************************************************)
LEMMA ResolutionKeepsInvariant ==
  ASSUME EntitiesInvariant, NEW q \in Requests, NEW x \in Request \cup {Idle},
         req'[q] = x,
         req' \in [Requests -> Request \cup {Idle}],
         \A p \in Requests \ {q} :
           /\ req'[p].op = req[p].op /\ req'[p].pc = req[p].pc
           /\ req'[p].recipe = req[p].recipe /\ req'[p].name = req[p].name
           /\ req'[p].todo = req[p].todo /\ req'[p].read = req[p].read
           /\ req'[p].cache = req[p].cache /\ req'[p].found = req[p].found
           /\ req'[p].before = req[p].before
           /\ req'[p].calm => req[p].calm
           /\ mealie' = mealie \/ ~req'[p].calm \/ req[p].read = {},
         UNCHANGED <<recipe, reported, disturbed>>,
         mealie \subseteq mealie', mealie' \subseteq Names, x.cache \subseteq mealie',
         x.calm => \A e \in mealie' : Kind(e) \in x.read => e \in x.cache,
         x.pc = "conflict" => x.name \in Names /\ Refuses(x.name)',
         x.pc # "idle" => \A n \in Uses(x.recipe) : n \in x.todo \/ x.found[n] # None,
         x.pc = "patch" => x.todo = {} /\ x.op = "upgrade",
         x = Idle \/ (x.op = req[q].op /\ x.recipe = req[q].recipe /\ x.before = req[q].before),
         req[q].pc \notin {"verify", "rollback"}, x.pc \notin {"verify", "rollback"}
  PROVE  EntitiesInvariant'
<1> USE DEF EntitiesInvariant
<1>1. Idle.op = "idle" /\ Idle.recipe = None /\ None \notin Text
  BY EntitiesAssumption DEF Idle
<1>2. TypeOK'
  BY <1>1 DEF TypeOK
<1>3. CalmCache'
  BY DEF CalmCache
<1>4. ConflictsStand'
  BY RefusalsStand DEF ConflictsStand
<1>5. Resolved'
  BY DEF Resolved
<1>6. \A r \in Text, p \in Requests : Upgrades(p, r)' => Upgrades(p, r)
  BY <1>1 DEF Upgrades
<1>7. UpgradesAlone'
  BY <1>6 DEF UpgradesAlone
<1>8. KeptMeanwhile'
  <2>1. \A r \in Text, p \in Requests : Upgrades(p, r)' =>
          req'[p].before = req[p].before
          /\ (req'[p].pc \in {"verify", "rollback"} <=> req[p].pc \in {"verify", "rollback"})
    BY <1>1 DEF Upgrades
  <2>2. reported \subseteq Text
    BY DEF TypeOK
  <2> QED
    BY <1>6, <2>1, <2>2 DEF KeptMeanwhile, Kept
<1>9. UpgradeIsKept'
  BY DEF UpgradeIsKept
<1> QED
  BY <1>2, <1>3, <1>4, <1>5, <1>7, <1>8, <1>9

(* A request that goes on with the resolution knows what it resolves. *)
LEMMA ResolvingTypes ==
  ASSUME EntitiesInvariant, NEW q \in Requests, req[q].pc \in {"resolve", "conflict"}
  PROVE  /\ req[q] \in Request
         /\ req[q].recipe \in Recipes /\ req[q].todo \in SUBSET Names
         /\ req[q].read \in SUBSET Kinds /\ req[q].cache \in SUBSET Names
         /\ req[q].found \in Links /\ req[q].before \in Links /\ req[q].calm \in BOOLEAN
         /\ req[q].op \in {"import", "upgrade"} /\ req[q].cache \subseteq mealie
         /\ \A n \in Uses(req[q].recipe) : n \in req[q].todo \/ req[q].found[n] # None
<1>1. req[q] \in Request
  BY DEF EntitiesInvariant, TypeOK, Idle
<1> QED
  BY <1>1 DEF Request, EntitiesInvariant, TypeOK, Resolved

(***************************************************************************)
(* When an entity is added, the requests in progress cease to be calm, but *)
(* for q that adds it, and are left as they are otherwise.                 *)
(***************************************************************************)
LEMMA AddedDisturbs ==
  ASSUME TypeOK, NEW n \in Names, NEW q, NEW p \in Requests, p # q
  PROVE  LET r == Added(n, q)[p] IN
         /\ r \in Request \cup {Idle}
         /\ r.op = req[p].op /\ r.pc = req[p].pc
         /\ r.recipe = req[p].recipe /\ r.name = req[p].name
         /\ r.todo = req[p].todo /\ r.read = req[p].read
         /\ r.cache = req[p].cache /\ r.found = req[p].found
         /\ r.before = req[p].before
         /\ r.calm => req[p].calm
         /\ ~r.calm \/ req[p].read = {}
<1>1. CASE req[p] = Idle
  <2>1. Added(n, q)[p] = Idle
    BY <1>1 DEF Added
  <2> QED
    BY <1>1, <2>1 DEF Idle
<1>2. CASE req[p] # Idle
  <2>1. req[p] \in Request
    BY <1>2 DEF TypeOK
  <2>2. Added(n, q)[p] = [req[p] EXCEPT !.calm = FALSE]
    BY <1>2, Zenon DEF Added
  <2> QED
    BY <2>1, <2>2 DEF Request
<1> QED
  BY <1>1, <1>2

(***************************************************************************)
(* The steps of the resolution.                                            *)
(***************************************************************************)
LEMMA AddByHandKeepsInvariant ==
  ASSUME EntitiesInvariant, NEW n \in Names, AddByHand(n)
  PROVE  EntitiesInvariant'
<1> USE DEF EntitiesInvariant
<1>1. \A p \in Requests : None # p
  BY EntitiesAssumption
<1>2. req' = Added(n, None) /\ mealie' = mealie \cup {n}
      /\ UNCHANGED <<recipe, reported, disturbed>>
  BY DEF AddByHand
<1>3. \A p \in Requests :
        /\ req'[p] \in Request \cup {Idle}
        /\ req'[p].op = req[p].op /\ req'[p].pc = req[p].pc
        /\ req'[p].recipe = req[p].recipe /\ req'[p].name = req[p].name
        /\ req'[p].todo = req[p].todo /\ req'[p].read = req[p].read
        /\ req'[p].cache = req[p].cache /\ req'[p].found = req[p].found
        /\ req'[p].before = req[p].before
        /\ req'[p].calm => req[p].calm
        /\ ~req'[p].calm \/ req[p].read = {}
  BY <1>1, <1>2, AddedDisturbs
<1>4. req' \in [Requests -> Request \cup {Idle}]
  BY <1>2, <1>3 DEF Added
<1>5. TypeOK'
  BY <1>2, <1>3, <1>4 DEF TypeOK
<1>6. CalmCache'
  BY <1>2, <1>3 DEF CalmCache
<1>7. ConflictsStand'
  BY <1>2, <1>3, RefusalsStand DEF ConflictsStand
<1>8. Resolved'
  BY <1>2, <1>3 DEF Resolved
<1>9. \A r, p : p \in Requests => (Upgrades(p, r)' <=> Upgrades(p, r))
  BY <1>3 DEF Upgrades
<1>10. UpgradesAlone'
  BY <1>2, <1>9 DEF UpgradesAlone
<1>11. KeptMeanwhile'
  BY <1>2, <1>3, <1>9 DEF KeptMeanwhile, Kept
<1>12. UpgradeIsKept'
  BY <1>2, <1>3 DEF UpgradeIsKept
<1> QED
  BY <1>5, <1>6, <1>7, <1>8, <1>10, <1>11, <1>12

(* A request begins: it has read nothing yet, and upgrades what was read. *)
LEMMA BeginKeepsInvariant ==
  ASSUME EntitiesInvariant, NEW q \in Requests, NEW r \in Recipes,
         BeginImport(q, r) \/ BeginUpgrade(q, r)
  PROVE  EntitiesInvariant'
<1> USE DEF EntitiesInvariant
<1>1. PICK op \in {"import", "upgrade"} :
        /\ req' = [req EXCEPT ![q] = Started(op, r)]
        /\ op = "import" => r \notin Text /\ disturbed' = disturbed
        /\ op = "upgrade" =>
             /\ r \in Text
             /\ disturbed \subseteq disturbed' /\ disturbed' \subseteq disturbed \cup {r}
             /\ r \notin disturbed' =>
                  ~\E p \in Requests : req[p].op = "upgrade" /\ req[p].recipe = r
  BY DEF BeginImport, BeginUpgrade
<1>2. UNCHANGED <<mealie, recipe, reported>>
  BY DEF BeginImport, BeginUpgrade
<1>3. recipe \in [Text -> Links] /\ NoLinks \in Links /\ req[q] = Idle
  BY DEF TypeOK, Links, NoLinks, BeginImport, BeginUpgrade
<1>4. Started(op, r) \in Request
  BY <1>3, EntitiesAssumption DEF Started, Request, PCs
<1>5. /\ Started(op, r).op = op /\ Started(op, r).recipe = r
      /\ Started(op, r).pc = "resolve" /\ Started(op, r).todo = Uses(r)
      /\ Started(op, r).read = {} /\ Started(op, r).cache = {}
      /\ r \in Text => Started(op, r).before = recipe[r]
  BY DEF Started
<1>6. /\ req'[q] = Started(op, r)
      /\ \A p \in Requests : p # q => req'[p] = req[p]
      /\ req' \in [Requests -> Request \cup {Idle}]
  BY <1>1, <1>4 DEF TypeOK
<1>7. TypeOK'
  BY <1>1, <1>2, <1>5, <1>6 DEF TypeOK
<1>8. CalmCache' /\ Resolved'
  BY <1>2, <1>5, <1>6 DEF CalmCache, Resolved
<1>9. ConflictsStand'
  BY <1>2, <1>5, <1>6, RefusalsStand DEF ConflictsStand
<1>10. UpgradesAlone'
  BY <1>1, <1>5, <1>6 DEF UpgradesAlone, Upgrades
<1>11. KeptMeanwhile'
  <2> SUFFICES ASSUME NEW s \in reported' \ disturbed', NEW p \in Requests, Upgrades(p, s)'
               PROVE  /\ Kept(req[p].before, s)'
                      /\ req'[p].pc \notin {"verify", "rollback"} => Kept(recipe[s], s)'
    BY DEF KeptMeanwhile
  <2>1. s \in reported \ disturbed
    BY <1>1, <1>2
  <2>2. CASE p # q
    BY <1>2, <1>6, <2>1, <2>2 DEF KeptMeanwhile, Upgrades, Kept
  <2>3. CASE p = q
    <3>1. s = r /\ op = "upgrade" /\ r \in Text
      BY <1>1, <1>5, <1>6, <2>3 DEF Upgrades
    <3>2. \A t \in Requests : ~(req[t].recipe = r /\ req[t].pc \in {"verify", "rollback"})
      BY <1>1, <3>1 DEF Resolved
    <3>3. Kept(recipe[r], r)
      BY <2>1, <3>1, <3>2 DEF UpgradeIsKept, Kept
    <3> QED
      BY <1>2, <1>5, <1>6, <2>3, <3>1, <3>3 DEF Kept
  <2> QED
    BY <2>2, <2>3
<1>12. UpgradeIsKept'
  <2>1. \A p \in Requests : req[p].pc \in {"verify", "rollback"} => req'[p] = req[p]
    BY <1>3, <1>6 DEF Idle
  <2> QED
    BY <1>1, <1>2, <2>1 DEF UpgradeIsKept
<1> QED
  BY <1>7, <1>8, <1>9, <1>10, <1>11, <1>12

(* A step of the resolution that creates nothing. *)
LEMMA QuietResolution ==
  ASSUME EntitiesInvariant, NEW q \in Requests, NEW x \in Request \cup {Idle},
         req' = [req EXCEPT ![q] = x],
         UNCHANGED <<mealie, recipe, reported, disturbed>>,
         x.cache \subseteq mealie,
         x.calm => \A e \in mealie : Kind(e) \in x.read => e \in x.cache,
         x.pc = "conflict" => x.name \in Names /\ Refuses(x.name),
         x.pc # "idle" => \A n \in Uses(x.recipe) : n \in x.todo \/ x.found[n] # None,
         x.pc = "patch" => x.todo = {} /\ x.op = "upgrade",
         x = Idle \/ (x.op = req[q].op /\ x.recipe = req[q].recipe /\ x.before = req[q].before),
         req[q].pc \notin {"verify", "rollback"}, x.pc \notin {"verify", "rollback"}
  PROVE  EntitiesInvariant'
<1>1. req \in [Requests -> Request \cup {Idle}] /\ mealie \subseteq Names
  BY DEF EntitiesInvariant, TypeOK
<1>2. /\ req' \in [Requests -> Request \cup {Idle}]
      /\ req'[q] = x
      /\ \A p \in Requests \ {q} : req'[p] = req[p]
  BY <1>1
<1>3. x.pc = "conflict" => x.name \in Names /\ Refuses(x.name)'
  BY RefusalsStand
<1> QED
  BY <1>1, <1>2, <1>3, ResolutionKeepsInvariant

LEMMA GivingUpKeepsInvariant ==
  ASSUME EntitiesInvariant, NEW q \in Requests, req[q].pc \in {"resolve", "conflict"},
         req' = [req EXCEPT ![q] = Idle],
         UNCHANGED <<mealie, recipe, reported, disturbed>>
  PROVE  EntitiesInvariant'
<1>1. Idle.cache = {} /\ Idle.read = {} /\ Idle.pc = "idle" /\ Idle \in Request \cup {Idle}
  BY DEF Idle
<1> QED
  BY <1>1, QuietResolution

LEMMA ReadCollectionKeepsInvariant ==
  ASSUME EntitiesInvariant, NEW q \in Requests, NEW n \in Names, ReadCollection(q, n)
  PROVE  EntitiesInvariant'
<1> DEFINE x == [req[q] EXCEPT !.read = @ \cup {Kind(n)}, !.cache = @ \cup OfKind(Kind(n))]
<1>1. req[q].pc = "resolve" /\ Kind(n) \in Kinds
      /\ req' = [req EXCEPT ![q] = x] /\ UNCHANGED <<mealie, recipe, reported, disturbed>>
  BY EntitiesAssumption, Zenon DEF ReadCollection, Resolving
<1>2. req[q] \in Request /\ req[q].cache \subseteq mealie
      /\ \A m \in Uses(req[q].recipe) : m \in req[q].todo \/ req[q].found[m] # None
  BY <1>1, ResolvingTypes
<1>3. OfKind(Kind(n)) \subseteq mealie /\ mealie \subseteq Names
  BY DEF OfKind, EntitiesInvariant, TypeOK
<1>4. /\ x \in Request
      /\ x.cache = req[q].cache \cup OfKind(Kind(n)) /\ x.read = req[q].read \cup {Kind(n)}
      /\ x.calm = req[q].calm /\ x.pc = "resolve" /\ x.recipe = req[q].recipe
      /\ x.todo = req[q].todo /\ x.found = req[q].found
      /\ x.op = req[q].op /\ x.before = req[q].before
  BY <1>1, <1>2, <1>3 DEF Request
<1> HIDE DEF x
<1>5. x.calm => \A e \in mealie : Kind(e) \in x.read => e \in x.cache
  BY <1>4 DEF EntitiesInvariant, CalmCache, OfKind
<1> QED
  BY <1>1, <1>2, <1>3, <1>4, <1>5, QuietResolution

(* A name is resolved to an entity that there is. *)
LEMMA ResolveKeepsInvariant ==
  ASSUME EntitiesInvariant, NEW q \in Requests, NEW n \in Names, NEW e \in Names,
         NEW known \in SUBSET mealie, req[q].pc \in {"resolve", "conflict"},
         req' = [req EXCEPT ![q] = [req[q] EXCEPT !.todo = @ \ {n}, !.found[n] = e, !.name = None,
                                                  !.pc = "resolve", !.cache = known]],
         req[q].cache \subseteq known,
         UNCHANGED <<mealie, recipe, reported, disturbed>>
  PROVE  EntitiesInvariant'
<1> DEFINE x == [req[q] EXCEPT !.todo = @ \ {n}, !.found[n] = e, !.name = None,
                              !.pc = "resolve", !.cache = known]
<1>1. req' = [req EXCEPT ![q] = x]
  OBVIOUS
<1>2. req[q] \in Request /\ req[q].found \in Links
      /\ \A m \in Uses(req[q].recipe) : m \in req[q].todo \/ req[q].found[m] # None
  BY ResolvingTypes
<1>3. mealie \subseteq Names /\ None \notin Names
  BY EntitiesAssumption DEF EntitiesInvariant, TypeOK
<1>4. [req[q].found EXCEPT ![n] = e] \in Links
  BY <1>2 DEF Links
<1>5. /\ x \in Request
      /\ x.cache = known /\ x.read = req[q].read
      /\ x.calm = req[q].calm /\ x.pc = "resolve" /\ x.recipe = req[q].recipe
      /\ x.todo = req[q].todo \ {n} /\ x.found = [req[q].found EXCEPT ![n] = e]
      /\ x.op = req[q].op /\ x.before = req[q].before
  BY <1>2, <1>3, <1>4 DEF Request, PCs
<1> HIDE DEF x
<1>6. x.calm => \A f \in mealie : Kind(f) \in x.read => f \in x.cache
  BY <1>5 DEF EntitiesInvariant, CalmCache
<1>7. \A m \in Uses(x.recipe) : m \in x.todo \/ x.found[m] # None
  BY <1>2, <1>3, <1>5, EntitiesAssumption DEF Links, Request
<1> QED
  BY <1>1, <1>5, <1>6, <1>7, QuietResolution

LEMMA ReuseKeepsInvariant ==
  ASSUME EntitiesInvariant, NEW q \in Requests, NEW n \in Names, Reuse(q, n)
  PROVE  EntitiesInvariant'
<1>1. req[q].pc = "resolve" /\ req[q] \in Request /\ req[q].cache \subseteq mealie
      /\ mealie \subseteq Names /\ req \in [Requests -> Request \cup {Idle}]
  BY ResolvingTypes DEF Reuse, Resolving, EntitiesInvariant, TypeOK
<1>2. PICK e \in Matches(req[q].cache, n, NoHint) : Resolve(q, n, e)
  BY DEF Reuse
<1>3. e \in Names
  BY <1>1, <1>2 DEF Matches
<1>4. [req[q] EXCEPT !.todo = @ \ {n}, !.found[n] = e, !.name = None, !.pc = "resolve"]
      = [req[q] EXCEPT !.todo = @ \ {n}, !.found[n] = e, !.name = None, !.pc = "resolve",
                       !.cache = req[q].cache]
  BY <1>1 DEF Request
<1>5. req' = [req EXCEPT ![q] = [req[q] EXCEPT !.todo = @ \ {n}, !.found[n] = e,
                                                !.name = None, !.pc = "resolve"]]
  BY <1>2, Zenon DEF Resolve
<1>6. req' = [req EXCEPT ![q] = [req[q] EXCEPT !.todo = @ \ {n}, !.found[n] = e, !.name = None,
                                                !.pc = "resolve", !.cache = req[q].cache]]
  BY <1>4, <1>5, Zenon
<1>7. UNCHANGED <<mealie, recipe, reported, disturbed>>
  BY <1>2, Zenon DEF Resolve
<1> QED
  BY <1>1, <1>3, <1>6, <1>7, ResolveKeepsInvariant, Zenon

LEMMA RecoverKeepsInvariant ==
  ASSUME EntitiesInvariant, NEW q \in Requests, NEW hint \in Hints, Recover(q, hint)
  PROVE  EntitiesInvariant'
<1> DEFINE n == req[q].name
<1>1. req[q].pc = "conflict" /\ req[q] \in Request /\ req[q].cache \subseteq mealie
      /\ mealie \subseteq Names /\ n \in Names
  BY ResolvingTypes DEF Recover, EntitiesInvariant, TypeOK, ConflictsStand
<1>2. UNCHANGED <<mealie, recipe, reported, disturbed>>
  BY DEF Recover
<1>3. Reread(q) \in SUBSET mealie /\ req[q].cache \subseteq Reread(q)
  BY <1>1 DEF Reread, OfKind
<1>4. CASE req' = [req EXCEPT ![q] = Idle]
  BY <1>1, <1>2, <1>4, GivingUpKeepsInvariant
<1>5. CASE \E e \in Recovered(q, hint) :
             req' = [req EXCEPT ![q].todo = @ \ {n}, ![q].found[n] = e, ![q].name = None,
                                ![q].pc = "resolve", ![q].cache = Reread(q)]
  <2>1. PICK e \in Recovered(q, hint) :
             req' = [req EXCEPT ![q].todo = @ \ {n}, ![q].found[n] = e, ![q].name = None,
                                ![q].pc = "resolve", ![q].cache = Reread(q)]
    BY <1>5
  <2>2. e \in Names
    BY <1>1, <1>3 DEF Recovered, Matches
  <2>3. req' = [req EXCEPT ![q] = [req[q] EXCEPT !.todo = @ \ {n}, !.found[n] = e, !.name = None,
                                                  !.pc = "resolve", !.cache = Reread(q)]]
    BY <2>1, Zenon
  <2> QED
    BY <1>1, <1>2, <1>3, <2>2, <2>3, ResolveKeepsInvariant, Zenon
<1> QED
  BY <1>4, <1>5 DEF Recover

LEMMA CreateRefusedKeepsInvariant ==
  ASSUME EntitiesInvariant, NEW q \in Requests, NEW n \in Names, CreateRefused(q, n)
  PROVE  EntitiesInvariant'
<1> DEFINE x == [req[q] EXCEPT !.pc = "conflict", !.name = n]
<1>1. req[q].pc = "resolve" /\ Refuses(n)
      /\ req' = [req EXCEPT ![q] = x] /\ UNCHANGED <<mealie, recipe, reported, disturbed>>
  BY Zenon DEF CreateRefused, Missing, Resolving
<1>2. req[q] \in Request /\ req[q].cache \subseteq mealie
      /\ \A m \in Uses(req[q].recipe) : m \in req[q].todo \/ req[q].found[m] # None
  BY <1>1, ResolvingTypes
<1>3. /\ x \in Request
      /\ x.cache = req[q].cache /\ x.read = req[q].read
      /\ x.calm = req[q].calm /\ x.pc = "conflict" /\ x.recipe = req[q].recipe
      /\ x.todo = req[q].todo /\ x.found = req[q].found /\ x.name = n
      /\ x.op = req[q].op /\ x.before = req[q].before
  BY <1>1, <1>2 DEF Request, PCs
<1> HIDE DEF x
<1>4. x.calm => \A e \in mealie : Kind(e) \in x.read => e \in x.cache
  BY <1>3 DEF EntitiesInvariant, CalmCache
<1> QED
  BY <1>1, <1>2, <1>3, <1>4, QuietResolution

LEMMA EndResolutionKeepsInvariant ==
  ASSUME EntitiesInvariant, NEW q \in Requests, EndResolution(q) \/ FailResolution(q)
  PROVE  EntitiesInvariant'
<1>1. UNCHANGED <<mealie, recipe, reported, disturbed>> /\ req[q].pc \in {"resolve", "conflict"}
  BY DEF EndResolution, FailResolution
<1>2. CASE req' = [req EXCEPT ![q] = Idle]
  BY <1>1, <1>2, GivingUpKeepsInvariant
<1>3. CASE req[q].todo = {} /\ req[q].op # "import" /\ req' = [req EXCEPT ![q].pc = "patch"]
  <2> DEFINE x == [req[q] EXCEPT !.pc = "patch"]
  <2>1. req' = [req EXCEPT ![q] = x]
    BY <1>3, Zenon
  <2>2. req[q] \in Request /\ req[q].cache \subseteq mealie
        /\ \A m \in Uses(req[q].recipe) : m \in req[q].todo \/ req[q].found[m] # None
    BY <1>1, ResolvingTypes
  <2>3. /\ x \in Request
        /\ x.cache = req[q].cache /\ x.read = req[q].read
        /\ x.calm = req[q].calm /\ x.pc = "patch" /\ x.recipe = req[q].recipe
        /\ x.todo = req[q].todo /\ x.found = req[q].found
        /\ x.op = req[q].op /\ x.before = req[q].before
        /\ x.op = "upgrade"
    BY <1>3, <2>2 DEF Request, PCs
  <2> HIDE DEF x
  <2>4. x.calm => \A e \in mealie : Kind(e) \in x.read => e \in x.cache
    BY <2>3 DEF EntitiesInvariant, CalmCache
  <2>5. /\ x.pc = "patch" => x.todo = {} /\ x.op = "upgrade"
        /\ x.pc \notin {"idle", "conflict", "verify", "rollback"}
        /\ req[q].pc \notin {"verify", "rollback"}
        /\ \A m \in Uses(x.recipe) : m \in x.todo \/ x.found[m] # None
        /\ x.cache \subseteq mealie
    BY <1>1, <1>3, <2>2, <2>3
  <2> QED
    BY <1>1, <2>1, <2>3, <2>4, <2>5, QuietResolution
<1> QED
  BY <1>2, <1>3 DEF EndResolution, FailResolution

(* A step of the resolution in which q creates n. *)
LEMMA CreatingResolution ==
  ASSUME EntitiesInvariant, NEW q \in Requests, NEW n \in Names, NEW x \in Request \cup {Idle},
         req' = [Added(n, q) EXCEPT ![q] = x], mealie' = mealie \cup {n},
         UNCHANGED <<recipe, reported, disturbed>>,
         x.cache \subseteq mealie \cup {n},
         x.calm => \A e \in mealie \cup {n} : Kind(e) \in x.read => e \in x.cache,
         x.pc \notin {"conflict", "patch", "verify", "rollback"},
         x.pc # "idle" => \A m \in Uses(x.recipe) : m \in x.todo \/ x.found[m] # None,
         x = Idle \/ (x.op = req[q].op /\ x.recipe = req[q].recipe /\ x.before = req[q].before),
         req[q].pc \notin {"verify", "rollback"}
  PROVE  EntitiesInvariant'
<1>1. TypeOK
  BY DEF EntitiesInvariant
<1>2. \A p \in Requests \ {q} : req'[p] = Added(n, q)[p]
  BY DEF Added
<1>3. /\ req'[q] = x
      /\ \A p \in Requests \ {q} :
           /\ req'[p] \in Request \cup {Idle}
           /\ req'[p].op = req[p].op /\ req'[p].pc = req[p].pc
           /\ req'[p].recipe = req[p].recipe /\ req'[p].name = req[p].name
           /\ req'[p].todo = req[p].todo /\ req'[p].read = req[p].read
           /\ req'[p].cache = req[p].cache /\ req'[p].found = req[p].found
           /\ req'[p].before = req[p].before
           /\ req'[p].calm => req[p].calm
           /\ ~req'[p].calm \/ req[p].read = {}
  <2>1. req'[q] = x
    BY DEF Added
  <2> QED
    BY <1>1, <1>2, <2>1, AddedDisturbs
<1>4. req' \in [Requests -> Request \cup {Idle}]
  <2>1. \A p \in Requests : req'[p] \in Request \cup {Idle}
    BY <1>3
  <2> QED
    BY <2>1 DEF Added
<1>5. mealie \subseteq mealie' /\ mealie' \subseteq Names
  BY <1>1 DEF TypeOK
<1> QED
  BY <1>3, <1>4, <1>5, ResolutionKeepsInvariant

LEMMA CreateKeepsInvariant ==
  ASSUME EntitiesInvariant, NEW q \in Requests, NEW n \in Names, Create(q, n)
  PROVE  EntitiesInvariant'
<1> DEFINE x == [req[q] EXCEPT !.todo = @ \ {n}, !.found[n] = n, !.cache = @ \cup {n}]
<1>1. Added(n, q)[q] = req[q]
  BY DEF Added
<1>2. req' = [Added(n, q) EXCEPT ![q] = x]
  BY <1>1, Zenon DEF Create
<1>3. req[q].pc = "resolve" /\ mealie' = mealie \cup {n} /\ UNCHANGED <<recipe, reported, disturbed>>
  BY DEF Create, Missing, Resolving
<1>4. req[q] \in Request /\ req[q].found \in Links /\ req[q].cache \subseteq mealie
      /\ \A m \in Uses(req[q].recipe) : m \in req[q].todo \/ req[q].found[m] # None
  BY <1>3, ResolvingTypes
<1>5. mealie \subseteq Names /\ None \notin Names
  BY EntitiesAssumption DEF EntitiesInvariant, TypeOK
<1>6. [req[q].found EXCEPT ![n] = n] \in Links
  BY <1>4 DEF Links
<1>7. /\ x \in Request
      /\ x.cache = req[q].cache \cup {n} /\ x.read = req[q].read
      /\ x.calm = req[q].calm /\ x.pc = "resolve" /\ x.recipe = req[q].recipe
      /\ x.todo = req[q].todo \ {n} /\ x.found = [req[q].found EXCEPT ![n] = n]
      /\ x.op = req[q].op /\ x.before = req[q].before
  BY <1>3, <1>4, <1>5, <1>6 DEF Request, PCs
<1> HIDE DEF x
<1>8. x.calm => \A f \in mealie \cup {n} : Kind(f) \in x.read => f \in x.cache
  BY <1>7 DEF EntitiesInvariant, CalmCache
<1>9. \A m \in Uses(x.recipe) : m \in x.todo \/ x.found[m] # None
  BY <1>4, <1>5, <1>7, EntitiesAssumption DEF Links, Request
<1> QED
  BY <1>2, <1>3, <1>4, <1>7, <1>8, <1>9, CreatingResolution

LEMMA CreateLostKeepsInvariant ==
  ASSUME EntitiesInvariant, NEW q \in Requests, NEW n \in Names, CreateLost(q, n)
  PROVE  EntitiesInvariant'
<1>1. Idle.cache = {} /\ Idle.read = {} /\ Idle.pc = "idle" /\ Idle \in Request \cup {Idle}
  BY DEF Idle
<1>2. /\ req' = [Added(n, q) EXCEPT ![q] = Idle]
      /\ mealie' = mealie \cup {n} /\ UNCHANGED <<recipe, reported, disturbed>>
      /\ req[q].pc = "resolve"
  BY DEF CreateLost, Missing, Resolving
<1> QED
  BY <1>1, <1>2, CreatingResolution

(***************************************************************************)
(* The steps of the upgrade proper.                                        *)
(***************************************************************************)
LEMMA UpgradingTypes ==
  ASSUME EntitiesInvariant, NEW q \in Requests, req[q].pc \in {"patch", "verify", "rollback"}
  PROVE  /\ req[q] \in Request /\ req[q].recipe \in Text /\ Upgrades(q, req[q].recipe)
         /\ req[q].cache \subseteq mealie
         /\ req[q].found \in Links /\ req[q].before \in Links
         /\ \A n \in Uses(req[q].recipe) : req[q].found[n] # None
<1>1. req[q] \in Request
  BY DEF EntitiesInvariant, TypeOK, Idle
<1> QED
  BY <1>1 DEF Request, EntitiesInvariant, TypeOK, Resolved, Upgrades

(* The request q goes on as x, which differs only in pc. *)
LEMMA GoingOn ==
  ASSUME NEW q \in Requests, NEW pc \in PCs, req[q] \in Request,
         req \in [Requests -> Request \cup {Idle}],
         req' = [req EXCEPT ![q].pc = pc]
  PROVE  /\ req' \in [Requests -> Request \cup {Idle}]
         /\ req'[q].pc = pc
         /\ \A p \in Requests \ {q} : req'[p] = req[p]
         /\ \A p \in Requests :
              /\ req'[p].op = req[p].op
              /\ req'[p].recipe = req[p].recipe /\ req'[p].name = req[p].name
              /\ req'[p].todo = req[p].todo /\ req'[p].read = req[p].read
              /\ req'[p].cache = req[p].cache /\ req'[p].found = req[p].found
              /\ req'[p].before = req[p].before /\ req'[p].calm = req[p].calm
<1> DEFINE x == [req[q] EXCEPT !.pc = pc]
<1>1. req' = [req EXCEPT ![q] = x]
  BY Zenon
<1>2. x \in Request /\ x.pc = pc /\ x.op = req[q].op /\ x.recipe = req[q].recipe
      /\ x.name = req[q].name /\ x.todo = req[q].todo /\ x.read = req[q].read
      /\ x.cache = req[q].cache /\ x.found = req[q].found /\ x.before = req[q].before
      /\ x.calm = req[q].calm
  BY DEF Request
<1> HIDE DEF x
<1> QED
  BY <1>1, <1>2

LEMMA IdleIsNoUpgrade ==
  /\ Idle.op = "idle" /\ Idle.pc = "idle" /\ Idle.cache = {} /\ Idle.read = {}
  /\ Idle.recipe = None /\ None \notin Text /\ Idle \in Request \cup {Idle}
BY EntitiesAssumption DEF Idle

LEMMA PatchKeepsInvariant ==
  ASSUME EntitiesInvariant, NEW q \in Requests, Patch(q)
  PROVE  EntitiesInvariant'
<1> USE DEF EntitiesInvariant
<1> DEFINE r == req[q].recipe
<1>1. req[q].pc = "patch" /\ UNCHANGED <<mealie, reported, disturbed>>
  BY DEF Patch
<1>2. /\ req[q] \in Request /\ r \in Text /\ Upgrades(q, r)
      /\ req[q].cache \subseteq mealie
      /\ req[q].found \in Links
      /\ \A n \in Uses(r) : req[q].found[n] # None
  BY <1>1, UpgradingTypes
<1>3. PICK pc \in {"verify", "rollback"} : req' = [req EXCEPT ![q].pc = pc]
  BY DEF Patch
<1>4. recipe' \in [Text -> Links] /\ \A s \in Text : s # r => recipe'[s] = recipe[s]
  BY <1>2 DEF Patch, TypeOK
<1>5. /\ req' \in [Requests -> Request \cup {Idle}]
      /\ req'[q].pc = pc
      /\ \A p \in Requests \ {q} : req'[p] = req[p]
      /\ \A p \in Requests :
           /\ req'[p].op = req[p].op
           /\ req'[p].recipe = req[p].recipe /\ req'[p].name = req[p].name
           /\ req'[p].todo = req[p].todo /\ req'[p].read = req[p].read
           /\ req'[p].cache = req[p].cache /\ req'[p].found = req[p].found
           /\ req'[p].before = req[p].before /\ req'[p].calm = req[p].calm
  BY <1>2, <1>3, GoingOn DEF TypeOK, PCs
<1>6. TypeOK'
  BY <1>1, <1>4, <1>5 DEF TypeOK
<1>7. CalmCache'
  BY <1>1, <1>5 DEF CalmCache
<1>8. ConflictsStand'
  BY <1>1, <1>5, RefusalsStand DEF ConflictsStand
<1>9. Resolved'
  BY <1>1, <1>5 DEF Resolved
<1>10. \A s, p : p \in Requests => (Upgrades(p, s)' <=> Upgrades(p, s))
  BY <1>5 DEF Upgrades
<1>11. UpgradesAlone'
  BY <1>1, <1>10 DEF UpgradesAlone
<1>12. KeptMeanwhile'
  <2> SUFFICES ASSUME NEW s \in reported \ disturbed, NEW p \in Requests, Upgrades(p, s)
               PROVE  /\ Kept(req'[p].before, s)
                      /\ req'[p].pc \notin {"verify", "rollback"} => Kept(recipe'[s], s)
    BY <1>1, <1>10 DEF KeptMeanwhile, Kept
  <2>1. s \in Text
    BY DEF TypeOK
  <2>2. Kept(req'[p].before, s)
    BY <1>5 DEF KeptMeanwhile
  <2>3. ASSUME p # q PROVE s # r
    BY <1>2, <2>1, <2>3 DEF UpgradesAlone
  <2> QED
    BY <1>3, <1>4, <1>5, <2>1, <2>2, <2>3 DEF KeptMeanwhile
<1>13. UpgradeIsKept'
  <2> SUFFICES ASSUME NEW s \in reported \ disturbed,
                      \A p \in Requests : ~(req'[p].recipe = s /\ req'[p].pc \in {"verify", "rollback"})
               PROVE  Kept(recipe'[s], s)
    BY <1>1 DEF UpgradeIsKept, Kept
  <2>1. s # r /\ s \in Text
    BY <1>3, <1>5 DEF TypeOK
  <2>2. \A p \in Requests : ~(req[p].recipe = s /\ req[p].pc \in {"verify", "rollback"})
    BY <1>1, <1>5, <2>1
  <2> QED
    BY <1>4, <2>1, <2>2 DEF UpgradeIsKept, Kept
<1> QED
  BY <1>6, <1>7, <1>8, <1>9, <1>11, <1>12, <1>13

LEMMA RejectUpgradeKeepsInvariant ==
  ASSUME EntitiesInvariant, NEW q \in Requests, RejectUpgrade(q)
  PROVE  EntitiesInvariant'
<1> USE DEF EntitiesInvariant
<1>1. req[q].pc = "verify" /\ UNCHANGED <<mealie, recipe, reported, disturbed>>
      /\ req' = [req EXCEPT ![q].pc = "rollback"]
  BY DEF RejectUpgrade
<1>2. /\ req' \in [Requests -> Request \cup {Idle}]
      /\ req'[q].pc = "rollback"
      /\ \A p \in Requests \ {q} : req'[p] = req[p]
      /\ \A p \in Requests :
           /\ req'[p].op = req[p].op
           /\ req'[p].recipe = req[p].recipe /\ req'[p].name = req[p].name
           /\ req'[p].todo = req[p].todo /\ req'[p].read = req[p].read
           /\ req'[p].cache = req[p].cache /\ req'[p].found = req[p].found
           /\ req'[p].before = req[p].before /\ req'[p].calm = req[p].calm
  BY <1>1, UpgradingTypes, GoingOn DEF TypeOK, PCs
<1>3. TypeOK'
  BY <1>1, <1>2 DEF TypeOK
<1>4. CalmCache' /\ Resolved'
  BY <1>1, <1>2 DEF CalmCache, Resolved
<1>5. ConflictsStand'
  BY <1>1, <1>2, RefusalsStand DEF ConflictsStand
<1>6. UpgradesAlone'
  BY <1>1, <1>2 DEF UpgradesAlone, Upgrades
<1>7. KeptMeanwhile'
  BY <1>1, <1>2 DEF KeptMeanwhile, Upgrades, Kept
<1>8. UpgradeIsKept'
  BY <1>1, <1>2 DEF UpgradeIsKept
<1> QED
  BY <1>3, <1>4, <1>5, <1>6, <1>7, <1>8

(* An upgrade ends: done, or written back, or not even that. *)
LEMMA EndKeepsInvariant ==
  ASSUME EntitiesInvariant, NEW q \in Requests, EndUpgrade(q) \/ Rollback(q)
  PROVE  EntitiesInvariant'
<1> USE DEF EntitiesInvariant
<1> DEFINE r == req[q].recipe
<1>1. /\ req[q].pc \in {"verify", "rollback"} /\ mealie' = mealie
      /\ req' = [req EXCEPT ![q] = Idle]
      /\ reported \subseteq reported' /\ reported' \subseteq reported \cup {r}
      /\ disturbed \subseteq disturbed' /\ disturbed' \subseteq disturbed \cup {r}
  BY DEF EndUpgrade, Rollback
<1>2. /\ req[q] \in Request /\ r \in Text /\ Upgrades(q, r)
      /\ req[q].found \in Links /\ req[q].before \in Links
      /\ \A n \in Uses(r) : req[q].found[n] # None
  BY <1>1, UpgradingTypes
<1>3. recipe' \in [Text -> Links] /\ \A s \in Text : s # r => recipe'[s] = recipe[s]
  BY <1>2 DEF EndUpgrade, Rollback, RolledBack, TypeOK
<1>4. /\ req' \in [Requests -> Request \cup {Idle}]
      /\ req'[q] = Idle
      /\ \A p \in Requests \ {q} : req'[p] = req[p]
  BY <1>1, IdleIsNoUpgrade DEF TypeOK
<1>5. r \in reported' \ disturbed' => Kept(recipe'[r], r)
  <2>1. CASE EndUpgrade(q)
    BY <1>2, <2>1 DEF EndUpgrade, Verified, Kept
  <2>2. CASE Rollback(q)
    BY <1>2, <2>2 DEF Rollback, RolledBack, KeptMeanwhile, TypeOK
  <2> QED
    BY <2>1, <2>2
<1>6. TypeOK'
  BY <1>1, <1>2, <1>3, <1>4, IdleIsNoUpgrade DEF TypeOK
<1>7. CalmCache' /\ Resolved'
  BY <1>1, <1>4, IdleIsNoUpgrade DEF CalmCache, Resolved
<1>8. ConflictsStand'
  BY <1>1, <1>4, IdleIsNoUpgrade, RefusalsStand DEF ConflictsStand
<1>9. \A s \in Text, p \in Requests : Upgrades(p, s)' => p # q /\ Upgrades(p, s)
  BY <1>4, IdleIsNoUpgrade DEF Upgrades
<1>10. UpgradesAlone'
  BY <1>1, <1>9 DEF UpgradesAlone
<1>11. KeptMeanwhile'
  <2> SUFFICES ASSUME NEW s \in reported' \ disturbed', NEW p \in Requests, Upgrades(p, s)'
               PROVE  /\ Kept(req'[p].before, s)
                      /\ req'[p].pc \notin {"verify", "rollback"} => Kept(recipe'[s], s)
    BY DEF KeptMeanwhile, Kept
  <2>1. s \in Text \ disturbed
    BY <1>1, <1>6 DEF TypeOK
  <2>2. p # q /\ Upgrades(p, s)
    BY <1>9, <2>1
  <2>3. s # r
    BY <1>2, <2>1, <2>2 DEF UpgradesAlone
  <2> QED
    BY <1>1, <1>3, <1>4, <2>1, <2>2, <2>3 DEF KeptMeanwhile
<1>12. UpgradeIsKept'
  <2> SUFFICES ASSUME NEW s \in reported' \ disturbed', s # r,
                      \A p \in Requests : ~(req'[p].recipe = s /\ req'[p].pc \in {"verify", "rollback"})
               PROVE  Kept(recipe'[s], s)
    BY <1>5 DEF UpgradeIsKept, Kept
  <2>1. s \in reported \ disturbed /\ s \in Text
    BY <1>1, <1>6 DEF TypeOK
  <2>2. \A p \in Requests : ~(req[p].recipe = s /\ req[p].pc \in {"verify", "rollback"})
    BY <1>4
  <2> QED
    BY <1>3, <2>1, <2>2 DEF UpgradeIsKept, Kept
<1> QED
  BY <1>6, <1>7, <1>8, <1>10, <1>11, <1>12

-----------------------------------------------------------------------------
LEMMA EntitiesStep == EntitiesInvariant /\ [Next]_vars => EntitiesInvariant'
<1> SUFFICES ASSUME EntitiesInvariant, [Next]_vars PROVE EntitiesInvariant'
  OBVIOUS
<1>1. CASE \E n \in Names : AddByHand(n)
  BY <1>1, AddByHandKeepsInvariant
<1>2. CASE \E q \in Requests, r \in Recipes : BeginImport(q, r) \/ BeginUpgrade(q, r)
  BY <1>2, BeginKeepsInvariant
<1>3. CASE \E q \in Requests, n \in Names :
             ReadCollection(q, n) \/ Reuse(q, n) \/ Create(q, n) \/ CreateRefused(q, n) \/ CreateLost(q, n)
  BY <1>3, ReadCollectionKeepsInvariant, ReuseKeepsInvariant, CreateKeepsInvariant,
     CreateRefusedKeepsInvariant, CreateLostKeepsInvariant
<1>4. CASE \E q \in Requests : \/ \E hint \in Hints : Recover(q, hint)
                              \/ EndResolution(q) \/ FailResolution(q)
  BY <1>4, RecoverKeepsInvariant, EndResolutionKeepsInvariant
<1>5. CASE \E q \in Requests : Patch(q) \/ EndUpgrade(q) \/ RejectUpgrade(q) \/ Rollback(q)
  BY <1>5, PatchKeepsInvariant, EndKeepsInvariant, RejectUpgradeKeepsInvariant
<1>6. CASE UNCHANGED vars
  BY <1>6 DEF vars, EntitiesInvariant, TypeOK, CalmCache, ConflictsStand, Refuses, InTheWay,
              OfKind, Resolved, UpgradesAlone, Upgrades, KeptMeanwhile, Kept, UpgradeIsKept
<1> QED
  BY <1>1, <1>2, <1>3, <1>4, <1>5, <1>6 DEF Next

THEOREM EntitiesInvariantHolds == Spec => []EntitiesInvariant
BY EntitiesInit, EntitiesStep, PTL DEF Spec

(* Collections, caches and recipes only ever name entities that there are. *)
THEOREM EntitiesTypeOK == Spec => []TypeOK
<1>1. EntitiesInvariant => TypeOK
  BY DEF EntitiesInvariant
<1> QED
  BY <1>1, EntitiesInvariantHolds, PTL

(***************************************************************************)
(* A recipe that was reported upgraded keeps links of its own, whichever   *)
(* upgrade of it fails later (_upgrade and its rollback).                  *)
(***************************************************************************)
THEOREM UpgradeIsKeptHolds == Spec => []UpgradeIsKept
<1>1. EntitiesInvariant => UpgradeIsKept
  BY DEF EntitiesInvariant
<1> QED
  BY <1>1, EntitiesInvariantHolds, PTL

(***************************************************************************)
(* A request that nobody creates entities beside creates none that is like *)
(* one there is, for any names and whatever Mealie makes of them.          *)
(***************************************************************************)
THEOREM NoDuplicateCreationHolds == Spec => NoDuplicateCreation
<1>1. ASSUME EntitiesInvariant, NEW q \in Requests, NEW n \in Names, Create(q, n), req[q].calm,
             NEW e \in mealie, Kind(e) = Kind(n)
      PROVE  Key(e) # Key(n)
  <2>1. Kind(n) \in req[q].read /\ Matches(req[q].cache, n, NoHint) = {}
    BY <1>1 DEF Create, Missing
  <2>2. e \in req[q].cache
    BY <1>1, <2>1 DEF EntitiesInvariant, CalmCache
  <2> QED
    BY <1>1, <2>1, <2>2 DEF Matches, NoHint, Alike
<1>2. EntitiesInvariant =>
        \A q \in Requests, n \in Names :
          Create(q, n) /\ req[q].calm => \A e \in mealie : Kind(e) = Kind(n) => Key(e) # Key(n)
  BY <1>1
<1> QED
  BY <1>2, EntitiesInvariantHolds, PTL DEF NoDuplicateCreation

(* A request is given up if no search after the conflict found anything. *)
LEMMA GivenUpUnmatched ==
  ASSUME EntitiesInvariant, NEW q \in Requests, NEW hint \in Hints,
         Recover(q, hint), req'[q] = Idle
  PROVE  Recovered(q, hint) = {}
<1> DEFINE n == req[q].name
<1>1. req[q].pc = "conflict" /\ req[q] \in Request /\ req \in [Requests -> Request \cup {Idle}]
  BY ResolvingTypes DEF Recover, EntitiesInvariant, TypeOK
<1>2. ASSUME NEW e,
             req' = [req EXCEPT ![q].todo = @ \ {n}, ![q].found[n] = e, ![q].name = None,
                                ![q].pc = "resolve", ![q].cache = Reread(q)]
      PROVE  FALSE
  <2> DEFINE x == [req[q] EXCEPT !.todo = @ \ {n}, !.found[n] = e, !.name = None,
                                !.pc = "resolve", !.cache = Reread(q)]
  <2>1. req' = [req EXCEPT ![q] = x]
    BY <1>2, Zenon
  <2>2. x.pc = "resolve"
    BY <1>1 DEF Request
  <2> HIDE DEF x
  <2> QED
    BY <1>1, <2>1, <2>2, IdleIsNoUpgrade
<1> QED
  BY <1>2, Zenon DEF Recover

(* What no search found is not alike, nor of the slug that was told. *)
LEMMA UnmatchedIsUnlike ==
  ASSUME NEW q \in Requests, NEW hint \in Hints, Recovered(q, hint) = {},
         NEW e \in OfKind(Kind(req[q].name)), hint.group => Grouped(e)
  PROVE  /\ ~Alike(e, req[q].name)
         /\ ~(hint.slug /\ Kind(req[q].name) = "organizer" /\ Slug(e) = Slug(req[q].name))
<1> DEFINE n == req[q].name
           again == [hint EXCEPT !.name = TRUE]
<1>1. Matches(Reread(q), n, hint) = {} /\ Matches(Reread(q), n, again) = {}
  BY DEF Recovered
<1>2. again.group = hint.group /\ again.slug = hint.slug /\ again.name = TRUE
  BY DEF Hints, NoHint
<1> HIDE DEF again
<1>3. e \in Reread(q) /\ Kind(e) = Kind(n)
  BY DEF Reread, OfKind
<1> QED
  BY <1>1, <1>2, <1>3 DEF Matches

(***************************************************************************)
(* A request is given up after a conflict only if what is in the way is    *)
(* listed without the group that the error told, or is an organizer of     *)
(* another name whose slug the error did not tell (resolve_named_entity),  *)
(* for any names and whatever Mealie makes and tells of them.              *)
(***************************************************************************)
THEOREM ConflictsAreRecoveredHolds == Spec => ConflictsAreRecovered
<1>1. ASSUME EntitiesInvariant, NEW q \in Requests, NEW hint \in Hints,
             Recover(q, hint), req'[q] = Idle
      PROVE  LET n == req[q].name IN
             \/ hint.group /\ \E e \in InTheWay(n) : ~Grouped(e)
             \/ /\ Kind(n) = "organizer" /\ ~hint.slug
                /\ \A e \in InTheWay(n) : Key(e) # Key(n)
  <2> DEFINE n == req[q].name
  <2>1. req[q].pc = "conflict" /\ n \in Names /\ Refuses(n)
    BY <1>1 DEF Recover, EntitiesInvariant, ConflictsStand
  <2>2. /\ req \in [Requests -> Request \cup {Idle}] /\ Kind(n) \in Kinds
        /\ mealie \subseteq Names
    BY <1>1, <2>1, EntitiesAssumption DEF EntitiesInvariant, TypeOK
  <2>3. Recovered(q, hint) = {}
    BY <1>1, GivenUpUnmatched
  <2>4. \A e \in OfKind(Kind(n)) : (hint.group => Grouped(e)) =>
          /\ ~Alike(e, n)
          /\ ~(hint.slug /\ Kind(n) = "organizer" /\ Slug(e) = Slug(n))
    BY <2>3, UnmatchedIsUnlike
  <2>5. InTheWay(n) # {} /\ InTheWay(n) \subseteq OfKind(Kind(n))
    BY <2>1 DEF Refuses, InTheWay
  <2>6. SUFFICES ASSUME \A e \in InTheWay(n) : hint.group => Grouped(e)
                 PROVE  /\ Kind(n) = "organizer" /\ ~hint.slug
                        /\ \A e \in InTheWay(n) : Key(e) # Key(n)
    OBVIOUS
  <2>7. \A e \in InTheWay(n) : Key(e) # Key(n)
    BY <2>4, <2>5, <2>6 DEF Alike
  <2>8. Kind(n) # "food"
    BY <2>5, <2>7 DEF InTheWay
  <2>9. Kind(n) = "organizer"
    BY <2>2, <2>8 DEF Kinds
  <2>10. ~hint.slug
    BY <2>4, <2>5, <2>6, <2>9 DEF InTheWay
  <2> QED
    BY <2>7, <2>9, <2>10
<1>2. EntitiesInvariant =>
        \A q \in Requests, hint \in Hints : Recover(q, hint) /\ req'[q] = Idle =>
          LET n == req[q].name IN
          \/ hint.group /\ \E e \in InTheWay(n) : ~Grouped(e)
          \/ /\ Kind(n) = "organizer" /\ ~hint.slug
             /\ \A e \in InTheWay(n) : Key(e) # Key(n)
  BY <1>1
<1> QED
  BY <1>2, EntitiesInvariantHolds, PTL DEF ConflictsAreRecovered
=============================================================================
