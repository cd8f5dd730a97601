------------------------------ MODULE Entities ------------------------------
(***************************************************************************)
(* The entities of Mealie that a recipe refers to (categories, tags, foods *)
(* and units), as app/mealie_entities.py resolves them, and the upgrade of *)
(* a recipe imported as text, upgrade_mealie_structure of                  *)
(* app/import_queue.py, which writes what was resolved.                    *)
(*                                                                         *)
(* Requests run on one event loop and await every call to Mealie, so that  *)
(* those of another may come between any two.  A resolution reads each     *)
(* collection once and remembers it.  Mealie is external: organizers       *)
(* (categories and tags) are unique by slug, foods and units by name, so   *)
(* that a name stands for the one entity that has it.  Entities are        *)
(* neither renamed nor deleted here.                                       *)
(***************************************************************************)
EXTENDS Naturals, FiniteSets

CONSTANTS
  Names,      \* names that recipes use, and that entities have
  Recipes,    \* recipes that are to be imported or upgraded
  Text,       \* those of them that are in Mealie already, imported as text
  Requests,   \* imports and upgrades that may be in progress at once
  Kind(_),    \* the collection of a name: "organizer" or "food"
  Key(_),     \* normalize_name of a name
  Slug(_),    \* the slug Mealie gives to an organizer of the name
  Plain(_),   \* the nameNormalized that Mealie gives to a food of the name
  Grouped(_), \* whether the listings of Mealie tell the group of the entity of a name
  Uses(_),    \* the names in the stored result of a recipe
  None

Kinds == {"organizer", "food"}

ASSUME EntitiesAssumption ==
  /\ \A n \in Names : Kind(n) \in Kinds /\ Grouped(n) \in BOOLEAN
  /\ Text \subseteq Recipes
  /\ \A r \in Recipes : Uses(r) \subseteq Names
  (* unique_names: no two names of one recipe are alike *)
  /\ \A r \in Recipes : \A n, m \in Uses(r) :
       Kind(n) = Kind(m) /\ Key(n) = Key(m) => n = m
  (* organizers that are alike have one slug *)
  /\ \A n, m \in Names : Key(n) = Key(m) => Slug(n) = Slug(m)
  /\ None \notin Names \cup Recipes \cup Requests

VARIABLES
  mealie,    \* the names that have an entity in Mealie
  recipe,    \* the entity that each name of a recipe is linked to in Mealie
  reported,  \* the recipes whose upgrade was reported done (for checking)
  disturbed, \* the recipes that two requests upgraded at once, or that a failed
             \* upgrade could not write back (for checking)
  req        \* the requests in progress

vars == <<mealie, recipe, reported, disturbed, req>>

Links == [Names -> Names \cup {None}]
NoLinks == [n \in Names |-> None]

(***************************************************************************)
(* A request: an import only resolves here, an upgrade goes on to patch.   *)
(* name: the name whose creation awaits an answer; todo: those still to be *)
(* resolved; read, cache: the collections read, and the entities in them;  *)
(* found: what was resolved; before: the recipe when it was read; calm:    *)
(* whether nobody else created an entity meanwhile (for checking).         *)
(***************************************************************************)
PCs == {"resolve", "conflict", "patch", "verify", "rollback"}
Request == [op: {"import", "upgrade"}, pc: PCs, recipe: Recipes, name: Names \cup {None},
            todo: SUBSET Names, read: SUBSET Kinds, cache: SUBSET Names,
            found: Links, before: Links, calm: BOOLEAN]
Idle == [op |-> "idle", pc |-> "idle", recipe |-> None, name |-> None,
         todo |-> {}, read |-> {}, cache |-> {},
         found |-> NoLinks, before |-> NoLinks, calm |-> TRUE]

TypeOK ==
  /\ mealie \subseteq Names
  /\ recipe \in [Text -> Links]
  /\ reported \subseteq Text
  /\ disturbed \subseteq Text
  /\ req \in [Requests -> Request \cup {Idle}]
  /\ \A q \in Requests :
       /\ req[q].cache \subseteq mealie
       /\ req[q].op = "upgrade" => req[q].recipe \in Text

OfKind(k) == {e \in mealie : Kind(e) = k}

(***************************************************************************)
(* Why Mealie refuses to create an entity: another is in its way.          *)
(***************************************************************************)
InTheWay(n) ==
  {e \in OfKind(Kind(n)) : IF Kind(n) = "organizer" THEN Slug(e) = Slug(n) ELSE e = n}

Refuses(n) == InTheWay(n) # {}

Init ==
  /\ mealie = {}
  /\ recipe = [r \in Text |-> NoLinks]
  /\ reported = {}
  /\ disturbed = {}
  /\ req = [q \in Requests |-> Idle]

-----------------------------------------------------------------------------
(* Resolution *)

(* The entity n is created, by q or by nobody of the requests. *)
Added(n, q) ==
  [p \in Requests |-> IF p = q \/ req[p] = Idle THEN req[p] ELSE [req[p] EXCEPT !.calm = FALSE]]

(* Somebody adds an entity in Mealie itself. *)
AddByHand(n) ==
  /\ n \notin mealie
  /\ ~Refuses(n)
  /\ mealie' = mealie \cup {n}
  /\ req' = Added(n, None)
  /\ UNCHANGED <<recipe, reported, disturbed>>

Started(op, r) ==
  [op |-> op, pc |-> "resolve", recipe |-> r, name |-> None,
   todo |-> Uses(r), read |-> {}, cache |-> {}, found |-> NoLinks,
   before |-> IF r \in Text THEN recipe[r] ELSE NoLinks, calm |-> TRUE]

(* import_item_to_mealie resolves the entities of the recipe first. *)
BeginImport(q, r) ==
  /\ req[q] = Idle
  /\ r \notin Text
  /\ req' = [req EXCEPT ![q] = Started("import", r)]
  /\ UNCHANGED <<mealie, recipe, reported, disturbed>>

(* verify_native_structure of a recipe that was read before: by names alone. *)
Native(links, r) == \A n \in Uses(r) : links[n] # None /\ Key(links[n]) = Key(n)

(* upgrade_mealie_structure: a recipe that is as it should be stays so. *)
BeginUpgrade(q, r) ==
  /\ req[q] = Idle
  /\ r \in Text
  /\ ~Native(recipe[r], r)
  /\ req' = [req EXCEPT ![q] = Started("upgrade", r)]
  /\ disturbed' =
       IF \E p \in Requests : req[p].op = "upgrade" /\ req[p].recipe = r
       THEN disturbed \cup {r} ELSE disturbed
  /\ UNCHANGED <<mealie, recipe, reported>>

(* The next name: the organizers come before the foods. *)
Resolving(q, n) ==
  /\ req[q].pc = "resolve"
  /\ n \in req[q].todo
  /\ Kind(n) = "organizer" \/ \A m \in req[q].todo : Kind(m) = "food"

(* _entity_pages, the first time that an entity of the kind is looked for. *)
ReadCollection(q, n) ==
  /\ Resolving(q, n)
  /\ Kind(n) \notin req[q].read
  /\ req' = [req EXCEPT ![q].read = @ \cup {Kind(n)}, ![q].cache = @ \cup OfKind(Kind(n))]
  /\ UNCHANGED <<mealie, recipe, reported, disturbed>>

(* Wrong variant: names are compared as they are written. *)
AlikeAsWritten(e, n) == e = n

(* A name that is like another: by normalize_name, or by nameNormalized. *)
Alike(e, n) ==
  \/ Key(e) = Key(n)
  \/ Kind(n) = "food" /\ Plain(e) = Key(n)

(***************************************************************************)
(* What is searched for: with the group, entities that are listed without  *)
(* one are passed over, though all are of the one group that the token is  *)
(* of; by the name asked for or by a text that no entity has for name; and *)
(* perhaps by the slug.  _unique_conflict_hints reads the three from the   *)
(* text of an error, where it may find nothing.                            *)
(***************************************************************************)
NoHint == [group |-> FALSE, name |-> TRUE, slug |-> FALSE]
Hints == {NoHint} \cup [group: {TRUE}, name: BOOLEAN, slug: BOOLEAN]

(* EntityResolver._find: by slug only organizers, and only if no name is alike. *)
Matches(known, n, hint) ==
  LET listed == {e \in known : Kind(e) = Kind(n) /\ (hint.group => Grouped(e))}
      alike == {e \in listed : hint.name /\ Alike(e, n)} IN
  IF alike # {} THEN alike
  ELSE {e \in listed : hint.slug /\ Kind(n) = "organizer" /\ Slug(e) = Slug(n)}

Resolve(q, n, e) ==
  /\ req' = [req EXCEPT ![q].todo = @ \ {n}, ![q].found[n] = e, ![q].name = None,
                        ![q].pc = "resolve"]
  /\ UNCHANGED <<mealie, recipe, reported, disturbed>>

Reuse(q, n) ==
  /\ Resolving(q, n)
  /\ Kind(n) \in req[q].read
  /\ \E e \in Matches(req[q].cache, n, NoHint) : Resolve(q, n, e)

Missing(q, n) ==
  /\ Resolving(q, n)
  /\ Kind(n) \in req[q].read
  /\ Matches(req[q].cache, n, NoHint) = {}

(* The entity is created, and remembered with the collection. *)
Create(q, n) ==
  /\ Missing(q, n)
  /\ ~Refuses(n)
  /\ mealie' = mealie \cup {n}
  /\ req' = [Added(n, q) EXCEPT ![q].todo = @ \ {n}, ![q].found[n] = n, ![q].cache = @ \cup {n}]
  /\ UNCHANGED <<recipe, reported, disturbed>>

(* Mealie refuses; or creates it, and the answer is lost. *)
CreateRefused(q, n) ==
  /\ Missing(q, n)
  /\ Refuses(n)
  /\ req' = [req EXCEPT ![q].pc = "conflict", ![q].name = n]
  /\ UNCHANGED <<mealie, recipe, reported, disturbed>>

CreateLost(q, n) ==
  /\ Missing(q, n)
  /\ ~Refuses(n)
  /\ mealie' = mealie \cup {n}
  /\ req' = [Added(n, q) EXCEPT ![q] = Idle]
  /\ UNCHANGED <<recipe, reported, disturbed>>

(* Wrong variant: the collection that is remembered is searched. *)
RereadNothing(q) == req[q].cache

(* Wrong variant: the entity is taken to exist under the name refused. *)
RereadAssumed(q) == req[q].cache \cup {req[q].name}

Reread(q) == req[q].cache \cup OfKind(Kind(req[q].name))

(* What the error told is searched for, then the name that was asked for. *)
Recovered(q, hint) ==
  LET told == Matches(Reread(q), req[q].name, hint) IN
  IF told # {} THEN told
  ELSE Matches(Reread(q), req[q].name, [hint EXCEPT !.name = TRUE])

(* After a conflict the collection is read again; or the request is given up. *)
Recover(q, hint) ==
  /\ req[q].pc = "conflict"
  /\ LET n == req[q].name IN
     \/ \E e \in Recovered(q, hint) :
          req' = [req EXCEPT ![q].todo = @ \ {n}, ![q].found[n] = e, ![q].name = None,
                             ![q].pc = "resolve", ![q].cache = Reread(q)]
     \/ Recovered(q, hint) = {} /\ req' = [req EXCEPT ![q] = Idle]
  /\ UNCHANGED <<mealie, recipe, reported, disturbed>>

(* Everything is resolved: an import goes on in ImportQueue. *)
EndResolution(q) ==
  /\ req[q].pc = "resolve"
  /\ req[q].todo = {}
  /\ req' = IF req[q].op = "import" THEN [req EXCEPT ![q] = Idle]
            ELSE [req EXCEPT ![q].pc = "patch"]
  /\ UNCHANGED <<mealie, recipe, reported, disturbed>>

(* A call to Mealie fails, and with it the request. *)
FailResolution(q) ==
  /\ req[q].pc \in {"resolve", "conflict"}
  /\ req' = [req EXCEPT ![q] = Idle]
  /\ UNCHANGED <<mealie, recipe, reported, disturbed>>

-----------------------------------------------------------------------------
(* Upgrade *)

(* The recipe is patched; if that fails, it may have been patched or not. *)
Patch(q) ==
  /\ req[q].pc = "patch"
  /\ \/ /\ recipe' = [recipe EXCEPT ![req[q].recipe] = req[q].found]
        /\ \E pc \in {"verify", "rollback"} : req' = [req EXCEPT ![q].pc = pc]
     \/ /\ recipe' = recipe
        /\ req' = [req EXCEPT ![q].pc = "rollback"]
  /\ UNCHANGED <<mealie, reported, disturbed>>

(***************************************************************************)
(* verify_native_structure of the recipe that is read again: organizers    *)
(* by their ids, foods by their names.                                     *)
(***************************************************************************)
Verified(q) ==
  \A n \in Uses(req[q].recipe) :
    LET e == recipe[req[q].recipe][n] IN
    IF Kind(n) = "organizer" THEN e = req[q].found[n] ELSE e # None /\ Key(e) = Key(n)

EndUpgrade(q) ==
  /\ req[q].pc = "verify"
  /\ Verified(q)
  /\ reported' = reported \cup {req[q].recipe}
  /\ req' = [req EXCEPT ![q] = Idle]
  /\ UNCHANGED <<mealie, recipe, disturbed>>

(* It differs, or could not be read. *)
RejectUpgrade(q) ==
  /\ req[q].pc = "verify"
  /\ req' = [req EXCEPT ![q].pc = "rollback"]
  /\ UNCHANGED <<mealie, recipe, reported, disturbed>>

(* Wrong variant: the links are cleared, whatever the recipe had. *)
RolledBackToText(q) == NoLinks

RolledBack(q) == req[q].before

(* The recipe that was read is written back, or not even that succeeds. *)
Rollback(q) ==
  /\ req[q].pc = "rollback"
  /\ \/ /\ recipe' = [recipe EXCEPT ![req[q].recipe] = RolledBack(q)]
        /\ UNCHANGED disturbed
     \/ /\ disturbed' = disturbed \cup {req[q].recipe}
        /\ UNCHANGED recipe
  /\ req' = [req EXCEPT ![q] = Idle]
  /\ UNCHANGED <<mealie, reported>>

-----------------------------------------------------------------------------
Next ==
  \/ \E n \in Names : AddByHand(n)
  \/ \E q \in Requests :
       \/ \E r \in Recipes : BeginImport(q, r) \/ BeginUpgrade(q, r)
       \/ \E n \in Names : \/ ReadCollection(q, n) \/ Reuse(q, n)
                           \/ Create(q, n) \/ CreateRefused(q, n) \/ CreateLost(q, n)
       \/ \E hint \in Hints : Recover(q, hint)
       \/ EndResolution(q) \/ FailResolution(q)
       \/ Patch(q) \/ EndUpgrade(q) \/ RejectUpgrade(q) \/ Rollback(q)

Spec == Init /\ [][Next]_vars

-----------------------------------------------------------------------------
(* Properties *)

(***************************************************************************)
(* CHANGELOG.md:128, "without duplicate creation": a request that nobody   *)
(* else created an entity beside creates none that is like one there is.   *)
(***************************************************************************)
NoDuplicateCreation ==
  [][\A q \in Requests, n \in Names :
       Create(q, n) /\ req[q].calm =>
         \A e \in mealie : Kind(e) = Kind(n) => Key(e) # Key(n)]_vars

(***************************************************************************)
(* CHANGELOG.md:127, conflicts recover: a request is given up after one    *)
(* for two reasons only.  The error told a group, and what is in the way   *)
(* is listed without one (group_matches); or the error told no slug, and   *)
(* organizers of other names have it.                                      *)
(***************************************************************************)
ConflictsAreRecovered ==
  [][\A q \in Requests, hint \in Hints :
       Recover(q, hint) /\ req'[q] = Idle =>
         LET n == req[q].name IN
         \/ hint.group /\ \E e \in InTheWay(n) : ~Grouped(e)
         \/ /\ Kind(n) = "organizer" /\ ~hint.slug
            /\ \A e \in InTheWay(n) : Key(e) # Key(n)]_vars

(***************************************************************************)
(* A recipe that was reported upgraded keeps its links, and foods of its   *)
(* own names: an upgrade that fails later undoes what it did, and nothing  *)
(* else.  A recipe with a tag of another name is upgraded again at every   *)
(* request, since BeginUpgrade compares names and EndUpgrade ids.          *)
(* Excepted are recipes whose upgrade is under way, those that could not   *)
(* be written back, and those that two requests upgraded at once: the one  *)
(* that fails writes the text back over the other's work.                  *)
(***************************************************************************)
UpgradeIsKept ==
  \A r \in reported \ disturbed :
    (\A q \in Requests : ~(req[q].recipe = r /\ req[q].pc \in {"verify", "rollback"})) =>
      \A n \in Uses(r) :
        /\ recipe[r][n] # None
        /\ Kind(n) = "food" => Key(recipe[r][n]) = Key(n)
=============================================================================
