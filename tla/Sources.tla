------------------------------- MODULE Sources -------------------------------
(***************************************************************************)
(* The synchronization of one source of recipes, app/github_sources.py: a  *)
(* clone of a GitHub repository below DATA_DIR and the rows of its files   *)
(* in source_recipes.                                                      *)
(*                                                                         *)
(* The handlers are threads.  Nothing keeps two of them from synchronizing *)
(* the same source: they share the working tree, FETCH_HEAD and the rows,  *)
(* and each decides on what it read, in steps that any other may come      *)
(* between.  SQLAlchemy writes at the commit, and only the attributes that *)
(* differ from those read.                                                 *)
(*                                                                         *)
(* The status of a row is left out: it is compared with "imported" (line   *)
(* 444), which no code ever stores there.  A digest stands for the content *)
(* and what is taken from it (title, category, text for the search).       *)
(***************************************************************************)
EXTENDS Naturals, Sequences

CONSTANTS
  Paths,       \* Markdown files that may be in the repository
  Digests,     \* digests of their contents
  Syncs,       \* requests that may synchronize at once
  MaxCommits,  \* bound on the commits of the repository
  None

ASSUME SourcesAssumption ==
  /\ MaxCommits \in Nat \ {0}
  /\ None \notin Digests

VARIABLES
  upstream,  \* GitHub: the tree of each commit
  repo,      \* the clone: absent, partial (.git without a commit) or ready
  cloner,    \* the request whose git clone writes it
  fetched,   \* FETCH_HEAD of the clone, 0 if there is none
  head,      \* the commit checked out, 0 if there is none
  row,       \* the rows of source_recipes
  source,    \* the row of recipe_sources
  sync       \* the requests in progress

vars == <<upstream, repo, cloner, fetched, head, row, source, sync>>

Commits == 1..MaxCommits
Tree == [Paths -> Digests \cup {None}]

(* A row, or that there is none. *)
NoRow == [digest |-> None, commit |-> 0, active |-> FALSE]
RowType == [digest: Digests, commit: Commits, active: BOOLEAN] \cup {NoRow}

(***************************************************************************)
(* The source: whether its branch is known, the commit last synchronized,  *)
(* whether the last attempt failed, and whether its interval has elapsed.  *)
(***************************************************************************)
SourceType == [branch: BOOLEAN, last: 0..MaxCommits, error: BOOLEAN, due: BOOLEAN]

(***************************************************************************)
(* A request: what is next, the source as it was read, the commit that it  *)
(* writes, the rows it read, the files still to be read, what was read of  *)
(* them, and whether no other request ran meanwhile (for checking).        *)
(***************************************************************************)
Steps == {"git", "clone", "cloning", "reset", "head", "rows", "list", "read"}
SyncType == [pc: Steps, branch: BOOLEAN, last: 0..MaxCommits, error: BOOLEAN,
             commit: 0..MaxCommits, rows: [Paths -> RowType], left: SUBSET Paths, seen: Tree,
             alone: BOOLEAN]
NoTree == [p \in Paths |-> None]
Idle == [pc |-> "idle", branch |-> FALSE, last |-> 0, error |-> FALSE, commit |-> 0,
         rows |-> [p \in Paths |-> NoRow], left |-> {}, seen |-> NoTree, alone |-> FALSE]

TypeOK ==
  /\ upstream \in Seq(Tree) /\ Len(upstream) \in Commits
  /\ repo \in {"absent", "partial", "ready"}
  /\ cloner \in Syncs \cup {None}
  /\ fetched \in 0..Len(upstream)
  /\ head \in 0..Len(upstream)
  /\ row \in [Paths -> RowType]
  /\ source \in SourceType
  /\ sync \in [Syncs -> SyncType \cup {Idle}]
  /\ repo = "absent" => cloner = None /\ head = 0 /\ fetched = 0

(* The source was just created: nothing is cloned yet. *)
Init ==
  /\ upstream \in [1..1 -> Tree]
  /\ repo = "absent"
  /\ cloner = None
  /\ fetched = 0
  /\ head = 0
  /\ row = [p \in Paths |-> NoRow]
  /\ \E b \in BOOLEAN : source = [branch |-> b, last |-> 0, error |-> FALSE, due |-> TRUE]
  /\ sync = [s \in Syncs |-> Idle]

-----------------------------------------------------------------------------
(* Surroundings *)

Push(p, d) ==
  /\ Len(upstream) < MaxCommits
  /\ upstream[Len(upstream)][p] # d
  /\ upstream' = Append(upstream, [upstream[Len(upstream)] EXCEPT ![p] = d])
  /\ UNCHANGED <<repo, cloner, fetched, head, row, source, sync>>

(* The sync interval of the source elapses. *)
Elapse ==
  /\ ~source.due
  /\ source' = [source EXCEPT !.due = TRUE]
  /\ UNCHANGED <<upstream, repo, cloner, fetched, head, row, sync>>

(***************************************************************************)
(* The server is restarted: requests are forgotten and git is killed.      *)
(***************************************************************************)
Restart ==
  /\ \E s \in Syncs : sync[s] # Idle
  /\ sync' = [s \in Syncs |-> Idle]
  /\ cloner' = None
  /\ UNCHANGED <<upstream, repo, fetched, head, row, source>>

-----------------------------------------------------------------------------
(* Requests *)

Busy(s) == \E t \in Syncs \ {s} : sync[t] # Idle

Started(s) ==
  [pc |-> "git", branch |-> source.branch, last |-> source.last, error |-> source.error,
   commit |-> 0, rows |-> [p \in Paths |-> NoRow], left |-> {}, seen |-> NoTree,
   alone |-> ~Busy(s)]

(* Who runs at the same time as another does not run alone. *)
Begin(s) ==
  /\ sync[s] = Idle
  /\ sync' = [t \in Syncs |->
                IF t = s THEN Started(s)
                ELSE IF sync[t] = Idle THEN Idle ELSE [sync[t] EXCEPT !.alone = FALSE]]

(* create_github_source, and sync_github_source *)
BeginSync(s) ==
  /\ Begin(s)
  /\ UNCHANGED <<upstream, repo, cloner, fetched, head, row, source>>

(* sync_due_sources: a source that never was synchronized stays due. *)
BeginDue(s) ==
  /\ source.due
  /\ Begin(s)
  /\ UNCHANGED <<upstream, repo, cloner, fetched, head, row, source>>

Goto(s, pc) == sync' = [sync EXCEPT ![s].pc = pc]

(* synchronize_source: whether there is a clone is looked up first. *)
FindNoClone(s) ==
  /\ sync[s].pc = "git"
  /\ repo = "absent"
  /\ Goto(s, "clone")
  /\ UNCHANGED <<upstream, repo, cloner, fetched, head, row, source>>

(***************************************************************************)
(* git clone refuses a directory that holds files; but one that another    *)
(* request had only begun to clone into may be removed first, and the      *)
(* clone of the other is lost.                                             *)
(***************************************************************************)
BeginClone(s) ==
  /\ sync[s].pc = "clone"
  /\ repo = "absent" \/ (repo = "partial" /\ head = 0)
  /\ repo' = "partial"
  /\ cloner' = s
  /\ sync' = [sync EXCEPT ![s].pc = "cloning", ![s].commit = Len(upstream)]
  /\ UNCHANGED <<upstream, fetched, head, row, source>>

EndClone(s) ==
  /\ sync[s].pc = "cloning"
  /\ cloner = s
  /\ repo # "absent"
  /\ repo' = "ready"
  /\ cloner' = None
  /\ \E n \in sync[s].commit..Len(upstream) : head' = n
  /\ Goto(s, "head")
  /\ UNCHANGED <<upstream, fetched, row, source>>

(* git tells the branch of a clone that has a commit, and no other. *)
BranchKnown(s) == sync[s].branch \/ head # 0

Fetch(s) ==
  /\ sync[s].pc = "git"
  /\ repo # "absent"
  /\ BranchKnown(s)
  /\ fetched' = Len(upstream)
  /\ Goto(s, "reset")
  /\ UNCHANGED <<upstream, repo, cloner, head, row, source>>

(* Wrong variant: a reset to what is checked out. *)
CheckOutHead == head' = IF head = 0 THEN fetched ELSE head

(* git reset --hard FETCH_HEAD, whoever fetched it. *)
CheckOut == head' = fetched

Reset(s) ==
  /\ sync[s].pc = "reset"
  /\ repo # "absent"
  /\ fetched # 0
  /\ repo' = "ready"
  /\ CheckOut
  /\ Goto(s, "head")
  /\ UNCHANGED <<upstream, cloner, fetched, row, source>>

(* git rev-parse HEAD *)
ReadHead(s) ==
  /\ sync[s].pc = "head"
  /\ head # 0
  /\ sync' = [sync EXCEPT ![s].pc = "rows", ![s].commit = head]
  /\ UNCHANGED <<upstream, repo, cloner, fetched, head, row, source>>

ReadRows(s) ==
  /\ sync[s].pc = "rows"
  /\ sync' = [sync EXCEPT ![s].pc = "list", ![s].rows = row]
  /\ UNCHANGED <<upstream, repo, cloner, fetched, head, row, source>>

Files == IF head = 0 THEN NoTree ELSE upstream[head]

(* The directory is listed, then its files are read one after another. *)
List(s) ==
  /\ sync[s].pc = "list"
  /\ sync' = [sync EXCEPT ![s].pc = "read", ![s].left = {p \in Paths : Files[p] # None}]
  /\ UNCHANGED <<upstream, repo, cloner, fetched, head, row, source>>

ReadFile(s, p) ==
  /\ sync[s].pc = "read"
  /\ p \in sync[s].left
  /\ sync' = [sync EXCEPT ![s].left = @ \ {p}, ![s].seen[p] = Files[p]]
  /\ UNCHANGED <<upstream, repo, cloner, fetched, head, row, source>>

(* Wrong variants: a file that is gone leaves its row active; the commit is *)
(* noted for every path.                                                   *)
WantedKeepingRemoved(s, p) ==
  IF sync[s].seen[p] # None
  THEN [digest |-> sync[s].seen[p], commit |-> sync[s].commit, active |-> TRUE]
  ELSE sync[s].rows[p]
WantedEverywhere(s, p) ==
  [digest |-> IF sync[s].seen[p] # None THEN sync[s].seen[p] ELSE sync[s].rows[p].digest,
   commit |-> sync[s].commit, active |-> sync[s].seen[p] # None]

(* What the row of a path becomes: what was read, or inactive. *)
Wanted(s, p) ==
  IF sync[s].seen[p] # None
  THEN [digest |-> sync[s].seen[p], commit |-> sync[s].commit, active |-> TRUE]
  ELSE [digest |-> sync[s].rows[p].digest, commit |-> sync[s].rows[p].commit, active |-> FALSE]

Changed(new, read, now) == IF new = read THEN now ELSE new

(* A row after the commit: what was read differently, and no more. *)
Written(s, p) ==
  LET new == Wanted(s, p)
      read == sync[s].rows[p] IN
  [digest |-> Changed(new.digest, read.digest, row[p].digest),
   commit |-> Changed(new.commit, read.commit, row[p].commit),
   active |-> Changed(new.active, read.active, row[p].active)]

(* The source after it: the same of the commit and the error, which may leave *)
(* what another request wrote meanwhile.                                      *)
SourceWritten(s) ==
  [branch |-> TRUE,
   last |-> Changed(sync[s].commit, sync[s].last, source.last),
   error |-> Changed(FALSE, sync[s].error, source.error),
   due |-> FALSE]

(* uq_source_recipe_path: another request inserted the row meanwhile. *)
Conflict(s) ==
  \E p \in Paths : sync[s].rows[p] = NoRow /\ sync[s].seen[p] # None /\ row[p] # NoRow

CommitSync(s) ==
  /\ sync[s].pc = "read"
  /\ sync[s].left = {}
  /\ ~Conflict(s)
  /\ row' = [p \in Paths |-> Written(s, p)]
  /\ source' = SourceWritten(s)
  /\ sync' = [sync EXCEPT ![s] = Idle]
  /\ UNCHANGED <<upstream, repo, cloner, fetched, head>>

(***************************************************************************)
(* A step fails: git, the file system or the database, or there is no      *)
(* directory of recipes.  The rows are rolled back, and the error is kept: *)
(* what was read of the source is given up, so that it is written whatever *)
(* it was.                                                                 *)
(* A clone that fails removes what it wrote, unless it was killed when its *)
(* time was up.                                                            *)
(***************************************************************************)
FailSync(s) ==
  /\ sync[s] # Idle
  /\ \/ UNCHANGED <<repo, fetched, head>>
     \/ /\ cloner = s
        /\ repo' = "absent"
        /\ head' = 0
        /\ fetched' = 0
  /\ cloner' = IF cloner = s THEN None ELSE cloner
  /\ source' = [source EXCEPT !.error = TRUE]
  /\ sync' = [sync EXCEPT ![s] = Idle]
  /\ UNCHANGED <<upstream, row>>

-----------------------------------------------------------------------------
SyncStep(s) ==
  \/ FindNoClone(s) \/ BeginClone(s) \/ EndClone(s)
  \/ Fetch(s) \/ Reset(s) \/ ReadHead(s)
  \/ ReadRows(s) \/ List(s) \/ (\E p \in Paths : ReadFile(s, p))
  \/ CommitSync(s) \/ FailSync(s)

Next ==
  \/ Elapse \/ Restart
  \/ \E p \in Paths, d \in Digests \cup {None} : Push(p, d)
  \/ \E s \in Syncs : BeginSync(s) \/ BeginDue(s) \/ SyncStep(s)

Spec == Init /\ [][Next]_vars

(* run_git bounds every command, and the rest of a request awaits nobody. *)
Fairness == \A s \in Syncs : WF_vars(SyncStep(s))

FairSpec == Spec /\ Fairness

-----------------------------------------------------------------------------
(* Properties *)

(* The rows tell the files of a commit. *)
Indexes(rows, n) ==
  \A p \in Paths :
    /\ rows[p].active = (upstream[n][p] # None)
    /\ rows[p].active => rows[p].digest = upstream[n][p]

(***************************************************************************)
(* A synchronization that succeeds, and that no other ran beside, leaves   *)
(* the rows as the files of the commit it records, and with that commit,   *)
(* whatever those that raced or failed before it left behind.              *)
(***************************************************************************)
LoneSyncIsExact ==
  [][\A s \in Syncs :
       CommitSync(s) /\ sync[s].alone
         => /\ Indexes(row', source'.last)
            /\ \A p \in Paths : row'[p].active => row'[p].commit = source'.last]_vars

(* The condition of the property below. *)
SyncedAgainAndAgain == []<><<\E s \in Syncs : CommitSync(s)>>_vars

UpToDate == Indexes(row, Len(upstream)) /\ source.last = Len(upstream)

(***************************************************************************)
(* If synchronizations keep succeeding on a clone that lasts, the rows end *)
(* up as the repository is, though any number of them race and write what  *)
(* they read long ago.                                                     *)
(***************************************************************************)
IndexFollowsRepository ==
  SyncedAgainAndAgain /\ <>[](repo = "ready") => <>[]UpToDate
=============================================================================
