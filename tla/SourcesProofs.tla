---------------------------- MODULE SourcesProofs ----------------------------
(***************************************************************************)
(* Proofs about Sources, for any files, contents, requests and commits.    *)
(***************************************************************************)
EXTENDS Sources, SequenceTheorems, TLAPS

(* The commit that a request writes is one of the repository. *)
CommitIsKnown ==
  \A s \in Syncs : sync[s].pc \in {"rows", "list", "read"} =>
    sync[s].commit \in 1..Len(upstream)

(* A row that a request has read is there for good. *)
RowsStay ==
  \A s \in Syncs : sync[s].pc \in {"list", "read"} =>
    \A p \in Paths : sync[s].rows[p] # NoRow => row[p] # NoRow

(* A request that runs alone does. *)
AloneIsAlone ==
  \A s, t \in Syncs : sync[s].alone /\ s # t => sync[t] = Idle

(* What it has read is what there is. *)
AloneSeesAll ==
  \A s \in Syncs : sync[s].alone =>
    /\ sync[s].last = source.last
    /\ sync[s].pc \in {"rows", "list", "read"} => sync[s].commit = head
    /\ sync[s].pc \in {"list", "read"} => sync[s].rows = row
    /\ sync[s].pc # "read" => sync[s].seen = NoTree
    /\ sync[s].pc = "read" =>
         \A p \in Paths \ sync[s].left : sync[s].seen[p] = upstream[head][p]

(* The inductive invariant. *)
SourcesInvariant ==
  /\ TypeOK
  /\ CommitIsKnown
  /\ RowsStay
  /\ AloneIsAlone
  /\ AloneSeesAll

-----------------------------------------------------------------------------
LEMMA IdleFields ==
  /\ Idle.pc = "idle" /\ Idle.alone = FALSE /\ Idle.commit = 0 /\ Idle.branch = FALSE
  /\ Idle.last = 0 /\ Idle.error = FALSE
  /\ Idle.rows = [p \in Paths |-> NoRow] /\ Idle.left = {} /\ Idle.seen = NoTree
BY DEF Idle

LEMMA SourcesInit == Init => SourcesInvariant
<1> SUFFICES ASSUME Init PROVE SourcesInvariant
  OBVIOUS
<1>1. upstream \in Seq(Tree) /\ Len(upstream) = 1
  <2>1. upstream \in [1..1 -> Tree]
    BY DEF Init
  <2>2. upstream \in Seq(Tree)
    BY <2>1, SeqDef
  <2> QED
    BY <2>1, <2>2, LenProperties
<1>2. TypeOK
  BY <1>1, SourcesAssumption DEF Init, TypeOK, RowType, SourceType, Commits
<1> QED
  BY <1>2, IdleFields DEF Init, SourcesInvariant, CommitIsKnown, RowsStay, AloneIsAlone, AloneSeesAll

LEMMA RunningTypes ==
  ASSUME TypeOK, NEW s \in Syncs, sync[s].pc # "idle"
  PROVE  /\ sync[s] \in SyncType /\ sync[s] # Idle
         /\ sync[s].commit \in 0..MaxCommits /\ sync[s].rows \in [Paths -> RowType]
         /\ sync[s].left \in SUBSET Paths /\ sync[s].seen \in Tree
         /\ sync[s].last \in 0..MaxCommits /\ sync[s].error \in BOOLEAN
         /\ sync[s].branch \in BOOLEAN /\ sync[s].alone \in BOOLEAN /\ sync[s].pc \in Steps
<1>1. sync[s] \in SyncType
  BY IdleFields DEF TypeOK
<1> QED
  BY <1>1, IdleFields DEF SyncType

(***************************************************************************)
(* A step of one request that writes no row: it goes on as x, and may      *)
(* change the clone; a request that runs alone is not another.             *)
(***************************************************************************)
LEMMA OwnStep ==
  ASSUME SourcesInvariant, NEW s \in Syncs, NEW x \in SyncType, sync[s].pc # "idle",
         sync' = [sync EXCEPT ![s] = x], x.alone = sync[s].alone, x.last = sync[s].last,
         UNCHANGED <<upstream, row, source>>,
         repo' \in {"absent", "partial", "ready"}, cloner' \in Syncs \cup {None},
         fetched' \in 0..Len(upstream), head' \in 0..Len(upstream),
         repo' = "absent" => cloner' = None /\ head' = 0 /\ fetched' = 0,
         x.pc \in {"rows", "list", "read"} => x.commit \in 1..Len(upstream),
         x.pc \in {"list", "read"} => \A p \in Paths : x.rows[p] # NoRow => row[p] # NoRow,
         x.alone =>
           /\ x.pc \in {"rows", "list", "read"} => x.commit = head'
           /\ x.pc \in {"list", "read"} => x.rows = row
           /\ x.pc # "read" => x.seen = NoTree
           /\ x.pc = "read" => \A p \in Paths \ x.left : x.seen[p] = upstream[head'][p]
  PROVE  SourcesInvariant'
<1> USE DEF SourcesInvariant
<1>1. /\ sync' \in [Syncs -> SyncType \cup {Idle}]
      /\ sync'[s] = x
      /\ \A t \in Syncs : t # s => sync'[t] = sync[t]
  BY DEF TypeOK
<1>2. sync[s] # Idle
  BY IdleFields
<1>3. TypeOK'
  BY <1>1 DEF TypeOK
<1>4. CommitIsKnown' /\ RowsStay'
  BY <1>1 DEF CommitIsKnown, RowsStay
<1>5. AloneIsAlone'
  BY <1>1, <1>2 DEF AloneIsAlone
<1>6. AloneSeesAll'
  BY <1>1, <1>2 DEF AloneSeesAll, AloneIsAlone
<1> QED
  BY <1>3, <1>4, <1>5, <1>6

(* A request goes on with pc, and notes the commit n. *)
Onward(s, pc, n) == [sync[s] EXCEPT !.pc = pc, !.commit = n]

LEMMA OnwardFields ==
  ASSUME TypeOK, NEW s \in Syncs, sync[s].pc # "idle", NEW pc \in Steps, NEW n \in 0..MaxCommits
  PROVE  LET x == Onward(s, pc, n) IN
         /\ x \in SyncType /\ x.pc = pc /\ x.commit = n
         /\ x.alone = sync[s].alone /\ x.last = sync[s].last /\ x.rows = sync[s].rows
         /\ x.left = sync[s].left /\ x.seen = sync[s].seen
BY RunningTypes DEF SyncType, Onward

(* It does so without a look at the files. *)
LEMMA GitStep ==
  ASSUME SourcesInvariant, NEW s \in Syncs, sync[s].pc \in {"git", "clone", "cloning", "reset"},
         NEW pc \in {"clone", "cloning", "reset", "head"}, NEW n \in 0..MaxCommits,
         sync' = [sync EXCEPT ![s] = Onward(s, pc, n)],
         UNCHANGED <<upstream, row, source>>,
         repo' \in {"absent", "partial", "ready"}, cloner' \in Syncs \cup {None},
         fetched' \in 0..Len(upstream), head' \in 0..Len(upstream),
         repo' = "absent" => cloner' = None /\ head' = 0 /\ fetched' = 0
  PROVE  SourcesInvariant'
<1> DEFINE x == Onward(s, pc, n)
<1>1. TypeOK /\ pc \in Steps /\ sync[s].pc # "idle"
  BY DEF SourcesInvariant, Steps
<1>2. /\ x \in SyncType /\ x.pc = pc
      /\ x.alone = sync[s].alone /\ x.last = sync[s].last /\ x.seen = sync[s].seen
  BY <1>1, OnwardFields
<1>3. x.alone => x.seen = NoTree
  BY <1>2 DEF SourcesInvariant, AloneSeesAll
<1> QED
  BY <1>1, <1>2, <1>3, OwnStep

LEMMA LenUpstream ==
  TypeOK => Len(upstream) \in 1..MaxCommits /\ 0..Len(upstream) \subseteq 0..MaxCommits
BY SourcesAssumption DEF TypeOK, Commits

LEMMA SameCommit ==
  ASSUME TypeOK, NEW s \in Syncs, sync[s].pc # "idle", NEW pc,
         sync' = [sync EXCEPT ![s].pc = pc]
  PROVE  sync' = [sync EXCEPT ![s] = Onward(s, pc, sync[s].commit)]
<1>1. [sync[s] EXCEPT !.pc = pc] = [sync[s] EXCEPT !.pc = pc, !.commit = sync[s].commit]
  BY RunningTypes DEF SyncType
<1>2. sync' = [sync EXCEPT ![s] = [sync[s] EXCEPT !.pc = pc]]
  BY Zenon
<1> QED
  BY <1>1, <1>2, Zenon DEF Onward

LEMMA GitKeepsInvariant ==
  ASSUME SourcesInvariant, NEW s \in Syncs,
         FindNoClone(s) \/ BeginClone(s) \/ EndClone(s) \/ Fetch(s) \/ Reset(s)
  PROVE  SourcesInvariant'
<1>1. TypeOK /\ sync[s].pc \in {"git", "clone", "cloning", "reset"}
  BY DEF SourcesInvariant, FindNoClone, BeginClone, EndClone, Fetch, Reset
<1>2. /\ Len(upstream) \in 1..MaxCommits /\ sync[s].commit \in 0..MaxCommits
      /\ repo \in {"absent", "partial", "ready"} /\ cloner \in Syncs \cup {None}
      /\ fetched \in 0..Len(upstream) /\ head \in 0..Len(upstream)
      /\ repo = "absent" => cloner = None /\ head = 0 /\ fetched = 0
  BY <1>1, LenUpstream, RunningTypes DEF TypeOK
<1>3. CASE FindNoClone(s)
  <2>1. sync' = [sync EXCEPT ![s].pc = "clone"]
        /\ UNCHANGED <<upstream, repo, cloner, fetched, head, row, source>>
    BY <1>3 DEF FindNoClone, Goto
  <2>2. sync' = [sync EXCEPT ![s] = Onward(s, "clone", sync[s].commit)]
    BY <1>1, <2>1, SameCommit
  <2>3. /\ repo' \in {"absent", "partial", "ready"} /\ cloner' \in Syncs \cup {None}
        /\ fetched' \in 0..Len(upstream) /\ head' \in 0..Len(upstream)
        /\ repo' = "absent" => cloner' = None /\ head' = 0 /\ fetched' = 0
        /\ UNCHANGED <<upstream, row, source>>
    BY <1>2, <2>1
  <2> QED
    BY <1>1, <1>2, <2>2, <2>3, GitStep
<1>4. CASE BeginClone(s)
  <2>1. sync' = [sync EXCEPT ![s] = Onward(s, "cloning", Len(upstream))]
    BY <1>4, Zenon DEF BeginClone, Onward
  <2>2. repo' = "partial" /\ cloner' = s /\ UNCHANGED <<upstream, fetched, head, row, source>>
    BY <1>4 DEF BeginClone
  <2>3. Len(upstream) \in 0..MaxCommits
    BY <1>2, SourcesAssumption
  <2>4. /\ repo' \in {"absent", "partial", "ready"} /\ cloner' \in Syncs \cup {None}
        /\ fetched' \in 0..Len(upstream) /\ head' \in 0..Len(upstream)
        /\ repo' # "absent"
    BY <1>2, <2>2
  <2> QED
    BY <1>1, <2>1, <2>2, <2>3, <2>4, GitStep
<1>5. CASE EndClone(s)
  <2>1. /\ sync' = [sync EXCEPT ![s].pc = "head"]
        /\ repo' = "ready" /\ cloner' = None
        /\ \E n \in sync[s].commit..Len(upstream) : head' = n
        /\ UNCHANGED <<upstream, fetched, row, source>>
    BY <1>5 DEF EndClone, Goto
  <2>2. sync' = [sync EXCEPT ![s] = Onward(s, "head", sync[s].commit)]
    BY <1>1, <2>1, SameCommit
  <2>3. head' \in 0..Len(upstream)
    BY <1>2, <2>1
  <2> QED
    BY <1>1, <1>2, <2>1, <2>2, <2>3, GitStep
<1>6. CASE Fetch(s)
  <2>1. /\ sync' = [sync EXCEPT ![s].pc = "reset"]
        /\ fetched' = Len(upstream) /\ repo # "absent"
        /\ UNCHANGED <<upstream, repo, cloner, head, row, source>>
    BY <1>6 DEF Fetch, Goto
  <2>2. sync' = [sync EXCEPT ![s] = Onward(s, "reset", sync[s].commit)]
    BY <1>1, <2>1, SameCommit
  <2>3. fetched' \in 0..Len(upstream)
    BY <1>2, <2>1
  <2> QED
    BY <1>1, <1>2, <2>1, <2>2, <2>3, GitStep
<1>7. CASE Reset(s)
  <2>1. /\ sync' = [sync EXCEPT ![s].pc = "head"]
        /\ repo' = "ready" /\ head' = fetched
        /\ UNCHANGED <<upstream, cloner, fetched, row, source>>
    BY <1>7 DEF Reset, Goto, CheckOut
  <2>2. sync' = [sync EXCEPT ![s] = Onward(s, "head", sync[s].commit)]
    BY <1>1, <2>1, SameCommit
  <2> QED
    BY <1>1, <1>2, <2>1, <2>2, GitStep
<1> QED
  BY <1>3, <1>4, <1>5, <1>6, <1>7

(***************************************************************************)
(* The steps that read: each notes what there is.                          *)
(***************************************************************************)
LEMMA ReadHeadKeepsInvariant ==
  ASSUME SourcesInvariant, NEW s \in Syncs, ReadHead(s)
  PROVE  SourcesInvariant'
<1> DEFINE x == Onward(s, "rows", head)
<1>1. /\ TypeOK /\ sync[s].pc = "head" /\ head # 0
      /\ UNCHANGED <<upstream, repo, cloner, fetched, head, row, source>>
  BY DEF SourcesInvariant, ReadHead
<1>2. sync' = [sync EXCEPT ![s] = x]
  BY Zenon DEF ReadHead, Onward
<1>3. Len(upstream) \in 1..MaxCommits /\ head \in 1..Len(upstream) /\ head \in 0..MaxCommits
  BY <1>1, LenUpstream, SourcesAssumption DEF TypeOK
<1>4. /\ x \in SyncType /\ x.pc = "rows" /\ x.commit = head
      /\ x.alone = sync[s].alone /\ x.last = sync[s].last /\ x.seen = sync[s].seen
  BY <1>1, <1>3, OnwardFields DEF Steps
<1> HIDE DEF x
<1>5. x.alone => x.seen = NoTree
  BY <1>1, <1>4 DEF SourcesInvariant, AloneSeesAll
<1>6. /\ repo' \in {"absent", "partial", "ready"} /\ cloner' \in Syncs \cup {None}
      /\ fetched' \in 0..Len(upstream) /\ head' \in 0..Len(upstream)
      /\ repo' = "absent" => cloner' = None /\ head' = 0 /\ fetched' = 0
  BY <1>1 DEF TypeOK
<1> QED
  BY <1>1, <1>2, <1>3, <1>4, <1>5, <1>6, OwnStep

(* A step of s that leaves everything but s alone. *)
LEMMA LookingStep ==
  ASSUME SourcesInvariant, NEW s \in Syncs, NEW x \in SyncType,
         sync[s].pc \in {"rows", "list", "read"}, x.pc \in {"list", "read"},
         sync' = [sync EXCEPT ![s] = x], x.alone = sync[s].alone, x.last = sync[s].last,
         x.commit = sync[s].commit, UNCHANGED <<upstream, repo, cloner, fetched, head, row, source>>,
         \A p \in Paths : x.rows[p] # NoRow => row[p] # NoRow,
         x.alone => /\ x.rows = row
                    /\ x.pc # "read" => x.seen = NoTree
                    /\ x.pc = "read" => \A p \in Paths \ x.left : x.seen[p] = upstream[head][p]
  PROVE  SourcesInvariant'
<1>1. sync[s].pc # "idle" /\ x.commit \in 1..Len(upstream)
  BY DEF SourcesInvariant, CommitIsKnown
<1>2. x.alone => x.commit = head
  BY DEF SourcesInvariant, AloneSeesAll
<1>3. /\ repo' \in {"absent", "partial", "ready"} /\ cloner' \in Syncs \cup {None}
      /\ fetched' \in 0..Len(upstream) /\ head' \in 0..Len(upstream)
      /\ repo' = "absent" => cloner' = None /\ head' = 0 /\ fetched' = 0
  BY DEF SourcesInvariant, TypeOK
<1> QED
  BY <1>1, <1>2, <1>3, OwnStep

LEMMA LookKeepsInvariant ==
  ASSUME SourcesInvariant, NEW s \in Syncs,
         ReadRows(s) \/ List(s) \/ \E p \in Paths : ReadFile(s, p)
  PROVE  SourcesInvariant'
<1>1. /\ TypeOK /\ sync[s].pc \in {"rows", "list", "read"}
      /\ UNCHANGED <<upstream, repo, cloner, fetched, head, row, source>>
  BY DEF SourcesInvariant, ReadRows, List, ReadFile
<1>2. /\ sync[s] \in SyncType
      /\ sync[s].left \in SUBSET Paths /\ sync[s].seen \in Tree /\ sync[s].rows \in [Paths -> RowType]
  BY <1>1, RunningTypes
<1>3. CASE ReadRows(s)
  <2> DEFINE x == [sync[s] EXCEPT !.pc = "list", !.rows = row]
  <2>1. sync' = [sync EXCEPT ![s] = x] /\ sync[s].pc = "rows"
    BY <1>3, Zenon DEF ReadRows
  <2>2. /\ x \in SyncType /\ x.pc = "list" /\ x.alone = sync[s].alone /\ x.last = sync[s].last
        /\ x.commit = sync[s].commit /\ x.rows = row /\ x.seen = sync[s].seen
    BY <1>1, <1>2 DEF SyncType, Steps, TypeOK
  <2> HIDE DEF x
  <2>3. x.alone => x.seen = NoTree
    BY <2>1, <2>2 DEF SourcesInvariant, AloneSeesAll
  <2> QED
    BY <1>1, <2>1, <2>2, <2>3, LookingStep
<1>4. CASE List(s)
  <2> DEFINE x == [sync[s] EXCEPT !.pc = "read", !.left = {p \in Paths : Files[p] # None}]
  <2>1. sync' = [sync EXCEPT ![s] = x] /\ sync[s].pc = "list"
    BY <1>4, Zenon DEF List
  <2>2. /\ x \in SyncType /\ x.pc = "read" /\ x.alone = sync[s].alone /\ x.last = sync[s].last
        /\ x.commit = sync[s].commit /\ x.rows = sync[s].rows /\ x.seen = sync[s].seen
        /\ x.left = {p \in Paths : Files[p] # None}
    BY <1>2 DEF SyncType, Steps
  <2> HIDE DEF x
  <2>3. \A p \in Paths : x.rows[p] # NoRow => row[p] # NoRow
    BY <2>1, <2>2 DEF SourcesInvariant, RowsStay
  <2>4. x.alone => x.rows = row /\ x.seen = NoTree /\ head # 0
    <3>1. sync[s].commit \in 1..Len(upstream) /\ Len(upstream) \in 1..MaxCommits
      BY <1>1, <2>1, LenUpstream DEF SourcesInvariant, CommitIsKnown
    <3>2. sync[s].commit # 0
      BY <3>1, SourcesAssumption
    <3> QED
      BY <2>1, <2>2, <3>2 DEF SourcesInvariant, AloneSeesAll
  <2>5. x.alone => \A p \in Paths \ x.left : x.seen[p] = upstream[head][p]
    BY <2>2, <2>4 DEF NoTree, Files
  <2> QED
    BY <1>1, <2>1, <2>2, <2>3, <2>4, <2>5, LookingStep
<1>5. CASE \E p \in Paths : ReadFile(s, p)
  <2>1. PICK p \in Paths : ReadFile(s, p)
    BY <1>5
  <2> DEFINE x == [sync[s] EXCEPT !.left = @ \ {p}, !.seen[p] = Files[p]]
  <2>2. sync' = [sync EXCEPT ![s] = x] /\ sync[s].pc = "read"
    BY <2>1, Zenon DEF ReadFile
  <2>3. Files \in Tree
    BY <1>1, ElementOfSeq DEF TypeOK, Files, NoTree, Tree
  <2>4. [sync[s].seen EXCEPT ![p] = Files[p]] \in Tree
    BY <1>2, <2>3 DEF Tree
  <2>5. /\ x \in SyncType /\ x.pc = "read" /\ x.alone = sync[s].alone /\ x.last = sync[s].last
        /\ x.commit = sync[s].commit /\ x.rows = sync[s].rows
        /\ x.seen = [sync[s].seen EXCEPT ![p] = Files[p]] /\ x.left = sync[s].left \ {p}
    BY <1>2, <2>2, <2>4 DEF SyncType
  <2> HIDE DEF x
  <2>6. \A f \in Paths : x.rows[f] # NoRow => row[f] # NoRow
    BY <2>2, <2>5 DEF SourcesInvariant, RowsStay
  <2>7. x.alone => x.rows = row /\ head # 0
        /\ \A f \in Paths \ sync[s].left : sync[s].seen[f] = upstream[head][f]
    <3>1. sync[s].commit \in 1..Len(upstream) /\ Len(upstream) \in 1..MaxCommits
      BY <1>1, <2>2, LenUpstream DEF SourcesInvariant, CommitIsKnown
    <3>2. sync[s].commit # 0
      BY <3>1, SourcesAssumption
    <3> QED
      BY <2>2, <2>5, <3>2 DEF SourcesInvariant, AloneSeesAll
  <2>8. ASSUME x.alone, NEW f \in Paths \ x.left
        PROVE  x.seen[f] = upstream[head][f]
    <3>1. x.seen[f] = IF f = p THEN Files[p] ELSE sync[s].seen[f]
      BY <1>2, <2>5, Zenon DEF Tree
    <3>2. f # p => f \in Paths \ sync[s].left
      BY <2>5, <2>8
    <3>3. Files[p] = upstream[head][p]
      BY <2>7, <2>8 DEF Files
    <3> QED
      BY <2>7, <2>8, <3>1, <3>2, <3>3
  <2>9. x.alone => /\ x.rows = row
                   /\ x.pc # "read" => x.seen = NoTree
                   /\ x.pc = "read" => \A f \in Paths \ x.left : x.seen[f] = upstream[head][f]
    BY <2>5, <2>7, <2>8
  <2> QED
    BY <1>1, <2>2, <2>5, <2>6, <2>9, LookingStep
<1> QED
  BY <1>3, <1>4, <1>5

(***************************************************************************)
(* The rows are written, or the request fails.                             *)
(***************************************************************************)
(* What a request has seen and read becomes rows. *)
LEMMA WantedTypes ==
  ASSUME SourcesInvariant, NEW s \in Syncs, sync[s].pc = "read", NEW p \in Paths
  PROVE  /\ sync[s].rows[p] \in RowType /\ row[p] \in RowType
         /\ sync[s].seen[p] \in Digests \cup {None}
         /\ sync[s].commit \in Commits
         /\ sync[s].rows[p] # NoRow => row[p] # NoRow
<1>1. TypeOK /\ sync[s].pc # "idle"
  BY DEF SourcesInvariant
<1>2. sync[s].rows \in [Paths -> RowType] /\ sync[s].seen \in Tree /\ row \in [Paths -> RowType]
  BY <1>1, RunningTypes DEF TypeOK
<1>3. sync[s].commit \in 1..Len(upstream) /\ Len(upstream) \in 1..MaxCommits
  BY <1>1, LenUpstream DEF SourcesInvariant, CommitIsKnown
<1>4. sync[s].commit \in Commits
  BY <1>3, SourcesAssumption DEF Commits
<1> QED
  BY <1>2, <1>4 DEF SourcesInvariant, RowsStay, Tree

LEMMA WrittenRow ==
  ASSUME SourcesInvariant, NEW s \in Syncs, sync[s].pc = "read", ~Conflict(s), NEW p \in Paths
  PROVE  /\ Written(s, p) \in RowType
         /\ row[p] # NoRow => Written(s, p) # NoRow
<1>1. /\ sync[s].rows[p] \in RowType /\ row[p] \in RowType
      /\ sync[s].seen[p] \in Digests \cup {None}
      /\ sync[s].commit \in Commits
      /\ sync[s].rows[p] # NoRow => row[p] # NoRow
  BY WantedTypes
<1>2. None \notin Digests /\ 0 \notin Commits
  BY SourcesAssumption DEF Commits
<1> DEFINE old == sync[s].rows[p]
           seen == sync[s].seen[p]
           commit == sync[s].commit
           new == Wanted(s, p)
<1>3. NoRow \in RowType /\ NoRow.digest = None /\ NoRow.commit = 0 /\ NoRow.active = FALSE
  BY DEF NoRow, RowType
<1>4. \A r \in RowType : r # NoRow => r.digest \in Digests /\ r.commit \in Commits /\ r.active \in BOOLEAN
  BY DEF RowType
<1>5. \A d \in Digests, c \in Commits, a \in BOOLEAN :
        /\ [digest |-> d, commit |-> c, active |-> a] \in RowType
        /\ [digest |-> d, commit |-> c, active |-> a] # NoRow
  BY <1>2 DEF RowType, NoRow
<1>6. seen # None => new.digest = seen /\ new.commit = commit /\ new.active = TRUE
  BY DEF Wanted
<1>7. seen = None => new.digest = old.digest /\ new.commit = old.commit /\ new.active = FALSE
  BY DEF Wanted
<1>8. seen # None /\ old = NoRow => row[p] = NoRow
  BY DEF Conflict
<1> DEFINE d == Changed(new.digest, old.digest, row[p].digest)
           c == Changed(new.commit, old.commit, row[p].commit)
           a == Changed(new.active, old.active, row[p].active)
<1>9. Written(s, p) = [digest |-> d, commit |-> c, active |-> a]
  BY DEF Written
<1> HIDE DEF new
<1>10. CASE row[p] # NoRow
  <2>1. old # NoRow \/ seen = None
    BY <1>8, <1>10
  <2>2. d \in Digests /\ c \in Commits /\ a \in BOOLEAN
    BY <1>1, <1>2, <1>3, <1>4, <1>6, <1>7, <1>10, <2>1 DEF Changed
  <2> HIDE DEF d, c, a
  <2> QED
    BY <1>5, <1>9, <2>2
<1>11. CASE row[p] = NoRow
  <2>1. old = NoRow
    BY <1>1, <1>11
  <2>2. CASE seen = None
    <3>1. d = None /\ c = 0 /\ a = FALSE
      BY <1>3, <1>7, <1>11, <2>1, <2>2 DEF Changed
    <3> HIDE DEF d, c, a
    <3> QED
      BY <1>3, <1>9, <1>11, <3>1 DEF NoRow
  <2>3. CASE seen # None
    <3>1. d = seen /\ c = commit /\ a = TRUE
      BY <1>1, <1>2, <1>3, <1>6, <2>1, <2>3 DEF Changed
    <3> HIDE DEF d, c, a
    <3>2. d \in Digests /\ c \in Commits /\ a \in BOOLEAN
      BY <1>1, <2>3, <3>1
    <3> QED
      BY <1>5, <1>9, <1>11, <3>2
  <2> QED
    BY <2>2, <2>3
<1> QED
  BY <1>10, <1>11

(* A request ends, and others never ran alone beside it. *)
LEMMA EndKeepsInvariant ==
  ASSUME SourcesInvariant, NEW s \in Syncs, sync[s].pc # "idle",
         sync' = [sync EXCEPT ![s] = Idle], upstream' = upstream,
         repo' \in {"absent", "partial", "ready"}, cloner' \in Syncs \cup {None},
         fetched' \in 0..Len(upstream), head' \in 0..Len(upstream),
         repo' = "absent" => cloner' = None /\ head' = 0 /\ fetched' = 0,
         row' \in [Paths -> RowType], \A p \in Paths : row[p] # NoRow => row'[p] # NoRow,
         source' \in SourceType
  PROVE  SourcesInvariant'
<1> USE DEF SourcesInvariant
<1>1. /\ sync' \in [Syncs -> SyncType \cup {Idle}]
      /\ sync'[s] = Idle
      /\ \A t \in Syncs : t # s => sync'[t] = sync[t]
  BY DEF TypeOK
<1>2. TypeOK'
  BY <1>1 DEF TypeOK
<1>3. CommitIsKnown' /\ RowsStay'
  BY <1>1, IdleFields DEF CommitIsKnown, RowsStay
<1>4. \A t \in Syncs : t # s => ~sync'[t].alone
  BY <1>1, IdleFields DEF AloneIsAlone
<1>5. AloneIsAlone' /\ AloneSeesAll'
  BY <1>1, <1>4, IdleFields DEF AloneIsAlone, AloneSeesAll
<1> QED
  BY <1>2, <1>3, <1>5

LEMMA CommitKeepsInvariant ==
  ASSUME SourcesInvariant, NEW s \in Syncs, CommitSync(s)
  PROVE  SourcesInvariant'
<1>1. /\ sync[s].pc = "read" /\ ~Conflict(s)
      /\ row' = [p \in Paths |-> Written(s, p)]
      /\ source' = SourceWritten(s)
      /\ sync' = [sync EXCEPT ![s] = Idle]
      /\ UNCHANGED <<upstream, repo, cloner, fetched, head>>
  BY DEF CommitSync
<1>2. row' \in [Paths -> RowType] /\ \A p \in Paths : row[p] # NoRow => row'[p] # NoRow
  BY <1>1, WrittenRow
<1>3. source' \in SourceType
  <2>1. TypeOK /\ source \in SourceType /\ sync[s].commit \in 0..MaxCommits
    BY <1>1, RunningTypes DEF SourcesInvariant, TypeOK
  <2> QED
    BY <1>1, <2>1 DEF SourceWritten, Changed, SourceType
<1>4. /\ repo' \in {"absent", "partial", "ready"} /\ cloner' \in Syncs \cup {None}
      /\ fetched' \in 0..Len(upstream) /\ head' \in 0..Len(upstream)
      /\ repo' = "absent" => cloner' = None /\ head' = 0 /\ fetched' = 0
  BY <1>1 DEF SourcesInvariant, TypeOK
<1> QED
  BY <1>1, <1>2, <1>3, <1>4, EndKeepsInvariant

LEMMA FailKeepsInvariant ==
  ASSUME SourcesInvariant, NEW s \in Syncs, FailSync(s)
  PROVE  SourcesInvariant'
<1>1. /\ sync[s] # Idle /\ TypeOK
      /\ sync' = [sync EXCEPT ![s] = Idle] /\ UNCHANGED <<upstream, row>>
  BY DEF FailSync, SourcesInvariant
<1>2. sync[s].pc # "idle"
  BY <1>1 DEF TypeOK, SyncType, Steps
<1>3. source' \in SourceType
  BY <1>1 DEF FailSync, TypeOK, SourceType
<1>4. /\ repo' \in {"absent", "partial", "ready"} /\ cloner' \in Syncs \cup {None}
      /\ fetched' \in 0..Len(upstream) /\ head' \in 0..Len(upstream)
      /\ repo' = "absent" => cloner' = None /\ head' = 0 /\ fetched' = 0
  <2>1. Len(upstream) \in 1..MaxCommits
    BY <1>1, LenUpstream
  <2> QED
    BY <1>1, <2>1, SourcesAssumption DEF FailSync, TypeOK
<1>5. row' \in [Paths -> RowType] /\ \A p \in Paths : row[p] # NoRow => row'[p] # NoRow
  BY <1>1 DEF TypeOK
<1> QED
  BY <1>1, <1>2, <1>3, <1>4, <1>5, EndKeepsInvariant

(***************************************************************************)
(* Requests begin, and what happens around them.                           *)
(***************************************************************************)
LEMMA BeginKeepsInvariant ==
  ASSUME SourcesInvariant, NEW s \in Syncs, BeginSync(s) \/ BeginDue(s)
  PROVE  SourcesInvariant'
<1> USE DEF SourcesInvariant
<1> DEFINE x == Started(s)
<1>1. /\ sync[s] = Idle /\ TypeOK
      /\ UNCHANGED <<upstream, repo, cloner, fetched, head, row, source>>
      /\ sync' = [t \in Syncs |->
                    IF t = s THEN x
                    ELSE IF sync[t] = Idle THEN Idle ELSE [sync[t] EXCEPT !.alone = FALSE]]
  BY DEF BeginSync, BeginDue, Begin, SourcesInvariant
<1>2. /\ x \in SyncType /\ x.pc = "git" /\ x.seen = NoTree /\ x.last = source.last
      /\ x.alone => \A t \in Syncs : t # s => sync[t] = Idle
  <2>1. NoTree \in Tree /\ [p \in Paths |-> NoRow] \in [Paths -> RowType] /\ 0 \in 0..MaxCommits
    BY SourcesAssumption DEF NoTree, Tree, RowType
  <2>2. Busy(s) \in BOOLEAN
    BY DEF Busy
  <2> QED
    BY <1>1, <2>1, <2>2 DEF Started, SyncType, Steps, TypeOK, SourceType, Busy
<1> HIDE DEF x
<1>3. ASSUME NEW t \in Syncs, t # s
      PROVE  /\ sync'[t] \in SyncType \cup {Idle}
             /\ sync'[t].pc = sync[t].pc /\ sync'[t].commit = sync[t].commit
             /\ sync'[t].rows = sync[t].rows /\ ~sync'[t].alone
             /\ sync[t] = Idle => sync'[t] = Idle
  <2>1. CASE sync[t] = Idle
    BY <1>1, <1>3, <2>1, IdleFields
  <2>2. CASE sync[t] # Idle
    <3>1. sync[t] \in SyncType
      BY <1>1, <2>2 DEF TypeOK
    <3>2. sync'[t] = [sync[t] EXCEPT !.alone = FALSE]
      BY <1>1, <1>3, <2>2, Zenon
    <3> QED
      BY <2>2, <3>1, <3>2 DEF SyncType
  <2> QED
    BY <2>1, <2>2
<1>4. sync'[s] = x /\ sync' \in [Syncs -> SyncType \cup {Idle}]
  <2>1. sync'[s] = x
    BY <1>1
  <2>2. \A t \in Syncs : sync'[t] \in SyncType \cup {Idle}
    BY <1>2, <1>3, <2>1
  <2> QED
    BY <1>1, <2>1, <2>2
<1>5. TypeOK'
  BY <1>1, <1>4 DEF TypeOK
<1>6. CommitIsKnown' /\ RowsStay'
  BY <1>1, <1>2, <1>3, <1>4 DEF CommitIsKnown, RowsStay
<1>7. AloneIsAlone' /\ AloneSeesAll'
  BY <1>1, <1>2, <1>3, <1>4 DEF AloneIsAlone, AloneSeesAll
<1> QED
  BY <1>5, <1>6, <1>7

LEMMA PushKeepsInvariant ==
  ASSUME SourcesInvariant, NEW f \in Paths, NEW d \in Digests \cup {None}, Push(f, d)
  PROVE  SourcesInvariant'
<1> USE DEF SourcesInvariant
<1> DEFINE tree == [upstream[Len(upstream)] EXCEPT ![f] = d]
<1>1. /\ Len(upstream) < MaxCommits /\ upstream' = Append(upstream, tree)
      /\ UNCHANGED <<repo, cloner, fetched, head, row, source, sync>>
  BY DEF Push
<1>2. upstream \in Seq(Tree) /\ Len(upstream) \in 1..MaxCommits
  BY LenUpstream DEF TypeOK
<1>3. tree \in Tree
  <2>1. upstream[Len(upstream)] \in Tree
    BY <1>2, SourcesAssumption, ElementOfSeq
  <2> QED
    BY <2>1 DEF Tree
<1> HIDE DEF tree
<1>4. /\ upstream' \in Seq(Tree) /\ Len(upstream') = Len(upstream) + 1
      /\ \A n \in 1..Len(upstream) : upstream'[n] = upstream[n]
  BY <1>1, <1>2, <1>3, AppendProperties
<1>5. 1..Len(upstream) \subseteq 1..Len(upstream') /\ 0..Len(upstream) \subseteq 0..Len(upstream')
      /\ Len(upstream') \in Commits
  BY <1>1, <1>2, <1>4, SourcesAssumption DEF Commits
<1>6. TypeOK'
  BY <1>1, <1>4, <1>5 DEF TypeOK
<1>7. CommitIsKnown' /\ RowsStay' /\ AloneIsAlone'
  BY <1>1, <1>5 DEF CommitIsKnown, RowsStay, AloneIsAlone
<1>8. AloneSeesAll'
  <2>1. \A s \in Syncs : sync[s].alone /\ sync[s].pc = "read" => head \in 1..Len(upstream)
    BY DEF AloneSeesAll, CommitIsKnown
  <2> QED
    BY <1>1, <1>4, <2>1 DEF AloneSeesAll
<1> QED
  BY <1>6, <1>7, <1>8

LEMMA AroundKeepsInvariant == SourcesInvariant /\ (Elapse \/ Restart) => SourcesInvariant'
<1> SUFFICES ASSUME SourcesInvariant, Elapse \/ Restart PROVE SourcesInvariant'
  OBVIOUS
<1> USE DEF SourcesInvariant
<1>1. CASE Elapse
  <2>1. source' \in SourceType
    BY <1>1 DEF Elapse, TypeOK, SourceType
  <2>2. source'.last = source.last
    BY <1>1 DEF Elapse, TypeOK, SourceType
  <2> QED
    BY <1>1, <2>1, <2>2 DEF Elapse, TypeOK, CommitIsKnown, RowsStay, AloneIsAlone, AloneSeesAll
<1>2. CASE Restart
  BY <1>2, IdleFields DEF Restart, TypeOK, CommitIsKnown, RowsStay, AloneIsAlone, AloneSeesAll
<1> QED
  BY <1>1, <1>2

-----------------------------------------------------------------------------
LEMMA SourcesStep == SourcesInvariant /\ [Next]_vars => SourcesInvariant'
<1> SUFFICES ASSUME SourcesInvariant, [Next]_vars PROVE SourcesInvariant'
  OBVIOUS
<1>1. CASE Elapse \/ Restart
  BY <1>1, AroundKeepsInvariant
<1>2. CASE \E p \in Paths, d \in Digests \cup {None} : Push(p, d)
  BY <1>2, PushKeepsInvariant
<1>3. CASE \E s \in Syncs : BeginSync(s) \/ BeginDue(s)
  BY <1>3, BeginKeepsInvariant
<1>4. CASE \E s \in Syncs : SyncStep(s)
  BY <1>4, GitKeepsInvariant, ReadHeadKeepsInvariant, LookKeepsInvariant, CommitKeepsInvariant,
     FailKeepsInvariant DEF SyncStep
<1>5. CASE UNCHANGED vars
  BY <1>5 DEF vars, SourcesInvariant, TypeOK, CommitIsKnown, RowsStay, AloneIsAlone, AloneSeesAll
<1> QED
  BY <1>1, <1>2, <1>3, <1>4, <1>5 DEF Next

THEOREM SourcesInvariantHolds == Spec => []SourcesInvariant
BY SourcesInit, SourcesStep, PTL DEF Spec

(***************************************************************************)
(* The rows, whatever races and failures wrote them, are always rows, and  *)
(* what is checked out and fetched are commits of the repository.          *)
(***************************************************************************)
THEOREM SourcesTypeOK == Spec => []TypeOK
<1>1. SourcesInvariant => TypeOK
  BY DEF SourcesInvariant
<1> QED
  BY <1>1, SourcesInvariantHolds, PTL

(***************************************************************************)
(* synchronize_source, when nobody synchronizes beside it, leaves the rows *)
(* as the files of the commit it records, for any files and any past.      *)
(***************************************************************************)
THEOREM LoneSyncIsExactHolds == Spec => LoneSyncIsExact
<1>1. ASSUME SourcesInvariant, NEW s \in Syncs, CommitSync(s), sync[s].alone
      PROVE  /\ Indexes(row', source'.last)
             /\ \A p \in Paths : row'[p].active => row'[p].commit = source'.last
  <2>1. /\ sync[s].pc = "read" /\ sync[s].left = {}
        /\ row' = [p \in Paths |-> Written(s, p)]
        /\ source'.last = Changed(sync[s].commit, sync[s].last, source.last)
        /\ upstream' = upstream
    BY <1>1 DEF CommitSync, SourceWritten
  <2>2. /\ sync[s].commit = head /\ sync[s].rows = row /\ source'.last = sync[s].commit
        /\ \A p \in Paths : sync[s].seen[p] = upstream[head][p]
    BY <1>1, <2>1 DEF SourcesInvariant, AloneSeesAll, Changed
  <2>3. \A p \in Paths :
          /\ row'[p].digest = Wanted(s, p).digest
          /\ row'[p].commit = Wanted(s, p).commit
          /\ row'[p].active = Wanted(s, p).active
    BY <2>1, <2>2 DEF Written, Changed
  <2>4. \A p \in Paths : sync[s].seen[p] # None =>
          /\ row'[p].digest = upstream[head][p] /\ row'[p].commit = head /\ row'[p].active = TRUE
    BY <2>2, <2>3 DEF Wanted
  <2>5. \A p \in Paths : sync[s].seen[p] = None => row'[p].active = FALSE
    BY <2>3 DEF Wanted
  <2>6. \A p \in Paths : row'[p].active = (upstream[head][p] # None)
    BY <2>2, <2>4, <2>5
  <2>7. \A p \in Paths : row'[p].active =>
          row'[p].digest = upstream[head][p] /\ row'[p].commit = head
    BY <2>4, <2>5
  <2> QED
    BY <2>1, <2>2, <2>6, <2>7 DEF Indexes
<1>2. SourcesInvariant =>
        \A s \in Syncs :
          CommitSync(s) /\ sync[s].alone
            => /\ Indexes(row', source'.last)
               /\ \A p \in Paths : row'[p].active => row'[p].commit = source'.last
  BY <1>1
<1> QED
  BY <1>2, SourcesInvariantHolds, PTL DEF LoneSyncIsExact
=============================================================================
