-------------------------- MODULE RecipeCacheProofs --------------------------
(***************************************************************************)
(* Proofs about RecipeCache, for any recipes, calls, tasks and bounds.     *)
(***************************************************************************)
EXTENDS RecipeCache, TLAPS

(* Who waits, waits for a fetch of its recipe; and nobody else has a task. *)
WaitersHaveTasks ==
  \A c \in Calls :
    /\ call[c].pc = "wait" => /\ call[c].task \in Tasks
                              /\ task[call[c].task] # NoTask
                              /\ task[call[c].task].slug = call[c].slug
    /\ call[c].pc # "wait" => call[c].task = None

TasksAreAwaited ==
  \A t \in Tasks : task[t] # NoTask => \E c \in Calls : call[c].task = t

(* A fetch that runs is registered as long as the cache is not cleared. *)
RunningIsRegistered ==
  \A t \in Tasks :
    /\ task[t].began <= generation
    /\ Running(t) /\ task[t].began = generation => inflight[task[t].slug] = t

(***************************************************************************)
(* After a refresh in quiet all there is, in the cache and in the fetches, *)
(* is as new as the refresh.                                               *)
(***************************************************************************)
NewEnough(answer, since) == answer \in {None, Error} \/ answer >= since

QuietIsFresh ==
  \A c \in Calls : call[c].since # None /\ call[c].quiet =>
    LET s == call[c].slug IN
    /\ call[c].since <= version[s]
    /\ NewEnough(cache[s], call[c].since)
    /\ \A t \in Tasks : task[t].slug = s => NewEnough(task[t].answer, call[c].since)

(* The inductive invariant. *)
CacheInvariant ==
  /\ TypeOK
  /\ WaitersHaveTasks
  /\ TasksAreAwaited
  /\ RegisteredIsAwaited
  /\ RunningIsRegistered
  /\ SingleFlight
  /\ QuietIsFresh
  /\ QuietRefreshReadsMealie

-----------------------------------------------------------------------------
(* Nothing is kept, fetched or asked for. *)
LEMMA CacheInit == Init => CacheInvariant
<1> SUFFICES ASSUME Init PROVE CacheInvariant
  OBVIOUS
<1>1. TypeOK
  BY CacheAssumption DEF Init, TypeOK, Answers
<1>2. WaitersHaveTasks /\ TasksAreAwaited /\ RegisteredIsAwaited /\ QuietRefreshReadsMealie
  BY DEF Init, WaitersHaveTasks, TasksAreAwaited, RegisteredIsAwaited,
         QuietRefreshReadsMealie, NoCall
<1>3. RunningIsRegistered /\ SingleFlight
  BY DEF Init, RunningIsRegistered, SingleFlight, Running, NoTask
<1>4. QuietIsFresh
  BY DEF Init, QuietIsFresh, NoCall
<1> QED
  BY <1>1, <1>2, <1>3, <1>4 DEF CacheInvariant

(* Answers and versions are numbers, apart from None and Error. *)
LEMMA AnswerTypes ==
  ASSUME TypeOK
  PROVE  /\ \A s \in Slugs : version[s] \in Nat
         /\ \A s \in Slugs : cache[s] \in Nat \cup {None, Error}
         /\ \A t \in Tasks : task[t].answer \in Nat \cup {None, Error}
         /\ \A c \in Calls : call[c].since \in Nat \cup {None}
BY CacheAssumption DEF TypeOK, Answers, Task, NoTask, Call, NoCall

LEMMA ChangeKeepsInvariant ==
  ASSUME CacheInvariant, NEW s \in Slugs, Change(s)
  PROVE  CacheInvariant'
<1> USE DEF CacheInvariant
<1>1. TypeOK'
  BY CacheAssumption DEF TypeOK, Change
<1>2. \A r \in Slugs : version[r] \in Nat /\ version'[r] \in Nat /\ version'[r] >= version[r]
  BY CacheAssumption DEF TypeOK, Change
<1>3. QuietIsFresh'
  <2>1. SUFFICES ASSUME NEW c \in Calls, call[c].since # None, call[c].quiet
                 PROVE  call[c].since <= version'[call[c].slug]
    BY DEF Change, QuietIsFresh, NewEnough
  <2>2. call[c].slug \in Slugs /\ call[c].since \in Nat
    BY <2>1, AnswerTypes DEF TypeOK, Call, NoCall
  <2>3. call[c].since <= version[call[c].slug]
    BY <2>1 DEF QuietIsFresh
  <2> QED
    BY <1>2, <2>2, <2>3
<1>4. /\ WaitersHaveTasks' /\ TasksAreAwaited' /\ RegisteredIsAwaited'
      /\ RunningIsRegistered' /\ SingleFlight' /\ QuietRefreshReadsMealie'
  BY DEF Change, WaitersHaveTasks, TasksAreAwaited, RegisteredIsAwaited,
         RunningIsRegistered, SingleFlight, Running, QuietRefreshReadsMealie
<1> QED
  BY <1>1, <1>3, <1>4

LEMMA ExpireKeepsInvariant ==
  ASSUME CacheInvariant, NEW s \in Slugs, Expire(s)
  PROVE  CacheInvariant'
<1> USE DEF CacheInvariant
<1>1. TypeOK'
  BY DEF TypeOK, Expire
<1>2. QuietIsFresh'
  BY DEF Expire, QuietIsFresh, NewEnough, TypeOK
<1>3. /\ WaitersHaveTasks' /\ TasksAreAwaited' /\ RegisteredIsAwaited'
      /\ RunningIsRegistered' /\ SingleFlight' /\ QuietRefreshReadsMealie'
  BY DEF Expire, WaitersHaveTasks, TasksAreAwaited, RegisteredIsAwaited,
         RunningIsRegistered, SingleFlight, Running, QuietRefreshReadsMealie
<1> QED
  BY <1>1, <1>2, <1>3

(* Mealie answers a fetch with what it holds, or not at all. *)
LEMMA AnswerKeepsInvariant ==
  ASSUME CacheInvariant, NEW t \in Tasks, Answer(t)
  PROVE  CacheInvariant'
<1> USE DEF CacheInvariant
<1>1. /\ task[t] \in Task /\ task[t].answer = None
      /\ \A u \in Tasks \ {t} : task'[u] = task[u]
      /\ task'[t].slug = task[t].slug /\ task'[t].began = task[t].began
      /\ task'[t].answer \in {version[task[t].slug], Error}
      /\ task'[t].answer \in Answers
  BY DEF Answer, TypeOK, Task, Answers
<1>2. task'[t] \in Task /\ task'[t].answer # None
  BY <1>1, CacheAssumption DEF Answer, TypeOK, Task, Answers
<1>3. TypeOK'
  BY <1>1, <1>2 DEF Answer, TypeOK
<1>4. task'[t] # NoTask
  BY <1>2 DEF NoTask
<1>5. WaitersHaveTasks' /\ TasksAreAwaited' /\ RegisteredIsAwaited'
  BY <1>1, <1>4 DEF Answer, WaitersHaveTasks, TasksAreAwaited, RegisteredIsAwaited, TypeOK
<1>6. \A u \in Tasks : Running(u)' => Running(u) /\ task'[u] = task[u]
  BY <1>1, <1>2 DEF Running
<1>7. RunningIsRegistered' /\ SingleFlight'
  BY <1>1, <1>6 DEF Answer, RunningIsRegistered, SingleFlight
<1>8. QuietIsFresh'
  <2>1. SUFFICES ASSUME NEW c \in Calls, call[c].since # None, call[c].quiet,
                        task[t].slug = call[c].slug
                 PROVE  NewEnough(task'[t].answer, call[c].since)
    BY <1>1 DEF Answer, QuietIsFresh
  <2>2. call[c].since <= version[task[t].slug] /\ call[c].since \in Nat
        /\ version[task[t].slug] \in Nat
    BY <1>1, <2>1, AnswerTypes DEF QuietIsFresh, Task
  <2> QED
    BY <1>1, <2>2 DEF NewEnough
<1>9. QuietRefreshReadsMealie'
  BY DEF Answer, QuietRefreshReadsMealie
<1> QED
  BY <1>3, <1>5, <1>7, <1>8, <1>9

-----------------------------------------------------------------------------
(***************************************************************************)
(* A call that is not waiting becomes x: the caches and the fetches stay   *)
(* as they are, or lose what was kept and registered.                      *)
(***************************************************************************)
LEMMA LookupKeepsInvariant ==
  ASSUME CacheInvariant, NEW c \in Calls, NEW x \in Call \cup {NoCall},
         call[c].pc # "wait", call' = [call EXCEPT ![c] = x],
         x.pc # "wait", x.task = None,
         x.since # None /\ x.quiet => call[c].since = x.since /\ call[c].quiet
                                      /\ call[c].slug = x.slug,
         UNCHANGED <<version, cache, inflight, task, generation>>
  PROVE  /\ TypeOK /\ served' \in Served \cup {None} => TypeOK'
         /\ WaitersHaveTasks' /\ TasksAreAwaited' /\ RegisteredIsAwaited'
         /\ RunningIsRegistered' /\ SingleFlight' /\ QuietIsFresh'
<1> USE DEF CacheInvariant
<1>1. call'[c] = x /\ \A d \in Calls \ {c} : call'[d] = call[d]
  BY DEF TypeOK
<1>2. served' \in Served \cup {None} => TypeOK'
  BY DEF TypeOK
<1>3. call[c].task = None
  BY DEF WaitersHaveTasks
<1>4. WaitersHaveTasks'
  BY <1>1 DEF WaitersHaveTasks
<1>5. TasksAreAwaited' /\ RegisteredIsAwaited'
  BY <1>1, <1>3, CacheAssumption DEF TasksAreAwaited, RegisteredIsAwaited
<1>6. RunningIsRegistered' /\ SingleFlight'
  BY DEF RunningIsRegistered, SingleFlight, Running
<1>7. QuietIsFresh'
  BY <1>1 DEF QuietIsFresh, NewEnough
<1> QED
  BY <1>2, <1>4, <1>5, <1>6, <1>7

LEMMA BeginCallKeepsInvariant ==
  ASSUME CacheInvariant, NEW c \in Calls, NEW s \in Slugs, BeginCall(c, s)
  PROVE  CacheInvariant'
<1> DEFINE x == [pc |-> "lookup", slug |-> s, task |-> None, since |-> None, quiet |-> TRUE]
<1>1. x \in Call /\ x.pc # "wait" /\ x.task = None /\ x.since = None
  BY DEF Call
<1>2. call[c].pc # "wait" /\ call' = [call EXCEPT ![c] = x]
      /\ UNCHANGED <<version, cache, inflight, task, generation, served>>
  BY DEF BeginCall, NoCall
<1> HIDE DEF x
<1>3. TypeOK /\ served' \in Served \cup {None} /\ QuietRefreshReadsMealie'
  BY <1>2 DEF CacheInvariant, TypeOK, QuietRefreshReadsMealie
<1> QED
  BY <1>1, <1>2, <1>3, LookupKeepsInvariant DEF CacheInvariant

(* An answer that is new enough for whoever asked in quiet. *)
LEMMA ServeIsCurrent ==
  ASSUME TypeOK, QuietRefreshReadsMealie, NEW c \in Calls, NEW answer,
         answer \in Nat \cup {Error},
         call[c].since # None /\ call[c].quiet => NewEnough(answer, call[c].since),
         call[c].quiet \in BOOLEAN, Serve(c, answer)
  PROVE  served' \in Served \cup {None} /\ QuietRefreshReadsMealie'
<1>1. CASE call[c].since = None
  BY <1>1 DEF Serve, TypeOK, QuietRefreshReadsMealie
<1>2. CASE call[c].since # None
  <2>1. served' = [current |-> answer = Error \/ answer >= call[c].since,
                   quiet |-> call[c].quiet]
    BY <1>2 DEF Serve
  <2>2. answer # None
    BY CacheAssumption
  <2>3. call[c].quiet => answer = Error \/ answer >= call[c].since
    BY <1>2, <2>2 DEF NewEnough
  <2>4. served' \in Served
    BY <2>1 DEF Served
  <2>5. served'.quiet => served'.current
    BY <2>1, <2>3
  <2> QED
    BY <2>4, <2>5 DEF QuietRefreshReadsMealie
<1> QED
  BY <1>1, <1>2

LEMMA HitKeepsInvariant ==
  ASSUME CacheInvariant, NEW c \in Calls, Hit(c)
  PROVE  CacheInvariant'
<1> USE DEF CacheInvariant
<1>1. /\ call[c] \in Call /\ call[c].slug \in Slugs /\ call[c].quiet \in BOOLEAN
      /\ call[c].pc # "wait"
  BY DEF Hit, TypeOK, NoCall, Call
<1>2. cache[call[c].slug] \in Nat \cup {Error}
  BY <1>1, AnswerTypes DEF Hit
<1>3. call[c].since # None /\ call[c].quiet => NewEnough(cache[call[c].slug], call[c].since)
  BY DEF QuietIsFresh
<1>4. served' \in Served \cup {None} /\ QuietRefreshReadsMealie'
  BY <1>1, <1>2, <1>3, ServeIsCurrent DEF Hit
<1>5. NoCall.pc # "wait" /\ NoCall.task = None /\ NoCall.since = None
  BY DEF NoCall
<1>6. call' = [call EXCEPT ![c] = NoCall]
  BY DEF Hit, Serve
<1>7. UNCHANGED <<version, cache, inflight, task, generation>>
  BY DEF Hit
<1> QED
  BY <1>1, <1>4, <1>5, <1>6, <1>7, LookupKeepsInvariant

(* A clear forgets what is kept and registered, and no call waits in quiet. *)
LEMMA BeginRefreshKeepsInvariant ==
  ASSUME CacheInvariant, NEW c \in Calls, NEW s \in Slugs, BeginRefresh(c, s)
  PROVE  CacheInvariant'
<1> USE DEF CacheInvariant
<1> DEFINE x == [pc |-> "lookup", slug |-> s, task |-> None, since |-> version[s],
                 quiet |-> \A d \in Calls : call[d].pc # "wait"]
<1>1. /\ call' = [call EXCEPT ![c] = x]
      /\ cache' = [r \in Slugs |-> None] /\ inflight' = [r \in Slugs |-> None]
      /\ generation' = generation + 1 /\ generation < MaxClears
      /\ UNCHANGED <<version, task, served>> /\ call[c].pc # "wait"
  BY DEF BeginRefresh, ClearedAnswers, NoCall
<1>2. x \in Call
  BY DEF TypeOK, Call
<1>3. call'[c] = x /\ \A d \in Calls \ {c} : call'[d] = call[d]
  BY <1>1 DEF TypeOK
<1>4. generation \in Nat /\ generation' \in 0..MaxClears
  BY <1>1, CacheAssumption DEF TypeOK
<1>5. TypeOK'
  BY <1>1, <1>2, <1>4 DEF TypeOK
<1>6. call[c].task = None
  BY <1>1 DEF WaitersHaveTasks
<1>7. WaitersHaveTasks' /\ TasksAreAwaited' /\ RegisteredIsAwaited'
  BY <1>1, <1>3, <1>6, CacheAssumption DEF WaitersHaveTasks, TasksAreAwaited, RegisteredIsAwaited
<1>8. \A t \in Tasks : task[t].began \in Nat
  BY CacheAssumption DEF TypeOK, Task, NoTask
<1>9. RunningIsRegistered' /\ SingleFlight'
  <2>1. \A t \in Tasks : task[t].began <= generation /\ task[t].began # generation'
    BY <1>1, <1>4, <1>8 DEF RunningIsRegistered
  <2>2. RunningIsRegistered'
    BY <1>1, <1>4, <1>8, <2>1 DEF RunningIsRegistered
  <2> QED
    BY <1>1, <2>2 DEF SingleFlight, Running
<1>10. QuietIsFresh'
  <2>1. x.quiet => \A t \in Tasks : task[t] = NoTask
    BY CacheAssumption DEF WaitersHaveTasks, TasksAreAwaited
  <2>2. x.quiet => \A t \in Tasks : task[t].answer = None
    BY <2>1 DEF NoTask
  <2>3. x.since <= version[s]
    BY AnswerTypes
  <2>4. \A d \in Calls : cache'[call'[d].slug] = None \/ call'[d].slug \notin Slugs
    BY <1>1
  <2>5. \A d \in Calls : call'[d].since # None => call'[d].slug \in Slugs
    BY <1>5 DEF TypeOK, Call, NoCall
  <2> HIDE DEF x
  <2>6. x.slug = s
    BY DEF x
  <2> QED
    BY <1>1, <1>3, <2>2, <2>3, <2>4, <2>5, <2>6 DEF QuietIsFresh, NewEnough
<1>11. QuietRefreshReadsMealie'
  BY <1>1 DEF QuietRefreshReadsMealie
<1> QED
  BY <1>5, <1>7, <1>9, <1>10, <1>11

-----------------------------------------------------------------------------
(* A call that was looking waits for t, which fetches its recipe. *)
LEMMA AwaitedCall ==
  ASSUME TypeOK, NEW c \in Calls, NEW t \in Tasks, call[c].pc = "lookup", AwaitTask(c, t)
  PROVE  /\ call'[c].pc = "wait" /\ call'[c].task = t
         /\ call'[c].slug = call[c].slug /\ call[c].slug \in Slugs
         /\ call'[c].since = call[c].since /\ call'[c].quiet = call[c].quiet
         /\ \A d \in Calls \ {c} : call'[d] = call[d]
         /\ call' \in [Calls -> Call \cup {NoCall}]
<1>1. call[c] \in Call
  BY DEF TypeOK, NoCall
<1>2. [pc |-> "wait", slug |-> call[c].slug, task |-> t,
       since |-> call[c].since, quiet |-> call[c].quiet] \in Call
  BY <1>1 DEF Call
<1>3. call[c].slug \in Slugs
  BY <1>1 DEF Call
<1> QED
  BY <1>2, <1>3 DEF TypeOK, AwaitTask

LEMMA JoinKeepsInvariant ==
  ASSUME CacheInvariant, NEW c \in Calls, Join(c)
  PROVE  CacheInvariant'
<1> USE DEF CacheInvariant
<1> DEFINE t == inflight[call[c].slug]
<1>1. /\ call[c].pc = "lookup" /\ call[c].slug \in Slugs /\ t # None
      /\ UNCHANGED <<version, cache, inflight, task, generation, served>>
  BY DEF Join, TypeOK, NoCall, Call
<1>2. t \in Tasks
  BY <1>1 DEF TypeOK
<1>3. AwaitTask(c, t)
  BY DEF Join
<1>4. /\ \E d \in Calls : call[d].pc = "wait" /\ call[d].task = t
      /\ task[t].slug = call[c].slug
  BY <1>1 DEF RegisteredIsAwaited
<1>5. task[t] # NoTask
  BY <1>4 DEF WaitersHaveTasks
<1> HIDE DEF t
<1>6. /\ call'[c].pc = "wait" /\ call'[c].task = t
      /\ call'[c].slug = call[c].slug /\ call[c].slug \in Slugs
      /\ call'[c].since = call[c].since /\ call'[c].quiet = call[c].quiet
      /\ \A d \in Calls \ {c} : call'[d] = call[d]
      /\ call' \in [Calls -> Call \cup {NoCall}]
  BY <1>1, <1>2, <1>3, AwaitedCall
<1>7. TypeOK'
  BY <1>1, <1>6 DEF TypeOK
<1>8. WaitersHaveTasks'
  BY <1>1, <1>2, <1>4, <1>5, <1>6 DEF WaitersHaveTasks
<1>9. call[c].task = None
  BY <1>1 DEF WaitersHaveTasks
<1>10. TasksAreAwaited' /\ RegisteredIsAwaited'
  BY <1>1, <1>6, <1>9, CacheAssumption DEF TasksAreAwaited, RegisteredIsAwaited
<1>11. RunningIsRegistered' /\ SingleFlight' /\ QuietRefreshReadsMealie'
  BY <1>1 DEF RunningIsRegistered, SingleFlight, Running, QuietRefreshReadsMealie
<1>12. QuietIsFresh'
  BY <1>1, <1>6 DEF QuietIsFresh, NewEnough
<1> QED
  BY <1>7, <1>8, <1>10, <1>11, <1>12

LEMMA MissKeepsInvariant ==
  ASSUME CacheInvariant, NEW c \in Calls, NEW t \in Tasks, Miss(c, t)
  PROVE  CacheInvariant'
<1> USE DEF CacheInvariant
<1> DEFINE s == call[c].slug
           x == [slug |-> s, began |-> generation, answer |-> None]
<1>1. /\ call[c].pc = "lookup" /\ task[t] = NoTask
      /\ cache[s] = None /\ inflight[s] = None
      /\ AwaitTask(c, t)
      /\ UNCHANGED <<version, cache, generation, served>>
  BY DEF Miss, Fresh, Unregistered
<1>2. /\ call'[c].pc = "wait" /\ call'[c].task = t
      /\ call'[c].slug = s /\ s \in Slugs
      /\ call'[c].since = call[c].since /\ call'[c].quiet = call[c].quiet
      /\ \A d \in Calls \ {c} : call'[d] = call[d]
      /\ call' \in [Calls -> Call \cup {NoCall}]
  BY <1>1, AwaitedCall
<1>3. x \in Task /\ x # NoTask /\ x.slug = s /\ x.began = generation /\ x.answer = None
  BY <1>2, CacheAssumption DEF TypeOK, Task, NoTask
<1>4. task' = [task EXCEPT ![t] = x] /\ inflight' = [inflight EXCEPT ![s] = t]
  BY DEF Miss
<1> HIDE DEF s, x
<1>5. task'[t] = x /\ \A u \in Tasks \ {t} : task'[u] = task[u]
  BY <1>4 DEF TypeOK
<1>6. inflight'[s] = t /\ \A r \in Slugs \ {s} : inflight'[r] = inflight[r]
  BY <1>2, <1>4 DEF TypeOK
<1>7. TypeOK'
  BY <1>1, <1>2, <1>3, <1>4 DEF TypeOK
<1>8. WaitersHaveTasks'
  BY <1>1, <1>2, <1>3, <1>5 DEF WaitersHaveTasks
<1>9. call[c].task = None /\ None \notin Tasks
  BY <1>1, CacheAssumption DEF WaitersHaveTasks
<1>10. TasksAreAwaited'
  BY <1>2, <1>5, <1>9 DEF TasksAreAwaited
<1>11. RegisteredIsAwaited'
  <2>1. \A d \in Calls : call[d].pc = "wait" => call[d].task # t /\ d # c
    BY <1>1 DEF WaitersHaveTasks
  <2>2. SUFFICES ASSUME NEW r \in Slugs \ {s}, inflight[r] # None
                 PROVE  /\ \E d \in Calls : call'[d].pc = "wait" /\ call'[d].task = inflight[r]
                        /\ task'[inflight[r]].slug = r
    BY <1>2, <1>3, <1>5, <1>6 DEF RegisteredIsAwaited
  <2>3. PICK d \in Calls : call[d].pc = "wait" /\ call[d].task = inflight[r]
    BY <2>2 DEF RegisteredIsAwaited
  <2>4. call[d].task # t /\ call'[d] = call[d] /\ inflight[r] \in Tasks
    BY <1>2, <2>1, <2>2, <2>3 DEF TypeOK
  <2> QED
    BY <1>5, <2>2, <2>3, <2>4 DEF RegisteredIsAwaited
<1>12. generation \in Nat
  BY CacheAssumption DEF TypeOK
<1>13. RunningIsRegistered' /\ SingleFlight'
  <2>1. \A u \in Tasks : Running(u) /\ task[u].slug = s => task[u].began # generation
    BY <1>1, <1>9 DEF RunningIsRegistered
  <2>2. RunningIsRegistered'
    <3>1. \A u \in Tasks \ {t} : Running(u) => task[u].slug \in Slugs
      BY DEF Running, TypeOK, Task
    <3> QED
      BY <1>1, <1>3, <1>5, <1>6, <1>12, <2>1, <3>1 DEF RunningIsRegistered, Running
  <2>3. SingleFlight'
    BY <1>1, <1>3, <1>5, <2>1 DEF SingleFlight, Running
  <2> QED
    BY <2>2, <2>3
<1>14. QuietIsFresh' /\ QuietRefreshReadsMealie'
  BY <1>1, <1>2, <1>3, <1>5 DEF QuietIsFresh, NewEnough, QuietRefreshReadsMealie, s
<1> QED
  BY <1>7, <1>8, <1>10, <1>11, <1>13, <1>14

(***************************************************************************)
(* The last of those who waited drops the fetch: whoever comes first has   *)
(* taken it off, and takes off no other.                                   *)
(***************************************************************************)
LEMMA ResumeKeepsInvariant ==
  ASSUME CacheInvariant, NEW c \in Calls, Resume(c)
  PROVE  CacheInvariant'
<1> USE DEF CacheInvariant
<1> DEFINE s == call[c].slug
           t == call[c].task
<1>1. /\ t \in Tasks /\ task[t] \in Task /\ task[t].slug = s /\ s \in Slugs
      /\ task[t].answer \in Nat \cup {Error} /\ task[t].answer # None
      /\ task[t].answer \in Answers
      /\ call[c].quiet \in BOOLEAN /\ call[c].task = t /\ call[c].slug = s
  <2>1. call[c] \in Call
    BY DEF Resume, TypeOK, NoCall
  <2>2. t \in Tasks /\ task[t] # NoTask /\ task[t].slug = s
    BY DEF Resume, WaitersHaveTasks
  <2>3. task[t] \in Task
    BY <2>2 DEF TypeOK
  <2>4. task[t].answer \in Nat \cup {Error} /\ task[t].answer # None
    BY <2>2, AnswerTypes DEF Resume
  <2> QED
    BY <2>1, <2>2, <2>3, <2>4 DEF Call, Task
<1>2. /\ call[c].pc = "wait"
      /\ cache' = [cache EXCEPT ![s] = task[t].answer]
      /\ Deregister(s, t) /\ Serve(c, task[t].answer) /\ Release(c, t)
      /\ UNCHANGED <<version, generation>>
  BY DEF Resume
<1> HIDE DEF s, t
<1>3. call' = [call EXCEPT ![c] = NoCall]
  BY <1>2 DEF Serve
<1>4. call'[c] = NoCall /\ \A d \in Calls \ {c} : call'[d] = call[d]
  BY <1>3 DEF TypeOK
<1>5. /\ inflight' \in [Slugs -> Tasks \cup {None}]
      /\ \A r \in Slugs : inflight'[r] # t
      /\ \A r \in Slugs : inflight[r] # t => inflight'[r] = inflight[r]
      /\ \A r \in Slugs : inflight'[r] # None => inflight'[r] = inflight[r]
  <2>1. None # t
    BY <1>1, CacheAssumption
  <2>2. \A r \in Slugs : inflight[r] = t => r = s
    BY <1>1, <2>1 DEF RegisteredIsAwaited
  <2> QED
    BY <1>1, <1>2, <2>1, <2>2 DEF Deregister, TypeOK
<1>6. /\ task' \in [Tasks -> Task \cup {NoTask}]
      /\ \A u \in Tasks \ {t} : task'[u] = task[u]
      /\ task'[t] = IF Waiters(t) = {c} THEN NoTask ELSE task[t]
  BY <1>1, <1>2, <1>5 DEF Release, TypeOK
<1>7. served' \in Served \cup {None} /\ QuietRefreshReadsMealie'
  <2>1. call[c].since # None /\ call[c].quiet => NewEnough(task[t].answer, call[c].since)
    BY <1>1 DEF QuietIsFresh
  <2> QED
    BY <1>1, <1>2, <2>1, ServeIsCurrent
<1>8. TypeOK'
  BY <1>1, <1>2, <1>3, <1>5, <1>6, <1>7 DEF TypeOK
<1>9. WaitersHaveTasks'
  <2>1. \A d \in Calls \ {c} : call[d].task = t => task'[t] = task[t]
    BY <1>6 DEF Waiters
  <2> QED
    BY <1>4, <1>6, <2>1 DEF WaitersHaveTasks, NoCall
<1>10. TasksAreAwaited'
  <2>1. ASSUME NEW u \in Tasks \ {t}, task'[u] # NoTask
        PROVE  \E d \in Calls : call'[d].task = u
    BY <1>1, <1>4, <1>6, <2>1 DEF TasksAreAwaited
  <2>2. ASSUME task'[t] # NoTask
        PROVE  \E d \in Calls : call'[d].task = t
    <3>1. c \in Waiters(t) /\ Waiters(t) # {c}
      BY <1>1, <1>6, <2>2 DEF Waiters
    <3>2. PICK d \in Waiters(t) : d # c
      BY <3>1
    <3> QED
      BY <1>4, <3>2 DEF Waiters
  <2> QED
    BY <2>1, <2>2 DEF TasksAreAwaited
<1>11. RegisteredIsAwaited'
  <2>1. SUFFICES ASSUME NEW r \in Slugs, inflight'[r] # None
                 PROVE  /\ \E d \in Calls : call'[d].pc = "wait" /\ call'[d].task = inflight'[r]
                        /\ task'[inflight'[r]].slug = r
    BY DEF RegisteredIsAwaited
  <2>2. inflight'[r] = inflight[r] /\ inflight[r] \in Tasks \ {t}
    BY <1>5, <2>1 DEF TypeOK
  <2>3. PICK d \in Calls : call[d].pc = "wait" /\ call[d].task = inflight[r]
    BY <2>1, <2>2 DEF RegisteredIsAwaited
  <2>4. task[inflight[r]].slug = r
    BY <2>1, <2>2 DEF RegisteredIsAwaited
  <2>5. d # c
    BY <1>1, <2>2, <2>3
  <2> QED
    BY <1>4, <1>6, <2>2, <2>3, <2>4, <2>5
<1>12. \A u \in Tasks : Running(u)' => u # t /\ Running(u) /\ task'[u] = task[u]
  BY <1>1, <1>6 DEF Running
<1>13. RunningIsRegistered' /\ SingleFlight'
  <2>1. SingleFlight'
    BY <1>12 DEF SingleFlight
  <2>2. \A u \in Tasks : task'[u].began <= generation'
    <3>1. NoTask.began = 0 /\ generation \in Nat /\ generation' = generation
      BY <1>2, CacheAssumption DEF NoTask, TypeOK
    <3> QED
      BY <1>6, <3>1 DEF RunningIsRegistered
  <2>3. \A u \in Tasks : Running(u)' /\ task'[u].began = generation' =>
          inflight'[task'[u].slug] = u
    <3>1. SUFFICES ASSUME NEW u \in Tasks, Running(u)', task'[u].began = generation'
                   PROVE  inflight'[task'[u].slug] = u
      OBVIOUS
    <3>2. u # t /\ Running(u) /\ task'[u] = task[u] /\ task[u].slug \in Slugs
      BY <1>12, <3>1 DEF Running, TypeOK, Task
    <3>3. inflight[task[u].slug] = u
      BY <1>2, <3>1, <3>2 DEF RunningIsRegistered
    <3> QED
      BY <1>5, <3>2, <3>3
  <2> QED
    BY <2>1, <2>2, <2>3 DEF RunningIsRegistered
<1>14. QuietIsFresh'
  <2>1. SUFFICES ASSUME NEW d \in Calls \ {c}, call[d].since # None, call[d].quiet
                 PROVE  /\ call[d].since <= version[call[d].slug]
                        /\ NewEnough(cache'[call[d].slug], call[d].since)
                        /\ \A u \in Tasks : task'[u].slug = call[d].slug =>
                             NewEnough(task'[u].answer, call[d].since)
    BY <1>2, <1>4 DEF QuietIsFresh, NoCall
  <2>2. /\ call[d].since <= version[call[d].slug]
        /\ NewEnough(cache[call[d].slug], call[d].since)
        /\ \A u \in Tasks : task[u].slug = call[d].slug =>
             NewEnough(task[u].answer, call[d].since)
    BY <2>1 DEF QuietIsFresh
  <2>3. NewEnough(cache'[call[d].slug], call[d].since)
    BY <1>1, <1>2, <2>2 DEF TypeOK
  <2>4. NewEnough(NoTask.answer, call[d].since)
    BY DEF NewEnough, NoTask
  <2> QED
    BY <1>6, <2>2, <2>3, <2>4
<1> QED
  BY <1>7, <1>8, <1>9, <1>10, <1>11, <1>13, <1>14

-----------------------------------------------------------------------------
LEMMA NextKeepsCacheInvariant == CacheInvariant /\ [Next]_vars => CacheInvariant'
<1> SUFFICES ASSUME CacheInvariant, [Next]_vars PROVE CacheInvariant'
  OBVIOUS
<1>1. CASE \E s \in Slugs : Change(s) \/ Expire(s)
  BY <1>1, ChangeKeepsInvariant, ExpireKeepsInvariant
<1>2. CASE \E c \in Calls, s \in Slugs : BeginCall(c, s) \/ BeginRefresh(c, s)
  BY <1>2, BeginCallKeepsInvariant, BeginRefreshKeepsInvariant
<1>3. CASE \E c \in Calls : CallStep(c)
  BY <1>3, HitKeepsInvariant, JoinKeepsInvariant, MissKeepsInvariant, ResumeKeepsInvariant
     DEF CallStep
<1>4. CASE \E t \in Tasks : Answer(t)
  BY <1>4, AnswerKeepsInvariant
<1>5. CASE UNCHANGED vars
  BY <1>5
     DEF vars, CacheInvariant, TypeOK, WaitersHaveTasks, TasksAreAwaited, RegisteredIsAwaited,
         RunningIsRegistered, SingleFlight, Running, QuietIsFresh, QuietRefreshReadsMealie
<1> QED
  BY <1>1, <1>2, <1>3, <1>4, <1>5 DEF Next

(***************************************************************************)
(* The cache, the fetches and the calls are well typed; who waits has a    *)
(* fetch of its recipe, and every fetch has somebody who waits; a fetch    *)
(* that runs is registered until the cache is cleared.                     *)
(***************************************************************************)
THEOREM CacheInvariantHolds == Spec => []CacheInvariant
BY CacheInit, NextKeepsCacheInvariant, PTL DEF Spec

(* The dictionaries of the recipe cache and its calls are well typed. *)
THEOREM CacheTypeOK == Spec => []TypeOK
<1>1. CacheInvariant => TypeOK
  BY DEF CacheInvariant
<1> QED
  BY <1>1, CacheInvariantHolds, PTL

(* _fetch_cached_detail never fetches a recipe twice at once between two clears. *)
THEOREM SingleFlightHolds == Spec => []SingleFlight
<1>1. CacheInvariant => SingleFlight
  BY DEF CacheInvariant
<1> QED
  BY <1>1, CacheInvariantHolds, PTL

(* _recipe_inflight holds only fetches of the recipe that somebody awaits. *)
THEOREM RegisteredIsAwaitedHolds == Spec => []RegisteredIsAwaited
<1>1. CacheInvariant => RegisteredIsAwaited
  BY DEF CacheInvariant
<1> QED
  BY <1>1, CacheInvariantHolds, PTL

(* A refresh beside which no call waits is answered with what Mealie then held. *)
THEOREM QuietRefreshHolds == Spec => []QuietRefreshReadsMealie
<1>1. CacheInvariant => QuietRefreshReadsMealie
  BY DEF CacheInvariant
<1> QED
  BY <1>1, CacheInvariantHolds, PTL
=============================================================================
