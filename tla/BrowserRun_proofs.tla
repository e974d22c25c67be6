--------------------------- MODULE BrowserRun_proofs ---------------------------
(***************************************************************************)
(* Proofs about BrowserRun: its invariants and its two action properties,  *)
(* for any number of runs, of share POSTs and of readiness checks.         *)
(***************************************************************************)
EXTENDS BrowserRun, FiniteSetTheorems, TLAPS

Testing == {"latency", "download", "upload"}

\* A run that measured everything; what such a run leaves on the page.
Completed(r) == run[r].pc = "over" /\ ~ run[r].aborted

AllOf(r) == [latency |-> r, download |-> r, upload |-> r,
             downloadLatency |-> r, uploadLatency |-> r]

-----------------------------------------------------------------------------
(* The inductive invariant. *)

\* What a startTest call may be doing, for the page it finds: the current run
\* is where the page says it is, and any other has ended or been aborted.
FitsPage(r, rec) ==
  IF isCurrentRun(r)
  THEN /\ ~ rec.aborted /\ rec.pc \in {"latency", "frame", "worker", "probeStop"}
       /\ rec.pc = "latency" <=> phase = "latency"
       /\ rec.dir = IF phase = "latency" THEN "download" ELSE phase
  ELSE /\ rec.pc # "worker"
       /\ rec.pc \in {"latency", "frame", "probeStop"} => rec.aborted

RunsFitPage ==
  /\ isRunning <=> abortController # None
  /\ isRunning <=> phase \in Testing
  /\ \A r \in Runs : FitsPage(r, run[r])

\* Two generations pass for each run, one at its start and one at its reset.
GenerationsCounted ==
  \E n \in 0 .. MaxRuns :
    /\ \A r \in Runs : run[r].pc = "none" <=> r > n
    /\ runGeneration = 2 * n - (IF phase = "idle" THEN 0 ELSE 1)

\* The page shows what the run that owns it has measured so far.
PageOfPhase ==
  /\ phase \in {"idle", "latency"} => result = Cleared
  /\ phase = "download" => result = [Cleared EXCEPT !.latency = abortController]
  /\ phase = "upload" =>
       result = [AllOf(abortController) EXCEPT !.upload = None, !.uploadLatency = None]
  /\ phase = "results" => \E r \in Runs : Completed(r) /\ result = AllOf(r)

HistoryOfCompleted ==
  /\ \A i \in DOMAIN history : Completed(history[i])
  /\ \A i, j \in DOMAIN history : history[i] = history[j] => i = j

\* A POST holds the results of a completed run, and no later generation's.
PostsOfCompleted ==
  \A s \in Shares :
    IF share[s].pc = "none"
    THEN share[s].of = Cleared /\ s \notin stored
    ELSE /\ \E r \in Runs : Completed(r) /\ share[s].of = AllOf(r)
         /\ share[s].generation <= runGeneration
         /\ share[s].generation = runGeneration <=> phase = "results" /\ share[s].of = result

\* What the results view knows of the POSTs made from it.
FromThisView(s) == share[s].pc # "none" /\ share[s].generation = runGeneration

ViewKnowsItsPosts ==
  IF phase = "results"
  THEN /\ \A s \in Shares : FromThisView(s) =>
            /\ share[s].pc = "posting" => shareSavePromise = s
            /\ share[s].pc = "over" => resultId # None
       /\ shareSavePromise # None =>
            share[shareSavePromise].pc = "posting" /\ FromThisView(shareSavePromise)
       /\ resultId # None =>
            share[resultId].pc = "over" /\ FromThisView(resultId) /\ resultId \in stored
       /\ shareDisabled <=> shareSavePromise # None
  ELSE shareSavePromise = None /\ resultId = None /\ ~ shareDisabled

\* Results are posted again only when every earlier POST of them has failed.
OneUnfailedPost ==
  \A s, t \in Shares :
    /\ share[s].pc \in {"posting", "over"} /\ share[t].pc \in {"posting", "over"}
    /\ share[s].of = share[t].of
    => s = t

IInv ==
  /\ TypeOK
  /\ RunsFitPage /\ GenerationsCounted
  /\ PageOfPhase /\ HistoryOfCompleted
  /\ PostsOfCompleted /\ ViewKnowsItsPosts /\ OneUnfailedPost

-----------------------------------------------------------------------------
(* What the parts of the invariant need of a step. *)

LEMMA ValuesTyped ==
  /\ Cleared \in Values
  /\ \A r \in Runs : AllOf(r) \in Values /\ AllOf(r) # Cleared
  /\ \A q, r \in Runs : AllOf(q) = AllOf(r) => q = r
BY BoundAssumption DEF Cleared, Values, AllOf, Runs, Tags, None

LEMMA Fieldwise ==
  ASSUME NEW u \in Values, NEW v \in Values,
         u.latency = v.latency, u.download = v.download, u.upload = v.upload,
         u.downloadLatency = v.downloadLatency, u.uploadLatency = v.uploadLatency
  PROVE  u = v
BY DEF Values

LEMMA CallsTyped ==
  /\ NewRun \in Call
  /\ \A rec \in Call : /\ Over(rec) \in Call /\ Over(rec).pc = "over"
                        /\ Over(rec).aborted = rec.aborted
                        /\ Over([rec EXCEPT !.aborted = TRUE]) \in Call
                        /\ Over([rec EXCEPT !.aborted = TRUE]).aborted
BY DEF NewRun, Call, Over

\* While a run tests, the page is its.
LEMMA Owner ==
  ASSUME IInv
  PROVE  /\ abortController # None => abortController \in Runs
         /\ \A r \in Runs : /\ run[r].pc = "worker" => isCurrentRun(r)
                            /\ isCurrentRun(r) => phase \in Testing /\ isRunning
                            /\ isCurrentRun(r) => ~ Completed(r) /\ ~ run[r].aborted
<1>1. abortController # None => abortController \in Runs
  BY BoundAssumption DEF IInv, TypeOK, Tags, Runs, None
<1>2. \A r \in Runs : run[r].pc = "worker" => isCurrentRun(r)
  BY DEF IInv, RunsFitPage, FitsPage
<1>3. \A r \in Runs : isCurrentRun(r) => phase \in Testing /\ isRunning
  <2>1. \A r \in Runs : r # None
    BY DEF Runs, None
  <2>. QED  BY <2>1 DEF IInv, RunsFitPage, isCurrentRun
<1>4. \A r \in Runs : isCurrentRun(r) => ~ Completed(r) /\ ~ run[r].aborted
  BY DEF IInv, RunsFitPage, FitsPage, Completed
<1>. QED  BY <1>1, <1>2, <1>3, <1>4

\* A completed run stays one, and so does what rests on it.
LEMMA HistoryKept ==
  ASSUME IInv, history' = history, \A q \in Runs : Completed(q) => Completed(q)'
  PROVE  HistoryOfCompleted'
<1>1. \A i \in DOMAIN history : history[i] \in Runs
  BY DEF IInv, TypeOK
<1>. QED  BY <1>1 DEF IInv, HistoryOfCompleted

\* POSTs of this view remain of this view, and of older ones of older ones.
LEMMA SharingKept ==
  ASSUME IInv, UNCHANGED <<sharing, runGeneration>>,
         \A q \in Runs : Completed(q) => Completed(q)',
         phase' = "results" <=> phase = "results", phase = "results" => result' = result
  PROVE  PostsOfCompleted' /\ ViewKnowsItsPosts' /\ OneUnfailedPost'
<1>1. PostsOfCompleted'
  BY DEF IInv, PostsOfCompleted, sharing, links
<1>2. ViewKnowsItsPosts'
  BY DEF IInv, ViewKnowsItsPosts, FromThisView, sharing, links
<1>3. OneUnfailedPost'
  BY DEF IInv, OneUnfailedPost, sharing, links
<1>. QED  BY <1>1, <1>2, <1>3

\* A step of one startTest that leaves the page alone.
LEMMA RunMoves ==
  ASSUME IInv, NEW r \in Runs, run[r].pc \notin {"none", "over"},
         NEW rec \in Call, rec.pc # "none", FitsPage(r, rec), Put(r, rec),
         UNCHANGED <<control, result, history, sharing, network>>
  PROVE  IInv'
<1>1. TypeOK'
  BY DEF IInv, TypeOK, Put, control, sharing, links, network
<1>2. \A q \in Runs : run'[q] = IF q = r THEN rec ELSE run[q]
  BY DEF IInv, TypeOK, Put
<1>3. \A q \in Runs : Completed(q) => Completed(q)'
  BY <1>2 DEF Completed
<1>4. RunsFitPage'
  BY <1>2 DEF IInv, RunsFitPage, FitsPage, isCurrentRun, control
<1>5. GenerationsCounted'
  BY <1>2 DEF IInv, GenerationsCounted, control
<1>6. PageOfPhase'
  BY <1>3 DEF IInv, PageOfPhase, control
<1>7. HistoryOfCompleted'
  BY <1>3, HistoryKept
<1>8. PostsOfCompleted' /\ ViewKnowsItsPosts' /\ OneUnfailedPost'
  BY <1>3, SharingKept DEF control
<1>. QED  BY <1>1, <1>4, <1>5, <1>6, <1>7, <1>8 DEF IInv

\* The current run goes on to its next direction.
LEMMA PageAdvances ==
  ASSUME IInv, NEW r \in Runs, isCurrentRun(r),
         NEW rec \in Call, rec.pc = "frame", ~ rec.aborted, rec.dir = phase',
         phase' \in {"download", "upload"}, result' \in Values, PageOfPhase', Put(r, rec),
         UNCHANGED <<isRunning, abortController, runGeneration, history, sharing, network>>
  PROVE  IInv'
<1>1. TypeOK'
  BY DEF IInv, TypeOK, Put, sharing, links, network
<1>2. \A q \in Runs : run'[q] = IF q = r THEN rec ELSE run[q]
  BY DEF IInv, TypeOK, Put
<1>3. phase \in Testing /\ isRunning /\ ~ Completed(r)
      /\ run[r].pc # "none"
  BY Owner DEF IInv, RunsFitPage, FitsPage
<1>4. \A q \in Runs : Completed(q) => Completed(q)'
  BY <1>2, <1>3 DEF Completed
<1>5. RunsFitPage'
  <2>1. \A q \in Runs : FitsPage(q, run[q])'
    BY <1>2 DEF IInv, RunsFitPage, FitsPage, isCurrentRun
  <2>. QED  BY <1>3, <2>1 DEF IInv, RunsFitPage, Testing
<1>6. GenerationsCounted'
  BY <1>2, <1>3 DEF IInv, GenerationsCounted, Testing
<1>7. HistoryOfCompleted'
  BY <1>4, HistoryKept
<1>8. PostsOfCompleted' /\ ViewKnowsItsPosts' /\ OneUnfailedPost'
  BY <1>3, <1>4, SharingKept DEF Testing
<1>. QED  BY <1>1, <1>5, <1>6, <1>7, <1>8 DEF IInv

\* The page goes back to idle, and the current run, if any, is aborted.
LEMMA Resets ==
  ASSUME IInv, phase # "idle", BackToIdle, run' \in [Runs -> Call],
         \A q \in Runs : IF isCurrentRun(q)
                         THEN run'[q].aborted /\ run'[q].pc \notin {"none", "worker"}
                         ELSE run'[q] = run[q]
  PROVE  IInv'
<1>1. \A q \in Runs : ~ isCurrentRun(q)'
  BY DEF BackToIdle, isCurrentRun, Runs, None
<1>2. \A q \in Runs : isCurrentRun(q) => run[q].pc # "none" /\ ~ Completed(q)
  BY Owner DEF IInv, RunsFitPage, FitsPage
<1>3. \A q \in Runs : Completed(q) => Completed(q)'
  BY <1>2 DEF Completed
<1>4. RunsFitPage'
  BY <1>1 DEF IInv, RunsFitPage, FitsPage, BackToIdle, Testing
<1>5. PICK n \in 0 .. MaxRuns :
        /\ \A r \in Runs : run[r].pc = "none" <=> r > n
        /\ runGeneration = 2 * n - 1
  BY DEF IInv, GenerationsCounted
<1>6. GenerationsCounted' /\ runGeneration' = 2 * n
  <2>1. \A r \in Runs : run'[r].pc = "none" <=> r > n
    BY <1>2, <1>5
  <2>2. runGeneration' = 2 * n
    BY <1>5, BoundAssumption DEF BackToIdle
  <2>. QED  BY <2>1, <2>2, BoundAssumption DEF GenerationsCounted, BackToIdle
<1>7. TypeOK'
  <2>1. runGeneration' \in 0 .. 2 * MaxRuns /\ abortController' \in Tags
    BY <1>6, BoundAssumption DEF BackToIdle, Tags, None
  <2>2. {resultId', shareSavePromise', clipboard'} \subseteq Shares \cup {None}
    BY DEF IInv, TypeOK, BackToIdle, links
  <2>3. isRunning' \in BOOLEAN /\ shareDisabled' \in BOOLEAN /\ handing' \in [Shares -> Nat]
    BY DEF BackToIdle, IInv, TypeOK, links
  <2>. QED  BY <2>1, <2>2, <2>3, ValuesTyped DEF IInv, TypeOK, BackToIdle, network
<1>8. PageOfPhase'
  BY DEF PageOfPhase, BackToIdle
<1>9. HistoryOfCompleted'
  BY <1>3, HistoryKept DEF BackToIdle
<1>10. PostsOfCompleted'
  <2>1. \A s \in Shares : share[s].generation \in Int
    BY BoundAssumption DEF IInv, TypeOK, Post
  <2>2. runGeneration \in Int
    BY BoundAssumption DEF IInv, TypeOK
  <2>. QED  BY <1>3, <2>1, <2>2 DEF IInv, PostsOfCompleted, BackToIdle
<1>11. ViewKnowsItsPosts' /\ OneUnfailedPost'
  BY DEF IInv, ViewKnowsItsPosts, OneUnfailedPost, BackToIdle
<1>. QED  BY <1>4, <1>6, <1>7, <1>8, <1>9, <1>10, <1>11 DEF IInv

-----------------------------------------------------------------------------
(* Every step preserves the invariant. *)

LEMMA InitEstablishes == Init => IInv
<1>. SUFFICES ASSUME Init PROVE IInv
  OBVIOUS
<1>1. TypeOK
  <2>1. [pc |-> "none", generation |-> 0, of |-> Cleared] \in Post
    BY ValuesTyped, BoundAssumption DEF Post
  <2>2. <<>> \in Seq(Runs) /\ {None} \subseteq Shares \cup {None}
    OBVIOUS
  <2>3. {None, 0} \subseteq Tags /\ 0 \in 0 .. 2 * MaxRuns /\ 0 \in 0 .. MaxChecks
    BY BoundAssumption DEF Tags, None
  <2>4. run \in [Runs -> Call] /\ share \in [Shares -> Post]
    BY <2>1, CallsTyped DEF Init
  <2>. QED  BY <2>2, <2>3, <2>4, ValuesTyped DEF Init, TypeOK
<1>2. \A r \in Runs : run[r].pc = "none" /\ ~ isCurrentRun(r)
  BY DEF Init, NewRun, isCurrentRun, Runs, None
<1>3. RunsFitPage
  BY <1>2 DEF Init, RunsFitPage, FitsPage, Testing
<1>4. GenerationsCounted
  <2>1. \A r \in Runs : run[r].pc = "none" <=> r > 0
    BY <1>2 DEF Runs
  <2>. QED  BY <2>1, BoundAssumption DEF Init, GenerationsCounted
<1>5. PageOfPhase /\ HistoryOfCompleted
  BY DEF Init, PageOfPhase, HistoryOfCompleted
<1>6. PostsOfCompleted /\ ViewKnowsItsPosts /\ OneUnfailedPost
  BY DEF Init, PostsOfCompleted, ViewKnowsItsPosts, OneUnfailedPost
<1>. QED  BY <1>1, <1>3, <1>4, <1>5, <1>6 DEF IInv

LEMMA StartTestPreserves ==
  ASSUME IInv, NEW r \in Runs, StartTest(r)
  PROVE  IInv'
<1> DEFINE rec == [NewRun EXCEPT !.pc = "latency"]
<1>1. rec \in Call /\ rec.pc = "latency" /\ ~ rec.aborted /\ rec.dir = "download"
  BY DEF NewRun, Call
<1> HIDE DEF rec
<1>2. \A q \in Runs : run'[q] = IF q = r THEN rec ELSE run[q]
  BY DEF StartTest, Put, IInv, TypeOK, rec
<1>3. \A q \in Runs : Completed(q) => Completed(q)'
  BY <1>2 DEF StartTest, Completed
<1>4. \A q \in Runs : ~ isCurrentRun(q)
  BY Owner DEF StartTest
<1>5. PICK n \in 0 .. MaxRuns :
        /\ \A q \in Runs : run[q].pc = "none" <=> q > n
        /\ runGeneration = 2 * n
  BY BoundAssumption DEF StartTest, IInv, GenerationsCounted
<1>6. r = n + 1
  <2>1. r > n /\ \A q \in 1 .. r - 1 : q <= n
    <3>1. \A q \in 1 .. r - 1 : q \in Runs /\ run[q].pc # "none"
      BY BoundAssumption DEF StartTest, Runs
    <3>2. n \in Int /\ \A q \in Runs : q \in Int
      BY DEF Runs
    <3>. QED  BY <1>5, <3>1, <3>2 DEF StartTest
  <2>2. r <= n + 1
    <3>1. CASE r > 1
      <4>1. r - 1 \in 1 .. r - 1
        BY <3>1 DEF Runs
      <4>. QED  BY <2>1, <4>1 DEF Runs
    <3>. QED  BY <3>1 DEF Runs
  <2>. QED  BY <2>1, <2>2 DEF Runs
<1>7. GenerationsCounted' /\ runGeneration' = 2 * r - 1
  <2>1. \A q \in Runs : run'[q].pc = "none" <=> q > n + 1
    BY <1>1, <1>2, <1>5, <1>6 DEF Runs
  <2>2. n + 1 \in 0 .. MaxRuns /\ runGeneration' = 2 * (n + 1) - 1
    BY <1>5, <1>6, BoundAssumption DEF StartTest, Runs
  <2>. QED  BY <1>6, <2>1, <2>2 DEF GenerationsCounted, StartTest
<1>8. TypeOK'
  <2>1. runGeneration' \in 0 .. 2 * MaxRuns /\ abortController' \in Tags
    BY <1>7, BoundAssumption DEF StartTest, Runs, Tags
  <2>2. run' \in [Runs -> Call]
    BY <1>1 DEF StartTest, Put, IInv, TypeOK, rec
  <2>. QED  BY <2>1, <2>2, ValuesTyped DEF StartTest, IInv, TypeOK, sharing, links, network
<1>9. RunsFitPage'
  <2>1. \A q \in Runs : FitsPage(q, run[q])'
    BY <1>1, <1>2, <1>4 DEF StartTest, IInv, RunsFitPage, FitsPage, isCurrentRun
  <2>2. r # None
    BY DEF Runs, None
  <2>. QED  BY <2>1, <2>2 DEF StartTest, RunsFitPage, Testing
<1>10. PageOfPhase'
  BY DEF StartTest, PageOfPhase
<1>11. HistoryOfCompleted'
  BY <1>3, HistoryKept DEF StartTest
<1>12. PostsOfCompleted'
  <2>1. \A s \in Shares : share[s].generation \in Int
    BY BoundAssumption DEF IInv, TypeOK, Post
  <2>2. runGeneration \in Int
    BY BoundAssumption DEF IInv, TypeOK
  <2>. QED  BY <1>3, <2>1, <2>2 DEF StartTest, IInv, PostsOfCompleted, sharing, links
<1>13. ViewKnowsItsPosts' /\ OneUnfailedPost'
  BY DEF StartTest, IInv, ViewKnowsItsPosts, OneUnfailedPost, sharing, links
<1>. QED  BY <1>7, <1>8, <1>9, <1>10, <1>11, <1>12, <1>13 DEF IInv

LEMMA resetToIdlePreserves ==
  ASSUME IInv, resetToIdle
  PROVE  IInv'
<1>1. CASE abortController = None
  <2>1. \A q \in Runs : ~ isCurrentRun(q)
    BY <1>1 DEF isCurrentRun, Runs, None
  <2>. QED  BY <1>1, <2>1, Resets DEF resetToIdle, IInv, TypeOK
<1>2. CASE abortController # None
  <2> DEFINE c == abortController
  <2>1. c \in Runs /\ run[c] \in Call /\ run[c].pc \in {"latency", "frame", "worker", "probeStop"}
    BY <1>2, Owner DEF IInv, TypeOK, RunsFitPage, FitsPage, isCurrentRun
  <2>2. /\ Aborted(run[c]) \in Call /\ Aborted(run[c]).aborted
        /\ Aborted(run[c]).pc \notin {"none", "worker"}
    <3> DEFINE dead == [run[c] EXCEPT !.aborted = TRUE]
               stopped == [dead EXCEPT !.pc = "probeStop", !.outcome = "abort"]
    <3>1. /\ dead \in Call /\ dead.aborted /\ dead.pc = run[c].pc
          /\ stopped \in Call /\ stopped.aborted /\ stopped.pc = "probeStop"
      BY <2>1 DEF Call
    <3>2. Over(dead) \in Call /\ Over(dead).aborted /\ Over(dead).pc = "over"
      BY <2>1, <3>1, CallsTyped
    <3>3. Aborted(run[c]) = IF run[c].pc # "worker" THEN dead
                            ELSE IF run[c].probe = "body" THEN stopped ELSE Over(dead)
      BY DEF Aborted
    <3> HIDE DEF dead, stopped, c
    <3>. QED  BY <2>1, <3>1, <3>2, <3>3
  <2>3. run' = [run EXCEPT ![c] = Aborted(@)]
    BY <1>2 DEF resetToIdle
  <2>4. run' \in [Runs -> Call]
    BY <2>1, <2>2, <2>3 DEF IInv, TypeOK
  <2>5. \A q \in Runs : IF isCurrentRun(q)
                        THEN run'[q].aborted /\ run'[q].pc \notin {"none", "worker"}
                        ELSE run'[q] = run[q]
    BY <2>1, <2>2, <2>3 DEF IInv, TypeOK, isCurrentRun
  <2>. QED  BY <2>4, <2>5, Resets DEF resetToIdle
<1>. QED  BY <1>1, <1>2

LEMMA ThrowPreserves ==
  ASSUME IInv, NEW r \in Runs, run[r].pc \in {"frame", "worker", "probeStop"}, Throw(r)
  PROVE  IInv'
<1>1. run[r] \in Call /\ run \in [Runs -> Call]
  BY DEF IInv, TypeOK
<1>2. CASE isCurrentRun(r)
  <2> DEFINE rec == Over([run[r] EXCEPT !.aborted = TRUE])
  <2>1. rec \in Call /\ rec.aborted /\ rec.pc = "over"
    BY <1>1, CallsTyped DEF Over, Call
  <2>2. BackToIdle /\ run' = [run EXCEPT ![r] = rec]
    BY <1>2 DEF Throw, Put
  <2> HIDE DEF rec
  <2>3. \A q \in Runs : IF isCurrentRun(q)
                        THEN run'[q].aborted /\ run'[q].pc \notin {"none", "worker"}
                        ELSE run'[q] = run[q]
    BY <1>1, <1>2, <2>1, <2>2 DEF isCurrentRun
  <2>4. run' \in [Runs -> Call] /\ phase # "idle"
    BY <1>1, <1>2, <2>1, <2>2, Owner DEF Testing
  <2>. QED  BY <2>2, <2>3, <2>4, Resets
<1>3. CASE ~ isCurrentRun(r)
  <2>1. Over(run[r]) \in Call /\ Over(run[r]).pc = "over"
    BY <1>1, CallsTyped
  <2>2. FitsPage(r, Over(run[r]))
    BY <1>3, <2>1 DEF FitsPage
  <2>. QED  BY <1>3, <2>1, <2>2, RunMoves DEF Throw
<1>. QED  BY <1>2, <1>3

LEMMA LatencyEndsPreserves ==
  ASSUME IInv, NEW r \in Runs, LatencyEnds(r)
  PROVE  IInv'
<1>1. run[r] \in Call
  BY DEF IInv, TypeOK
<1>2. CASE isCurrentRun(r)
  <2> DEFINE rec == [run[r] EXCEPT !.pc = "frame"]
  <2>1. rec \in Call /\ rec.pc = "frame" /\ ~ rec.aborted
    BY <1>1, <1>2, Owner DEF Call
  <2>2. phase = "latency" /\ result = Cleared
    BY <1>2 DEF LatencyEnds, IInv, RunsFitPage, FitsPage, PageOfPhase
  <2>3. PageOfPhase' /\ result' \in Values
    <3>1. result' = [Cleared EXCEPT !.latency = r] /\ phase' = "download"
          /\ abortController' = r
      BY <1>2, <2>2 DEF LatencyEnds, isCurrentRun
    <3>2. r \in Tags
      BY DEF Runs, Tags
    <3>. QED  BY <3>1, <3>2, ValuesTyped DEF PageOfPhase, Values
  <2>4. rec.dir = "download"
    BY <1>2, <2>2 DEF IInv, RunsFitPage, FitsPage
  <2>. QED  BY <1>2, <2>1, <2>3, <2>4, PageAdvances DEF LatencyEnds
<1>3. CASE ~ isCurrentRun(r)
  <2>1. Over(run[r]) \in Call /\ Over(run[r]).pc = "over"
    BY <1>1, CallsTyped
  <2>2. FitsPage(r, Over(run[r]))
    BY <1>3, <2>1 DEF FitsPage
  <2>. QED  BY <1>3, <2>1, <2>2, RunMoves DEF LatencyEnds, control
<1>. QED  BY <1>2, <1>3

\* The last direction is measured: the run is completed, its results shown.
LEMMA Completes ==
  ASSUME IInv, NEW r \in Runs, isCurrentRun(r), run[r].dir = "upload", phase = "upload",
         FinishDirection(r)
  PROVE  IInv'
<1> DEFINE rec == Over(run[r])
<1>1. run[r] \in Call /\ rec \in Call /\ rec.pc = "over" /\ rec.aborted = run[r].aborted
  BY CallsTyped DEF IInv, TypeOK
<1>2. ~ run[r].aborted /\ run[r].pc # "none" /\ ~ Completed(r)
  BY Owner DEF IInv, RunsFitPage, FitsPage
<1>3. run' = [run EXCEPT ![r] = rec]
  BY DEF FinishDirection, Put
<1>4. \A q \in Runs : run'[q] = IF q = r THEN rec ELSE run[q]
  BY <1>3 DEF IInv, TypeOK
<1> HIDE DEF rec
<1>5. Completed(r)' /\ \A q \in Runs : Completed(q) => Completed(q)'
  BY <1>1, <1>2, <1>4 DEF Completed
<1>6. result' = AllOf(r)
  <2>1. result = [AllOf(r) EXCEPT !.upload = None, !.uploadLatency = None]
    BY DEF IInv, PageOfPhase, isCurrentRun
  <2>. QED  BY <2>1 DEF FinishDirection, AllOf
<1>7. result' \in Values /\ result'.upload = r
  BY <1>6, ValuesTyped DEF AllOf
<1>8. history' = Append(history, r) /\ history \in Seq(Runs)
  BY <1>7 DEF FinishDirection, recordRunInHistory, IInv, TypeOK
<1>9. TypeOK'
  <2>1. abortController' \in Tags
    BY BoundAssumption DEF FinishDirection, Tags, None
  <2>2. run' \in [Runs -> Call]
    BY <1>1, <1>3 DEF IInv, TypeOK
  <2>3. history' \in Seq(Runs)
    BY <1>8
  <2>4. isRunning' \in BOOLEAN /\ shareDisabled' \in BOOLEAN /\ handing' \in [Shares -> Nat]
    BY DEF FinishDirection, IInv, TypeOK, links
  <2>5. {resultId', shareSavePromise', clipboard'} \subseteq Shares \cup {None}
    BY DEF FinishDirection, IInv, TypeOK, links
  <2>. QED
    BY <1>7, <2>1, <2>2, <2>3, <2>4, <2>5 DEF FinishDirection, IInv, TypeOK, network
<1>10. RunsFitPage'
  <2>1. \A q \in Runs : ~ isCurrentRun(q)' /\ (q # r => ~ isCurrentRun(q))
    BY DEF FinishDirection, isCurrentRun, Runs, None
  <2>2. \A q \in Runs : FitsPage(q, run[q])'
    BY <1>1, <1>4, <2>1 DEF IInv, RunsFitPage, FitsPage
  <2>. QED  BY <2>2 DEF FinishDirection, RunsFitPage, Testing
<1>11. GenerationsCounted'
  BY <1>1, <1>2, <1>4 DEF FinishDirection, IInv, GenerationsCounted
<1>12. PageOfPhase'
  BY <1>5, <1>6 DEF FinishDirection, PageOfPhase
<1>13. HistoryOfCompleted'
  <2>1. \A i \in DOMAIN history : history[i] \in Runs /\ Completed(history[i])
    BY <1>8 DEF IInv, HistoryOfCompleted
  <2>2. \A i \in DOMAIN history' :
          IF i = Len(history) + 1 THEN history'[i] = r
          ELSE i \in DOMAIN history /\ history'[i] = history[i]
    BY <1>8
  <2>3. \A i \in DOMAIN history' : Completed(history[i])' /\ history'[i] \in Runs
    BY <1>5, <2>1, <2>2
  <2>4. \A i, j \in DOMAIN history' : history'[i] = history'[j] => i = j
    BY <1>2, <2>1, <2>2 DEF IInv, HistoryOfCompleted
  <2>. QED  BY <2>3, <2>4 DEF HistoryOfCompleted
<1>14. \A s \in Shares : share[s].pc # "none" =>
         /\ share[s].generation # runGeneration
         /\ share[s].of # result'
  \* No POST is of this generation, or of a run that was not completed.
  BY <1>2, <1>6, ValuesTyped DEF IInv, PostsOfCompleted
<1>15. PostsOfCompleted'
  BY <1>5, <1>14 DEF FinishDirection, IInv, PostsOfCompleted
<1>16. ViewKnowsItsPosts' /\ OneUnfailedPost'
  BY <1>14 DEF FinishDirection, IInv, ViewKnowsItsPosts, FromThisView, OneUnfailedPost
<1>. QED
  BY <1>9, <1>10, <1>11, <1>12, <1>13, <1>15, <1>16 DEF IInv

LEMMA AfterProbePreserves ==
  ASSUME IInv, NEW r \in Runs, run[r].pc \in {"worker", "probeStop"},
         NEW outcome, AfterProbe(r, outcome)
  PROVE  IInv'
<1>1. CASE Throw(r)
  BY <1>1, ThrowPreserves
<1>2. CASE isCurrentRun(r) /\ FinishDirection(r)
  <2>1. phase \in {"download", "upload"} /\ phase = run[r].dir
    BY <1>2, Owner DEF IInv, RunsFitPage, FitsPage, Testing
  <2>2. CASE phase = "upload"
    BY <1>2, <2>1, <2>2, Completes
  <2>3. CASE phase = "download"
    <3> DEFINE rec == [NewRun EXCEPT !.pc = "frame", !.dir = "upload"]
    <3>1. rec \in Call /\ rec.pc = "frame" /\ ~ rec.aborted /\ rec.dir = "upload"
      BY DEF NewRun, Call
    <3>2. /\ result' = [result EXCEPT !.download = r, !.downloadLatency = r]
          /\ phase' = "upload" /\ Put(r, rec)
          /\ UNCHANGED <<isRunning, abortController, runGeneration, history, sharing, network>>
      BY <1>2, <2>1, <2>3 DEF FinishDirection
    <3>3. r \in Tags /\ None \in Tags
      BY BoundAssumption DEF Runs, Tags, None
    <3>4. result \in Values /\ result' \in Values
      BY <3>2, <3>3 DEF IInv, TypeOK, Values
    <3>5. PageOfPhase'
      <4> DEFINE v == [AllOf(r) EXCEPT !.upload = None, !.uploadLatency = None]
      <4>1. /\ v \in Values
            /\ v.latency = r /\ v.download = r /\ v.upload = None
            /\ v.downloadLatency = r /\ v.uploadLatency = None
        BY <3>3 DEF AllOf, Values
      <4>2. result = [Cleared EXCEPT !.latency = r]
        BY <1>2, <2>3 DEF IInv, PageOfPhase, isCurrentRun
      <4>3. result.latency = r /\ result.upload = None /\ result.uploadLatency = None
        BY <4>2 DEF Cleared
      <4>4. /\ result'.latency = r /\ result'.download = r /\ result'.upload = None
            /\ result'.downloadLatency = r /\ result'.uploadLatency = None
        BY <3>2, <3>4, <4>3 DEF Values
      <4>5. result' = v
        <5> HIDE DEF v
        <5>. QED  BY <3>4, <4>1, <4>4, Fieldwise
      <4>6. abortController' = r
        BY <1>2, <3>2 DEF isCurrentRun
      <4>. QED  BY <3>2, <4>5, <4>6 DEF PageOfPhase
    <3> HIDE DEF rec
    <3>. QED  BY <1>2, <3>1, <3>2, <3>4, <3>5, PageAdvances
  <2>. QED  BY <2>1, <2>2, <2>3
<1>. QED  BY <1>1, <1>2 DEF AfterProbe

LEMMA RunPreserves ==
  ASSUME IInv, NEW r \in Runs,
         \/ RunStep(r) \/ MeasureStart(r) \/ ProbeHeaders(r) \/ ProbeFails(r)
         \/ ProbeWakes(r) \/ ProbeBody(r)
  PROVE  IInv'
<1>1. run[r] \in Call /\ FitsPage(r, run[r])
  BY DEF IInv, TypeOK, RunsFitPage
<1>2. CASE Frame(r)
  <2> DEFINE rec == [run[r] EXCEPT !.pc = "worker"]
  <2>1. CASE Throw(r)
    BY <1>2, <2>1, ThrowPreserves DEF Frame
  <2>2. CASE ~ run[r].aborted
    <3>1. rec \in Call /\ rec.pc = "worker" /\ FitsPage(r, rec)
      BY <1>1, <1>2, <2>2 DEF Frame, FitsPage, Call
    <3>2. /\ run[r].pc = "frame" /\ Put(r, rec)
          /\ UNCHANGED <<control, result, history, sharing, network>>
      BY <1>2, <2>2 DEF Frame
    <3> HIDE DEF rec
    <3>. QED  BY <3>1, <3>2, RunMoves
  <2>. QED  BY <1>2, <2>1, <2>2 DEF Frame
<1>3. ASSUME NEW outcome \in {"ok", "error"}, WorkerSettles(r, outcome)
      PROVE  IInv'
  <2> DEFINE rec == [run[r] EXCEPT !.pc = "probeStop", !.outcome = outcome]
  <2>1. CASE AfterProbe(r, outcome)
    BY <1>3, <2>1, AfterProbePreserves DEF WorkerSettles
  <2>2. CASE Put(r, rec) /\ UNCHANGED <<control, result, history, sharing, network>>
    <3>1. rec \in Call /\ rec.pc = "probeStop" /\ FitsPage(r, rec)
      BY <1>1, <1>3 DEF WorkerSettles, FitsPage, Call
    <3>2. run[r].pc = "worker"
      BY <1>3 DEF WorkerSettles
    <3> HIDE DEF rec
    <3>. QED  BY <2>2, <3>1, <3>2, RunMoves
  <2>. QED  BY <1>3, <2>1, <2>2 DEF WorkerSettles
<1>4. ASSUME NEW from, NEW to \in {"headers", "body", "sleep"}, ProbeStep(r, from, to)
      PROVE  IInv'
  <2> DEFINE rec == [run[r] EXCEPT !.probe = to]
  <2>1. rec \in Call /\ rec.pc = "worker" /\ FitsPage(r, rec)
    BY <1>1, <1>4 DEF ProbeStep, FitsPage, Call
  <2>2. /\ run[r].pc = "worker" /\ Put(r, rec)
        /\ UNCHANGED <<control, result, history, sharing, network>>
    BY <1>4 DEF ProbeStep
  <2> HIDE DEF rec
  <2>. QED  BY <2>1, <2>2, RunMoves
<1>5. CASE ProbeBody(r)
  BY <1>4, <1>5, AfterProbePreserves DEF ProbeBody
<1>. QED
  BY <1>2, <1>3, <1>4, <1>5, LatencyEndsPreserves
    DEF RunStep, WorkerResult, WorkerError, MeasureStart, ProbeHeaders, ProbeFails, ProbeWakes

\* What a step that only shares or probes leaves as it was.
LEMMA PageStays ==
  ASSUME IInv, UNCHANGED <<control, result, history, run>>
  PROVE  /\ RunsFitPage' /\ GenerationsCounted' /\ PageOfPhase' /\ HistoryOfCompleted'
         /\ \A q \in Runs : Completed(q)' <=> Completed(q)
<1>. USE DEF IInv, control
<1>1. RunsFitPage'
  BY DEF RunsFitPage, FitsPage, isCurrentRun
<1>2. GenerationsCounted'
  BY DEF GenerationsCounted
<1>3. PageOfPhase' /\ HistoryOfCompleted' /\ \A q \in Runs : Completed(q)' <=> Completed(q)
  BY DEF PageOfPhase, HistoryOfCompleted, Completed
<1>. QED  BY <1>1, <1>2, <1>3

LEMMA PostSharePreserves ==
  ASSUME IInv, NEW s \in Shares, PostShare(s)
  PROVE  IInv'
<1> DEFINE post == [pc |-> "posting", generation |-> runGeneration, of |-> result]
<1>1. post \in Post
  BY DEF IInv, TypeOK, Post
<1>2. \A t \in Shares : share'[t] = IF t = s THEN post ELSE share[t]
  BY DEF PostShare, IInv, TypeOK
<1>3. TypeOK'
  BY <1>1 DEF PostShare, IInv, TypeOK, links, control, network
<1>4. s # None /\ share[s].pc = "none" /\ phase = "results" /\ resultId = None
      /\ shareSavePromise = None
  BY DEF PostShare, Shown, Shares, None
<1>5. PostsOfCompleted'
  <2>1. /\ \A q \in Runs : Completed(q)' <=> Completed(q)
        /\ \E r \in Runs : Completed(r) /\ result = AllOf(r)
        /\ runGeneration \in Int
    BY <1>4, PageStays, BoundAssumption DEF PostShare, IInv, TypeOK, PageOfPhase
  <2>. QED  BY <1>2, <1>4, <2>1 DEF PostShare, IInv, PostsOfCompleted, control
<1>6. \A t \in Shares : share[t].of = result => share[t].pc \notin {"posting", "over"}
  \* Or the promise, or the id, of the POST would be there.
  BY <1>4 DEF IInv, PostsOfCompleted, ViewKnowsItsPosts, FromThisView, None, Shares
<1>7. ViewKnowsItsPosts'
  <2>1. \A t \in Shares : FromThisView(t) => share[t].pc \notin {"posting", "over"}
    BY <1>4, <1>6 DEF IInv, PostsOfCompleted, FromThisView
  <2>2. /\ phase' = "results" /\ resultId' = None /\ shareSavePromise' = s /\ shareDisabled'
        /\ runGeneration' = runGeneration
    BY <1>4 DEF PostShare, control
  <2>. QED  BY <1>2, <1>4, <2>1, <2>2 DEF ViewKnowsItsPosts, FromThisView
<1>8. OneUnfailedPost'
  BY <1>2, <1>6 DEF IInv, OneUnfailedPost
<1>. QED  BY <1>3, <1>5, <1>7, <1>8, PageStays DEF PostShare, IInv

LEMMA copyShareUrlTyped ==
  ASSUME IInv, NEW s \in Shares, copyShareUrl(s)
  PROVE  clipboard' \in Shares \cup {None} /\ handing' \in [Shares -> Nat]
BY DEF copyShareUrl, IInv, TypeOK

LEMMA SettlePreserves ==
  ASSUME IInv, NEW s \in Shares, NEW ok \in BOOLEAN, Settle(s, ok), ok => s \in stored
  PROVE  IInv'
<1> DEFINE to == IF ok THEN "over" ELSE "failed"
<1>1. /\ share[s].pc = "posting" /\ s # None
      /\ share' = [share EXCEPT ![s].pc = to]
  BY DEF Settle, Shares, None
<1>2. \A t \in Shares : /\ share'[t].of = share[t].of
                       /\ share'[t].generation = share[t].generation
                       /\ share'[t].pc = IF t = s THEN to ELSE share[t].pc
  BY <1>1 DEF IInv, TypeOK, Post
<1>3. TypeOK'
  <2>1. share' \in [Shares -> Post]
    BY <1>1 DEF IInv, TypeOK, Post
  <2>2. {resultId', shareSavePromise', clipboard'} \subseteq Shares \cup {None}
    BY copyShareUrlTyped DEF Settle, IInv, TypeOK, links
  <2>3. shareDisabled' \in BOOLEAN /\ handing' \in [Shares -> Nat]
    BY copyShareUrlTyped DEF Settle, IInv, TypeOK, links
  <2>. QED  BY <2>1, <2>2, <2>3 DEF Settle, IInv, TypeOK, control, network
<1>4. PostsOfCompleted'
  BY <1>1, <1>2, PageStays DEF Settle, IInv, PostsOfCompleted, control
<1>5. OneUnfailedPost'
  BY <1>1, <1>2 DEF IInv, OneUnfailedPost
<1>6. ViewKnowsItsPosts'
  <2>1. \A t \in Shares : FromThisView(t)' <=> FromThisView(t)
    BY <1>1, <1>2 DEF Settle, FromThisView, control
  <2>2. CASE phase # "results"
    BY <1>1, <2>2 DEF Settle, StillShown, IInv, ViewKnowsItsPosts, control
  <2>3. CASE phase = "results" /\ ~ FromThisView(s)
    \* The answer to an older POST: the promise is not this one's.
    <3>1. shareSavePromise # s /\ ~ StillShown(s) /\ resultId # s
      BY <1>1, <2>3 DEF IInv, ViewKnowsItsPosts, FromThisView, StillShown
    <3>2. UNCHANGED <<resultId, shareSavePromise, shareDisabled, phase, stored>>
      BY <3>1 DEF Settle, control
    <3>. QED
      BY <1>2, <2>1, <2>3, <3>1, <3>2 DEF IInv, TypeOK, ViewKnowsItsPosts
  <2>4. CASE phase = "results" /\ FromThisView(s)
    <3>1. StillShown(s) /\ shareSavePromise = s
      BY <1>1, <2>4 DEF IInv, ViewKnowsItsPosts, FromThisView, StillShown
    <3>2. /\ shareSavePromise' = None /\ ~ shareDisabled' /\ UNCHANGED <<phase, stored>>
          /\ resultId' = IF ok THEN s ELSE resultId
      BY <3>1 DEF Settle, control
    <3>3. resultId = None
      \* Else an earlier POST of these results would have succeeded.
      BY <1>1, <2>4 DEF IInv, TypeOK, ViewKnowsItsPosts, FromThisView, PostsOfCompleted,
         OneUnfailedPost
    <3>4. \A t \in Shares : FromThisView(t) =>
            /\ share'[t].pc # "posting"
            /\ share'[t].pc = "over" => resultId' # None
      BY <1>1, <1>2, <2>4, <3>1, <3>2 DEF IInv, ViewKnowsItsPosts
    <3>5. resultId' # None => share'[resultId'].pc = "over" /\ FromThisView(resultId')
                             /\ resultId' \in stored
      BY <1>2, <2>4, <3>2, <3>3
    <3>. QED
      BY <2>1, <2>4, <3>2, <3>3, <3>4, <3>5 DEF ViewKnowsItsPosts
  <2>. QED  BY <2>2, <2>3, <2>4
<1>. QED  BY <1>3, <1>4, <1>5, <1>6, PageStays DEF Settle, IInv

\* Only the links move.
LEMMA LinksPreserve ==
  ASSUME IInv, clipboard' \in Shares \cup {None}, handing' \in [Shares -> Nat],
         UNCHANGED <<control, result, history, run, network,
                     resultId, shareSavePromise, shareDisabled, share, stored>>
  PROVE  IInv'
<1>1. TypeOK'
  BY DEF IInv, TypeOK, control, network
<1>2. PostsOfCompleted'
  BY PageStays DEF IInv, PostsOfCompleted, control
<1>3. ViewKnowsItsPosts' /\ OneUnfailedPost'
  BY DEF IInv, ViewKnowsItsPosts, FromThisView, OneUnfailedPost, control
<1>. QED  BY <1>1, <1>2, <1>3, PageStays DEF IInv

LEMMA SharePreserves ==
  ASSUME IInv,
         \/ CopyAgain
         \/ \E s \in Shares : \/ PostShare(s) \/ ServerStores(s) \/ ShareStep(s)
                               \/ LinkArrives(s) \/ LinkDropped(s)
  PROVE  IInv'
<1>1. CASE CopyAgain
  <2>1. resultId \in Shares
    BY <1>1 DEF CopyAgain, IInv, TypeOK
  <2>. QED  BY <1>1, <2>1, copyShareUrlTyped, LinksPreserve DEF CopyAgain
<1>2. ASSUME NEW s \in Shares, ServerStores(s)
      PROVE  IInv'
  <2>1. TypeOK'
    BY <1>2 DEF ServerStores, IInv, TypeOK, links, control, network
  <2>2. PostsOfCompleted'
    BY <1>2, PageStays DEF ServerStores, IInv, PostsOfCompleted, control
  <2>3. ViewKnowsItsPosts' /\ OneUnfailedPost'
    BY <1>2 DEF ServerStores, IInv, ViewKnowsItsPosts, FromThisView, OneUnfailedPost, control
  <2>. QED  BY <1>2, <2>1, <2>2, <2>3, PageStays DEF ServerStores, IInv
<1>3. ASSUME NEW s \in Shares, ShareStep(s)
      PROVE  IInv'
  BY <1>3, SettlePreserves DEF ShareStep, ShareSaved, ShareFails
<1>4. ASSUME NEW s \in Shares, LinkArrives(s) \/ LinkDropped(s)
      PROVE  IInv'
  <2>1. clipboard' \in Shares \cup {None} /\ handing' \in [Shares -> Nat]
    BY <1>4 DEF LinkArrives, LinkDropped, HandOverEnds, IInv, TypeOK
  <2>. QED  BY <1>4, <2>1, LinksPreserve DEF LinkArrives, LinkDropped, HandOverEnds
<1>. QED  BY <1>1, <1>2, <1>3, <1>4, PostSharePreserves

LEMMA NetworkPreserves ==
  ASSUME IInv, NetworkOnly,
         serverOnline' \in BOOLEAN, address' \in {"none", "startup", "check", "run"},
         startup' \subseteq startup, checks' \in 0 .. MaxChecks
  PROVE  IInv'
<1>1. TypeOK'
  BY DEF NetworkOnly, IInv, TypeOK, control, sharing, links
<1>2. UNCHANGED <<sharing, runGeneration, phase, result>>
  BY DEF NetworkOnly, control
<1>. QED
  BY <1>1, <1>2, PageStays, SharingKept DEF NetworkOnly, IInv

LEMMA NextPreserves == IInv /\ [Next]_vars => IInv'
<1>. SUFFICES ASSUME IInv, [Next]_vars PROVE IInv'
  OBVIOUS
<1>1. CASE resetToIdle
  BY <1>1, resetToIdlePreserves
<1>2. CASE \/ CopyAgain
           \/ \E s \in Shares : \/ PostShare(s) \/ ServerStores(s) \/ ShareStep(s)
                                 \/ LinkArrives(s) \/ LinkDropped(s)
  BY <1>2, SharePreserves
<1>3. ASSUME NEW r \in Runs,
             \/ StartTest(r) \/ RunStep(r) \/ MeasureStart(r) \/ ProbeHeaders(r)
             \/ ProbeFails(r) \/ ProbeWakes(r) \/ ProbeBody(r)
      PROVE  IInv'
  BY <1>3, StartTestPreserves, RunPreserves
<1>4. CASE CheckServer
  <2>1. checks' \in 0 .. MaxChecks
    BY <1>4, BoundAssumption DEF CheckServer, IInv, TypeOK
  <2>. QED  BY <1>4, <2>1, NetworkPreserves DEF CheckServer, IInv, TypeOK
<1>5. ASSUME NEW r \in Runs, CaptureClientIP(r)
      PROVE  IInv'
  BY <1>5, NetworkPreserves DEF CaptureClientIP, IInv, TypeOK
<1>6. ASSUME NEW ok \in BOOLEAN, CheckReply(ok)
      PROVE  IInv'
  <2>1. checks' \in 0 .. MaxChecks
    BY <1>6, BoundAssumption DEF CheckReply, IInv, TypeOK
  <2>. QED
    BY <1>6, <2>1, NetworkPreserves
      DEF CheckReply, discoverAddress, setStartAvailability, IInv, TypeOK
<1>7. ASSUME NEW ok \in BOOLEAN, NEW probe \in startup, StartupReply(probe, ok)
      PROVE  IInv'
  BY <1>7, NetworkPreserves
    DEF StartupReply, discoverAddress, setStartAvailability, IInv, TypeOK
<1>8. CASE UNCHANGED vars
  BY <1>8, NetworkPreserves DEF vars, NetworkOnly, network, IInv, TypeOK
<1>. QED
  BY <1>1, <1>2, <1>3, <1>4, <1>5, <1>6, <1>7, <1>8 DEF Next

LEMMA Invariant == Spec => []IInv
BY InitEstablishes, NextPreserves, PTL DEF Spec

-----------------------------------------------------------------------------
\* Every variable keeps its type; the generations never outgrow two per run.
THEOREM TypeCorrect == Spec => []TypeOK
BY Invariant, PTL DEF IInv

\* While testing the page belongs to the controller's run, and whatever other
\* startTest still awaits something has been aborted and has no worker.
THEOREM OneRunOwns == Spec => []OneRunOwnsThePage
<1>1. IInv => OneRunOwnsThePage
  <2>. SUFFICES ASSUME IInv PROVE OneRunOwnsThePage
    OBVIOUS
  <2>1. \A r \in Runs : run[r].pc = "worker" => isCurrentRun(r)
    BY Owner
  <2>2. \A r \in Runs : FitsPage(r, run[r])
    BY DEF IInv, RunsFitPage
  <2>. QED  BY <2>1, <2>2 DEF IInv, RunsFitPage, FitsPage, OneRunOwnsThePage, Testing
<1>. QED  BY <1>1, Invariant, PTL

\* The five fields of a value.
Fields == {"latency", "download", "upload", "downloadLatency", "uploadLatency"}

LEMMA FieldsOfValues ==
  /\ \A v \in Values : DOMAIN v = Fields
  /\ \A f \in Fields : Cleared[f] = None /\ \A r : AllOf(r)[f] = r
BY DEF Values, Fields, Cleared, AllOf

\* Before the results view the page holds the current run's values only.
LEMMA ValuesWhileTesting ==
  ASSUME IInv, phase # "results", NEW f \in Fields
  PROVE  result[f] \in {None, abortController}
<1>1. CASE phase \in {"idle", "latency"}
  BY <1>1, FieldsOfValues DEF IInv, PageOfPhase
<1>2. CASE phase = "download"
  <2>1. result = [Cleared EXCEPT !.latency = abortController]
    BY <1>2 DEF IInv, PageOfPhase
  <2>2. result[f] = IF f = "latency" THEN abortController ELSE Cleared[f]
    BY <2>1 DEF Cleared, Fields
  <2>. QED  BY <2>2, FieldsOfValues
<1>3. CASE phase = "upload"
  <2>1. result = [AllOf(abortController) EXCEPT !.upload = None, !.uploadLatency = None]
    BY <1>3 DEF IInv, PageOfPhase
  <2>2. result[f] = IF f \in {"upload", "uploadLatency"} THEN None ELSE AllOf(abortController)[f]
    BY <2>1 DEF AllOf, Fields
  <2>. QED  BY <2>2, FieldsOfValues
<1>. QED  BY <1>1, <1>2, <1>3 DEF IInv, TypeOK

\* No two runs are ever mixed on the page: what it shows while testing is the
\* current run's, and its results view is one run's five values.
THEOREM ResultsAreOfOneRun == Spec => []ResultsOfOneRun
<1>1. IInv => ResultsOfOneRun
  <2>. SUFFICES ASSUME IInv PROVE ResultsOfOneRun
    OBVIOUS
  <2>1. DOMAIN result = Fields /\ \A r \in Runs : r # None
    BY FieldsOfValues DEF IInv, TypeOK, Runs, None
  <2>2. CASE phase = "idle"
    <3>1. \A f \in Fields : result[f] = None
      BY <2>2, FieldsOfValues DEF IInv, PageOfPhase
    <3>. QED  BY <2>1, <2>2, <3>1 DEF IInv, RunsFitPage, Testing, ResultsOfOneRun
  <2>3. CASE phase \in Testing
    <3>1. \A f \in Fields : result[f] \in {None, abortController}
      BY <2>3, ValuesWhileTesting DEF Testing
    <3>. QED  BY <2>1, <2>3, <3>1 DEF Testing, ResultsOfOneRun
  <2>4. CASE phase = "results"
    <3>1. PICK r \in Runs : result = AllOf(r)
      BY <2>4 DEF IInv, PageOfPhase
    <3>2. \A f \in Fields : result[f] = r
      BY <3>1, FieldsOfValues
    <3>. QED  BY <2>1, <2>4, <3>2 DEF IInv, RunsFitPage, Testing, ResultsOfOneRun
  <2>. QED  BY <2>2, <2>3, <2>4 DEF IInv, TypeOK, Testing
<1>. QED  BY <1>1, Invariant, PTL

\* Whenever the answers a cancelled or failed run awaited arrive, none of them
\* reaches the page, the history or a POST; and no run is recorded twice.
THEOREM AbortedRunsLeaveNoTrace == Spec => []AbortedLeavesNoTrace
<1>1. IInv => AbortedLeavesNoTrace
  <2>. SUFFICES ASSUME IInv PROVE AbortedLeavesNoTrace
    OBVIOUS
  <2>1. DOMAIN result = Fields /\ \A r \in Runs : r # None
    BY FieldsOfValues DEF IInv, TypeOK, Runs, None
  <2>2. ASSUME NEW r \in Runs, run[r].aborted, NEW f \in Fields
        PROVE  result[f] # r
    <3>1. ~ isCurrentRun(r) /\ ~ Completed(r)
      BY <2>2, Owner DEF Completed
    <3>2. CASE phase # "results"
      <4>1. result[f] \in {None, abortController}
        BY <2>2, <3>2, ValuesWhileTesting
      <4>. QED  BY <2>1, <3>1, <4>1 DEF isCurrentRun
    <3>3. CASE phase = "results"
      <4>1. PICK q \in Runs : Completed(q) /\ result = AllOf(q)
        BY <3>3 DEF IInv, PageOfPhase
      <4>. QED  BY <3>1, <4>1, FieldsOfValues
    <3>. QED  BY <3>2, <3>3
  <2>3. \A i \in DOMAIN history : ~ run[history[i]].aborted
    BY DEF IInv, HistoryOfCompleted, Completed
  <2>4. ASSUME NEW r \in Runs, run[r].aborted, NEW s \in Shares, NEW f \in Fields
        PROVE  share[s].of[f] # r
    <3>1. share[s].of = Cleared \/ \E q \in Runs : Completed(q) /\ share[s].of = AllOf(q)
      BY DEF IInv, PostsOfCompleted
    <3>. QED  BY <2>1, <2>4, <3>1, FieldsOfValues DEF Completed
  <2>5. \A i, j \in DOMAIN history : history[i] = history[j] => i = j
    BY DEF IInv, HistoryOfCompleted
  <2>. QED  BY <2>1, <2>2, <2>3, <2>4, <2>5 DEF AbortedLeavesNoTrace
<1>. QED  BY <1>1, Invariant, PTL

\* The share button is disabled exactly while a POST made from the view it is
\* on is pending.
THEOREM ButtonFollowsPost == Spec => []ShareButtonFollowsPost
<1>1. IInv => ShareButtonFollowsPost
  <2>. SUFFICES ASSUME IInv, phase = "results"
                PROVE  /\ shareDisabled <=>
                            \E s \in Shares : share[s].pc = "posting"
                                              /\ share[s].generation = runGeneration
                       /\ shareDisabled <=> shareSavePromise # None
    BY DEF ShareButtonFollowsPost
  <2>1. shareDisabled <=> shareSavePromise # None
    BY DEF IInv, ViewKnowsItsPosts
  <2>2. ASSUME shareSavePromise # None
        PROVE  \E s \in Shares : share[s].pc = "posting" /\ share[s].generation = runGeneration
    BY <2>2 DEF IInv, TypeOK, ViewKnowsItsPosts, FromThisView
  <2>3. ASSUME NEW s \in Shares, share[s].pc = "posting", share[s].generation = runGeneration
        PROVE  shareSavePromise # None
    BY <2>3 DEF IInv, ViewKnowsItsPosts, FromThisView, Shares, None
  <2>. QED  BY <2>1, <2>2, <2>3
<1>. QED  BY <1>1, Invariant, PTL

\* The server gets the results of a run once, and once more at most for every
\* POST of them that failed, although a failed POST may have been stored.
THEOREM StoredOnce == Spec => []StoredOncePerFailure
<1>1. IInv => StoredOncePerFailure
  <2>. SUFFICES ASSUME IInv, NEW r \in Runs
                PROVE  LET posts == {s \in Shares : share[s].of.download = r}
                       IN  Cardinality(posts \cap stored)
                             <= 1 + Cardinality({s \in posts : share[s].pc = "failed"})
    BY DEF StoredOncePerFailure
  <2> DEFINE posts == {s \in Shares : share[s].of.download = r}
             failed == {s \in posts : share[s].pc = "failed"}
  <2>1. IsFiniteSet(failed) /\ Cardinality(failed) \in Nat
    <3>1. IsFiniteSet(Shares)
      BY FS_Interval, BoundAssumption DEF Shares
    <3>2. failed \in SUBSET Shares
      OBVIOUS
    <3> HIDE DEF failed
    <3>. QED  BY <3>1, <3>2, FS_Subset, FS_CardinalityType
  <2>2. \A s \in posts \cap stored : share[s].of = AllOf(r) /\
          share[s].pc \in {"posting", "over", "failed"}
    <3>1. \A s \in posts : share[s].pc # "none"
      <4>1. Cleared.download = None /\ r # None
        BY DEF Cleared, Runs, None
      <4>. QED  BY <4>1 DEF IInv, PostsOfCompleted
    <3>2. \A s \in posts : \E q \in Runs : share[s].of = AllOf(q)
      BY <3>1 DEF IInv, PostsOfCompleted
    <3>3. \A q \in Runs : AllOf(q).download = q
      BY DEF AllOf
    <3>4. \A s \in posts : share[s].of = AllOf(r)
      BY <3>2, <3>3
    <3>. QED  BY <3>1, <3>4 DEF IInv, TypeOK, Post
  <2>3. PICK u : posts \cap stored \subseteq failed \cup {u}
    \* The one POST of the run that has not failed, if there is one.
    BY <2>2 DEF IInv, OneUnfailedPost
  <2>4. /\ IsFiniteSet(failed \cup {u})
        /\ Cardinality(failed \cup {u}) \in Nat
        /\ Cardinality(failed \cup {u}) <= Cardinality(failed) + 1
    <3> HIDE DEF failed
    <3>1. /\ IsFiniteSet(failed \cup {u})
          /\ Cardinality(failed \cup {u}) =
               IF u \in failed THEN Cardinality(failed) ELSE Cardinality(failed) + 1
      BY <2>1, FS_AddElement
    <3>. QED  BY <2>1, <3>1
  <2>5. /\ Cardinality(posts \cap stored) <= Cardinality(failed \cup {u})
        /\ Cardinality(posts \cap stored) \in Nat
    <3> HIDE DEF failed, posts
    <3>. QED  BY <2>3, <2>4, FS_Subset, FS_CardinalityType
  <2> HIDE DEF failed, posts
  <2>6. Cardinality(posts \cap stored) <= 1 + Cardinality(failed)
    BY <2>1, <2>4, <2>5
  <2>. QED  BY <2>6 DEF posts, failed
<1>. QED  BY <1>1, Invariant, PTL

\* A link is asked for only with the results it leads to on the page and in the
\* store; what arrives later, perhaps over another view, was asked for so.
THEOREM LinksAreOfShownResults == Spec => LinkIsOfShownResults
<1> DEFINE Asked == \A s \in Shares : handing'[s] > handing[s] => LeadsToShown(s)'
           Came  == clipboard' # clipboard =>
                      \/ LeadsToShown(clipboard)'
                      \/ handing'[clipboard'] < handing[clipboard']
<1>1. ASSUME IInv, NEW s \in Shares, copyShareUrl(s), LeadsToShown(s)'
      PROVE  Asked /\ Came
  <2>1. CASE clipboard' = s /\ UNCHANGED handing
    BY <1>1, <2>1 DEF IInv, TypeOK, LeadsToShown
  <2>2. CASE handing' = [handing EXCEPT ![s] = @ + 1] /\ UNCHANGED clipboard
    BY <1>1, <2>2 DEF IInv, TypeOK
  <2>. QED  BY <1>1, <2>1, <2>2 DEF copyShareUrl
<1>2. ASSUME IInv, UNCHANGED links
      PROVE  Asked /\ Came
  BY <1>2 DEF links, IInv, TypeOK
<1>3. ASSUME IInv, CopyAgain
      PROVE  Asked /\ Came
  <2>1. /\ resultId \in Shares /\ FromThisView(resultId) /\ resultId \in stored
        /\ share[resultId].of = result
    BY <1>3 DEF CopyAgain, Shown, IInv, TypeOK, ViewKnowsItsPosts, PostsOfCompleted,
       FromThisView
  <2>2. LeadsToShown(resultId)
    BY <1>3, <2>1 DEF CopyAgain, Shown, LeadsToShown
  <2>3. \A s \in Shares : LeadsToShown(s)' <=> LeadsToShown(s)
    BY <1>3 DEF CopyAgain, LeadsToShown, control
  <2>. QED  BY <1>1, <1>3, <2>1, <2>2, <2>3 DEF CopyAgain
<1>4. ASSUME IInv, NEW s \in Shares, ShareSaved(s)
      PROVE  Asked /\ Came
  <2>1. CASE ~ StillShown(s)
    BY <1>2, <1>4, <2>1 DEF ShareSaved, Settle
  <2>2. CASE StillShown(s)
    <3>1. /\ Settle(s, TRUE) /\ s \in stored /\ copyShareUrl(s) /\ phase = "results"
          /\ UNCHANGED <<phase, result, stored>>
      BY <1>4, <2>2 DEF ShareSaved, Settle, StillShown, control
    <3>2. share[s].of = result
      BY <1>4, <2>2, <3>1 DEF Settle, StillShown, IInv, PostsOfCompleted
    <3>3. share'[s].of = share[s].of
      BY <1>4, <3>1 DEF Settle, IInv, TypeOK, Post
    <3>4. LeadsToShown(s)'
      BY <3>1, <3>2, <3>3 DEF LeadsToShown
    <3>. QED  BY <1>1, <1>4, <3>1, <3>4
  <2>. QED  BY <2>1, <2>2
<1>5. ASSUME IInv, NEW s \in Shares, LinkArrives(s) \/ LinkDropped(s)
      PROVE  Asked /\ Came
  BY <1>5 DEF LinkArrives, LinkDropped, HandOverEnds, IInv, TypeOK
<1>6. ASSUME IInv, [Next]_vars
      PROVE  Asked /\ Came
  <2>1. \/ UNCHANGED links \/ CopyAgain
        \/ \E s \in Shares : ShareSaved(s) \/ LinkArrives(s) \/ LinkDropped(s)
    BY <1>6 DEF Next, vars, sharing, StartTest, resetToIdle, BackToIdle, RunStep, LatencyEnds,
       Frame, WorkerResult, WorkerError, WorkerSettles, AfterProbe, FinishDirection, Throw,
       MeasureStart, ProbeHeaders, ProbeFails, ProbeWakes, ProbeBody, ProbeStep,
       PostShare, ServerStores, ShareStep, ShareFails, Settle, NetworkOnly, CheckServer,
       CheckReply, StartupReply, CaptureClientIP
  <2>. QED  BY <1>2, <1>3, <1>4, <1>5, <1>6, <2>1
<1>7. IInv /\ [Next]_vars => [Asked /\ Came]_vars
  BY <1>6
<1>. QED  BY <1>7, Invariant, PTL DEF Spec, LinkIsOfShownResults

\* Under the results view the addresses stay those the run was measured with:
\* replies to probes that are still out do not change them.
THEOREM AddressesStay == Spec => AddressesFrozen
<1> DEFINE Frozen == phase = "results" /\ phase' = "results" => address' = address
<1>1. ASSUME IInv, [Next]_vars
      PROVE  Frozen
  <2>. SUFFICES ASSUME phase = "results" PROVE address' = address
    OBVIOUS
  <2>1. \A r \in Runs : ~ CaptureClientIP(r)
    BY <1>1, Owner DEF CaptureClientIP, Testing
  <2>2. ASSUME NEW ok \in BOOLEAN, CheckReply(ok) \/ \E probe \in startup : StartupReply(probe, ok)
        PROVE  address' = address
    BY <2>2 DEF CheckReply, StartupReply, discoverAddress, isIdle, canUpdateStartupAddress
  <2>. QED
    BY <1>1, <2>1, <2>2 DEF Next, vars, network, StartTest, resetToIdle, BackToIdle, RunStep,
       LatencyEnds, Frame, WorkerResult, WorkerError, WorkerSettles, AfterProbe, FinishDirection,
       Throw, MeasureStart, ProbeHeaders, ProbeFails, ProbeWakes, ProbeBody, ProbeStep,
       CopyAgain, PostShare, ServerStores, ShareStep, ShareSaved, ShareFails, Settle,
       LinkArrives, LinkDropped, HandOverEnds, CheckServer
<1>2. IInv /\ [Next]_vars => [Frozen]_vars
  BY <1>1
<1>. QED  BY <1>2, Invariant, PTL DEF Spec, AddressesFrozen
================================================================================
