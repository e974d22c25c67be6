------------------------------ MODULE BrowserRun ------------------------------
(***************************************************************************)
(* One page of the browser client: the life of a test run (openbyte.js,    *)
(* speedtest.js), sharing its result, and the readiness and address probes *)
(* (network.js).  JavaScript runs to completion, so a step is what happens *)
(* between two awaits; whatever a run awaited may be answered after it was *)
(* cancelled and another run was started.                                  *)
(***************************************************************************)
EXTENDS Integers, Sequences, FiniteSets

CONSTANTS MaxRuns,     \* bound: how often GO is pressed
          MaxShares,   \* bound: how many results are posted
          MaxCopies,   \* bound: hand-overs of one link that are pending at once
          MaxChecks    \* bound: readiness checks in flight at once

ASSUME BoundAssumption ==
  {MaxRuns, MaxShares, MaxCopies, MaxChecks} \subseteq Nat \ {0}

Runs == 1 .. MaxRuns
Shares == 1 .. MaxShares
None == 0
Probes == {"same", "v4", "v6"}

VARIABLES
  \* state.js; the controller of a run stands for its signal, and a measured
  \* value is the run that measured it
  phase, isRunning, abortController, runGeneration,
  result, resultId, shareSavePromise, serverOnline, address,
  shareDisabled,   \* shareBtn.disabled
  history,         \* what this page recorded
  clipboard,       \* the last link handed over: copied, shared or prompted
  handing,         \* per link, the writeText and share calls that are pending
  run,             \* the startTest calls
  share,           \* the POSTs of saveAndEnableShare
  stored,          \* external: the results the server has
  startup,         \* replies detectNetworkInfo still awaits
  checks           \* replies checkServer still awaits

control == <<phase, isRunning, abortController, runGeneration>>
links == <<clipboard, handing>>
sharing == <<resultId, shareSavePromise, shareDisabled, links, share, stored>>
network == <<serverOnline, address, startup, checks>>
vars == <<control, result, history, run, sharing, network>>

Cleared == [latency |-> None, download |-> None, upload |-> None,
            downloadLatency |-> None, uploadLatency |-> None]

NewRun == [pc |-> "none", dir |-> "download", aborted |-> FALSE,
           probe |-> "off", outcome |-> "none"]
Over(rec) == [NewRun EXCEPT !.pc = "over", !.aborted = rec.aborted]

Init ==
  /\ phase = "idle" /\ isRunning = FALSE
  /\ abortController = None /\ runGeneration = 0
  /\ result = Cleared /\ history = <<>>
  /\ run = [r \in Runs |-> NewRun]
  /\ resultId = None /\ shareSavePromise = None /\ shareDisabled = FALSE
  /\ clipboard = None /\ handing = [s \in Shares |-> 0] /\ stored = {}
  /\ share = [s \in Shares |-> [pc |-> "none", generation |-> 0, of |-> Cleared]]
  /\ serverOnline = FALSE /\ address = "none"
  /\ startup = Probes /\ checks = 0

isCurrentRun(r) == abortController = r
Put(r, rec) == run' = [run EXCEPT ![r] = rec]

-----------------------------------------------------------------------------
(* startTest and resetToIdle. *)

\* GO; the next run is the first that has not been used.
StartTest(r) ==
  /\ phase = "idle" /\ ~ isRunning /\ serverOnline
  /\ run[r].pc = "none" /\ \A q \in 1 .. r - 1 : run[q].pc # "none"
  /\ isRunning' = TRUE
  /\ abortController' = r
  /\ runGeneration' = runGeneration + 1
  /\ result' = Cleared
  /\ phase' = "latency"
  /\ Put(r, [NewRun EXCEPT !.pc = "latency"])
  /\ UNCHANGED <<history, sharing, network>>

\* abort() settles a worker at once and stops the latency probe, whose loop
\* ends at once unless it awaits a body: fetchWithTimeout lets go of the
\* signal when the headers are there.
Aborted(rec) ==
  LET dead == [rec EXCEPT !.aborted = TRUE]
  IN  IF rec.pc # "worker" THEN dead
      ELSE IF rec.probe = "body"
      THEN [dead EXCEPT !.pc = "probeStop", !.outcome = "abort"]
      ELSE Over(dead)

\* All of resetToIdle except what abort() does to the run.
BackToIdle ==
  /\ isRunning' = FALSE
  /\ abortController' = None
  /\ runGeneration' = runGeneration + 1
  /\ phase' = "idle"
  /\ resultId' = None
  /\ shareSavePromise' = None
  /\ shareDisabled' = FALSE
  /\ result' = Cleared
  /\ UNCHANGED <<history, links, share, stored, network>>

ResetWithoutAbort ==
  /\ phase # "idle"
  /\ BackToIdle
  /\ UNCHANGED run

\* Cancel while testing, or Restart below the results.
resetToIdle ==
  /\ phase # "idle"
  /\ BackToIdle
  /\ run' = IF abortController = None THEN run
            ELSE [run EXCEPT ![abortController] = Aborted(@)]

\* An error is thrown into startTest: only the current run resets the page.
Throw(r) ==
  IF isCurrentRun(r)
  THEN BackToIdle /\ Put(r, Over([run[r] EXCEPT !.aborted = TRUE]))
  ELSE /\ Put(r, Over(run[r]))
       /\ UNCHANGED <<control, result, history, sharing, network>>

LatencyEndsUnguarded(r) ==
  /\ run[r].pc = "latency"
  /\ result' = [result EXCEPT !.latency = r]
  /\ phase' = "download"
  /\ Put(r, [run[r] EXCEPT !.pc = "frame"])
  /\ UNCHANGED <<isRunning, abortController, runGeneration, history, sharing, network>>

\* measureLatency resolves, with nulls if every ping failed.  An aborted one
\* resolves too, some time later, and its startTest then returns.
LatencyEnds(r) ==
  /\ run[r].pc = "latency"
  /\ IF isCurrentRun(r)
     THEN /\ result' = [result EXCEPT !.latency = r]
          /\ phase' = "download"
          /\ Put(r, [run[r] EXCEPT !.pc = "frame"])
     ELSE /\ Put(r, Over(run[r]))
          /\ UNCHANGED <<result, phase>>
  /\ UNCHANGED <<isRunning, abortController, runGeneration, history, sharing, network>>

\* nextFrame, then runTest starts the worker unless the signal is aborted.
Frame(r) ==
  /\ run[r].pc = "frame"
  /\ IF run[r].aborted
     THEN Throw(r)
     ELSE /\ Put(r, [run[r] EXCEPT !.pc = "worker"])
          /\ UNCHANGED <<control, result, history, sharing, network>>

RecordsTooEarly == history' = Append(history, result.upload)

\* The entry holds what state holds, so the values are assigned before.
recordRunInHistory == history' = Append(history, result'.upload)

\* A direction is measured: its two values are written and the next phase,
\* or the results view (enterResults) and the finally clause, follow.
FinishDirection(r) ==
  IF run[r].dir = "download"
  THEN /\ result' = [result EXCEPT !.download = r, !.downloadLatency = r]
       /\ phase' = "upload"
       /\ Put(r, [NewRun EXCEPT !.pc = "frame", !.dir = "upload"])
       /\ UNCHANGED <<isRunning, abortController, runGeneration, history, sharing, network>>
  ELSE /\ result' = [result EXCEPT !.upload = r, !.uploadLatency = r]
       /\ phase' = "results"
       /\ recordRunInHistory
       /\ resultId' = None /\ shareSavePromise' = None /\ shareDisabled' = FALSE
       /\ isRunning' = FALSE /\ abortController' = None
       /\ Put(r, Over(run[r]))
       /\ UNCHANGED <<runGeneration, links, share, stored, network>>

LatencyWrittenUnchecked(r, outcome) ==
  IF outcome = "ok" /\ ~ isCurrentRun(r)
  THEN /\ result' = [result EXCEPT !.downloadLatency = r]
       /\ Put(r, Over(run[r]))
       /\ UNCHANGED <<control, history, sharing, network>>
  ELSE IF outcome = "ok" THEN FinishDirection(r) ELSE Throw(r)

\* What runTest does once the worker has settled and the probe has stopped.
AfterProbe(r, outcome) ==
  IF outcome = "ok" /\ ~ run[r].aborted /\ isCurrentRun(r)
  THEN FinishDirection(r)
  ELSE Throw(r)

WorkerErrorKeepsRunning(r) ==
  /\ run[r].pc = "worker" /\ run[r].probe # "body"
  /\ Put(r, Over(run[r]))
  /\ UNCHANGED <<control, result, history, sharing, network>>

\* The worker posts its result or an error, or fails; then the probe, if one
\* was started, is stopped and awaited.
WorkerSettles(r, outcome) ==
  /\ run[r].pc = "worker"
  /\ IF run[r].probe = "body"
     THEN /\ Put(r, [run[r] EXCEPT !.pc = "probeStop", !.outcome = outcome])
          /\ UNCHANGED <<control, result, history, sharing, network>>
     ELSE AfterProbe(r, outcome)
WorkerResult(r) == WorkerSettles(r, "ok")
WorkerError(r) == WorkerSettles(r, "error")

-----------------------------------------------------------------------------
(* startLoadedLatencyProbe: fetch, body, sleep, and again. *)

ProbeStep(r, from, to) ==
  /\ run[r].pc = "worker" /\ run[r].probe = from
  /\ Put(r, [run[r] EXCEPT !.probe = to])
  /\ UNCHANGED <<control, result, history, sharing, network>>

MeasureStart(r) == ProbeStep(r, "off", "headers")
ProbeHeaders(r) == ProbeStep(r, "headers", "body")
ProbeFails(r)   == ProbeStep(r, "headers", "sleep")
ProbeWakes(r)   == ProbeStep(r, "sleep", "headers")

\* The body is read, or fails; a loop that was told to stop ends here.
ProbeBody(r) ==
  \/ ProbeStep(r, "body", "sleep")
  \/ run[r].pc = "probeStop" /\ AfterProbe(r, run[r].outcome)
-----------------------------------------------------------------------------
(* handleShare and saveAndEnableShare. *)

Shown == phase = "results" /\ ~ shareDisabled

\* The link is prompted at once, or a writeText or a share call gets it, whose
\* end is a later step.
copyShareUrl(s) ==
  \/ clipboard' = s /\ UNCHANGED handing
  \/ handing' = [handing EXCEPT ![s] = @ + 1] /\ UNCHANGED clipboard

CopyAgain ==
  /\ Shown /\ resultId # None
  /\ handing[resultId] < MaxCopies
  /\ copyShareUrl(resultId)
  /\ UNCHANGED <<control, result, history, run, network,
                 resultId, shareSavePromise, shareDisabled, share, stored>>

HandOverEnds(s) ==
  /\ handing[s] > 0
  /\ handing' = [handing EXCEPT ![s] = @ - 1]
  /\ UNCHANGED <<control, result, history, run, network,
                 resultId, shareSavePromise, shareDisabled, share, stored>>

\* The link is written or shared, or the call was refused and the catch prompts
\* it: nobody asks what the page shows by now.
LinkArrives(s) == HandOverEnds(s) /\ clipboard' = s

\* The share sheet was dismissed (AbortError).
LinkDropped(s) == HandOverEnds(s) /\ UNCHANGED clipboard

PostShareAgain(s) ==
  /\ Shown /\ shareSavePromise = None
  /\ share[s].pc = "none" /\ \A p \in 1 .. s - 1 : share[p].pc # "none"
  /\ shareDisabled' = TRUE
  /\ shareSavePromise' = s
  /\ share' = [share EXCEPT ![s] =
                 [pc |-> "posting", generation |-> runGeneration, of |-> result]]
  /\ UNCHANGED <<control, result, history, run, network, resultId, links, stored>>

\* The first tap posts what is shown.  The fetch has no timeout.
PostShare(s) ==
  /\ Shown /\ resultId = None /\ shareSavePromise = None
  /\ share[s].pc = "none" /\ \A p \in 1 .. s - 1 : share[p].pc # "none"
  /\ shareDisabled' = TRUE
  /\ shareSavePromise' = s
  /\ share' = [share EXCEPT ![s] =
                 [pc |-> "posting", generation |-> runGeneration, of |-> result]]
  /\ UNCHANGED <<control, result, history, run, network, resultId, links, stored>>

\* External: the server stores the row, perhaps after the page gave up on it.
ServerStores(s) ==
  /\ share[s].pc \in {"posting", "failed"} /\ s \notin stored
  /\ stored' = stored \cup {s}
  /\ UNCHANGED <<control, result, history, run, network,
                 resultId, shareSavePromise, shareDisabled, links, share>>

AnyResultsView(s) == phase = "results"

\* Is the view the one the POST was made from?
StillShown(s) == phase = "results" /\ runGeneration = share[s].generation

\* saveAndEnableShare's continuation, its finally, then handleShare's.
Settle(s, ok) ==
  /\ share[s].pc = "posting"
  /\ share' = [share EXCEPT ![s].pc = IF ok THEN "over" ELSE "failed"]
  /\ resultId' = IF ok /\ StillShown(s) THEN s ELSE resultId
  /\ IF ok /\ StillShown(s) THEN copyShareUrl(s) ELSE UNCHANGED links
  /\ shareSavePromise' = IF shareSavePromise = s THEN None ELSE shareSavePromise
  /\ shareDisabled' = IF StillShown(s) THEN FALSE ELSE shareDisabled
  /\ UNCHANGED <<control, result, history, run, network, stored>>

ShareSaved(s)  == s \in stored /\ Settle(s, TRUE)

ShareFailsKeepsButton(s) ==
  /\ share[s].pc = "posting"
  /\ share' = [share EXCEPT ![s].pc = "failed"]
  /\ shareSavePromise' = IF shareSavePromise = s THEN None ELSE shareSavePromise
  /\ UNCHANGED <<control, result, history, run, network, stored,
                 resultId, links, shareDisabled>>

\* A network error, a status, or an answer without an id.
ShareFails(s)  == Settle(s, FALSE)
-----------------------------------------------------------------------------
(* detectNetworkInfo, called once at load, and checkServer. *)

isIdle == ~ isRunning /\ phase = "idle"

\* Started at generation 0, the page's first run is generation 1.
canUpdateStartupAddress ==
  /\ phase # "results"
  /\ runGeneration = 0 \/ (runGeneration = 1 /\ isRunning)

\* An address in the answer is kept if it still may be.
discoverAddress(ok, shouldUpdate, by) ==
  address' = IF ok /\ shouldUpdate THEN by ELSE address

setStartAvailability(online) == serverOnline' = online

NetworkOnly == UNCHANGED <<control, result, history, run, sharing>>

StartupReply(probe, ok) ==
  /\ probe \in startup
  /\ startup' = startup \ {probe}
  /\ discoverAddress(ok, canUpdateStartupAddress, "startup")
  /\ IF probe = "same" THEN setStartAvailability(ok) ELSE UNCHANGED serverOnline
  /\ NetworkOnly /\ UNCHANGED checks

CheckServer ==
  /\ isIdle /\ checks < MaxChecks
  /\ checks' = checks + 1
  /\ NetworkOnly /\ UNCHANGED <<serverOnline, address, startup>>

CheckReplyAnyTime(ok) ==
  /\ checks > 0
  /\ checks' = checks - 1
  /\ discoverAddress(ok, TRUE, "check")
  /\ setStartAvailability(ok)
  /\ NetworkOnly /\ UNCHANGED startup

CheckReply(ok) ==
  /\ checks > 0
  /\ checks' = checks - 1
  /\ discoverAddress(ok, isIdle, "check")
  /\ setStartAvailability(ok)
  /\ NetworkOnly /\ UNCHANGED startup

\* captureClientIPIfNeeded, in measureLatency's first answer.
CaptureClientIP(r) ==
  /\ run[r].pc = "latency" /\ isCurrentRun(r)
  /\ address' = "run"
  /\ NetworkOnly /\ UNCHANGED <<serverOnline, startup, checks>>

-----------------------------------------------------------------------------
RunStep(r) ==
  LatencyEnds(r) \/ Frame(r) \/ WorkerResult(r) \/ WorkerError(r)

ShareStep(s) == ShareSaved(s) \/ ShareFails(s)

Next ==
  \/ resetToIdle \/ CopyAgain \/ CheckServer
  \/ \E r \in Runs :
       \/ StartTest(r) \/ RunStep(r) \/ CaptureClientIP(r)
       \/ MeasureStart(r) \/ ProbeHeaders(r) \/ ProbeFails(r)
       \/ ProbeWakes(r) \/ ProbeBody(r)
  \/ \E s \in Shares :
       \/ PostShare(s) \/ ServerStores(s) \/ ShareStep(s)
       \/ LinkArrives(s) \/ LinkDropped(s)
  \/ \E ok \in BOOLEAN :
       CheckReply(ok) \/ \E probe \in startup : StartupReply(probe, ok)

Spec == Init /\ [][Next]_vars

\* Pings end, frames come, a worker settles and a POST is answered or fails:
\* what the page waits for without a timeout of its own ends one day.  Nothing
\* is assumed of the user, of the clipboard or of the body of a latency probe.
SettlingSpec ==
  /\ Spec
  /\ \A r \in Runs : WF_vars(RunStep(r))
  /\ \A s \in Shares : WF_vars(ShareStep(s))

\* ... and the body of a latency probe comes to an end.
FairSpec == SettlingSpec /\ \A r \in Runs : WF_vars(ProbeBody(r))

-----------------------------------------------------------------------------
Tags == 0 .. MaxRuns
Values == [latency : Tags, download : Tags, upload : Tags,
           downloadLatency : Tags, uploadLatency : Tags]
Call == [pc : {"none", "latency", "frame", "worker", "probeStop", "over"},
         dir : {"download", "upload"}, aborted : BOOLEAN,
         probe : {"off", "headers", "body", "sleep"},
         outcome : {"none", "ok", "error", "abort"}]
Post == [pc : {"none", "posting", "over", "failed"}, generation : 0 .. 2 * MaxRuns,
         of : Values]

TypeOK ==
  /\ phase \in {"idle", "latency", "download", "upload", "results"}
  /\ isRunning \in BOOLEAN /\ serverOnline \in BOOLEAN /\ shareDisabled \in BOOLEAN
  /\ abortController \in Tags /\ runGeneration \in 0 .. 2 * MaxRuns
  /\ result \in Values /\ history \in Seq(Runs)
  /\ run \in [Runs -> Call]
  /\ {resultId, shareSavePromise, clipboard} \subseteq Shares \cup {None}
  /\ handing \in [Shares -> Nat]
  /\ share \in [Shares -> Post]
  /\ stored \subseteq Shares
  /\ address \in {"none", "startup", "check", "run"}
  /\ startup \subseteq Probes /\ checks \in 0 .. MaxChecks

\* One run at a time owns the page: while testing it is the controller's, and
\* every other startTest that still awaits something has been aborted and has
\* no worker.  A page that is not testing can be started again.
OneRunOwnsThePage ==
  /\ isRunning <=> abortController # None
  /\ isRunning <=> phase \in {"latency", "download", "upload"}
  /\ \A r \in Runs :
       /\ isCurrentRun(r) =>
            ~ run[r].aborted /\ run[r].pc \in {"latency", "frame", "worker", "probeStop"}
       /\ ~ isCurrentRun(r) /\ run[r].pc \in {"latency", "frame", "probeStop"} => run[r].aborted
       /\ run[r].pc = "worker" => isCurrentRun(r)

\* Every value on the page was measured by one and the same run; the results
\* view shows all five of its values.
ResultsOfOneRun ==
  /\ \A f \in DOMAIN result : result[f] # None =>
       \A g \in DOMAIN result : result[g] \in {None, result[f]}
  /\ isRunning => \A f \in DOMAIN result : result[f] \in {None, abortController}
  /\ phase = "results" => \A f \in DOMAIN result : result[f] # None

\* A cancelled or failed run leaves no trace, whenever what it awaited comes:
\* no value on the page, no entry in the history, nothing in the store; and a
\* run that was completed is recorded once.
AbortedLeavesNoTrace ==
  /\ \A r \in Runs : run[r].aborted =>
       /\ \A f \in DOMAIN result : result[f] # r
       /\ \A i \in DOMAIN history : history[i] # r
       /\ \A s \in Shares, f \in DOMAIN result : share[s].of[f] # r
  /\ \A i, j \in DOMAIN history : history[i] = history[j] => i = j

\* The button of the results view is disabled exactly while a POST made from
\* this very view is pending, so an answer to an older one never enables it
\* and a failed one never leaves it disabled.
ShareButtonFollowsPost ==
  phase = "results" =>
    /\ shareDisabled <=>
         \E s \in Shares : share[s].pc = "posting" /\ share[s].generation = runGeneration
    /\ shareDisabled <=> shareSavePromise # None

\* The link s leads to the results that are on the page, and the server has them.
LeadsToShown(s) == phase = "results" /\ s \in stored /\ share[s].of = result

\* A link is asked for only while the results it leads to are on the page, as
\* late as the answer to its POST may come.  It may arrive later, over an idle
\* page or another run, for the end of a hand-over is not checked again; but no
\* link arrives that was not asked for.
LinkIsOfShownResults ==
  [][ /\ \A s \in Shares : handing'[s] > handing[s] => LeadsToShown(s)'
      /\ clipboard' # clipboard =>
           \/ LeadsToShown(clipboard)'
           \/ handing'[clipboard'] < handing[clipboard'] ]_vars

\* A run is stored once, and once more at most for each POST that failed.
StoredOncePerFailure ==
  \A r \in Runs :
    LET posts == {s \in Shares : share[s].of.download = r}
    IN  Cardinality(posts \cap stored)
          <= 1 + Cardinality({s \in posts : share[s].pc = "failed"})

\* The addresses a result is shown and stored with are those of its run:
\* replies to older probes do not change them under the results view.
AddressesFrozen ==
  [][phase = "results" /\ phase' = "results" => address' = address]_vars

\* A run comes to an end whether its worker succeeds or fails and in whatever
\* order, given that its pings, its worker and the body of a latency probe end.
RunEnds == isRunning ~> ~ isRunning

\* The share button comes back.
ShareSettles == shareDisabled ~> ~ shareDisabled
=============================================================================
