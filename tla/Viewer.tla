------------------------------- MODULE Viewer -------------------------------
(***************************************************************************)
(* The Unity forensic viewer: the playback controller, the workspace with   *)
(* its filters, the session that owns the active workspace, and the editor  *)
(* controller that listens to both and tells the window to repaint.  One    *)
(* thread runs all of it; what can go wrong is in the events the objects    *)
(* raise while they are half-way through a call.                            *)
(*                                                                          *)
(* A bundle is the sequence of its evidence; the first entry has index 0,   *)
(* as in the code.  Time is counted in whole units.                         *)
(***************************************************************************)
EXTENDS Integers, Sequences, SequencesExt, FiniteSetsExt

CONSTANTS
    Bundles,          \* valid bundles: sequences of [tick, session, accepted]
    SecondsPerEntry,  \* secondsPerEntry
    Speeds,           \* playback speeds of the window
    Elapsed,          \* time between two editor updates
    MaxLoads          \* bound: workspaces built

ASSUME ViewerAssumption ==
    /\ \A b \in Bundles :
          /\ b \in Seq({b[i] : i \in DOMAIN b})
          /\ \A i \in DOMAIN b : b[i].tick \in Nat /\ b[i].accepted \in BOOLEAN
    /\ SecondsPerEntry \in Nat \ {0} /\ MaxLoads \in Nat
    /\ Speeds \subseteq Nat \ {0} /\ Elapsed \subseteq Nat

NoSession == "any"
OutcomeFilters == {"all", "accepted", "rejected"}

VARIABLES
    W,           \* session.workspace: its state
    active,      \* which workspace that is, 0 when there is none
    built,       \* workspaces built so far
    subscribed,  \* workspaces that listen to their playback
    lastLoad,    \* session.LastLoad: "none", "succeeded" or "failed"
    observed,    \* controller.observedWorkspace, 0 when there is none
    bound,       \* workspaces whose events call the controller
    disposed,    \* the controller is disposed
    changed      \* the last operation raised Changed

vars == <<W, active, built, subscribed, lastLoad, observed, bound, disposed, changed>>

-----------------------------------------------------------------------------
(* ReplayPlaybackController.  `from' and `time' are history: where the      *)
(* entry was when it was last paused, and the playing time since.           *)

Count(b) == Len(b)

NewPlayback(b) ==
    [index |-> IF Count(b) = 0 THEN -1 ELSE 0, playing |-> FALSE,
     accumulated |-> 0, speed |-> 1,
     from |-> IF Count(b) = 0 THEN -1 ELSE 0, time |-> 0]

(* Mutant: the time of an interrupted entry is kept.                        *)
PauseKeepsTime(p) == [p EXCEPT !.playing = FALSE]

Pause(p) == [p EXCEPT !.playing = FALSE, !.accumulated = 0]

Settled(p) == [p EXCEPT !.from = p.index, !.time = 0]

Play(p, b) ==
    IF Count(b) = 0 \/ p.index >= Count(b) - 1 THEN [p EXCEPT !.playing = FALSE]
    ELSE [p EXCEPT !.playing = TRUE]

MoveTo(p, b, i) == IF i \in 0 .. Count(b) - 1 THEN [p EXCEPT !.index = i] ELSE p

AdvanceEntry(p, b) ==
    LET taken == [p EXCEPT !.accumulated = @ - SecondsPerEntry]
        moved == MoveTo(taken, b, taken.index + 1)
    IN  IF ~(p.playing /\ p.accumulated >= SecondsPerEntry) THEN p
        ELSE IF moved.index >= Count(b) - 1 THEN Pause(moved) ELSE moved

Advance(p, b, elapsed) ==
    LET started == [p EXCEPT !.accumulated = @ + elapsed * p.speed,
                             !.time = @ + elapsed * p.speed]
        after[n \in Nat] == IF n = 0 THEN started ELSE AdvanceEntry(after[n - 1], b)
    IN  IF ~p.playing THEN p ELSE after[started.accumulated \div SecondsPerEntry]

Seek(p, b, i) == MoveTo(Pause(p), b, i)

Reset(p, b) == [Pause(p) EXCEPT !.index = NewPlayback(b).index]

-----------------------------------------------------------------------------
(* ReplayTimeline.FindNearestIndexToTick.                                   *)

Distance(a, b) == IF a >= b THEN a - b ELSE b - a

nearer(b, i, nearest, tick) ==
    Distance(b[i].tick, tick) < Distance(b[nearest].tick, tick)

FindNearestIndexToTick(b, tick) ==
    IF Count(b) = 0 THEN -1
    ELSE FoldLeft(LAMBDA nearest, i : IF nearer(b, i, nearest, tick) THEN i ELSE nearest,
                  1, [i \in DOMAIN b |-> i]) - 1

-----------------------------------------------------------------------------
(* InvestigationWorkspace.                                                  *)

Matches(entry, outcome, session) ==
    /\ outcome = "all" \/ entry.accepted = (outcome = "accepted")
    /\ session \in {NoSession, entry.session}

Matching(b, outcome, session) ==
    SelectSeq([i \in DOMAIN b |-> i - 1],
              LAMBDA i : Matches(b[i + 1], outcome, session))

VisibleEvidence(w) == Matching(w.bundle, w.outcomeFilter, w.sessionFilter)

RebuildVisibleEvidence(w) == [w EXCEPT !.visible = VisibleEvidence(w)]

NewWorkspace(b) ==
    RebuildVisibleEvidence(
        [bundle |-> b, playback |-> NewPlayback(b), outcomeFilter |-> "all",
         sessionFilter |-> NoSession, visible |-> <<>>])

-----------------------------------------------------------------------------
Init ==
    /\ W = NewWorkspace(<<>>)
    /\ active = 0
    /\ built = 0
    /\ subscribed = {}
    /\ lastLoad = "none"
    /\ observed = 0
    /\ bound = {}
    /\ disposed = FALSE
    /\ changed = FALSE

Loaded == ~disposed /\ active # 0

sessionVars == <<active, built, subscribed, lastLoad, observed, bound, disposed>>

(* An operation of the controller on the active workspace; what it returns  *)
(* and what it raises besides the events of the workspace.                  *)

(* Mutant: the controller's own handler is all that raises Changed.         *)
position_changed_unheard(p) == FALSE

position_changed(p) ==
    active \in subscribed \cap bound /\ p.index # W.playback.index

Playback(p, raises) ==
    /\ W' = [W EXCEPT !.playback = p]
    /\ changed' = (raises \/ position_changed(p))
    /\ UNCHANGED sessionVars

Filter(w) ==
    /\ W' = RebuildVisibleEvidence(w)
    /\ changed' = (w # W /\ active \in bound)
    /\ UNCHANGED sessionVars

SetOutcomeFilter(f) == Loaded /\ Filter([W EXCEPT !.outcomeFilter = f])

(* Entry 0 of the popup clears the filter.                                  *)
SetSessionFilterIndex(s) ==
    /\ Loaded
    /\ s \in {NoSession} \cup {W.bundle[i].session : i \in DOMAIN W.bundle}
    /\ Filter([W EXCEPT !.sessionFilter = s])

SelectVisibleEvidence(i) ==
    /\ Loaded /\ i \in DOMAIN W.visible
    /\ Playback(Settled(Seek(W.playback, W.bundle, W.visible[i])), FALSE)

SelectTimelineIndex(i) ==
    Loaded /\ Playback(Settled(Seek(W.playback, W.bundle, i)), FALSE)

SeekToTick(tick) ==
    LET i == FindNearestIndexToTick(W.bundle, tick)
    IN  /\ Loaded /\ i >= 0
        /\ Playback(Settled(Seek(W.playback, W.bundle, i)), FALSE)

StartPlayback ==
    Loaded /\ ~W.playback.playing /\ Playback(Settled(Play(W.playback, W.bundle)), TRUE)

PlayAgain == Loaded /\ W.playback.playing /\ Playback(Play(W.playback, W.bundle), TRUE)

PausePlayback == Loaded /\ Playback(Settled(Pause(W.playback)), TRUE)

StepForward ==
    Loaded /\ Playback(Settled(Seek(W.playback, W.bundle, W.playback.index + 1)), FALSE)

StepBackward ==
    Loaded /\ Playback(Settled(Seek(W.playback, W.bundle, W.playback.index - 1)), FALSE)

ResetPlayback == Loaded /\ Playback(Settled(Reset(W.playback, W.bundle)), TRUE)

SetPlaybackSpeed(speed) == Loaded /\ Playback([W.playback EXCEPT !.speed = speed], TRUE)

(* HandleEditorUpdate of the window.                                        *)
EditorUpdate(elapsed) ==
    /\ Loaded /\ W.playback.playing
    /\ Playback(Advance(W.playback, W.bundle, elapsed), FALSE)

-----------------------------------------------------------------------------
(* InvestigationViewerSession, and the controller's handlers of its events. *)

(* Mutant: the handlers of the workspace before stay registered.            *)
RebindWithoutRelease(w) ==
    /\ observed' = w
    /\ bound' = IF w = 0 THEN bound ELSE bound \cup {w}

RebindWorkspace(w) ==
    /\ observed' = w
    /\ bound' = IF w = observed THEN bound
                ELSE (bound \ {observed}) \cup ({w} \ {0})

LoadSucceeds(b) ==
    /\ ~disposed /\ built < MaxLoads
    /\ W' = NewWorkspace(b)
    /\ active' = built + 1
    /\ built' = built + 1
    /\ subscribed' = (subscribed \ {active}) \cup {active'}
    /\ lastLoad' = "succeeded"
    /\ RebindWorkspace(active')
    /\ changed' = TRUE
    /\ UNCHANGED disposed

LoadFails ==
    /\ ~disposed
    /\ lastLoad' = "failed"
    /\ changed' = TRUE
    /\ UNCHANGED <<W, active, built, subscribed, observed, bound, disposed>>

ResetActiveWorkspace ==
    /\ W' = NewWorkspace(<<>>)
    /\ active' = 0
    /\ subscribed' = subscribed \ {active}
    /\ UNCHANGED built

Clear ==
    /\ Loaded
    /\ ResetActiveWorkspace
    /\ RebindWorkspace(0)
    /\ changed' = TRUE
    /\ UNCHANGED <<lastLoad, disposed>>

Dispose ==
    /\ ~disposed
    /\ RebindWorkspace(0)
    /\ ResetActiveWorkspace
    /\ disposed' = TRUE
    /\ changed' = FALSE
    /\ UNCHANGED lastLoad

Next ==
    \/ \E b \in Bundles : LoadSucceeds(b)
    \/ LoadFails \/ Clear \/ Dispose
    \/ \E f \in OutcomeFilters : SetOutcomeFilter(f)
    \/ Loaded /\ \E s \in {NoSession} \cup {W.bundle[i].session : i \in DOMAIN W.bundle} :
          SetSessionFilterIndex(s)
    \/ Loaded /\ \E i \in DOMAIN W.bundle :
          \/ SelectVisibleEvidence(i) \/ SelectTimelineIndex(i - 1)
          \/ \E d \in {-1, 0, 1} : W.bundle[i].tick + d >= 0 /\ SeekToTick(W.bundle[i].tick + d)
    \/ StartPlayback \/ PlayAgain \/ PausePlayback
    \/ StepForward \/ StepBackward \/ ResetPlayback
    \/ \E speed \in Speeds : SetPlaybackSpeed(speed)
    \/ \E e \in Elapsed : EditorUpdate(e)

Spec == Init /\ [][Next]_vars

-----------------------------------------------------------------------------
(* However the editor's updates cut the time, and whatever the speed was in *)
(* between, playback is at the entry that the playing time since the last   *)
(* pause, step or seek leads to; it stops at the last entry, and the next   *)
(* start begins with a whole entry (ReplayPlaybackController.cs:50-121).    *)
PlaybackExact ==
    LET p == W.playback
        last == Len(W.bundle) - 1
    IN  /\ p.index = Min({p.from + p.time \div SecondsPerEntry, last})
        /\ p.accumulated = IF p.playing THEN p.time % SecondsPerEntry ELSE 0
        /\ p.playing => p.index < last

(* The controller listens to the active workspace and to no other, and a    *)
(* workspace that was replaced, cleared or disposed with its session        *)
(* listens to nothing, through any series of loads that fail or succeed.    *)
BoundToActive ==
    /\ observed = active
    /\ bound = {active} \ {0}
    /\ subscribed = bound

(* What the window draws (InvestigationForensicViewerWindow.cs:143-645).    *)
Shown ==
    [workspace |-> active, lastLoad |-> lastLoad, position |-> W.playback.index,
     playing |-> W.playback.playing, speed |-> W.playback.speed,
     outcomeFilter |-> W.outcomeFilter, sessionFilter |-> W.sessionFilter,
     visible |-> W.visible]

(* A step or a seek pauses first, and raises an event only if it then leads *)
(* to another entry: Back at entry 0 ends playback and no event says so     *)
(* (ReplayPlaybackController.cs:123-145).                                   *)
StopsInPlace == Shown.playing /\ Shown' = [Shown EXCEPT !.playing = FALSE]

(* Whatever changes what the window shows raises Changed, through the       *)
(* playback's, the workspace's and the session's events, unless it only     *)
(* stops playback at the entry where it is.                                 *)
WindowIsTold == [][Shown' # Shown /\ ~disposed' => changed' \/ StopsInPlace]_vars
=============================================================================
