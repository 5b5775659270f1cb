---------------------------- MODULE ViewerProofs ----------------------------
(***************************************************************************)
(* The viewer's subscriptions, for every set of bundles and any number of   *)
(* loads, that playback keeps the time however updates cut it, and that the *)
(* window hears of every change but the end of playback where it stands.    *)
(***************************************************************************)
EXTENDS Viewer, FiniteSetTheorems, WellFoundedInduction, TLAPS

(* The state of a workspace is a record of its five fields, and what is     *)
(* visible is what the filters leave of the bundle.                         *)
WorkspaceInv ==
    /\ W = [bundle |-> W.bundle, playback |-> W.playback,
            outcomeFilter |-> W.outcomeFilter, sessionFilter |-> W.sessionFilter,
            visible |-> W.visible]
    /\ W.visible = VisibleEvidence(W)

(* Workspaces are numbered from 1 in the order they are built, so that none *)
(* is taken for another or for "no workspace".                              *)
NumberInv == built \in Nat /\ active \in 0 .. built

Inv == WorkspaceInv /\ NumberInv /\ BoundToActive

(* A new workspace shows all of its bundle.                                 *)
LEMMA NewWorkspaceFacts ==
    ASSUME NEW b
    PROVE  LET w == NewWorkspace(b) IN
           /\ w = [bundle |-> w.bundle, playback |-> w.playback,
                   outcomeFilter |-> w.outcomeFilter,
                   sessionFilter |-> w.sessionFilter, visible |-> w.visible]
           /\ w.visible = VisibleEvidence(w)
BY DEF NewWorkspace, RebuildVisibleEvidence, VisibleEvidence

(* Rebuilding keeps the other fields and shows what the filters leave.      *)
LEMMA RebuildFacts ==
    ASSUME NEW w,
           w = [bundle |-> w.bundle, playback |-> w.playback,
                outcomeFilter |-> w.outcomeFilter,
                sessionFilter |-> w.sessionFilter, visible |-> w.visible]
    PROVE  LET t == RebuildVisibleEvidence(w) IN
           /\ t = [bundle |-> w.bundle, playback |-> w.playback,
                   outcomeFilter |-> w.outcomeFilter,
                   sessionFilter |-> w.sessionFilter, visible |-> VisibleEvidence(w)]
           /\ t.visible = VisibleEvidence(t)
BY DEF RebuildVisibleEvidence, VisibleEvidence

(* The two shapes of an operation on the active workspace: it moves the     *)
(* playback, or it sets a filter.                                           *)
Moves == \E p, raises : Playback(p, raises)
Filters ==
    \/ \E f : Filter([W EXCEPT !.outcomeFilter = f])
    \/ \E s : Filter([W EXCEPT !.sessionFilter = s])

(* Every step is a load, the end of a workspace, or one of these.           *)
LEMMA StepShapes ==
    ASSUME [Next]_vars
    PROVE  \/ \E b \in Bundles : LoadSucceeds(b)
           \/ LoadFails \/ Clear \/ Dispose
           \/ Loaded /\ Moves
           \/ Loaded /\ Filters
           \/ UNCHANGED vars
<1>1. ASSUME NEW f \in OutcomeFilters, SetOutcomeFilter(f)
      PROVE  Loaded /\ Filters
    BY <1>1 DEF SetOutcomeFilter, Filters
<1>2. ASSUME NEW s, SetSessionFilterIndex(s)
      PROVE  Loaded /\ Filters
    BY <1>2 DEF SetSessionFilterIndex, Filters
<1>3. ASSUME NEW i, SelectVisibleEvidence(i) \/ SelectTimelineIndex(i - 1)
      PROVE  Loaded /\ Moves
    BY <1>3 DEF SelectVisibleEvidence, SelectTimelineIndex, Moves
<1>4. ASSUME NEW t, SeekToTick(t)
      PROVE  Loaded /\ Moves
    BY <1>4 DEF SeekToTick, Moves
<1>5. ASSUME StartPlayback \/ PlayAgain \/ PausePlayback
      PROVE  Loaded /\ Moves
    BY <1>5 DEF StartPlayback, PlayAgain, PausePlayback, Moves
<1>6. ASSUME StepForward \/ StepBackward \/ ResetPlayback
      PROVE  Loaded /\ Moves
    BY <1>6 DEF StepForward, StepBackward, ResetPlayback, Moves
<1>7. ASSUME NEW speed \in Speeds, SetPlaybackSpeed(speed)
      PROVE  Loaded /\ Moves
    BY <1>7 DEF SetPlaybackSpeed, Moves
<1>8. ASSUME NEW e \in Elapsed, EditorUpdate(e)
      PROVE  Loaded /\ Moves
    BY <1>8 DEF EditorUpdate, Moves
<1> QED BY <1>1, <1>2, <1>3, <1>4, <1>5, <1>6, <1>7, <1>8 DEF Next

(* Every operation keeps the invariant.                                     *)
LEMMA NextKeepsInv == Inv /\ [Next]_vars => Inv'
<1> SUFFICES ASSUME Inv, [Next]_vars
             PROVE  Inv'
    OBVIOUS
<1>1. ASSUME NEW b \in Bundles, LoadSucceeds(b)
      PROVE  Inv'
  <2>1. WorkspaceInv'
      BY <1>1, NewWorkspaceFacts DEF LoadSucceeds, WorkspaceInv, VisibleEvidence
  <2>2. NumberInv' /\ active' # 0 /\ active' # active
      BY <1>1 DEF LoadSucceeds, Inv, NumberInv
  <2>3. BoundToActive'
      BY <1>1, <2>2 DEF LoadSucceeds, RebindWorkspace, Inv, BoundToActive
  <2> QED BY <2>1, <2>2, <2>3 DEF Inv
<1>2. ASSUME LoadFails
      PROVE  Inv'
    BY <1>2 DEF LoadFails, Inv, WorkspaceInv, NumberInv, BoundToActive, VisibleEvidence
<1>3. ASSUME ResetActiveWorkspace, RebindWorkspace(0)
      PROVE  Inv'
  <2>1. WorkspaceInv'
      BY <1>3, NewWorkspaceFacts DEF ResetActiveWorkspace, WorkspaceInv, VisibleEvidence
  <2>2. NumberInv' /\ active' = 0
      BY <1>3 DEF ResetActiveWorkspace, Inv, NumberInv
  <2>3. BoundToActive'
      BY <1>3, <2>2 DEF ResetActiveWorkspace, RebindWorkspace, Inv, BoundToActive
  <2> QED BY <2>1, <2>2, <2>3 DEF Inv
<1>4. ASSUME UNCHANGED sessionVars
      PROVE  NumberInv' /\ BoundToActive'
    BY <1>4 DEF sessionVars, Inv, NumberInv, BoundToActive
<1>5. ASSUME NEW p, NEW raises, Playback(p, raises)
      PROVE  Inv'
  <2>1. WorkspaceInv'
      BY <1>5 DEF Playback, Inv, WorkspaceInv, VisibleEvidence
  <2> QED BY <1>4, <1>5, <2>1 DEF Playback, Inv
<1>6. ASSUME NEW w, Filter(w),
             w = [bundle |-> w.bundle, playback |-> w.playback,
                  outcomeFilter |-> w.outcomeFilter,
                  sessionFilter |-> w.sessionFilter, visible |-> w.visible]
      PROVE  Inv'
  <2>1. WorkspaceInv'
      BY <1>6, RebuildFacts DEF Filter, WorkspaceInv
  <2> QED BY <1>4, <1>6, <2>1 DEF Filter, Inv
<1>7. ASSUME Filters
      PROVE  Inv'
  <2>1. ASSUME NEW f, Filter([W EXCEPT !.outcomeFilter = f])
        PROVE  Inv'
      BY <1>6, <2>1 DEF Inv, WorkspaceInv
  <2>2. ASSUME NEW s, Filter([W EXCEPT !.sessionFilter = s])
        PROVE  Inv'
      BY <1>6, <2>2 DEF Inv, WorkspaceInv
  <2> QED BY <1>7, <2>1, <2>2 DEF Filters
<1>8. ASSUME UNCHANGED vars
      PROVE  Inv'
    BY <1>8 DEF vars, Inv, WorkspaceInv, NumberInv, BoundToActive, VisibleEvidence
<1>9. Clear \/ Dispose => Inv'
    BY <1>3 DEF Clear, Dispose
<1> QED BY <1>1, <1>2, <1>5, <1>7, <1>8, <1>9, StepShapes DEF Moves

(* The invariant holds in every state.                                      *)
LEMMA InvHolds == Spec => []Inv
<1>1. Init => Inv
  <2> SUFFICES ASSUME Init PROVE Inv
      OBVIOUS
  <2>1. WorkspaceInv
      BY NewWorkspaceFacts DEF Init, WorkspaceInv
  <2> QED BY <2>1 DEF Init, Inv, NumberInv, BoundToActive
<1> QED BY <1>1, NextKeepsInv, PTL DEF Spec

(* Exactly the active workspace is subscribed to, through any series of     *)
(* loads that fail or succeed, clears and the disposal                      *)
(* (InvestigationViewerSession.cs, InvestigationEditorController.cs).       *)
THEOREM ViewerBoundToActive == Spec => []BoundToActive
<1>1. Inv => BoundToActive
    BY DEF Inv
<1> QED BY <1>1, InvHolds, PTL

-----------------------------------------------------------------------------
(* Loops.  A set of numbers that begins with 0 and has the successor of     *)
(* each of its members has them all: the initial segments that are not      *)
(* within it would have no smallest one.                                    *)
LEMMA NatSets ==
    ASSUME NEW P, 0 \in P, \A n \in Nat : n \in P => n + 1 \in P
    PROVE  Nat \subseteq P
<1> SUFFICES ASSUME NEW n \in Nat, n \notin P PROVE FALSE
  OBVIOUS
<1> DEFINE Below == {0 .. k : k \in {i \in 0 .. n : i \notin P}}
<1>1. /\ Below \subseteq FiniteSubsetsOf(0 .. n)
      /\ 0 .. n \in Below
  <2>1. \A k \in 0 .. n : 0 .. k \in SUBSET (0 .. n) /\ IsFiniteSet(0 .. k)
    BY FS_Interval
  <2> QED BY <2>1 DEF FiniteSubsetsOf
<1>2. PICK x \in Below : \A y \in Below : <<y, x>> \notin StrictSubsetOrdering(0 .. n)
  BY <1>1, WFMin, FS_StrictSubsetOrderingWellFounded
<1>3. PICK k \in 0 .. n : k \notin P /\ x = 0 .. k
  BY <1>2
<1>4. k - 1 \in 0 .. n /\ k - 1 \notin P
  BY <1>3
<1>5. /\ 0 .. k - 1 \in Below /\ 0 .. k \in Below
      /\ 0 .. k - 1 \subseteq 0 .. k /\ 0 .. k - 1 # 0 .. k
      /\ 0 .. k - 1 \in SUBSET (0 .. n) /\ 0 .. k \in SUBSET (0 .. n)
  BY <1>3, <1>4
<1> QED BY <1>2, <1>3, <1>5 DEF StrictSubsetOrdering

(* What a loop reaches after n rounds is well defined: its value starts as  *)
(* the base, and round n takes it on.                                       *)
Iterates(f, base, step) ==
    f[0] = base /\ \A n \in Nat : f[n + 1] = step[n][f[n]]

(* There is such a function whatever the rounds do.                         *)
LEMMA Iteration ==
    ASSUME NEW S, NEW base \in S, NEW step \in [Nat -> [S -> S]]
    PROVE  \E f \in [Nat -> S] : Iterates(f, base, step)
<1> DEFINE Start(g, n) == /\ g[0] = base
                          /\ \A i \in 0 .. n - 1 : g[i + 1] = step[i][g[i]]
           Starts(n) == {g \in [0 .. n -> S] : Start(g, n)}
<1>1. \A n \in Nat : Starts(n) # {}
  <2> DEFINE P == {n \in Nat : Starts(n) # {}}
  <2>1. 0 \in P
    <3>1. [i \in 0 .. 0 |-> base] \in Starts(0)
      OBVIOUS
    <3> QED BY <3>1
  <2>2. ASSUME NEW n \in Nat, n \in P
        PROVE  n + 1 \in P
    <3>1. PICK g \in Starts(n) : TRUE
      BY <2>2
    <3> DEFINE h == [i \in 0 .. n + 1 |-> IF i <= n THEN g[i] ELSE step[n][g[n]]]
    <3>2. h \in [0 .. n + 1 -> S]
      BY <3>1
    <3>3. Start(h, n + 1)
      BY <3>1
    <3> HIDE DEF h
    <3>4. h \in Starts(n + 1)
      BY <3>2, <3>3
    <3> QED BY <3>4
  <2> HIDE DEF P
  <2>3. Nat \subseteq P
    BY <2>1, <2>2, NatSets
  <2> QED BY <2>3 DEF P
<1> DEFINE Agree(i) == \A n, m \in Nat : \A g \in Starts(n), h \in Starts(m) :
                          i <= n /\ i <= m => g[i] = h[i]
<1>2. \A i \in Nat : Agree(i)
  <2>1. Agree(0)
    OBVIOUS
  <2>2. ASSUME NEW i \in Nat, Agree(i)
        PROVE  Agree(i + 1)
    <3>1. ASSUME NEW n \in Nat, NEW m \in Nat, i + 1 <= n, i + 1 <= m,
                 NEW g \in Starts(n), NEW h \in Starts(m)
          PROVE  g[i + 1] = h[i + 1]
      <4>1. i <= n /\ i <= m /\ i \in 0 .. n - 1 /\ i \in 0 .. m - 1
        BY <3>1
      <4>2. g[i] = h[i]
        BY <2>2, <4>1
      <4> QED BY <4>1, <4>2
    <3> HIDE DEF Starts
    <3> QED BY <3>1
  <2> HIDE DEF Agree
  <2> DEFINE P == {i \in Nat : Agree(i)}
  <2>3. 0 \in P /\ \A i \in Nat : i \in P => i + 1 \in P
    BY <2>1, <2>2
  <2>4. Nat \subseteq P
    <3> HIDE DEF P
    <3> QED BY <2>3, NatSets
  <2> QED BY <2>4
<1> DEFINE a(n) == CHOOSE g : g \in Starts(n)
           f == [n \in Nat |-> a(n)[n]]
<1>3. \A n \in Nat : a(n) \in Starts(n)
  BY <1>1
<1> HIDE DEF a
<1>4. f \in [Nat -> S] /\ f[0] = base
  BY <1>3
<1>5. ASSUME NEW n \in Nat
      PROVE  f[n + 1] = step[n][f[n]]
  <2>1. n + 1 \in Nat /\ n <= n + 1 /\ n <= n /\ n \in 0 .. (n + 1) - 1
    OBVIOUS
  <2>2. a(n + 1)[n + 1] = step[n][a(n + 1)[n]]
    BY <1>3, <2>1
  <2>3. a(n + 1)[n] = a(n)[n]
    <3> HIDE DEF Starts
    <3>1. a(n + 1) \in Starts(n + 1) /\ a(n) \in Starts(n)
      BY <1>3, <2>1
    <3> QED BY <1>2, <2>1, <3>1
  <2> QED BY <2>1, <2>2, <2>3
<1> HIDE DEF f
<1> QED BY <1>4, <1>5 DEF Iterates

(* Quotient and remainder.                                                  *)
LEMMA Division ==
    ASSUME NEW a \in Nat, NEW d \in Nat \ {0}
    PROVE  /\ a \div d \in Nat /\ a % d \in 0 .. d - 1
           /\ a = d * (a \div d) + (a % d)
OBVIOUS

(* and the only pair of that kind.                                          *)
LEMMA DivisionUnique ==
    ASSUME NEW a \in Nat, NEW d \in Nat \ {0}, NEW q \in Int, NEW r \in 0 .. d - 1,
           a = d * q + r
    PROVE  a \div d = q /\ a % d = r
OBVIOUS

(* What is left when whole divisors were taken off.                         *)
LEMMA Remainder ==
    ASSUME NEW d \in Nat \ {0}, NEW n \in Nat, NEW z \in 0 .. d - 1, NEW x \in Nat,
           x + n * d = d * n + z
    PROVE  x < d
<1> DEFINE y == d * n
<1>1. y \in Nat /\ n * d = y
  OBVIOUS
<1> HIDE DEF y
<1> QED BY <1>1 DEF y

(* A multiple of the divisor that fits has no greater factor.               *)
LEMMA QuotientBound ==
    ASSUME NEW d \in Nat \ {0}, NEW k \in Int, NEW r \in 0 .. d - 1, NEW m \in Int,
           d * m <= d * k + r
    PROVE  m <= k
<1> SUFFICES ASSUME m >= k + 1 PROVE FALSE
  OBVIOUS
<1>1. d * m >= d * (k + 1)
  <2>1. m - (k + 1) \in Nat
    OBVIOUS
  <2>2. d * (m - (k + 1)) \in Nat
    BY <2>1
  <2>3. d * (m - (k + 1)) = d * m - d * (k + 1)
    OBVIOUS
  <2> QED BY <2>2, <2>3
<1>2. d * (k + 1) = d * k + d
  OBVIOUS
<1> QED BY <1>1, <1>2

-----------------------------------------------------------------------------
(* Playback.                                                                *)

Playbacks == [index : Int, playing : BOOLEAN, accumulated : Nat, speed : Nat,
              from : Int, time : Nat]

(* PlaybackExact of a playback of a bundle.                                 *)
Exact(p, b) ==
    LET last == Len(b) - 1
    IN  /\ p.index = Min({p.from + p.time \div SecondsPerEntry, last})
        /\ p.accumulated = IF p.playing THEN p.time % SecondsPerEntry ELSE 0
        /\ p.playing => p.index < last

(* The smaller of two numbers.                                              *)
LEMMA LeastOfTwo ==
    ASSUME NEW a \in Int, NEW c \in Int
    PROVE  Min({a, c}) = IF a <= c THEN a ELSE c
<1> DEFINE m == IF a <= c THEN a ELSE c
<1>1. m \in {a, c} /\ \A y \in {a, c} : m <= y
  OBVIOUS
<1>2. \A x \in {a, c} : (\A y \in {a, c} : x <= y) => x = m
  OBVIOUS
<1> HIDE DEF m
<1>3. (CHOOSE x \in {a, c} : \A y \in {a, c} : x <= y) = m
  BY Zenon, <1>1, <1>2
<1> QED BY <1>3 DEF Min, m

(* A playback that was settled at an entry of the bundle is exact.          *)
LEMMA SettledIsExact ==
    ASSUME NEW b, Len(b) \in Nat, NEW p \in Playbacks, p.index <= Len(b) - 1,
           p.accumulated = 0, p.playing => p.index < Len(b) - 1
    PROVE  Settled(p) \in Playbacks /\ Exact(Settled(p), b)
<1> DEFINE q == Settled(p)
<1>1. /\ q \in Playbacks /\ q.index = p.index /\ q.from = p.index /\ q.time = 0
      /\ q.accumulated = 0 /\ q.playing = p.playing
  BY DEF Settled, Playbacks
<1>2. 0 \div SecondsPerEntry = 0 /\ 0 % SecondsPerEntry = 0
  BY ViewerAssumption, DivisionUnique, 0 = SecondsPerEntry * 0 + 0
<1>3. Min({q.from + q.time \div SecondsPerEntry, Len(b) - 1}) = q.index
  <2>1. q.from + q.time \div SecondsPerEntry = p.index /\ p.index \in Int
    BY <1>1, <1>2 DEF Playbacks
  <2> QED BY <1>1, <2>1, LeastOfTwo
<1> HIDE DEF q
<1>4. Exact(q, b)
  BY <1>1, <1>2, <1>3 DEF Exact
<1> QED BY <1>1, <1>4 DEF q

(* What one round of the loop does to a playback.                           *)
LEMMA RoundFacts ==
    ASSUME NEW b, Len(b) \in Nat, NEW p \in Playbacks
    PROVE  LET q == AdvanceEntry(p, b) IN
           /\ q \in Playbacks
           /\ q.from = p.from /\ q.time = p.time /\ q.speed = p.speed
           /\ ~(p.playing /\ p.accumulated >= SecondsPerEntry) => q = p
           /\ p.playing /\ p.accumulated >= SecondsPerEntry
              /\ p.index + 1 \in 0 .. Len(b) - 1 =>
                 /\ q.index = p.index + 1
                 /\ q.index < Len(b) - 1 =>
                       /\ q.playing = TRUE
                       /\ q.accumulated = p.accumulated - SecondsPerEntry
                 /\ ~(q.index < Len(b) - 1) => q.playing = FALSE /\ q.accumulated = 0
<1> DEFINE taken == [p EXCEPT !.accumulated = @ - SecondsPerEntry]
           moved == MoveTo(taken, b, taken.index + 1)
<1>1. CASE ~(p.playing /\ p.accumulated >= SecondsPerEntry)
  <2>1. AdvanceEntry(p, b) = p
    BY <1>1 DEF AdvanceEntry
  <2> QED BY <1>1, <2>1
<1>2. CASE p.playing /\ p.accumulated >= SecondsPerEntry
  <2>1. /\ taken \in Playbacks
        /\ taken.index = p.index /\ taken.from = p.from /\ taken.time = p.time
        /\ taken.speed = p.speed
        /\ taken.accumulated = p.accumulated - SecondsPerEntry
        /\ taken.playing = TRUE
    BY <1>2, ViewerAssumption DEF Playbacks
  <2> HIDE DEF taken
  <2>2. /\ moved \in Playbacks
        /\ moved.from = p.from /\ moved.time = p.time /\ moved.speed = p.speed
        /\ moved.accumulated = p.accumulated - SecondsPerEntry
        /\ moved.playing = TRUE
        /\ p.index + 1 \in 0 .. Len(b) - 1 => moved.index = p.index + 1
    BY <2>1 DEF MoveTo, Count, Playbacks
  <2>3. AdvanceEntry(p, b) =
           IF moved.index >= Len(b) - 1 THEN Pause(moved) ELSE moved
    BY <1>2 DEF AdvanceEntry, Count, taken
  <2> HIDE DEF moved
  <2>4. /\ Pause(moved) \in Playbacks
        /\ Pause(moved).index = moved.index /\ Pause(moved).from = moved.from
        /\ Pause(moved).time = moved.time /\ Pause(moved).playing = FALSE
        /\ Pause(moved).accumulated = 0 /\ Pause(moved).speed = moved.speed
    BY <2>2 DEF Pause, Playbacks
  <2>5. CASE moved.index >= Len(b) - 1
    <3>1. AdvanceEntry(p, b) = Pause(moved)
      BY <2>3, <2>5
    <3>2. ~(moved.index < Len(b) - 1)
      BY <2>2, <2>5 DEF Playbacks
    <3> QED BY <1>2, <2>2, <2>4, <3>1, <3>2
  <2>6. CASE ~(moved.index >= Len(b) - 1)
    <3>1. AdvanceEntry(p, b) = moved
      BY <2>3, <2>6
    <3>2. moved.index < Len(b) - 1
      BY <2>2, <2>6 DEF Playbacks
    <3> QED BY <1>2, <2>2, <3>1, <3>2
  <2> QED BY <2>5, <2>6
<1> QED BY <1>1, <1>2

(* What has been taken off the accumulated time so far has moved the        *)
(* position; or the last entry was reached and playback stopped there.      *)
Running(q, b, p, n) ==
    LET last == Len(b) - 1
    IN  /\ q \in Playbacks /\ q.from = p.from /\ q.time = p.time
        /\ q.speed = p.speed
        /\ \/ /\ q.playing = TRUE /\ q.index < last /\ q.index >= -1
              /\ SecondsPerEntry * (q.index - p.from) + q.accumulated = p.time
              /\ \/ q.accumulated < SecondsPerEntry
                 \/ q.accumulated + n * SecondsPerEntry = p.accumulated
           \/ /\ q.playing = FALSE /\ q.accumulated = 0 /\ q.index = last
              /\ SecondsPerEntry * (last - p.from) <= p.time

(* Moving on by one entry takes the time of one entry.                      *)
LEMMA EntryTime ==
    ASSUME NEW S \in Int, NEW d \in Int, NEW a \in Int
    PROVE  S * (d + 1) + (a - S) = S * d + a
OBVIOUS

(* and one round.                                                           *)
LEMMA RoundTime ==
    ASSUME NEW S \in Int, NEW a \in Int, NEW n \in Int
    PROVE  (a - S) + (n + 1) * S = a + n * S
OBVIOUS

(* A round keeps that.                                                      *)
LEMMA RoundRuns ==
    ASSUME NEW b, Len(b) \in Nat, NEW p \in Playbacks, NEW n \in Nat,
           NEW q, Running(q, b, p, n)
    PROVE  Running(AdvanceEntry(q, b), b, p, n + 1)
<1> DEFINE r == AdvanceEntry(q, b)
           S == SecondsPerEntry
           last == Len(b) - 1
<1>1. /\ q \in Playbacks /\ q.index \in Int /\ q.accumulated \in Nat
      /\ p.time \in Nat /\ p.from \in Int /\ p.accumulated \in Nat
      /\ S \in Nat \ {0} /\ last \in Int /\ last >= -1
  BY ViewerAssumption DEF Running, Playbacks
<1>2. CASE q.playing = TRUE /\ q.accumulated >= S
  <2>1. /\ q.index < last /\ q.index >= -1
        /\ S * (q.index - p.from) + q.accumulated = p.time
        /\ q.accumulated + n * S = p.accumulated
        /\ q.from = p.from /\ q.time = p.time /\ q.speed = p.speed
    BY <1>1, <1>2 DEF Running
  <2>2. q.index + 1 \in 0 .. Len(b) - 1
    <3>1. q.index \in Int /\ q.index < last /\ q.index >= -1
      BY <1>1, <2>1
    <3> QED BY <3>1
  <2>3. /\ r \in Playbacks /\ r.from = p.from /\ r.time = p.time
        /\ r.speed = p.speed /\ r.index = q.index + 1
        /\ r.index < last => r.playing = TRUE /\ r.accumulated = q.accumulated - S
        /\ ~(r.index < last) => r.playing = FALSE /\ r.accumulated = 0
    BY <1>1, <1>2, <2>1, <2>2, RoundFacts
  <2> HIDE DEF r, S, last
  <2>4. /\ S * ((q.index + 1) - p.from) + (q.accumulated - S) = p.time
        /\ (q.accumulated - S) + (n + 1) * S = p.accumulated
    <3>1. S \in Int /\ q.index \in Int /\ p.from \in Int /\ q.accumulated \in Int /\ n \in Int
      BY <1>1
    <3>2. S * (q.index - p.from) + q.accumulated = p.time
      BY <2>1
    <3>3. q.accumulated + n * S = p.accumulated
      BY <2>1
    <3>4. S * ((q.index + 1) - p.from) + (q.accumulated - S)
             = S * (q.index - p.from) + q.accumulated
      <4> DEFINE d == q.index - p.from
      <4>1. d \in Int /\ (q.index + 1) - p.from = d + 1
        BY <3>1
      <4> HIDE DEF d
      <4>2. S * (d + 1) + (q.accumulated - S) = S * d + q.accumulated
        BY <3>1, <4>1, EntryTime
      <4> QED BY Zenon, <4>1, <4>2 DEF d
    <3>5. (q.accumulated - S) + (n + 1) * S = q.accumulated + n * S
      BY Zenon, <3>1, RoundTime
    <3> QED BY Zenon, <3>2, <3>3, <3>4, <3>5
  <2>5. CASE r.index < last
    <3>1. r.playing = TRUE /\ r.accumulated = q.accumulated - S
      BY <2>3, <2>5
    <3>2. S * (r.index - p.from) + r.accumulated = p.time
      <4>1. r.index - p.from = (q.index + 1) - p.from
        BY <2>3
      <4> QED BY Zenon, <2>4, <3>1, <4>1
    <3>3. r.accumulated + (n + 1) * S = p.accumulated
      BY <2>4, <3>1
    <3> QED BY <1>1, <2>1, <2>3, <2>5, <3>1, <3>2, <3>3 DEF Running, S, last, r
  <2>6. CASE ~(r.index < last)
    <3>1. r.playing = FALSE /\ r.accumulated = 0 /\ r.index = last
      <4>1. r.index \in Int /\ q.index + 1 >= last /\ r.index = q.index + 1
        BY <1>1, <2>3, <2>6
      <4>2. r.index = last
        BY <1>1, <2>1, <4>1
      <4> QED BY <2>3, <2>6, <4>2
    <3>2. S * (last - p.from) <= p.time
      <4>1. q.index + 1 = last
        BY <2>3, <3>1
      <4>2. S * (last - p.from) + (q.accumulated - S) = p.time
        <5>1. (q.index + 1) - p.from = last - p.from
          BY <4>1
        <5> QED BY Zenon, <2>4, <5>1
      <4>3. S * (last - p.from) \in Int /\ q.accumulated - S >= 0
        BY <1>1, <1>2
      <4> DEFINE z == S * (last - p.from)
      <4> HIDE DEF z
      <4> QED BY <1>1, <4>2, <4>3 DEF z
    <3> QED BY <2>3, <3>1, <3>2 DEF Running, S, last, r
  <2> QED BY <2>5, <2>6
<1>3. CASE ~(q.playing = TRUE /\ q.accumulated >= S)
  <2>1. r = q
    BY <1>1, <1>3, RoundFacts DEF Playbacks
  <2>2. q.playing = TRUE => q.accumulated < S
    BY <1>1, <1>3
  <2> QED BY <2>1, <2>2 DEF Running
<1> QED BY <1>2, <1>3

(* So the loop of Advance ends where the time leads, and playback stops     *)
(* nowhere but at the last entry.                                           *)
LEMMA AdvanceIsExact ==
    ASSUME NEW b, Len(b) \in Nat, NEW p \in Playbacks, Exact(p, b), p.index >= -1,
           NEW e \in Nat
    PROVE  /\ Advance(p, b, e) \in Playbacks
           /\ Exact(Advance(p, b, e), b)
           /\ Advance(p, b, e).index >= -1
           /\ Advance(p, b, e).speed = p.speed
           /\ p.playing => \/ Advance(p, b, e).playing = TRUE
                           \/ Advance(p, b, e).index = Len(b) - 1
<1> DEFINE S == SecondsPerEntry
           last == Len(b) - 1
           started == [p EXCEPT !.accumulated = @ + e * p.speed,
                                !.time = @ + e * p.speed]
           rounds == started.accumulated \div S
           after[n \in Nat] == IF n = 0 THEN started ELSE AdvanceEntry(after[n - 1], b)
<1>1. /\ p.index \in Int /\ p.from \in Int /\ p.accumulated \in Nat /\ p.time \in Nat
      /\ p.speed \in Nat /\ S \in Nat \ {0} /\ last \in Int /\ e * p.speed \in Nat
  BY ViewerAssumption DEF Playbacks
<1>2. CASE ~p.playing
  <2>1. Advance(p, b, e) = p
    BY <1>2 DEF Advance
  <2> QED BY <2>1
<1>3. CASE p.playing
  <2>1. /\ started \in Playbacks /\ started.index = p.index /\ started.from = p.from
        /\ started.playing = TRUE /\ started.speed = p.speed
        /\ started.accumulated = p.accumulated + e * p.speed
        /\ started.time = p.time + e * p.speed
    <3>1. p.playing = TRUE
      BY <1>3 DEF Playbacks
    <3> DEFINE y == e * p.speed
    <3>2. y \in Nat
      BY <1>1
    <3> HIDE DEF y
    <3>3. started = [p EXCEPT !.accumulated = @ + y, !.time = @ + y]
      BY DEF y
    <3>5. started = [index |-> p.index, playing |-> p.playing,
                     accumulated |-> p.accumulated + y, speed |-> p.speed,
                     from |-> p.from, time |-> p.time + y]
      <4>1. p = [index |-> p.index, playing |-> p.playing,
                 accumulated |-> p.accumulated, speed |-> p.speed,
                 from |-> p.from, time |-> p.time]
        BY DEF Playbacks
      <4> HIDE DEF started
      <4>2. started.index = p.index /\ started = [p EXCEPT !.accumulated = @ + y, !.time = @ + y]
        BY <3>3, <4>1
      <4> QED BY <4>1, <4>2
    <3> HIDE DEF started
    <3>4. /\ started \in Playbacks /\ started.index = p.index /\ started.from = p.from
          /\ started.playing = TRUE /\ started.speed = p.speed
          /\ started.accumulated = p.accumulated + y
          /\ started.time = p.time + y
      BY <1>1, <3>1, <3>2, <3>5 DEF Playbacks
    <3> QED BY <3>4 DEF y
  <2>2. Advance(p, b, e) = after[rounds]
    BY <1>3 DEF Advance
  <2>3. Running(started, b, started, 0)
    <3>1. p.index < last /\ p.accumulated = p.time % S
      BY <1>3 DEF Exact
    <3>2. p.time \div S \in Nat /\ p.time = S * (p.time \div S) + (p.time % S)
      BY <1>1, Division
    <3> DEFINE k == p.time \div S
    <3>8. k \in Nat
      BY <3>2
    <3> HIDE DEF k
    <3>3. p.index = p.from + k
      <4>1. p.from + k \in Int
        BY <1>1, <3>8
      <4>2. p.index = Min({p.from + k, last})
        BY DEF Exact, k
      <4>3. p.index = IF p.from + k <= last THEN p.from + k ELSE last
        BY Zenon, <1>1, <4>1, <4>2, LeastOfTwo
      <4> QED BY <1>1, <3>1, <4>1, <4>3
    <3>4. S * (p.index - p.from) + p.accumulated = p.time
      <4>1. p.index - p.from = k
        BY <1>1, <3>3, <3>8
      <4> QED BY Zenon, <3>1, <3>2, <4>1 DEF k
    <3> DEFINE z == S * (p.index - p.from)
               y == e * p.speed
    <3>5. z \in Int
      BY <1>1
    <3> HIDE DEF z, started
    <3>6. z + started.accumulated = started.time
      <4> HIDE DEF y
      <4> QED BY <1>1, <2>1, <3>4, <3>5 DEF y, z
    <3>7. started.accumulated + 0 * S = started.accumulated
      BY <1>1, <2>1
    <3> QED BY <2>1, <3>1, <3>6, <3>7 DEF Running, z
  <2> HIDE DEF started
  <2>4. rounds \in Nat /\ started.accumulated = S * rounds + (started.accumulated % S)
        /\ started.accumulated % S \in 0 .. S - 1
    <3>1. started.accumulated \in Nat
      BY <2>1 DEF Playbacks
    <3> QED BY <1>1, <3>1, Division
  <2>5. \A n \in Nat : Running(after[n], b, started, n)
    <3> DEFINE step == [n \in Nat |-> [q \in Playbacks |-> AdvanceEntry(q, b)]]
    <3>1. \A q \in Playbacks : AdvanceEntry(q, b) \in Playbacks
      BY RoundFacts
    <3>2. step \in [Nat -> [Playbacks -> Playbacks]]
      BY <3>1
    <3> DEFINE Reaches(g) == g = [n \in Nat |-> IF n = 0 THEN started
                                                ELSE AdvanceEntry(g[n - 1], b)]
    <3>3. \E g : Reaches(g)
      <4> HIDE DEF step
      <4>1. PICK g \in [Nat -> Playbacks] : Iterates(g, started, step)
        <5>1. started \in Playbacks
          BY <2>1
        <5> QED BY Zenon, <3>2, <5>1, Iteration
      <4>2. ASSUME NEW n \in Nat \ {0}
            PROVE  g[n] = AdvanceEntry(g[n - 1], b)
        <5>1. n - 1 \in Nat /\ (n - 1) + 1 = n
          OBVIOUS
        <5>2. g[n - 1] \in Playbacks /\ g[n] = step[n - 1][g[n - 1]]
          BY <4>1, <5>1 DEF Iterates
        <5> QED BY <5>1, <5>2 DEF step
      <4>3. g = [n \in Nat |-> IF n = 0 THEN started ELSE AdvanceEntry(g[n - 1], b)]
        BY <4>1, <4>2 DEF Iterates
      <4> QED BY <4>3
    <3>4. Reaches(after)
      <4>1. after = CHOOSE g : Reaches(g)
        OBVIOUS
      <4> HIDE DEF after, Reaches
      <4> QED BY Zenon, <3>3, <4>1
    <3> HIDE DEF after
    <3>5. /\ after[0] = started
          /\ \A n \in Nat : after[n + 1] = AdvanceEntry(after[n], b)
      BY <3>4
    <3> DEFINE P == {n \in Nat : Running(after[n], b, started, n)}
    <3>6. 0 \in P
      BY <2>3, <3>5
    <3>7. ASSUME NEW n \in Nat, n \in P
          PROVE  n + 1 \in P
      <4>1. Running(AdvanceEntry(after[n], b), b, started, n + 1)
        BY Zenon, <2>1, <3>7, RoundRuns
      <4> QED BY <3>5, <4>1
    <3> HIDE DEF P
    <3>8. Nat \subseteq P
      BY <3>6, <3>7, NatSets
    <3> QED BY <3>8 DEF P
  <2> DEFINE q == after[rounds]
  <2>6. Running(q, b, started, rounds)
    BY <2>4, <2>5
  <2> HIDE DEF q, rounds
  <2>7. Exact(q, b)
    <3>1. /\ q.from = started.from /\ q.time = started.time /\ q \in Playbacks
          /\ q.from \in Int /\ q.time \in Nat /\ q.index \in Int /\ q.accumulated \in Nat
      BY <2>6 DEF Running, Playbacks
    <3> DEFINE k == q.time \div S
               r == q.time % S
    <3>2. k \in Nat /\ r \in 0 .. S - 1 /\ q.time = S * k + r
      BY <1>1, <3>1, Division
    <3>3. CASE q.playing = TRUE
      <4>1. /\ q.index < last
            /\ S * (q.index - q.from) + q.accumulated = q.time
            /\ \/ q.accumulated < S
               \/ q.accumulated + rounds * S = started.accumulated
        BY <2>6, <3>1, <3>3 DEF Running
      <4>2. q.accumulated < S
        <5>1. q.accumulated + rounds * S = started.accumulated => q.accumulated < S
          BY <1>1, <2>4, <3>1, Remainder
        <5> QED BY <4>1, <5>1
      <4>3. q.index - q.from \in Int /\ q.accumulated \in 0 .. S - 1
        <5>1. S \in Nat \ {0}
          BY <1>1
        <5> QED BY <3>1, <4>2, <5>1
      <4>4. k = q.index - q.from /\ r = q.accumulated
        <5> DEFINE d == q.index - q.from
        <5> HIDE DEF d
        <5>1. d \in Int /\ q.time = S * d + q.accumulated
          BY <4>1, <4>3 DEF d
        <5> QED BY <1>1, <3>1, <4>3, <5>1, DivisionUnique DEF d
      <4> HIDE DEF k, r
      <4>5. q.from + k = q.index
        BY <3>1, <4>4
      <4>6. Min({q.from + k, last}) = q.index
        <5>1. q.from + k \in Int /\ q.from + k <= last
          BY <1>1, <3>1, <4>1, <4>5
        <5> QED BY Zenon, <1>1, <4>5, <5>1, LeastOfTwo
      <4> QED BY <3>3, <4>1, <4>4, <4>6 DEF Exact, k, r
    <3>4. CASE q.playing = FALSE
      <4>1. q.accumulated = 0 /\ q.index = last /\ S * (last - q.from) <= q.time
        BY <2>6, <3>1, <3>4 DEF Running
      <4> HIDE DEF k, r
      <4>2. last - q.from <= k
        <5>1. k \in Int /\ last - q.from \in Int /\ S * (last - q.from) <= S * k + r
          BY <1>1, <3>1, <3>2, <4>1
        <5> QED BY Zenon, <1>1, <3>2, <5>1, QuotientBound
      <4>3. q.from + k \in Int /\ last <= q.from + k
        <5>1. k \in Int /\ last \in Int
          BY <1>1, <3>2
        <5> QED BY <3>1, <4>2, <5>1
      <4>4. Min({q.from + k, last}) = last
        <5>1. q.from + k <= last => q.from + k = last
          BY <1>1, <4>3
        <5>2. Min({q.from + k, last}) = IF q.from + k <= last THEN q.from + k ELSE last
          BY Zenon, <1>1, <4>3, LeastOfTwo
        <5> QED BY Zenon, <5>1, <5>2
      <4> QED BY <3>4, <4>1, <4>4 DEF Exact, k, r
    <3>5. q.playing = TRUE \/ q.playing = FALSE
      BY <3>1 DEF Playbacks
    <3> QED BY <3>3, <3>4, <3>5
  <2>8. /\ q \in Playbacks /\ q.index >= -1 /\ q.speed = p.speed
        /\ q.playing = TRUE \/ q.index = last
    <3>1. q \in Playbacks /\ q.speed = started.speed /\ (q.playing = TRUE \/ q.index = last)
      BY <2>6 DEF Running
    <3>2. q.index >= -1
      BY <1>1, <2>6 DEF Running
    <3> QED BY <2>1, <3>1, <3>2
  <2> QED BY <2>2, <2>7, <2>8 DEF q
<1> QED BY <1>2, <1>3

(* A playback within its bundle that is where its time leads.               *)
Fits(p, b) == p \in Playbacks /\ Exact(p, b) /\ p.index >= -1

(* What an exact playback knows of its position.                            *)
LEMMA FitsFacts ==
    ASSUME NEW b, Len(b) \in Nat, NEW p, Fits(p, b)
    PROVE  /\ p \in Playbacks /\ p.index \in -1 .. Len(b) - 1
           /\ p.playing \in BOOLEAN
           /\ p.playing => p.index < Len(b) - 1
           /\ ~p.playing => p.accumulated = 0
<1> DEFINE last == Len(b) - 1
           k == p.time \div SecondsPerEntry
<1>1. /\ p \in Playbacks /\ p.time \in Nat /\ p.from \in Int /\ p.index \in Int
      /\ p.playing \in BOOLEAN /\ last \in Int /\ SecondsPerEntry \in Nat \ {0}
  BY ViewerAssumption DEF Fits, Playbacks
<1>2. k \in Nat
  BY <1>1, Division
<1>3. p.index = Min({p.from + k, last})
  BY DEF Fits, Exact
<1> HIDE DEF k, last
<1>4. p.from + k \in Int
  BY <1>1, <1>2
<1>5. p.index = IF p.from + k <= last THEN p.from + k ELSE last
  BY Zenon, <1>1, <1>3, <1>4, LeastOfTwo
<1>6. p.index <= last
  BY <1>1, <1>4, <1>5
<1>7. /\ p.playing => p.index < last
      /\ ~p.playing => p.accumulated = 0
  BY DEF Fits, Exact, last
<1> QED BY <1>1, <1>6, <1>7 DEF Fits, last

(* A playback that was settled fits.                                        *)
LEMMA SettledFits ==
    ASSUME NEW b, Len(b) \in Nat, NEW p \in Playbacks, p.index \in -1 .. Len(b) - 1,
           p.accumulated = 0, p.playing => p.index < Len(b) - 1
    PROVE  Fits(Settled(p), b)
<1>1. Settled(p) \in Playbacks /\ Exact(Settled(p), b)
  BY SettledIsExact
<1>2. Settled(p).index = p.index
  BY DEF Settled, Playbacks
<1> QED BY <1>1, <1>2 DEF Fits

(* So does a new one, also of an empty bundle.                              *)
LEMMA NewFits ==
    ASSUME NEW b, Len(b) \in Nat PROVE Fits(NewPlayback(b), b)
<1> DEFINE p == NewPlayback(b)
<1>1. /\ p \in Playbacks /\ p.index \in -1 .. Len(b) - 1 /\ p.accumulated = 0
      /\ p.playing = FALSE /\ p.from = p.index /\ p.time = 0
  BY DEF NewPlayback, Playbacks, Count
<1>2. p = Settled(p)
  BY <1>1 DEF Settled, Playbacks
<1>3. Fits(Settled(p), b)
  BY <1>1, SettledFits
<1> QED BY <1>2, <1>3

(* Every operation leaves it so: a seek, a step, a pause, a reset.          *)
LEMMA SeekFits ==
    ASSUME NEW b, Len(b) \in Nat, NEW p, Fits(p, b), NEW i
    PROVE  /\ Fits(Settled(Pause(p)), b)
           /\ Fits(Settled(Seek(p, b, i)), b)
           /\ Fits(Settled(Reset(p, b)), b)
<1> DEFINE q == Pause(p)
<1>1. /\ q \in Playbacks /\ q.index \in -1 .. Len(b) - 1 /\ q.accumulated = 0
      /\ q.playing = FALSE
  BY FitsFacts DEF Pause, Playbacks
<1>2. Fits(Settled(q), b)
  BY <1>1, SettledFits
<1>3. Fits(Settled(Seek(p, b, i)), b)
  <2> HIDE DEF q
  <2>1. CASE i \in 0 .. Len(b) - 1
    <3>1. Seek(p, b, i) = [q EXCEPT !.index = i]
      BY <2>1 DEF Seek, MoveTo, Count, q
    <3> DEFINE r == [q EXCEPT !.index = i]
    <3>2. /\ r \in Playbacks /\ r.index = i /\ r.accumulated = 0 /\ r.playing = FALSE
      BY <1>1, <2>1 DEF Playbacks
    <3>3. r.index \in -1 .. Len(b) - 1
      BY <2>1, <3>2
    <3> HIDE DEF r
    <3>4. Fits(Settled(r), b)
      BY <3>2, <3>3, SettledFits
    <3> QED BY <3>1, <3>4 DEF r
  <2>2. CASE ~(i \in 0 .. Len(b) - 1)
    <3>1. Seek(p, b, i) = q
      BY <2>2 DEF Seek, MoveTo, Count, q
    <3> QED BY <1>2, <3>1
  <2> QED BY <2>1, <2>2
<1>4. Fits(Settled(Reset(p, b)), b)
  <2> HIDE DEF q
  <2> DEFINE n == NewPlayback(b).index
             r == [q EXCEPT !.index = n]
  <2>1. n \in -1 .. Len(b) - 1
    BY DEF NewPlayback, Count
  <2> HIDE DEF n
  <2>2. r \in Playbacks /\ r.index = n /\ r.accumulated = 0 /\ r.playing = FALSE
    BY <1>1, <2>1 DEF Playbacks
  <2>3. Reset(p, b) = r
    BY DEF Reset, q, n
  <2> HIDE DEF r
  <2>4. Fits(Settled(r), b)
    BY <2>1, <2>2, SettledFits
  <2> QED BY <2>3, <2>4
<1> QED BY <1>2, <1>3, <1>4

(* So does a start, or one more while it plays.                             *)
LEMMA PlayFits ==
    ASSUME NEW b, Len(b) \in Nat, NEW p, Fits(p, b)
    PROVE  /\ p.playing => Fits(Play(p, b), b)
           /\ ~p.playing => Fits(Settled(Play(p, b)), b)
<1>1. /\ p \in Playbacks /\ p.index \in -1 .. Len(b) - 1
      /\ p.playing = TRUE \/ p.playing = FALSE
      /\ p.playing => p.index < Len(b) - 1
      /\ ~p.playing => p.accumulated = 0
  BY FitsFacts
<1>2. CASE p.playing = TRUE
  <2>1. ~(Count(b) = 0 \/ p.index >= Count(b) - 1)
    BY <1>1, <1>2 DEF Count
  <2>2. Play(p, b) = [p EXCEPT !.playing = TRUE]
    BY <2>1 DEF Play
  <2>3. Play(p, b) = p
    BY <1>1, <1>2, <2>2 DEF Playbacks
  <2> QED BY <1>2, <2>3
<1>3. CASE p.playing = FALSE
  <2> DEFINE r == Play(p, b)
  <2>1. CASE Count(b) = 0 \/ p.index >= Count(b) - 1
    <3>1. r = [p EXCEPT !.playing = FALSE]
      BY <2>1 DEF Play
    <3> HIDE DEF r
    <3>2. r \in Playbacks /\ r.index = p.index /\ r.accumulated = 0 /\ r.playing = FALSE
      BY <1>1, <1>3, <3>1 DEF Playbacks
    <3>3. Fits(Settled(r), b)
      BY <1>1, <3>2, SettledFits
    <3> QED BY <1>3, <3>3 DEF r
  <2>2. CASE ~(Count(b) = 0 \/ p.index >= Count(b) - 1)
    <3>1. r = [p EXCEPT !.playing = TRUE]
      BY <2>2 DEF Play
    <3> HIDE DEF r
    <3>2. r \in Playbacks /\ r.index = p.index /\ r.accumulated = 0 /\ r.playing = TRUE
      BY <1>1, <1>3, <3>1 DEF Playbacks
    <3>3. r.index < Len(b) - 1
      BY <1>1, <2>2, <3>2 DEF Count
    <3>4. Fits(Settled(r), b)
      BY <1>1, <3>2, <3>3, SettledFits
    <3> QED BY <1>3, <3>4 DEF r
  <2> QED BY <2>1, <2>2
<1> QED BY <1>1, <1>2, <1>3

(* Another speed counts from now on.                                        *)
LEMMA SpeedFits ==
    ASSUME NEW b, Len(b) \in Nat, NEW p, Fits(p, b), NEW speed \in Nat
    PROVE  Fits([p EXCEPT !.speed = speed], b)
<1> DEFINE q == [p EXCEPT !.speed = speed]
<1>1. /\ q \in Playbacks /\ q.index = p.index /\ q.from = p.from /\ q.time = p.time
      /\ q.accumulated = p.accumulated
      /\ q.playing = p.playing
  BY DEF Fits, Playbacks
<1> HIDE DEF q
<1> QED BY Zenon, <1>1 DEF Fits, Exact, q

(* The editor's time moves it to where it leads.                            *)
LEMMA AdvanceFits ==
    ASSUME NEW b, Len(b) \in Nat, NEW p, Fits(p, b), NEW e \in Nat
    PROVE  /\ Fits(Advance(p, b, e), b)
           /\ Advance(p, b, e).speed = p.speed
           /\ p.playing => \/ Advance(p, b, e).playing = TRUE
                           \/ Advance(p, b, e).index = Len(b) - 1
BY AdvanceIsExact DEF Fits

(* The playback of the active workspace fits its bundle.                    *)
PlaybackInv == Len(W.bundle) \in Nat /\ Fits(W.playback, W.bundle)

(* It does after every operation.                                           *)
LEMMA PlaybackStep ==
    ASSUME Inv, PlaybackInv, [Next]_vars PROVE PlaybackInv'
<1> DEFINE b == W.bundle
           p == W.playback
<1>1. /\ Len(b) \in Nat /\ Fits(p, b)
      /\ W = [bundle |-> b, playback |-> p, outcomeFilter |-> W.outcomeFilter,
              sessionFilter |-> W.sessionFilter, visible |-> W.visible]
  BY DEF PlaybackInv, Inv, WorkspaceInv
<1>2. ASSUME NEW q, NEW raises, Playback(q, raises), Fits(q, b)
      PROVE  PlaybackInv'
  <2>1. W'.playback = q /\ W'.bundle = b
    BY <1>1, <1>2 DEF Playback
  <2> HIDE DEF b, p
  <2> QED BY <1>1, <1>2, <2>1 DEF PlaybackInv
<1>3. ASSUME NEW w, Filter(w), w.bundle = b, w.playback = p,
             w = [bundle |-> w.bundle, playback |-> w.playback,
                  outcomeFilter |-> w.outcomeFilter,
                  sessionFilter |-> w.sessionFilter, visible |-> w.visible]
      PROVE  PlaybackInv'
  <2>1. W'.playback = p /\ W'.bundle = b
    BY <1>3, RebuildFacts DEF Filter
  <2> HIDE DEF b, p
  <2> QED BY <1>1, <2>1 DEF PlaybackInv
<1>4. ASSUME NEW c, Len(c) \in Nat, W' = NewWorkspace(c)
      PROVE  PlaybackInv'
  <2>1. W'.playback = NewPlayback(c) /\ W'.bundle = c
    BY <1>4 DEF NewWorkspace, RebuildVisibleEvidence
  <2> QED BY <1>4, <2>1, NewFits DEF PlaybackInv
<1>5. ASSUME W' = W
      PROVE  PlaybackInv'
  BY <1>5 DEF PlaybackInv
<1>6. ASSUME NEW c \in Bundles, LoadSucceeds(c)
      PROVE  PlaybackInv'
  <2>1. Len(c) \in Nat
    BY ViewerAssumption
  <2> QED BY <1>4, <1>6, <2>1 DEF LoadSucceeds
<1>7. LoadFails => PlaybackInv'
  BY <1>5 DEF LoadFails
<1>8. Clear \/ Dispose => PlaybackInv'
  BY <1>4 DEF Clear, Dispose, ResetActiveWorkspace
<1>9. ASSUME NEW f \in OutcomeFilters, SetOutcomeFilter(f)
      PROVE  PlaybackInv'
  BY <1>1, <1>3, <1>9 DEF SetOutcomeFilter
<1>10. ASSUME NEW s, SetSessionFilterIndex(s)
       PROVE  PlaybackInv'
  BY <1>1, <1>3, <1>10 DEF SetSessionFilterIndex
<1> HIDE DEF b, p
<1>11. \A i : Fits(Settled(Seek(p, b, i)), b)
  BY <1>1, SeekFits
<1>12. ASSUME NEW i, SelectVisibleEvidence(i) \/ SelectTimelineIndex(i - 1) \/ SeekToTick(i)
       PROVE  PlaybackInv'
  BY <1>2, <1>11, <1>12
     DEF SelectVisibleEvidence, SelectTimelineIndex, SeekToTick, b, p
<1>13. StepForward \/ StepBackward => PlaybackInv'
  BY <1>2, <1>11 DEF StepForward, StepBackward, b, p
<1>14. PausePlayback \/ ResetPlayback => PlaybackInv'
  <2>1. Fits(Settled(Pause(p)), b) /\ Fits(Settled(Reset(p, b)), b)
    BY <1>1, SeekFits
  <2> QED BY <1>2, <2>1 DEF PausePlayback, ResetPlayback, b, p
<1>15. StartPlayback \/ PlayAgain => PlaybackInv'
  <2>1. /\ p.playing => Fits(Play(p, b), b)
        /\ ~p.playing => Fits(Settled(Play(p, b)), b)
    BY <1>1, PlayFits
  <2> QED BY <1>2, <2>1 DEF StartPlayback, PlayAgain, b, p
<1>16. ASSUME NEW speed \in Speeds, SetPlaybackSpeed(speed)
       PROVE  PlaybackInv'
  <2>1. speed \in Nat
    BY ViewerAssumption
  <2>2. Fits([p EXCEPT !.speed = speed], b)
    BY <1>1, <2>1, SpeedFits
  <2> QED BY <1>2, <1>16, <2>2 DEF SetPlaybackSpeed, b, p
<1>17. ASSUME NEW e \in Elapsed, EditorUpdate(e)
       PROVE  PlaybackInv'
  <2>1. e \in Nat
    BY ViewerAssumption
  <2>2. Fits(Advance(p, b, e), b)
    BY <1>1, <2>1, AdvanceFits
  <2> QED BY <1>2, <1>17, <2>2 DEF EditorUpdate, b, p
<1>18. UNCHANGED vars => PlaybackInv'
  BY <1>5 DEF vars
<1> QED BY <1>6, <1>7, <1>8, <1>9, <1>10, <1>12, <1>13, <1>14, <1>15, <1>16, <1>17, <1>18
        DEF Next

(* It fits it in every state.                                               *)
LEMMA PlaybackInvHolds == Spec => []PlaybackInv
<1>1. Init => PlaybackInv
  <2> SUFFICES ASSUME Init PROVE PlaybackInv
    OBVIOUS
  <2>1. W.playback = NewPlayback(<<>>) /\ W.bundle = <<>>
    BY DEF Init, NewWorkspace, RebuildVisibleEvidence
  <2>2. Len(<<>>) \in Nat
    OBVIOUS
  <2>3. Fits(NewPlayback(<<>>), <<>>)
    BY <2>2, NewFits
  <2> QED BY <2>1, <2>2, <2>3 DEF PlaybackInv
<1>2. Inv /\ PlaybackInv /\ [Next]_vars => PlaybackInv'
  BY PlaybackStep
<1> QED BY <1>1, <1>2, InvHolds, PTL DEF Spec

(* However the editor's updates cut the time and whatever the speed was in  *)
(* between, playback is where the time since the last pause, step or seek   *)
(* leads, for every bundle and every time an entry takes                    *)
(* (ReplayPlaybackController.cs:50-121).                                    *)
THEOREM ViewerPlaybackExact == Spec => []PlaybackExact
<1>1. PlaybackInv => PlaybackExact
  BY DEF PlaybackInv, Fits, Exact, PlaybackExact
<1> QED BY <1>1, PlaybackInvHolds, PTL

-----------------------------------------------------------------------------
(* What the window is told.                                                 *)

(* A playback that would take the place of the active one without the       *)
(* controller's own event is at another entry, or differs at most in that   *)
(* it no longer plays.                                                      *)
MovesOrStops(p) ==
    \/ p.index # W.playback.index
    \/ /\ p.index = W.playback.index /\ p.speed = W.playback.speed
       /\ \/ p.playing = W.playback.playing
          \/ W.playback.playing = TRUE /\ p.playing = FALSE

(* So it is after a step or a seek.                                         *)
LEMMA SeekMovesOrStops ==
    ASSUME PlaybackInv, NEW i
    PROVE  MovesOrStops(Settled(Seek(W.playback, W.bundle, i)))
<1> DEFINE q == Pause(W.playback)
<1>0. W.playback \in Playbacks
  BY FitsFacts DEF PlaybackInv
<1>1. /\ q \in Playbacks /\ q.index = W.playback.index /\ q.speed = W.playback.speed
      /\ q.playing = FALSE /\ W.playback.playing \in BOOLEAN
  BY <1>0 DEF Pause, Playbacks
<1> HIDE DEF q
<1>2. Seek(W.playback, W.bundle, i) \in {q, [q EXCEPT !.index = i]}
  BY DEF Seek, MoveTo, q
<1>3. CASE Seek(W.playback, W.bundle, i) = q
  BY <1>1, <1>3 DEF MovesOrStops, Settled, Playbacks
<1>4. CASE Seek(W.playback, W.bundle, i) = [q EXCEPT !.index = i]
  BY <1>1, <1>4 DEF MovesOrStops, Settled, Playbacks
<1> QED BY <1>2, <1>3, <1>4

(* and after the editor's update, for it stops only where it moved to.      *)
LEMMA AdvanceMovesOrStops ==
    ASSUME PlaybackInv, W.playback.playing, NEW e \in Nat
    PROVE  MovesOrStops(Advance(W.playback, W.bundle, e))
<1> DEFINE b == W.bundle
           p == W.playback
           a == Advance(p, b, e)
<1>1. Len(b) \in Nat /\ Fits(p, b) /\ p.playing
  BY DEF PlaybackInv
<1> HIDE DEF b, p
<1>2. p.playing = TRUE /\ p.index \in Int /\ p.index < Len(b) - 1
  BY <1>1, FitsFacts
<1>3. /\ a.speed = p.speed
      /\ a.playing = TRUE \/ a.index = Len(b) - 1
  <2>1. a.speed = p.speed
    BY ZenonT(30), <1>1, AdvanceFits
  <2>2. p.playing => \/ a.playing = TRUE
                     \/ a.index = Len(b) - 1
    BY ZenonT(30), <1>1, AdvanceFits
  <2> QED BY <1>1, <2>1, <2>2
<1> HIDE DEF a
<1>4. a.index = p.index => a.playing = TRUE
  <2>1. p.index # Len(b) - 1
    BY <1>1, <1>2
  <2> QED BY <1>3, <2>1
<1>5. MovesOrStops(a)
  BY <1>2, <1>3, <1>4 DEF MovesOrStops, p
<1> QED BY <1>5 DEF a, b, p

(* A playback is replaced with the controller's event, or by one like that. *)
LEMMA PlaybackShapes ==
    ASSUME PlaybackInv, [Next]_vars
    PROVE  \/ \E b \in Bundles : LoadSucceeds(b)
           \/ LoadFails \/ Clear \/ Dispose
           \/ Loaded /\ \E p : Playback(p, TRUE)
           \/ Loaded /\ \E p : Playback(p, FALSE) /\ MovesOrStops(p)
           \/ Loaded /\ Filters
           \/ UNCHANGED vars
<1> DEFINE Heard == Loaded /\ \E p : Playback(p, TRUE)
           Moved == Loaded /\ \E p : Playback(p, FALSE) /\ MovesOrStops(p)
<1>1. ASSUME NEW f \in OutcomeFilters, SetOutcomeFilter(f)
      PROVE  Loaded /\ Filters
  BY <1>1 DEF SetOutcomeFilter, Filters
<1>2. ASSUME NEW s, SetSessionFilterIndex(s)
      PROVE  Loaded /\ Filters
  BY <1>2 DEF SetSessionFilterIndex, Filters
<1>3. ASSUME NEW i, Loaded, Playback(Settled(Seek(W.playback, W.bundle, i)), FALSE)
      PROVE  Moved
  BY <1>3, SeekMovesOrStops
<1>4. ASSUME NEW i, SelectVisibleEvidence(i) \/ SelectTimelineIndex(i - 1) \/ SeekToTick(i)
      PROVE  Moved
  BY <1>3, <1>4 DEF SelectVisibleEvidence, SelectTimelineIndex, SeekToTick
<1>5. StepForward \/ StepBackward => Moved
  BY <1>3 DEF StepForward, StepBackward
<1>6. StartPlayback \/ PlayAgain \/ PausePlayback \/ ResetPlayback => Heard
  BY DEF StartPlayback, PlayAgain, PausePlayback, ResetPlayback
<1>7. ASSUME NEW speed \in Speeds, SetPlaybackSpeed(speed)
      PROVE  Heard
  BY <1>7 DEF SetPlaybackSpeed
<1>8. ASSUME NEW e \in Elapsed, EditorUpdate(e)
      PROVE  Moved
  <2>1. e \in Nat
    BY ViewerAssumption
  <2> QED BY <1>8, <2>1, AdvanceMovesOrStops DEF EditorUpdate
<1> QED BY <1>1, <1>2, <1>4, <1>5, <1>6, <1>7, <1>8 DEF Next

(* Whatever changes what the window shows raises Changed, unless it only    *)
(* stops playback at the entry where it is: a moved playback because the    *)
(* active workspace listens to it and the controller to the workspace, a    *)
(* start, a pause or another speed by the controller's own event, a filter  *)
(* that is really another, a load, a clear; and playback that an update     *)
(* stops has moved (ReplayPlaybackController.cs:75-186).                    *)
THEOREM ViewerWindowIsTold == Spec => WindowIsTold
<1> DEFINE Told == Shown' # Shown /\ ~disposed' => changed' \/ StopsInPlace
<1>1. Inv /\ PlaybackInv /\ [Next]_vars => [Told]_vars
  <2> SUFFICES ASSUME Inv, PlaybackInv, [Next]_vars, Shown' # Shown, ~disposed'
               PROVE  changed' \/ StopsInPlace
      BY DEF Told
  <2>1. ASSUME NEW b \in Bundles, LoadSucceeds(b)
        PROVE  changed'
      BY <2>1 DEF LoadSucceeds
  <2>2. LoadFails \/ Clear \/ Dispose => changed'
      BY DEF LoadFails, Clear, Dispose
  <2>3. Loaded => active \in subscribed \cap bound /\ active # 0
      BY DEF Loaded, Inv, BoundToActive
  <2>4. ASSUME NEW p, Playback(p, TRUE)
        PROVE  changed'
      BY <2>4 DEF Playback
  <2>5. ASSUME Loaded, NEW p, Playback(p, FALSE), MovesOrStops(p)
        PROVE  changed' \/ StopsInPlace
    <3>1. /\ active' = active /\ lastLoad' = lastLoad
          /\ W' = [W EXCEPT !.playback = p]
          /\ changed' = position_changed(p)
        BY <2>5 DEF Playback, sessionVars, position_changed
    <3>2. /\ W'.playback = p /\ W'.outcomeFilter = W.outcomeFilter
          /\ W'.sessionFilter = W.sessionFilter /\ W'.visible = W.visible
        BY <3>1 DEF Inv, WorkspaceInv
    <3>3. CASE p.index # W.playback.index
        BY <2>3, <2>5, <3>1, <3>3 DEF position_changed
    <3>4. CASE /\ p.index = W.playback.index /\ p.speed = W.playback.speed
               /\ \/ p.playing = W.playback.playing
                  \/ W.playback.playing = TRUE /\ p.playing = FALSE
      <4>1. p.playing # W.playback.playing
          BY <3>1, <3>2, <3>4 DEF Shown
      <4>2. W.playback.playing = TRUE /\ p.playing = FALSE
          BY <3>4, <4>1
      <4>3. Shown' = [Shown EXCEPT !.playing = FALSE]
        <5>1. /\ Shown'.workspace = Shown.workspace /\ Shown'.lastLoad = Shown.lastLoad
              /\ Shown'.position = Shown.position /\ Shown'.speed = Shown.speed
              /\ Shown'.outcomeFilter = Shown.outcomeFilter
              /\ Shown'.sessionFilter = Shown.sessionFilter
              /\ Shown'.visible = Shown.visible /\ Shown'.playing = FALSE
            BY <3>1, <3>2, <3>4, <4>2 DEF Shown
        <5> QED BY <5>1 DEF Shown
      <4>4. Shown.playing
          BY <4>2 DEF Shown
      <4> QED BY <4>3, <4>4 DEF StopsInPlace
    <3> QED BY <2>5, <3>3, <3>4 DEF MovesOrStops
  <2>6. ASSUME Loaded, NEW w, Filter(w)
        PROVE  changed'
    <3>1. /\ active' = active /\ lastLoad' = lastLoad
          /\ W' = RebuildVisibleEvidence(w)
          /\ changed' = (w # W /\ active \in bound)
        BY <2>6 DEF Filter, sessionVars
    <3>2. w # W
      <4> SUFFICES ASSUME w = W PROVE FALSE
          OBVIOUS
      <4>1. W' = W
          BY <3>1, RebuildFacts DEF Inv, WorkspaceInv
      <4> QED BY <3>1, <4>1 DEF Shown
    <3> QED BY <2>3, <2>6, <3>1, <3>2
  <2>7. UNCHANGED vars => FALSE
      BY DEF vars, Shown
  <2> QED BY <2>1, <2>2, <2>4, <2>5, <2>6, <2>7, PlaybackShapes DEF Filters
<1> QED BY <1>1, InvHolds, PlaybackInvHolds, PTL DEF Spec, WindowIsTold

=============================================================================
