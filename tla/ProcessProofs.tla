---------------------------- MODULE ProcessProofs ----------------------------
(***************************************************************************)
(* Proofs about the process of the target allocator.  The order in which   *)
(* main.go adds its actors to the run group keeps the event loop alive for *)
(* as long as the file watcher may be handing it an event; the instance    *)
(* TLC checks is the whole system here, the proof shows why it holds.  And *)
(* for every number of changes of the CA file and of events in flight,     *)
(* watchCA leaves the pool behind the file only where nothing watched.     *)
(***************************************************************************)
EXTENDS Shutdown, CAWatcher, SequenceTheorems, TLAPS

-----------------------------------------------------------------------------
\* The run group.

Place == {"starting", "select", "sendEvent", "sendError", "busy", "running", "returned"}

\* The event loop returns only when its channel is closed; that happens only
\* after the interrupts before its own have returned; and that of the file
\* watcher returns only when the file watcher has.
LoopLeavesLast ==
    /\ Returned("loop") => "loop" \in stop
    /\ "loop" \in stop => next > 2
    /\ next > 2 => Returned("file")

ShutdownInv ==
    /\ at \in [Actor -> Place]
    /\ next \in Nat \ {0}
    /\ LoopLeavesLast

\* Where main.go adds the actors whose order matters.
LEMMA OrderIs ==
    /\ "file" \in Actor /\ "loop" \in Actor
    /\ Len(Order) = 8
    /\ \A n \in 1..8 : /\ Order[n] = "file" <=> n = 2
                       /\ Order[n] = "loop" <=> n = 7
                       /\ Order[n] = "https" <=> n = 6
<1>1. Len(Order) = 8
  BY DEF Order
<1>2. \A n \in 1..8 : /\ Order[n] = "file" <=> n = 2
                      /\ Order[n] = "loop" <=> n = 7
                      /\ Order[n] = "https" <=> n = 6
  BY DEF Order
<1>3. DOMAIN Order = 1..8
  BY DEF Order
<1>4. Order[2] = "file" /\ Order[7] = "loop"
  BY <1>2
<1>5. "file" \in Actor /\ "loop" \in Actor
  BY <1>3, <1>4 DEF Actor
<1> QED BY <1>1, <1>2, <1>5

\* Nobody is interrupted at the start.
LEMMA ShutdownInitEstablishes == Init => ShutdownInv
<1> SUFFICES ASSUME Init PROVE ShutdownInv
  OBVIOUS
<1>1. at \in [Actor -> Place]
  BY DEF Init, Place
<1>2. at["loop"] = "select"
  BY OrderIs DEF Init
<1> QED BY <1>1, <1>2 DEF Init, ShutdownInv, LoopLeavesLast, Returned

\* Every step of an actor or of the run group preserves the invariant.
LEMMA ShutdownNextPreserves == ShutdownInv /\ [Next]_vars => ShutdownInv'
<1> SUFFICES ASSUME ShutdownInv, [Next]_vars PROVE ShutdownInv'
  OBVIOUS
<1> USE OrderIs DEF ShutdownInv, LoopLeavesLast, Returned
<1>1. CASE FileStarts
  BY <1>1 DEF FileStarts, Place
<1>2. CASE FileTakes
  BY <1>2 DEF FileTakes, Place
<1>3. CASE LoopReceives
  BY <1>3 DEF LoopReceives, Place
<1>4. CASE PromSends
  BY <1>4 DEF PromSends, Place
<1>5. CASE LoopContinues
  BY <1>5 DEF LoopContinues, Place
<1>6. ASSUME NEW a \in Actor, Trip(a) PROVE ShutdownInv'
  BY <1>6 DEF Trip, Place
<1>7. ASSUME NEW a \in Actor, Stops(a) PROVE ShutdownInv'
  BY <1>7 DEF Stops, Place
<1>8. ASSUME NEW a \in Actor, Interrupt(a) PROVE ShutdownInv'
  <2>1. next # 2 /\ next \in 1..8 /\ (a = "loop" => next = 7)
    BY <1>8 DEF Interrupt, Calling
  <2>2. "loop" \in stop' => "loop" \in stop \/ next = 7
    BY <1>8, <2>1 DEF Interrupt, Closes
  <2> QED BY <1>8, <2>1, <2>2 DEF Interrupt
<1>9. CASE BeginRequest \/ EndRequest \/ FirstReturns \/ AllInterrupted \/ RunReturns
  BY <1>9 DEF BeginRequest, EndRequest, FirstReturns, AllInterrupted, RunReturns
<1>10. CASE CloseFile
  <2>1. next = 2
    BY <1>10 DEF CloseFile, Calling
  <2> QED BY <1>10, <2>1 DEF CloseFile, Place
<1>11. CASE ShutdownHTTPS
  <2>1. next = 6
    BY <1>11 DEF ShutdownHTTPS, Calling
  <2> QED BY <1>11, <2>1 DEF ShutdownHTTPS
<1>12. CASE UNCHANGED vars
  BY <1>12 DEF vars
<1> QED
  BY <1>1, <1>2, <1>3, <1>4, <1>5, <1>6, <1>7, <1>8, <1>9, <1>10, <1>11, <1>12 DEF Next

\* FileWatcher.Watch never hands an event or an error to an event loop that is
\* gone, whatever the interleaving of actors and interrupts (main.go).
THEOREM AlwaysReceiverOutlivesSender == Spec => []ReceiverOutlivesSender
<1>1. ShutdownInv => ReceiverOutlivesSender
  BY OrderIs DEF ShutdownInv, LoopLeavesLast, ReceiverOutlivesSender, Returned
<1> QED BY <1>1, ShutdownInitEstablishes, ShutdownNextPreserves, PTL DEF Spec

\* Everybody runs at first.
LEMMA ShutdownTypeInit == Init => TypeOK
<1> SUFFICES ASSUME Init PROVE TypeOK
  OBVIOUS
<1>1. at \in [Actor -> Place]
  BY DEF Init, Place
<1>2. next \in 1..Len(Order) + 1
  BY OrderIs DEF Init
<1>3. stop = {} /\ group = "running" /\ request = FALSE /\ addFailed = FALSE
  BY DEF Init
<1> QED BY <1>1, <1>2, <1>3 DEF TypeOK, Place

\* No interrupt runs past the last actor, and none but the blocking ones touches the file watcher.
LEMMA ShutdownTypeNext == TypeOK /\ [Next]_vars => TypeOK'
<1> SUFFICES ASSUME TypeOK, [Next]_vars PROVE TypeOK'
  OBVIOUS
<1> USE OrderIs DEF TypeOK
<1>1. CASE FileStarts
  BY <1>1 DEF FileStarts
<1>2. CASE FileTakes
  BY <1>2 DEF FileTakes
<1>3. CASE LoopReceives
  BY <1>3 DEF LoopReceives
<1>4. CASE PromSends \/ LoopContinues
  BY <1>4 DEF PromSends, LoopContinues
<1>5. ASSUME NEW a \in Actor, Trip(a) \/ Stops(a) PROVE TypeOK'
  BY <1>5 DEF Trip, Stops
<1>6. ASSUME NEW a \in Actor, Interrupt(a) PROVE TypeOK'
  <2>1. {"loop", "signals", a} \subseteq Actor
    <3>1. DOMAIN Order = 1..8 /\ Order[8] = "signals"
      BY DEF Order
    <3> QED BY <3>1 DEF Actor
  <2>2. Closes(a) \subseteq Actor \ {"file"}
    BY <1>6, <2>1 DEF Interrupt, Closes
  <2> QED BY <1>6, <2>2 DEF Interrupt, Calling
<1>7. CASE BeginRequest \/ EndRequest \/ FirstReturns \/ AllInterrupted \/ RunReturns
  BY <1>7 DEF BeginRequest, EndRequest, FirstReturns, AllInterrupted, RunReturns
<1>8. CASE CloseFile
  BY <1>8 DEF CloseFile, Calling
<1>9. CASE ShutdownHTTPS
  <2>1. "https" \in Actor
    <3>1. DOMAIN Order = 1..8 /\ Order[6] = "https"
      BY DEF Order
    <3> QED BY <3>1 DEF Actor
  <2> QED BY <1>9, <2>1 DEF ShutdownHTTPS, Calling
<1>10. CASE UNCHANGED vars
  BY <1>10 DEF vars
<1> QED BY <1>1, <1>2, <1>3, <1>4, <1>5, <1>6, <1>7, <1>8, <1>9, <1>10 DEF Next

\* Nothing but FileWatcher.Close ends the file watcher: no channel of it is ever closed
\* by another interrupt, and the run group never calls an interrupt it does not have.
THEOREM ShutdownTypeCorrect == Spec => []TypeOK
BY ShutdownTypeInit, ShutdownTypeNext, PTL DEF Spec

-----------------------------------------------------------------------------
\* The CA file.

\* StaleOnlyIfMissed with what a step needs: a pool that is behind without an event
\* and without an unwatched change cannot be, whether or not the file is there.
CAInv == CATypeOK /\ StaleOnlyIfMissed

\* NewCertAndCAWatcher has loaded the file.
LEMMA CAInitEstablishes == CAInit => CAInv
<1> SUFFICES ASSUME CAInit PROVE CAInv
  OBVIOUS
<1>1. <<>> \in Seq({"Write", "Remove", "Create"})
  OBVIOUS
<1>2. version \in 0..MaxVersion /\ file \in 0..version /\ pool \in 0..version
  BY CABoundAssumption DEF CAInit
<1>3. watched \in BOOLEAN /\ missed \in BOOLEAN /\ pc \in {"load", "add", "select", "rewatch"}
  BY DEF CAInit
<1>4. StaleOnlyIfMissed
  BY DEF CAInit, StaleOnlyIfMissed
<1> QED BY <1>1, <1>2, <1>3, <1>4 DEF CAInit, CAInv, CATypeOK

\* A change of the file, watched or not, is an event on its way or a missed one.
LEMMA ChangePreserves ==
    ASSUME CAInv, NEW content, NEW op \in {"Write", "Remove", "Create"},
           NEW keeps \in BOOLEAN, Change(content, op, keeps),
           version' \in version..MaxVersion, content \in {Missing} \cup 0..version'
    PROVE  CAInv'
<1>1. CATypeOK'
  BY DEF CAInv, CATypeOK, Change
<1>2. CASE watched
  <2>1. events' = Append(events, op)
    BY <1>2 DEF Change
  <2>2. events' # <<>>
    BY <2>1 DEF CAInv, CATypeOK
  <2> QED BY <1>1, <2>2 DEF CAInv, StaleOnlyIfMissed
<1>3. CASE ~watched
  BY <1>1, <1>3 DEF CAInv, StaleOnlyIfMissed, Change
<1> QED BY <1>2, <1>3 DEF CAInv, CATypeOK

\* Every change of the file and every turn of watchCA preserves the invariant.
LEMMA CANextPreserves == CAInv /\ [CANext]_caVars => CAInv'
<1> SUFFICES ASSUME CAInv, [CANext]_caVars PROVE CAInv'
  OBVIOUS
<1> USE CABoundAssumption
<1>1. CASE WriteFile
  <2>1. version' \in version..MaxVersion /\ version' \in {Missing} \cup 0..version'
    BY <1>1 DEF WriteFile, CAInv, CATypeOK
  <2> QED BY <1>1, <2>1, ChangePreserves DEF WriteFile
<1>2. CASE ReplaceFile
  <2>1. version' \in version..MaxVersion /\ version' \in {Missing} \cup 0..version'
    BY <1>2 DEF ReplaceFile, CAInv, CATypeOK
  <2> QED BY <1>2, <2>1, ChangePreserves DEF ReplaceFile
<1>3. CASE RemoveFile
  <2>1. version' \in version..MaxVersion
    BY <1>3 DEF RemoveFile, CAInv, CATypeOK
  <2> QED BY <1>3, <2>1, ChangePreserves DEF RemoveFile
<1>4. CASE CreateFile
  <2>1. version' \in version..MaxVersion /\ version' \in {Missing} \cup 0..version'
    BY <1>4 DEF CreateFile, CAInv, CATypeOK
  <2> QED BY <1>4, <2>1, ChangePreserves DEF CreateFile
<1>5. CASE Reload
  <2>1. CATypeOK'
    <3>1. Tail(events) \in Seq({"Write", "Remove", "Create"})
      BY <1>5 DEF Reload, CAInv, CATypeOK
    <3>2. pc' \in {"select", "rewatch"} /\ pool' \in 0..version /\ missed' \in BOOLEAN
      BY <1>5 DEF Reload, CAInv, CATypeOK
    <3> QED BY <1>5, <3>1, <3>2 DEF Reload, CAInv, CATypeOK
  <2>2. StaleOnlyIfMissed'
    BY <1>5 DEF Reload, CAInv, CATypeOK, StaleOnlyIfMissed
  <2> QED BY <2>1, <2>2 DEF CAInv
<1>6. CASE Rewatch
  BY <1>6 DEF Rewatch, CAInv, CATypeOK, StaleOnlyIfMissed
<1>7. CASE AddWatch
  BY <1>7 DEF AddWatch, CAInv, CATypeOK, StaleOnlyIfMissed
<1>8. CASE Load
  BY <1>8 DEF Load, CAInv, CATypeOK, StaleOnlyIfMissed
<1>9. CASE UNCHANGED caVars
  BY <1>9 DEF caVars, CAInv, CATypeOK, StaleOnlyIfMissed
<1> QED BY <1>1, <1>2, <1>3, <1>4, <1>5, <1>6, <1>7, <1>8, <1>9 DEF CANext

\* The CA pool lags behind its file only with an event of fsnotify on its way or
\* after a change that nothing watched, the start included, where the file is loaded
\* before it is watched (certwatcher.go, NewCertAndCAWatcher and watchCA).
THEOREM AlwaysStaleOnlyIfMissed == CASpec => []StaleOnlyIfMissed
<1>1. CAInv => StaleOnlyIfMissed
  BY DEF CAInv
<1> QED BY <1>1, CAInitEstablishes, CANextPreserves, PTL DEF CASpec

\* The pool always holds a version that the file has had, whatever is written, removed and
\* created while the watch is on and off (certwatcher.go).
THEOREM CATypeCorrect == CASpec => []CATypeOK
<1>1. CAInv => CATypeOK
  BY DEF CAInv
<1> QED BY <1>1, CAInitEstablishes, CANextPreserves, PTL DEF CASpec
=============================================================================
