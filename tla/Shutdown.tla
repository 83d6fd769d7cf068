------------------------------ MODULE Shutdown ------------------------------
(***************************************************************************)
(* The end of the target allocator.  main.go adds eight actors to a        *)
(* run.Group (external): when the first one returns, the group calls the   *)
(* interrupt function of each in the order they were added, one after the  *)
(* other, and then waits for all of them to return.  Some of the calls     *)
(* block: FileWatcher.Close hands a value to FileWatcher.Watch, which may  *)
(* be handing an event to the event loop; ShutdownHTTPS waits for the      *)
(* requests being served.                                                  *)
(***************************************************************************)
EXTENDS Naturals, Sequences

\* The order of runGroup.Add.
OrderLoopFirst ==
    <<"loop", "prom", "file", "manager", "discoverer", "collector", "https", "signals">>
Order ==
    <<"prom", "file", "manager", "discoverer", "collector", "https", "loop", "signals">>

Actor == {Order[n] : n \in DOMAIN Order}

VARIABLES
    at,         \* where each actor is
    stop,       \* the actors whose channel, context or listener was closed
    group,      \* "running", "interrupting", "waiting" or "exited"
    next,       \* the interrupt function being called
    request,    \* a request is being served
    addFailed   \* history: FileWatcher.Watch returned because Add failed

vars == <<at, stop, group, next, request, addFailed>>

Init ==
    /\ at = [a \in Actor |-> CASE a = "file" -> "starting"
                               [] a = "loop" -> "select"
                               [] OTHER      -> "running"]
    /\ stop = {}
    /\ group = "running"
    /\ next = 1
    /\ request = FALSE
    /\ addFailed = FALSE

Returned(a) == at[a] = "returned"

-----------------------------------------------------------------------------
\* The actors.

\* FileWatcher.Watch starts to watch the directory, or returns the error.
FileStarts ==
    /\ at["file"] = "starting"
    /\ \E s \in {"select", "returned"} :
           /\ at' = [at EXCEPT !["file"] = s]
           /\ addFailed' = (s = "returned")
    /\ UNCHANGED <<stop, group, next, request>>

\* It takes an event or an error of fsnotify, to be sent upstream.
FileTakes ==
    /\ at["file"] = "select"
    /\ \E s \in {"sendEvent", "sendError"} : at' = [at EXCEPT !["file"] = s]
    /\ UNCHANGED <<stop, group, next, request, addFailed>>

\* The event loop receives it; an event keeps it busy, an error is only logged.
LoopReceives ==
    /\ at["file"] \in {"sendEvent", "sendError"}
    /\ at["loop"] = "select"
    /\ at' = [at EXCEPT !["file"] = "select",
                        !["loop"] = IF at["file"] = "sendEvent" THEN "busy" ELSE "select"]
    /\ UNCHANGED <<stop, group, next, request, addFailed>>

\* The rate limiter of the custom resource watcher finds the event loop ready.
PromSends ==
    /\ at["prom"] = "running"
    /\ at["loop"] = "select"
    /\ at' = [at EXCEPT !["loop"] = "busy"]
    /\ UNCHANGED <<stop, group, next, request, addFailed>>

\* LoadConfig and ApplyConfig end, one way or the other.
LoopContinues ==
    /\ at["loop"] = "busy"
    /\ at' = [at EXCEPT !["loop"] = "select"]
    /\ UNCHANGED <<stop, group, next, request, addFailed>>

\* An actor returns by itself: the initial ApplyConfig, the pod watch or the
\* server fails, or a signal arrives.
Trip(a) ==
    /\ a \in {"discoverer", "collector", "https", "signals"}
    /\ at[a] = "running"
    /\ at' = [at EXCEPT ![a] = "returned"]
    /\ UNCHANGED <<stop, group, next, request, addFailed>>

\* An actor sees that it is to stop.  The file watcher has no such channel: it
\* is stopped by CloseFile.
Stops(a) ==
    /\ a \in stop
    /\ at[a] \in {"running", "select"}
    /\ at' = [at EXCEPT ![a] = "returned"]
    /\ UNCHANGED <<stop, group, next, request, addFailed>>

BeginRequest ==
    /\ at["https"] = "running"
    /\ "https" \notin stop
    /\ ~request
    /\ request' = TRUE
    /\ UNCHANGED <<at, stop, group, next, addFailed>>

EndRequest ==
    /\ request
    /\ request' = FALSE
    /\ UNCHANGED <<at, stop, group, next, addFailed>>

-----------------------------------------------------------------------------
\* The run group.

FirstReturns ==
    /\ group = "running"
    /\ \E a \in Actor : Returned(a)
    /\ group' = "interrupting"
    /\ UNCHANGED <<at, stop, next, request, addFailed>>

Calling(a) == group = "interrupting" /\ next <= Len(Order) /\ Order[next] = a

\* What an interrupt function that does not block closes.  eventCloser is shared
\* by the event loop and the signal actor, whose own interrupt does nothing.
Closes(a) ==
    CASE a = "loop"    -> {"loop", "signals"}
      [] a = "signals" -> {}
      [] OTHER         -> {a}

Interrupt(a) ==
    /\ a \notin {"file", "https"}
    /\ Calling(a)
    /\ stop' = stop \cup Closes(a)
    /\ next' = next + 1
    /\ UNCHANGED <<at, group, request, addFailed>>

\* FileWatcher.Close: closer is unbuffered, Watch must be at its select.
CloseFile ==
    /\ Calling("file")
    /\ at["file"] = "select"
    /\ at' = [at EXCEPT !["file"] = "returned"]
    /\ next' = next + 1
    /\ UNCHANGED <<stop, group, request, addFailed>>

\* ShutdownHTTPS closes the listener, then waits for the requests.
ShutdownHTTPS ==
    /\ Calling("https")
    /\ IF "https" \notin stop
       THEN stop' = stop \cup {"https"} /\ UNCHANGED next
       ELSE ~request /\ next' = next + 1 /\ UNCHANGED stop
    /\ UNCHANGED <<at, group, request, addFailed>>

AllInterrupted ==
    /\ group = "interrupting"
    /\ next > Len(Order)
    /\ group' = "waiting"
    /\ UNCHANGED <<at, stop, next, request, addFailed>>

RunReturns ==
    /\ group = "waiting"
    /\ \A a \in Actor : Returned(a)
    /\ group' = "exited"
    /\ UNCHANGED <<at, stop, next, request, addFailed>>

Next ==
    \/ FileStarts \/ FileTakes \/ LoopReceives \/ PromSends \/ LoopContinues
    \/ \E a \in Actor : Trip(a) \/ Stops(a) \/ Interrupt(a)
    \/ BeginRequest \/ EndRequest
    \/ FirstReturns \/ CloseFile \/ ShutdownHTTPS \/ AllInterrupted \/ RunReturns

\* Goroutines keep running and requests end.  A select with several cases ready
\* picks one at random, so a case that is ready again and again is picked in the
\* end: strong fairness for the stop of an actor, the closer of the file watcher
\* and the receive of the file watcher's event.
Fairness ==
    /\ WF_vars(FileStarts) /\ WF_vars(LoopContinues) /\ WF_vars(EndRequest)
    /\ SF_vars(LoopReceives) /\ SF_vars(CloseFile)
    /\ \A a \in Actor : SF_vars(Stops(a)) /\ WF_vars(Interrupt(a))
    /\ WF_vars(FirstReturns) /\ WF_vars(ShutdownHTTPS)
    /\ WF_vars(AllInterrupted) /\ WF_vars(RunReturns)

Spec == Init /\ [][Next]_vars /\ Fairness

-----------------------------------------------------------------------------

\* The variables range over the places in the code and the actors.
TypeOK ==
    /\ at \in [Actor -> {"starting", "select", "sendEvent", "sendError",
                         "busy", "running", "returned"}]
    /\ stop \subseteq Actor \ {"file"}
    /\ group \in {"running", "interrupting", "waiting", "exited"}
    /\ next \in 1..Len(Order) + 1
    /\ request \in BOOLEAN /\ addFailed \in BOOLEAN

\* The file watcher never waits to send to an event loop that has returned: the
\* event loop outlives it because it is interrupted later.
ReceiverOutlivesSender ==
    at["file"] \in {"sendEvent", "sendError"} => ~Returned("loop")

\* Once an actor has returned, for whatever reason, all of them return and the
\* process ends, so that the container is started again.  The exception is an
\* Add that failed: then Close waits for a Watch that is not there, and the
\* process stays, without its watchers.
ShutdownCompletes ==
    (\E a \in Actor : Returned(a)) ~> (group = "exited" \/ addFailed)
=============================================================================
