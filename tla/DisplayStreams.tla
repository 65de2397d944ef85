---------------------------- MODULE DisplayStreams ----------------------------
(***************************************************************************)
(* The WebSocket streams of the server: listener, handlers, sessions and   *)
(* their workers, and WebApi::stop against all of them.                    *)
(*                                                                         *)
(* A connection is served by a handler thread, which registers a session   *)
(* and reads until the socket closes, and by a worker thread, which waits  *)
(* for the next event of the frame repository or of the preview exchange   *)
(* and sends it.  Stop tokens link them: the session's stop (requested by  *)
(* the handler itself or by stop) calls cancelWorker, which requests the   *)
(* worker's stop, which calls the callback armed by the wait in progress.  *)
(* httplib is external: a listener accepts while it serves, returns after  *)
(* its handlers have, and Server::stop reaches only a listener that serves.*)
(*                                                                         *)
(* Updates of the two sources notify in one action with the update (for a  *)
(* notification that comes later see FrameRepository).                     *)
(***************************************************************************)
EXTENDS Integers, FiniteSets

CONSTANTS
    Clients,         \* connections, each made once
    Complete,        \* those that ask for display frames, the others for previews
    Listeners,       \* threads that call listen
    MaxSessions,     \* maximumSessions
    MaxGeneration,   \* bound: generations of the repository
    MaxEvents,       \* bound: events of the exchange, sets of a generation
    NoClient

ASSUME StreamAssumption ==
    /\ Complete \subseteq Clients /\ IsFiniteSet(Clients) /\ NoClient \notin Clients
    /\ IsFiniteSet(Listeners)
    /\ MaxSessions \in Nat /\ MaxGeneration \in Nat \ {0} /\ MaxEvents \in Nat

Kinds == {"Complete", "Preview"}
KindOf(k) == IF k \in Complete THEN "Complete" ELSE "Preview"

VARIABLES
    source,          \* per kind: generation and number of the newest event
    mutex,           \* per kind: who holds its mutex between two steps
    handler,         \* per connection: where its handler is
    sessions,        \* sessions_
    active,          \* activeHandlers_
    socketHeld,      \* session.socketMutex, held by stop
    closed,          \* the socket is closed
    sessionStop,     \* session.stop is requested
    cancelWorker,    \* the callback the handler has armed on it
    cancel,          \* the thread that runs it, and how far it is
    worker,          \* per connection: where its worker is
    workerStop,      \* the worker's stop is requested
    notify,          \* the callback the worker's wait has armed
    cursor,          \* what the client has been sent
    event,           \* what the wait returned
    listener,        \* per listener: where it is
    pending,         \* pendingListenerStarts_
    listening,       \* activeListeners_
    stopping,        \* stopping_
    stopper, todo, current  \* WebApi::stop: where it is, sessions left, this one

sessionVars == <<handler, sessions, active, socketHeld, closed>>
stopVars == <<sessionStop, cancelWorker, cancel>>
workerVars == <<worker, workerStop, notify, cursor, event>>
serverVars == <<listener, pending, listening, stopping>>
stopperVars == <<stopper, todo, current>>
vars == <<source, mutex, sessionVars, stopVars, workerVars, serverVars, stopperVars>>

NoCancel == [by |-> "nobody", step |-> "none"]
Set(f, k, v) == [f EXCEPT ![k] = v]

-------------------------------------------------------------------------------
(* The sources.                                                             *)

Woken(kind) == [k \in Clients |->
    IF KindOf(k) = kind /\ worker[k] = "asleep" THEN "check" ELSE worker[k]]

Update(kind, value) ==
    /\ mutex[kind] = NoClient
    /\ source' = Set(source, kind, value)
    /\ worker' = Woken(kind)
    /\ UNCHANGED <<mutex, sessionVars, stopVars, workerStop, notify, cursor, event,
                   serverVars, stopperVars>>

\* A frame set, or any event of the exchange.
NextEvent(kind) ==
    /\ source[kind].number < MaxEvents
    /\ Update(kind, [source[kind] EXCEPT !.number = @ + 1])

\* The repository's generation; it has no set at first.
NextGeneration ==
    /\ source["Complete"].generation < MaxGeneration
    /\ Update("Complete",
              [generation |-> source["Complete"].generation + 1, number |-> 0])

-------------------------------------------------------------------------------
(* The handler (serve).                                                     *)

Goes(k, step) == handler' = Set(handler, k, step)

Connect(k) ==
    /\ handler[k] = "away" /\ \E l \in Listeners : listener[l] = "serving"
    /\ Goes(k, "connected")
    /\ UNCHANGED <<source, mutex, sessions, active, socketHeld, closed, stopVars,
                   workerVars, serverVars, stopperVars>>

Counted(k) == active' = active + 1

\* Faulty variant: one session too many.
RoomBeyond == Cardinality(sessions) <= MaxSessions
Room == Cardinality(sessions) < MaxSessions

Register(k) ==
    /\ handler[k] = "connected"
    /\ Counted(k)
    /\ IF ~stopping /\ Room
       THEN sessions' = sessions \cup {k} /\ Goes(k, "starting")
       ELSE Goes(k, "rejected") /\ UNCHANGED sessions
    /\ UNCHANGED <<source, mutex, socketHeld, closed, stopVars, workerVars, serverVars,
                   stopperVars>>

FinishRejected(k) ==
    /\ handler[k] = "rejected"
    /\ closed' = Set(closed, k, TRUE)
    /\ active' = active - 1
    /\ Goes(k, "gone")
    /\ UNCHANGED <<source, mutex, sessions, socketHeld, stopVars, workerVars, serverVars,
                   stopperVars>>

\* The worker starts, or cannot be started.
StartWorker(k) ==
    /\ handler[k] = "starting"
    /\ \/ Goes(k, "arming") /\ worker' = Set(worker, k, "top") /\ UNCHANGED closed
       \/ Goes(k, "releasing") /\ closed' = Set(closed, k, TRUE) /\ UNCHANGED worker
    /\ UNCHANGED <<source, mutex, sessions, active, socketHeld, stopVars, workerStop,
                   notify, cursor, event, serverVars, stopperVars>>

\* cancelWorker is armed, or called at once when stop has been here already.
ArmCancel(k) ==
    /\ handler[k] = "arming"
    /\ IF sessionStop[k]
       THEN /\ cancelWorker' = Set(cancelWorker, k, "running")
            /\ cancel' = Set(cancel, k, [by |-> "handler", step |-> "request"])
            /\ Goes(k, "canceled")
       ELSE /\ cancelWorker' = Set(cancelWorker, k, "armed")
            /\ Goes(k, "reading") /\ UNCHANGED cancel
    /\ UNCHANGED <<source, mutex, sessions, active, socketHeld, closed, sessionStop,
                   workerVars, serverVars, stopperVars>>

\* ... and the constructor returns.
Armed(k) ==
    /\ handler[k] = "canceled" /\ cancel[k] = NoCancel
    /\ Goes(k, "reading")
    /\ UNCHANGED <<source, mutex, sessions, active, socketHeld, closed, stopVars,
                   workerVars, serverVars, stopperVars>>

\* Environment: the peer closes, or the connection breaks.
PeerCloses(k) ==
    /\ handler[k] \notin {"away", "gone"} /\ ~closed[k]
    /\ closed' = Set(closed, k, TRUE)
    /\ UNCHANGED <<source, mutex, handler, sessions, active, socketHeld, stopVars,
                   workerVars, serverVars, stopperVars>>

\* requestStop of the session's source, by the handler or by stop: the first one
\* takes the callback and runs it.
Requests(k, by) ==
    /\ sessionStop' = Set(sessionStop, k, TRUE)
    /\ IF ~sessionStop[k] /\ cancelWorker[k] = "armed"
       THEN /\ cancelWorker' = Set(cancelWorker, k, "claimed")
            /\ cancel' = Set(cancel, k, [by |-> by, step |-> "begin"])
       ELSE UNCHANGED <<cancelWorker, cancel>>

ReadFails(k) ==
    /\ handler[k] = "reading" /\ closed[k]
    /\ Requests(k, "handler")
    /\ Goes(k, "joining")
    /\ UNCHANGED <<source, mutex, sessions, active, socketHeld, closed, workerVars,
                   serverVars, stopperVars>>

Join(k) ==
    /\ handler[k] = "joining" /\ cancel[k].by # "handler" /\ worker[k] = "ended"
    /\ Goes(k, "disarming")
    /\ UNCHANGED <<source, mutex, sessions, active, socketHeld, closed, stopVars,
                   workerVars, serverVars, stopperVars>>

\* Faulty variant: a callback that runs elsewhere is not waited for.
DisarmsAlways(k) == TRUE
Disarms(k) == cancelWorker[k] # "running"

\* ~StopCallback before the worker is destroyed.
DisarmCancel(k) ==
    /\ handler[k] = "disarming" /\ Disarms(k)
    /\ cancelWorker' = Set(cancelWorker, k, "none")
    /\ Goes(k, "releasing")
    /\ UNCHANGED <<source, mutex, sessions, active, socketHeld, closed, sessionStop,
                   cancel, workerVars, serverVars, stopperVars>>

\* The socket is taken out of the session under its mutex; after that the
\* registry forgets the session and httplib the socket.
ReleaseSocket(k) ==
    /\ handler[k] = "releasing" /\ ~socketHeld[k]
    /\ Goes(k, "leaving")
    /\ UNCHANGED <<source, mutex, sessions, active, socketHeld, closed, stopVars,
                   workerVars, serverVars, stopperVars>>

FinishSession(k) ==
    /\ handler[k] = "leaving"
    /\ sessions' = sessions \ {k} /\ active' = active - 1
    /\ Goes(k, "gone")
    /\ UNCHANGED <<source, mutex, socketHeld, closed, stopVars, workerVars, serverVars,
                   stopperVars>>

Handler(k) ==
    \/ Register(k) \/ FinishRejected(k) \/ StartWorker(k) \/ ArmCancel(k) \/ Armed(k)
    \/ ReadFails(k) \/ Join(k) \/ DisarmCancel(k) \/ ReleaseSocket(k)
    \/ FinishSession(k)

-------------------------------------------------------------------------------
(* The thread that runs cancelWorker, and with it the wait's callback.      *)

At(k, step) == cancel[k].step = step
CancelGoes(k, step) == cancel' = [cancel EXCEPT ![k].step = step]

BeginCancel(k) ==
    /\ At(k, "begin")
    /\ IF cancelWorker[k] = "claimed"
       THEN cancelWorker' = Set(cancelWorker, k, "running") /\ CancelGoes(k, "request")
       ELSE cancel' = Set(cancel, k, NoCancel) /\ UNCHANGED cancelWorker
    /\ UNCHANGED <<source, mutex, sessionVars, sessionStop, workerVars, serverVars,
                   stopperVars>>

\* worker.requestStop()
RequestWorkerStop(k) ==
    /\ At(k, "request")
    /\ workerStop' = Set(workerStop, k, TRUE)
    /\ IF notify[k] = "armed"
       THEN notify' = Set(notify, k, "claimed") /\ CancelGoes(k, "notify")
       ELSE CancelGoes(k, "end") /\ UNCHANGED notify
    /\ UNCHANGED <<source, mutex, sessionVars, sessionStop, cancelWorker, worker, cursor,
                   event, serverVars, stopperVars>>

\* The wait may have unregistered its callback by now.
BeginNotify(k) ==
    /\ At(k, "notify")
    /\ IF notify[k] = "claimed"
       THEN notify' = Set(notify, k, "running") /\ CancelGoes(k, "wake")
       ELSE CancelGoes(k, "end") /\ UNCHANGED notify
    /\ UNCHANGED <<source, mutex, sessionVars, sessionStop, cancelWorker, worker,
                   workerStop, cursor, event, serverVars, stopperVars>>

WithMutex(k) == mutex[KindOf(k)] = NoClient

RunNotify(k) ==
    /\ At(k, "wake") /\ WithMutex(k)
    /\ worker' = Woken(KindOf(k))
    /\ notify' = Set(notify, k, "none")
    /\ CancelGoes(k, "end")
    /\ UNCHANGED <<source, mutex, sessionVars, sessionStop, cancelWorker, workerStop,
                   cursor, event, serverVars, stopperVars>>

EndCancel(k) ==
    /\ At(k, "end")
    /\ cancelWorker' = Set(cancelWorker, k, "none")
    /\ cancel' = Set(cancel, k, NoCancel)
    /\ UNCHANGED <<source, mutex, sessionVars, sessionStop, workerVars, serverVars,
                   stopperVars>>

Canceling(k) ==
    BeginCancel(k) \/ RequestWorkerStop(k) \/ BeginNotify(k) \/ RunNotify(k) \/ EndCancel(k)

-------------------------------------------------------------------------------
(* The worker (streamFrames, streamPreviews).                               *)

WorkerGoes(k, step) == worker' = Set(worker, k, step)

BeginWait(k) ==
    /\ worker[k] = "top"
    /\ IF workerStop[k] THEN WorkerGoes(k, "closing") /\ UNCHANGED notify
       ELSE WorkerGoes(k, "check") /\ notify' = Set(notify, k, "armed")
    /\ UNCHANGED <<source, mutex, sessionVars, stopVars, workerStop, cursor, event,
                   serverVars, stopperVars>>

Behind(k) ==
    LET s == source[KindOf(k)] IN
    s.generation # cursor[k].generation \/ s.number > cursor[k].number

\* Faulty variant: only the number of a set is looked at.
BehindNumber(k) == source[KindOf(k)].number > cursor[k].number
SomethingNew(k) == Behind(k)

\* The predicate holds; the event is taken under the mutex.
TakeEvent(k) ==
    /\ worker[k] = "check" /\ mutex[KindOf(k)] = NoClient
    /\ workerStop[k] \/ SomethingNew(k)
    /\ event' = Set(event, k, source[KindOf(k)])
    /\ WorkerGoes(k, "disarm")
    /\ UNCHANGED <<source, mutex, sessionVars, stopVars, workerStop, notify, cursor,
                   serverVars, stopperVars>>

\* It does not: the worker holds the mutex until it sleeps.
Decline(k) ==
    /\ worker[k] = "check" /\ mutex[KindOf(k)] = NoClient
    /\ ~workerStop[k] /\ ~SomethingNew(k)
    /\ mutex' = Set(mutex, KindOf(k), k)
    /\ WorkerGoes(k, "falling")
    /\ UNCHANGED <<source, sessionVars, stopVars, workerStop, notify, cursor, event,
                   serverVars, stopperVars>>

FallAsleep(k) ==
    /\ worker[k] = "falling"
    /\ mutex' = Set(mutex, KindOf(k), NoClient)
    /\ WorkerGoes(k, "asleep")
    /\ UNCHANGED <<source, sessionVars, stopVars, workerStop, notify, cursor, event,
                   serverVars, stopperVars>>

\* The wait unregisters its callback and returns; a new generation only moves the
\* cursor, anything else is sent.
EndWait(k) ==
    /\ worker[k] = "disarm" /\ notify[k] # "running"
    /\ notify' = Set(notify, k, "none")
    /\ IF workerStop[k] THEN WorkerGoes(k, "closing") /\ UNCHANGED cursor
       ELSE IF event[k].generation # cursor[k].generation
       THEN /\ cursor' = Set(cursor, k, [generation |-> event[k].generation, number |-> 0])
            /\ WorkerGoes(k, "top")
       ELSE WorkerGoes(k, "send") /\ UNCHANGED cursor
    /\ UNCHANGED <<source, mutex, sessionVars, stopVars, workerStop, event, serverVars,
                   stopperVars>>

\* Only a send that succeeds moves the cursor.
Send(k) ==
    /\ worker[k] = "send" /\ ~closed[k]
    /\ cursor' = Set(cursor, k, event[k])
    /\ WorkerGoes(k, "top")
    /\ UNCHANGED <<source, mutex, sessionVars, stopVars, workerStop, notify, event,
                   serverVars, stopperVars>>

SendFails(k) ==
    /\ worker[k] = "send" /\ closed[k]
    /\ WorkerGoes(k, "closing")
    /\ UNCHANGED <<source, mutex, sessionVars, stopVars, workerStop, notify, cursor,
                   event, serverVars, stopperVars>>

\* Whatever ended the stream, the worker closes the socket, so the read fails.
EndStream(k) ==
    /\ worker[k] = "closing"
    /\ closed' = Set(closed, k, TRUE)
    /\ WorkerGoes(k, "ended")
    /\ UNCHANGED <<source, mutex, handler, sessions, active, socketHeld, stopVars,
                   workerStop, notify, cursor, event, serverVars, stopperVars>>

Worker(k) ==
    \/ BeginWait(k) \/ TakeEvent(k) \/ Decline(k) \/ FallAsleep(k) \/ EndWait(k)
    \/ Send(k) \/ SendFails(k) \/ EndStream(k)

-------------------------------------------------------------------------------
(* Listeners.                                                               *)

ListenerGoes(l, step) == listener' = Set(listener, l, step)

BeginListen(l) ==
    /\ listener[l] = "idle"
    /\ IF stopping THEN ListenerGoes(l, "over") /\ UNCHANGED <<pending, listening>>
       ELSE /\ listening' = listening + 1 /\ pending' = pending + 1
            /\ ListenerGoes(l, "begun")
    /\ UNCHANGED <<source, mutex, sessionVars, stopVars, workerVars, stopping, stopperVars>>

\* httplib's start handler: from here on Server::stop is heard.
ListenerStarted(l) ==
    /\ listener[l] = "begun"
    /\ pending' = IF pending > 0 THEN pending - 1 ELSE 0
    /\ ListenerGoes(l, "serving")
    /\ UNCHANGED <<source, mutex, sessionVars, stopVars, workerVars, listening, stopping,
                   stopperVars>>

\* The address cannot be bound.
ListenFails(l) ==
    /\ listener[l] = "begun" /\ ListenerGoes(l, "returned")
    /\ UNCHANGED <<source, mutex, sessionVars, stopVars, workerVars, pending, listening,
                   stopping, stopperVars>>

\* httplib returns when it no longer serves and its handlers are done.
ListenReturns(l) ==
    /\ listener[l] = "closing" /\ \A k \in Clients : handler[k] \in {"away", "gone"}
    /\ ListenerGoes(l, "returned")
    /\ UNCHANGED <<source, mutex, sessionVars, stopVars, workerVars, pending, listening,
                   stopping, stopperVars>>

FinishListen(l) ==
    /\ listener[l] = "returned"
    /\ pending' = IF pending > 0 THEN pending - 1 ELSE 0
    /\ listening' = listening - 1
    /\ ListenerGoes(l, "over")
    /\ UNCHANGED <<source, mutex, sessionVars, stopVars, workerVars, stopping, stopperVars>>

\* A listener comes when it likes; one that has begun goes on.
Listener(l) ==
    ListenerStarted(l) \/ ListenFails(l) \/ ListenReturns(l) \/ FinishListen(l)

-------------------------------------------------------------------------------
(* WebApi::stop.                                                            *)

StopperGoes(step) == stopper' = step

\* requestStop: no more sessions, and those there are one by one.
BeginStop ==
    /\ stopper = "idle" /\ StopperGoes("sessions")
    /\ stopping' = TRUE /\ todo' = sessions
    /\ UNCHANGED <<source, mutex, sessionVars, stopVars, workerVars, listener, pending,
                   listening, current>>

StopSession(k) ==
    /\ stopper = "sessions" /\ k \in todo
    /\ todo' = todo \ {k} /\ current' = k
    /\ Requests(k, "stop")
    /\ StopperGoes("canceling")
    /\ UNCHANGED <<source, mutex, sessionVars, workerVars, serverVars>>

\* With the callback done, the socket is looked at under its mutex ...
HoldSocket ==
    /\ stopper = "canceling" /\ cancel[current].by # "stop"
    /\ IF handler[current] \in {"leaving", "gone"}
       THEN StopperGoes("sessions") /\ current' = NoClient /\ UNCHANGED socketHeld
       ELSE StopperGoes("closing") /\ socketHeld' = Set(socketHeld, current, TRUE)
            /\ UNCHANGED current
    /\ UNCHANGED <<source, mutex, handler, sessions, active, closed, stopVars, workerVars,
                   serverVars, todo>>

\* ... and closed.
CloseSocket ==
    /\ stopper = "closing"
    /\ closed' = Set(closed, current, TRUE)
    /\ socketHeld' = Set(socketHeld, current, FALSE)
    /\ StopperGoes("sessions") /\ current' = NoClient
    /\ UNCHANGED <<source, mutex, handler, sessions, active, stopVars, workerVars,
                   serverVars, todo>>

\* Faulty variant: stop does not wait for a listener that has begun.
AnyPending == TRUE
NonePending == pending = 0

\* waitUntilListenerStarted, then Server::stop, which only a listener that serves
\* hears.
StopServer ==
    /\ stopper = "sessions" /\ todo = {} /\ NonePending
    /\ listener' = [l \in Listeners |->
           IF listener[l] = "serving" THEN "closing" ELSE listener[l]]
    /\ StopperGoes("waiting")
    /\ UNCHANGED <<source, mutex, sessionVars, stopVars, workerVars, pending, listening,
                   stopping, todo, current>>

StopReturns ==
    /\ stopper = "waiting" /\ listening = 0 /\ active = 0
    /\ StopperGoes("returned")
    /\ UNCHANGED <<source, mutex, sessionVars, stopVars, workerVars, serverVars, todo,
                   current>>

Stopper ==
    (\E k \in Clients : StopSession(k)) \/ HoldSocket \/ CloseSocket \/ StopServer
        \/ StopReturns

-------------------------------------------------------------------------------
Init ==
    /\ source = [kind \in Kinds |->
           [generation |-> IF kind = "Complete" THEN 1 ELSE 0, number |-> 0]]
    /\ mutex = [kind \in Kinds |-> NoClient]
    /\ handler = [k \in Clients |-> "away"] /\ sessions = {} /\ active = 0
    /\ socketHeld = [k \in Clients |-> FALSE] /\ closed = [k \in Clients |-> FALSE]
    /\ sessionStop = [k \in Clients |-> FALSE]
    /\ cancelWorker = [k \in Clients |-> "none"] /\ cancel = [k \in Clients |-> NoCancel]
    /\ worker = [k \in Clients |-> "none"] /\ workerStop = [k \in Clients |-> FALSE]
    /\ notify = [k \in Clients |-> "none"]
    /\ cursor = [k \in Clients |-> [generation |-> 0, number |-> 0]] /\ event = cursor
    /\ listener = [l \in Listeners |-> "idle"] /\ pending = 0 /\ listening = 0
    /\ stopping = FALSE
    /\ stopper = "idle" /\ todo = {} /\ current = NoClient

Next ==
    \/ \E kind \in Kinds : NextEvent(kind)
    \/ NextGeneration
    \/ \E k \in Clients : Connect(k) \/ PeerCloses(k)
    \/ \E k \in Clients : Handler(k) \/ Canceling(k) \/ Worker(k)
    \/ \E l \in Listeners : BeginListen(l) \/ Listener(l)
    \/ BeginStop \/ Stopper

Spec == Init /\ [][Next]_vars

\* Every thread that has begun goes on; nothing makes clients, events, listeners or
\* stop come.
FairSpec ==
    /\ Spec
    /\ \A k \in Clients : WF_vars(Handler(k)) /\ WF_vars(Canceling(k)) /\ WF_vars(Worker(k))
    /\ \A l \in Listeners : WF_vars(Listener(l))
    /\ WF_vars(Stopper)

-------------------------------------------------------------------------------
(* Properties.                                                              *)

HandlerSteps == {"away", "connected", "rejected", "starting", "arming", "canceled",
                 "reading", "joining", "disarming", "releasing", "leaving", "gone"}
WorkerSteps == {"none", "top", "check", "falling", "asleep", "disarm", "send", "closing",
                "ended"}
Positions == [generation : 0..MaxGeneration, number : 0..MaxEvents]

\* Types; the registry never holds more than its maximum of sessions.
TypeOK ==
    /\ source \in [Kinds -> Positions] /\ mutex \in [Kinds -> Clients \cup {NoClient}]
    /\ handler \in [Clients -> HandlerSteps]
    /\ sessions \subseteq Clients /\ Cardinality(sessions) <= MaxSessions
    /\ active \in Nat
    /\ socketHeld \in [Clients -> BOOLEAN] /\ closed \in [Clients -> BOOLEAN]
    /\ sessionStop \in [Clients -> BOOLEAN] /\ workerStop \in [Clients -> BOOLEAN]
    /\ cancelWorker \in [Clients -> {"none", "armed", "claimed", "running"}]
    /\ notify \in [Clients -> {"none", "armed", "claimed", "running"}]
    /\ cancel \in [Clients -> [by : {"nobody", "handler", "stop"},
                               step : {"none", "begin", "request", "notify", "wake", "end"}]]
    /\ worker \in [Clients -> WorkerSteps]
    /\ cursor \in [Clients -> Positions] /\ event \in [Clients -> Positions]
    /\ listener \in [Listeners -> {"idle", "begun", "serving", "closing", "returned", "over"}]
    /\ pending \in Nat /\ listening \in Nat /\ stopping \in BOOLEAN
    /\ stopper \in {"idle", "sessions", "canceling", "closing", "waiting", "returned"}
    /\ todo \subseteq Clients /\ current \in Clients \cup {NoClient}

\* Nothing is used after the handler that owns it has let it go: not the worker by
\* a cancelWorker that runs elsewhere (display_frame_stream.cpp:160), not the socket
\* by its worker or by stop (display_frame_stream_internal.hpp:24), and not the
\* server by anything once stop has returned (web_api.cpp:109).
NothingOutlivesItsOwner ==
    /\ \A k \in Clients :
        /\ cancel[k].step \in {"request", "notify", "wake"} =>
               handler[k] \notin {"releasing", "leaving", "gone"}
        /\ worker[k] \notin {"none", "ended"} =>
               handler[k] \notin {"releasing", "leaving", "gone"}
    /\ stopper = "closing" => handler[current] \notin {"leaving", "gone"}
    /\ stopper = "returned" =>
           /\ \A k \in Clients : handler[k] \in {"away", "gone"}
           /\ \A l \in Listeners : listener[l] \in {"idle", "over"}

\* stop returns, whatever the listener, the handlers and the peers are doing: no
\* wake-up is lost between a predicate and its sleep, no callback waits for a mutex
\* its waiter holds, and no listener misses Server::stop (web_api.cpp:214).
ShutdownReturns == (stopper = "sessions") ~> (stopper = "returned")

\* A client whose session lives is sent the newest event, the first one after a
\* change of generation included, unless its connection ends.
StreamCatchesUp ==
    \A k \in Clients :
        (worker[k] \notin {"none", "ended"} /\ Behind(k)) ~> (~Behind(k) \/ closed[k])
===============================================================================
