------------------------- MODULE DisplayStreams_proofs -------------------------
(***************************************************************************)
(* Shutdown leaves nothing behind, for any clients and listeners.          *)
(*                                                                         *)
(* NothingOutlivesItsOwner is not inductive.  StreamInv adds where worker, *)
(* callback and session are for each place of the handler (ClientStands),  *)
(* that both counters count what they are for (CountsAgree), that a        *)
(* handler has a listener that waits for it (HandlersServed), and what     *)
(* stop knows of the session it looks at (StopperStands).                  *)
(***************************************************************************)
EXTENDS DisplayStreams, FiniteSetTheorems, TLAPS

Before == {"away", "connected", "rejected"}    \* no session was registered
After == {"releasing", "leaving", "gone"}      \* it has let its worker go

ClientStands(k) ==
    /\ handler[k] \in Before \cup {"starting"} => worker[k] = "none"
    /\ handler[k] = "disarming" => worker[k] = "ended"
    /\ handler[k] \in After => worker[k] \in {"none", "ended"}
    /\ handler[k] \in Before \cup After \cup {"starting", "arming"} => cancelWorker[k] = "none"
    /\ cancel[k].step \in {"request", "notify", "wake", "end"} => cancelWorker[k] = "running"
    /\ k \in sessions => handler[k] \notin Before \cup {"gone"}

ClientsStand == \A k \in Clients : ClientStands(k)

Active == {k \in Clients : handler[k] \notin {"away", "connected", "gone"}}
Open == {l \in Listeners : listener[l] \in {"begun", "serving", "closing", "returned"}}
CountsAgree == active = Cardinality(Active) /\ listening = Cardinality(Open)

\* httplib returns from a listener only when its handlers have.
HandlersServed ==
    (\E k \in Clients : handler[k] \notin {"away", "gone"}) =>
        \E l \in Listeners : listener[l] \in {"serving", "closing"}

StopperStands ==
    /\ stopper # "idle" => stopping
    /\ \A k \in todo : handler[k] \notin Before
    /\ stopper \in {"canceling", "closing"} =>
           current \in Clients /\ handler[current] \notin Before
    /\ stopper = "closing" => socketHeld[current] /\ handler[current] \notin {"leaving", "gone"}
    /\ stopper = "returned" =>
           /\ \A k \in Clients : handler[k] \in {"away", "gone"}
           /\ \A l \in Listeners : listener[l] \in {"idle", "over"}

-------------------------------------------------------------------------------
(* Types.                                                                   *)

\* TypeOK without the counters, which rest on who is counted.
Streams ==
    /\ source \in [Kinds -> Positions] /\ mutex \in [Kinds -> Clients \cup {NoClient}]
    /\ worker \in [Clients -> WorkerSteps]
    /\ notify \in [Clients -> {"none", "armed", "claimed", "running"}]
    /\ workerStop \in [Clients -> BOOLEAN]
    /\ cursor \in [Clients -> Positions] /\ event \in [Clients -> Positions]
Cancels ==
    /\ sessionStop \in [Clients -> BOOLEAN]
    /\ cancelWorker \in [Clients -> {"none", "armed", "claimed", "running"}]
    /\ cancel \in [Clients -> [by : {"nobody", "handler", "stop"},
                               step : {"none", "begin", "request", "notify", "wake", "end"}]]
Handlers ==
    /\ handler \in [Clients -> HandlerSteps]
    /\ sessions \subseteq Clients /\ Cardinality(sessions) <= MaxSessions
    /\ socketHeld \in [Clients -> BOOLEAN] /\ closed \in [Clients -> BOOLEAN]
Server ==
    /\ listener \in [Listeners -> {"idle", "begun", "serving", "closing", "returned", "over"}]
    /\ pending \in Nat /\ stopping \in BOOLEAN
    /\ stopper \in {"idle", "sessions", "canceling", "closing", "waiting", "returned"}
    /\ todo \subseteq Clients /\ current \in Clients \cup {NoClient}

LEMMA TypeParts ==
  TypeOK <=> /\ Streams /\ Cancels /\ Handlers /\ Server
             /\ active \in Nat /\ listening \in Nat
BY DEF TypeOK, Streams, Cancels, Handlers, Server

LEMMA CountsTyped ==
  /\ CountsAgree => active \in Nat /\ listening \in Nat
  /\ IsFiniteSet(Active) /\ IsFiniteSet(Open)
<1>1. IsFiniteSet(Active) /\ IsFiniteSet(Open)
  BY StreamAssumption, FS_Subset DEF Active, Open
<1>2. QED
  BY <1>1, FS_CardinalityType DEF CountsAgree

\* The inductive invariant; with the counters' values (CountsTyped) it has TypeOK.
StreamInv ==
    /\ Streams /\ Cancels /\ Handlers /\ Server
    /\ ClientsStand /\ CountsAgree /\ HandlersServed /\ StopperStands

\* What a step leaves alone.
LEMMA CountsKept ==
  ASSUME CountsAgree, HandlersServed,
         UNCHANGED <<handler, active, listener, listening>>
  PROVE  CountsAgree' /\ HandlersServed'
BY DEF CountsAgree, HandlersServed, Active, Open

LEMMA CancelsKept == Cancels /\ UNCHANGED stopVars => Cancels'
BY DEF Cancels, stopVars

LEMMA StreamsKept == Streams /\ UNCHANGED <<source, mutex, workerVars>> => Streams'
BY DEF Streams, workerVars

LEMMA HandlersKept ==
  Handlers /\ UNCHANGED <<handler, sessions, socketHeld, closed>> => Handlers'
BY DEF Handlers

LEMMA ServerKept == Server /\ UNCHANGED <<serverVars, stopperVars>> => Server'
BY DEF Server, serverVars, stopperVars

LEMMA StopperKept ==
  StopperStands /\ UNCHANGED <<handler, socketHeld, serverVars, stopperVars>> => StopperStands'
BY DEF StopperStands, serverVars, stopperVars

LEMMA ClientsKept ==
  ClientsStand /\ UNCHANGED <<handler, sessions, stopVars, worker>> => ClientsStand'
BY DEF ClientsStand, ClientStands, stopVars

-------------------------------------------------------------------------------
(* The sources and the workers.                                             *)

\* The worker goes on as one that was started and has not ended, or has.
LEMMA WorkersKeep ==
  ASSUME StreamInv, Streams',
         UNCHANGED <<handler, sessions, active, socketHeld, stopVars, serverVars, stopperVars>>,
         closed' \in [Clients -> BOOLEAN],
         \A k \in Clients : /\ worker[k] = "none" => worker'[k] = "none"
                            /\ worker[k] = "ended" => worker'[k] = "ended"
  PROVE  StreamInv'
<1>1. Cancels' /\ Server' /\ StopperStands' /\ CountsAgree' /\ HandlersServed'
  BY CancelsKept, ServerKept, StopperKept, CountsKept DEF StreamInv, serverVars
<1>2. Handlers'
  BY DEF StreamInv, Handlers
<1>3. ClientsStand'
  BY DEF StreamInv, ClientsStand, ClientStands, stopVars
<1>4. QED
  BY <1>1, <1>2, <1>3 DEF StreamInv

LEMMA WokenTyped ==
  ASSUME Streams, NEW kind
  PROVE  /\ Woken(kind) \in [Clients -> WorkerSteps]
         /\ \A k \in Clients : /\ worker[k] = "none" => Woken(kind)[k] = "none"
                               /\ worker[k] = "ended" => Woken(kind)[k] = "ended"
BY DEF Streams, Woken, WorkerSteps

LEMMA UpdateKeeps ==
  ASSUME StreamInv, NEW kind \in Kinds, NEW value \in Positions, Update(kind, value)
  PROVE  StreamInv'
<1>1. Streams /\ worker' = Woken(kind) /\ source' = [source EXCEPT ![kind] = value]
  BY DEF StreamInv, Update, Set
<1>2. Streams'
  BY <1>1, WokenTyped DEF Update, Streams
<1>3. closed' \in [Clients -> BOOLEAN]
  BY DEF StreamInv, Handlers, Update, sessionVars
<1>4. QED
  BY <1>1, <1>2, <1>3, WokenTyped, WorkersKeep
  DEF Update, sessionVars, stopVars, serverVars, stopperVars

LEMMA SourcesKeep ==
  ASSUME StreamInv, (\E kind \in Kinds : NextEvent(kind)) \/ NextGeneration
  PROVE  StreamInv'
<1>1. \A kind \in Kinds : source[kind] \in Positions
  BY DEF StreamInv, Streams
<1>2. ASSUME NEW kind \in Kinds, NextEvent(kind) PROVE StreamInv'
  <2>1. [source[kind] EXCEPT !.number = @ + 1] \in Positions
    BY <1>1, <1>2, StreamAssumption DEF NextEvent, Positions
  <2>2. QED
    BY <1>2, <2>1, UpdateKeeps DEF NextEvent
<1>3. ASSUME NextGeneration PROVE StreamInv'
  <2>1. "Complete" \in Kinds
    BY DEF Kinds
  <2>2. [generation |-> source["Complete"].generation + 1, number |-> 0] \in Positions
    BY <1>1, <1>3, <2>1, StreamAssumption DEF NextGeneration, Positions
  <2>3. QED
    BY <1>3, <2>1, <2>2, UpdateKeeps DEF NextGeneration
<1>4. QED
  BY <1>2, <1>3

LEMMA KindTyped == \A k \in Clients : KindOf(k) \in Kinds
BY DEF KindOf, Kinds

LEMMA WorkerKeeps ==
  ASSUME StreamInv, NEW k \in Clients, Worker(k) PROVE StreamInv'
<1>1. Streams /\ KindOf(k) \in Kinds /\ closed \in [Clients -> BOOLEAN]
  BY KindTyped DEF StreamInv, Handlers
<1>2. Streams'
  <2>1. CASE BeginWait(k)
    BY <1>1, <2>1 DEF BeginWait, Streams, WorkerGoes, Set, WorkerSteps
  <2>2. CASE TakeEvent(k)
    BY <1>1, <2>2 DEF TakeEvent, Streams, WorkerGoes, Set, WorkerSteps
  <2>3. CASE Decline(k)
    BY <1>1, <2>3 DEF Decline, Streams, WorkerGoes, Set, WorkerSteps
  <2>4. CASE FallAsleep(k)
    BY <1>1, <2>4 DEF FallAsleep, Streams, WorkerGoes, Set, WorkerSteps
  <2>5. CASE EndWait(k)
    <3>1. [generation |-> event[k].generation, number |-> 0] \in Positions
      BY <1>1, StreamAssumption DEF Streams, Positions
    <3>2. cursor' \in [Clients -> Positions]
      BY <1>1, <2>5, <3>1 DEF EndWait, Streams, Set
    <3>3. QED
      BY <1>1, <2>5, <3>2 DEF EndWait, Streams, WorkerGoes, Set, WorkerSteps
  <2>6. CASE Send(k) \/ SendFails(k)
    BY <1>1, <2>6 DEF Send, SendFails, Streams, WorkerGoes, Set, WorkerSteps
  <2>7. CASE EndStream(k)
    BY <1>1, <2>7 DEF EndStream, Streams, WorkerGoes, Set, WorkerSteps
  <2>8. QED
    BY <2>1, <2>2, <2>3, <2>4, <2>5, <2>6, <2>7 DEF Worker
<1>3. closed' \in [Clients -> BOOLEAN]
  BY <1>1 DEF Worker, BeginWait, TakeEvent, Decline, FallAsleep, EndWait, Send, SendFails,
              EndStream, sessionVars, Set
<1>4. /\ worker[k] \notin {"none", "ended"}
      /\ \A q \in Clients \ {k} : worker'[q] = worker[q]
  BY <1>1 DEF Worker, BeginWait, TakeEvent, Decline, FallAsleep, EndWait, Send, SendFails,
              EndStream, WorkerGoes, Set, Streams
<1>5. UNCHANGED <<handler, sessions, active, socketHeld, stopVars, serverVars, stopperVars>>
  BY DEF Worker, BeginWait, TakeEvent, Decline, FallAsleep, EndWait, Send, SendFails,
         EndStream, sessionVars
<1>6. QED
  BY <1>2, <1>3, <1>4, <1>5, WorkersKeep

LEMMA PeerKeeps ==
  ASSUME StreamInv, NEW k \in Clients, PeerCloses(k) PROVE StreamInv'
<1>1. closed' \in [Clients -> BOOLEAN]
  BY DEF StreamInv, Handlers, PeerCloses, Set
<1>2. Streams'
  BY StreamsKept DEF StreamInv, PeerCloses
<1>3. QED
  BY <1>1, <1>2, WorkersKeep DEF PeerCloses, workerVars

-------------------------------------------------------------------------------
(* Callbacks.                                                               *)

\* The thread inside cancelWorker, at any of its steps.
LEMMA CancelingKeeps ==
  ASSUME StreamInv, NEW k \in Clients, Canceling(k) PROVE StreamInv'
<1>1. /\ UNCHANGED <<handler, sessions, active, socketHeld, closed, sessionStop, source, mutex,
                     cursor, event, serverVars, stopperVars>>
  BY DEF Canceling, BeginCancel, RequestWorkerStop, BeginNotify, RunNotify, EndCancel,
         sessionVars, workerVars
<1>2. Streams'
  <2>1. CASE BeginCancel(k) \/ EndCancel(k)
    BY <2>1, StreamsKept DEF StreamInv, BeginCancel, EndCancel
  <2>2. CASE RequestWorkerStop(k)
    BY <2>2 DEF StreamInv, Streams, RequestWorkerStop, Set
  <2>5. CASE BeginNotify(k)
    BY <2>5 DEF StreamInv, Streams, BeginNotify, Set
  <2>3. CASE RunNotify(k)
    BY <2>3, WokenTyped DEF StreamInv, Streams, RunNotify, Set
  <2>4. QED
    BY <2>1, <2>2, <2>3, <2>5 DEF Canceling
<1>3. Cancels'
  <2>1. Cancels /\ NoCancel \in [by : {"nobody", "handler", "stop"},
            step : {"none", "begin", "request", "notify", "wake", "end"}]
    BY DEF StreamInv, NoCancel
  <2>2. CASE BeginCancel(k)
    <3>1. CASE cancelWorker[k] = "claimed"
      <4>1. /\ cancel' = [cancel EXCEPT ![k].step = "request"]
            /\ cancelWorker' = Set(cancelWorker, k, "running")
            /\ sessionStop' = sessionStop
        BY <2>2, <3>1 DEF BeginCancel, CancelGoes, stopVars, sessionVars
      <4>2. cancelWorker' \in [Clients -> {"none", "armed", "claimed", "running"}]
        BY <2>1, <4>1 DEF Cancels, Set
      <4>3. QED
        BY <2>1, <4>1, <4>2 DEF Cancels
    <3>2. CASE cancelWorker[k] # "claimed"
      BY <2>1, <2>2, <3>2 DEF Cancels, BeginCancel, Set
    <3>3. QED
      BY <3>1, <3>2
  <2>3. CASE RequestWorkerStop(k)
    BY <2>1, <2>3 DEF Cancels, RequestWorkerStop, CancelGoes, Set
  <2>4. CASE BeginNotify(k)
    BY <2>1, <2>4 DEF Cancels, BeginNotify, CancelGoes, Set
  <2>5. CASE RunNotify(k)
    BY <2>1, <2>5 DEF Cancels, RunNotify, CancelGoes, Set
  <2>6. CASE EndCancel(k)
    BY <2>1, <2>6 DEF Cancels, EndCancel, Set
  <2>7. QED
    BY <2>2, <2>3, <2>4, <2>5, <2>6 DEF Canceling
<1>4. /\ \A q \in Clients \ {k} : cancel'[q] = cancel[q] /\ cancelWorker'[q] = cancelWorker[q]
      /\ cancel'[k].step \in {"request", "notify", "wake", "end"} => cancelWorker'[k] = "running"
      /\ cancelWorker[k] = "none" => cancelWorker'[k] = "none"
  <2>1. /\ cancel[k].step \in {"request", "notify", "wake", "end"} => cancelWorker[k] = "running"
        /\ cancel \in [Clients -> [by : {"nobody", "handler", "stop"},
               step : {"none", "begin", "request", "notify", "wake", "end"}]]
        /\ cancelWorker \in [Clients -> {"none", "armed", "claimed", "running"}]
    BY DEF StreamInv, ClientsStand, ClientStands, Cancels
  <2>2. CASE BeginCancel(k)
    BY <2>1, <2>2 DEF BeginCancel, CancelGoes, Set, NoCancel
  <2>3. CASE RequestWorkerStop(k)
    BY <2>1, <2>3 DEF RequestWorkerStop, CancelGoes, Set, At
  <2>4. CASE BeginNotify(k)
    BY <2>1, <2>4 DEF BeginNotify, CancelGoes, Set, At
  <2>5. CASE RunNotify(k)
    BY <2>1, <2>5 DEF RunNotify, CancelGoes, Set, At
  <2>6. CASE EndCancel(k)
    BY <2>1, <2>6 DEF EndCancel, Set, NoCancel
  <2>7. QED
    BY <2>2, <2>3, <2>4, <2>5, <2>6 DEF Canceling
<1>5. \A q \in Clients : /\ worker[q] = "none" => worker'[q] = "none"
                         /\ worker[q] = "ended" => worker'[q] = "ended"
  BY WokenTyped DEF StreamInv, Canceling, BeginCancel, RequestWorkerStop, BeginNotify, RunNotify,
     EndCancel, workerVars
<1>6. ClientsStand'
  <2>1. SUFFICES ASSUME NEW q \in Clients PROVE ClientStands(q)'
    BY DEF ClientsStand
  <2>2. ClientStands(q) /\ worker[q] \in WorkerSteps
    BY DEF StreamInv, ClientsStand, Streams
  <2>3. CASE q = k
    BY <1>1, <1>4, <1>5, <2>2, <2>3 DEF ClientStands
  <2>4. CASE q # k
    BY <1>1, <1>4, <1>5, <2>2, <2>4 DEF ClientStands
  <2>5. QED
    BY <2>3, <2>4
<1>7. Handlers' /\ Server' /\ StopperStands' /\ CountsAgree' /\ HandlersServed'
  BY <1>1, HandlersKept, ServerKept, StopperKept, CountsKept DEF StreamInv, serverVars
<1>8. QED
  BY <1>2, <1>3, <1>6, <1>7 DEF StreamInv

-------------------------------------------------------------------------------
(* Listeners.                                                               *)

LEMMA OpenCounts ==
  ASSUME StreamInv, NEW l \in Listeners, NEW step, ListenerGoes(l, step)
  PROVE  /\ listener[l] \notin {"begun", "serving", "closing", "returned"}
                /\ step \in {"begun", "serving", "closing", "returned"} =>
                Cardinality(Open') = Cardinality(Open) + 1
         /\ listener[l] \in {"begun", "serving", "closing", "returned"}
                /\ step \notin {"begun", "serving", "closing", "returned"} =>
                Cardinality(Open') = Cardinality(Open) - 1
         /\ (listener[l] \in {"begun", "serving", "closing", "returned"}
                <=> step \in {"begun", "serving", "closing", "returned"}) => Open' = Open
<1>1. /\ listener'[l] = step /\ \A m \in Listeners \ {l} : listener'[m] = listener[m]
  BY DEF ListenerGoes, Set, StreamInv, Server
<1>2. ASSUME listener[l] \notin {"begun", "serving", "closing", "returned"},
             step \in {"begun", "serving", "closing", "returned"}
      PROVE  Open' = Open \cup {l} /\ l \notin Open
  BY <1>1, <1>2 DEF Open
<1>3. ASSUME listener[l] \in {"begun", "serving", "closing", "returned"},
             step \notin {"begun", "serving", "closing", "returned"}
      PROVE  Open' = Open \ {l} /\ l \in Open
  BY <1>1, <1>3 DEF Open
<1>4. ASSUME listener[l] \in {"begun", "serving", "closing", "returned"}
                <=> step \in {"begun", "serving", "closing", "returned"}
      PROVE  Open' = Open
  BY <1>1, <1>4 DEF Open
<1> HIDE DEF Open
<1>5. \A x : x \notin Open => Cardinality(Open \cup {x}) = Cardinality(Open) + 1
  BY CountsTyped, FS_AddElement
<1>6. \A x : x \in Open => Cardinality(Open \ {x}) = Cardinality(Open) - 1
  BY CountsTyped, FS_RemoveElement
<1>7. QED
  BY <1>2, <1>3, <1>4, <1>5, <1>6

\* What a listener's step leaves alone, and what it needs of the rest.
LEMMA ListenersKeep ==
  ASSUME StreamInv, Server', UNCHANGED <<source, mutex, sessionVars, stopVars, workerVars,
                                     stopping, stopperVars>>,
         listening' = Cardinality(Open'),
         \A l \in Listeners : listener[l] \in {"serving", "closing"} =>
             \/ listener'[l] \in {"serving", "closing"}
             \/ \A k \in Clients : handler[k] \in {"away", "gone"},
         stopping => \A l \in Listeners : listener[l] \in {"idle", "over"} =>
             listener'[l] \in {"idle", "over"}
  PROVE  StreamInv'
<1>1. Streams' /\ Cancels' /\ Handlers' /\ ClientsStand'
  BY StreamsKept, CancelsKept, HandlersKept, ClientsKept DEF StreamInv, sessionVars, workerVars
<1>2. CountsAgree'
  BY DEF StreamInv, CountsAgree, Active, Open, sessionVars
<1>3. HandlersServed'
  BY DEF StreamInv, HandlersServed, sessionVars
<1>4. StopperStands'
  BY DEF StreamInv, StopperStands, sessionVars, stopperVars
<1>5. QED
  BY <1>1, <1>2, <1>3, <1>4 DEF StreamInv

LEMMA BeginListenKeeps ==
  ASSUME StreamInv, NEW l \in Listeners, BeginListen(l) PROVE StreamInv'
<1>1. /\ Server /\ listening = Cardinality(Open) /\ listening \in Nat
      /\ listener[l] = "idle"
  BY CountsTyped DEF StreamInv, CountsAgree, BeginListen
<1>2. Server'
  BY <1>1 DEF BeginListen, ListenerGoes, Set, Server, stopperVars
<1>3. listening' = Cardinality(Open')
  BY <1>1, OpenCounts DEF BeginListen
<1>4. /\ listener'[l] \in {"over", "begun"}
      /\ stopping => listener'[l] = "over"
      /\ \A m \in Listeners \ {l} : listener'[m] = listener[m]
  BY <1>1 DEF BeginListen, ListenerGoes, Set, Server
<1>5. QED
  BY <1>1, <1>2, <1>3, <1>4, ListenersKeep DEF BeginListen

LEMMA ListenerKeeps ==
  ASSUME StreamInv, NEW l \in Listeners, Listener(l) PROVE StreamInv'
<1>1. /\ Server /\ listening = Cardinality(Open) /\ listening \in Nat
  BY CountsTyped DEF StreamInv, CountsAgree
<1>2. Server'
  BY <1>1 DEF Listener, ListenerStarted, ListenFails, ListenReturns, FinishListen,
              ListenerGoes, Set, Server, stopperVars
<1>3. listening' = Cardinality(Open')
  <2>1. CASE ListenerStarted(l)
    BY <1>1, <2>1, OpenCounts DEF ListenerStarted
  <2>2. CASE ListenFails(l)
    BY <1>1, <2>2, OpenCounts DEF ListenFails
  <2>3. CASE ListenReturns(l)
    BY <1>1, <2>3, OpenCounts DEF ListenReturns
  <2>4. CASE FinishListen(l)
    BY <1>1, <2>4, OpenCounts DEF FinishListen
  <2>5. QED
    BY <2>1, <2>2, <2>3, <2>4 DEF Listener
<1>4. /\ listener[l] \notin {"idle", "over"}
      /\ listener[l] \in {"serving", "closing"} =>
             \A k \in Clients : handler[k] \in {"away", "gone"}
      /\ \A m \in Listeners \ {l} : listener'[m] = listener[m]
  BY <1>1 DEF Listener, ListenerStarted, ListenFails, ListenReturns, FinishListen,
              ListenerGoes, Set, Server
<1>5. UNCHANGED <<source, mutex, sessionVars, stopVars, workerVars, stopping, stopperVars>>
  BY DEF Listener, ListenerStarted, ListenFails, ListenReturns, FinishListen
<1>6. QED
  BY <1>2, <1>3, <1>4, <1>5, ListenersKeep

-------------------------------------------------------------------------------
(* stop.                                                                    *)

\* A session is asked to stop; the callback is armed only while it may run.
LEMMA RequestsClaim ==
  ASSUME StreamInv, NEW k \in Clients, NEW by \in {"handler", "stop"}, Requests(k, by)
  PROVE  /\ Cancels'
         /\ \A q \in Clients \ {k} : cancel'[q] = cancel[q] /\ cancelWorker'[q] = cancelWorker[q]
         /\ cancelWorker[k] = "none" => cancelWorker'[k] = "none"
         /\ cancel'[k].step \in {"request", "notify", "wake", "end"} =>
                cancelWorker'[k] = "running"
<1>1. /\ Cancels
      /\ cancel[k].step \in {"request", "notify", "wake", "end"} => cancelWorker[k] = "running"
  BY DEF StreamInv, ClientsStand, ClientStands
<1>2. sessionStop' = [sessionStop EXCEPT ![k] = TRUE]
  BY DEF Requests, Set
<1>3. CASE ~sessionStop[k] /\ cancelWorker[k] = "armed"
  <2> DEFINE record == [by |-> by, step |-> "begin"]
  <2>1. /\ cancelWorker' = [cancelWorker EXCEPT ![k] = "claimed"]
        /\ cancel' = [cancel EXCEPT ![k] = record]
    BY <1>3 DEF Requests, Set
  <2>2. /\ record.step = "begin"
        /\ record \in [by : {"nobody", "handler", "stop"},
                       step : {"none", "begin", "request", "notify", "wake", "end"}]
    OBVIOUS
  <2> HIDE DEF record
  <2>3. QED
    BY <1>1, <1>2, <1>3, <2>1, <2>2 DEF Cancels
<1>4. CASE ~(~sessionStop[k] /\ cancelWorker[k] = "armed")
  <2>1. cancelWorker' = cancelWorker /\ cancel' = cancel
    BY <1>4 DEF Requests
  <2>2. QED
    BY <1>1, <1>2, <2>1 DEF Cancels
<1>5. QED
  BY <1>3, <1>4

LEMMA BeginStopKeeps ==
  ASSUME StreamInv, BeginStop PROVE StreamInv'
<1>1. Streams' /\ Cancels' /\ Handlers' /\ ClientsStand'
  BY StreamsKept, CancelsKept, HandlersKept, ClientsKept
  DEF StreamInv, sessionVars, workerVars, BeginStop
<1>2. Server'
  BY DEF StreamInv, Server, Handlers, BeginStop, StopperGoes, serverVars
<1>3. CountsAgree' /\ HandlersServed'
  BY CountsKept DEF StreamInv, sessionVars, BeginStop
<1>4. StopperStands'
  BY DEF StreamInv, Handlers, StopperStands, ClientsStand, ClientStands, BeginStop, StopperGoes,
         sessionVars, Before
<1>5. QED
  BY <1>1, <1>2, <1>3, <1>4 DEF StreamInv

LEMMA StopSessionKeeps ==
  ASSUME StreamInv, NEW k \in Clients, StopSession(k) PROVE StreamInv'
<1>1. Streams' /\ Handlers' /\ CountsAgree' /\ HandlersServed'
  BY StreamsKept, HandlersKept, CountsKept
  DEF StreamInv, sessionVars, workerVars, serverVars, StopSession
<1>2. Requests(k, "stop")
  BY DEF StopSession
<1>3. Cancels'
  BY <1>2, RequestsClaim
<1>4. ClientsStand'
  <2>1. SUFFICES ASSUME NEW q \in Clients PROVE ClientStands(q)'
    BY DEF ClientsStand
  <2>2. ClientStands(q) /\ UNCHANGED <<handler, sessions, worker>>
    BY DEF StreamInv, ClientsStand, StopSession, sessionVars, workerVars
  <2>3. CASE q = k
    BY <1>2, <2>2, <2>3, RequestsClaim DEF ClientStands
  <2>4. CASE q # k
    BY <1>2, <2>2, <2>4, RequestsClaim DEF ClientStands
  <2>5. QED
    BY <2>3, <2>4
<1>5. Server'
  BY DEF StreamInv, Server, StopSession, StopperGoes, serverVars
<1>6. StopperStands'
  BY DEF StreamInv, StopperStands, StopSession, StopperGoes, sessionVars, serverVars
<1>7. QED
  BY <1>1, <1>3, <1>4, <1>5, <1>6 DEF StreamInv

LEMMA SocketKeeps ==
  ASSUME StreamInv, HoldSocket \/ CloseSocket PROVE StreamInv'
<1>1. Streams' /\ Cancels' /\ ClientsStand' /\ CountsAgree' /\ HandlersServed'
  BY StreamsKept, CancelsKept, ClientsKept, CountsKept
  DEF StreamInv, workerVars, serverVars, HoldSocket, CloseSocket
<1>2. current \in Clients /\ handler[current] \notin Before
  BY DEF StreamInv, StopperStands, HoldSocket, CloseSocket
<1>3. Handlers'
  BY <1>2 DEF StreamInv, Handlers, HoldSocket, CloseSocket, Set
<1>4. Server'
  BY <1>2 DEF StreamInv, Server, HoldSocket, CloseSocket, StopperGoes, serverVars
<1>5. StopperStands'
  BY <1>2 DEF StreamInv, StopperStands, Handlers, HoldSocket, CloseSocket, StopperGoes,
              serverVars, Set
<1>6. QED
  BY <1>1, <1>3, <1>4, <1>5 DEF StreamInv

LEMMA StopServerKeeps ==
  ASSUME StreamInv, StopServer PROVE StreamInv'
<1>1. Streams' /\ Cancels' /\ Handlers' /\ ClientsStand'
  BY StreamsKept, CancelsKept, HandlersKept, ClientsKept
  DEF StreamInv, sessionVars, workerVars, StopServer
<1>2. \A l \in Listeners : listener'[l] =
          IF listener[l] = "serving" THEN "closing" ELSE listener[l]
  BY DEF StopServer
<1>3. Server'
  BY DEF StreamInv, Server, StopServer, StopperGoes
<1>4. CountsAgree'
  <2>1. Open' = Open /\ Active' = Active
    BY <1>2 DEF Open, Active, StopServer, sessionVars
  <2>2. QED
    BY <2>1 DEF StreamInv, CountsAgree, StopServer, sessionVars
<1>5. HandlersServed'
  BY <1>2 DEF StreamInv, HandlersServed, StopServer, sessionVars
<1>6. StopperStands'
  BY DEF StreamInv, StopperStands, StopServer, StopperGoes, sessionVars
<1>7. QED
  BY <1>1, <1>3, <1>4, <1>5, <1>6 DEF StreamInv

\* When both counters are 0 no listener is left and no handler that one waits for.
LEMMA StopReturnsKeeps ==
  ASSUME StreamInv, StopReturns PROVE StreamInv'
<1>1. Streams' /\ Cancels' /\ Handlers' /\ ClientsStand' /\ CountsAgree' /\ HandlersServed'
  BY StreamsKept, CancelsKept, HandlersKept, ClientsKept, CountsKept
  DEF StreamInv, sessionVars, workerVars, serverVars, StopReturns
<1>2. Server'
  BY DEF StreamInv, Server, StopReturns, StopperGoes, serverVars
<1>3. Open = {} /\ Active = {}
  BY CountsTyped, FS_EmptySet DEF StreamInv, CountsAgree, StopReturns
<1>4. \A l \in Listeners : listener[l] \in {"idle", "over"}
  BY <1>3 DEF Open, StreamInv, Server
<1>5. \A k \in Clients : handler[k] \in {"away", "gone"}
  BY <1>4 DEF StreamInv, HandlersServed
<1>6. StopperStands'
  BY <1>4, <1>5 DEF StreamInv, StopperStands, StopReturns, StopperGoes, sessionVars, serverVars
<1>7. QED
  BY <1>1, <1>2, <1>6 DEF StreamInv

-------------------------------------------------------------------------------
(* Handlers.                                                                *)

Counts == {"away", "connected", "gone"}    \* where a handler is not counted

LEMMA ActiveCounts ==
  ASSUME StreamInv, NEW k \in Clients, NEW step, Goes(k, step)
  PROVE  /\ handler[k] \in Counts /\ step \notin Counts =>
                Cardinality(Active') = Cardinality(Active) + 1
         /\ handler[k] \notin Counts /\ step \in Counts =>
                Cardinality(Active') = Cardinality(Active) - 1
         /\ (handler[k] \in Counts <=> step \in Counts) => Active' = Active
<1>1. handler'[k] = step /\ \A q \in Clients \ {k} : handler'[q] = handler[q]
  BY DEF Goes, Set, StreamInv, Handlers
<1>2. ASSUME handler[k] \in Counts, step \notin Counts
      PROVE  Active' = Active \cup {k} /\ k \notin Active
  BY <1>1, <1>2 DEF Active, Counts
<1>3. ASSUME handler[k] \notin Counts, step \in Counts
      PROVE  Active' = Active \ {k} /\ k \in Active
  BY <1>1, <1>3 DEF Active, Counts
<1>4. ASSUME handler[k] \in Counts <=> step \in Counts PROVE Active' = Active
  BY <1>1, <1>4 DEF Active, Counts
<1> HIDE DEF Active
<1>5. \A x : x \notin Active => Cardinality(Active \cup {x}) = Cardinality(Active) + 1
  BY CountsTyped, FS_AddElement
<1>6. \A x : x \in Active => Cardinality(Active \ {x}) = Cardinality(Active) - 1
  BY CountsTyped, FS_RemoveElement
<1>7. QED
  BY <1>2, <1>3, <1>4, <1>5, <1>6

\* A handler goes forward, and leaves only with its socket its own.
LEMMA HandlersKeep ==
  ASSUME StreamInv, NEW k \in Clients, NEW step \in HandlerSteps, Goes(k, step),
         Streams', Cancels', Handlers',
         UNCHANGED <<socketHeld, serverVars, stopperVars>>,
         active' = Cardinality(Active'),
         handler[k] = "away" => \E l \in Listeners : listener[l] = "serving",
         handler[k] # "gone", handler[k] \notin Before => step \notin Before,
         step \in {"leaving", "gone"} =>
             handler[k] \in Before \cup {"leaving"} \/ ~socketHeld[k],
         \A q \in Clients \ {k} :
             /\ worker'[q] = worker[q] /\ cancel'[q] = cancel[q]
             /\ cancelWorker'[q] = cancelWorker[q] /\ (q \in sessions' => q \in sessions),
         ClientStands(k)'
  PROVE  StreamInv'
<1>1. handler'[k] = step /\ \A q \in Clients \ {k} : handler'[q] = handler[q]
  BY DEF Goes, Set, StreamInv, Handlers
<1>2. Server'
  BY ServerKept DEF StreamInv
<1>3. CountsAgree'
  BY DEF StreamInv, CountsAgree, Open, serverVars
<1>4. HandlersServed'
  <2>1. (\E q \in Clients : handler[q] \notin {"away", "gone"}) \/ handler[k] = "away"
    OBVIOUS
  <2>2. \E l \in Listeners : listener[l] \in {"serving", "closing"}
    BY <2>1 DEF StreamInv, HandlersServed
  <2>3. QED
    BY <2>2 DEF HandlersServed, serverVars
<1>5. ClientsStand'
  <2>1. SUFFICES ASSUME NEW q \in Clients, q # k PROVE ClientStands(q)'
    BY DEF ClientsStand
  <2>2. ClientStands(q)
    BY DEF StreamInv, ClientsStand
  <2>3. QED
    BY <1>1, <2>1, <2>2 DEF ClientStands
<1>6. StopperStands'
  <2>1. StopperStands /\ UNCHANGED <<stopper, stopping, todo, current, listener>>
    BY DEF StreamInv, stopperVars, serverVars
  <2>2. stopper # "returned"
    BY <2>1 DEF StopperStands
  <2>3. \A q \in Clients : handler[q] \notin Before => handler'[q] \notin Before
    BY <1>1
  <2>4. todo \subseteq Clients
    BY DEF StreamInv, Server
  <2>5. stopper = "closing" => handler'[current] \notin {"leaving", "gone"}
    BY <1>1, <2>1 DEF StopperStands
  <2>6. QED
    BY <2>1, <2>2, <2>3, <2>4, <2>5 DEF StopperStands
<1>7. QED
  BY <1>2, <1>3, <1>4, <1>5, <1>6 DEF StreamInv

LEMMA Here ==
  ASSUME StreamInv, NEW k \in Clients
  PROVE  /\ ClientStands(k) /\ active = Cardinality(Active) /\ active \in Nat
         /\ Streams /\ Cancels /\ Handlers
  BY CountsTyped DEF StreamInv, ClientsStand, CountsAgree

LEMMA ConnectKeeps ==
  ASSUME StreamInv, NEW k \in Clients, Connect(k) PROVE StreamInv'
<1>1. Goes(k, "connected") /\ handler[k] = "away" /\ "connected" \in HandlerSteps
  BY DEF Connect, HandlerSteps
<1>2. Streams' /\ Cancels'
  BY StreamsKept, CancelsKept DEF StreamInv, Connect, workerVars
<1>3. Handlers'
  BY <1>1, Here DEF Connect, Goes, Set, Handlers
<1>4. active' = Cardinality(Active')
  BY <1>1, Here, ActiveCounts DEF Connect, Counts
<1>5. ClientStands(k)'
  BY <1>1, Here DEF Connect, Goes, Set, Handlers, ClientStands, workerVars, stopVars,
                    Before, After
<1>6. QED
  BY <1>1, <1>2, <1>3, <1>4, <1>5, HandlersKeep
  DEF Connect, workerVars, stopVars, Before

\* A session is registered while there is room, or the connection is rejected.
LEMMA RegisterKeeps ==
  ASSUME StreamInv, NEW k \in Clients, Register(k) PROVE StreamInv'
<1>1. PICK step \in {"starting", "rejected"} : Goes(k, step)
  BY DEF Register
<1>2. step \in HandlerSteps /\ handler[k] = "connected"
  BY <1>1 DEF Register, HandlerSteps
<1>3. Streams' /\ Cancels'
  BY StreamsKept, CancelsKept DEF StreamInv, Register, workerVars
<1>4. \/ sessions' = sessions
      \/ /\ sessions' = sessions \cup {k} /\ step = "starting"
         /\ Cardinality(sessions) < MaxSessions
  BY <1>1, Here DEF Register, Room, Goes, Set, Handlers
<1>5. Cardinality(sessions') <= MaxSessions /\ sessions' \subseteq Clients
  <2>1. IsFiniteSet(sessions) /\ sessions \subseteq Clients
        /\ Cardinality(sessions) <= MaxSessions
    BY Here, StreamAssumption, FS_Subset DEF Handlers
  <2>2. Cardinality(sessions) \in Nat
    BY <2>1, FS_CardinalityType
  <2>3. Cardinality(sessions \cup {k}) =
            IF k \in sessions THEN Cardinality(sessions) ELSE Cardinality(sessions) + 1
    BY <2>1, FS_AddElement
  <2>4. QED
    BY <1>4, <2>1, <2>2, <2>3, StreamAssumption
<1>6. Handlers'
  BY <1>1, <1>2, <1>5, Here DEF Register, Goes, Set, Handlers
<1>7. active' = Cardinality(Active')
  BY <1>1, <1>2, Here, ActiveCounts DEF Register, Counted, Counts
<1>8. ClientStands(k)'
  <2>1. handler'[k] = step
    BY <1>1, Here DEF Goes, Set, Handlers
  <2>2. k \notin sessions
    BY <1>2, Here DEF ClientStands, Before
  <2>3. k \in sessions' => step = "starting"
    BY <1>4, <2>2
  <2>4. QED
    BY <1>1, <1>2, <2>1, <2>3, Here
    DEF Register, ClientStands, workerVars, stopVars, Before, After
<1>9. /\ UNCHANGED <<socketHeld, serverVars, stopperVars, worker, cancel, cancelWorker>>
      /\ \A q \in Clients \ {k} : q \in sessions' => q \in sessions
  BY <1>4 DEF Register, workerVars, stopVars
<1>10. /\ handler[k] # "away" /\ handler[k] # "gone" /\ handler[k] \in Before
       /\ step \notin {"leaving", "gone"}
  BY <1>1, <1>2 DEF Before
<1>11. QED
  BY <1>1, <1>2, <1>3, <1>6, <1>7, <1>8, <1>9, <1>10, HandlersKeep

LEMMA FinishRejectedKeeps ==
  ASSUME StreamInv, NEW k \in Clients, FinishRejected(k) PROVE StreamInv'
<1>1. Goes(k, "gone") /\ handler[k] = "rejected" /\ "gone" \in HandlerSteps
  BY DEF FinishRejected, HandlerSteps
<1>2. Streams' /\ Cancels'
  BY StreamsKept, CancelsKept DEF StreamInv, FinishRejected, workerVars
<1>3. Handlers'
  BY <1>1, Here DEF FinishRejected, Goes, Set, Handlers
<1>4. active' = Cardinality(Active')
  BY <1>1, Here, ActiveCounts DEF FinishRejected, Counts
<1>5. ClientStands(k)'
  BY <1>1, Here DEF FinishRejected, Goes, Set, Handlers, ClientStands, workerVars, stopVars,
                    Before, After
<1>6. QED
  BY <1>1, <1>2, <1>3, <1>4, <1>5, HandlersKeep
  DEF FinishRejected, workerVars, stopVars, Before

LEMMA StartWorkerKeeps ==
  ASSUME StreamInv, NEW k \in Clients, StartWorker(k) PROVE StreamInv'
<1>1. PICK step \in {"arming", "releasing"} : Goes(k, step)
  BY DEF StartWorker
<1>2. /\ step \in HandlerSteps /\ handler[k] = "starting"
      /\ handler' = [handler EXCEPT ![k] = step]
  BY <1>1 DEF StartWorker, HandlerSteps, Goes, Set
<1>3. Cancels' /\ Streams'
  <2>1. Cancels'
    BY CancelsKept DEF StreamInv, StartWorker
  <2>2. Streams'
    BY Here DEF StartWorker, Streams, Set, WorkerSteps
  <2>3. QED
    BY <2>1, <2>2
<1>4. Handlers'
  BY <1>2, Here DEF StartWorker, Set, Handlers
<1>5. active' = Cardinality(Active')
  BY <1>1, <1>2, Here, ActiveCounts DEF StartWorker, Counts
<1>6. ClientStands(k)'
  <2>1. handler'[k] = step /\ (step = "releasing" => worker' = worker)
    BY <1>2, Here DEF StartWorker, Goes, Set, Handlers
  <2>2. QED
    BY <1>1, <1>2, <2>1, Here DEF StartWorker, ClientStands, stopVars, Before, After
<1>7. \A q \in Clients \ {k} : worker'[q] = worker[q]
  BY Here DEF StartWorker, Set, Streams
<1>8. QED
  BY <1>1, <1>2, <1>3, <1>4, <1>5, <1>6, <1>7, HandlersKeep
  DEF StartWorker, stopVars, Before

LEMMA ArmCancelKeeps ==
  ASSUME StreamInv, NEW k \in Clients, ArmCancel(k) PROVE StreamInv'
<1>1. PICK step \in {"canceled", "reading"} : Goes(k, step)
  BY DEF ArmCancel
<1>2. /\ step \in HandlerSteps /\ handler[k] = "arming"
      /\ handler' = [handler EXCEPT ![k] = step]
  BY <1>1 DEF ArmCancel, HandlerSteps, Goes, Set
<1>3. Streams'
  BY StreamsKept DEF StreamInv, ArmCancel, workerVars
<1> DEFINE record == [by |-> "handler", step |-> "request"]
<1>4. /\ record.step = "request"
      /\ record \in [by : {"nobody", "handler", "stop"},
                     step : {"none", "begin", "request", "notify", "wake", "end"}]
  OBVIOUS
<1>5. \/ /\ cancelWorker' = [cancelWorker EXCEPT ![k] = "running"]
         /\ cancel' = [cancel EXCEPT ![k] = record]
      \/ /\ cancelWorker' = [cancelWorker EXCEPT ![k] = "armed"]
         /\ cancel' = cancel
  BY DEF ArmCancel, Set
<1> HIDE DEF record
<1>6. Cancels'
  BY <1>4, <1>5, Here DEF Cancels, ArmCancel
<1>7. Handlers'
  BY <1>2, Here DEF ArmCancel, Handlers
<1>8. active' = Cardinality(Active')
  BY <1>1, <1>2, Here, ActiveCounts DEF ArmCancel, Counts
<1>9. ClientStands(k)'
  <2>1. handler'[k] = step /\ cancelWorker[k] = "none"
    BY <1>2, Here DEF Handlers, ClientStands
  <2>2. cancel'[k].step \in {"request", "notify", "wake", "end"} =>
            cancelWorker'[k] = "running"
    BY <1>4, <1>5, <2>1, Here DEF ClientStands, Cancels
  <2>3. QED
    BY <1>1, <1>2, <2>1, <2>2, Here DEF ArmCancel, ClientStands, workerVars, Before, After
<1>10. \A q \in Clients \ {k} : cancel'[q] = cancel[q] /\ cancelWorker'[q] = cancelWorker[q]
  BY <1>5, Here DEF Cancels
<1>11. QED
  BY <1>1, <1>2, <1>3, <1>6, <1>7, <1>8, <1>9, <1>10, HandlersKeep
  DEF ArmCancel, workerVars, Before

LEMMA ReadFailsKeeps ==
  ASSUME StreamInv, NEW k \in Clients, ReadFails(k) PROVE StreamInv'
<1>1. Goes(k, "joining") /\ handler[k] = "reading" /\ "joining" \in HandlerSteps
  BY DEF ReadFails, HandlerSteps
<1>2. Requests(k, "handler")
  BY DEF ReadFails
<1>3. Streams' /\ Cancels'
  BY <1>2, StreamsKept, RequestsClaim DEF StreamInv, ReadFails, workerVars
<1>4. Handlers'
  BY <1>1, Here DEF ReadFails, Goes, Set, Handlers
<1>5. active' = Cardinality(Active')
  BY <1>1, Here, ActiveCounts DEF ReadFails, Counts
<1>6. ClientStands(k)'
  <2>1. handler'[k] = "joining"
    BY <1>1, Here DEF Goes, Set, Handlers
  <2>2. cancel'[k].step \in {"request", "notify", "wake", "end"} =>
            cancelWorker'[k] = "running"
    BY <1>2, RequestsClaim
  <2>3. QED
    BY <2>1, <2>2 DEF ClientStands, Before, After
<1>7. \A q \in Clients \ {k} : cancel'[q] = cancel[q] /\ cancelWorker'[q] = cancelWorker[q]
  BY <1>2, RequestsClaim
<1>8. QED
  BY <1>1, <1>3, <1>4, <1>5, <1>6, <1>7, HandlersKeep DEF ReadFails, workerVars, Before

\* The worker has ended before it is let go, and cancelWorker is not running.
LEMMA DisarmCancelKeeps ==
  ASSUME StreamInv, NEW k \in Clients, DisarmCancel(k) PROVE StreamInv'
<1>1. /\ Goes(k, "releasing") /\ handler[k] = "disarming" /\ "releasing" \in HandlerSteps
      /\ cancelWorker[k] # "running"
      /\ cancelWorker' = [cancelWorker EXCEPT ![k] = "none"]
  BY DEF DisarmCancel, Disarms, HandlerSteps, Set
<1>2. Streams' /\ Cancels'
  BY <1>1, Here, StreamsKept DEF DisarmCancel, workerVars, Cancels
<1>3. Handlers'
  BY <1>1, Here DEF DisarmCancel, Goes, Set, Handlers
<1>4. active' = Cardinality(Active')
  BY <1>1, Here, ActiveCounts DEF DisarmCancel, Counts
<1>5. ClientStands(k)'
  <2>1. handler'[k] = "releasing" /\ cancelWorker'[k] = "none" /\ worker[k] = "ended"
    BY <1>1, Here DEF Goes, Set, Handlers, Cancels, ClientStands
  <2>2. cancel[k].step \notin {"request", "notify", "wake", "end"}
    BY <1>1, Here DEF ClientStands
  <2>3. QED
    BY <2>1, <2>2 DEF DisarmCancel, ClientStands, workerVars, Before, After
<1>6. \A q \in Clients \ {k} : cancelWorker'[q] = cancelWorker[q]
  BY <1>1, Here DEF Cancels
<1>7. QED
  BY <1>1, <1>2, <1>3, <1>4, <1>5, <1>6, HandlersKeep DEF DisarmCancel, workerVars, Before

\* Armed, Join and ReleaseSocket move the handler and nothing else.
LEMMA MovesKeep ==
  ASSUME StreamInv, NEW k \in Clients, Armed(k) \/ Join(k) \/ ReleaseSocket(k) PROVE StreamInv'
<1>1. PICK step \in {"reading", "disarming", "leaving"} :
          /\ Goes(k, step)
          /\ \/ step = "reading" /\ handler[k] = "canceled"
             \/ step = "disarming" /\ handler[k] = "joining" /\ worker[k] = "ended"
             \/ step = "leaving" /\ handler[k] = "releasing" /\ ~socketHeld[k]
  BY DEF Armed, Join, ReleaseSocket
<1>2. /\ UNCHANGED <<source, mutex, sessions, active, socketHeld, closed, stopVars, workerVars,
                     serverVars, stopperVars>>
      /\ step \in HandlerSteps
  BY DEF Armed, Join, ReleaseSocket, HandlerSteps
<1>3. Streams' /\ Cancels'
  BY <1>2, StreamsKept, CancelsKept DEF StreamInv, workerVars
<1>4. Handlers'
  BY <1>1, <1>2, Here DEF Goes, Set, Handlers
<1>5. active' = Cardinality(Active')
  BY <1>1, <1>2, Here, ActiveCounts DEF Counts
<1>6. ClientStands(k)'
  <2>1. handler'[k] = step
    BY <1>1, Here DEF Goes, Set, Handlers
  <2>2. QED
    BY <1>1, <1>2, <2>1, Here DEF ClientStands, workerVars, stopVars, Before, After
<1>7. QED
  BY <1>1, <1>2, <1>3, <1>4, <1>5, <1>6, HandlersKeep DEF workerVars, stopVars, Before

LEMMA FinishSessionKeeps ==
  ASSUME StreamInv, NEW k \in Clients, FinishSession(k) PROVE StreamInv'
<1>1. /\ Goes(k, "gone") /\ handler[k] = "leaving" /\ "gone" \in HandlerSteps
      /\ sessions' = sessions \ {k}
  BY DEF FinishSession, HandlerSteps
<1>2. Streams' /\ Cancels'
  BY StreamsKept, CancelsKept DEF StreamInv, FinishSession, workerVars
<1>3. Handlers'
  <2>1. IsFiniteSet(sessions) /\ sessions \subseteq Clients
        /\ Cardinality(sessions) <= MaxSessions
    BY Here, StreamAssumption, FS_Subset DEF Handlers
  <2>2. /\ Cardinality(sessions \ {k}) <= Cardinality(sessions)
        /\ IsFiniteSet(sessions \ {k})
    BY <2>1, FS_Subset
  <2>3. Cardinality(sessions \ {k}) \in Nat /\ Cardinality(sessions) \in Nat
    BY <2>1, <2>2, FS_CardinalityType
  <2>4. Cardinality(sessions') <= MaxSessions
    BY <1>1, <2>1, <2>2, <2>3, StreamAssumption
  <2>5. QED
    BY <1>1, <2>1, <2>4, Here DEF FinishSession, Goes, Set, Handlers
<1>4. active' = Cardinality(Active')
  BY <1>1, Here, ActiveCounts DEF FinishSession, Counts
<1>5. ClientStands(k)'
  BY <1>1, Here DEF FinishSession, Goes, Set, Handlers, ClientStands, workerVars, stopVars,
                    Before, After
<1>6. QED
  BY <1>1, <1>2, <1>3, <1>4, <1>5, HandlersKeep
  DEF FinishSession, workerVars, stopVars, Before

-------------------------------------------------------------------------------
(* The theorems.                                                            *)

LEMMA StreamInit == Init => StreamInv
<1> SUFFICES ASSUME Init PROVE StreamInv
  OBVIOUS
<1>1. [generation |-> 1, number |-> 0] \in Positions /\ [generation |-> 0, number |-> 0] \in Positions
  BY StreamAssumption DEF Positions
<1>2. Streams
  BY <1>1 DEF Init, Streams, WorkerSteps
<1>3. Cancels
  BY DEF Init, Cancels, NoCancel
<1>4. Handlers
  BY FS_EmptySet, StreamAssumption DEF Init, Handlers, HandlerSteps
<1>5. Server /\ ClientsStand /\ HandlersServed /\ StopperStands
  BY DEF Init, Server, ClientsStand, ClientStands, HandlersServed, StopperStands, NoCancel,
         Before, After
<1>6. CountsAgree
  <2>1. Active = {} /\ Open = {}
    BY DEF Init, Active, Open
  <2>2. QED
    BY <2>1, FS_EmptySet DEF Init, CountsAgree
<1>7. QED
  BY <1>2, <1>3, <1>4, <1>5, <1>6 DEF StreamInv

LEMMA StreamStep == StreamInv /\ [Next]_vars => StreamInv'
<1> SUFFICES ASSUME StreamInv, [Next]_vars PROVE StreamInv'
  OBVIOUS
<1>1. ASSUME NEW k \in Clients, Connect(k) \/ PeerCloses(k) PROVE StreamInv'
  BY <1>1, ConnectKeeps, PeerKeeps
<1>2. ASSUME NEW k \in Clients, Handler(k) PROVE StreamInv'
  <2>1. CASE Armed(k) \/ Join(k) \/ ReleaseSocket(k)
    BY <2>1, MovesKeep
  <2>2. QED
    BY <1>2, <2>1, RegisterKeeps, FinishRejectedKeeps, StartWorkerKeeps, ArmCancelKeeps,
       ReadFailsKeeps, DisarmCancelKeeps, FinishSessionKeeps DEF Handler
<1>3. ASSUME NEW k \in Clients, Canceling(k) \/ Worker(k) PROVE StreamInv'
  BY <1>3, CancelingKeeps, WorkerKeeps
<1>4. ASSUME NEW l \in Listeners, BeginListen(l) \/ Listener(l) PROVE StreamInv'
  BY <1>4, BeginListenKeeps, ListenerKeeps
<1>5. ASSUME BeginStop \/ Stopper PROVE StreamInv'
  <2>1. CASE HoldSocket \/ CloseSocket
    BY <2>1, SocketKeeps
  <2>2. QED
    BY <1>5, <2>1, BeginStopKeeps, StopSessionKeeps, StopServerKeeps, StopReturnsKeeps
    DEF Stopper
<1>6. CASE UNCHANGED vars
  BY <1>6, StreamsKept, CancelsKept, HandlersKept, ServerKept, StopperKept, ClientsKept,
     CountsKept DEF StreamInv, vars, sessionVars, workerVars, serverVars
<1>7. QED
  BY <1>1, <1>2, <1>3, <1>4, <1>5, <1>6, SourcesKeep DEF Next

LEMMA StreamAlways == Spec => []StreamInv
BY StreamInit, StreamStep, PTL DEF Spec

\* Types for any clients and listeners; however sessions come and go, the registry
\* never holds more than its maximum (registerSession).
THEOREM StreamTypes == Spec => []TypeOK
<1>1. StreamInv => TypeOK
  BY TypeParts, CountsTyped DEF StreamInv
<1>2. QED
  BY <1>1, StreamAlways, PTL

\* However handlers, workers, callbacks, listeners and stop interleave: no worker and
\* no callback runs once its handler has let go of it, stop closes no socket that has
\* been released, and nothing is left when stop has returned (WebApi::stop).
THEOREM NothingOutlives == Spec => []NothingOutlivesItsOwner
<1>1. StreamInv => NothingOutlivesItsOwner
  BY DEF StreamInv, ClientsStand, ClientStands, StopperStands,
         NothingOutlivesItsOwner, Before, After
<1>2. QED
  BY <1>1, StreamAlways, PTL
===============================================================================
