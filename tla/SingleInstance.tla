---------------------------- MODULE SingleInstance ----------------------------
(***************************************************************************)
(* Processes of vbuff on one machine (src/single_instance, main.rs, ask.rs): *)
(* the one that takes the owner lock publishes an endpoint and opens the     *)
(* store, the others hand it their intent.  The operating system frees the   *)
(* lock of a process that dies; the endpoint file stays.                     *)
(***************************************************************************)
EXTENDS Integers, Sequences, FiniteSets

CONSTANTS
    Processes,       \* each is started once
    NoProcess,
    Purposes,        \* what they may be started for
    Attempts,        \* 10 in the code (forward_with_retry)
    MaxFaults        \* bound on deaths and on listeners that stop by themselves

ASSUME LaunchAssumption ==
    /\ NoProcess \notin Processes /\ IsFiniteSet(Processes)
    /\ Purposes \subseteq [Processes -> {"show", "ping", "ask"}]
    /\ Attempts \in Nat \ {0} /\ MaxFaults \in Nat

VARIABLES
    os,          \* "unix" | "windows": how an endpoint is published
    purpose,     \* "show" the popup, "ping" (a background launch), "ask" a query
    at,          \* where each process is
    lock,        \* who holds the owner lock
    endpoint,    \* the endpoint file: whose it is and whether it is all written
    serving,     \* the processes whose server_loop accepts
    backlog,     \* the requests each server has not answered
    peer,        \* the server a process last connected to
    reply,       \* the response it has not read
    left,        \* the attempts forward_with_retry has left
    inbox,       \* the intents the event loop has not taken
    deaf,        \* the processes whose intent channel is closed
    raised,       \* whose intent raised the popup
    faults

instVars == <<os, purpose, at, lock, endpoint, serving, backlog, peer, reply, left,
              inbox, deaf, raised, faults>>
outside == <<os, purpose, faults>>
service == <<serving, backlog, inbox, deaf, raised>>

NoFile == [owner |-> NoProcess, whole |-> FALSE]

Calling == {"asking", "asksAgain", "forwarding", "probing"}
Waiting == {"w_asking", "w_asksAgain", "w_forwarding", "w_probing"}
WaitOf == [s \in Calling |-> CASE s = "asking" -> "w_asking"
                               [] s = "asksAgain" -> "w_asksAgain"
                               [] s = "forwarding" -> "w_forwarding"
                               [] s = "probing" -> "w_probing"]
CallOf(w) == CHOOSE s \in Calling : WaitOf[s] = w
Acquiring == {"locking", "binding", "publishing"}
Closing == {"closing", "unlinking", "unlocking"}
Ended == {"forwarded", "answered", "failed", "gone", "dead"}

\* `open`: whether its sender still waits for the response.
Requests == [from : Processes, what : {"history", "show", "ping"}, open : BOOLEAN]

\* The store is opened after the endpoint and closed before the guard drops.
HasStore(p) == at[p] \in {"starting", "running", "flushing", "querying"}

InstTypeOK ==
    /\ at \in [Processes -> {"idle", "starting", "running", "flushing", "querying"}
                             \cup Calling \cup Waiting \cup Acquiring \cup Closing \cup Ended]
    /\ lock \in Processes \cup {NoProcess}
    /\ endpoint \in [owner : Processes \cup {NoProcess}, whole : BOOLEAN]
    /\ serving \subseteq Processes /\ deaf \subseteq Processes /\ raised \subseteq Processes
    /\ \A p \in Processes :
         /\ Len(backlog[p]) <= Cardinality(Processes) * (Attempts + 1)
         /\ \A i \in DOMAIN backlog[p] : backlog[p][i] \in Requests
         /\ inbox[p] \subseteq Processes
    /\ faults \in 0..MaxFaults

InstInit ==
    /\ os \in {"unix", "windows"}
    /\ purpose \in Purposes
    /\ at = [p \in Processes |-> "idle"]
    /\ lock = NoProcess /\ endpoint = NoFile /\ serving = {}
    /\ backlog = [p \in Processes |-> <<>>]
    /\ peer = [p \in Processes |-> NoProcess]
    /\ reply = [p \in Processes |-> "none"]
    /\ left = [p \in Processes |-> Attempts]
    /\ inbox = [p \in Processes |-> {}]
    /\ deaf = {} /\ raised = {} /\ faults = 0

Goes(p, s) == at' = [at EXCEPT ![p] = s]

-----------------------------------------------------------------------------
\* A process looks for the resident.

\* `ask` asks the resident first, an application start takes the lock.
Launch(p) ==
    /\ at[p] = "idle"
    /\ Goes(p, IF purpose[p] = "ask" THEN "asking" ELSE "locking")
    /\ UNCHANGED <<outside, lock, endpoint, service, peer, reply, left>>

\* try_owner_lock
TryLock(p) ==
    /\ at[p] = "locking"
    /\ IF lock = NoProcess
       THEN lock' = p /\ Goes(p, "binding")
       ELSE Goes(p, "forwarding") /\ UNCHANGED lock
    /\ left' = [left EXCEPT ![p] = Attempts]
    /\ UNCHANGED <<outside, endpoint, service, peer, reply>>

\* Defective variant of CallFails: the attempts are not counted.
CallFailsUncounted(p, call, refused) ==
    CASE call = "forwarding" -> Goes(p, "forwarding") /\ UNCHANGED <<left, endpoint>>
      [] call = "probing" -> endpoint' = NoFile /\ Goes(p, "binding") /\ UNCHANGED left
      [] call = "asking" ->
           Goes(p, IF refused THEN "locking" ELSE "failed") /\ UNCHANGED <<left, endpoint>>
      [] call = "asksAgain" -> Goes(p, "failed") /\ UNCHANGED <<left, endpoint>>

\* What a process does next when its call did not succeed; `refused`: there
\* was nobody to connect to.
CallFails(p, call, refused) ==
    CASE call = "forwarding" ->
           /\ left' = [left EXCEPT ![p] = @ - 1]
           /\ Goes(p, IF left[p] = 1 THEN "failed" ELSE "forwarding")
           /\ UNCHANGED endpoint
      [] call = "probing" ->                \* the lock is ours: the file is stale
           /\ endpoint' = NoFile /\ Goes(p, "binding") /\ UNCHANGED left
      [] call = "asking" ->
           /\ Goes(p, IF refused THEN "locking" ELSE "failed")
           /\ UNCHANGED <<left, endpoint>>
      [] call = "asksAgain" -> Goes(p, "failed") /\ UNCHANGED <<left, endpoint>>

Reachable == endpoint.whole /\ endpoint.owner \in serving

\* An `ask` that found the lock taken pings whoever has it.
Sends(p) ==
    IF at[p] \in {"asking", "asksAgain"} THEN "history"
    ELSE IF purpose[p] = "show" THEN "show"
    ELSE "ping"

Connect(p) ==
    /\ at[p] \in Calling /\ Reachable
    /\ peer' = [peer EXCEPT ![p] = endpoint.owner]
    /\ backlog' = [backlog EXCEPT ![endpoint.owner] =
                     Append(@, [from |-> p, what |-> Sends(p), open |-> TRUE])]
    /\ Goes(p, WaitOf[at[p]])
    /\ UNCHANGED <<outside, lock, endpoint, serving, inbox, deaf, raised, reply, left>>

\* No file, nobody behind it, or a file that is not all written.
ConnectFails(p) ==
    /\ at[p] \in Calling /\ ~Reachable
    /\ CallFails(p, at[p], endpoint = NoFile \/ endpoint.whole)
    /\ UNCHANGED <<outside, lock, service, peer, reply>>

\* The lock goes back when acquire_at returns without becoming the primary.
ReadReply(p) ==
    /\ at[p] \in Waiting /\ reply[p] # "none"
    /\ reply' = [reply EXCEPT ![p] = "none"]
    /\ LET call == CallOf(at[p]) IN
         CASE reply[p] = "result" ->
                Goes(p, "answered") /\ UNCHANGED <<lock, left, endpoint>>
           [] reply[p] \in {"ack", "pong"} ->
                /\ Goes(p, IF purpose[p] = "ask" THEN "asksAgain" ELSE "forwarded")
                /\ lock' = (IF lock = p THEN NoProcess ELSE lock)
                /\ UNCHANGED <<left, endpoint>>
           [] reply[p] = "rejected" -> CallFails(p, call, FALSE) /\ UNCHANGED lock
    /\ UNCHANGED <<outside, service, peer>>

Abandoned(p, requests) ==
    [i \in DOMAIN requests |->
        IF requests[i].from = p THEN [requests[i] EXCEPT !.open = FALSE] ELSE requests[i]]

\* The server went away with the connection, or two seconds passed: the
\* request is still in the backlog.
GivesUp(p) ==
    /\ at[p] \in Waiting /\ reply[p] = "none"
    /\ CallFails(p, CallOf(at[p]), FALSE)
    /\ backlog' = [q \in Processes |-> Abandoned(p, backlog[q])]
    /\ UNCHANGED <<outside, lock, serving, inbox, deaf, raised, peer, reply>>

-----------------------------------------------------------------------------
\* The holder of the lock becomes the primary.

Listening(p) ==
    /\ serving' = serving \cup {p}
    /\ Goes(p, IF purpose[p] = "ask" THEN "querying" ELSE "starting")

\* bind makes the socket file and listens in one step.
BindUnix(p) ==
    /\ os = "unix" /\ at[p] = "binding" /\ endpoint = NoFile
    /\ endpoint' = [owner |-> p, whole |-> TRUE] /\ Listening(p)
    /\ UNCHANGED <<outside, lock, backlog, inbox, deaf, raised, peer, reply, left>>

\* create_primary makes the file, binds a port and writes it.
CreateWindows(p) ==
    /\ os = "windows" /\ at[p] = "binding" /\ endpoint = NoFile
    /\ endpoint' = [owner |-> p, whole |-> FALSE] /\ Goes(p, "publishing")
    /\ UNCHANGED <<outside, lock, service, peer, reply, left>>

PublishWindows(p) ==
    /\ at[p] = "publishing"
    /\ endpoint' = [owner |-> p, whole |-> TRUE] /\ Listening(p)
    /\ UNCHANGED <<outside, lock, backlog, inbox, deaf, raised, peer, reply, left>>

\* AddrInUse, path.exists()
FindsEndpoint(p) ==
    /\ at[p] = "binding" /\ endpoint # NoFile
    /\ Goes(p, "probing")
    /\ UNCHANGED <<outside, lock, endpoint, service, peer, reply, left>>

\* main loads the configuration and opens the store, or returns an error.
Starts(p) ==
    /\ at[p] = "starting"
    /\ \/ Goes(p, "running") /\ UNCHANGED deaf
       \/ Goes(p, "closing") /\ deaf' = deaf \cup {p}
    /\ UNCHANGED <<outside, lock, endpoint, serving, backlog, inbox, raised, peer, reply, left>>

AskDone(p) ==
    /\ at[p] = "querying" /\ Goes(p, "closing")
    /\ UNCHANGED <<outside, lock, endpoint, service, peer, reply, left>>

Quit(p) ==
    /\ at[p] = "running" /\ Goes(p, "flushing")
    /\ UNCHANGED <<outside, lock, endpoint, service, peer, reply, left>>

Flushed(p) ==
    /\ at[p] = "flushing" /\ Goes(p, "closing")
    /\ UNCHANGED <<outside, lock, endpoint, service, peer, reply, left>>

\* Defective variant of StopServer: the lock goes back first.
StopServerUnlocked(p) ==
    /\ at[p] = "closing" /\ Goes(p, "unlinking")
    /\ serving' = serving \ {p} /\ backlog' = [backlog EXCEPT ![p] = <<>>]
    /\ lock' = NoProcess
    /\ UNCHANGED <<outside, endpoint, inbox, deaf, raised, peer, reply, left>>

\* Guard::drop stops the server, removes the file at the path whoever made it,
\* and gives the lock back with its last field.
StopServer(p) ==
    /\ at[p] = "closing" /\ Goes(p, "unlinking")
    /\ serving' = serving \ {p} /\ backlog' = [backlog EXCEPT ![p] = <<>>]
    /\ UNCHANGED <<outside, lock, endpoint, inbox, deaf, raised, peer, reply, left>>

Unlink(p) ==
    /\ at[p] = "unlinking" /\ Goes(p, "unlocking")
    /\ endpoint' = NoFile
    /\ UNCHANGED <<outside, lock, service, peer, reply, left>>

Unlock(p) ==
    /\ at[p] = "unlocking" /\ Goes(p, "gone")
    /\ lock' = NoProcess
    /\ UNCHANGED <<outside, endpoint, service, peer, reply, left>>

-----------------------------------------------------------------------------
\* The primary serves.

\* handle_stream: a ShowPopup needs a receiver of the channel, a query the
\* installed handler and a running store owner.
Response(q, what) ==
    CASE what = "history" -> IF at[q] = "running" THEN "result" ELSE "rejected"
      [] what = "show" -> IF q \in deaf THEN "rejected" ELSE "ack"
      [] OTHER -> "pong"

Serve(q) ==
    /\ q \in serving /\ backlog[q] # <<>>
    /\ LET r == Head(backlog[q]) IN
         /\ reply' = IF r.open THEN [reply EXCEPT ![r.from] = Response(q, r.what)] ELSE reply
         /\ inbox' = IF r.what = "show" /\ q \notin deaf
                     THEN [inbox EXCEPT ![q] = @ \cup {r.from}] ELSE inbox
    /\ backlog' = [backlog EXCEPT ![q] = Tail(@)]
    /\ UNCHANGED <<outside, at, lock, endpoint, serving, deaf, raised, peer, left>>

\* A frame of the event loop takes every intent.
ShowPopup(q) ==
    /\ at[q] = "running" /\ inbox[q] # {}
    /\ raised' = raised \cup inbox[q]
    /\ inbox' = [inbox EXCEPT ![q] = {}]
    /\ UNCHANGED <<outside, at, lock, endpoint, serving, backlog, deaf, peer, reply, left>>

\* The thread between the two channels learns that the event loop is gone
\* from the first intent it cannot pass on.
Deafened(q) ==
    /\ at[q] \in {"flushing"} \cup Closing /\ purpose[q] # "ask" /\ inbox[q] # {}
    /\ deaf' = deaf \cup {q} /\ inbox' = [inbox EXCEPT ![q] = {}]
    /\ UNCHANGED <<outside, at, lock, endpoint, serving, backlog, raised, peer, reply, left>>

-----------------------------------------------------------------------------
\* Faults.

Fault == faults < MaxFaults /\ faults' = faults + 1

ProcessDies(p) ==
    /\ Fault /\ at[p] \notin {"idle"} \cup Ended
    /\ Goes(p, "dead")
    /\ lock' = (IF lock = p THEN NoProcess ELSE lock)
    /\ serving' = serving \ {p}
    /\ backlog' = [q \in Processes |-> IF q = p THEN <<>> ELSE Abandoned(p, backlog[q])]
    /\ inbox' = [inbox EXCEPT ![p] = {}] /\ reply' = [reply EXCEPT ![p] = "none"]
    /\ UNCHANGED <<os, purpose, endpoint, deaf, raised, peer, left>>

\* accept fails: server_loop ends, its process goes on.
ListenerStops(q) ==
    /\ Fault /\ q \in serving
    /\ serving' = serving \ {q} /\ backlog' = [backlog EXCEPT ![q] = <<>>]
    /\ UNCHANGED <<os, purpose, at, lock, endpoint, inbox, deaf, raised, peer, reply, left>>

\* The steps a running process takes by itself.
Seeks(p) ==
    \/ TryLock(p) \/ Connect(p) \/ ConnectFails(p) \/ ReadReply(p) \/ GivesUp(p)
    \/ BindUnix(p) \/ CreateWindows(p) \/ PublishWindows(p) \/ FindsEndpoint(p)
Hosts(p) == Starts(p) \/ AskDone(p) \/ Flushed(p)
Closes(p) == StopServer(p) \/ Unlink(p) \/ Unlock(p)

\* Nothing is left to do when every process has ended.
AllEnded == (\A p \in Processes : at[p] \in Ended) /\ UNCHANGED instVars

InstNext == AllEnded \/ \E p \in Processes :
    \/ Launch(p) \/ Seeks(p) \/ Hosts(p) \/ Closes(p) \/ Quit(p)
    \/ Serve(p) \/ ShowPopup(p) \/ Deafened(p)
    \/ ProcessDies(p) \/ ListenerStops(p)

InstFairness ==
    \A p \in Processes :
        /\ WF_instVars(Seeks(p)) /\ WF_instVars(Hosts(p)) /\ WF_instVars(Closes(p))
        /\ WF_instVars(Serve(p))

-----------------------------------------------------------------------------
\* Two processes never have the store open: a resident that starts or rejects a
\* query is an error to `ask`, not a reason to open a second writer
\* (docs/duckdb-migration.md:25).
OneWriter == \A p, q \in Processes : HasStore(p) /\ HasStore(q) => p = q

\* The endpoint of a process that serves is never removed or replaced by
\* another: who quits removes the file at the path while it holds the lock.
EndpointIsServed == \A q \in serving : endpoint = [owner |-> q, whole |-> TRUE]

\* The response of a process is to the request it waits for, from its server.
RepliesAreAwaited ==
    \A p \in Processes :
        /\ reply[p] # "none" => at[p] \in Waiting
        /\ reply[p] = "result" => CallOf(at[p]) \in {"asking", "asksAgain"}
        /\ at[p] \notin Waiting =>
             \A q \in Processes : \A i \in DOMAIN backlog[q] :
                 backlog[q][i].from = p => ~backlog[q][i].open

\* An application start that was answered did its work: its intent is shown or
\* on its way to the event loop, unless the resident quit, failed to start or
\* died meanwhile.  An `ask` that holds the endpoint answers and shows nothing.
AckedIsShown ==
    \A p, q \in Processes :
        at[p] = "forwarded" /\ purpose[p] = "show" /\ peer[p] = q
        /\ at[q] \in {"starting", "running"} => p \in inbox[q] \cup raised

\* Every start ends, as the resident or not, whatever the resident does: from
\* some point on nobody looks for it.
LaunchesEnd ==
    <>[](\A p \in Processes : at[p] \notin Calling \cup Waiting \cup Acquiring)

LaunchSafety ==
    InstTypeOK /\ OneWriter /\ EndpointIsServed /\ RepliesAreAwaited /\ AckedIsShown
=============================================================================
