--------------------------------- MODULE Node ---------------------------------
(***************************************************************************)
(* The service runner of loraham_rns/node.py and the client launcher of    *)
(* loraham_rns/client.py: launches of the node and RNS clients that share  *)
(* one machine, its ready marker, Reticulum's shared instance and the      *)
(* client-access port.  Signals may arrive between any two statements.     *)
(***************************************************************************)
EXTENDS Naturals

CONSTANTS
    Launches,      \* runs of loraham-rns-node, each one process
    Clients,       \* runs of loraham-rns-client
    NoProc,        \* nobody
    Foreign,       \* a process that is neither a launch nor a client
    Overlap        \* may a launch start while another one is running?

ASSUME NodeAssumption ==
    /\ NoProc \notin Launches \cup Clients /\ Foreign \notin Launches \cup Clients
    /\ NoProc # Foreign /\ Launches \cap Clients = {}
    /\ Overlap \in BOOLEAN

VARIABLES
    pc,            \* where each launch is in main()
    role,          \* what Reticulum() became: "none", "owner", "client", "standalone"
    iface,         \* the radio interface: "absent", "starting", "online", "offline"
    handler,       \* the SIGTERM handler is installed
    how,           \* how the launch ends: its exit status, or what ended it
    client,        \* where each client launcher is
    marker,        \* who wrote the ready marker (its pid), NoProc if there is none
    owner,         \* who listens on the shared instance's address: its owner, or
                   \* Foreign with a plain socket that is no instance
    port,          \* who listens on CLIENT_ACCESS_PORT
    lost           \* ghost, per client: what its check found ended before its start

shared == <<marker, owner, port, lost>>
vars == <<pc, role, iface, handler, how, client, shared>>

\* A predecessor may have left its marker, and something else may hold the port or
\* the shared instance's address.
Init ==
    /\ pc = [l \in Launches |-> "new"]
    /\ role = [l \in Launches |-> "none"]
    /\ iface = [l \in Launches |-> "absent"]
    /\ handler = [l \in Launches |-> FALSE]
    /\ how = [l \in Launches |-> "none"]
    /\ client = [c \in Clients |-> "idle"]
    /\ marker \in {NoProc, Foreign} /\ port \in {NoProc, Foreign}
    /\ owner \in {NoProc, Foreign} /\ lost = [c \in Clients |-> FALSE]

Alive(l) == pc[l] \notin {"new", "exited"}
Goto(l, at) == pc' = [pc EXCEPT ![l] = at]

\* p stops listening on the shared instance's address, if it did: a client between
\* its check and its start has lost what its check found.
Unlisten(p) ==
    /\ owner' = IF owner = p THEN NoProc ELSE owner
    /\ lost' = [c \in Clients |-> lost[c] \/ (owner = p /\ client[c] = "exec")]

\* The process is gone: the kernel closes its sockets.  The marker is a file.
Exit(l, status) ==
    /\ Goto(l, "exited")
    /\ how' = [how EXCEPT ![l] = status]
    /\ Unlisten(l)
    /\ port' = IF port = l THEN NoProc ELSE port

-----------------------------------------------------------------------------
(* main()                                                                  *)

\* _clear_ready() first; a marker that cannot be removed ends the launch.
StartKeeping(l) == UNCHANGED marker
StartClear(l) == marker' = NoProc

Start(l) ==
    /\ pc[l] = "new"
    /\ Overlap \/ \A k \in Launches : ~Alive(k)
    /\ \/ StartClear(l) /\ Goto(l, "exposure") /\ UNCHANGED <<how, owner, port, lost>>
       \/ marker # NoProc /\ Exit(l, "marker") /\ UNCHANGED marker
    /\ UNCHANGED <<role, iface, handler, client>>

CheckExposure(l) ==
    /\ pc[l] = "exposure"
    /\ \/ Goto(l, "construct") /\ UNCHANGED <<how, shared>>
       \/ Exit(l, "EXIT_UNSAFE_EXPOSURE") /\ UNCHANGED marker
    /\ UNCHANGED <<role, iface, handler, client>>

\* RNS.Reticulum(): own the shared instance, attach to it, or stand alone;
\* an owner brings up the interfaces it can and opens the port if it is free.
Construct(l) ==
    /\ pc[l] = "construct" /\ Goto(l, "role")
    /\ \/ /\ owner = NoProc /\ owner' = l
          /\ role' = [role EXCEPT ![l] = "owner"]
          /\ \E i \in {"absent", "starting", "online", "offline"} : iface' = [iface EXCEPT ![l] = i]
          /\ port' = IF port = NoProc THEN l ELSE port
       \/ /\ owner # NoProc
          /\ role' = [role EXCEPT ![l] = "client"]
          /\ UNCHANGED <<iface, owner, port>>
       \/ /\ role' = [role EXCEPT ![l] = "standalone"]
          /\ iface' = [iface EXCEPT ![l] = "online"]
          /\ port' = IF port = NoProc THEN l ELSE port
          /\ UNCHANGED owner
    /\ UNCHANGED <<handler, how, client, marker, lost>>

OwnerUnlessAttached(l) == role[l] # "client"
IsOwner(l) == role[l] \notin {"client", "standalone"}

CheckRole(l) ==
    /\ pc[l] = "role"
    /\ \/ IsOwner(l) /\ Goto(l, "wait") /\ UNCHANGED <<how, shared>>
       \/ ~IsOwner(l) /\ Exit(l, "EXIT_NOT_OWNER") /\ UNCHANGED marker
    /\ UNCHANGED <<role, iface, handler, client>>

\* Wait until the interface is online or has failed, or the time is up.
WaitInterface(l) ==
    /\ pc[l] = "wait"
    /\ \/ iface[l] = "online" /\ Goto(l, "handler") /\ UNCHANGED <<how, shared>>
       \/ iface[l] # "online" /\ Exit(l, "EXIT_NO_INTERFACE") /\ UNCHANGED marker
    /\ UNCHANGED <<role, iface, handler, client>>

InstallHandler(l) ==
    /\ pc[l] = "handler" /\ Goto(l, "listener")
    /\ handler' = [handler EXCEPT ![l] = TRUE]
    /\ UNCHANGED <<role, iface, how, client, shared>>

\* _wait_own_listener(): it must be OUR socket, not just an answering port.
OwnsPort(l) == port = l

WaitListener(l) ==
    /\ pc[l] = "listener"
    /\ \/ OwnsPort(l) /\ Goto(l, "publish") /\ UNCHANGED <<how, shared>>
       \/ ~OwnsPort(l) /\ Exit(l, "EXIT_NO_CLIENT_PORT") /\ UNCHANGED marker
    /\ UNCHANGED <<role, iface, handler, client>>

Publish(l) ==
    /\ pc[l] = "publish" /\ Goto(l, "published")
    /\ marker' = l
    /\ UNCHANGED <<role, iface, handler, how, client, owner, port, lost>>

\* The log line, then the try statement whose finally clears the marker.
EnterLoop(l) ==
    /\ pc[l] = "published" /\ Goto(l, "loop")
    /\ UNCHANGED <<role, iface, handler, how, client, shared>>

\* Every CHECK_INTERVAL_S: leave when the interface is fatal or offline.
MonitorNever(l) == pc[l] = "gone" /\ UNCHANGED vars
Monitor(l) ==
    /\ pc[l] = "loop" /\ iface[l] # "online"
    /\ Goto(l, "finally")
    /\ how' = [how EXCEPT ![l] = "EXIT_RADIO_FATAL"]
    /\ UNCHANGED <<role, iface, handler, client, shared>>

\* A marker that cannot be removed turns the exit into SystemExit and stays.
FinallyClear(l) ==
    \/ marker' = NoProc /\ Exit(l, how[l])
    \/ marker # NoProc /\ UNCHANGED marker /\ Exit(l, "marker")

Finally(l) ==
    /\ pc[l] = "finally"
    /\ FinallyClear(l)
    /\ UNCHANGED <<role, iface, handler, client>>

-----------------------------------------------------------------------------
(* Signals and the radio                                                   *)

\* SIGTERM: without the handler the process dies at once; with it SystemExit
\* is raised where the process is, and only the loop is inside the try.
Sigterm(l) ==
    /\ Alive(l)
    /\ \/ /\ pc[l] = "loop" /\ Goto(l, "finally")
          /\ how' = [how EXCEPT ![l] = "term"]
          /\ UNCHANGED <<owner, port, lost>>
       \/ /\ pc[l] # "loop" /\ Exit(l, IF handler[l] THEN "term" ELSE "killed")
    /\ UNCHANGED <<role, iface, handler, client, marker>>

\* SIGINT: KeyboardInterrupt, caught in the loop and nowhere else.
Sigint(l) ==
    /\ Alive(l)
    /\ \/ /\ pc[l] = "loop" /\ Goto(l, "finally")
          /\ how' = [how EXCEPT ![l] = "EXIT_OK"]
          /\ UNCHANGED <<owner, port, lost>>
       \/ /\ pc[l] # "loop" /\ Exit(l, "interrupted")
    /\ UNCHANGED <<role, iface, handler, client, marker>>

\* SIGKILL, or power taken from the process in any other way.
Kill(l) ==
    /\ Alive(l) /\ Exit(l, "killed")
    /\ UNCHANGED <<role, iface, handler, client, marker>>

\* The interface's workers: it comes up late, or fails (Interface, _fail()).
RadioChanges(l) ==
    /\ Alive(l)
    /\ \/ iface[l] = "starting" /\ \E i \in {"online", "offline"} : iface' = [iface EXCEPT ![l] = i]
       \/ iface[l] = "online" /\ iface' = [iface EXCEPT ![l] = "offline"]
    /\ UNCHANGED <<pc, role, handler, how, client, shared>>

-----------------------------------------------------------------------------
(* client.py                                                               *)

\* instance_present(): a child process asks RNS, which proves a listener on the
\* instance's address and no more: a plain socket passes.
ProbeSkipped(c) == owner = owner
ProbeFinds(c) == owner # NoProc

Probe(c) ==
    /\ client[c] = "idle"
    /\ client' = [client EXCEPT ![c] = IF ProbeFinds(c) THEN "exec" ELSE "refused"]
    /\ lost' = [lost EXCEPT ![c] = FALSE]
    /\ UNCHANGED <<pc, role, iface, handler, how, marker, owner, port>>

\* execvp(): the client's own Reticulum() attaches, or becomes the owner.
Exec(c) ==
    /\ client[c] = "exec"
    /\ client' = [client EXCEPT ![c] = "running"]
    /\ owner' = IF owner = NoProc THEN c ELSE owner
    /\ UNCHANGED <<pc, role, iface, handler, how, marker, port, lost>>

\* The client ends, or execvp() failed.
ClientEnds(c) ==
    /\ client[c] \in {"exec", "running", "refused"}
    /\ client' = [client EXCEPT ![c] = "idle"]
    /\ Unlisten(c)
    /\ UNCHANGED <<pc, role, iface, handler, how, marker, port>>

\* Some other process binds the instance's address, or goes away.
ForeignListener ==
    /\ \/ owner = NoProc /\ owner' = Foreign /\ UNCHANGED lost
       \/ owner = Foreign /\ Unlisten(Foreign)
    /\ UNCHANGED <<pc, role, iface, handler, how, client, marker, port>>

-----------------------------------------------------------------------------
Step(l) ==
    \/ CheckExposure(l) \/ Construct(l) \/ CheckRole(l) \/ WaitInterface(l) \/ InstallHandler(l)
    \/ WaitListener(l) \/ Publish(l) \/ EnterLoop(l) \/ Monitor(l) \/ Finally(l)

Next ==
    \/ \E l \in Launches : Start(l) \/ Step(l) \/ Sigterm(l) \/ Sigint(l) \/ Kill(l) \/ RadioChanges(l)
    \/ \E c \in Clients : Probe(c) \/ Exec(c) \/ ClientEnds(c)
    \/ ForeignListener

Spec == Init /\ [][Next]_vars

\* main() is one thread that runs; its waits are bounded by timeouts.
FairSpec == Spec /\ \A l \in Launches : WF_vars(Step(l))

-----------------------------------------------------------------------------
(* Properties                                                              *)

Starting(l) == Alive(l) /\ pc[l] \notin {"published", "loop", "finally"}
Dead(p) == p = Foreign \/ (p \in Launches /\ pc[p] = "exited")

\* "the shared instance is OURS" and the listener too: a live launch whose
\* marker is out owns the shared instance and the client port.
ReadyMeansOwner ==
    \A l \in Launches : Alive(l) /\ marker = l => owner = l /\ port = l

\* "a crashed predecessor must never make this launch look ready": no marker of
\* a dead process is there while a launch is still starting.
NoBorrowedReadiness ==
    \A l \in Launches : Starting(l) => ~Dead(marker)

\* client.py: a client owns the shared instance (and the radio) only when what its
\* own check found on the instance's address ended between that check and its
\* start; one that attached never takes the instance over.
ClientNeverFirst == \A c \in Clients : owner = c => lost[c]

\* "die loudly if the radio goes fatal": a node whose radio is gone ends.
RadioLossEnds ==
    \A l \in Launches : pc[l] = "loop" /\ iface[l] = "offline" ~> pc[l] = "exited"

\* node.py on its SIGTERM handler: the default action left the marker behind,
\* "Turn it into a normal unwind"; so no marker survives a handled SIGTERM.
TermClearsMarker ==
    \A l \in Launches : how[l] = "term" /\ pc[l] = "exited" => marker # l
===============================================================================
