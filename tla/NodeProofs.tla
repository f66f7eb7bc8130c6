------------------------------ MODULE NodeProofs ------------------------------
(***************************************************************************)
(* Proofs about Node, for every number of launches and clients, with and   *)
(* without overlapping launches.                                           *)
(***************************************************************************)
EXTENDS Node, TLAPS

Checked == {"wait", "handler", "listener", "publish", "published", "loop", "finally"}
Proven  == {"publish", "published", "loop", "finally"}
Out     == {"published", "loop", "finally"}

PcOK == pc \in [Launches -> {"new", "exposure", "construct", "role", "exited"} \cup Checked]
RoleOK == role \in [Launches -> {"none", "owner", "client", "standalone"}]

\* What main() has established by each place, and that nobody takes it away
\* while the launch lives.
OwnerOK == \A l \in Launches :
    /\ pc[l] \in Checked => owner = l
    /\ pc[l] = "role" => role[l] # "none" /\ (role[l] = "owner" => owner = l)
PortOK == \A l \in Launches : pc[l] \in Proven => port = l

\* A launch's marker is written by it alone, and not before it is due.
MarkerOK == \A l \in Launches : marker = l => pc[l] \in Out \cup {"exited"}

ReadyInv == PcOK /\ RoleOK /\ OwnerOK /\ PortOK /\ MarkerOK

\* A process that is gone takes only its own ownerships with it.
LEMMA ExitReady ==
    ASSUME ReadyInv, NEW l \in Launches, NEW status, Exit(l, status), Alive(l) \/ pc[l] = "new",
           role' = role, marker' = marker \/ marker' = NoProc
    PROVE  ReadyInv'
BY NodeAssumption
DEF ReadyInv, PcOK, RoleOK, OwnerOK, PortOK, MarkerOK, Checked, Proven, Out, Exit, Unlisten, Goto

\* Every statement of main(), every signal and every change outside keeps what
\* the marker stands for.
LEMMA ReadyStep == ReadyInv /\ [Next]_vars => ReadyInv'
<1> SUFFICES ASSUME ReadyInv, [Next]_vars PROVE ReadyInv' OBVIOUS
<1> USE NodeAssumption
    DEF ReadyInv, PcOK, RoleOK, OwnerOK, PortOK, MarkerOK, Checked, Proven, Out, Goto, Alive
<1>1. ASSUME NEW l \in Launches, Start(l) PROVE ReadyInv'
  BY <1>1, ExitReady DEF Start, StartClear
<1>2. ASSUME NEW l \in Launches, CheckExposure(l) PROVE ReadyInv'
  BY <1>2, ExitReady DEF CheckExposure, shared
<1>3. ASSUME NEW l \in Launches, Construct(l) PROVE ReadyInv'
  BY <1>3 DEF Construct
<1>4. ASSUME NEW l \in Launches, CheckRole(l) PROVE ReadyInv'
  BY <1>4, ExitReady DEF CheckRole, IsOwner, shared
<1>5. ASSUME NEW l \in Launches, WaitInterface(l) PROVE ReadyInv'
  BY <1>5, ExitReady DEF WaitInterface, shared
<1>6. ASSUME NEW l \in Launches, InstallHandler(l) PROVE ReadyInv'
  BY <1>6 DEF InstallHandler, shared
<1>7. ASSUME NEW l \in Launches, WaitListener(l) PROVE ReadyInv'
  BY <1>7, ExitReady DEF WaitListener, OwnsPort, shared
<1>8. ASSUME NEW l \in Launches, Publish(l) PROVE ReadyInv'
  BY <1>8 DEF Publish
<1>9. ASSUME NEW l \in Launches, EnterLoop(l) \/ Monitor(l) PROVE ReadyInv'
  BY <1>9 DEF EnterLoop, Monitor, shared
<1>10. ASSUME NEW l \in Launches, Finally(l) PROVE ReadyInv'
  BY <1>10, ExitReady DEF Finally, FinallyClear
<1>11. ASSUME NEW l \in Launches, Sigterm(l) PROVE ReadyInv'
  BY <1>11, ExitReady DEF Sigterm
<1>12. ASSUME NEW l \in Launches, Sigint(l) PROVE ReadyInv'
  BY <1>12, ExitReady DEF Sigint
<1>13. ASSUME NEW l \in Launches, Kill(l) PROVE ReadyInv'
  BY <1>13, ExitReady DEF Kill
<1>14. ASSUME NEW l \in Launches, RadioChanges(l) PROVE ReadyInv'
  BY <1>14 DEF RadioChanges, shared
<1>15. ASSUME NEW c \in Clients, Probe(c) \/ Exec(c) \/ ClientEnds(c) PROVE ReadyInv'
  BY <1>15 DEF Probe, Exec, ClientEnds, Unlisten, shared
<1>16. ASSUME UNCHANGED vars PROVE ReadyInv'
  BY <1>16 DEF vars, shared
<1>17. ASSUME ForeignListener PROVE ReadyInv'
  BY <1>17 DEF ForeignListener, Unlisten
<1> QED BY <1>1, <1>2, <1>3, <1>4, <1>5, <1>6, <1>7, <1>8, <1>9, <1>10, <1>11, <1>12, <1>13,
           <1>14, <1>15, <1>16, <1>17 DEF Next, Step

\* main()'s checks before _set_ready(): as long as a launch whose marker is out
\* lives, it owns the shared instance and the client port, whatever other
\* launches, clients and signals do, overlapping launches included.
THEOREM ReadyIsOwner == Spec => []ReadyMeansOwner
<1>1. Init => ReadyInv
  BY NodeAssumption DEF Init, ReadyInv, PcOK, RoleOK, OwnerOK, PortOK, MarkerOK, Checked, Proven, Out
<1>2. ReadyInv => ReadyMeansOwner
  BY DEF ReadyInv, OwnerOK, PortOK, MarkerOK, ReadyMeansOwner, Alive, Checked, Proven, Out
<1> QED BY <1>1, <1>2, ReadyStep, PTL DEF Spec

-----------------------------------------------------------------------------
(* The client launcher                                                     *)

\* A client past its check has found a listener, which is still there or has ended
\* since; and only a client that runs can own the instance.
SeenOK == \A c \in Clients :
    /\ client[c] = "exec" => owner # NoProc \/ lost[c]
    /\ owner = c => client[c] = "running"
LostOK == DOMAIN lost = Clients /\ DOMAIN client = Clients
FirstInv == LostOK /\ ClientNeverFirst /\ SeenOK

\* Whoever stops listening, every client between its check and its start has it
\* recorded; a client that runs keeps what was recorded of it.
LEMMA UnlistenFirst ==
    ASSUME FirstInv, NEW p, p # NoProc, Unlisten(p),
           client' = client \/ (p \in Clients /\ client' = [client EXCEPT ![p] = "idle"])
    PROVE  FirstInv'
<1>1. LostOK'
  BY DEF FirstInv, LostOK, Unlisten
<1>2. \A c \in Clients : lost'[c] = (lost[c] \/ (owner = p /\ client[c] = "exec"))
  BY DEF Unlisten
<1>3. \A c \in Clients : lost[c] => lost'[c]
  BY <1>2
<1>4. owner' = (IF owner = p THEN NoProc ELSE owner)
  BY DEF Unlisten
<1>5. ASSUME NEW c \in Clients PROVE client'[c] = client[c] \/ (c = p /\ client'[c] = "idle")
  BY DEF FirstInv, LostOK
<1>6. ClientNeverFirst'
  BY <1>3, <1>4, NodeAssumption DEF FirstInv, ClientNeverFirst
<1>7. ASSUME NEW c \in Clients
      PROVE  /\ client'[c] = "exec" => owner' # NoProc \/ lost'[c]
             /\ owner' = c => client'[c] = "running"
  <2>1. client'[c] = "exec" => client[c] = "exec"
    BY <1>5
  <2>2. client'[c] = "exec" => owner' # NoProc \/ lost'[c]
    BY <1>2, <1>3, <1>4, <2>1 DEF FirstInv, SeenOK
  <2>3. owner' = c => client'[c] = "running"
    BY <1>4, <1>5, NodeAssumption DEF FirstInv, SeenOK
  <2> QED BY <2>2, <2>3
<1> QED BY <1>1, <1>6, <1>7 DEF FirstInv, SeenOK

LEMMA ExitFirst ==
    ASSUME FirstInv, NEW l \in Launches, NEW status, Exit(l, status), client' = client
    PROVE  FirstInv'
BY UnlistenFirst, NodeAssumption DEF Exit

LEMMA FirstStep == FirstInv /\ [Next]_vars => FirstInv'
<1> SUFFICES ASSUME FirstInv, [Next]_vars PROVE FirstInv' OBVIOUS
<1> USE NodeAssumption
<1>1. ASSUME UNCHANGED <<client, owner, lost>> PROVE FirstInv'
  BY <1>1 DEF FirstInv, LostOK, ClientNeverFirst, SeenOK
<1>2. ASSUME NEW l \in Launches, Construct(l) PROVE FirstInv'
  BY <1>2 DEF Construct, FirstInv, LostOK, ClientNeverFirst, SeenOK
<1>3. ASSUME NEW l \in Launches, Start(l) PROVE FirstInv'
  BY <1>1, <1>3, ExitFirst DEF Start
<1>4. ASSUME NEW l \in Launches, Step(l) PROVE FirstInv'
  BY <1>1, <1>2, <1>4, ExitFirst
  DEF Step, CheckExposure, CheckRole, WaitInterface, InstallHandler, WaitListener, Publish,
      EnterLoop, Monitor, Finally, FinallyClear, shared
<1>5. ASSUME NEW l \in Launches, Sigterm(l) \/ Sigint(l) \/ Kill(l) \/ RadioChanges(l)
      PROVE FirstInv'
  BY <1>1, <1>5, ExitFirst DEF Sigterm, Sigint, Kill, RadioChanges, shared
<1>6. ASSUME NEW c \in Clients, Probe(c) PROVE FirstInv'
  <2>1. /\ client[c] = "idle" /\ UNCHANGED owner
        /\ lost' = [lost EXCEPT ![c] = FALSE]
        /\ client' = [client EXCEPT ![c] = IF owner # NoProc THEN "exec" ELSE "refused"]
    BY <1>6 DEF Probe, ProbeFinds
  <2>2. owner # c
    BY <2>1 DEF FirstInv, SeenOK
  <2>3. \A d \in Clients : d # c => client'[d] = client[d] /\ lost'[d] = lost[d]
    BY <2>1 DEF FirstInv, LostOK
  <2>4. client'[c] = "exec" => owner # NoProc
    BY <2>1 DEF FirstInv, LostOK
  <2>5. LostOK'
    BY <2>1 DEF FirstInv, LostOK
  <2>6. ClientNeverFirst'
    BY <2>1, <2>2, <2>3 DEF FirstInv, ClientNeverFirst
  <2>7. SeenOK'
    BY <2>1, <2>2, <2>3, <2>4 DEF FirstInv, SeenOK
  <2> QED BY <2>5, <2>6, <2>7 DEF FirstInv
<1>7. ASSUME NEW c \in Clients, Exec(c) PROVE FirstInv'
  BY <1>7 DEF Exec, FirstInv, LostOK, ClientNeverFirst, SeenOK
<1>8. ASSUME NEW c \in Clients, ClientEnds(c) PROVE FirstInv'
  BY <1>8, UnlistenFirst DEF ClientEnds
<1>9. ASSUME UNCHANGED vars PROVE FirstInv'
  BY <1>1, <1>9 DEF vars, shared
<1>10. ASSUME ForeignListener PROVE FirstInv'
  <2>1. CASE owner = NoProc /\ owner' = Foreign /\ UNCHANGED <<lost, client>>
    BY <2>1 DEF FirstInv, LostOK, ClientNeverFirst, SeenOK
  <2>2. CASE Unlisten(Foreign) /\ UNCHANGED client
    BY <2>2, UnlistenFirst
  <2> QED BY <1>10, <2>1, <2>2 DEF ForeignListener
<1> QED BY <1>3, <1>4, <1>5, <1>6, <1>7, <1>8, <1>9, <1>10 DEF Next

\* client.py's check before execvp(): for any number of launches and clients, and
\* with other processes on the instance's address, a client owns the shared instance
\* only when what its own check found there ended before its start.
THEOREM NeverFirst == Spec => []ClientNeverFirst
<1>1. Init => FirstInv
  BY NodeAssumption DEF Init, FirstInv, LostOK, ClientNeverFirst, SeenOK
<1>2. FirstInv => ClientNeverFirst
  BY DEF FirstInv
<1> QED BY <1>1, <1>2, FirstStep, PTL DEF Spec

-----------------------------------------------------------------------------
(* One launch at a time                                                    *)

\* The launches do not overlap, and while one is starting there is no marker at
\* all: it removed the predecessor's and nobody else can write one.
OneAlive == \A k, l \in Launches : Alive(k) /\ Alive(l) => k = l
CleanStart == \A l \in Launches : Starting(l) => marker = NoProc
CleanInv == PcOK /\ OneAlive /\ CleanStart

\* The only launch that lives moves on, and its marker is out only when it has
\* left the starting part of main().
LEMMA CleanMove ==
    ASSUME CleanInv, NEW l \in Launches, Alive(l),
           NEW at \in {"construct", "role", "exited"} \cup Checked, Goto(l, at),
           marker' = marker \/ at \in {"published", "exited"},
           Starting(l) \/ at \in {"loop", "finally", "exited"}
    PROVE  CleanInv'
<1> USE DEF PcOK, Checked, Goto, Alive, Starting
<1>1. PcOK'
  BY DEF CleanInv
<1>2. OneAlive'
  BY DEF CleanInv, OneAlive
<1>3. CleanStart'
  BY DEF CleanInv, OneAlive, CleanStart
<1> QED BY <1>1, <1>2, <1>3 DEF CleanInv

LEMMA CleanStep == ~Overlap /\ CleanInv /\ [Next]_vars => CleanInv'
<1> SUFFICES ASSUME ~Overlap, CleanInv, [Next]_vars PROVE CleanInv' OBVIOUS
<1>1. ASSUME UNCHANGED <<pc, marker>> PROVE CleanInv'
  BY <1>1 DEF CleanInv, PcOK, OneAlive, CleanStart, Alive, Starting
<1>2. ASSUME NEW l \in Launches, Start(l) PROVE CleanInv'
  <2>1. \A k \in Launches : ~Alive(k)
    BY <1>2 DEF Start
  <2>2. \/ Goto(l, "exposure") /\ marker' = NoProc
        \/ Goto(l, "exited") /\ marker' = marker
    BY <1>2 DEF Start, StartClear, Exit
  <2> QED
    BY <2>1, <2>2 DEF CleanInv, PcOK, OneAlive, CleanStart, Alive, Starting, Goto, Checked
<1>3. ASSUME NEW l \in Launches, Step(l) PROVE CleanInv'
  <2>1. Alive(l)
    BY <1>3 DEF Step, CheckExposure, Construct, CheckRole, WaitInterface, InstallHandler,
                WaitListener, Publish, EnterLoop, Monitor, Finally, Alive
  <2>2. \E at \in {"construct", "role", "exited"} \cup Checked :
           /\ Goto(l, at)
           /\ marker' = marker \/ at \in {"published", "exited"}
           /\ Starting(l) \/ at \in {"loop", "finally", "exited"}
    BY <1>3 DEF Step, CheckExposure, Construct, CheckRole, WaitInterface, InstallHandler,
                WaitListener, Publish, EnterLoop, Monitor, Finally, FinallyClear, Alive,
                Starting, Exit, shared, Checked
  <2> QED BY <2>1, <2>2, CleanMove
<1>4. ASSUME NEW l \in Launches, Sigterm(l) \/ Sigint(l) \/ Kill(l) PROVE CleanInv'
  <2>1. Alive(l) /\ marker' = marker /\ (Goto(l, "finally") \/ Goto(l, "exited"))
    BY <1>4 DEF Sigterm, Sigint, Kill, Exit
  <2> QED BY <2>1, CleanMove DEF Checked
<1>5. ASSUME NEW l \in Launches, RadioChanges(l) PROVE CleanInv'
  BY <1>1, <1>5 DEF RadioChanges, shared
<1>6. ASSUME NEW c \in Clients, Probe(c) \/ Exec(c) \/ ClientEnds(c) PROVE CleanInv'
  BY <1>1, <1>6 DEF Probe, Exec, ClientEnds, shared
<1>7. ASSUME UNCHANGED vars PROVE CleanInv'
  BY <1>1, <1>7 DEF vars, shared
<1>8. ASSUME ForeignListener PROVE CleanInv'
  BY <1>1, <1>8 DEF ForeignListener
<1> QED BY <1>2, <1>3, <1>4, <1>5, <1>6, <1>7, <1>8 DEF Next

\* _clear_ready() as the first statement of main(): when launches do not overlap,
\* no marker of a crashed or killed predecessor, or of anything else that is dead,
\* makes a launch that is still starting look ready.
THEOREM NothingBorrowed == ~Overlap => (Spec => []NoBorrowedReadiness)
<1> SUFFICES ASSUME ~Overlap PROVE Spec => []NoBorrowedReadiness OBVIOUS
<1>1. Init => CleanInv
  BY NodeAssumption DEF Init, CleanInv, PcOK, OneAlive, CleanStart, Alive, Starting, Checked
<1>2. CleanInv => NoBorrowedReadiness
  BY NodeAssumption DEF CleanInv, CleanStart, NoBorrowedReadiness, Dead
<1>3. CleanInv /\ [Next]_vars => CleanInv'
  BY CleanStep
<1> QED BY <1>1, <1>2, <1>3, PTL DEF Spec
===============================================================================
