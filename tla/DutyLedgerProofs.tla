--------------------------- MODULE DutyLedgerProofs ---------------------------
(***************************************************************************)
(* Proofs about DutyLedger, for every number of processes, windows,        *)
(* budgets, airtimes and clock offsets that satisfy DutyAssumption.        *)
(***************************************************************************)
EXTENDS DutyLedger, FiniteSetTheorems, TLAPS

-----------------------------------------------------------------------------
(* Types                                                                   *)

\* Only a reservation (never a status read) gets past the read.
AirOK == \A p \in Procs :
    pc[p] \in {"decide", "write", "sync", "granted"} \/ why[p] = "grant" => air[p] \in Airtimes

TypeInv == TypeOK /\ AirOK

\* _rebase() maps entries to entries.
LEMMA RebaseType ==
    ASSUME TypeOK, NEW es \in SUBSET Entry, NEW ev \in Evidence
    PROVE  Rebase(es, ev) \in SUBSET Entry
<1> wall \in Int /\ mono \in Int BY DutyAssumption DEF TypeOK, wall, mono
<1> ClockStep(ev) \in Int BY DEF ClockStep, Evidence, TypeOK
<1> QED BY DEF Rebase, Entry

\* The evidence of a write is of its type.
LEMMA EvidenceType ==
    ASSUME TypeOK PROVE EvidenceNow \in Evidence
BY DutyAssumption DEF TypeOK, EvidenceNow, Evidence, wall, mono

\* Where the read leads, and that a status read leads nowhere.
LEMMA AfterReadType ==
    ASSUME TypeOK, NEW p \in Procs, NEW b \in BOOLEAN
    PROVE  /\ AfterRead(p, b).pc \in {"unlock", "write", "decide"}
           /\ AfterRead(p, b).why \in {"none", "init", "rebase"}
           /\ AfterRead(p, b).pc # "unlock" => air[p] # Status
           /\ AfterRead(p, b).why # "none" => AfterRead(p, b).pc = "write"
<1>1. first[p] \in BOOLEAN BY DEF TypeOK
<1>2. CASE air[p] = Status BY <1>2 DEF AfterRead, Label
<1>3. CASE air[p] # Status /\ first[p] BY <1>3 DEF AfterRead, Label
<1>4. CASE air[p] # Status /\ ~first[p] BY <1>4 DEF AfterRead, Label
<1> QED BY <1>1, <1>2, <1>3, <1>4

\* The initial state is of its type.
LEMMA InitType == Init => TypeInv
<1> SUFFICES ASSUME Init PROVE TypeInv OBVIOUS
<1>1. NoLedger("missing") \in Ledger BY DEF NoLedger, Ledger, Evidence
<1>2. /\ now \in [Procs -> [wall : Int, real : Nat]]
      /\ view \in [Procs -> SUBSET Entry]
      /\ air \in [Procs -> Airtimes \cup {Status}] /\ ticket \in [Procs -> Nat]
  BY DEF Init, NoTime
<1>3. first \in [Procs -> BOOLEAN] /\ pending \in [Procs -> BOOLEAN]
  BY DEF Init
<1>4. /\ pc \in [Procs -> {"idle", "create", "exists", "flock", "read", "write", "sync",
                         "decide", "unlock", "granted"}]
      /\ why \in [Procs -> {"none", "init", "rebase", "grant"}]
  BY DEF Init
<1>5. /\ lockFile \in BOOLEAN /\ lockDurable \in BOOLEAN /\ faulted \in BOOLEAN
      /\ ledger \in Ledger /\ durable \in Ledger /\ holder \in Procs \cup {NoOne}
  BY <1>1 DEF Init
<1>6. /\ real \in Nat /\ offset \in Offsets /\ boot \in Nat /\ bootReal \in Nat
      /\ nextId \in Nat \ {0} /\ radiated \subseteq [id : Nat, a : Airtimes, r : Nat]
  BY DEF Init
<1>7. TypeOK BY <1>2, <1>3, <1>4, <1>5, <1>6 DEF TypeOK
<1>8. AirOK BY DEF Init, AirOK
<1> QED BY <1>7, <1>8 DEF TypeInv

\* Every operation of the account, of its environment and of the clocks keeps
\* every variable of its type.
LEMMA NextType == TypeInv /\ [Next]_vars => TypeInv'
<1> SUFFICES ASSUME TypeInv, [Next]_vars PROVE TypeInv' OBVIOUS
<1> USE DutyAssumption
<1>t. TypeOK /\ AirOK BY DEF TypeInv
<1>w. wall \in Int /\ mono \in Int BY <1>t DEF TypeOK, wall, mono
<1>1. ASSUME NEW p \in Procs, NEW a \in Airtimes, OpenLock(p, a) PROVE TypeInv'
  BY <1>t, <1>1 DEF OpenLock, Goto, TypeInv, TypeOK, AirOK, disk, clock, ghost
<1>2. ASSUME NEW p \in Procs, OpenUsage(p) PROVE TypeInv'
  BY <1>t, <1>2 DEF OpenUsage, Goto, TypeInv, TypeOK, AirOK, disk, local, clock, ghost
<1>3. ASSUME NEW p \in Procs, CreateLock(p) PROVE TypeInv'
  BY <1>t, <1>3 DEF CreateLock, Goto, TypeInv, TypeOK, AirOK, clock, ghost
<1>4. ASSUME NEW p \in Procs, AwaitLedger(p) \/ AwaitTimeout(p) PROVE TypeInv'
  BY <1>t, <1>4 DEF AwaitLedger, AwaitTimeout, Goto, TypeInv, TypeOK, AirOK, disk, local, clock, ghost
<1>5. ASSUME NEW p \in Procs, Flock(p) PROVE TypeInv'
  BY <1>t, <1>w, <1>5 DEF Flock, Goto, TypeInv, TypeOK, AirOK, disk, clock, ghost
<1>6. ASSUME NEW p \in Procs, FlockTimeout(p) PROVE TypeInv'
  BY <1>t, <1>6 DEF FlockTimeout, Return, NoTime, Goto, TypeInv, TypeOK, AirOK, disk, clock, ghost
<1>7. ASSUME NEW p \in Procs, ReadLedger(p) PROVE TypeInv'
  <2> DEFINE stepped == ledger.entries # {} /\ Stepped(ledger.clock)
             kept == Kept(Rebase(ledger.entries, ledger.clock), now[p].wall)
  <2>1. kept \in SUBSET Entry
    BY <1>t, RebaseType DEF Kept, TypeOK, Ledger
  <2>2. stepped \in BOOLEAN BY DEF Stepped
  <2>3. view' = [view EXCEPT ![p] = kept] /\ pending' = [pending EXCEPT ![p] = stepped]
    BY <1>7 DEF ReadLedger
  <2>4. /\ pc' = [pc EXCEPT ![p] = AfterRead(p, stepped).pc]
        /\ why' = [why EXCEPT ![p] = AfterRead(p, stepped).why]
    BY <1>7 DEF ReadLedger, Goto
  <2>5. /\ AfterRead(p, stepped).pc \in {"unlock", "write", "decide"}
        /\ AfterRead(p, stepped).why \in {"none", "init", "rebase"}
        /\ AfterRead(p, stepped).pc # "unlock" => air[p] # Status
    BY <2>2, <1>t, AfterReadType
  <2> HIDE DEF stepped, kept
  <2>6. UNCHANGED <<disk, holder, first, now, air, ticket, clock, ghost, faulted>>
    BY <1>7 DEF ReadLedger
  <2>7. TypeOK' BY <1>t, <2>1, <2>2, <2>3, <2>4, <2>5, <2>6 DEF TypeOK, disk, clock, ghost
  <2>8. AirOK' BY <1>t, <2>4, <2>5, <2>6 DEF TypeOK, AirOK
  <2> QED BY <2>7, <2>8 DEF TypeInv
<1>8. ASSUME NEW p \in Procs, ReadFresh(p) PROVE TypeInv'
  <2>1. pending[p] \in BOOLEAN BY <1>t DEF TypeOK
  <2>2. /\ AfterRead(p, pending[p]).pc \in {"unlock", "write", "decide"}
        /\ AfterRead(p, pending[p]).why \in {"none", "init", "rebase"}
        /\ AfterRead(p, pending[p]).pc # "unlock" => air[p] # Status
    BY <2>1, <1>t, AfterReadType
  <2>3. TypeOK' BY <1>t, <1>8, <2>2 DEF ReadFresh, Goto, TypeOK, disk, clock, ghost
  <2>4. AirOK' BY <1>t, <1>8, <2>2 DEF ReadFresh, Goto, TypeOK, AirOK
  <2> QED BY <2>3, <2>4 DEF TypeInv
<1>9. ASSUME NEW p \in Procs, ReadFails(p) PROVE TypeInv'
  BY <1>t, <1>9 DEF ReadFails, Goto, TypeInv, TypeOK, AirOK, disk, local, clock, ghost
<1>10. ASSUME NEW p \in Procs, Replace(p) PROVE TypeInv'
  <2>1. ledger' \in Ledger BY <1>t, <1>10, EvidenceType DEF Replace, Ledger, TypeOK
  <2> QED BY <1>t, <1>10, <2>1 DEF Replace, Goto, TypeInv, TypeOK, AirOK, local, clock, ghost
<1>11. ASSUME NEW p \in Procs, SyncDir(p) PROVE TypeInv'
  BY <1>t, <1>11 DEF SyncDir, Goto, TypeInv, TypeOK, AirOK, local, clock, ghost
<1>12. ASSUME NEW p \in Procs, WriteFails(p) PROVE TypeInv'
  BY <1>t, <1>12 DEF WriteFails, Goto, TypeInv, TypeOK, AirOK, disk, local, clock, ghost
<1>13. ASSUME NEW p \in Procs, Grant(p) PROVE TypeInv'
  <2> DEFINE e == [id |-> nextId, t |-> now[p].wall, a |-> air[p], r |-> now[p].real]
  <2>1. air[p] \in Airtimes BY <1>t, <1>13 DEF AirOK, Grant
  <2>2. e \in Entry BY <1>t, <2>1 DEF Entry, TypeOK
  <2>3. view' = [view EXCEPT ![p] = @ \cup {e}] BY <1>13 DEF Grant
  <2> HIDE DEF e
  <2>4. TypeOK' BY <1>t, <1>13, <2>2, <2>3 DEF Grant, Goto, TypeOK, disk, clock
  <2>5. AirOK' BY <1>t, <1>13, <2>1 DEF Grant, Goto, TypeOK, AirOK
  <2> QED BY <2>4, <2>5 DEF TypeInv
<1>14. ASSUME NEW p \in Procs, Refuse(p) PROVE TypeInv'
  BY <1>t, <1>14 DEF Refuse, Goto, TypeInv, TypeOK, AirOK, disk, local, clock, ghost
<1>15. ASSUME NEW p \in Procs, Unlock(p) PROVE TypeInv'
  <2>1. CASE ~Return(p)
    BY <1>t, <1>15, <2>1 DEF Unlock, Goto, TypeInv, TypeOK, AirOK, disk, local, clock, ghost
  <2>2. CASE Return(p)
    <3>1. Return(p) /\ holder' = NoOne /\ UNCHANGED <<disk, pending, clock, ghost, faulted>>
      BY <1>15, <2>2 DEF Unlock
    <3>2. TypeOK' BY <1>t, <3>1 DEF Return, NoTime, Goto, TypeOK, disk, clock, ghost
    <3>3. AirOK' BY <1>t, <3>1 DEF Return, Goto, TypeOK, AirOK
    <3> QED BY <3>2, <3>3 DEF TypeInv
  <2> QED BY <2>1, <2>2
<1>16. ASSUME NEW p \in Procs, Transmit(p) PROVE TypeInv'
  BY <1>t, <1>16 DEF Transmit, Return, NoTime, Goto, TypeInv, TypeOK, AirOK, disk, clock
<1>17. ASSUME NEW p \in Procs, Crash(p) PROVE TypeInv'
  BY <1>t, <1>17 DEF Crash, Return, NoTime, Goto, TypeInv, TypeOK, AirOK, disk, clock, ghost
<1>18. ASSUME Reboot PROVE TypeInv'
  BY <1>t, <1>18 DEF Reboot, NoTime, TypeInv, TypeOK, AirOK, ghost
<1>19. ASSUME StepClock \/ Tick PROVE TypeInv'
  BY <1>t, <1>19 DEF StepClock, Tick, TypeInv, TypeOK, AirOK, disk, local, ghost
<1>20. ASSUME Damage PROVE TypeInv'
  <2>1. \A k \in {"missing", "corrupt"} : NoLedger(k) \in Ledger
    BY DEF NoLedger, Ledger, Evidence
  <2> QED BY <1>t, <1>20, <2>1 DEF Damage, TypeInv, TypeOK, AirOK, local, clock, ghost
<1>21. ASSUME UNCHANGED vars PROVE TypeInv'
  BY <1>t, <1>21 DEF vars, disk, local, clock, ghost, TypeInv, TypeOK, AirOK
<1> QED BY <1>1, <1>2, <1>3, <1>4, <1>5, <1>6, <1>7, <1>8, <1>9, <1>10, <1>11, <1>12, <1>13,
           <1>14, <1>15, <1>16, <1>17, <1>18, <1>19, <1>20, <1>21
        DEF Next, Call, Work, Environment

\* Every variable of the ledger model keeps its type, and a status read is
\* never recorded as airtime (the airtime of every entry is one asked for).
THEOREM TypeCorrect == Spec => []TypeOK
<1>1. TypeInv => TypeOK BY DEF TypeInv
<1> QED BY InitType, NextType, <1>1, PTL DEF Spec

-----------------------------------------------------------------------------
(* No entry looks older than it is                                         *)

\* The flock excludes: who is between _flock() and LOCK_UN is its holder.
LockOK == \A p \in Procs : Holds(p) => holder = p

\* The evidence of a ledger was taken by a clock the machine really had, and
\* no entry is older by it than it really is.
EvidenceOK(l) ==
    l.kind = "ok" =>
        /\ l.clock.at <= real /\ l.clock.boot <= boot
        /\ ClockOffset(l.clock) \in Offsets
        /\ l.clock.boot = boot => l.clock.mono = l.clock.at - bootReal
        /\ \A e \in l.entries : e.t - e.r >= ClockOffset(l.clock)

LedgersOK == EvidenceOK(ledger) /\ EvidenceOK(durable)

\* With the flock held, `now` and the entries are by the clock as it is.
NowOK == \A p \in Procs : Holds(p) => now[p].wall - now[p].real = offset
ViewOK == \A p \in Procs :
    pc[p] \in {"decide", "write", "sync"} => \A e \in view[p] : e.t - e.r >= offset

AgeInv == TypeInv /\ LockOK /\ LedgersOK /\ NowOK /\ ViewOK

\* _rebase() makes no entry older: by the clock as it is now, every entry it
\* returns is at least as young as it really is.
LEMMA RebaseAge ==
    ASSUME TypeOK, EvidenceOK(ledger), ledger.kind = "ok",
           NEW e \in Rebase(ledger.entries, ledger.clock)
    PROVE  e.t - e.r >= offset
<1> DEFINE ev == ledger.clock
<1>1. /\ ev \in Evidence /\ ledger.entries \in SUBSET Entry
      /\ real \in Nat /\ offset \in Int /\ boot \in Nat /\ bootReal \in Nat /\ Skew \in Nat
  BY DutyAssumption DEF TypeOK, Ledger
<1>2. /\ ev.boot \in Nat /\ ev.mono \in Int /\ ev.wall \in Int /\ ev.at \in Nat
  BY <1>1 DEF Evidence
<1>3. /\ ev.at <= real
      /\ ev.boot = boot => ev.mono = ev.at - bootReal
      /\ \A x \in ledger.entries : x.t - x.r >= ev.wall - ev.at
  BY DEF EvidenceOK, ClockOffset
<1>4. \/ ev.wall - ev.at = offset
      \/ (ev.wall - ev.at) - offset > Skew
      \/ offset - (ev.wall - ev.at) > Skew
  BY DutyAssumption DEF EvidenceOK, ClockOffset, TypeOK
<1> DEFINE step == ClockStep(ev)
<1>5. ev.boot = boot => step = offset - (ev.wall - ev.at)
  BY <1>1, <1>2, <1>3 DEF ClockStep, wall, mono
<1>6. ev.boot # boot => step >= offset - (ev.wall - ev.at)
  BY <1>1, <1>2, <1>3 DEF ClockStep, wall
<1>7. step \in Int
  BY <1>1, <1>2 DEF ClockStep, wall, mono
<1>8. CASE Stepped(ev)
  <2>1. PICK x \in ledger.entries : e = [x EXCEPT !.t = @ + step]
    BY <1>8 DEF Rebase
  <2>2. x.t \in Int /\ x.r \in Nat /\ e.t = x.t + step /\ e.r = x.r
    BY <1>1, <2>1 DEF Entry
  <2>3. step >= offset - (ev.wall - ev.at)
    BY <1>1, <1>2, <1>5, <1>6, <1>7
  <2> HIDE DEF step
  <2> QED BY <1>1, <1>2, <1>3, <1>7, <2>2, <2>3
<1>9. CASE ~Stepped(ev)
  <2>1. e \in ledger.entries BY <1>9 DEF Rebase
  <2>2. e.t \in Int /\ e.r \in Nat BY <1>1, <2>1 DEF Entry
  <2>3. step <= Skew /\ (ev.boot = boot => -step <= Skew)
    BY <1>1, <1>7, <1>9 DEF Stepped
  <2> HIDE DEF step
  <2>4. ev.wall - ev.at >= offset
    BY <1>1, <1>2, <1>4, <1>5, <1>6, <1>7, <2>3
  <2> QED BY <1>1, <1>2, <1>3, <2>1, <2>2, <2>4
<1> QED BY <1>8, <1>9

\* The lock's holder is unique over every step.
LEMMA LockStep == TypeInv /\ LockOK /\ [Next]_vars => LockOK'
<1> SUFFICES ASSUME TypeInv, LockOK, [Next]_vars PROVE LockOK' OBVIOUS
<1> USE DEF LockOK, Holds
<1>t. TypeOK /\ NoOne \notin Procs BY DutyAssumption DEF TypeInv
<1>p. pc \in [Procs -> {"idle", "create", "exists", "flock", "read", "write", "sync",
                        "decide", "unlock", "granted"}] BY <1>t DEF TypeOK
<1>1. ASSUME NEW p \in Procs, NEW a \in Airtimes, OpenLock(p, a) PROVE LockOK'
  BY <1>p, <1>1 DEF OpenLock, Goto
<1>2. ASSUME NEW p \in Procs, OpenUsage(p) PROVE LockOK'
  BY <1>p, <1>2 DEF OpenUsage, Goto
<1>3. ASSUME NEW p \in Procs, CreateLock(p) \/ AwaitLedger(p) \/ AwaitTimeout(p) PROVE LockOK'
  BY <1>p, <1>3 DEF CreateLock, AwaitLedger, AwaitTimeout, Goto
<1>4. ASSUME NEW p \in Procs, Flock(p) PROVE LockOK'
  BY <1>t, <1>p, <1>4 DEF Flock, Goto
<1>5. ASSUME NEW p \in Procs, FlockTimeout(p) \/ Transmit(p) PROVE LockOK'
  BY <1>p, <1>5 DEF FlockTimeout, Transmit, Return, Goto
<1>6. ASSUME NEW p \in Procs, ReadLedger(p) \/ ReadFresh(p) PROVE LockOK'
  <2>1. pc[p] = "read" /\ holder' = holder BY <1>6 DEF ReadLedger, ReadFresh
  <2>2. \E l : pc' = [pc EXCEPT ![p] = l] BY <1>6 DEF ReadLedger, ReadFresh, Goto
  <2> QED BY <1>p, <2>1, <2>2
<1>7. ASSUME NEW p \in Procs, ReadFails(p) \/ Replace(p) \/ WriteFails(p) \/ Grant(p) \/ Refuse(p)
      PROVE  LockOK'
  BY <1>p, <1>7 DEF ReadFails, Replace, WriteFails, Grant, Refuse, Goto
<1>8. ASSUME NEW p \in Procs, SyncDir(p) PROVE LockOK'
  BY <1>p, <1>8 DEF SyncDir, Goto
<1>9. ASSUME NEW p \in Procs, Unlock(p) PROVE LockOK'
  <2>1. pc[p] = "unlock" /\ holder' = NoOne BY <1>9 DEF Unlock
  <2>2. \E l \in {"granted", "idle"} : pc' = [pc EXCEPT ![p] = l]
    BY <1>9 DEF Unlock, Return, Goto
  <2> QED BY <1>p, <2>1, <2>2
<1>10. ASSUME NEW p \in Procs, Crash(p) PROVE LockOK'
  BY <1>p, <1>10 DEF Crash, Return, Goto
<1>11. ASSUME Reboot PROVE LockOK'
  BY <1>11 DEF Reboot
<1>12. ASSUME StepClock \/ Tick \/ Damage \/ UNCHANGED vars PROVE LockOK'
  BY <1>12 DEF StepClock, Tick, Damage, vars
<1> QED BY <1>1, <1>2, <1>3, <1>4, <1>5, <1>6, <1>7, <1>8, <1>9, <1>10, <1>11, <1>12
        DEF Next, Call, Work, Environment

\* Every ledger, on disk or durable, keeps honest evidence over every step.
LEMMA LedgersStep ==
    ASSUME AgeInv, [Next]_vars PROVE LedgersOK'
<1>t. TypeOK BY DEF AgeInv, TypeInv
<1>n. /\ real \in Nat /\ boot \in Nat /\ bootReal \in Nat /\ offset \in Offsets
      /\ Offsets \subseteq Int
      /\ ledger \in Ledger /\ durable \in Ledger
  BY <1>t, DutyAssumption DEF TypeOK
<1>e. LedgersOK BY DEF AgeInv
<1> USE DEF LedgersOK, EvidenceOK
<1>1. ASSUME UNCHANGED <<ledger, durable, clock>> PROVE LedgersOK'
  BY <1>e, <1>1 DEF clock
<1>2. ASSUME NEW p \in Procs, Replace(p) PROVE LedgersOK'
  <2>1. ledger' = [kind |-> "ok", clock |-> EvidenceNow, entries |-> view[p]]
    BY <1>2 DEF Replace
  <2>2. durable' = durable /\ UNCHANGED clock BY <1>2 DEF Replace
  <2>3. \A e \in view[p] : e.t - e.r >= offset BY <1>2 DEF AgeInv, ViewOK, Replace
  <2>4. ClockOffset(EvidenceNow) = offset BY <1>n DEF ClockOffset, EvidenceNow, wall
  <2>5. ledger'.clock = EvidenceNow /\ ledger'.entries = view[p] BY <2>1
  <2>6. ClockOffset(ledger'.clock) = offset BY <2>4, <2>5
  <2>7. /\ EvidenceNow.at = real /\ EvidenceNow.boot = boot
        /\ EvidenceNow.mono = real - bootReal
    BY DEF EvidenceNow, mono
  <2>8. EvidenceOK(ledger)' BY <1>n, <2>2, <2>3, <2>5, <2>6, <2>7 DEF clock
  <2>9. EvidenceOK(durable)' BY <1>e, <2>2 DEF clock
  <2> QED BY <2>8, <2>9
<1>3. ASSUME NEW p \in Procs, SyncDir(p) PROVE LedgersOK'
  BY <1>e, <1>3 DEF SyncDir, clock
<1>4. ASSUME Reboot PROVE LedgersOK'
  <2>1. \A l \in Ledger : l.clock.boot \in Nat /\ l.clock.at \in Nat BY DEF Ledger, Evidence
  <2>2. real' = real /\ boot' = boot + 1 BY <1>4 DEF Reboot
  <2>3. \A l \in {ledger, durable} : EvidenceOK(l) BY <1>e
  <2>4. ledger' \in {ledger, durable} /\ durable' \in {ledger, durable} BY <1>4 DEF Reboot
  <2> QED BY <1>n, <2>1, <2>2, <2>3, <2>4
<1>5. ASSUME StepClock PROVE LedgersOK'
  BY <1>e, <1>5 DEF StepClock, disk
<1>6. ASSUME Tick PROVE LedgersOK'
  <2>1. \A l \in Ledger : l.clock.at \in Nat BY DEF Ledger, Evidence
  <2> QED BY <1>e, <1>n, <1>6, <2>1 DEF Tick, disk
<1>7. ASSUME Damage PROVE LedgersOK'
  BY <1>7 DEF Damage, NoLedger
<1>8. ASSUME NEW p \in Procs, Call(p) \/ Crash(p) PROVE LedgersOK'
  BY <1>1, <1>8 DEF Call, OpenUsage, OpenLock, Crash, disk
<1>9. ASSUME NEW p \in Procs, Work(p) PROVE LedgersOK'
  BY <1>1, <1>2, <1>3, <1>9
  DEF Work, CreateLock, AwaitLedger, AwaitTimeout, Flock, FlockTimeout, ReadLedger, ReadFresh,
      ReadFails, WriteFails, Grant, Refuse, Unlock, Transmit, disk
<1>10. ASSUME UNCHANGED vars PROVE LedgersOK'
  BY <1>1, <1>10 DEF vars, disk
<1> QED BY <1>4, <1>5, <1>6, <1>7, <1>8, <1>9, <1>10 DEF Next, Environment

\* While the flock is held the wall clock is not stepped, so what was read by
\* it stays comparable with it.
LEMMA LocalsStep ==
    ASSUME ~StepInside, AgeInv, [Next]_vars PROVE NowOK' /\ ViewOK'
<1> DEFINE Keeps == NowOK' /\ ViewOK'
<1>t. TypeOK /\ LockOK /\ NowOK /\ ViewOK BY DEF AgeInv, TypeInv
<1>p. /\ pc \in [Procs -> {"idle", "create", "exists", "flock", "read", "write", "sync",
                           "decide", "unlock", "granted"}]
      /\ now \in [Procs -> [wall : Int, real : Nat]]
      /\ view \in [Procs -> SUBSET Entry]
      /\ real \in Nat /\ offset \in Int /\ NoOne \notin Procs
  BY <1>t, DutyAssumption DEF TypeOK
<1> USE DEF NowOK, ViewOK, Holds
<1>1. ASSUME NEW p \in Procs, Call(p) PROVE Keeps
  BY <1>t, <1>p, <1>1 DEF Call, OpenLock, OpenUsage, Goto, local, clock
<1>2. ASSUME NEW p \in Procs, CreateLock(p) \/ AwaitLedger(p) \/ AwaitTimeout(p) PROVE Keeps
  BY <1>t, <1>p, <1>2 DEF CreateLock, AwaitLedger, AwaitTimeout, Goto, local, clock
<1>3. ASSUME NEW p \in Procs, Flock(p) PROVE Keeps
  <2>1. /\ now' = [now EXCEPT ![p] = [wall |-> wall, real |-> real]]
        /\ pc' = [pc EXCEPT ![p] = "read"] /\ view' = view /\ offset' = offset
    BY <1>3 DEF Flock, Goto, clock
  <2>2. now'[p].wall - now'[p].real = offset BY <1>p, <2>1 DEF wall
  <2>3. NowOK' BY <1>t, <1>p, <2>1, <2>2
  <2>4. ViewOK' BY <1>t, <1>p, <2>1
  <2> QED BY <2>3, <2>4
<1>4. ASSUME NEW p \in Procs, Return(p), offset' = offset PROVE Keeps
  BY <1>t, <1>p, <1>4 DEF Return, Goto
<1>5. ASSUME NEW p \in Procs, ReadLedger(p) PROVE Keeps
  <2> DEFINE es == Rebase(ledger.entries, ledger.clock)
  <2>1. \A e \in es : e.t - e.r >= offset
    BY <1>t, <1>5, RebaseAge DEF AgeInv, LedgersOK, ReadLedger, Readable
  <2> HIDE DEF es
  <2>2. view' = [view EXCEPT ![p] = Kept(es, now[p].wall)] BY <1>5 DEF ReadLedger, es
  <2>3. /\ pc[p] = "read" /\ UNCHANGED <<now, clock>>
        /\ \E l : pc' = [pc EXCEPT ![p] = l]
    BY <1>5 DEF ReadLedger, Goto
  <2>4. view'[p] \subseteq es BY <1>p, <2>2 DEF Kept
  <2>5. NowOK' BY <1>t, <1>p, <2>3 DEF clock
  <2>6. ViewOK' BY <1>t, <1>p, <2>1, <2>2, <2>3, <2>4 DEF clock
  <2> QED BY <2>5, <2>6
<1>6. ASSUME NEW p \in Procs, ReadFresh(p) PROVE Keeps
  <2>1. /\ pc[p] = "read" /\ view' = [view EXCEPT ![p] = {}] /\ UNCHANGED <<now, clock>>
        /\ \E l : pc' = [pc EXCEPT ![p] = l]
    BY <1>6 DEF ReadFresh, Goto
  <2> QED BY <1>t, <1>p, <2>1 DEF clock
<1>7. ASSUME NEW p \in Procs, ReadFails(p) \/ Replace(p) \/ WriteFails(p) \/ Refuse(p) PROVE Keeps
  BY <1>t, <1>p, <1>7 DEF ReadFails, Replace, WriteFails, Refuse, Goto, local, clock
<1>8. ASSUME NEW p \in Procs, SyncDir(p) PROVE Keeps
  BY <1>t, <1>p, <1>8 DEF SyncDir, Goto, local, clock
<1>9. ASSUME NEW p \in Procs, Grant(p) PROVE Keeps
  <2> DEFINE e == [id |-> nextId, t |-> now[p].wall, a |-> air[p], r |-> now[p].real]
  <2>1. e.t - e.r = offset BY <1>t, <1>9 DEF Grant
  <2> HIDE DEF e
  <2>2. /\ pc[p] = "decide" /\ pc' = [pc EXCEPT ![p] = "write"]
        /\ view' = [view EXCEPT ![p] = @ \cup {e}] /\ UNCHANGED <<now, clock>>
    BY <1>9 DEF Grant, Goto, e
  <2> QED BY <1>t, <1>p, <2>1, <2>2 DEF clock
<1>10. ASSUME NEW p \in Procs, Unlock(p) PROVE Keeps
  <2>1. CASE ~Return(p)
    BY <1>t, <1>p, <1>10, <2>1 DEF Unlock, Goto, local, clock
  <2>2. CASE Return(p)
    BY <1>4, <1>10, <2>2 DEF Unlock, clock
  <2> QED BY <2>1, <2>2
<1>11. ASSUME NEW p \in Procs, FlockTimeout(p) \/ Transmit(p) \/ Crash(p) PROVE Keeps
  BY <1>4, <1>11 DEF FlockTimeout, Transmit, Crash, clock
<1>12. ASSUME Reboot PROVE Keeps
  BY <1>12 DEF Reboot
<1>13. ASSUME StepClock PROVE Keeps
  <2>1. \A p \in Procs : pc[p] \notin {"read", "write", "sync", "decide", "unlock"}
    BY <1>t, <1>p, <1>13 DEF StepClock, LockOK
  <2> QED BY <2>1, <1>13 DEF StepClock, local
<1>14. ASSUME Tick \/ Damage \/ UNCHANGED vars PROVE Keeps
  BY <1>t, <1>14 DEF Tick, Damage, vars, local, clock
<1> QED BY <1>1, <1>2, <1>3, <1>5, <1>6, <1>7, <1>8, <1>9, <1>10, <1>11, <1>12, <1>13, <1>14
        DEF Next, Work, Environment

\* AgeInv is inductive when no clock step falls into a critical section.
LEMMA AgeInit == Init => AgeInv
<1> SUFFICES ASSUME Init PROVE AgeInv OBVIOUS
<1>1. LockOK /\ NowOK /\ ViewOK BY DEF Init, LockOK, NowOK, ViewOK, Holds
<1>2. LedgersOK BY DEF Init, LedgersOK, EvidenceOK, NoLedger
<1> QED BY <1>1, <1>2, InitType DEF AgeInv

LEMMA AgeStep == ~StepInside /\ AgeInv /\ [Next]_vars => AgeInv'
BY NextType, LockStep, LedgersStep, LocalsStep DEF AgeInv

\* _rebase(), the flock and the evidence of _write() together: measured by the
\* evidence stored with it, no entry of a ledger (the visible one, or the one a
\* power loss would leave) looks older than it really is, for any number of
\* processes, clock steps, crashes and boots, if no step falls into the
\* milliseconds in which the flock is held.
THEOREM NeverOlder == ~StepInside => (Spec => []LedgerNotOlder)
<1> SUFFICES ASSUME ~StepInside PROVE Spec => []LedgerNotOlder OBVIOUS
<1>1. AgeInv /\ [Next]_vars => AgeInv'
  BY AgeStep
<1>2. AgeInv => LedgerNotOlder
  <2> SUFFICES ASSUME AgeInv, NEW l \in {ledger, durable}, l.kind = "ok", NEW e \in l.entries
               PROVE  l.clock.wall - e.t <= l.clock.at - e.r
    BY DEF LedgerNotOlder
  <2>1. e \in Entry /\ l.clock \in Evidence
    BY DEF AgeInv, TypeInv, TypeOK, Ledger
  <2>2. e.t - e.r >= l.clock.wall - l.clock.at
    BY DEF AgeInv, LedgersOK, EvidenceOK, ClockOffset
  <2> QED BY <2>1, <2>2 DEF Entry, Evidence
<1> QED BY <1>1, <1>2, AgeInit, PTL DEF Spec

-----------------------------------------------------------------------------
(* The first use                                                           *)

\* Only a reservation, never a status read, creates the lock file.
CreatorPays == \A p \in Procs : first[p] \/ pc[p] = "create" => air[p] \in Airtimes
FirstInv == TypeInv /\ CreatorPays /\ FirstUseCompletes

LEMMA CreatorStep == TypeInv /\ CreatorPays /\ [Next]_vars => CreatorPays'
<1> SUFFICES ASSUME TypeInv, CreatorPays, [Next]_vars PROVE CreatorPays' OBVIOUS
<1>t. /\ pc \in [Procs -> {"idle", "create", "exists", "flock", "read", "write", "sync",
                           "decide", "unlock", "granted"}]
      /\ first \in [Procs -> BOOLEAN] /\ air \in [Procs -> Airtimes \cup {Status}]
      /\ why \in [Procs -> {"none", "init", "rebase", "grant"}] /\ pending \in [Procs -> BOOLEAN]
      /\ TypeOK
  BY DEF TypeInv, TypeOK
<1> USE DEF CreatorPays
<1>1. ASSUME NEW p \in Procs, NEW a \in Airtimes, OpenLock(p, a) PROVE CreatorPays'
  BY <1>t, <1>1 DEF OpenLock, Goto
<1>2. ASSUME NEW p \in Procs, OpenUsage(p) PROVE CreatorPays'
  BY <1>t, <1>2 DEF OpenUsage, Goto, local
<1>3. ASSUME NEW p \in Procs, CreateLock(p) PROVE CreatorPays'
  BY <1>t, <1>3 DEF CreateLock, Goto
<1>4. ASSUME NEW p \in Procs, UNCHANGED <<first, air>>,
             \E l : pc' = [pc EXCEPT ![p] = l] /\ l # "create"
      PROVE  CreatorPays'
  BY <1>t, <1>4
<1>5. ASSUME NEW p \in Procs, Return(p) PROVE CreatorPays'
  BY <1>t, <1>5 DEF Return, Goto
<1>6. ASSUME NEW p \in Procs, Crash(p) PROVE CreatorPays'
  BY <1>5, <1>6 DEF Crash
<1>7. ASSUME NEW p \in Procs, AwaitLedger(p) \/ AwaitTimeout(p) \/ Flock(p) \/ ReadFails(p)
             \/ Replace(p) \/ WriteFails(p) \/ Grant(p) \/ Refuse(p)
      PROVE  CreatorPays'
  BY <1>4, <1>7 DEF AwaitLedger, AwaitTimeout, Flock, ReadFails, Replace, WriteFails, Grant,
                    Refuse, Goto, local
<1>8. ASSUME NEW p \in Procs, ReadLedger(p) PROVE CreatorPays'
  <2>1. PICK b \in BOOLEAN : pc' = [pc EXCEPT ![p] = AfterRead(p, b).pc]
    BY <1>8 DEF ReadLedger, Goto, Stepped
  <2> QED BY <1>4, <1>8, <1>t, <2>1, AfterReadType DEF ReadLedger
<1>9. ASSUME NEW p \in Procs, ReadFresh(p) PROVE CreatorPays'
  BY <1>4, <1>9, <1>t, AfterReadType DEF ReadFresh, Goto
<1>10. ASSUME NEW p \in Procs, SyncDir(p) PROVE CreatorPays'
  BY <1>4, <1>10 DEF SyncDir, Goto, local
<1>11. ASSUME NEW p \in Procs, Unlock(p) PROVE CreatorPays'
  BY <1>4, <1>5, <1>11 DEF Unlock, Goto, local
<1>12. ASSUME NEW p \in Procs, FlockTimeout(p) \/ Transmit(p) PROVE CreatorPays'
  BY <1>5, <1>12 DEF FlockTimeout, Transmit
<1>13. ASSUME Environment PROVE CreatorPays'
  BY <1>13 DEF Environment, Reboot, StepClock, Tick, Damage, local
<1>14. ASSUME UNCHANGED vars PROVE CreatorPays'
  BY <1>14 DEF vars, local
<1> QED BY <1>1, <1>2, <1>3, <1>6, <1>7, <1>8, <1>9, <1>10, <1>11, <1>12, <1>13, <1>14
        DEF Next, Call, Work

\* The creator of the lock file goes through to the rename, and what stops it is
\* a fault; no other process moves it or undoes its work.
LEMMA FirstStep == FirstInv /\ [Next]_vars => FirstInv'
<1> SUFFICES ASSUME FirstInv, [Next]_vars PROVE FirstUseCompletes'
  BY NextType, CreatorStep DEF FirstInv
<1>t. /\ pc \in [Procs -> {"idle", "create", "exists", "flock", "read", "write", "sync",
                           "decide", "unlock", "granted"}]
      /\ first \in [Procs -> BOOLEAN] /\ air \in [Procs -> Airtimes \cup {Status}]
      /\ faulted \in BOOLEAN /\ pending \in [Procs -> BOOLEAN]
      /\ Status \notin Airtimes /\ TypeOK
  BY DutyAssumption DEF FirstInv, TypeInv, TypeOK, Status
<1> DEFINE Creating(q) == first[q] /\ pc[q] \in {"flock", "read", "write"}
<1>i. lockFile /\ ledger.kind = "missing" /\ ~faulted => \E q \in Procs : Creating(q)
  BY DEF FirstInv, FirstUseCompletes
<1>1. ASSUME faulted' = TRUE PROVE FirstUseCompletes'
  BY <1>1 DEF FirstUseCompletes
<1>2. ASSUME UNCHANGED <<lockFile, ledger, faulted>>,
             \A q \in Procs : Creating(q) => Creating(q)'
      PROVE  FirstUseCompletes'
  BY <1>i, <1>2 DEF FirstUseCompletes
<1>3. ASSUME NEW p \in Procs, ~Creating(p), UNCHANGED <<lockFile, ledger, faulted>>,
             \E l, b : pc' = [pc EXCEPT ![p] = l] /\ first' \in {first, [first EXCEPT ![p] = b]}
      PROVE  FirstUseCompletes'
  BY <1>2, <1>3, <1>t
<1>4. ASSUME NEW p \in Procs, Call(p) PROVE FirstUseCompletes'
  BY <1>3, <1>4 DEF Call, OpenLock, OpenUsage, Goto, disk, local
<1>5. ASSUME NEW p \in Procs, CreateLock(p) PROVE FirstUseCompletes'
  <2>1. CASE lockFile
    BY <1>2, <1>5, <1>t, <2>1 DEF CreateLock, Goto
  <2>2. CASE ~lockFile
    <3>1. first'[p] /\ pc'[p] = "flock"
      BY <1>5, <1>t, <2>2 DEF CreateLock, Goto
    <3> QED BY <3>1 DEF FirstUseCompletes
  <2> QED BY <2>1, <2>2
<1>6. ASSUME NEW p \in Procs, AwaitLedger(p) \/ AwaitTimeout(p) PROVE FirstUseCompletes'
  BY <1>3, <1>6 DEF AwaitLedger, AwaitTimeout, Goto, disk, local
<1>7. ASSUME NEW p \in Procs, Flock(p) PROVE FirstUseCompletes'
  BY <1>2, <1>7, <1>t DEF Flock, Goto, disk
<1>8. ASSUME NEW p \in Procs, FlockTimeout(p) \/ WriteFails(p) \/ Crash(p) PROVE FirstUseCompletes'
  BY <1>1, <1>8 DEF FlockTimeout, WriteFails, Crash
<1>9. ASSUME NEW p \in Procs, ReadLedger(p) PROVE FirstUseCompletes'
  BY <1>9 DEF ReadLedger, Readable, FirstUseCompletes, disk
<1>10. ASSUME NEW p \in Procs, ReadFresh(p) PROVE FirstUseCompletes'
  <2>1. first[p] /\ air[p] \in Airtimes
    BY <1>10 DEF ReadFresh, Fresh, FirstInv, CreatorPays
  <2>2. AfterRead(p, pending[p]).pc = "write"
    BY <1>t, <2>1 DEF AfterRead, Label
  <2>3. pc' = [pc EXCEPT ![p] = "write"] /\ UNCHANGED <<first, lockFile, ledger, faulted>>
    BY <1>10, <2>2 DEF ReadFresh, Goto, disk
  <2> QED BY <1>2, <1>t, <2>3
<1>11. ASSUME NEW p \in Procs, ReadFails(p) PROVE FirstUseCompletes'
  <2>1. CASE ledger.kind = "missing"
    BY <1>3, <1>11, <2>1 DEF ReadFails, Fresh, Goto, disk, local
  <2>2. CASE ledger.kind # "missing"
    BY <1>11, <2>2 DEF ReadFails, FirstUseCompletes, disk
  <2> QED BY <2>1, <2>2
<1>12. ASSUME NEW p \in Procs, Replace(p) PROVE FirstUseCompletes'
  BY <1>12 DEF Replace, FirstUseCompletes
<1>13. ASSUME NEW p \in Procs, SyncDir(p) \/ Grant(p) \/ Refuse(p) PROVE FirstUseCompletes'
  BY <1>3, <1>13 DEF SyncDir, Grant, Refuse, Goto, disk, local
<1>14. ASSUME NEW p \in Procs, Unlock(p) \/ Transmit(p) PROVE FirstUseCompletes'
  BY <1>3, <1>14 DEF Unlock, Transmit, Return, Goto, disk, local
<1>15. ASSUME Environment PROVE FirstUseCompletes'
  BY <1>1, <1>2, <1>15 DEF Environment, Reboot, StepClock, Tick, Damage, disk, local
<1>16. ASSUME UNCHANGED vars PROVE FirstUseCompletes'
  BY <1>2, <1>16 DEF vars, disk, local
<1> QED BY <1>4, <1>5, <1>6, <1>7, <1>8, <1>9, <1>10, <1>11, <1>12, <1>13, <1>14, <1>15, <1>16
        DEF Next, Work

\* _open_locked() and reserve(): for any number of processes racing to be first,
\* a lock file without a ledger has, as long as nothing failed, a creator on its
\* way to write the ledger, so the account never ends up locked and unusable.
THEOREM FirstUse == Spec => []FirstUseCompletes
<1>1. Init => FirstInv
  BY InitType DEF Init, FirstInv, CreatorPays, FirstUseCompletes
<1>2. FirstInv => FirstUseCompletes
  BY DEF FirstInv
<1> QED BY <1>1, <1>2, FirstStep, PTL DEF Spec

-----------------------------------------------------------------------------
(* No entry lies in the future of its evidence                             *)

Editing(p) == pc[p] \in {"decide", "write", "sync"}

\* The time a process read is not ahead of time.
NowPast == \A p \in Procs : now[p].real <= real

\* Neither a ledger nor what a process is about to write lies further ahead of
\* the clock than the skew.
StampedOK(l) == l.kind = "ok" => \A e \in l.entries : e.t <= l.clock.wall + Skew
ViewStamped == \A p \in Procs : Editing(p) => \A e \in view[p] : e.t <= wall + Skew
StampInv == AgeInv /\ NowPast /\ StampedOK(ledger) /\ StampedOK(durable) /\ ViewStamped

LEMMA NowPastStep == TypeOK /\ NowPast /\ [Next]_vars => NowPast'
<1> SUFFICES ASSUME TypeOK, NowPast, [Next]_vars PROVE NowPast' OBVIOUS
<1>t. now \in [Procs -> [wall : Int, real : Nat]] /\ real \in Nat
  BY DEF TypeOK
<1> USE DEF NowPast
<1>1. ASSUME UNCHANGED now, real' \in {real, real + 1} PROVE NowPast'
  BY <1>t, <1>1
<1>2. ASSUME NEW p \in Procs, Return(p), real' = real PROVE NowPast'
  BY <1>t, <1>2 DEF Return, NoTime
<1>3. ASSUME NEW p \in Procs, Flock(p) PROVE NowPast'
  BY <1>t, <1>3 DEF Flock, clock
<1>4. ASSUME NEW p \in Procs, FlockTimeout(p) \/ Transmit(p) \/ Crash(p) PROVE NowPast'
  BY <1>2, <1>4 DEF FlockTimeout, Transmit, Crash, clock
<1>5. ASSUME NEW p \in Procs, Unlock(p) PROVE NowPast'
  BY <1>1, <1>2, <1>5 DEF Unlock, local, clock
<1>6. ASSUME NEW p \in Procs, Work(p) PROVE NowPast'
  BY <1>1, <1>3, <1>4, <1>5, <1>6
  DEF Work, CreateLock, AwaitLedger, AwaitTimeout, ReadLedger, ReadFresh, ReadFails, Replace,
      SyncDir, WriteFails, Grant, Refuse, local, clock
<1>7. ASSUME NEW p \in Procs, Call(p) PROVE NowPast'
  BY <1>1, <1>7 DEF Call, OpenLock, OpenUsage, local, clock
<1>8. ASSUME Reboot PROVE NowPast'
  BY <1>t, <1>8 DEF Reboot, NoTime
<1>9. ASSUME StepClock \/ Tick \/ Damage \/ UNCHANGED vars PROVE NowPast'
  BY <1>1, <1>9 DEF StepClock, Tick, Damage, vars, local, clock
<1> QED BY <1>4, <1>6, <1>7, <1>8, <1>9 DEF Next, Environment

\* _read(): a plausible ledger stays plausible through _rebase(), whichever way
\* the clock was stepped.
LEMMA RebaseStamped ==
    ASSUME TypeOK, EvidenceOK(ledger), StampedOK(ledger), Readable,
           NEW e \in Rebase(ledger.entries, ledger.clock)
    PROVE  e.t <= wall + Skew
<1> DEFINE ev == ledger.clock
           step == ClockStep(ev)
<1>1. /\ ev \in Evidence /\ ledger.entries \in SUBSET Entry /\ ledger.kind = "ok"
      /\ real \in Nat /\ offset \in Int /\ boot \in Nat /\ bootReal \in Nat /\ Skew \in Nat
  BY DutyAssumption DEF TypeOK, Ledger, Readable
<1>2. /\ ev.boot \in Nat /\ ev.mono \in Int /\ ev.wall \in Int /\ ev.at \in Nat /\ wall \in Int
  BY <1>1 DEF Evidence, wall
<1>3. ev.at <= real /\ (ev.boot = boot => ev.mono = ev.at - bootReal)
  BY <1>1 DEF EvidenceOK
<1>4. CASE Stepped(ev)
  <2>1. PICK x \in ledger.entries : e = [x EXCEPT !.t = @ + step]
    BY <1>4 DEF Rebase
  <2>2. x.t \in Int /\ e.t = x.t + step /\ x.t <= ev.wall + Skew
    BY <1>1, <2>1 DEF Entry, StampedOK
  <2>3. step \in Int /\ step <= wall - ev.wall
    BY <1>1, <1>2, <1>3 DEF ClockStep, wall, mono
  <2> HIDE DEF step
  <2> QED BY <1>1, <1>2, <2>2, <2>3
<1>5. CASE ~Stepped(ev)
  BY <1>5 DEF Rebase, Readable, Plausible
<1> QED BY <1>4, <1>5

LEMMA StampStep == ~StepInside /\ StampInv /\ [Next]_vars => StampInv'
<1> SUFFICES ASSUME ~StepInside, StampInv, [Next]_vars
             PROVE  StampedOK(ledger)' /\ StampedOK(durable)' /\ ViewStamped'
  BY AgeStep, NowPastStep DEF StampInv, AgeInv, TypeInv
<1>t. /\ TypeOK /\ LockOK /\ NowOK /\ NowPast
      /\ StampedOK(ledger) /\ StampedOK(durable) /\ ViewStamped
  BY DEF StampInv, AgeInv, TypeInv
<1>p. /\ pc \in [Procs -> {"idle", "create", "exists", "flock", "read", "write", "sync",
                           "decide", "unlock", "granted"}]
      /\ now \in [Procs -> [wall : Int, real : Nat]]
      /\ view \in [Procs -> SUBSET Entry]
      /\ real \in Nat /\ offset \in Int /\ Skew \in Nat /\ NoOne \notin Procs
  BY <1>t, DutyAssumption DEF TypeOK
<1> DEFINE Ledgers == StampedOK(ledger)' /\ StampedOK(durable)'
<1>1. ASSUME UNCHANGED <<ledger, durable>> PROVE Ledgers
  BY <1>t, <1>1 DEF StampedOK
<1>2. ASSUME NEW p \in Procs, UNCHANGED <<view, clock>>,
             \E l : pc' = [pc EXCEPT ![p] = l] /\ (Editing(p) \/ l \notin {"decide", "write", "sync"})
      PROVE  ViewStamped'
  BY <1>t, <1>p, <1>2 DEF ViewStamped, Editing, wall, clock
<1>3. ASSUME NEW p \in Procs, Return(p), UNCHANGED clock PROVE ViewStamped'
  BY <1>t, <1>p, <1>3 DEF Return, Goto, ViewStamped, Editing, wall, clock
<1>4. ASSUME NEW p \in Procs, Call(p) PROVE Ledgers /\ ViewStamped'
  BY <1>1, <1>2, <1>4 DEF Call, OpenLock, OpenUsage, Goto, disk, local
<1>5. ASSUME NEW p \in Procs, CreateLock(p) \/ AwaitLedger(p) \/ AwaitTimeout(p) \/ Flock(p)
             \/ ReadFails(p) \/ WriteFails(p) \/ Refuse(p)
      PROVE  Ledgers /\ ViewStamped'
  BY <1>1, <1>2, <1>5 DEF CreateLock, AwaitLedger, AwaitTimeout, Flock, ReadFails, WriteFails,
                          Refuse, Goto, disk, local
<1>6. ASSUME NEW p \in Procs, FlockTimeout(p) \/ Transmit(p) \/ Crash(p) PROVE Ledgers /\ ViewStamped'
  BY <1>1, <1>3, <1>6 DEF FlockTimeout, Transmit, Crash, disk
<1>7. ASSUME NEW p \in Procs, Unlock(p) PROVE Ledgers /\ ViewStamped'
  BY <1>1, <1>2, <1>3, <1>7 DEF Unlock, Goto, disk, local
<1>8. ASSUME NEW p \in Procs, ReadLedger(p) PROVE Ledgers /\ ViewStamped'
  <2> DEFINE es == Rebase(ledger.entries, ledger.clock)
  <2>1. \A e \in es : e.t <= wall + Skew
    BY <1>t, <1>8, RebaseStamped DEF StampInv, AgeInv, LedgersOK, ReadLedger
  <2> HIDE DEF es
  <2>2. view' = [view EXCEPT ![p] = Kept(es, now[p].wall)] BY <1>8 DEF ReadLedger, es
  <2>3. (\E l : pc' = [pc EXCEPT ![p] = l]) /\ UNCHANGED <<ledger, durable, clock>>
    BY <1>8 DEF ReadLedger, Goto, disk
  <2>4. view'[p] \subseteq es BY <1>p, <2>2 DEF Kept
  <2>5. wall' = wall BY <2>3 DEF wall, clock
  <2>6. ViewStamped' BY <1>t, <1>p, <2>1, <2>2, <2>3, <2>4, <2>5 DEF ViewStamped, Editing
  <2> QED BY <1>1, <2>3, <2>6
<1>9. ASSUME NEW p \in Procs, ReadFresh(p) PROVE Ledgers /\ ViewStamped'
  <2>1. /\ view' = [view EXCEPT ![p] = {}] /\ UNCHANGED <<ledger, durable, clock>>
        /\ \E l : pc' = [pc EXCEPT ![p] = l]
    BY <1>9 DEF ReadFresh, Goto, disk
  <2>2. ViewStamped' BY <1>t, <1>p, <2>1 DEF ViewStamped, Editing, wall, clock
  <2> QED BY <1>1, <2>1, <2>2
<1>10. ASSUME NEW p \in Procs, Replace(p) PROVE Ledgers /\ ViewStamped'
  <2>1. /\ ledger' = [kind |-> "ok", clock |-> EvidenceNow, entries |-> view[p]]
        /\ UNCHANGED <<durable, view, clock>> /\ pc[p] = "write"
        /\ pc' = [pc EXCEPT ![p] = "sync"]
    BY <1>10 DEF Replace, Goto, local
  <2>2. ledger'.clock.wall = wall /\ ledger'.entries = view[p]
    BY <2>1 DEF EvidenceNow
  <2>3. \A e \in view[p] : e.t <= wall + Skew
    BY <1>t, <2>1 DEF ViewStamped, Editing
  <2>4. StampedOK(ledger)' BY <2>2, <2>3 DEF StampedOK
  <2>5. StampedOK(durable)' BY <1>t, <2>1 DEF StampedOK
  <2>6. ViewStamped' BY <1>2, <2>1 DEF Editing
  <2> QED BY <2>4, <2>5, <2>6
<1>11. ASSUME NEW p \in Procs, SyncDir(p) PROVE Ledgers /\ ViewStamped'
  <2>1. ViewStamped' BY <1>2, <1>11 DEF SyncDir, Goto, Editing, local
  <2>2. durable' = ledger /\ ledger' = ledger BY <1>11 DEF SyncDir
  <2> QED BY <1>t, <2>1, <2>2 DEF StampedOK
<1>12. ASSUME NEW p \in Procs, Grant(p) PROVE Ledgers /\ ViewStamped'
  <2> DEFINE e == [id |-> nextId, t |-> now[p].wall, a |-> air[p], r |-> now[p].real]
  <2>1. now[p].wall - now[p].real = offset /\ now[p].real <= real
    BY <1>t, <1>12 DEF Grant, NowOK, NowPast, Holds
  <2>2. e.t <= wall + Skew BY <1>p, <2>1 DEF wall
  <2> HIDE DEF e
  <2>3. /\ pc[p] = "decide" /\ pc' = [pc EXCEPT ![p] = "write"]
        /\ view' = [view EXCEPT ![p] = @ \cup {e}] /\ UNCHANGED <<ledger, durable, clock>>
    BY <1>12 DEF Grant, Goto, e, disk
  <2>4. wall' = wall BY <2>3 DEF wall, clock
  <2>5. ViewStamped' BY <1>t, <1>p, <2>2, <2>3, <2>4 DEF ViewStamped, Editing
  <2> QED BY <1>1, <2>3, <2>5
<1>13. ASSUME Reboot PROVE Ledgers /\ ViewStamped'
  <2>1. ViewStamped' BY <1>13 DEF Reboot, ViewStamped, Editing
  <2>2. ledger' \in {ledger, durable} /\ durable' \in {ledger, durable} BY <1>13 DEF Reboot
  <2> QED BY <1>t, <2>1, <2>2 DEF StampedOK
<1>14. ASSUME StepClock PROVE Ledgers /\ ViewStamped'
  <2>1. \A p \in Procs : ~Editing(p)
    BY <1>t, <1>p, <1>14 DEF StepClock, LockOK, Holds, Editing
  <2>2. ViewStamped' BY <1>14, <2>1 DEF StepClock, ViewStamped, Editing
  <2> QED BY <1>1, <1>14, <2>2 DEF StepClock, disk
<1>15. ASSUME Tick PROVE Ledgers /\ ViewStamped'
  <2>1. wall' = wall + 1 /\ wall \in Int BY <1>p, <1>15 DEF Tick, wall
  <2>2. \A p \in Procs : \A e \in view[p] : e.t \in Int BY <1>p DEF Entry
  <2>3. UNCHANGED <<view, pc, ledger, durable>> BY <1>15 DEF Tick, local, disk
  <2>4. ViewStamped' BY <1>t, <1>p, <2>1, <2>2, <2>3 DEF ViewStamped, Editing
  <2> QED BY <1>1, <2>3, <2>4
<1>16. ASSUME Damage PROVE Ledgers /\ ViewStamped'
  BY <1>t, <1>16 DEF Damage, NoLedger, StampedOK, ViewStamped, Editing, wall, local, clock
<1>17. ASSUME UNCHANGED vars PROVE Ledgers /\ ViewStamped'
  BY <1>t, <1>1, <1>17 DEF vars, disk, ViewStamped, Editing, wall, local, clock
<1> QED BY <1>4, <1>5, <1>6, <1>7, <1>8, <1>9, <1>10, <1>11, <1>12, <1>13, <1>14, <1>15, <1>16, <1>17
        DEF Next, Work, Environment

\* _read() and _rebase(): if no clock step falls into a critical section, no ledger
\* ever written lies further in the future of its own evidence than the skew, so
\* only a clock set back afterwards makes the future check refuse it.
THEOREM NeverAhead == ~StepInside => (Spec => []StampsPlausible)
<1> SUFFICES ASSUME ~StepInside PROVE Spec => []StampsPlausible OBVIOUS
<1>1. Init => StampInv
  <2> SUFFICES ASSUME Init PROVE StampInv OBVIOUS
  <2>1. NowPast BY DEF Init, NowPast, NoTime
  <2>2. StampedOK(ledger) /\ StampedOK(durable) /\ ViewStamped
    BY DEF Init, StampedOK, NoLedger, ViewStamped, Editing
  <2> QED BY <2>1, <2>2, AgeInit DEF StampInv
<1>2. StampInv /\ [Next]_vars => StampInv'
  BY StampStep
<1>3. StampInv => StampsPlausible
  BY DEF StampInv, StampedOK, StampsPlausible
<1> QED BY <1>1, <1>2, <1>3, PTL DEF Spec

-----------------------------------------------------------------------------
(* Within one boot an entry ages by real time, exactly                     *)

\* A number stands for one entry, and was given out.
Unambiguous(es) == \A e, f \in es : e.id = f.id => e.t = f.t
Numbered(es) == \A e \in es : e.id < nextId

\* An entry in es, by a clock that is o off, and the one of its number in fs, by a
\* clock that is q off, mean the same moment.
SameMoment(es, o, fs, q) == \A e \in es, f \in fs : e.id = f.id => e.t - o = f.t - q

NumberOK ==
    /\ Numbered(ledger.entries) /\ Unambiguous(ledger.entries)
    /\ Numbered(durable.entries) /\ Unambiguous(durable.entries)
    /\ \A p \in Procs : Editing(p) => Numbered(view[p]) /\ Unambiguous(view[p])

\* The durable ledger is an earlier state of the ledger.
DurableOlder ==
    durable.kind = "ok" =>
        /\ ledger.kind = "ok" /\ durable.clock.boot <= ledger.clock.boot
        /\ durable.clock.boot = ledger.clock.boot =>
              SameMoment(durable.entries, ClockOffset(durable.clock),
                         ledger.entries, ClockOffset(ledger.clock))

\* What a process is about to write means what the ledgers of this boot mean.
ViewAgrees(l) == \A p \in Procs : Editing(p) /\ l.kind = "ok" /\ l.clock.boot = boot =>
    SameMoment(l.entries, ClockOffset(l.clock), view[p], offset)

ExactInv == AgeInv /\ NumberOK /\ DurableOlder /\ ViewAgrees(ledger) /\ ViewAgrees(durable)

\* _rebase() shifts all entries alike, and within one boot by what the clock was
\* stepped by: neither more nor less.
LEMMA RebaseShift ==
    ASSUME TypeOK, EvidenceOK(ledger), ledger.kind = "ok"
    PROVE  \E d \in Int :
              /\ ledger.clock.boot = boot => d = offset - ClockOffset(ledger.clock)
              /\ \A f \in Rebase(ledger.entries, ledger.clock) : \E e \in ledger.entries :
                    f.id = e.id /\ f.a = e.a /\ f.r = e.r /\ f.t = e.t + d
              /\ \A e \in ledger.entries : \E f \in Rebase(ledger.entries, ledger.clock) :
                    f.id = e.id /\ f.a = e.a /\ f.r = e.r
<1> DEFINE ev == ledger.clock
           step == ClockStep(ev)
           off == ClockOffset(ev)
<1>1. /\ ev \in Evidence /\ ledger.entries \in SUBSET Entry
      /\ real \in Nat /\ offset \in Int /\ boot \in Nat /\ bootReal \in Nat /\ Skew \in Nat
  BY DutyAssumption DEF TypeOK, Ledger
<1>2. /\ ev.boot \in Nat /\ ev.mono \in Int /\ ev.wall \in Int /\ ev.at \in Nat
      /\ off = ev.wall - ev.at /\ off \in Int
  BY <1>1 DEF Evidence, ClockOffset
<1>3. /\ ev.boot = boot => ev.mono = ev.at - bootReal
      /\ off \in Offsets
  BY DEF EvidenceOK
<1>4. off = offset \/ off - offset > Skew \/ offset - off > Skew
  BY <1>3, DutyAssumption DEF TypeOK
<1>5. step \in Int /\ (ev.boot = boot => step = offset - off)
  BY <1>1, <1>2, <1>3 DEF ClockStep, wall, mono
<1>6. \A e \in ledger.entries : e.t \in Int
  BY <1>1 DEF Entry
<1> HIDE DEF step, off
<1>7. CASE Stepped(ev)
  <2>1. Rebase(ledger.entries, ev) = {[e EXCEPT !.t = @ + step] : e \in ledger.entries}
    BY <1>7 DEF Rebase, step
  <2>2. \A e \in ledger.entries :
           /\ [e EXCEPT !.t = @ + step].id = e.id /\ [e EXCEPT !.t = @ + step].a = e.a
           /\ [e EXCEPT !.t = @ + step].r = e.r /\ [e EXCEPT !.t = @ + step].t = e.t + step
    BY <1>1 DEF Entry
  <2>3. \A f \in Rebase(ledger.entries, ev) : \E e \in ledger.entries :
           f.id = e.id /\ f.a = e.a /\ f.r = e.r /\ f.t = e.t + step
    BY <2>1, <2>2
  <2>4. \A e \in ledger.entries : [e EXCEPT !.t = @ + step] \in Rebase(ledger.entries, ev)
    BY <2>1
  <2>5. \A e \in ledger.entries : \E f \in Rebase(ledger.entries, ev) :
           f.id = e.id /\ f.a = e.a /\ f.r = e.r
    BY <2>2, <2>4
  <2> QED BY <1>5, <2>3, <2>5 DEF off
<1>8. CASE ~Stepped(ev)
  <2>1. Rebase(ledger.entries, ev) = ledger.entries
    BY <1>8 DEF Rebase
  <2>2. ev.boot = boot => ~(step > Skew) /\ ~(-step > Skew)
    BY <1>8 DEF Stepped, step
  <2>3. ev.boot = boot => 0 = offset - off
    BY <1>1, <1>2, <1>4, <1>5, <2>2
  <2>4. \A e \in ledger.entries : e.t = e.t + 0
    BY <1>6
  <2>5. \A f \in Rebase(ledger.entries, ev) : \E e \in ledger.entries :
           f.id = e.id /\ f.a = e.a /\ f.r = e.r /\ f.t = e.t + 0
    BY <2>1, <2>4
  <2>6. \A e \in ledger.entries : \E f \in Rebase(ledger.entries, ev) :
           f.id = e.id /\ f.a = e.a /\ f.r = e.r
    BY <2>1
  <2>7. ledger.clock.boot = boot => 0 = offset - ClockOffset(ledger.clock) BY <2>3 DEF off
  <2> HIDE DEF ev
  <2> QED
    <3> WITNESS 0 \in Int
    <3> QED BY <2>5, <2>6, <2>7 DEF ev
<1> QED BY <1>7, <1>8

\* The steps that change the ledger: a rename, a power loss, damage.
LEMMA LedgerChange ==
    ASSUME [Next]_vars
    PROVE  ledger' = ledger \/ (\E p \in Procs : Replace(p)) \/ Reboot \/ Damage
BY DEF Next, Call, Work, Environment, OpenLock, OpenUsage, CreateLock, AwaitLedger, AwaitTimeout,
       Flock, FlockTimeout, ReadLedger, ReadFresh, ReadFails, SyncDir, WriteFails, Grant, Refuse,
       Unlock, Transmit, Crash, StepClock, Tick, disk, vars

LEMMA ExactStep == ~StepInside /\ ExactInv /\ [Next]_vars => ExactInv'
<1> DEFINE Exact == NumberOK /\ DurableOlder /\ ViewAgrees(ledger) /\ ViewAgrees(durable)
<1> SUFFICES ASSUME ~StepInside, ExactInv, [Next]_vars PROVE Exact'
  BY AgeStep DEF ExactInv
<1>t. /\ TypeOK /\ LockOK /\ LedgersOK
      /\ NumberOK /\ DurableOlder /\ ViewAgrees(ledger) /\ ViewAgrees(durable)
  BY DEF ExactInv, AgeInv, TypeInv
<1>p. /\ pc \in [Procs -> {"idle", "create", "exists", "flock", "read", "write", "sync",
                           "decide", "unlock", "granted"}]
      /\ now \in [Procs -> [wall : Int, real : Nat]]
      /\ view \in [Procs -> SUBSET Entry]
      /\ ledger \in Ledger /\ durable \in Ledger /\ nextId \in Nat
      /\ real \in Nat /\ offset \in Int /\ boot \in Nat /\ NoOne \notin Procs
  BY <1>t, DutyAssumption DEF TypeOK
<1>e. /\ ledger.entries \in SUBSET Entry /\ durable.entries \in SUBSET Entry
      /\ ledger.clock.boot \in Nat /\ durable.clock.boot \in Nat
      /\ ClockOffset(ledger.clock) \in Int /\ ClockOffset(durable.clock) \in Int
  BY <1>p DEF Ledger, Evidence, ClockOffset
<1> USE DEF NumberOK, DurableOlder, ViewAgrees, Editing
<1>1. ASSUME UNCHANGED <<ledger, durable, offset, boot, nextId>>, NEW p \in Procs,
             \A q \in Procs : q # p => view'[q] = view[q] /\ pc'[q] = pc[q],
             Editing(p)' => Editing(p) /\ view'[p] = view[p]
      PROVE  Exact'
  BY <1>t, <1>1 DEF Numbered
<1>2. ASSUME NEW p \in Procs, Return(p), UNCHANGED <<ledger, durable, clock, nextId>> PROVE Exact'
  BY <1>1, <1>2, <1>p DEF Return, Goto, clock
<1>3. ASSUME NEW p \in Procs, Call(p) PROVE Exact'
  BY <1>1, <1>3, <1>p DEF Call, OpenLock, OpenUsage, Goto, disk, local, clock, ghost
<1>4. ASSUME NEW p \in Procs, CreateLock(p) \/ AwaitLedger(p) \/ AwaitTimeout(p) \/ Flock(p)
             \/ ReadFails(p) \/ WriteFails(p) \/ Refuse(p)
      PROVE  Exact'
  BY <1>1, <1>4, <1>p DEF CreateLock, AwaitLedger, AwaitTimeout, Flock, ReadFails, WriteFails,
                          Refuse, Goto, disk, local, clock, ghost
<1>5. ASSUME NEW p \in Procs, FlockTimeout(p) \/ Transmit(p) \/ Crash(p) PROVE Exact'
  BY <1>2, <1>5 DEF FlockTimeout, Transmit, Crash, disk, ghost
<1>6. ASSUME NEW p \in Procs, Unlock(p) PROVE Exact'
  <2>1. CASE ~Return(p)
    BY <1>1, <1>6, <1>p, <2>1 DEF Unlock, Goto, disk, local, clock, ghost
  <2>2. CASE Return(p)
    BY <1>2, <1>6, <2>2 DEF Unlock, disk, ghost
  <2> QED BY <2>1, <2>2
<1>7. ASSUME NEW p \in Procs, NEW es \in SUBSET Entry, view' = [view EXCEPT ![p] = es],
             \E l : pc' = [pc EXCEPT ![p] = l],
             UNCHANGED <<ledger, durable, offset, boot, nextId>>,
             Numbered(es), Unambiguous(es),
             ledger.kind = "ok" /\ ledger.clock.boot = boot =>
                SameMoment(ledger.entries, ClockOffset(ledger.clock), es, offset),
             durable.kind = "ok" /\ durable.clock.boot = boot =>
                SameMoment(durable.entries, ClockOffset(durable.clock), es, offset)
      PROVE  Exact'
  <2>1. /\ view'[p] = es
        /\ \A q \in Procs : q # p => view'[q] = view[q] /\ pc'[q] = pc[q]
    BY <1>7, <1>p
  <2>2. ASSUME NEW q \in Procs, Editing(q)', q # p PROVE Editing(q) /\ view'[q] = view[q]
    BY <2>1, <2>2
  <2>3. NumberOK'
    BY <1>t, <1>7, <2>1, <2>2 DEF Numbered
  <2>4. DurableOlder'
    BY <1>t, <1>7
  <2>5. ViewAgrees(ledger)'
    BY <1>t, <1>7, <2>1, <2>2
  <2>6. ViewAgrees(durable)'
    BY <1>t, <1>7, <2>1, <2>2
  <2> QED BY <2>3, <2>4, <2>5, <2>6
<1>8. ASSUME NEW p \in Procs, ReadLedger(p) PROVE Exact'
  <2> DEFINE all == Rebase(ledger.entries, ledger.clock)
             es == Kept(all, now[p].wall)
             off == ClockOffset(ledger.clock)
  <2>1. PICK d \in Int :
           /\ ledger.clock.boot = boot => d = offset - off
           /\ \A f \in all : \E e \in ledger.entries :
                 f.id = e.id /\ f.a = e.a /\ f.r = e.r /\ f.t = e.t + d
    BY <1>t, <1>8, RebaseShift DEF LedgersOK, ReadLedger, Readable
  <2>2. es \in SUBSET Entry /\ es \subseteq all
    BY <1>t, <1>p, RebaseType DEF Ledger, Kept
  <2>3. \A f \in es : \E e \in ledger.entries : f.id = e.id /\ f.t = e.t + d
    BY <2>1, <2>2
  <2>4. view' = [view EXCEPT ![p] = es] /\ ledger.kind = "ok"
        /\ UNCHANGED <<ledger, durable, offset, boot, nextId>>
        /\ \E l : pc' = [pc EXCEPT ![p] = l]
    BY <1>8 DEF ReadLedger, Readable, Goto, disk, clock, ghost
  <2> HIDE DEF all, es, off
  <2>5. \A e \in ledger.entries : e.t \in Int /\ e.id \in Nat
    BY <1>e DEF Entry
  <2>6. Numbered(es)
    BY <1>t, <2>3, <2>5 DEF Numbered
  <2>7. Unambiguous(es)
    BY <1>t, <2>3, <2>5 DEF Unambiguous
  <2>8. \A f \in es : \A e \in ledger.entries : e.id = f.id => f.t = e.t + d
    BY <1>t, <2>3, <2>5 DEF Unambiguous
  <2>9. off \in Int /\ off = ClockOffset(ledger.clock)
    BY <1>e DEF off
  <2>10. ledger.clock.boot = boot => SameMoment(ledger.entries, off, es, offset)
    <3> SUFFICES ASSUME ledger.clock.boot = boot, NEW e \in ledger.entries, NEW f \in es, e.id = f.id
                 PROVE  e.t - off = f.t - offset
      BY DEF SameMoment
    <3>1. f.t = e.t + (offset - off) BY <2>1, <2>8
    <3> QED BY <1>p, <2>5, <2>9, <3>1
  <2>11. durable.kind = "ok" /\ durable.clock.boot = boot =>
            SameMoment(durable.entries, ClockOffset(durable.clock), es, offset)
    <3> SUFFICES ASSUME durable.kind = "ok", durable.clock.boot = boot,
                        NEW e \in durable.entries, NEW f \in es, e.id = f.id
                 PROVE  e.t - ClockOffset(durable.clock) = f.t - offset
      BY DEF SameMoment
    <3>1. ledger.clock.boot = boot
      <4>1. durable.clock.boot <= ledger.clock.boot
        BY <1>t
      <4>2. ledger.clock.boot <= boot
        BY <1>t, <2>4 DEF LedgersOK, EvidenceOK
      <4>3. ledger.clock.boot \in Nat /\ boot \in Nat
        BY <1>p, <1>e
      <4> QED BY <4>1, <4>2, <4>3
    <3>2. PICK g \in ledger.entries : f.id = g.id BY <2>3
    <3>3. g.t - off = f.t - offset BY <2>10, <3>1, <3>2 DEF SameMoment
    <3>4. e.t - ClockOffset(durable.clock) = g.t - off
      BY <1>t, <2>9, <3>1, <3>2 DEF SameMoment
    <3> QED BY <3>3, <3>4
  <2> QED BY <1>7, <2>2, <2>4, <2>6, <2>7, <2>9, <2>10, <2>11
<1>9. ASSUME NEW p \in Procs, ReadFresh(p) PROVE Exact'
  <2>1. /\ view' = [view EXCEPT ![p] = {}]
        /\ UNCHANGED <<ledger, durable, offset, boot, nextId>>
        /\ \E l : pc' = [pc EXCEPT ![p] = l]
    BY <1>9 DEF ReadFresh, Goto, disk, clock, ghost
  <2>2. /\ Numbered({}) /\ Unambiguous({}) /\ {} \in SUBSET Entry
        /\ SameMoment(ledger.entries, ClockOffset(ledger.clock), {}, offset)
        /\ SameMoment(durable.entries, ClockOffset(durable.clock), {}, offset)
    BY DEF Numbered, Unambiguous, SameMoment
  <2> QED BY <1>7, <2>1, <2>2
<1>10. ASSUME NEW p \in Procs, Replace(p) PROVE Exact'
  <2>1. /\ pc[p] = "write" /\ pc' = [pc EXCEPT ![p] = "sync"]
        /\ ledger' = [kind |-> "ok", clock |-> EvidenceNow, entries |-> view[p]]
        /\ UNCHANGED <<durable, view, offset, boot, nextId>>
    BY <1>10 DEF Replace, Goto, local, clock, ghost
  <2>2. /\ ledger'.kind = "ok" /\ ledger'.entries = view[p] /\ ledger'.clock.boot = boot
        /\ ClockOffset(ledger'.clock) = offset
    BY <1>p, <2>1 DEF EvidenceNow, ClockOffset, wall
  <2>3. Numbered(view[p]) /\ Unambiguous(view[p]) /\ view[p] \in SUBSET Entry
    BY <1>t, <1>p, <2>1
  <2>4. SameMoment(view[p], offset, view[p], offset)
    BY <2>3 DEF Unambiguous, SameMoment
  <2>5. \A q \in Procs : Editing(q)' => q = p
    BY <1>t, <1>p, <2>1 DEF LockOK, Holds
  <2>6. NumberOK'
    BY <1>t, <2>1, <2>2, <2>3, <2>5 DEF Numbered
  <2>7. DurableOlder'
    <3>1. durable.kind = "ok" => durable.clock.boot <= boot
      BY <1>t DEF LedgersOK, EvidenceOK
    <3>2. durable.kind = "ok" /\ durable.clock.boot = boot =>
             SameMoment(durable.entries, ClockOffset(durable.clock), view[p], offset)
      BY <1>t, <2>1
    <3> QED BY <2>1, <2>2, <3>1, <3>2
  <2>8. ViewAgrees(ledger)'
    BY <2>1, <2>2, <2>4, <2>5
  <2>9. ViewAgrees(durable)'
    BY <1>t, <2>1, <2>5
  <2> QED BY <2>6, <2>7, <2>8, <2>9
<1>11. ASSUME NEW p \in Procs, SyncDir(p) PROVE Exact'
  <2>1. /\ pc[p] = "sync" /\ durable' = ledger /\ ledger' = ledger
        /\ UNCHANGED <<view, offset, boot, nextId>>
        /\ \E l : pc' = [pc EXCEPT ![p] = l]
    BY <1>11 DEF SyncDir, Goto, local, clock, ghost
  <2>2. \A q \in Procs : Editing(q)' => Editing(q)
    BY <1>p, <2>1
  <2>3. SameMoment(ledger.entries, ClockOffset(ledger.clock), ledger.entries, ClockOffset(ledger.clock))
    BY <1>t DEF Unambiguous, SameMoment
  <2> QED BY <1>t, <1>e, <2>1, <2>2, <2>3 DEF Numbered
<1>12. ASSUME NEW p \in Procs, Grant(p) PROVE Exact'
  <2> DEFINE g == [id |-> nextId, t |-> now[p].wall, a |-> air[p], r |-> now[p].real]
  <2>1. /\ pc[p] = "decide" /\ pc' = [pc EXCEPT ![p] = "write"]
        /\ view' = [view EXCEPT ![p] = @ \cup {g}] /\ nextId' = nextId + 1
        /\ UNCHANGED <<ledger, durable, offset, boot>>
    BY <1>12 DEF Grant, Goto, disk, clock
  <2>2. g.id = nextId OBVIOUS
  <2> HIDE DEF g
  <2>3. /\ view'[p] = view[p] \cup {g}
        /\ \A q \in Procs : q # p => view'[q] = view[q] /\ pc'[q] = pc[q]
    BY <1>p, <2>1
  <2>4. \A e \in Entry : e.id \in Nat BY DEF Entry
  <2>5. /\ \A e \in ledger.entries \cup durable.entries : e.id < nextId /\ e.id \in Nat
        /\ \A q \in Procs : Editing(q) => \A e \in view[q] : e.id < nextId /\ e.id \in Nat
    BY <1>t, <1>p, <1>e, <2>4 DEF Numbered
  <2>6. NumberOK'
    <3>1. Numbered(ledger.entries)' /\ Numbered(durable.entries)'
      BY <1>p, <2>1, <2>5 DEF Numbered
    <3>2. \A q \in Procs : Editing(q)' => Numbered(view[q])'
      BY <1>p, <2>1, <2>2, <2>3, <2>5 DEF Numbered
    <3>3. \A q \in Procs : Editing(q)' => Unambiguous(view[q])'
      BY <1>t, <1>p, <2>1, <2>2, <2>3, <2>5 DEF Unambiguous
    <3> QED BY <1>t, <2>1, <3>1, <3>2, <3>3
  <2>7. DurableOlder' BY <1>t, <2>1
  <2>8. ViewAgrees(ledger)'
    BY <1>t, <1>p, <2>1, <2>2, <2>3, <2>5 DEF SameMoment
  <2>9. ViewAgrees(durable)'
    BY <1>t, <1>p, <2>1, <2>2, <2>3, <2>5 DEF SameMoment
  <2> QED BY <2>6, <2>7, <2>8, <2>9
<1>13. ASSUME Reboot PROVE Exact'
  <2>1. /\ ledger' \in {ledger, durable} /\ durable' = ledger' /\ nextId' = nextId
        /\ \A q \in Procs : ~Editing(q)'
    BY <1>13 DEF Reboot, ghost
  <2>2. \A l \in {ledger, durable} :
           SameMoment(l.entries, ClockOffset(l.clock), l.entries, ClockOffset(l.clock))
    BY <1>t DEF Unambiguous, SameMoment
  <2>3. \A l \in {ledger, durable} : l.clock.boot <= l.clock.boot
    BY <1>e
  <2> QED BY <1>t, <2>1, <2>2, <2>3 DEF Numbered
<1>14. ASSUME StepClock PROVE Exact'
  <2>1. \A q \in Procs : ~Editing(q)
    BY <1>t, <1>p, <1>14 DEF StepClock, LockOK, Holds
  <2> QED BY <1>t, <1>14, <2>1 DEF StepClock, disk, ghost, Numbered
<1>15. ASSUME Tick \/ UNCHANGED vars PROVE Exact'
  BY <1>t, <1>15 DEF Tick, vars, disk, local, clock, ghost, Numbered
<1>16. ASSUME Damage PROVE Exact'
  <2>1. /\ ledger'.kind # "ok" /\ durable'.kind # "ok" /\ ledger'.entries = {} /\ durable'.entries = {}
        /\ UNCHANGED <<pc, view, nextId>>
    BY <1>16 DEF Damage, NoLedger, local, ghost
  <2> QED BY <1>t, <2>1 DEF Numbered, Unambiguous
<1> QED BY <1>3, <1>4, <1>5, <1>6, <1>8, <1>9, <1>10, <1>11, <1>12, <1>13, <1>14, <1>15, <1>16
        DEF Next, Work, Environment

\* _rebase() within one boot: for every history of clock steps, writes and power
\* losses, an entry ages between two evidences by exactly the real time between
\* them: no step wipes it out of the window or pins it there.
THEOREM ExactAges == ~StepInside => (Spec => AgesExactly)
<1> SUFFICES ASSUME ~StepInside PROVE Spec => AgesExactly OBVIOUS
<1> DEFINE Ages ==
      ledger.kind = "ok" /\ ledger'.kind = "ok" /\ ledger'.clock.boot = ledger.clock.boot
        => \A e \in ledger.entries, f \in ledger'.entries : f.id = e.id =>
               (ledger'.clock.wall - f.t) - (ledger.clock.wall - e.t)
                    = ledger'.clock.at - ledger.clock.at
<1>1. Init => ExactInv
  <2> SUFFICES ASSUME Init PROVE ExactInv OBVIOUS
  <2>1. /\ ledger.entries = {} /\ durable.entries = {} /\ ledger.kind # "ok" /\ durable.kind # "ok"
        /\ \A p \in Procs : ~Editing(p)
    BY DEF Init, NoLedger, Editing
  <2> QED
    BY <2>1, AgeInit DEF ExactInv, NumberOK, DurableOlder, ViewAgrees, Numbered, Unambiguous
<1>2. ExactInv /\ [Next]_vars => ExactInv'
  BY ExactStep
<1>3. ExactInv /\ [Next]_vars => Ages
  <2> SUFFICES ASSUME ExactInv, [Next]_vars, ledger.kind = "ok", ledger'.kind = "ok",
                      ledger'.clock.boot = ledger.clock.boot,
                      NEW e \in ledger.entries, NEW f \in ledger'.entries, f.id = e.id
               PROVE  (ledger'.clock.wall - f.t) - (ledger.clock.wall - e.t)
                         = ledger'.clock.at - ledger.clock.at
    OBVIOUS
  <2>1. ledger \in Ledger /\ ledger' \in Ledger
    BY NextType DEF ExactInv, AgeInv, TypeInv, TypeOK
  <2>2. /\ ledger.clock.wall \in Int /\ ledger.clock.at \in Int /\ e.t \in Int
        /\ ledger'.clock.wall \in Int /\ ledger'.clock.at \in Int /\ f.t \in Int
    BY <2>1 DEF Ledger, Evidence, Entry
  <2>3. SUFFICES e.t - ClockOffset(ledger.clock) = f.t - ClockOffset(ledger'.clock)
    BY <2>2 DEF ClockOffset
  <2>4. CASE ledger' = ledger
    BY <2>4 DEF ExactInv, NumberOK, Unambiguous
  <2>5. ASSUME NEW p \in Procs, Replace(p)
        PROVE  e.t - ClockOffset(ledger.clock) = f.t - ClockOffset(ledger'.clock)
    <3>1. pc[p] = "write" /\ ledger' = [kind |-> "ok", clock |-> EvidenceNow, entries |-> view[p]]
      BY <2>5 DEF Replace
    <3>2. real \in Nat /\ offset \in Int
      BY DutyAssumption DEF ExactInv, AgeInv, TypeInv, TypeOK
    <3>3. ledger'.clock.boot = boot /\ ClockOffset(ledger'.clock) = offset /\ f \in view[p]
      BY <3>1, <3>2 DEF EvidenceNow, ClockOffset, wall
    <3>4. SameMoment(ledger.entries, ClockOffset(ledger.clock), view[p], offset)
      BY <3>1, <3>3 DEF ExactInv, ViewAgrees, Editing
    <3> QED BY <3>3, <3>4 DEF SameMoment
  <2>6. CASE Reboot
    <3>1. ledger' \in {ledger, durable} BY <2>6 DEF Reboot
    <3>2. CASE ledger' = durable
      <4>1. SameMoment(durable.entries, ClockOffset(durable.clock),
                       ledger.entries, ClockOffset(ledger.clock))
        BY <3>2 DEF ExactInv, DurableOlder
      <4> QED BY <3>2, <4>1 DEF SameMoment
    <3> QED BY <2>4, <3>1, <3>2
  <2>7. CASE Damage
    BY <2>7 DEF Damage, NoLedger
  <2> QED BY <2>4, <2>5, <2>6, <2>7, LedgerChange
<1> QED BY <1>1, <1>2, <1>3, PTL DEF Spec, AgesExactly

-----------------------------------------------------------------------------
(* What was cleared to be radiated is booked                               *)

\* The packet of a reservation; reservations whose ledger is written and synced
\* (reserve() is about to return, or has); all that is or may still go on the air.
Packet(p) == [id |-> ticket[p], a |-> air[p], r |-> now[p].real]
Cleared(p) == why[p] = "grant" /\ pc[p] \in {"unlock", "granted"}
Spent == radiated \cup {Packet(p) : p \in {q \in Procs : Cleared(q)}}

\* A grant has a number of its own, which no other packet has.
GrantOK == \A p \in Procs :
    /\ why[p] = "grant" => pc[p] \in {"write", "sync", "unlock", "granted"} /\ ticket[p] < nextId
    /\ pc[p] = "granted" => why[p] = "grant"
TicketOK ==
    /\ \A p, q \in Procs : why[p] = "grant" /\ why[q] = "grant" /\ ticket[p] = ticket[q] => p = q
    /\ \A x \in radiated : x.id < nextId
    /\ \A x \in radiated, p \in Procs : why[p] = "grant" => x.id # ticket[p]
    /\ \A x, y \in radiated : x.id = y.id => x = y

\* From the first grant on the lock file outlives a power loss, so that nobody
\* takes a lost ledger for a first use once a packet was cleared.
LockKept ==
    /\ \A p \in Procs : pc[p] \notin {"idle", "create"} => lockFile
    /\ lockDurable => lockFile
    /\ Spent # {} => lockDurable
    /\ \A p \in Procs : first[p] /\ ledger.kind = "missing" => Spent = {}

\* Between the rename and the sync the ledger is what the writer has in hand.
SyncOK == \A p \in Procs : pc[p] = "sync" => ledger.kind = "ok" /\ ledger.entries = view[p]

Booked(x, es) == \E e \in es : e.id = x.id /\ e.a = x.a /\ e.r = x.r

\* A grant under way is in the entries its process will write.
OwnEntry == \A p \in Procs :
    why[p] = "grant" /\ pc[p] \in {"write", "sync"} => Booked(Packet(p), view[p])

\* What was cleared within a long window is in every ledger, and in the entries of
\* whoever is about to write one.
ChargedAll == \A x \in Spent : real - x.r < LongWindow =>
    /\ ledger.kind = "ok" => Booked(x, ledger.entries)
    /\ durable.kind = "ok" => Booked(x, durable.entries)
    /\ \A p \in Procs : Editing(p) => Booked(x, view[p])

TicketInv == TypeInv /\ GrantOK /\ TicketOK
BookInv == AgeInv /\ NowPast /\ GrantOK /\ TicketOK /\ LockKept /\ SyncOK /\ OwnEntry /\ ChargedAll

\* A read is followed by a verdict, a first or rebasing write, or the end of the call.
LEMMA ReadLeads ==
    ASSUME TypeOK, NEW p \in Procs, ReadLedger(p) \/ ReadFresh(p)
    PROVE  /\ pc' = [pc EXCEPT ![p] = pc'[p]] /\ pc'[p] \in {"unlock", "write", "decide"}
           /\ why' = [why EXCEPT ![p] = why'[p]] /\ why'[p] \in {"none", "init", "rebase"}
           /\ view' = [view EXCEPT ![p] = view'[p]]
           /\ UNCHANGED <<disk, holder, first, now, air, ticket, clock, ghost>>
<1>1. PICK b \in BOOLEAN : /\ pc' = [pc EXCEPT ![p] = AfterRead(p, b).pc]
                           /\ why' = [why EXCEPT ![p] = AfterRead(p, b).why]
  <2>1. CASE ReadFresh(p)
    <3>1. pending[p] \in BOOLEAN BY DEF TypeOK
    <3> QED BY <2>1, <3>1 DEF ReadFresh, Goto
  <2>2. CASE ReadLedger(p)
    <3> DEFINE b == ledger.entries # {} /\ Stepped(ledger.clock)
    <3>1. b \in BOOLEAN OBVIOUS
    <3>2. pc' = [pc EXCEPT ![p] = AfterRead(p, b).pc] /\ why' = [why EXCEPT ![p] = AfterRead(p, b).why]
      BY <2>2 DEF ReadLedger, Goto
    <3> HIDE DEF b
    <3> QED BY <3>1, <3>2
  <2> QED BY <2>1, <2>2
<1>2. pc'[p] = AfterRead(p, b).pc /\ why'[p] = AfterRead(p, b).why
  BY <1>1 DEF TypeOK
<1>3. \E es : view' = [view EXCEPT ![p] = es]
  BY DEF ReadLedger, ReadFresh
<1>4. view'[p] = view'[p] /\ view' = [view EXCEPT ![p] = view'[p]]
  BY <1>3 DEF TypeOK
<1>5. UNCHANGED <<disk, holder, first, now, air, ticket, clock, ghost>>
  BY DEF ReadLedger, ReadFresh
<1> QED BY <1>1, <1>2, <1>4, <1>5, AfterReadType

LEMMA TicketStep == TicketInv /\ [Next]_vars => TicketInv'
<1> SUFFICES ASSUME TicketInv, [Next]_vars PROVE (GrantOK /\ TicketOK)'
  BY NextType DEF TicketInv
<1>t. TypeOK /\ GrantOK /\ TicketOK
  BY DEF TicketInv, TypeInv
<1>p. /\ pc \in [Procs -> {"idle", "create", "exists", "flock", "read", "write", "sync",
                           "decide", "unlock", "granted"}]
      /\ why \in [Procs -> {"none", "init", "rebase", "grant"}]
      /\ ticket \in [Procs -> Nat] /\ nextId \in Nat
      /\ \A x \in radiated : x.id \in Nat
  BY <1>t DEF TypeOK
<1> DEFINE G == GrantOK /\ TicketOK
<1> USE DEF GrantOK, TicketOK
<1>1. ASSUME NEW p \in Procs, UNCHANGED <<radiated, nextId>>,
             \A q \in Procs : q # p => why'[q] = why[q] /\ pc'[q] = pc[q] /\ ticket'[q] = ticket[q],
             why'[p] = "grant" =>
                /\ why[p] = "grant" /\ ticket'[p] = ticket[p]
                /\ pc'[p] \in {"write", "sync", "unlock", "granted"},
             pc'[p] = "granted" => why'[p] = "grant"
      PROVE  G'
  BY <1>t, <1>1
<1>2. ASSUME NEW p \in Procs, Return(p), UNCHANGED <<radiated, nextId>> PROVE G'
  BY <1>1, <1>2, <1>p DEF Return, Goto
<1>3. ASSUME NEW p \in Procs, Call(p) PROVE G'
  BY <1>1, <1>3, <1>p, <1>t DEF Call, OpenLock, OpenUsage, Goto, local, ghost
<1>4. ASSUME NEW p \in Procs, CreateLock(p) \/ AwaitLedger(p) \/ AwaitTimeout(p) \/ Flock(p)
             \/ ReadFails(p)
      PROVE  G'
  BY <1>1, <1>4, <1>p, <1>t DEF CreateLock, AwaitLedger, AwaitTimeout, Flock, ReadFails, Goto, local, ghost
<1>5. ASSUME NEW p \in Procs, FlockTimeout(p) \/ Crash(p) PROVE G'
  BY <1>2, <1>5 DEF FlockTimeout, Crash, ghost
<1>6. ASSUME NEW p \in Procs, ReadLedger(p) \/ ReadFresh(p) PROVE G'
  BY <1>1, <1>6, <1>p, <1>t, ReadLeads DEF ghost
<1>7. ASSUME NEW p \in Procs, Replace(p) \/ SyncDir(p) \/ WriteFails(p) \/ Refuse(p) PROVE G'
  BY <1>1, <1>7, <1>p, <1>t DEF Replace, SyncDir, WriteFails, Refuse, Goto, local, ghost
<1>8. ASSUME NEW p \in Procs, Unlock(p) PROVE G'
  <2>1. CASE ~Return(p)
    BY <1>1, <1>8, <1>p, <2>1 DEF Unlock, Goto, local, ghost
  <2>2. CASE Return(p)
    BY <1>2, <1>8, <2>2 DEF Unlock, ghost
  <2> QED BY <2>1, <2>2
<1>9. ASSUME NEW p \in Procs, Grant(p) PROVE G'
  <2>1. /\ ticket' = [ticket EXCEPT ![p] = nextId] /\ nextId' = nextId + 1
        /\ pc' = [pc EXCEPT ![p] = "write"] /\ why' = [why EXCEPT ![p] = "grant"]
        /\ radiated' = radiated
    BY <1>9 DEF Grant, Goto
  <2>2. /\ \A q \in Procs : q # p => why'[q] = why[q] /\ pc'[q] = pc[q] /\ ticket'[q] = ticket[q]
        /\ ticket'[p] = nextId /\ pc'[p] = "write"
    BY <1>p, <2>1
  <2>3. \A q \in Procs : ticket[q] \in Nat
    BY <1>p
  <2>4. GrantOK' BY <1>t, <1>p, <2>1, <2>2, <2>3
  <2>5. TicketOK' BY <1>t, <1>p, <2>1, <2>2, <2>3
  <2> QED BY <2>4, <2>5
<1>10. ASSUME NEW p \in Procs, Transmit(p) PROVE G'
  <2> DEFINE x == [id |-> ticket[p], a |-> air[p], r |-> now[p].real]
  <2>1. x.id = ticket[p] OBVIOUS
  <2>2. radiated' = radiated \cup {x} /\ nextId' = nextId /\ pc[p] = "granted"
    BY <1>10 DEF Transmit
  <2> HIDE DEF x
  <2>3. /\ \A q \in Procs : q # p => why'[q] = why[q] /\ pc'[q] = pc[q] /\ ticket'[q] = ticket[q]
        /\ why'[p] = "none"
    BY <1>10, <1>p DEF Transmit, Return, Goto
  <2>4. pc'[p] = "idle"
    BY <1>10, <1>p DEF Transmit, Return, Goto
  <2>5. why[p] = "grant" /\ ticket[p] < nextId
    BY <1>t, <2>2
  <2>6. GrantOK' BY <1>t, <2>2, <2>3, <2>4
  <2>7. \A y \in radiated : y.id # x.id
    BY <1>t, <2>1, <2>5
  <2>8. \A q \in Procs : why'[q] = "grant" => q # p /\ why[q] = "grant" /\ ticket'[q] = ticket[q]
    BY <2>3
  <2>9. \A q \in Procs : why'[q] = "grant" => ticket'[q] # x.id
    BY <1>t, <2>1, <2>5, <2>8
  <2>10. TicketOK'
    BY <1>t, <2>1, <2>2, <2>5, <2>7, <2>8, <2>9
  <2> QED BY <2>6, <2>10
<1>11. ASSUME Reboot PROVE G'
  BY <1>t, <1>11 DEF Reboot, ghost
<1>12. ASSUME StepClock \/ Tick \/ Damage \/ UNCHANGED vars PROVE G'
  BY <1>t, <1>12 DEF StepClock, Tick, Damage, vars, local, ghost
<1> QED BY <1>3, <1>4, <1>5, <1>6, <1>7, <1>8, <1>9, <1>10, <1>11, <1>12 DEF Next, Work, Environment

\* Only a sync after a grant clears a packet; radiating one clears no other.
LEMMA SpentStep ==
    ASSUME TicketInv, [Next]_vars
    PROVE  \/ Spent' \subseteq Spent
           \/ \E p \in Procs : SyncDir(p) /\ why[p] = "grant" /\ Spent' \subseteq Spent \cup {Packet(p)}
<1>t. TypeOK /\ GrantOK
  BY DEF TicketInv, TypeInv
<1>p. /\ pc \in [Procs -> {"idle", "create", "exists", "flock", "read", "write", "sync",
                           "decide", "unlock", "granted"}]
      /\ why \in [Procs -> {"none", "init", "rebase", "grant"}]
      /\ now \in [Procs -> [wall : Int, real : Nat]]
      /\ air \in [Procs -> Airtimes \cup {Status}] /\ ticket \in [Procs -> Nat]
  BY <1>t DEF TypeOK
<1> DEFINE Less == Spent' \subseteq Spent
<1> USE DEF Cleared, Packet
<1>1. ASSUME NEW p \in Procs, radiated' = radiated,
             \A q \in Procs : q # p => /\ why'[q] = why[q] /\ pc'[q] = pc[q] /\ ticket'[q] = ticket[q]
                                       /\ air'[q] = air[q] /\ now'[q] = now[q],
             Cleared(p)' => Cleared(p) /\ UNCHANGED <<ticket, air, now>>
      PROVE  Less
  <2>1. \A q \in Procs : Cleared(q)' => Cleared(q) /\ Packet(q)' = Packet(q)
    BY <1>1
  <2> HIDE DEF Cleared, Packet
  <2> QED BY <1>1, <2>1 DEF Spent
<1>2. ASSUME NEW p \in Procs, Return(p), radiated' = radiated PROVE Less
  BY <1>1, <1>2, <1>p DEF Return, Goto
<1>3. ASSUME NEW p \in Procs, Call(p) PROVE Less
  BY <1>1, <1>3, <1>p DEF Call, OpenLock, OpenUsage, Goto, local, ghost
<1>4. ASSUME NEW p \in Procs, CreateLock(p) \/ AwaitLedger(p) \/ AwaitTimeout(p) \/ Flock(p)
             \/ Replace(p) \/ WriteFails(p) \/ Refuse(p)
      PROVE  Less
  BY <1>1, <1>4, <1>p DEF CreateLock, AwaitLedger, AwaitTimeout, Flock, Replace,
                          WriteFails, Refuse, Goto, local, ghost
<1>5. ASSUME NEW p \in Procs, FlockTimeout(p) \/ Crash(p) PROVE Less
  BY <1>2, <1>5 DEF FlockTimeout, Crash, ghost
<1>6. ASSUME NEW p \in Procs, ReadFails(p) PROVE Less
  BY <1>1, <1>6, <1>p, <1>t DEF ReadFails, Goto, local, ghost, GrantOK
<1>7. ASSUME NEW p \in Procs, ReadLedger(p) \/ ReadFresh(p) PROVE Less
  BY <1>1, <1>7, <1>p, <1>t, ReadLeads DEF ghost
<1>8. ASSUME NEW p \in Procs, Unlock(p) PROVE Less
  <2>1. CASE ~Return(p)
    BY <1>1, <1>8, <1>p, <2>1 DEF Unlock, Goto, local, ghost
  <2>2. CASE Return(p)
    BY <1>2, <1>8, <2>2 DEF Unlock, ghost
  <2> QED BY <2>1, <2>2
<1>9. ASSUME NEW p \in Procs, Grant(p) PROVE Less
  BY <1>1, <1>9, <1>p DEF Grant, Goto
<1>10. ASSUME NEW p \in Procs, Transmit(p) PROVE Less
  <2>1. radiated' = radiated \cup {Packet(p)} /\ pc[p] = "granted"
    BY <1>10 DEF Transmit
  <2>2. Cleared(p)
    BY <1>t, <2>1 DEF GrantOK
  <2>3. \A q \in Procs : Cleared(q)' => Cleared(q) /\ Packet(q)' = Packet(q)
    BY <1>10, <1>p DEF Transmit, Return, Goto
  <2> HIDE DEF Cleared, Packet
  <2> QED BY <2>1, <2>2, <2>3 DEF Spent
<1>11. ASSUME NEW p \in Procs, SyncDir(p)
       PROVE  Less \/ (why[p] = "grant" /\ Spent' \subseteq Spent \cup {Packet(p)})
  <2>0. /\ radiated' = radiated /\ UNCHANGED <<ticket, air, now>>
        /\ \E l, w : pc' = [pc EXCEPT ![p] = l] /\ why' = [why EXCEPT ![p] = w]
    BY <1>11 DEF SyncDir, Goto, local, ghost
  <2>1. \A q \in Procs : q # p => why'[q] = why[q] /\ pc'[q] = pc[q]
    BY <1>p, <2>0
  <2>2. CASE why[p] = "grant"
    <3>1. \A q \in Procs : (Cleared(q)' => Cleared(q) \/ q = p) /\ Packet(q)' = Packet(q)
      BY <2>0, <2>1
    <3> HIDE DEF Cleared, Packet
    <3> QED BY <2>0, <2>2, <3>1 DEF Spent
  <2>3. CASE why[p] # "grant"
    <3>1. why'[p] # "grant" BY <1>11, <1>p, <2>3 DEF SyncDir
    <3> QED BY <1>1, <2>0, <2>1, <3>1
  <2> QED BY <2>2, <2>3
<1>12. ASSUME Reboot PROVE Less
  <2>1. \A q \in Procs : ~Cleared(q)' BY <1>12 DEF Reboot
  <2>2. radiated' = radiated BY <1>12 DEF Reboot, ghost
  <2> QED BY <2>1, <2>2 DEF Spent
<1>13. ASSUME StepClock \/ Tick \/ Damage \/ UNCHANGED vars PROVE Less
  <2>1. UNCHANGED <<pc, why, ticket, air, now, radiated>>
    BY <1>13 DEF StepClock, Tick, Damage, vars, local, ghost
  <2> QED BY <2>1 DEF Spent
<1> QED BY <1>3, <1>4, <1>5, <1>6, <1>7, <1>8, <1>9, <1>10, <1>11, <1>12, <1>13 DEF Next, Work, Environment

LEMMA SyncStep == TypeInv /\ LockOK /\ SyncOK /\ [Next]_vars => SyncOK'
<1> SUFFICES ASSUME TypeInv, LockOK, SyncOK, [Next]_vars PROVE SyncOK' OBVIOUS
<1>p. /\ pc \in [Procs -> {"idle", "create", "exists", "flock", "read", "write", "sync",
                           "decide", "unlock", "granted"}]
      /\ view \in [Procs -> SUBSET Entry] /\ NoOne \notin Procs
  BY DutyAssumption DEF TypeInv, TypeOK
<1> USE DEF SyncOK
<1>1. ASSUME NEW p \in Procs, ledger' = ledger,
             \A q \in Procs : q # p => pc'[q] = pc[q] /\ view'[q] = view[q],
             pc'[p] # "sync"
      PROVE  SyncOK'
  BY <1>1
<1>2. ASSUME NEW p \in Procs, Return(p), ledger' = ledger PROVE SyncOK'
  BY <1>1, <1>2, <1>p DEF Return, Goto
<1>3. ASSUME NEW p \in Procs, Call(p) PROVE SyncOK'
  BY <1>1, <1>3, <1>p DEF Call, OpenLock, OpenUsage, Goto, disk, local
<1>4. ASSUME NEW p \in Procs, CreateLock(p) \/ AwaitLedger(p) \/ AwaitTimeout(p) \/ Flock(p)
             \/ ReadFails(p) \/ WriteFails(p) \/ Refuse(p) \/ Grant(p) \/ SyncDir(p)
      PROVE  SyncOK'
  BY <1>1, <1>4, <1>p DEF CreateLock, AwaitLedger, AwaitTimeout, Flock, ReadFails, WriteFails,
                          Refuse, Grant, SyncDir, Goto, disk, local
<1>5. ASSUME NEW p \in Procs, FlockTimeout(p) \/ Transmit(p) \/ Crash(p) PROVE SyncOK'
  BY <1>2, <1>5 DEF FlockTimeout, Transmit, Crash, disk
<1>6. ASSUME NEW p \in Procs, Unlock(p) PROVE SyncOK'
  BY <1>1, <1>2, <1>6, <1>p DEF Unlock, Goto, disk, local
<1>7. ASSUME NEW p \in Procs, ReadLedger(p) \/ ReadFresh(p) PROVE SyncOK'
  BY <1>1, <1>7, <1>p, ReadLeads DEF TypeInv, disk
<1>8. ASSUME NEW p \in Procs, Replace(p) PROVE SyncOK'
  <2>1. \A q \in Procs : pc[q] = "sync" => q = p
    BY <1>8 DEF Replace, LockOK, Holds
  <2> QED BY <1>8, <1>p, <2>1 DEF Replace, Goto, local
<1>9. ASSUME Reboot PROVE SyncOK'
  BY <1>9 DEF Reboot
<1>10. ASSUME Damage PROVE SyncOK'
  <2>1. \A q \in Procs : pc[q] # "sync"
    BY <1>10, <1>p DEF Damage, LockOK, Holds
  <2> QED BY <1>10, <2>1 DEF Damage
<1>11. ASSUME StepClock \/ Tick \/ UNCHANGED vars PROVE SyncOK'
  BY <1>11 DEF StepClock, Tick, vars, disk, local
<1> QED BY <1>3, <1>4, <1>5, <1>6, <1>7, <1>8, <1>9, <1>10, <1>11 DEF Next, Work, Environment

LEMMA LockKeptStep == TicketInv /\ SyncOK /\ LockKept /\ [Next]_vars => LockKept'
<1> SUFFICES ASSUME TicketInv, SyncOK, LockKept, [Next]_vars PROVE LockKept' OBVIOUS
<1>t. TypeOK BY DEF TicketInv, TypeInv
<1>p. /\ pc \in [Procs -> {"idle", "create", "exists", "flock", "read", "write", "sync",
                           "decide", "unlock", "granted"}]
      /\ first \in [Procs -> BOOLEAN]
  BY <1>t DEF TypeOK
<1>1. ASSUME NEW p \in Procs, SyncDir(p) PROVE LockKept'
  <2>1. /\ pc[p] = "sync" /\ lockDurable' = lockFile /\ UNCHANGED <<lockFile, ledger, first>>
        /\ \E l : pc' = [pc EXCEPT ![p] = l]
    BY <1>1 DEF SyncDir, Goto, local
  <2>2. lockFile /\ ledger.kind = "ok"
    BY <2>1 DEF LockKept, SyncOK
  <2> QED BY <1>p, <2>1, <2>2 DEF LockKept
<1>2. ASSUME \A p \in Procs : ~SyncDir(p) PROVE Spent' \subseteq Spent
  BY <1>2, SpentStep
<1>3. ASSUME Spent' \subseteq Spent, UNCHANGED <<lockFile, lockDurable, ledger>>,
             NEW p \in Procs,
             \A q \in Procs : q # p => pc'[q] = pc[q] /\ first'[q] = first[q],
             pc'[p] \notin {"idle", "create"} => lockFile,
             first'[p] => first[p]
      PROVE  LockKept'
  BY <1>3 DEF LockKept
<1>4. ASSUME Spent' \subseteq Spent, NEW p \in Procs, Return(p), UNCHANGED <<lockFile, lockDurable, ledger>>
      PROVE  LockKept'
  BY <1>3, <1>4, <1>p DEF Return, Goto
<1>5. ASSUME Spent' \subseteq Spent, NEW p \in Procs, Call(p) PROVE LockKept'
  BY <1>3, <1>5, <1>p DEF Call, OpenLock, OpenUsage, Goto, disk, local
<1>6. ASSUME Spent' \subseteq Spent, NEW p \in Procs, CreateLock(p) PROVE LockKept'
  <2>1. /\ lockFile' = TRUE /\ UNCHANGED <<lockDurable, ledger>>
        /\ first' = [first EXCEPT ![p] = ~lockFile]
    BY <1>6 DEF CreateLock
  <2>2. \A q \in Procs : first'[q] => first[q] \/ ~lockFile
    BY <1>p, <2>1
  <2>3. ~lockFile => Spent = {}
    BY DEF LockKept
  <2> QED BY <1>6, <2>1, <2>2, <2>3 DEF LockKept
<1>7. ASSUME Spent' \subseteq Spent, NEW p \in Procs,
             AwaitLedger(p) \/ AwaitTimeout(p) \/ Flock(p)
             \/ ReadFails(p) \/ WriteFails(p) \/ Refuse(p) \/ Grant(p)
      PROVE  LockKept'
  <2>1. /\ pc' = [pc EXCEPT ![p] = pc'[p]] /\ pc[p] \notin {"idle", "create"}
        /\ UNCHANGED <<lockFile, lockDurable, ledger, first>>
    BY <1>7, <1>p DEF AwaitLedger, AwaitTimeout, Flock, ReadFails, WriteFails, Refuse, Grant, Goto, disk, local
  <2>2. lockFile BY <2>1 DEF LockKept
  <2> QED BY <1>3, <1>7, <1>p, <2>1, <2>2
<1>8. ASSUME Spent' \subseteq Spent, NEW p \in Procs, ReadLedger(p) \/ ReadFresh(p) PROVE LockKept'
  <2>1. /\ pc' = [pc EXCEPT ![p] = pc'[p]] /\ pc[p] = "read"
        /\ UNCHANGED <<lockFile, lockDurable, ledger, first>>
    BY <1>8, <1>p DEF ReadLedger, ReadFresh, Goto, disk
  <2>2. lockFile BY <2>1 DEF LockKept
  <2> QED BY <1>3, <1>8, <1>p, <2>1, <2>2
<1>9. ASSUME Spent' \subseteq Spent, NEW p \in Procs, Replace(p) PROVE LockKept'
  <2>1. /\ pc' = [pc EXCEPT ![p] = "sync"] /\ pc[p] = "write"
        /\ UNCHANGED <<lockFile, lockDurable, first>> /\ ledger'.kind = "ok"
    BY <1>9 DEF Replace, Goto, local
  <2>2. lockFile BY <2>1 DEF LockKept
  <2> QED BY <1>9, <1>p, <2>1, <2>2 DEF LockKept
<1>10. ASSUME Spent' \subseteq Spent, NEW p \in Procs, FlockTimeout(p) \/ Transmit(p) \/ Crash(p)
       PROVE  LockKept'
  BY <1>4, <1>10 DEF FlockTimeout, Transmit, Crash, disk
<1>11. ASSUME Spent' \subseteq Spent, NEW p \in Procs, Unlock(p) PROVE LockKept'
  <2>1. CASE ~Return(p)
    <3>1. /\ pc' = [pc EXCEPT ![p] = "granted"] /\ pc[p] = "unlock"
          /\ UNCHANGED <<lockFile, lockDurable, ledger, first>>
      BY <1>11, <2>1 DEF Unlock, Goto, disk, local
    <3>2. lockFile BY <3>1 DEF LockKept
    <3> QED BY <1>3, <1>11, <1>p, <3>1, <3>2
  <2>2. CASE Return(p)
    BY <1>4, <1>11, <2>2 DEF Unlock, disk
  <2> QED BY <2>1, <2>2
<1>12. ASSUME Spent' \subseteq Spent, Reboot PROVE LockKept'
  BY <1>12 DEF Reboot, LockKept
<1>13. ASSUME Spent' \subseteq Spent, Damage PROVE LockKept'
  BY <1>13 DEF Damage, LockKept, local
<1>14. ASSUME Spent' \subseteq Spent, StepClock \/ Tick \/ UNCHANGED vars PROVE LockKept'
  BY <1>14 DEF StepClock, Tick, vars, disk, local, LockKept
<1>15. CASE \E p \in Procs : SyncDir(p)
  BY <1>1, <1>15
<1>16. CASE \A p \in Procs : ~SyncDir(p)
  BY <1>2, <1>5, <1>6, <1>7, <1>8, <1>9, <1>10, <1>11, <1>12, <1>13, <1>14, <1>16
     DEF Next, Work, Environment
<1> QED BY <1>15, <1>16

LEMMA OwnStep == TicketInv /\ OwnEntry /\ [Next]_vars => OwnEntry'
<1> SUFFICES ASSUME TicketInv, OwnEntry, [Next]_vars PROVE OwnEntry' OBVIOUS
<1>t. TypeOK /\ GrantOK
  BY DEF TicketInv, TypeInv
<1>p. /\ pc \in [Procs -> {"idle", "create", "exists", "flock", "read", "write", "sync",
                           "decide", "unlock", "granted"}]
      /\ why \in [Procs -> {"none", "init", "rebase", "grant"}]
      /\ now \in [Procs -> [wall : Int, real : Nat]]
      /\ view \in [Procs -> SUBSET Entry]
      /\ air \in [Procs -> Airtimes \cup {Status}] /\ ticket \in [Procs -> Nat]
  BY <1>t DEF TypeOK
<1> DEFINE Owing(p) == why[p] = "grant" /\ pc[p] \in {"write", "sync"}
<1>1. ASSUME NEW p \in Procs,
             \A q \in Procs : q # p =>
                /\ why'[q] = why[q] /\ pc'[q] = pc[q] /\ ticket'[q] = ticket[q]
                /\ air'[q] = air[q] /\ now'[q] = now[q] /\ view'[q] = view[q],
             Owing(p)' => Owing(p) /\ UNCHANGED <<ticket, air, now, view>>
      PROVE  OwnEntry'
  BY <1>1 DEF OwnEntry, Packet, Booked
<1>2. ASSUME NEW p \in Procs, Return(p) PROVE OwnEntry'
  BY <1>1, <1>2, <1>p DEF Return, Goto
<1>3. ASSUME NEW p \in Procs, Call(p) PROVE OwnEntry'
  BY <1>1, <1>3, <1>p DEF Call, OpenLock, OpenUsage, Goto, local
<1>4. ASSUME NEW p \in Procs, CreateLock(p) \/ AwaitLedger(p) \/ AwaitTimeout(p) \/ Flock(p)
             \/ ReadFails(p) \/ Replace(p) \/ SyncDir(p) \/ WriteFails(p) \/ Refuse(p)
      PROVE  OwnEntry'
  BY <1>1, <1>4, <1>p DEF CreateLock, AwaitLedger, AwaitTimeout, Flock, ReadFails, Replace,
                          SyncDir, WriteFails, Refuse, Goto, local
<1>5. ASSUME NEW p \in Procs, FlockTimeout(p) \/ Transmit(p) \/ Crash(p) PROVE OwnEntry'
  BY <1>2, <1>5 DEF FlockTimeout, Transmit, Crash
<1>6. ASSUME NEW p \in Procs, Unlock(p) PROVE OwnEntry'
  BY <1>1, <1>2, <1>6, <1>p DEF Unlock, Goto, local
<1>7. ASSUME NEW p \in Procs, ReadLedger(p) \/ ReadFresh(p) PROVE OwnEntry'
  BY <1>1, <1>7, <1>p, <1>t, ReadLeads
<1>8. ASSUME NEW p \in Procs, Grant(p) PROVE OwnEntry'
  <2> DEFINE g == [id |-> nextId, t |-> now[p].wall, a |-> air[p], r |-> now[p].real]
  <2>1. /\ pc' = [pc EXCEPT ![p] = "write"] /\ why' = [why EXCEPT ![p] = "grant"]
        /\ ticket' = [ticket EXCEPT ![p] = nextId]
        /\ view' = [view EXCEPT ![p] = @ \cup {g}] /\ UNCHANGED <<now, air>>
    BY <1>8 DEF Grant, Goto
  <2>2. g.id = nextId /\ g.a = air[p] /\ g.r = now[p].real OBVIOUS
  <2> HIDE DEF g
  <2>3. g \in view'[p] /\ ticket'[p] = nextId
    BY <1>p, <2>1
  <2>4. Booked(Packet(p)', view'[p])
    BY <2>1, <2>2, <2>3 DEF Booked, Packet
  <2>5. \A q \in Procs : q # p =>
           /\ why'[q] = why[q] /\ pc'[q] = pc[q] /\ ticket'[q] = ticket[q] /\ view'[q] = view[q]
    BY <1>p, <2>1
  <2>6. ASSUME NEW q \in Procs, q # p, Owing(q)' PROVE Booked(Packet(q)', view'[q])
    <3>1. Packet(q)' = Packet(q) /\ view'[q] = view[q] /\ Owing(q)
      BY <2>1, <2>5, <2>6 DEF Packet
    <3> QED BY <3>1 DEF OwnEntry
  <2> QED BY <2>4, <2>6 DEF OwnEntry, Booked
<1>9. ASSUME Reboot PROVE OwnEntry'
  BY <1>9 DEF Reboot, OwnEntry
<1>10. ASSUME StepClock \/ Tick \/ Damage \/ UNCHANGED vars PROVE OwnEntry'
  BY <1>10 DEF StepClock, Tick, Damage, vars, local, OwnEntry, Packet, Booked
<1> QED BY <1>3, <1>4, <1>5, <1>6, <1>7, <1>8, <1>9, <1>10 DEF Next, Work, Environment

LEMMA ChargedStep == ~StepInside /\ BookInv /\ [Next]_vars => ChargedAll'
<1> SUFFICES ASSUME ~StepInside, BookInv, [Next]_vars PROVE ChargedAll' OBVIOUS
<1>t. /\ TypeOK /\ LockOK /\ LedgersOK /\ NowOK /\ NowPast
      /\ LockKept /\ SyncOK /\ OwnEntry /\ ChargedAll /\ TicketInv
  BY DEF BookInv, AgeInv, TypeInv, TicketInv
<1>p. /\ pc \in [Procs -> {"idle", "create", "exists", "flock", "read", "write", "sync",
                           "decide", "unlock", "granted"}]
      /\ now \in [Procs -> [wall : Int, real : Nat]]
      /\ view \in [Procs -> SUBSET Entry] /\ ledger \in Ledger
      /\ real \in Nat /\ offset \in Int /\ LongWindow \in Nat /\ NoOne \notin Procs
  BY <1>t, DutyAssumption DEF TypeOK
<1>s. \A x \in Spent : x.r \in Nat
  BY <1>t, <1>p DEF TypeOK, Spent, Packet
<1> DEFINE InView(x) == \A p \in Procs : Editing(p) => Booked(x, view[p])
           InLedger(x) == ledger.kind = "ok" => Booked(x, ledger.entries)
           InDurable(x) == durable.kind = "ok" => Booked(x, durable.entries)
<1>c. \A x \in Spent : real - x.r < LongWindow => InLedger(x) /\ InDurable(x) /\ InView(x)
  BY <1>t DEF ChargedAll
<1>1. ASSUME Spent' \subseteq Spent, real' \in {real, real + 1}, UNCHANGED <<ledger, durable>>,
             \A q \in Procs : Editing(q)' => Editing(q) /\ view'[q] = view[q]
      PROVE  ChargedAll'
  <2> SUFFICES ASSUME NEW x \in Spent', real' - x.r < LongWindow
               PROVE  InLedger(x)' /\ InDurable(x)' /\ InView(x)'
    BY DEF ChargedAll
  <2>1. x \in Spent /\ real - x.r < LongWindow
    BY <1>1, <1>p, <1>s
  <2>2. InLedger(x) /\ InDurable(x) /\ InView(x) BY <1>c, <2>1
  <2> QED BY <1>1, <2>2 DEF Booked
<1>2. ASSUME \A p \in Procs : ~SyncDir(p) PROVE Spent' \subseteq Spent
  BY <1>2, <1>t, SpentStep
<1>3. ASSUME NEW p \in Procs, SyncDir(p) PROVE ChargedAll'
  <2>1. /\ pc[p] = "sync" /\ durable' = ledger /\ UNCHANGED <<ledger, view, real>>
    BY <1>3 DEF SyncDir, local, clock
  <2>2. \A q \in Procs : Editing(q)' => Editing(q)
    BY <1>3, <1>p DEF SyncDir, Goto, Editing
  <2>3. ledger.kind = "ok" /\ ledger.entries = view[p]
    BY <1>t, <2>1 DEF SyncOK
  <2>4. \A q \in Procs : Editing(q) => q = p
    BY <1>t, <2>1 DEF LockOK, Holds, Editing
  <2> SUFFICES ASSUME NEW x \in Spent', real - x.r < LongWindow PROVE Booked(x, view[p])
    <3>1. \A q \in Procs : Editing(q)' => view'[q] = view[p] BY <2>1, <2>2, <2>4
    <3> QED BY <2>1, <2>3, <3>1 DEF ChargedAll, Booked
  <2>5. CASE x \in Spent
    <3>1. InLedger(x) BY <1>c, <2>5
    <3> QED BY <2>3, <3>1
  <2>6. CASE x \notin Spent
    <3>1. PICK q \in Procs : SyncDir(q) /\ why[q] = "grant" /\ Spent' \subseteq Spent \cup {Packet(q)}
      BY <1>t, <2>6, SpentStep
    <3>2. q = p BY <2>4, <3>1 DEF SyncDir, Editing
    <3>3. x = Packet(p) BY <2>6, <3>1, <3>2
    <3> QED BY <1>t, <2>1, <3>1, <3>2, <3>3 DEF OwnEntry
  <2> QED BY <2>5, <2>6
<1>4. ASSUME Spent' \subseteq Spent, NEW p \in Procs, ReadLedger(p) PROVE ChargedAll'
  <2> DEFINE all == Rebase(ledger.entries, ledger.clock)
             es == Kept(all, now[p].wall)
  <2>1. /\ pc[p] = "read" /\ ledger.kind = "ok" /\ view' = [view EXCEPT ![p] = es]
        /\ UNCHANGED <<ledger, durable, real>>
    BY <1>4 DEF ReadLedger, Readable, disk, clock
  <2>2. /\ \A e \in ledger.entries : \E f \in all : f.id = e.id /\ f.a = e.a /\ f.r = e.r
    BY <1>t, <2>1, RebaseShift DEF LedgersOK
  <2>3. \A f \in all : f.t - f.r >= offset
    BY <1>t, <2>1, RebaseAge DEF LedgersOK
  <2>4. \A f \in all : f.t \in Int /\ f.r \in Nat
    BY <1>t, <1>p, RebaseType DEF Ledger, Entry
  <2>5. now[p].wall - now[p].real = offset /\ now[p].real <= real
    BY <1>t, <2>1 DEF NowOK, NowPast, Holds
  <2>6. \A f \in all : f \in es <=> f.t > now[p].wall - LongWindow
    BY DEF Kept
  <2> HIDE DEF all, es
  <2>7. now[p].wall \in Int /\ now[p].real \in Nat
    BY <1>p
  <2>8. \A f \in all : real - f.r < LongWindow => f \in es
    BY <1>p, <2>3, <2>4, <2>5, <2>6, <2>7
  <2>9. /\ view'[p] = es
        /\ \A q \in Procs : q # p => view'[q] = view[q] /\ (Editing(q)' => Editing(q))
    BY <1>4, <1>p, <2>1 DEF ReadLedger, Goto, Editing
  <2> SUFFICES ASSUME NEW x \in Spent', real' - x.r < LongWindow
               PROVE  InLedger(x)' /\ InDurable(x)' /\ InView(x)'
    BY DEF ChargedAll
  <2>10. x \in Spent /\ real - x.r < LongWindow
    BY <1>4, <2>1
  <2>11. InLedger(x) /\ InDurable(x) /\ InView(x)
    BY <1>c, <2>10
  <2>12. PICK e \in ledger.entries : e.id = x.id /\ e.a = x.a /\ e.r = x.r
    BY <2>1, <2>11 DEF Booked
  <2>13. PICK f \in all : f.id = e.id /\ f.a = e.a /\ f.r = e.r
    BY <2>2
  <2>14. f \in es
    BY <2>8, <2>10, <2>12, <2>13
  <2>15. Booked(x, es)
    BY <2>12, <2>13, <2>14 DEF Booked
  <2> QED BY <2>1, <2>9, <2>11, <2>15 DEF Booked
<1>5. ASSUME Spent' \subseteq Spent, NEW p \in Procs, ReadFresh(p) PROVE ChargedAll'
  <2>1. Spent = {}
    BY <1>t, <1>5 DEF ReadFresh, Fresh, LockKept
  <2> QED BY <1>5, <2>1 DEF ChargedAll
<1>6. ASSUME Spent' \subseteq Spent, NEW p \in Procs, Replace(p) PROVE ChargedAll'
  <2>1. /\ pc[p] = "write" /\ ledger'.entries = view[p]
        /\ UNCHANGED <<durable, view, real>>
    BY <1>6 DEF Replace, local, clock
  <2>2. \A q \in Procs : Editing(q)' => Editing(q)
    BY <1>6, <1>p DEF Replace, Goto, Editing
  <2> SUFFICES ASSUME NEW x \in Spent', real' - x.r < LongWindow
               PROVE  InLedger(x)' /\ InDurable(x)' /\ InView(x)'
    BY DEF ChargedAll
  <2>3. InDurable(x) /\ InView(x)
    BY <1>c, <1>6, <2>1
  <2> QED BY <2>1, <2>2, <2>3 DEF Booked, Editing
<1>7. ASSUME Spent' \subseteq Spent, NEW p \in Procs, Grant(p) PROVE ChargedAll'
  <2>1. /\ \E g : view' = [view EXCEPT ![p] = @ \cup {g}]
        /\ pc[p] = "decide" /\ UNCHANGED <<ledger, durable, real>>
    BY <1>7 DEF Grant, disk, clock
  <2>2. \A q \in Procs : view[q] \subseteq view'[q] /\ (Editing(q)' => Editing(q))
    BY <1>7, <1>p, <2>1 DEF Grant, Goto, Editing
  <2> SUFFICES ASSUME NEW x \in Spent', real' - x.r < LongWindow
               PROVE  InLedger(x)' /\ InDurable(x)' /\ InView(x)'
    BY DEF ChargedAll
  <2>3. InLedger(x) /\ InDurable(x) /\ InView(x)
    BY <1>c, <1>7, <2>1
  <2> QED BY <2>1, <2>2, <2>3 DEF Booked
<1>8. ASSUME Spent' \subseteq Spent, Reboot PROVE ChargedAll'
  <2>1. /\ ledger' \in {ledger, durable} /\ durable' = ledger' /\ real' = real
        /\ \A q \in Procs : ~Editing(q)'
    BY <1>8 DEF Reboot, Editing
  <2> SUFFICES ASSUME NEW x \in Spent', real' - x.r < LongWindow
               PROVE  InLedger(x)' /\ InDurable(x)' /\ InView(x)'
    BY DEF ChargedAll
  <2>2. InLedger(x) /\ InDurable(x) /\ InView(x)
    BY <1>c, <1>8, <2>1
  <2> QED BY <2>1, <2>2 DEF Booked
<1>9. ASSUME Spent' \subseteq Spent, Damage PROVE ChargedAll'
  <2>1. ledger'.kind # "ok" /\ durable'.kind # "ok"
    BY <1>9 DEF Damage, NoLedger
  <2>2. \A q \in Procs : ~Editing(q)'
    BY <1>9, <1>t, <1>p DEF Damage, Editing, LockOK, Holds
  <2> QED BY <2>1, <2>2 DEF ChargedAll
<1>10. ASSUME Spent' \subseteq Spent, NEW p \in Procs, Return(p), UNCHANGED <<ledger, durable, real>>
       PROVE  ChargedAll'
  BY <1>1, <1>10, <1>p DEF Return, Goto, Editing
<1>11. ASSUME Spent' \subseteq Spent, NEW p \in Procs, Call(p) PROVE ChargedAll'
  BY <1>1, <1>11, <1>p DEF Call, OpenLock, OpenUsage, Goto, Editing, disk, local, clock
<1>12. ASSUME Spent' \subseteq Spent, NEW p \in Procs,
              CreateLock(p) \/ AwaitLedger(p) \/ AwaitTimeout(p) \/ Flock(p)
              \/ ReadFails(p) \/ WriteFails(p) \/ Refuse(p)
       PROVE  ChargedAll'
  BY <1>1, <1>12, <1>p DEF CreateLock, AwaitLedger, AwaitTimeout, Flock, ReadFails, WriteFails,
                           Refuse, Goto, Editing, disk, local, clock
<1>13. ASSUME Spent' \subseteq Spent, NEW p \in Procs, FlockTimeout(p) \/ Transmit(p) \/ Crash(p)
       PROVE  ChargedAll'
  BY <1>10, <1>13 DEF FlockTimeout, Transmit, Crash, disk, clock
<1>14. ASSUME Spent' \subseteq Spent, NEW p \in Procs, Unlock(p) PROVE ChargedAll'
  <2>1. CASE ~Return(p)
    BY <1>1, <1>14, <1>p, <2>1 DEF Unlock, Goto, Editing, disk, local, clock
  <2>2. CASE Return(p)
    BY <1>10, <1>14, <2>2 DEF Unlock, disk, clock
  <2> QED BY <2>1, <2>2
<1>15. ASSUME Spent' \subseteq Spent, StepClock \/ Tick \/ UNCHANGED vars PROVE ChargedAll'
  BY <1>1, <1>15 DEF StepClock, Tick, vars, disk, local, clock, Editing
<1>16. CASE \E p \in Procs : SyncDir(p)
  BY <1>3, <1>16
<1>17. CASE \A p \in Procs : ~SyncDir(p)
  BY <1>2, <1>4, <1>5, <1>6, <1>7, <1>8, <1>9, <1>11, <1>12, <1>13, <1>14, <1>15, <1>17
     DEF Next, Work, Environment
<1> QED BY <1>16, <1>17

LEMMA BookInit == Init => BookInv
<1> SUFFICES ASSUME Init PROVE BookInv OBVIOUS
<1>1. AgeInv /\ NowPast BY AgeInit DEF Init, NowPast, NoTime
<1>2. \A p \in Procs : pc[p] = "idle" /\ why[p] = "none" /\ ~first[p]
  BY DEF Init
<1>3. radiated = {} /\ ~lockDurable BY DEF Init
<1>4. Spent = {} BY <1>2, <1>3 DEF Spent, Cleared
<1> QED BY <1>1, <1>2, <1>3, <1>4 DEF BookInv, GrantOK, TicketOK, LockKept, SyncOK, OwnEntry, ChargedAll

LEMMA BookStep == ~StepInside /\ BookInv /\ [Next]_vars => BookInv'
<1> SUFFICES ASSUME ~StepInside, BookInv, [Next]_vars PROVE BookInv' OBVIOUS
<1>1. AgeInv' /\ NowPast' BY AgeStep, NowPastStep DEF BookInv, AgeInv, TypeInv
<1>2. TicketInv /\ TypeInv /\ LockOK BY DEF BookInv, AgeInv, TicketInv
<1>3. GrantOK' /\ TicketOK' BY <1>2, TicketStep DEF TicketInv
<1>4. LockKept' /\ SyncOK' /\ OwnEntry'
  BY <1>2, LockKeptStep, SyncStep, OwnStep DEF BookInv
<1> QED BY <1>1, <1>3, <1>4, ChargedStep DEF BookInv

\* reserve() persists before it grants and prunes only what is really old: if no
\* clock step falls into a critical section then, for any number of processes,
\* crashes, power losses and clock steps, a packet radiated less than a long window
\* ago is in every usable ledger, the visible and the durable one.
THEOREM AlwaysCharged == ~StepInside => (Spec => []Charged)
<1> SUFFICES ASSUME ~StepInside PROVE Spec => []Charged OBVIOUS
<1>1. BookInv /\ [Next]_vars => BookInv' BY BookStep
<1>2. BookInv => Charged
  BY DEF BookInv, ChargedAll, Charged, InWindow, Spent, Booked
<1> QED BY <1>1, <1>2, BookInit, PTL DEF Spec

-----------------------------------------------------------------------------
(* Sums of airtimes                                                        *)

\* MapThenSumSet sums by a function defined recursively on the subsets of its
\* argument, which takes out one chosen element at a time.
Pick(s) == CHOOSE x \in s : TRUE
Summing(g, S) == g = [s \in SUBSET S |-> IF s = {} THEN 0 ELSE Pick(s).a + g[s \ {Pick(s)}]]

\* Sum is the value of such a function.
LEMMA SumDef == ASSUME NEW S PROVE Sum(S) = (CHOOSE g : Summing(g, S))[S]
BY Zenon DEF Sum, MapThenSumSet, MapThenFoldSet, Summing, Pick

\* Of any subsets of a finite set one is minimal: the induction the sums need, from
\* the well-founded inclusion of finite sets.
LEMMA MinimalSubset ==
    ASSUME NEW S, IsFiniteSet(S), NEW T \in SUBSET (SUBSET S), T # {}
    PROVE  \E x \in T : \A y \in T : y \subseteq x => y = x
<1>1. FiniteSubsetsOf(S) = SUBSET S
  BY FS_FiniteSubsetsOfFinite
<1>2. IsWellFoundedOn(StrictSubsetOrdering(S), FiniteSubsetsOf(S))
  BY FS_StrictSubsetOrderingWellFounded
<1>3. PICK x \in T : \A y \in T : ~(<<y, x>> \in StrictSubsetOrdering(S))
  BY <1>1, <1>2, WFMin
<1>4. ASSUME NEW y \in T, y \subseteq x, y # x PROVE FALSE
  <2>1. <<y, x>> \in (SUBSET S) \X (SUBSET S)
    OBVIOUS
  <2>2. <<y, x>> \in StrictSubsetOrdering(S)
    BY <1>4, <2>1 DEF StrictSubsetOrdering
  <2> QED BY <1>3, <1>4, <2>2
<1> QED BY <1>3, <1>4

\* The recursion, equation by equation.
LEMMA SummingFacts ==
    ASSUME NEW S, NEW g, Summing(g, S)
    PROVE  /\ g[{}] = 0
           /\ \A s \in SUBSET S : s # {} => g[s] = Pick(s).a + g[s \ {Pick(s)}]
BY Zenon DEF Summing

\* The element chosen is one of the set.
LEMMA PickIn == ASSUME NEW s, s # {} PROVE Pick(s) \in s
BY DEF Pick

\* There is at most one such function.
LEMMA SumUnique ==
    ASSUME NEW S, IsFiniteSet(S), NEW g, NEW h, Summing(g, S), Summing(h, S)
    PROVE  \A s \in SUBSET S : g[s] = h[s]
<1> DEFINE Bad == {s \in SUBSET S : g[s] # h[s]}
<1> SUFFICES ASSUME Bad # {} PROVE FALSE
  OBVIOUS
<1>1. PICK s \in Bad : \A t \in Bad : t \subseteq s => t = s
  <2>1. Bad \in SUBSET (SUBSET S) OBVIOUS
  <2> HIDE DEF Bad
  <2> QED BY <2>1, MinimalSubset
<1>2. s # {}
  BY SummingFacts
<1>3. s \ {Pick(s)} \notin Bad /\ s \ {Pick(s)} \in SUBSET S
  BY <1>1, <1>2, PickIn
<1>4. g[s \ {Pick(s)}] = h[s \ {Pick(s)}]
  BY <1>3
<1> QED BY <1>1, <1>2, <1>4, SummingFacts

\* Restricted to fewer subsets it is one of those.
LEMMA SumRestrict ==
    ASSUME NEW S, NEW g, Summing(g, S), NEW T \in SUBSET S
    PROVE  Summing([s \in SUBSET T |-> g[s]], T)
<1> DEFINE h == [s \in SUBSET T |-> g[s]]
<1>0. g[{}] = 0 /\ \A s \in SUBSET S : s # {} => g[s] = Pick(s).a + g[s \ {Pick(s)}]
  BY SummingFacts
<1>1. ASSUME NEW s \in SUBSET T
      PROVE  h[s] = IF s = {} THEN 0 ELSE Pick(s).a + h[s \ {Pick(s)}]
  <2>1. h[s] = g[s] /\ h[s \ {Pick(s)}] = g[s \ {Pick(s)}]
    OBVIOUS
  <2>2. s \in SUBSET S
    OBVIOUS
  <2> HIDE DEF h
  <2>3. g[{}] = 0 /\ (s # {} => g[s] = Pick(s).a + g[s \ {Pick(s)}])
    BY <1>0, <2>2
  <2>4. CASE s = {}
    BY <2>1, <2>3, <2>4
  <2>5. CASE s # {}
    BY <2>1, <2>3, <2>5
  <2> QED BY <2>4, <2>5
<1>2. h = [s \in SUBSET T |-> h[s]]
  OBVIOUS
<1> HIDE DEF h
<1>3. h = [s \in SUBSET T |-> IF s = {} THEN 0 ELSE Pick(s).a + h[s \ {Pick(s)}]]
  BY <1>1, <1>2
<1>4. Summing(h, T)
  BY <1>3 DEF Summing
<1> QED BY <1>4 DEF h

\* So any such function gives the sum of every subset.
LEMMA SumOfSumming ==
    ASSUME NEW S, IsFiniteSet(S), NEW g, Summing(g, S), NEW T \in SUBSET S
    PROVE  g[T] = Sum(T)
<1> DEFINE h == [s \in SUBSET T |-> g[s]]
           k == CHOOSE f : Summing(f, T)
<1>1. Summing(h, T)
  BY SumRestrict
<1>2. h[T] = g[T]
  OBVIOUS
<1> HIDE DEF h
<1>3. Summing(k, T)
  BY <1>1, Zenon
<1>4. Sum(T) = k[T]
  BY SumDef
<1> HIDE DEF k
<1>5. IsFiniteSet(T)
  BY FS_Subset
<1>6. T \in SUBSET T
  OBVIOUS
<1>7. h[T] = k[T]
  BY <1>1, <1>3, <1>5, <1>6, SumUnique
<1> QED BY <1>2, <1>4, <1>7

\* And there is one for every finite set.
LEMMA SumExists ==
    ASSUME NEW S, IsFiniteSet(S)
    PROVE  \E g : Summing(g, S)
<1> DEFINE Bad == {s \in SUBSET S : ~\E g : Summing(g, s)}
<1> SUFFICES ASSUME Bad # {} PROVE FALSE
  BY SUBSET S # {}
<1>1. PICK s \in Bad : \A t \in Bad : t \subseteq s => t = s
  <2>1. Bad \in SUBSET (SUBSET S) OBVIOUS
  <2> HIDE DEF Bad
  <2> QED BY <2>1, MinimalSubset
<1>2. IsFiniteSet(s)
  BY FS_Subset
<1> DEFINE g == [u \in SUBSET s |-> IF u = {} THEN 0 ELSE Pick(u).a + Sum(u \ {Pick(u)})]
<1>3. ASSUME NEW u \in SUBSET s, u # s PROVE g[u] = Sum(u)
  <2>1. u \notin Bad
    BY <1>1, <1>3
  <2>2. PICK h : Summing(h, u)
    BY <1>3, <2>1
  <2>3. IsFiniteSet(u)
    BY <1>2, FS_Subset
  <2>4. h[u] = Sum(u)
    BY <2>2, <2>3, SumOfSumming
  <2>5. CASE u = {}
    <3>1. h[u] = 0 BY <2>2, <2>5, SummingFacts
    <3> QED BY <2>4, <2>5, <3>1
  <2>6. CASE u # {}
    <3>1. h[u] = Pick(u).a + h[u \ {Pick(u)}]
      BY <2>2, <2>6, SummingFacts
    <3>2. h[u \ {Pick(u)}] = Sum(u \ {Pick(u)})
      BY <2>2, <2>3, SumOfSumming
    <3> QED BY <2>4, <2>6, <3>1, <3>2
  <2> QED BY <2>5, <2>6
<1>4. ASSUME NEW u \in SUBSET s, u # {} PROVE g[u \ {Pick(u)}] = Sum(u \ {Pick(u)})
  <2>1. u \ {Pick(u)} \in SUBSET s /\ u \ {Pick(u)} # s
    BY <1>4, PickIn
  <2> HIDE DEF g
  <2> QED BY <1>3, <2>1
<1>5. \A u \in SUBSET s : g[u] = IF u = {} THEN 0 ELSE Pick(u).a + Sum(u \ {Pick(u)})
  OBVIOUS
<1>6. g = [u \in SUBSET s |-> g[u]]
  OBVIOUS
<1> HIDE DEF g
<1>7. \A u \in SUBSET s : g[u] = IF u = {} THEN 0 ELSE Pick(u).a + g[u \ {Pick(u)}]
  BY <1>4, <1>5
<1>8. Summing(g, s)
  BY <1>6, <1>7 DEF Summing
<1> QED BY <1>1, <1>8

\* The sum of nothing, and of something.
LEMMA SumRec ==
    ASSUME NEW S, IsFiniteSet(S)
    PROVE  /\ S = {} => Sum(S) = 0
           /\ S # {} => Sum(S) = Pick(S).a + Sum(S \ {Pick(S)})
<1>1. PICK g : Summing(g, S)
  BY SumExists
<1>2. S \in SUBSET S /\ S \ {Pick(S)} \in SUBSET S
  OBVIOUS
<1>3. g[S] = Sum(S) /\ g[S \ {Pick(S)}] = Sum(S \ {Pick(S)})
  BY <1>1, <1>2, SumOfSumming
<1>4. g[{}] = 0 /\ (S # {} => g[S] = Pick(S).a + g[S \ {Pick(S)}])
  BY <1>1, <1>2, SummingFacts
<1>5. CASE S = {}
  BY <1>3, <1>4, <1>5
<1>6. CASE S # {}
  BY <1>3, <1>4, <1>6
<1> QED BY <1>5, <1>6

\* Finitely many entries or packets, each with an airtime.
Priced(S) == IsFiniteSet(S) /\ \A x \in S : x.a \in Nat

\* A sum of airtimes is a number.
LEMMA SumNat ==
    ASSUME NEW S, Priced(S)
    PROVE  Sum(S) \in Nat
<1> DEFINE Bad == {s \in SUBSET S : Sum(s) \notin Nat}
<1> SUFFICES ASSUME Bad # {} PROVE FALSE
  OBVIOUS
<1>f. IsFiniteSet(S) /\ \A x \in S : x.a \in Nat
  BY DEF Priced
<1>1. PICK s \in Bad : \A t \in Bad : t \subseteq s => t = s
  <2>1. Bad \in SUBSET (SUBSET S) OBVIOUS
  <2> HIDE DEF Bad
  <2> QED BY <1>f, <2>1, MinimalSubset
<1>2. IsFiniteSet(s)
  BY <1>f, FS_Subset
<1>3. s # {}
  <2> SUFFICES ASSUME s = {} PROVE FALSE
    OBVIOUS
  <2>1. Sum(s) = 0
    BY <1>2, SumRec
  <2> QED BY <2>1
<1>4. Sum(s) = Pick(s).a + Sum(s \ {Pick(s)})
  BY <1>2, <1>3, SumRec
<1>5. Pick(s) \in s /\ s \ {Pick(s)} \notin Bad
  BY <1>1, <1>3, PickIn
<1>6. Pick(s).a \in Nat /\ Sum(s \ {Pick(s)}) \in Nat
  BY <1>f, <1>5
<1>7. Sum(s) \in Nat
  BY <1>4, <1>6
<1> QED BY <1>7

\* The order of summation does not matter: any element can be taken out.
LEMMA SumRemove ==
    ASSUME NEW S, Priced(S), NEW x \in S
    PROVE  Sum(S) = x.a + Sum(S \ {x})
<1> DEFINE Bad == {s \in SUBSET S : \E y \in s : Sum(s) # y.a + Sum(s \ {y})}
<1> SUFFICES ASSUME Bad # {} PROVE FALSE
  OBVIOUS
<1>f. IsFiniteSet(S) /\ \A z \in S : z.a \in Nat
  BY DEF Priced
<1>1. PICK s \in Bad : \A t \in Bad : t \subseteq s => t = s
  <2>1. Bad \in SUBSET (SUBSET S) OBVIOUS
  <2> HIDE DEF Bad
  <2> QED BY <1>f, <2>1, MinimalSubset
<1>2. PICK y \in s : Sum(s) # y.a + Sum(s \ {y})
  OBVIOUS
<1> DEFINE p == Pick(s)
<1>3. IsFiniteSet(s) /\ s # {} /\ p \in s
  BY <1>f, <1>2, FS_Subset, PickIn
<1>4. Sum(s) = p.a + Sum(s \ {p})
  BY <1>3, SumRec
<1> HIDE DEF p
<1>5. y # p
  BY <1>2, <1>4
<1>6. /\ s \ {p} \in SUBSET S /\ s \ {p} \notin Bad /\ y \in s \ {p}
      /\ s \ {y} \in SUBSET S /\ s \ {y} \notin Bad /\ p \in s \ {y}
  BY <1>1, <1>2, <1>3, <1>5
<1>7. /\ Sum(s \ {p}) = y.a + Sum((s \ {p}) \ {y})
      /\ Sum(s \ {y}) = p.a + Sum((s \ {y}) \ {p})
  BY <1>6
<1>8. (s \ {p}) \ {y} = (s \ {y}) \ {p}
  OBVIOUS
<1>9. Priced((s \ {y}) \ {p})
  BY <1>f, FS_Subset DEF Priced
<1>10. /\ Sum((s \ {y}) \ {p}) \in Nat /\ y.a \in Nat /\ p.a \in Nat
  BY <1>f, <1>3, <1>9, SumNat
<1> DEFINE rest == Sum((s \ {y}) \ {p})
<1>11. Sum(s \ {p}) = y.a + rest /\ Sum(s \ {y}) = p.a + rest
  BY <1>7, <1>8
<1>12. rest \in Nat /\ y.a \in Nat /\ p.a \in Nat
  BY <1>10
<1> HIDE DEF rest, Bad
<1>13. Sum(s) = y.a + Sum(s \ {y})
  BY <1>4, <1>11, <1>12
<1> QED BY <1>2, <1>13

\* A set that maps into another one, one to one and with its airtimes, sums to no more.
LEMMA SumInto ==
    ASSUME NEW S, NEW T, Priced(S), Priced(T), NEW h \in [S -> T],
           \A x, y \in S : h[x] = h[y] => x = y,
           \A x \in S : h[x].a = x.a
    PROVE  Sum(S) <= Sum(T)
<1> DEFINE Bad == {s \in SUBSET S : \E t \in SUBSET T :
                      (\A x \in s : h[x] \in t) /\ ~(Sum(s) <= Sum(t))}
<1> SUFFICES ASSUME Bad # {} PROVE FALSE
  OBVIOUS
<1>f. /\ IsFiniteSet(S) /\ \A z \in S : z.a \in Nat
      /\ \A u \in SUBSET S : Priced(u)
      /\ \A u \in SUBSET T : Priced(u)
  BY FS_Subset DEF Priced
<1>1. PICK s \in Bad : \A t \in Bad : t \subseteq s => t = s
  <2>1. Bad \in SUBSET (SUBSET S) OBVIOUS
  <2> HIDE DEF Bad
  <2> QED BY <1>f, <2>1, MinimalSubset
<1>2. PICK t \in SUBSET T : (\A x \in s : h[x] \in t) /\ ~(Sum(s) <= Sum(t))
  OBVIOUS
<1>3. IsFiniteSet(s) /\ Sum(s) \in Nat /\ Sum(t) \in Nat
  BY <1>f, SumNat DEF Priced
<1>4. s # {}
  <2> SUFFICES ASSUME s = {} PROVE FALSE
    OBVIOUS
  <2>1. Sum(s) = 0
    BY <1>3, SumRec
  <2> QED BY <1>2, <1>3, <2>1
<1>5. PICK p : p \in s
  BY <1>4
<1>6. Sum(s) = p.a + Sum(s \ {p}) /\ Sum(t) = h[p].a + Sum(t \ {h[p]})
  BY <1>f, <1>2, <1>5, SumRemove
<1>7. s \ {p} \notin Bad
  BY <1>1, <1>5
<1>8. \A x \in s \ {p} : h[x] \in t \ {h[p]}
  BY <1>2, <1>5
<1>9. Sum(s \ {p}) <= Sum(t \ {h[p]})
  BY <1>7, <1>8
<1>10. Sum(s \ {p}) \in Nat /\ Sum(t \ {h[p]}) \in Nat
  BY <1>f, SumNat
<1>11. Sum(s) <= Sum(t)
  BY <1>5, <1>6, <1>9, <1>10, <1>f
<1> QED BY <1>2, <1>11

\* In particular a subset does.
LEMMA SumSubset ==
    ASSUME NEW T, Priced(T), NEW S \in SUBSET T
    PROVE  Priced(S) /\ Sum(S) <= Sum(T)
<1>1. Priced(S)
  BY FS_Subset DEF Priced
<1> DEFINE h == [x \in S |-> x]
<1>2. h \in [S -> T] /\ (\A x, y \in S : h[x] = h[y] => x = y) /\ \A x \in S : h[x].a = x.a
  OBVIOUS
<1> HIDE DEF h
<1> QED BY <1>1, <1>2, SumInto

-----------------------------------------------------------------------------
(* Budgets                                                                 *)

\* The entries or packets of the last window, and when they keep within the limits
\* (the burst guard lets a lone packet through).
Recent(es, window, t) == {e \in es : t - e.r < window}
Alone(es) == \A e, f \in es : e = f
LongFine(es, t) == Sum(Recent(es, LongWindow, t)) <= LongBudget
ShortFine(es, t) ==
    Alone(Recent(es, ShortWindow, t)) \/ Sum(Recent(es, ShortWindow, t)) <= ShortBudget
Fine(es, t) == LongFine(es, t) /\ (ShortWindow <= LongWindow => ShortFine(es, t))

Timed(es) == Priced(es) /\ \A e \in es : e.r \in Nat

\* Limits are kept by what maps, one to one and with its airtimes and times, into what
\* keeps them, and by the passing of time.
LEMMA RecentInto ==
    ASSUME NEW S, NEW T, Timed(S), Timed(T), NEW t \in Nat, NEW u \in Nat, t <= u, NEW w \in Nat,
           NEW h \in [Recent(S, w, u) -> T],
           \A x, y \in Recent(S, w, u) : h[x] = h[y] => x = y,
           \A x \in Recent(S, w, u) : h[x].a = x.a /\ h[x].r = x.r
    PROVE  /\ Sum(Recent(S, w, u)) \in Nat /\ Sum(Recent(S, w, u)) <= Sum(Recent(T, w, t))
           /\ Sum(Recent(T, w, t)) \in Nat
           /\ Alone(Recent(T, w, t)) => Alone(Recent(S, w, u))
<1> DEFINE A == Recent(S, w, u)
           B == Recent(T, w, t)
<1>1. Priced(S) /\ Priced(T) BY DEF Timed
<1>2. A \in SUBSET S /\ B \in SUBSET T BY DEF Recent
<1>3. Priced(A) /\ Priced(B) BY <1>1, <1>2, SumSubset
<1>4. \A x \in A : h[x] \in B
  <2> SUFFICES ASSUME NEW x \in A PROVE h[x] \in B OBVIOUS
  <2>1. u - x.r < w /\ x.r \in Nat BY DEF Timed, Recent
  <2>2. t - x.r < w BY <2>1
  <2>3. h[x] \in T /\ h[x].r = x.r OBVIOUS
  <2> QED BY <2>2, <2>3 DEF Recent
<1> HIDE DEF A, B
<1>5. /\ h \in [A -> B]
      /\ \A x, y \in A : h[x] = h[y] => x = y
      /\ \A x \in A : h[x].a = x.a
  <2>1. h \in [A -> T] BY DEF A
  <2>2. h \in [A -> B] BY <1>4, <2>1
  <2> QED BY <2>2 DEF A
<1>6. Sum(A) <= Sum(B) BY <1>3, <1>5, SumInto
<1>7. Sum(A) \in Nat /\ Sum(B) \in Nat BY <1>3, SumNat
<1>8. Alone(B) => Alone(A) BY <1>5 DEF Alone
<1> QED BY <1>6, <1>7, <1>8 DEF A, B

LEMMA FineInto ==
    ASSUME NEW S, NEW T, Timed(S), Timed(T), NEW t \in Nat, NEW u \in Nat, t <= u,
           NEW h \in [S -> T],
           \A x, y \in S : h[x] = h[y] => x = y,
           \A x \in S : h[x].a = x.a /\ h[x].r = x.r,
           Fine(T, t)
    PROVE  Fine(S, u)
<1>0. LongWindow \in Nat /\ ShortWindow \in Nat /\ LongBudget \in Nat /\ ShortBudget \in Nat
  BY DutyAssumption
<1>1. ASSUME NEW w \in Nat
      PROVE  /\ Sum(Recent(S, w, u)) \in Nat /\ Sum(Recent(S, w, u)) <= Sum(Recent(T, w, t))
             /\ Sum(Recent(T, w, t)) \in Nat
             /\ Alone(Recent(T, w, t)) => Alone(Recent(S, w, u))
  <2> DEFINE A == Recent(S, w, u)
             k == [x \in A |-> h[x]]
  <2>1. A \subseteq S BY DEF Recent
  <2> HIDE DEF A
  <2>2. k \in [A -> T] BY <2>1
  <2>3. /\ \A x, y \in A : k[x] = k[y] => x = y
        /\ \A x \in A : k[x].a = x.a /\ k[x].r = x.r
    BY <2>1
  <2> HIDE DEF k
  <2> QED BY <2>2, <2>3, RecentInto DEF A
<1>2. LongFine(S, u) BY <1>0, <1>1 DEF Fine, LongFine
<1>3. ShortWindow <= LongWindow => ShortFine(S, u) BY <1>0, <1>1 DEF Fine, ShortFine
<1> QED BY <1>2, <1>3 DEF Fine

\* Fewer entries, later.
LEMMA FineSubset ==
    ASSUME NEW T, NEW S \in SUBSET T, Timed(T), NEW t \in Nat, NEW u \in Nat, t <= u, Fine(T, t)
    PROVE  Timed(S) /\ Fine(S, u)
<1>1. Timed(S) BY SumSubset DEF Timed
<1> DEFINE h == [x \in S |-> x]
<1>2. /\ h \in [S -> T] /\ \A x, y \in S : h[x] = h[y] => x = y
      /\ \A x \in S : h[x].a = x.a /\ h[x].r = x.r
  OBVIOUS
<1> HIDE DEF h
<1> QED BY <1>1, <1>2, FineInto

LEMMA SumAdd ==
    ASSUME NEW S, NEW g, Priced(S), g.a \in Nat
    PROVE  /\ Priced(S \cup {g}) /\ Sum(S \cup {g}) \in Nat /\ Sum(S) \in Nat
           /\ Sum(S \cup {g}) <= Sum(S) + g.a
<1>1. Priced(S \cup {g}) BY FS_AddElement DEF Priced
<1> DEFINE more == Sum(S \cup {g})
           less == Sum(S)
           air1 == g.a
<1>2. more \in Nat /\ less \in Nat /\ air1 \in Nat BY <1>1, SumNat
<1> SUFFICES more <= less + air1 BY <1>1, <1>2
<1>3. CASE g \in S
  <2>1. S \cup {g} = S BY <1>3
  <2>2. more = less BY <2>1
  <2> HIDE DEF more, less, air1
  <2> QED BY <1>2, <2>2
<1>4. CASE g \notin S
  <2>1. (S \cup {g}) \ {g} = S BY <1>4
  <2>2. more = air1 + Sum((S \cup {g}) \ {g}) BY <1>1, SumRemove
  <2>3. more = air1 + less BY <2>1, <2>2
  <2> HIDE DEF more, less, air1
  <2> QED BY <1>2, <2>3
<1> QED BY <1>3, <1>4

\* used(): the verdict is about at least the entries of the real window, because none
\* of them looks older than it is.
LEMMA UsedCovers ==
    ASSUME BookInv, NEW p \in Procs, pc[p] = "decide", Timed(view[p]), NEW w \in Nat
    PROVE  LET recent == Recent(view[p], w, real)
               used   == Used(view[p], w, now[p].wall)
           IN  /\ Priced(recent) /\ Sum(recent) \in Nat /\ used \in Nat /\ Sum(recent) <= used
               /\ recent # {} => used > 0
<1> DEFINE v == view[p]
           n == now[p].wall
           W == {e \in v : e.t > n - w}
           R == Recent(v, w, real)
<1>t. /\ TypeOK /\ NowOK /\ NowPast /\ ViewOK
  BY DEF BookInv, AgeInv, TypeInv
<1>p. /\ n \in Int /\ now[p].real \in Nat /\ v \in SUBSET Entry /\ real \in Nat /\ offset \in Int
      /\ Airtimes \subseteq Nat \ {0}
  BY <1>t, DutyAssumption DEF TypeOK
<1>1. Used(v, w, n) = Sum(W)
  BY Zenon DEF Used, Sum
<1>2. n - now[p].real = offset /\ now[p].real <= real
  BY <1>t DEF NowOK, NowPast, Holds
<1>3. \A e \in v : e.t - e.r >= offset /\ e.t \in Int /\ e.r \in Nat /\ e.a \in Nat \ {0}
  BY <1>t, <1>p DEF ViewOK, Entry
<1>4. Priced(v) BY DEF Timed
<1> HIDE DEF n, v
<1>5. R \in SUBSET W
  BY <1>p, <1>2, <1>3 DEF Recent
<1>6. W \in SUBSET v OBVIOUS
<1> HIDE DEF W, R
<1>7. Priced(W) BY <1>4, <1>6, SumSubset
<1>8. Priced(R) /\ Sum(R) <= Sum(W) BY <1>5, <1>7, SumSubset
<1>9. Sum(R) \in Nat /\ Sum(W) \in Nat BY <1>7, <1>8, SumNat
<1>10. R # {} => Sum(W) > 0
  <2> SUFFICES ASSUME NEW e \in R PROVE Sum(W) > 0 OBVIOUS
  <2> DEFINE rest == Sum(W \ {e})
  <2>1. e \in W BY <1>5
  <2>2. Sum(W) = e.a + rest BY <1>7, <2>1, SumRemove
  <2>3. Priced(W \ {e}) BY <1>7, SumSubset
  <2>4. rest \in Nat BY <2>3, SumNat
  <2>5. e.a \in Nat \ {0} BY <1>3, <1>6, <2>1
  <2> HIDE DEF rest
  <2> QED BY <2>2, <2>4, <2>5
<1> QED BY <1>1, <1>8, <1>9, <1>10 DEF R, v, n

\* So with the new entry those of the real window keep within the limits.
LEMMA GrantFine ==
    ASSUME BookInv, NEW p \in Procs, Grant(p), Timed(view[p])
    PROVE  Timed(view'[p]) /\ Fine(view'[p], real)
<1> DEFINE v == view[p]
           n == now[p].wall
           g == [id |-> nextId, t |-> n, a |-> air[p], r |-> now[p].real]
<1>t. TypeOK /\ AirOK
  BY DEF BookInv, AgeInv, TypeInv
<1>c. /\ LongWindow \in Nat /\ ShortWindow \in Nat /\ LongBudget \in Nat /\ ShortBudget \in Nat
      /\ Airtimes \subseteq Nat \ {0}
  BY DutyAssumption
<1>p. real \in Nat /\ now[p].real \in Nat
  BY <1>t DEF TypeOK
<1>1. pc[p] = "decide" /\ Permitted(p) /\ view'[p] = v \cup {g}
  BY <1>t DEF Grant, TypeOK
<1>2. g.a = air[p] /\ g.r = now[p].real OBVIOUS
<1>3. air[p] \in Nat
  BY <1>t, <1>c, <1>1 DEF AirOK
<1>4. /\ Used(v, ShortWindow, n) > 0 => Used(v, ShortWindow, n) + air[p] <= ShortBudget
      /\ Used(v, LongWindow, n) + air[p] <= LongBudget
  BY <1>1 DEF Permitted
<1> HIDE DEF g
<1>5. ASSUME NEW w \in Nat
      PROVE  /\ Used(v, w, n) \in Nat /\ (Recent(v, w, real) # {} => Used(v, w, n) > 0)
             /\ Sum(Recent(v \cup {g}, w, real)) \in Nat
             /\ Sum(Recent(v \cup {g}, w, real)) <= Used(v, w, n) + air[p]
  <2> DEFINE R == Recent(v, w, real)
             S == Recent(v \cup {g}, w, real)
  <2>1. S \in SUBSET (R \cup {g}) BY DEF Recent
  <2>2. /\ Priced(R) /\ Sum(R) \in Nat /\ Used(v, w, n) \in Nat /\ Sum(R) <= Used(v, w, n)
        /\ R # {} => Used(v, w, n) > 0
    BY <1>1, UsedCovers
  <2> HIDE DEF R, S
  <2> DEFINE x == Sum(S)
             y == Sum(R \cup {g})
             z == Sum(R)
             u == Used(v, w, n)
  <2>3. Priced(R \cup {g}) /\ y \in Nat /\ y <= z + air[p]
    BY <1>2, <1>3, <2>2, SumAdd
  <2>4. Priced(S) /\ x <= y BY <2>1, <2>3, SumSubset
  <2>5. x \in Nat BY <2>4, SumNat
  <2>6. z \in Nat /\ u \in Nat /\ z <= u BY <2>2
  <2> HIDE DEF x, y, z, u
  <2>7. x <= u + air[p] BY <1>3, <2>3, <2>4, <2>5, <2>6
  <2> QED BY <2>2, <2>5, <2>7 DEF x, u, R, S
<1>6. ASSUME NEW w \in Nat, NEW b \in Nat, Used(v, w, n) + air[p] <= b
      PROVE  Sum(Recent(v \cup {g}, w, real)) <= b
  <2> DEFINE x == Sum(Recent(v \cup {g}, w, real))
             u == Used(v, w, n)
  <2>1. x \in Nat /\ u \in Nat /\ x <= u + air[p] /\ u + air[p] <= b BY <1>5, <1>6
  <2> HIDE DEF x, u
  <2>2. x <= b BY <1>3, <2>1
  <2> QED BY <2>2 DEF x
<1>7. LongFine(v \cup {g}, real)
  BY <1>4, <1>6, <1>c DEF LongFine
<1>8. ShortFine(v \cup {g}, real)
  <2>1. CASE Used(v, ShortWindow, n) > 0
    BY <1>4, <1>6, <1>c, <2>1 DEF ShortFine
  <2>2. CASE ~(Used(v, ShortWindow, n) > 0)
    <3>1. Recent(v, ShortWindow, real) = {} BY <1>5, <1>c, <2>2
    <3>2. Recent(v \cup {g}, ShortWindow, real) \subseteq {g} BY <3>1 DEF Recent
    <3> QED BY <3>2 DEF ShortFine, Alone
  <2> QED BY <2>1, <2>2
<1>9. Timed(v \cup {g})
  <2>1. Priced(v \cup {g}) BY <1>2, <1>3, SumAdd DEF Timed
  <2> QED BY <1>2, <1>p, <2>1 DEF Timed
<1> QED BY <1>1, <1>7, <1>8, <1>9 DEF Fine

\* Every packet cleared, and one that is about to be, has a number of its own.
LEMMA SpentDistinct ==
    ASSUME TicketInv, NEW p \in Procs, why[p] = "grant"
    PROVE  \A x, y \in Spent \cup {Packet(p)} : x.id = y.id => x = y
<1> SUFFICES ASSUME NEW x \in Spent \cup {Packet(p)}, NEW y \in Spent \cup {Packet(p)}, x.id = y.id
             PROVE  x = y
  OBVIOUS
<1>1. x \in radiated \/ \E q \in Procs : why[q] = "grant" /\ x = Packet(q) BY DEF Spent, Cleared
<1>2. y \in radiated \/ \E q \in Procs : why[q] = "grant" /\ y = Packet(q) BY DEF Spent, Cleared
<1>3. \A q \in Procs : Packet(q).id = ticket[q] BY DEF Packet
<1> QED BY <1>1, <1>2, <1>3 DEF TicketInv, TicketOK

\* Packets that are, as long as they count, in a ledger under their own numbers keep
\* within the limits if the ledger's entries do.
LEMMA BookedFine ==
    ASSUME NEW S, NEW es, NEW t \in Nat, Timed(S), Timed(es), Fine(es, t),
           \A x, y \in S : x.id = y.id => x = y,
           \A x \in S : t - x.r < LongWindow => Booked(x, es)
    PROVE  Fine(S, t)
<1>c. LongWindow \in Nat /\ ShortWindow \in Nat /\ LongBudget \in Nat /\ ShortBudget \in Nat
  BY DutyAssumption
<1>1. ASSUME NEW w \in Nat, w <= LongWindow
      PROVE  /\ Sum(Recent(S, w, t)) \in Nat
             /\ Sum(Recent(S, w, t)) <= Sum(Recent(es, w, t))
             /\ Sum(Recent(es, w, t)) \in Nat
             /\ Alone(Recent(es, w, t)) => Alone(Recent(S, w, t))
  <2> DEFINE A == Recent(S, w, t)
             Same(x, e) == e.id = x.id /\ e.a = x.a /\ e.r = x.r
             h == [x \in A |-> CHOOSE e \in es : Same(x, e)]
  <2>1. ASSUME NEW x \in A PROVE \E e \in es : Same(x, e)
    <3>1. x \in S /\ t - x.r < w /\ x.r \in Nat BY DEF Recent, Timed
    <3>2. t - x.r < LongWindow BY <1>1, <1>c, <3>1
    <3> QED BY <3>1, <3>2 DEF Booked
  <2>2. A \subseteq S BY DEF Recent
  <2> HIDE DEF A
  <2>3. \A x \in A : h[x] \in es /\ Same(x, h[x])
    BY <2>1
  <2>4. h \in [A -> es] BY <2>3
  <2> HIDE DEF h
  <2>5. \A x, y \in A : h[x] = h[y] => x = y BY <2>2, <2>3
  <2>6. \A x \in A : h[x].a = x.a /\ h[x].r = x.r BY <2>3
  <2>7. t <= t OBVIOUS
  <2> QED BY <2>4, <2>5, <2>6, <2>7, RecentInto DEF A
<1>2. LongFine(S, t) BY <1>1, <1>c DEF Fine, LongFine
<1>3. ShortWindow <= LongWindow => ShortFine(S, t) BY <1>1, <1>c DEF Fine, ShortFine
<1> QED BY <1>2, <1>3 DEF Fine

\* Both ledgers, the entries of whoever is about to write one, and what was cleared
\* keep within the limits, measured by real time.
Sound(es) == Timed(es) /\ Fine(es, real)
BudgetOK ==
    /\ Sound(ledger.entries) /\ Sound(durable.entries) /\ Sound(Spent)
    /\ \A p \in Procs : Editing(p) => Sound(view[p])
BudgetInv == BookInv /\ BudgetOK

LEMMA BudgetStep == ~StepInside /\ BudgetInv /\ [Next]_vars => BudgetInv'
<1> SUFFICES ASSUME ~StepInside, BudgetInv, [Next]_vars PROVE BudgetOK'
  BY BookStep DEF BudgetInv
<1>t. /\ BookInv /\ TicketInv /\ TypeOK /\ LockOK /\ LedgersOK /\ SyncOK /\ AirOK
      /\ BudgetOK /\ BookInv'
  BY BookStep DEF BudgetInv, BookInv, AgeInv, TypeInv, TicketInv
<1>p. /\ pc \in [Procs -> {"idle", "create", "exists", "flock", "read", "write", "sync",
                           "decide", "unlock", "granted"}]
      /\ now \in [Procs -> [wall : Int, real : Nat]]
      /\ view \in [Procs -> SUBSET Entry] /\ ledger \in Ledger
      /\ real \in Nat /\ NoOne \notin Procs
  BY <1>t, DutyAssumption DEF TypeOK
<1>s. ASSUME NEW S, NEW T \in SUBSET S, Sound(S), real' \in {real, real + 1}
      PROVE  Timed(T) /\ Fine(T, real')
  <2>1. real' \in Nat /\ real <= real' BY <1>p, <1>s
  <2> QED BY <1>p, <1>s, <2>1, FineSubset DEF Sound
<1>1. ASSUME Spent' \subseteq Spent, real' \in {real, real + 1}, UNCHANGED <<ledger, durable>>,
             \A q \in Procs : Editing(q)' => Editing(q) /\ view'[q] = view[q]
      PROVE  BudgetOK'
  <2>1. Sound(ledger.entries)' /\ Sound(durable.entries)' /\ Sound(Spent)'
    BY <1>1, <1>s, <1>t DEF BudgetOK, Sound
  <2>2. ASSUME NEW q \in Procs, Editing(q)' PROVE Sound(view[q])'
    BY <1>1, <1>s, <1>t, <2>2 DEF BudgetOK, Sound
  <2> QED BY <2>1, <2>2 DEF BudgetOK
<1>2. ASSUME \A p \in Procs : ~SyncDir(p) PROVE Spent' \subseteq Spent
  BY <1>2, <1>t, SpentStep
<1>3. ASSUME NEW p \in Procs, SyncDir(p) PROVE BudgetOK'
  <2>1. /\ pc[p] = "sync" /\ durable' = ledger /\ UNCHANGED <<ledger, view, real>>
    BY <1>3 DEF SyncDir, local, clock
  <2>2. \A q \in Procs : Editing(q)' => Editing(q)
    BY <1>3, <1>p DEF SyncDir, Goto, Editing
  <2>3. ledger.kind = "ok"
    BY <1>t, <2>1 DEF SyncOK
  <2>4. Sound(ledger.entries)' /\ Sound(durable.entries)' /\ \A q \in Procs : Editing(q)' => Sound(view[q])'
    BY <1>t, <2>1, <2>2 DEF BudgetOK, Sound
  <2>5. CASE Spent' \subseteq Spent
    BY <1>s, <1>t, <2>1, <2>4, <2>5 DEF BudgetOK, Sound
  <2>6. CASE ~(Spent' \subseteq Spent)
    <3>1. PICK q \in Procs : SyncDir(q) /\ why[q] = "grant" /\ Spent' \subseteq Spent \cup {Packet(q)}
      BY <1>t, <2>6, SpentStep
    <3>2. \A x, y \in Spent' : x.id = y.id => x = y
      BY <1>t, <3>1, SpentDistinct
    <3>3. \A x \in Spent' : real - x.r < LongWindow => Booked(x, ledger.entries)
      BY <1>t, <2>1, <2>3 DEF BookInv, ChargedAll, Booked
    <3>4. Packet(q).a \in Nat /\ Packet(q).r \in Nat
      BY <1>t, <1>p, <3>1, DutyAssumption DEF AirOK, Packet
    <3>5. Timed(Spent) BY <1>t DEF BudgetOK, Sound
    <3>6. Priced(Spent \cup {Packet(q)}) BY <3>4, <3>5, SumAdd DEF Timed
    <3>7. Priced(Spent') BY <3>1, <3>6, SumSubset
    <3>8. \A x \in Spent' : x.r \in Nat BY <3>1, <3>4, <3>5 DEF Timed
    <3>9. Timed(Spent') BY <3>7, <3>8 DEF Timed
    <3>10. Timed(ledger.entries) /\ Fine(ledger.entries, real) BY <1>t DEF BudgetOK, Sound
    <3>11. Fine(Spent', real)
      BY <1>p, <3>2, <3>3, <3>9, <3>10, BookedFine
    <3> QED BY <2>1, <2>4, <3>9, <3>11 DEF BudgetOK, Sound
  <2> QED BY <2>5, <2>6
<1>4. ASSUME Spent' \subseteq Spent, NEW p \in Procs, NEW es, view'[p] = es,
             Timed(es), Fine(es, real),
             UNCHANGED <<ledger, durable, real>>,
             \A q \in Procs : q # p => view'[q] = view[q] /\ (Editing(q)' => Editing(q))
      PROVE  BudgetOK'
  <2>1. Sound(ledger.entries)' /\ Sound(durable.entries)' /\ Sound(Spent)'
    BY <1>4, <1>s, <1>t DEF BudgetOK, Sound
  <2>2. ASSUME NEW q \in Procs, Editing(q)' PROVE Sound(view[q])'
    BY <1>4, <1>t, <2>2 DEF BudgetOK, Sound
  <2> QED BY <2>1, <2>2 DEF BudgetOK
<1>5. ASSUME Spent' \subseteq Spent, NEW p \in Procs, ReadLedger(p) PROVE BudgetOK'
  <2> DEFINE all == Rebase(ledger.entries, ledger.clock)
             es == Kept(all, now[p].wall)
             Same(f, e) == f.id = e.id /\ f.a = e.a /\ f.r = e.r
  <2>1. /\ pc[p] = "read" /\ ledger.kind = "ok" /\ view' = [view EXCEPT ![p] = es]
        /\ UNCHANGED <<ledger, durable, real>>
    BY <1>5 DEF ReadLedger, Readable, disk, clock
  <2>2. PICK d \in Int : \A f \in all : \E e \in ledger.entries : Same(f, e) /\ f.t = e.t + d
    BY <1>t, <2>1, RebaseShift DEF LedgersOK
  <2>3. es \subseteq all /\ all \in SUBSET Entry
    BY <1>p, <1>t, RebaseType DEF Kept, Ledger
  <2>4. /\ view'[p] = es
        /\ \A q \in Procs : q # p => view'[q] = view[q] /\ (Editing(q)' => Editing(q))
    BY <1>5, <1>p, <2>1 DEF ReadLedger, Goto, Editing
  <2> HIDE DEF all, es
  <2> DEFINE h == [f \in es |-> CHOOSE e \in ledger.entries : Same(f, e) /\ f.t = e.t + d]
  <2>5. \A f \in es : h[f] \in ledger.entries /\ Same(f, h[f]) /\ f.t = h[f].t + d
    BY <2>2, <2>3
  <2>6. h \in [es -> ledger.entries] BY <2>5
  <2> HIDE DEF h
  <2>7. \A f, g \in es : h[f] = h[g] => f = g
    <3> SUFFICES ASSUME NEW f \in es, NEW g \in es, h[f] = h[g] PROVE f = g OBVIOUS
    <3>1. f.id = g.id /\ f.a = g.a /\ f.r = g.r /\ f.t = g.t BY <2>5
    <3>2. f \in Entry /\ g \in Entry BY <2>3
    <3> QED BY <3>1, <3>2 DEF Entry
  <2>8. \A f \in es : h[f].a = f.a /\ h[f].r = f.r BY <2>5
  <2>9. Timed(ledger.entries) /\ Fine(ledger.entries, real) BY <1>t DEF BudgetOK, Sound
  <2>10. IsFiniteSet(es)
    BY <2>6, <2>7, <2>9, FS_Injection DEF Timed, Priced, Injection, IsInjective
  <2>11. Timed(es)
    <3>1. \A f \in es : f.a \in Nat /\ f.r \in Nat BY <2>3, DutyAssumption DEF Entry
    <3> QED BY <2>10, <3>1 DEF Timed, Priced
  <2>12. real <= real BY <1>p
  <2>13. Fine(es, real)
    BY <1>p, <2>6, <2>7, <2>8, <2>9, <2>11, <2>12, FineInto
  <2> QED BY <1>4, <1>5, <2>1, <2>4, <2>11, <2>13
<1>6. ASSUME Spent' \subseteq Spent, NEW p \in Procs, ReadFresh(p) PROVE BudgetOK'
  <2>1. /\ view'[p] = {} /\ UNCHANGED <<ledger, durable, real>>
        /\ \A q \in Procs : q # p => view'[q] = view[q] /\ (Editing(q)' => Editing(q))
    BY <1>6, <1>p DEF ReadFresh, Goto, Editing, disk, clock
  <2>2. Timed({}) /\ Fine({}, real)
    BY <1>s, <1>t, <2>1 DEF BudgetOK
  <2> QED BY <1>4, <1>6, <2>1, <2>2
<1>7. ASSUME Spent' \subseteq Spent, NEW p \in Procs, Replace(p) PROVE BudgetOK'
  <2>1. /\ pc[p] = "write" /\ ledger'.entries = view[p]
        /\ UNCHANGED <<durable, view, real>>
    BY <1>7 DEF Replace, local, clock
  <2>2. \A q \in Procs : Editing(q)' => Editing(q)
    BY <1>7, <1>p DEF Replace, Goto, Editing
  <2>3. Sound(view[p]) BY <1>t, <2>1 DEF BudgetOK, Editing
  <2>4. Sound(Spent)' BY <1>7, <1>s, <1>t, <2>1 DEF BudgetOK, Sound
  <2> QED BY <1>t, <2>1, <2>2, <2>3, <2>4 DEF BudgetOK, Sound
<1>8. ASSUME Spent' \subseteq Spent, NEW p \in Procs, Grant(p) PROVE BudgetOK'
  <2>1. Timed(view[p]) BY <1>8, <1>t DEF Grant, BudgetOK, Sound, Editing
  <2>2. Timed(view'[p]) /\ Fine(view'[p], real) BY <1>8, <1>t, <2>1, GrantFine
  <2>3. /\ UNCHANGED <<ledger, durable, real>>
        /\ \A q \in Procs : q # p => view'[q] = view[q] /\ (Editing(q)' => Editing(q))
    BY <1>8, <1>p DEF Grant, Goto, Editing, disk, clock
  <2> QED BY <1>4, <1>8, <2>2, <2>3
<1>9. ASSUME Spent' \subseteq Spent, Reboot PROVE BudgetOK'
  <2>1. /\ ledger' \in {ledger, durable} /\ durable' = ledger' /\ real' = real
        /\ \A q \in Procs : ~Editing(q)'
    BY <1>9 DEF Reboot, Editing
  <2>2. Sound(Spent)' BY <1>9, <1>s, <1>t, <2>1 DEF BudgetOK, Sound
  <2> QED BY <1>t, <2>1, <2>2 DEF BudgetOK, Sound
<1>10. ASSUME Spent' \subseteq Spent, Damage PROVE BudgetOK'
  <2>1. ledger'.entries = {} /\ durable'.entries = {} /\ real' = real
    BY <1>10 DEF Damage, NoLedger, clock
  <2>2. \A q \in Procs : ~Editing(q)'
    BY <1>10, <1>t, <1>p DEF Damage, Editing, LockOK, Holds
  <2>3. Timed({}) /\ Fine({}, real) BY <1>s, <1>t, <2>1 DEF BudgetOK
  <2>4. Sound(Spent)' BY <1>10, <1>s, <1>t, <2>1 DEF BudgetOK, Sound
  <2> QED BY <2>1, <2>2, <2>3, <2>4 DEF BudgetOK, Sound
<1>11. ASSUME Spent' \subseteq Spent, NEW p \in Procs, Return(p), UNCHANGED <<ledger, durable, real>>
       PROVE  BudgetOK'
  BY <1>1, <1>11, <1>p DEF Return, Goto, Editing
<1>12. ASSUME Spent' \subseteq Spent, NEW p \in Procs, Call(p) PROVE BudgetOK'
  BY <1>1, <1>12, <1>p DEF Call, OpenLock, OpenUsage, Goto, Editing, disk, local, clock
<1>13. ASSUME Spent' \subseteq Spent, NEW p \in Procs,
              CreateLock(p) \/ AwaitLedger(p) \/ AwaitTimeout(p) \/ Flock(p)
              \/ ReadFails(p) \/ WriteFails(p) \/ Refuse(p)
       PROVE  BudgetOK'
  BY <1>1, <1>13, <1>p DEF CreateLock, AwaitLedger, AwaitTimeout, Flock, ReadFails, WriteFails,
                           Refuse, Goto, Editing, disk, local, clock
<1>14. ASSUME Spent' \subseteq Spent, NEW p \in Procs, FlockTimeout(p) \/ Transmit(p) \/ Crash(p)
       PROVE  BudgetOK'
  BY <1>11, <1>14 DEF FlockTimeout, Transmit, Crash, disk, clock
<1>15. ASSUME Spent' \subseteq Spent, NEW p \in Procs, Unlock(p) PROVE BudgetOK'
  <2>1. CASE ~Return(p)
    BY <1>1, <1>15, <1>p, <2>1 DEF Unlock, Goto, Editing, disk, local, clock
  <2>2. CASE Return(p)
    BY <1>11, <1>15, <2>2 DEF Unlock, disk, clock
  <2> QED BY <2>1, <2>2
<1>16. ASSUME Spent' \subseteq Spent, StepClock \/ Tick \/ UNCHANGED vars PROVE BudgetOK'
  BY <1>1, <1>16 DEF StepClock, Tick, vars, disk, local, clock, Editing
<1>17. CASE \E p \in Procs : SyncDir(p)
  BY <1>3, <1>17
<1>18. CASE \A p \in Procs : ~SyncDir(p)
  BY <1>2, <1>5, <1>6, <1>7, <1>8, <1>9, <1>10, <1>12, <1>13, <1>14, <1>15, <1>16, <1>18
     DEF Next, Work, Environment
<1> QED BY <1>17, <1>18

LEMMA BudgetInit == Init => BudgetInv
<1> SUFFICES ASSUME Init PROVE BudgetInv OBVIOUS
<1>1. \A p \in Procs : pc[p] = "idle" /\ why[p] = "none"
  BY DEF Init
<1>2. radiated = {} /\ ledger.entries = {} /\ durable.entries = {}
  BY DEF Init, NoLedger
<1>3. Spent = {} BY <1>1, <1>2 DEF Spent, Cleared
<1>4. Timed({}) BY FS_EmptySet DEF Timed, Priced
<1>5. \A w : Recent({}, w, real) = {} BY DEF Recent
<1>6. Sum({}) = 0 BY FS_EmptySet, SumRec
<1>7. Fine({}, real) BY <1>5, <1>6, DutyAssumption DEF Fine, LongFine, ShortFine, Alone
<1> QED BY <1>1, <1>2, <1>3, <1>4, <1>7, BookInit DEF BudgetInv, BudgetOK, Sound, Editing

\* The legal limit of reserve(): if no clock step falls into a critical section then,
\* for any number of processes and packets, any crash, power loss or clock step, the
\* airtime radiated in any real long window stays within the budget.
THEOREM WithinBudget == ~StepInside => (Spec => []RealBudget)
<1> SUFFICES ASSUME ~StepInside PROVE Spec => []RealBudget OBVIOUS
<1>1. BudgetInv /\ [Next]_vars => BudgetInv' BY BudgetStep
<1>2. BudgetInv => RealBudget
  <2> SUFFICES ASSUME BudgetInv PROVE RealBudget OBVIOUS
  <2>1. Timed(Spent) /\ Fine(Spent, real) /\ real \in Nat
    BY DEF BudgetInv, BudgetOK, Sound, BookInv, AgeInv, TypeInv, TypeOK
  <2>2. radiated \in SUBSET Spent /\ real <= real BY <2>1 DEF Spent
  <2>3. Fine(radiated, real) BY <2>1, <2>2, FineSubset
  <2> QED BY <2>3 DEF Fine, LongFine, Recent, RealBudget, InWindow
<1> QED BY <1>1, <1>2, BudgetInit, PTL DEF Spec

\* The burst guard of reserve(), in real time and under the same condition: with a
\* short window that is not longer than the long one (to which the ledger is pruned),
\* two or more packets of one short window stay within the short budget together.
THEOREM NoBurst == ~StepInside /\ ShortWindow <= LongWindow => (Spec => []BurstGuard)
<1> SUFFICES ASSUME ~StepInside, ShortWindow <= LongWindow PROVE Spec => []BurstGuard OBVIOUS
<1>1. BudgetInv /\ [Next]_vars => BudgetInv' BY BudgetStep
<1>2. BudgetInv => BurstGuard
  <2> SUFFICES ASSUME BudgetInv PROVE BurstGuard OBVIOUS
  <2>1. Timed(Spent) /\ Fine(Spent, real) /\ real \in Nat
    BY DEF BudgetInv, BudgetOK, Sound, BookInv, AgeInv, TypeInv, TypeOK
  <2>2. radiated \in SUBSET Spent /\ real <= real BY <2>1 DEF Spent
  <2>3. Fine(radiated, real) BY <2>1, <2>2, FineSubset
  <2> DEFINE R == InWindow(ShortWindow)
  <2>4. Alone(R) \/ Sum(R) <= ShortBudget
    BY <2>3 DEF Fine, ShortFine, Recent, InWindow
  <2> HIDE DEF R
  <2>5. Alone(R) => ~(Cardinality(R) > 1)
    <3>1. CASE R = {}
      BY <3>1, FS_EmptySet
    <3>2. CASE R # {}
      <4>1. PICK x : x \in R BY <3>2
      <4>2. Alone(R) => R = {x} BY <4>1 DEF Alone
      <4> QED BY <4>2, FS_Singleton
    <3> QED BY <3>1, <3>2
  <2> QED BY <2>4, <2>5 DEF BurstGuard, R
<1> QED BY <1>1, <1>2, BudgetInit, PTL DEF Spec

-----------------------------------------------------------------------------
(* The ledger implements the account                                       *)

\* What the account holds of a set of entries: those of the real long window, without
\* their time stamps.
Bare(e) == [id |-> e.id, a |-> e.a, r |-> e.r]
Bookings(es, t) == {Bare(e) : e \in {f \in es : t - f.r < LongWindow}}

\* A ledger that cannot be used holds nothing; the durable one is what the account was,
\* and once a packet was cleared both can be used or the account is lost.
LedgerBooks ==
    /\ ledger.kind # "ok" => ledger.entries = {}
    /\ durable.kind # "ok" => durable.entries = {}
    /\ durable.kind = "ok" =>
          ledger.kind = "ok" /\ Bookings(durable.entries, real) \subseteq Bookings(ledger.entries, real)
    /\ Spent # {} /\ ledger.kind = "ok" => durable.kind = "ok"

\* Up to the verdict, what a process is about to write is what the account holds, or
\* it is the first user's empty account.
ViewBooks == \A p \in Procs : pc[p] = "decide" \/ (pc[p] = "write" /\ why[p] # "grant") =>
    \/ ledger.kind = "ok" /\ Bookings(view[p], real) = Bookings(ledger.entries, real)
    \/ pc[p] = "write" /\ first[p] /\ ledger.kind = "missing" /\ view[p] = {}

\* After a positive one it is that and the new reservation, which still fits however
\* long the write takes.
Fitting(es, a, t) ==
    /\ Recent(Bookings(es, t), ShortWindow, t) # {} =>
          Sum(Recent(Bookings(es, t), ShortWindow, t)) + a <= ShortBudget
    /\ Sum(Bookings(es, t)) + a <= LongBudget
GrantBooks == \A p \in Procs : pc[p] = "write" /\ why[p] = "grant" =>
    /\ ledger.kind = "ok" /\ \A e \in ledger.entries : e.id # ticket[p]
    /\ Bookings(view[p], real) = Bookings(ledger.entries, real) \cup Recent({Packet(p)}, LongWindow, real)
    /\ Fitting(ledger.entries, air[p], real)

\* The calls of reserve() that may still get a number, and what bounds the numbers.
Asking == {p \in Procs : /\ air[p] # Status /\ why[p] # "grant"
                         /\ pc[p] \notin {"idle", "unlock", "granted"}}
IdsOK ==
    /\ \A p \in Procs : pc[p] = "idle" => air[p] = Status
    /\ Asking # {} => nextId + Cardinality(Asking) <= MaxGrants + Cardinality(Procs)
    /\ \A p \in Procs : why[p] = "grant" => ticket[p] \in 1..(MaxGrants + Cardinality(Procs))

LEMMA IdsStep == TicketInv /\ IdsOK /\ [Next]_vars => IdsOK'
<1> SUFFICES ASSUME TicketInv, IdsOK, [Next]_vars PROVE IdsOK' OBVIOUS
<1>t. TypeOK /\ AirOK /\ GrantOK BY DEF TicketInv, TypeInv
<1>p. /\ pc \in [Procs -> {"idle", "create", "exists", "flock", "read", "write", "sync",
                           "decide", "unlock", "granted"}]
      /\ why \in [Procs -> {"none", "init", "rebase", "grant"}]
      /\ air \in [Procs -> Airtimes \cup {Status}] /\ ticket \in [Procs -> Nat]
      /\ nextId \in Nat \ {0} /\ MaxGrants \in Nat
  BY <1>t, DutyAssumption DEF TypeOK
<1>c. IsFiniteSet(Procs) /\ Cardinality(Procs) \in Nat
  BY DutyAssumption, FS_CardinalityType
<1>f. \A A \in SUBSET Procs : IsFiniteSet(A) /\ Cardinality(A) \in Nat /\ Cardinality(A) <= Cardinality(Procs)
  BY <1>c, FS_Subset, FS_CardinalityType
<1>1. ASSUME Asking' \subseteq Asking, nextId' = nextId,
             \A q \in Procs : pc'[q] = "idle" => air'[q] = Status,
             \A q \in Procs : why'[q] = "grant" => why[q] = "grant" /\ ticket'[q] = ticket[q]
      PROVE  IdsOK'
  <2>1. Asking \in SUBSET Procs BY DEF Asking
  <2> DEFINE A == Asking
             B == Asking'
  <2>2. B \in SUBSET A BY <1>1
  <2>3. IsFiniteSet(A) /\ Cardinality(A) \in Nat BY <1>f, <2>1
  <2> HIDE DEF A, B
  <2>4. Cardinality(B) \in Nat /\ Cardinality(B) <= Cardinality(A)
    BY <2>2, <2>3, FS_Subset, FS_CardinalityType
  <2> DEFINE a == Cardinality(A)
             b == Cardinality(B)
             m == MaxGrants + Cardinality(Procs)
  <2>5. B # {} => nextId + a <= m BY <2>2 DEF IdsOK, A
  <2>6. a \in Nat /\ b \in Nat /\ b <= a /\ m \in Nat BY <1>p, <1>c, <2>3, <2>4
  <2> HIDE DEF a, b, m
  <2>7. B # {} => nextId + b <= m BY <1>p, <2>5, <2>6
  <2>8. Asking' # {} => nextId' + Cardinality(Asking') <= MaxGrants + Cardinality(Procs)
    BY <1>1, <2>7 DEF B, b, m
  <2> QED BY <1>1, <2>8 DEF IdsOK
<1>2. ASSUME NEW p \in Procs, nextId' = nextId,
             \A q \in Procs : q # p => /\ pc'[q] = pc[q] /\ why'[q] = why[q]
                                       /\ air'[q] = air[q] /\ ticket'[q] = ticket[q],
             p \in Asking' => p \in Asking,
             pc'[p] = "idle" => air'[p] = Status,
             why'[p] = "grant" => why[p] = "grant" /\ ticket'[p] = ticket[p]
      PROVE  IdsOK'
  <2>1. Asking' \subseteq Asking BY <1>2 DEF Asking
  <2>2. \A q \in Procs : pc'[q] = "idle" => air'[q] = Status BY <1>2 DEF IdsOK
  <2>3. \A q \in Procs : why'[q] = "grant" => why[q] = "grant" /\ ticket'[q] = ticket[q] BY <1>2
  <2> QED BY <1>1, <1>2, <2>1, <2>2, <2>3
<1>3. ASSUME NEW p \in Procs, Return(p), nextId' = nextId PROVE IdsOK'
  BY <1>2, <1>3, <1>p DEF Return, Goto, Asking
<1>4. ASSUME NEW p \in Procs, OpenUsage(p) PROVE IdsOK'
  <2>1. air[p] = Status BY <1>4 DEF OpenUsage, IdsOK
  <2> QED BY <1>2, <1>4, <1>p, <2>1 DEF OpenUsage, Goto, Asking, local, ghost
<1>5. ASSUME NEW p \in Procs, NEW a \in Airtimes, OpenLock(p, a) PROVE IdsOK'
  <2>1. /\ nextId <= MaxGrants /\ nextId' = nextId /\ UNCHANGED <<why, ticket>>
        /\ air' = [air EXCEPT ![p] = a]
        /\ pc' = [pc EXCEPT ![p] = IF lockFile THEN "exists" ELSE "create"]
    BY <1>5 DEF OpenLock, Goto, ghost
  <2>2. \A q \in Procs : pc'[q] = "idle" => air'[q] = Status
    BY <1>p, <2>1 DEF IdsOK
  <2>3. Asking' \in SUBSET Procs BY DEF Asking
  <2> DEFINE b == Cardinality(Asking')
             c == Cardinality(Procs)
  <2>4. b \in Nat /\ c \in Nat /\ b <= c BY <1>c, <1>f, <2>3
  <2> HIDE DEF b, c
  <2>5. nextId' + b <= MaxGrants + c BY <1>p, <2>1, <2>4
  <2>6. nextId' + Cardinality(Asking') <= MaxGrants + Cardinality(Procs) BY <2>5 DEF b, c
  <2> QED BY <2>1, <2>2, <2>6 DEF IdsOK
<1>6. ASSUME NEW p \in Procs, CreateLock(p) \/ AwaitLedger(p) \/ AwaitTimeout(p) \/ Flock(p)
             \/ ReadFails(p) \/ Replace(p) \/ WriteFails(p) \/ Refuse(p)
      PROVE  IdsOK'
  BY <1>2, <1>6, <1>p DEF CreateLock, AwaitLedger, AwaitTimeout, Flock, ReadFails, Replace,
                          WriteFails, Refuse, Goto, Asking, local, ghost
<1>7. ASSUME NEW p \in Procs, SyncDir(p) PROVE IdsOK'
  BY <1>2, <1>7, <1>p DEF SyncDir, Goto, Asking, local, ghost
<1>8. ASSUME NEW p \in Procs, FlockTimeout(p) \/ Transmit(p) \/ Crash(p) PROVE IdsOK'
  BY <1>3, <1>8 DEF FlockTimeout, Transmit, Crash, ghost
<1>9. ASSUME NEW p \in Procs, Unlock(p) PROVE IdsOK'
  <2>1. CASE ~Return(p)
    BY <1>2, <1>9, <1>p, <2>1 DEF Unlock, Goto, Asking, local, ghost
  <2>2. CASE Return(p)
    BY <1>3, <1>9, <2>2 DEF Unlock, ghost
  <2> QED BY <2>1, <2>2
<1>10. ASSUME NEW p \in Procs, ReadLedger(p) \/ ReadFresh(p) PROVE IdsOK'
  <2>1. /\ pc' = [pc EXCEPT ![p] = pc'[p]] /\ pc'[p] \in {"unlock", "write", "decide"}
        /\ why' = [why EXCEPT ![p] = why'[p]] /\ why'[p] \in {"none", "init", "rebase"}
        /\ UNCHANGED <<air, ticket, nextId>>
    BY <1>10, <1>t, ReadLeads DEF ghost
  <2>2. pc[p] = "read" BY <1>10 DEF ReadLedger, ReadFresh
  <2>3. why[p] # "grant" BY <1>t, <2>2 DEF GrantOK
  <2> QED BY <1>2, <1>p, <2>1, <2>2, <2>3 DEF Asking
<1>11. ASSUME NEW p \in Procs, Grant(p) PROVE IdsOK'
  <2>1. /\ pc[p] = "decide" /\ nextId' = nextId + 1 /\ ticket' = [ticket EXCEPT ![p] = nextId]
        /\ pc' = [pc EXCEPT ![p] = "write"] /\ why' = [why EXCEPT ![p] = "grant"] /\ air' = air
    BY <1>11 DEF Grant, Goto
  <2>2. why[p] # "grant" /\ air[p] # Status
    BY <1>t, <2>1, DutyAssumption DEF GrantOK, AirOK, Status
  <2>3. p \in Asking BY <2>1, <2>2 DEF Asking
  <2>4. Asking' = Asking \ {p} BY <1>p, <2>1 DEF Asking
  <2>5. IsFiniteSet(Asking)
    <3>1. Asking \in SUBSET Procs BY DEF Asking
    <3> QED BY <1>f, <3>1
  <2>6. Cardinality(Asking') = Cardinality(Asking) - 1
    BY <2>3, <2>4, <2>5, FS_RemoveElement
  <2> DEFINE a == Cardinality(Asking)
             m == MaxGrants + Cardinality(Procs)
  <2>7. a \in Nat /\ m \in Nat BY <1>c, <1>p, <2>5, FS_CardinalityType
  <2>8. nextId + a <= m BY <2>3 DEF IdsOK
  <2>9. a # 0 BY <2>3, <2>5, FS_EmptySet
  <2> HIDE DEF a, m
  <2>10. nextId' + (a - 1) <= m /\ nextId \in 1..m BY <1>p, <2>1, <2>7, <2>8, <2>9
  <2>11. nextId' + Cardinality(Asking') <= m BY <2>6, <2>10 DEF a
  <2>12. \A q \in Procs : why'[q] = "grant" => ticket'[q] \in 1..m
    BY <1>p, <2>1, <2>10 DEF IdsOK, m
  <2>13. \A q \in Procs : pc'[q] = "idle" => air'[q] = Status
    BY <1>p, <2>1 DEF IdsOK
  <2> QED BY <2>11, <2>12, <2>13 DEF IdsOK, m
<1>12. ASSUME Reboot PROVE IdsOK'
  BY <1>1, <1>12 DEF Reboot, Asking, ghost
<1>13. ASSUME StepClock \/ Tick \/ Damage \/ UNCHANGED vars PROVE IdsOK'
  <2>1. UNCHANGED <<pc, why, air, ticket, nextId>>
    BY <1>13 DEF StepClock, Tick, Damage, vars, local, ghost
  <2> QED BY <2>1 DEF IdsOK, Asking
<1> QED BY <1>4, <1>5, <1>6, <1>7, <1>8, <1>9, <1>10, <1>11, <1>12, <1>13
        DEF Next, Call, Work, Environment

\* Later the account holds those of its reservations that are still of the window.
LEMMA BookingsLater ==
    ASSUME NEW es \in SUBSET Entry, NEW t \in Nat, NEW u \in Nat, t <= u
    PROVE  Bookings(es, u) = Recent(Bookings(es, t), LongWindow, u)
<1>1. LongWindow \in Nat BY DutyAssumption
<1>2. \A e \in es : e.r \in Nat /\ Bare(e).r = e.r BY DEF Entry, Bare
<1>3. \A e \in es : u - e.r < LongWindow => t - e.r < LongWindow BY <1>1, <1>2
<1> HIDE DEF Bare
<1>4. ASSUME NEW x \in Bookings(es, u) PROVE x \in Recent(Bookings(es, t), LongWindow, u)
  <2>1. PICK e \in es : u - e.r < LongWindow /\ x = Bare(e) BY <1>4 DEF Bookings
  <2>2. x \in Bookings(es, t) BY <1>3, <2>1 DEF Bookings
  <2> QED BY <1>2, <2>1, <2>2 DEF Recent
<1>5. ASSUME NEW x \in Recent(Bookings(es, t), LongWindow, u) PROVE x \in Bookings(es, u)
  <2>1. x \in Bookings(es, t) /\ u - x.r < LongWindow BY <1>5 DEF Recent
  <2>2. PICK e \in es : x = Bare(e) BY <2>1 DEF Bookings
  <2> QED BY <1>2, <2>1, <2>2 DEF Bookings
<1> QED BY <1>4, <1>5

\* They sum to no more than the entries do.
LEMMA BookingsSum ==
    ASSUME NEW es \in SUBSET Entry, Timed(es), NEW t \in Nat, NEW w \in Nat
    PROVE  /\ Timed(Bookings(es, t))
           /\ Sum(Recent(Bookings(es, t), w, t)) \in Nat /\ Sum(Recent(es, w, t)) \in Nat
           /\ Sum(Recent(Bookings(es, t), w, t)) <= Sum(Recent(es, w, t))
           /\ Recent(Bookings(es, t), w, t) # {} => Recent(es, w, t) # {}
<1> DEFINE S == Bookings(es, t)
           h == [x \in S |-> CHOOSE e \in es : Bare(e) = x]
<1>1. \A x \in S : \E e \in es : Bare(e) = x BY DEF Bookings
<1> HIDE DEF S
<1>2. \A x \in S : h[x] \in es /\ Bare(h[x]) = x BY <1>1
<1>3. h \in [S -> es] BY <1>2
<1> HIDE DEF h
<1>4. \A x, y \in S : h[x] = h[y] => x = y BY <1>2
<1>5. \A x \in S : h[x].a = x.a /\ h[x].r = x.r BY <1>2 DEF Bare
<1>6. IsFiniteSet(S)
  BY <1>3, <1>4, FS_Injection DEF Timed, Priced, Injection, IsInjective
<1>7. Timed(S) BY <1>2, <1>5, <1>6 DEF Timed, Priced
<1> DEFINE A == Recent(S, w, t)
           k == [x \in A |-> h[x]]
<1>8. A \subseteq S BY DEF Recent
<1>9. A # {} => Recent(es, w, t) # {} BY <1>2, <1>5 DEF Recent
<1> HIDE DEF A
<1>10. k \in [A -> es] BY <1>3, <1>8
<1>11. /\ \A x, y \in A : k[x] = k[y] => x = y
       /\ \A x \in A : k[x].a = x.a /\ k[x].r = x.r
  BY <1>4, <1>5, <1>8
<1> HIDE DEF k
<1>12. t <= t OBVIOUS
<1>13. /\ Sum(A) \in Nat /\ Sum(A) <= Sum(Recent(es, w, t)) /\ Sum(Recent(es, w, t)) \in Nat
  BY <1>7, <1>10, <1>11, <1>12, RecentInto DEF A
<1> QED BY <1>7, <1>9, <1>13 DEF A, S

\* What fits goes on fitting as time passes.
LEMMA FittingLater ==
    ASSUME NEW es \in SUBSET Entry, Timed(es), NEW t \in Nat, NEW u \in Nat, t <= u,
           NEW a \in Nat, Fitting(es, a, t)
    PROVE  Fitting(es, a, u)
<1>c. LongWindow \in Nat /\ ShortWindow \in Nat /\ LongBudget \in Nat /\ ShortBudget \in Nat
  BY DutyAssumption
<1> DEFINE B == Bookings(es, t)
           C == Bookings(es, u)
           P == Recent(B, ShortWindow, t)
           Q == Recent(C, ShortWindow, u)
<1>1. Timed(B) BY <1>c, BookingsSum
<1>2. C = Recent(B, LongWindow, u) BY BookingsLater
<1>3. P # {} => Sum(P) + a <= ShortBudget BY DEF Fitting
<1>4. Sum(B) + a <= LongBudget BY DEF Fitting
<1> HIDE DEF B, C
<1>5. C \in SUBSET B BY <1>2 DEF Recent
<1>6. P \in SUBSET B BY DEF Recent
<1>7. Q \in SUBSET P
  <2>1. \A x \in B : x.r \in Nat BY <1>1 DEF Timed
  <2> QED BY <1>5, <1>c, <2>1 DEF Recent
<1> HIDE DEF P, Q
<1>8. Priced(B) BY <1>1 DEF Timed
<1>9. Priced(C) /\ Sum(C) <= Sum(B) BY <1>5, <1>8, SumSubset
<1>10. Priced(P) BY <1>6, <1>8, SumSubset
<1>11. Priced(Q) /\ Sum(Q) <= Sum(P) BY <1>7, <1>10, SumSubset
<1>12. Sum(B) \in Nat /\ Sum(C) \in Nat /\ Sum(P) \in Nat /\ Sum(Q) \in Nat
  BY <1>8, <1>9, <1>10, <1>11, SumNat
<1>13. Sum(C) + a <= LongBudget BY <1>4, <1>9, <1>12, <1>c
<1>14. Q # {} => Sum(Q) + a <= ShortBudget BY <1>3, <1>7, <1>11, <1>12, <1>c
<1> QED BY <1>13, <1>14 DEF Fitting, C, Q

\* The verdict of reserve() is the account's: what is permitted fits.
LEMMA PermittedFits ==
    ASSUME BookInv, NEW p \in Procs, pc[p] = "decide", Permitted(p), Timed(view[p])
    PROVE  Fitting(view[p], air[p], real)
<1> DEFINE v == view[p]
           n == now[p].wall
<1>t. TypeOK /\ AirOK BY DEF BookInv, AgeInv, TypeInv
<1>c. LongWindow \in Nat /\ ShortWindow \in Nat /\ LongBudget \in Nat /\ ShortBudget \in Nat
  BY DutyAssumption
<1>p. air[p] \in Nat /\ v \in SUBSET Entry /\ real \in Nat
  BY <1>t, DutyAssumption DEF AirOK, TypeOK
<1>1. /\ Used(v, ShortWindow, n) > 0 => Used(v, ShortWindow, n) + air[p] <= ShortBudget
      /\ Used(v, LongWindow, n) + air[p] <= LongBudget
  BY DEF Permitted
<1> DEFINE B == Bookings(v, real)
<1>2. B = Recent(B, LongWindow, real)
  <2>1. real <= real BY <1>p
  <2> QED BY <1>p, <2>1, BookingsLater
<1>3. ASSUME NEW w \in Nat
      PROVE  /\ Sum(Recent(B, w, real)) \in Nat /\ Used(v, w, n) \in Nat
             /\ Sum(Recent(B, w, real)) <= Used(v, w, n)
             /\ Recent(B, w, real) # {} => Used(v, w, n) > 0
  <2> DEFINE x == Sum(Recent(B, w, real))
             y == Sum(Recent(v, w, real))
             z == Used(v, w, n)
  <2>1. x \in Nat /\ y \in Nat /\ x <= y /\ (Recent(B, w, real) # {} => Recent(v, w, real) # {})
    BY <1>p, BookingsSum
  <2>2. z \in Nat /\ y <= z /\ (Recent(v, w, real) # {} => z > 0)
    BY UsedCovers
  <2> HIDE DEF x, y, z, B
  <2>3. x <= z BY <2>1, <2>2
  <2> QED BY <2>1, <2>2, <2>3 DEF x, z
<1> HIDE DEF B, n
<1>4. Sum(B) + air[p] <= LongBudget
  <2> DEFINE x == Sum(B)
             z == Used(v, LongWindow, n)
  <2>1. x \in Nat /\ z \in Nat /\ x <= z /\ z + air[p] <= LongBudget BY <1>1, <1>2, <1>3, <1>c
  <2> HIDE DEF x, z
  <2>2. x + air[p] <= LongBudget BY <1>p, <1>c, <2>1
  <2> QED BY <2>2 DEF x
<1>5. Recent(B, ShortWindow, real) # {} => Sum(Recent(B, ShortWindow, real)) + air[p] <= ShortBudget
  <2> SUFFICES ASSUME Recent(B, ShortWindow, real) # {}
               PROVE  Sum(Recent(B, ShortWindow, real)) + air[p] <= ShortBudget
    OBVIOUS
  <2> DEFINE x == Sum(Recent(B, ShortWindow, real))
             z == Used(v, ShortWindow, n)
  <2>1. x \in Nat /\ z \in Nat /\ x <= z /\ z + air[p] <= ShortBudget BY <1>1, <1>3, <1>c
  <2> HIDE DEF x, z
  <2>2. x + air[p] <= ShortBudget BY <1>p, <1>c, <2>1
  <2> QED BY <2>2 DEF x
<1> QED BY <1>4, <1>5 DEF Fitting, B

Books == LedgerBooks /\ ViewBooks /\ GrantBooks
RefInv == BudgetInv /\ ExactInv /\ Books /\ IdsOK

LEMMA BooksStep == ~StepInside /\ RefInv /\ [Next]_vars => Books'
<1> SUFFICES ASSUME ~StepInside, RefInv, [Next]_vars PROVE Books' OBVIOUS
<1>t. /\ BookInv /\ TicketInv /\ TypeOK /\ AirOK /\ LockOK /\ LedgersOK /\ NowOK /\ NowPast
      /\ LockKept /\ SyncOK /\ BudgetOK /\ NumberOK
      /\ LedgerBooks /\ ViewBooks /\ GrantBooks
  BY DEF RefInv, Books, ExactInv, BudgetInv, BookInv, AgeInv, TypeInv, TicketInv
<1>p. /\ pc \in [Procs -> {"idle", "create", "exists", "flock", "read", "write", "sync",
                           "decide", "unlock", "granted"}]
      /\ why \in [Procs -> {"none", "init", "rebase", "grant"}]
      /\ first \in [Procs -> BOOLEAN] /\ ticket \in [Procs -> Nat]
      /\ air \in [Procs -> Airtimes \cup {Status}]
      /\ now \in [Procs -> [wall : Int, real : Nat]]
      /\ view \in [Procs -> SUBSET Entry] /\ ledger \in Ledger /\ durable \in Ledger
      /\ real \in Nat /\ offset \in Int /\ LongWindow \in Nat /\ NoOne \notin Procs
  BY <1>t, DutyAssumption DEF TypeOK
<1>e. ledger.entries \in SUBSET Entry /\ durable.entries \in SUBSET Entry
  BY <1>p DEF Ledger
<1>1. ASSUME Spent' \subseteq Spent, UNCHANGED <<ledger, durable, real>>,
             NEW p \in Procs, pc'[p] \notin {"decide", "write"},
             \A q \in Procs : q # p =>
                /\ pc'[q] = pc[q] /\ why'[q] = why[q] /\ first'[q] = first[q] /\ view'[q] = view[q]
                /\ ticket'[q] = ticket[q] /\ air'[q] = air[q] /\ now'[q] = now[q]
      PROVE  Books'
  <2>1. LedgerBooks' BY <1>t, <1>1 DEF LedgerBooks
  <2>2. ViewBooks' BY <1>t, <1>1 DEF ViewBooks
  <2>3. GrantBooks'
    <3> SUFFICES ASSUME NEW q \in Procs, pc'[q] = "write", why'[q] = "grant"
                 PROVE  /\ ledger'.kind = "ok" /\ \A e \in ledger'.entries : e.id # ticket'[q]
                        /\ Bookings(view'[q], real') =
                              Bookings(ledger'.entries, real') \cup Recent({Packet(q)'}, LongWindow, real')
                        /\ Fitting(ledger'.entries, air'[q], real')
      BY DEF GrantBooks
    <3>1. q # p /\ pc[q] = "write" /\ why[q] = "grant" BY <1>1
    <3>2. Packet(q)' = Packet(q) /\ view'[q] = view[q] /\ ticket'[q] = ticket[q] /\ air'[q] = air[q]
      BY <1>1, <3>1 DEF Packet
    <3> QED BY <1>1, <1>t, <3>1, <3>2 DEF GrantBooks
  <2> QED BY <2>1, <2>2, <2>3 DEF Books
<1>2. ASSUME \A p \in Procs : ~SyncDir(p) PROVE Spent' \subseteq Spent
  BY <1>2, <1>t, SpentStep
<1>3. ASSUME NEW p \in Procs, SyncDir(p) PROVE Books'
  <2>1. /\ pc[p] = "sync" /\ durable' = ledger /\ UNCHANGED <<ledger, view, real>>
        /\ \E l : pc' = [pc EXCEPT ![p] = l]
        /\ \E w : why' = [why EXCEPT ![p] = w]
    BY <1>3 DEF SyncDir, Goto, local, clock
  <2>2. ledger.kind = "ok" /\ ledger.entries = view[p]
    BY <1>t, <2>1 DEF SyncOK
  <2>3. pc'[p] = "write" => why'[p] = "rebase"
    BY <1>3, <1>p DEF SyncDir, Goto
  <2>4. \A q \in Procs : pc'[q] \in {"decide", "write"} => q = p
    BY <1>t, <1>p, <2>1 DEF LockOK, Holds
  <2>5. LedgerBooks' BY <1>t, <2>1, <2>2 DEF LedgerBooks
  <2>6. ViewBooks' BY <2>1, <2>2, <2>4 DEF ViewBooks
  <2>7. GrantBooks' BY <2>3, <2>4 DEF GrantBooks
  <2> QED BY <2>5, <2>6, <2>7 DEF Books
<1>4. ASSUME Spent' \subseteq Spent, NEW p \in Procs, ReadLedger(p) PROVE Books'
  <2> DEFINE all == Rebase(ledger.entries, ledger.clock)
             es == Kept(all, now[p].wall)
             Same(f, e) == f.id = e.id /\ f.a = e.a /\ f.r = e.r
  <2>1. /\ pc[p] = "read" /\ ledger.kind = "ok" /\ view' = [view EXCEPT ![p] = es]
        /\ UNCHANGED <<ledger, durable, real>>
    BY <1>4 DEF ReadLedger, Readable, disk, clock
  <2>2. /\ \A f \in all : \E e \in ledger.entries : Same(f, e)
        /\ \A e \in ledger.entries : \E f \in all : Same(f, e)
    BY <1>t, <2>1, RebaseShift DEF LedgersOK
  <2>3. \A f \in all : f.t - f.r >= offset
    BY <1>t, <2>1, RebaseAge DEF LedgersOK
  <2>4. \A f \in all : f.t \in Int /\ f.r \in Nat
    BY <1>t, <1>p, RebaseType DEF Ledger, Entry
  <2>5. now[p].wall - now[p].real = offset /\ now[p].real <= real
    BY <1>t, <2>1 DEF NowOK, NowPast, Holds
  <2>6. es \subseteq all /\ \A f \in all : f \in es <=> f.t > now[p].wall - LongWindow
    BY DEF Kept
  <2>7. /\ view'[p] = es /\ \A q \in Procs : q # p => pc'[q] = pc[q]
        /\ pc'[p] \in {"unlock", "write", "decide"} /\ why'[p] \in {"none", "init", "rebase"}
    BY <1>4, <1>p, <1>t, <2>1, ReadLeads DEF ReadLedger, Goto
  <2> HIDE DEF all, es
  <2>8. now[p].wall \in Int /\ now[p].real \in Nat
    BY <1>p
  <2>9. \A f \in all : real - f.r < LongWindow => f \in es
    BY <1>p, <2>3, <2>4, <2>5, <2>6, <2>8
  <2>10. \A f, e : Same(f, e) => Bare(f) = Bare(e) BY DEF Bare
  <2>11. ASSUME NEW x \in Bookings(es, real) PROVE x \in Bookings(ledger.entries, real)
    <3>1. PICK f \in es : real - f.r < LongWindow /\ x = Bare(f) BY <2>11 DEF Bookings
    <3>2. PICK e \in ledger.entries : Same(f, e) BY <2>2, <2>6, <3>1
    <3>3. real - e.r < LongWindow /\ x = Bare(e) BY <2>10, <3>1, <3>2
    <3> QED BY <3>2, <3>3 DEF Bookings
  <2>12. ASSUME NEW x \in Bookings(ledger.entries, real) PROVE x \in Bookings(es, real)
    <3>1. PICK e \in ledger.entries : real - e.r < LongWindow /\ x = Bare(e) BY <2>12 DEF Bookings
    <3>2. PICK f \in all : Same(f, e) BY <2>2, <3>1
    <3>3. real - f.r < LongWindow /\ x = Bare(f) BY <2>10, <3>1, <3>2
    <3> QED BY <2>9, <3>2, <3>3 DEF Bookings
  <2>13. Bookings(es, real) = Bookings(ledger.entries, real) BY <2>11, <2>12
  <2>14. \A q \in Procs : pc'[q] \in {"decide", "write"} => q = p
    BY <1>t, <2>1, <2>7 DEF LockOK, Holds
  <2>15. LedgerBooks' BY <1>4, <1>t, <2>1 DEF LedgerBooks
  <2>16. ViewBooks' BY <2>1, <2>7, <2>13, <2>14 DEF ViewBooks
  <2>17. GrantBooks' BY <2>7, <2>14 DEF GrantBooks
  <2> QED BY <2>15, <2>16, <2>17 DEF Books
<1>5. ASSUME Spent' \subseteq Spent, NEW p \in Procs, ReadFresh(p) PROVE Books'
  <2>1. /\ pc[p] = "read" /\ ledger.kind = "missing" /\ first[p] /\ view'[p] = {}
        /\ UNCHANGED <<ledger, durable, real, first>>
    BY <1>5, <1>p DEF ReadFresh, Fresh, disk, clock
  <2>2. /\ \A q \in Procs : q # p => pc'[q] = pc[q]
        /\ pc'[p] \in {"unlock", "write", "decide"} /\ why'[p] \in {"none", "init", "rebase"}
    BY <1>5, <1>p, <1>t, ReadLeads
  <2>3. pc'[p] # "decide"
    <3>1. pc'[p] = AfterRead(p, pending[p]).pc BY <1>5, <1>p DEF ReadFresh, Goto
    <3>2. CASE air[p] = Status BY <3>1, <3>2 DEF AfterRead, Label
    <3>3. CASE air[p] # Status
      <4>1. AfterRead(p, pending[p]) = Label("write", "init") BY <2>1, <3>3 DEF AfterRead
      <4> QED BY <3>1, <4>1 DEF Label
    <3> QED BY <3>2, <3>3
  <2>4. \A q \in Procs : pc'[q] \in {"decide", "write"} => q = p
    BY <1>t, <2>1, <2>2 DEF LockOK, Holds
  <2>5. LedgerBooks' BY <1>5, <1>t, <2>1 DEF LedgerBooks
  <2>6. ViewBooks' BY <2>1, <2>3, <2>4 DEF ViewBooks
  <2>7. GrantBooks' BY <2>2, <2>4 DEF GrantBooks
  <2> QED BY <2>5, <2>6, <2>7 DEF Books
<1>6. ASSUME Spent' \subseteq Spent, NEW p \in Procs, Replace(p) PROVE Books'
  <2>1. /\ pc[p] = "write" /\ ledger'.entries = view[p] /\ ledger'.kind = "ok"
        /\ UNCHANGED <<durable, view, real>> /\ pc' = [pc EXCEPT ![p] = "sync"]
    BY <1>6 DEF Replace, Goto, local, clock
  <2>2. \A q \in Procs : pc'[q] \notin {"decide", "write"}
    BY <1>t, <1>p, <2>1 DEF LockOK, Holds
  <2>3. \/ ledger.kind = "ok" /\ Bookings(ledger.entries, real) \subseteq Bookings(view[p], real)
        \/ first[p] /\ ledger.kind = "missing"
    BY <1>t, <2>1 DEF ViewBooks, GrantBooks
  <2>4. Spent # {} => ledger.kind = "ok" BY <1>t, <2>3 DEF LockKept
  <2>5. LedgerBooks' BY <1>6, <1>t, <2>1, <2>3, <2>4 DEF LedgerBooks
  <2> QED BY <2>2, <2>5 DEF Books, ViewBooks, GrantBooks
<1>7. ASSUME Spent' \subseteq Spent, NEW p \in Procs, Grant(p) PROVE Books'
  <2> DEFINE g == [id |-> nextId, t |-> now[p].wall, a |-> air[p], r |-> now[p].real]
  <2>1. /\ pc[p] = "decide" /\ Permitted(p) /\ UNCHANGED <<ledger, durable, real, air, now>>
        /\ pc' = [pc EXCEPT ![p] = "write"] /\ why' = [why EXCEPT ![p] = "grant"]
        /\ ticket' = [ticket EXCEPT ![p] = nextId]
        /\ view' = [view EXCEPT ![p] = @ \cup {g}]
    BY <1>7 DEF Grant, Goto, disk, clock
  <2>2. view'[p] = view[p] \cup {g} /\ ticket'[p] = nextId /\ why'[p] = "grant"
    BY <1>p, <2>1
  <2>3. Packet(p)' = Bare(g) /\ g.r = now[p].real /\ Bare(g).r = now[p].real
    BY <2>1, <2>2 DEF Packet, Bare
  <2> HIDE DEF g
  <2>4. ledger.kind = "ok" /\ Bookings(view[p], real) = Bookings(ledger.entries, real)
    BY <1>t, <2>1 DEF ViewBooks
  <2>5. Bookings(view[p] \cup {g}, real) = Bookings(view[p], real) \cup Recent({Bare(g)}, LongWindow, real)
    BY <2>3 DEF Bookings, Recent
  <2>6. \A e \in ledger.entries : e.id # nextId
    BY <1>t, <1>e DEF NumberOK, Numbered, TypeOK, Entry
  <2>7. Timed(view[p]) BY <1>t, <2>1 DEF BudgetOK, Editing, Sound
  <2>8. Fitting(view[p], air[p], real) BY <1>t, <2>1, <2>7, PermittedFits
  <2>9. Fitting(ledger.entries, air[p], real) BY <2>4, <2>8 DEF Fitting
  <2>10. \A q \in Procs : pc'[q] \in {"decide", "write"} => q = p
    BY <1>t, <1>p, <2>1 DEF LockOK, Holds
  <2>11. LedgerBooks' BY <1>7, <1>t, <2>1 DEF LedgerBooks
  <2>12. ViewBooks' BY <1>p, <2>1, <2>2, <2>10 DEF ViewBooks
  <2>13. /\ ledger'.kind = "ok" /\ \A e \in ledger'.entries : e.id # ticket'[p]
         /\ Bookings(view'[p], real') =
               Bookings(ledger'.entries, real') \cup Recent({Packet(p)'}, LongWindow, real')
         /\ Fitting(ledger'.entries, air'[p], real')
    BY <2>1, <2>2, <2>3, <2>4, <2>5, <2>6, <2>9
  <2>14. GrantBooks' BY <2>10, <2>13 DEF GrantBooks
  <2> QED BY <2>11, <2>12, <2>14 DEF Books
<1>8. ASSUME Spent' \subseteq Spent, Reboot PROVE Books'
  <2>1. /\ ledger' \in {ledger, durable} /\ durable' = ledger' /\ real' = real
        /\ \A q \in Procs : pc'[q] = "idle"
    BY <1>8 DEF Reboot
  <2>2. LedgerBooks' BY <1>t, <2>1 DEF LedgerBooks
  <2> QED BY <2>1, <2>2 DEF Books, ViewBooks, GrantBooks
<1>9. ASSUME Spent' \subseteq Spent, Damage PROVE Books'
  <2>1. ledger'.kind # "ok" /\ durable'.kind # "ok" /\ ledger'.entries = {} /\ durable'.entries = {}
    BY <1>9 DEF Damage, NoLedger
  <2>2. \A q \in Procs : pc'[q] \notin {"decide", "write"}
    BY <1>9, <1>t, <1>p DEF Damage, LockOK, Holds
  <2> QED BY <2>1, <2>2 DEF Books, LedgerBooks, ViewBooks, GrantBooks
<1>10. ASSUME Tick PROVE Books'
  <2>1. /\ real' = real + 1 /\ UNCHANGED <<ledger, durable, pc, why, first, view, ticket, air, now>>
    BY <1>10 DEF Tick, disk, local
  <2>2. real' \in Nat /\ real <= real' BY <1>p, <2>1
  <2>3. \A es \in SUBSET Entry : Bookings(es, real') = Recent(Bookings(es, real), LongWindow, real')
    BY <1>p, <2>2, BookingsLater
  <2>4. Spent' = Spent BY <1>10, <2>1 DEF Spent, Cleared, Packet, Tick, ghost
  <2>5. LedgerBooks'
    <3>1. durable.kind = "ok" =>
             ledger.kind = "ok" /\ Bookings(durable.entries, real) \subseteq Bookings(ledger.entries, real)
      BY <1>t DEF LedgerBooks
    <3>2. durable.kind = "ok" => Bookings(durable.entries, real') \subseteq Bookings(ledger.entries, real')
      BY <1>e, <2>3, <3>1 DEF Recent
    <3> QED BY <1>t, <2>1, <2>4, <3>2 DEF LedgerBooks
  <2>6. ViewBooks' BY <1>t, <1>p, <1>e, <2>1, <2>3 DEF ViewBooks
  <2>7. GrantBooks'
    <3> SUFFICES ASSUME NEW q \in Procs, pc[q] = "write", why[q] = "grant"
                 PROVE  /\ ledger.kind = "ok" /\ \A e \in ledger.entries : e.id # ticket[q]
                        /\ Bookings(view[q], real') =
                              Bookings(ledger.entries, real') \cup Recent({Packet(q)}, LongWindow, real')
                        /\ Fitting(ledger.entries, air[q], real')
      BY <2>1 DEF GrantBooks, Packet
    <3>1. /\ ledger.kind = "ok" /\ \A e \in ledger.entries : e.id # ticket[q]
          /\ Bookings(view[q], real) = Bookings(ledger.entries, real) \cup Recent({Packet(q)}, LongWindow, real)
          /\ Fitting(ledger.entries, air[q], real)
      BY <1>t DEF GrantBooks
    <3>2. Packet(q).r \in Nat BY <1>p DEF Packet
    <3>3. Recent(Recent({Packet(q)}, LongWindow, real), LongWindow, real') = Recent({Packet(q)}, LongWindow, real')
      BY <1>p, <2>1, <3>2 DEF Recent
    <3>4. \A A, B : Recent(A \cup B, LongWindow, real') = Recent(A, LongWindow, real') \cup Recent(B, LongWindow, real')
      BY DEF Recent
    <3>5. Bookings(view[q], real') = Recent(Bookings(view[q], real), LongWindow, real')
      BY <1>p, <2>3
    <3>6. Bookings(ledger.entries, real') = Recent(Bookings(ledger.entries, real), LongWindow, real')
      BY <1>e, <2>3
    <3>7. Bookings(view[q], real') =
              Bookings(ledger.entries, real') \cup Recent({Packet(q)}, LongWindow, real')
      BY <3>1, <3>3, <3>4, <3>5, <3>6
    <3>8. air[q] \in Nat BY <1>t, DutyAssumption DEF AirOK
    <3>9. Timed(ledger.entries) BY <1>t DEF BudgetOK, Sound
    <3>10. Fitting(ledger.entries, air[q], real') BY <1>p, <1>e, <2>2, <3>1, <3>8, <3>9, FittingLater
    <3> QED BY <3>1, <3>7, <3>10
  <2> QED BY <2>5, <2>6, <2>7 DEF Books
<1>11. ASSUME Spent' \subseteq Spent, NEW p \in Procs, Return(p), UNCHANGED <<ledger, durable, real>>
       PROVE  Books'
  BY <1>1, <1>11, <1>p DEF Return, Goto
<1>12. ASSUME Spent' \subseteq Spent, NEW p \in Procs, Call(p) PROVE Books'
  BY <1>1, <1>12, <1>p DEF Call, OpenLock, OpenUsage, Goto, disk, local, clock
<1>13. ASSUME Spent' \subseteq Spent, NEW p \in Procs,
              CreateLock(p) \/ AwaitLedger(p) \/ AwaitTimeout(p) \/ Flock(p)
              \/ ReadFails(p) \/ WriteFails(p) \/ Refuse(p)
       PROVE  Books'
  BY <1>1, <1>13, <1>p DEF CreateLock, AwaitLedger, AwaitTimeout, Flock, ReadFails, WriteFails,
                           Refuse, Goto, disk, local, clock
<1>14. ASSUME Spent' \subseteq Spent, NEW p \in Procs, FlockTimeout(p) \/ Transmit(p) \/ Crash(p)
       PROVE  Books'
  BY <1>11, <1>14 DEF FlockTimeout, Transmit, Crash, disk, clock
<1>15. ASSUME Spent' \subseteq Spent, NEW p \in Procs, Unlock(p) PROVE Books'
  <2>1. CASE ~Return(p)
    BY <1>1, <1>15, <1>p, <2>1 DEF Unlock, Goto, disk, local, clock
  <2>2. CASE Return(p)
    BY <1>11, <1>15, <2>2 DEF Unlock, disk, clock
  <2> QED BY <2>1, <2>2
<1>16. ASSUME StepClock \/ UNCHANGED vars PROVE Books'
  <2>1. UNCHANGED <<ledger, durable, real, pc, why, first, view, ticket, air, now, radiated>>
    BY <1>16 DEF StepClock, vars, disk, local, clock, ghost
  <2> QED BY <1>t, <2>1 DEF Books, LedgerBooks, ViewBooks, GrantBooks, Packet, Spent, Cleared
<1>17. CASE \E p \in Procs : SyncDir(p)
  BY <1>3, <1>17
<1>18. CASE \A p \in Procs : ~SyncDir(p)
  BY <1>2, <1>4, <1>5, <1>6, <1>7, <1>8, <1>9, <1>10, <1>12, <1>13, <1>14, <1>15, <1>16, <1>18
     DEF Next, Work, Environment
<1> QED BY <1>17, <1>18

\* The variables of the account (DutyLedger!Account): what it holds, and the
\* reservations written whose callers may still radiate.
Usable == ledger.kind = "ok"
Held == Bookings(ledger.entries, real)
Written(p) == why[p] = "grant" /\ pc[p] \in {"sync", "unlock", "granted"}
Out == {Packet(p) : p \in {q \in Procs : Written(q)}}
Ids == 1..(MaxGrants + Cardinality(Procs))

\* The steps of the account in these terms.
LEMMA AsOpen ==
    ASSUME ~Usable, radiated = {}, Out = {}, Usable', UNCHANGED <<real, Held, Out, radiated>>
    PROVE  Account!Next
BY DEF Account!Next, Account!Open, Usable, Held, Bookings, Bare, Out, Packet, Written

LEMMA AsReserve ==
    ASSUME Usable, Usable', NEW x \in [id : Ids, a : Airtimes, r : 0..real],
           \A y \in Held \cup Out \cup radiated : y.id # x.id,
           Recent(Held, ShortWindow, real) # {} => Sum(Recent(Held, ShortWindow, real)) + x.a <= ShortBudget,
           Sum(Held) + x.a <= LongBudget,
           Held' = Recent(Held \cup {x}, LongWindow, real), Out' = Out \cup {x},
           UNCHANGED <<real, radiated>>
    PROVE  Account!Next
<1>1. x \in Account!Reservation(1..(MaxGrants + Cardinality(Procs)), real)
  BY DEF Account!Reservation, Ids
<1>2. \A S : Account!Airtime(S) = Sum(S)
  BY Zenon DEF Account!Airtime, Account!MapThenSumSet, Account!MapThenFoldSet, Sum, MapThenSumSet, MapThenFoldSet
<1>3. \A S, w, t : Account!Within(S, w, t) = Recent(S, w, t)
  BY DEF Account!Within, Recent
<1>4. /\ Account!Within(Held, ShortWindow, real) # {} =>
            Account!Airtime(Account!Within(Held, ShortWindow, real)) + x.a <= ShortBudget
      /\ Account!Airtime(Held) + x.a <= LongBudget
  BY <1>2, <1>3
<1>5. Account!Fits(x)
  BY <1>4, Zenon DEF Account!Fits, Held, Bookings, Bare
<1>6. Held' = Account!Within(Held \cup {x}, LongWindow, real)
  BY <1>3
<1>7. Account!Reserve
  BY <1>1, <1>5, <1>6, Zenon DEF Account!Reserve, Usable, Held, Bookings, Bare, Out, Packet, Written
<1> QED BY <1>7 DEF Account!Next

LEMMA AsRadiate ==
    ASSUME NEW x \in Out, Out' = Out \ {x}, radiated' = radiated \cup {x},
           UNCHANGED <<real, Held>>, Usable' = Usable
    PROVE  Account!Next
BY DEF Account!Next, Account!Radiate, Usable, Held, Bookings, Bare, Out, Packet, Written

LEMMA AsAbandon ==
    ASSUME Out' \subseteq Out, UNCHANGED <<real, Held, radiated>>, Usable' = Usable
    PROVE  Account!Next
BY DEF Account!Next, Account!Abandon, Usable, Held, Bookings, Bare, Out, Packet, Written

LEMMA AsPowerLoss ==
    ASSUME Out' = {}, Held' \subseteq Held, Held \cap radiated \subseteq Held',
           Usable' \in {Usable, FALSE}, radiated # {} => Usable' = Usable, UNCHANGED <<real, radiated>>
    PROVE  Account!Next
BY DEF Account!Next, Account!PowerLoss, Usable, Held, Bookings, Bare, Out, Packet, Written

LEMMA AsLose ==
    ASSUME Usable, ~Usable', Held' = {}, UNCHANGED <<real, Out, radiated>>
    PROVE  Account!Next
BY DEF Account!Next, Account!Lose, Usable, Held, Bookings, Bare, Out, Packet, Written

LEMMA AsTick ==
    ASSUME real' = real + 1, Held' = Recent(Held, LongWindow, real'), UNCHANGED <<Out, radiated>>,
           Usable' = Usable
    PROVE  Account!Next
BY DEF Account!Next, Account!Tick, Account!Within, Recent, Usable, Held, Bookings, Bare, Out, Packet, Written

\* Every step of the ledger is one of the account or changes nothing of it.
LEMMA RefStep == ~StepInside /\ RefInv /\ [Next]_vars => [Account!Next]_(Account!vars)
<1> SUFFICES ASSUME ~StepInside, RefInv, [Next]_vars PROVE Account!Next OBVIOUS
<1>t. /\ TicketInv /\ TypeOK /\ AirOK /\ LockOK /\ NowPast /\ GrantOK /\ TicketOK
      /\ LockKept /\ SyncOK /\ ChargedAll /\ BudgetOK
      /\ LedgerBooks /\ ViewBooks /\ GrantBooks /\ IdsOK
  BY DEF RefInv, Books, BudgetInv, BookInv, AgeInv, TypeInv, TicketInv
<1>p. /\ pc \in [Procs -> {"idle", "create", "exists", "flock", "read", "write", "sync",
                           "decide", "unlock", "granted"}]
      /\ why \in [Procs -> {"none", "init", "rebase", "grant"}]
      /\ ticket \in [Procs -> Nat] /\ air \in [Procs -> Airtimes \cup {Status}]
      /\ now \in [Procs -> [wall : Int, real : Nat]]
      /\ ledger \in Ledger /\ real \in Nat /\ LongWindow \in Nat /\ NoOne \notin Procs
      /\ ledger.entries \in SUBSET Entry
  BY <1>t, DutyAssumption DEF TypeOK, Ledger
<1>h. Held = Recent(Held, LongWindow, real)
  <2>1. real <= real BY <1>p
  <2> QED BY <1>p, <2>1, BookingsLater DEF Held
<1>n. \A t : Bookings({}, t) = {} BY DEF Bookings
<1>1. ASSUME UNCHANGED <<radiated, real, ledger>>,
             \A q \in Procs : Written(q)' => Written(q) /\ Packet(q)' = Packet(q)
      PROVE  Account!Next
  <2>1. Out' \subseteq Out BY <1>1 DEF Out
  <2>2. Held' = Held /\ Usable' = Usable BY <1>1 DEF Held, Usable
  <2> QED BY <1>1, <2>1, <2>2, AsAbandon
<1>2. ASSUME UNCHANGED <<radiated, real, ledger>>, NEW p \in Procs,
             \A q \in Procs : q # p => /\ why'[q] = why[q] /\ pc'[q] = pc[q] /\ ticket'[q] = ticket[q]
                                       /\ air'[q] = air[q] /\ now'[q] = now[q],
             Written(p)' => Written(p) /\ UNCHANGED <<ticket, air, now>>
      PROVE  Account!Next
  <2>1. \A q \in Procs : Written(q)' => Written(q) /\ Packet(q)' = Packet(q)
    BY <1>2 DEF Written, Packet
  <2> QED BY <1>1, <1>2, <2>1
<1>3. ASSUME NEW p \in Procs, Return(p), UNCHANGED <<radiated, real, ledger>> PROVE Account!Next
  BY <1>2, <1>3, <1>p DEF Return, Goto, Written
<1>4. ASSUME NEW p \in Procs, Call(p) PROVE Account!Next
  BY <1>2, <1>4, <1>p DEF Call, OpenLock, OpenUsage, Goto, Written, disk, local, clock, ghost
<1>5. ASSUME NEW p \in Procs, CreateLock(p) \/ AwaitLedger(p) \/ AwaitTimeout(p) \/ Flock(p)
             \/ WriteFails(p) \/ Refuse(p) \/ Grant(p)
      PROVE  Account!Next
  BY <1>2, <1>5, <1>p DEF CreateLock, AwaitLedger, AwaitTimeout, Flock, WriteFails, Refuse, Grant,
                          Goto, Written, disk, local, clock, ghost
<1>6. ASSUME NEW p \in Procs, ReadFails(p) PROVE Account!Next
  BY <1>2, <1>6, <1>p, <1>t DEF ReadFails, Goto, Written, GrantOK, disk, local, clock, ghost
<1>7. ASSUME NEW p \in Procs, ReadLedger(p) \/ ReadFresh(p) PROVE Account!Next
  BY <1>2, <1>7, <1>p, <1>t, ReadLeads DEF Written, disk, clock, ghost
<1>8. ASSUME NEW p \in Procs, SyncDir(p) PROVE Account!Next
  BY <1>2, <1>8, <1>p DEF SyncDir, Goto, Written, local, clock, ghost
<1>9. ASSUME NEW p \in Procs, FlockTimeout(p) \/ Crash(p) PROVE Account!Next
  BY <1>3, <1>9 DEF FlockTimeout, Crash, disk, clock, ghost
<1>10. ASSUME NEW p \in Procs, Unlock(p) PROVE Account!Next
  <2>1. CASE ~Return(p)
    BY <1>2, <1>10, <1>p, <2>1 DEF Unlock, Goto, Written, disk, local, clock, ghost
  <2>2. CASE Return(p)
    BY <1>3, <1>10, <2>2 DEF Unlock, disk, clock, ghost
  <2> QED BY <2>1, <2>2
<1>11. ASSUME NEW p \in Procs, Transmit(p) PROVE Account!Next
  <2>1. /\ pc[p] = "granted" /\ radiated' = radiated \cup {Packet(p)} /\ UNCHANGED <<real, ledger>>
    BY <1>11 DEF Transmit, Packet, disk, clock
  <2>2. /\ \A q \in Procs : q # p => /\ why'[q] = why[q] /\ pc'[q] = pc[q] /\ ticket'[q] = ticket[q]
                                     /\ air'[q] = air[q] /\ now'[q] = now[q]
        /\ pc'[p] = "idle"
    BY <1>11, <1>p DEF Transmit, Return, Goto
  <2>3. why[p] = "grant" BY <1>t, <2>1 DEF GrantOK
  <2>4. \A q \in Procs : Written(q)' <=> Written(q) /\ q # p BY <2>2 DEF Written
  <2>5. \A q \in Procs : q # p => Packet(q)' = Packet(q) BY <2>2 DEF Packet
  <2>6. \A q \in Procs : Written(q) /\ q # p => Packet(q) # Packet(p)
    <3>1. \A q \in Procs : Packet(q).id = ticket[q] BY DEF Packet
    <3> QED BY <1>t, <2>3, <3>1 DEF TicketOK, Written
  <2>7. Written(p) BY <2>1, <2>3 DEF Written
  <2>8. Out' = Out \ {Packet(p)}
    <3> HIDE DEF Written, Packet
    <3>1. ASSUME NEW x \in Out' PROVE x \in Out \ {Packet(p)}
      <4>1. PICK q \in Procs : Written(q)' /\ x = Packet(q)' BY <3>1 DEF Out
      <4> QED BY <2>4, <2>5, <2>6, <4>1 DEF Out
    <3>2. ASSUME NEW x \in Out \ {Packet(p)} PROVE x \in Out'
      <4>1. PICK q \in Procs : Written(q) /\ x = Packet(q) BY <3>2 DEF Out
      <4>2. q # p BY <3>2, <4>1
      <4>3. Written(q)' /\ x = Packet(q)' BY <2>4, <2>5, <4>1, <4>2
      <4> QED BY <4>3 DEF Out
    <3> QED BY <3>1, <3>2
  <2>9. Packet(p) \in Out BY <2>7 DEF Out
  <2>10. Held' = Held /\ Usable' = Usable BY <2>1 DEF Held, Usable
  <2> QED BY <2>1, <2>8, <2>9, <2>10, AsRadiate
<1>12. ASSUME NEW p \in Procs, Replace(p) PROVE Account!Next
  <2>1. /\ pc[p] = "write" /\ ledger'.kind = "ok" /\ ledger'.entries = view[p]
        /\ pc' = [pc EXCEPT ![p] = "sync"]
        /\ UNCHANGED <<why, ticket, air, now, view, real, radiated>>
    BY <1>12 DEF Replace, Goto, local, clock, ghost
  <2>2. Usable' /\ Held' = Bookings(view[p], real) BY <2>1 DEF Usable, Held
  <2>3. \A q \in Procs : Packet(q)' = Packet(q) BY <2>1 DEF Packet
  <2>4. CASE why[p] # "grant"
    <3>1. \A q \in Procs : Written(q)' = Written(q) BY <1>p, <2>1, <2>4 DEF Written
    <3>2. Out' = Out BY <2>3, <3>1 DEF Out
    <3>3. CASE ledger.kind = "ok" /\ Bookings(view[p], real) = Held
      <4>1. Held' = Held /\ Usable' = Usable BY <2>2, <3>3 DEF Usable
      <4> QED BY <2>1, <3>2, <4>1, AsAbandon
    <3>4. CASE first[p] /\ ledger.kind = "missing" /\ view[p] = {}
      <4>1. Spent = {} BY <1>t, <3>4 DEF LockKept
      <4>2. radiated = {} BY <4>1 DEF Spent
      <4>3. \A q \in Procs : ~Cleared(q) BY <4>1 DEF Spent
      <4>4. \A q \in Procs : pc[q] # "sync" BY <1>t, <2>1 DEF LockOK, Holds
      <4>5. Out = {} BY <4>3, <4>4 DEF Out, Written, Cleared
      <4>6. ledger.entries = {} /\ ~Usable BY <1>t, <3>4 DEF LedgerBooks, Usable
      <4>7. Held = {} /\ Held' = {} BY <1>n, <2>2, <3>4, <4>6 DEF Held
      <4> QED BY <2>1, <2>2, <3>2, <4>2, <4>5, <4>6, <4>7, AsOpen
    <3> QED BY <1>t, <2>1, <2>4, <3>3, <3>4 DEF ViewBooks, Held
  <2>5. CASE why[p] = "grant"
    <3> DEFINE x == Packet(p)
    <3>1. x.id = ticket[p] /\ x.a = air[p] /\ x.r = now[p].real BY DEF Packet
    <3>2. x \in [id : Ids, a : Airtimes, r : 0..real]
      <4>1. ticket[p] \in Ids /\ air[p] \in Airtimes BY <1>t, <2>1, <2>5 DEF IdsOK, Ids, AirOK
      <4>2. now[p].real \in 0..real BY <1>t, <1>p DEF NowPast
      <4> QED BY <4>1, <4>2 DEF Packet
    <3>3. /\ Usable /\ \A e \in ledger.entries : e.id # ticket[p]
          /\ Bookings(view[p], real) = Held \cup Recent({x}, LongWindow, real)
          /\ Fitting(ledger.entries, air[p], real)
      BY <1>t, <2>1, <2>5 DEF GrantBooks, Usable, Held
    <3>4. \A y \in Held : y.id # x.id BY <3>1, <3>3 DEF Held, Bookings, Bare
    <3>5. \A y \in Out : y.id # x.id
      <4>1. \A q \in Procs : Packet(q).id = ticket[q] BY DEF Packet
      <4>2. \A q \in Procs : Written(q) => q # p /\ why[q] = "grant" BY <2>1 DEF Written
      <4> QED BY <1>t, <2>5, <4>1, <4>2 DEF Out, TicketOK
    <3>6. \A y \in radiated : y.id # x.id BY <1>t, <2>5, <3>1 DEF TicketOK
    <3> HIDE DEF x
    <3>7. Out' = Out \cup {x}
      <4>1. \A q \in Procs : Written(q)' <=> Written(q) \/ q = p BY <1>p, <2>1, <2>5 DEF Written
      <4> HIDE DEF Written, Packet
      <4> QED BY <2>3, <4>1 DEF Out, x
    <3>8. Held' = Recent(Held \cup {x}, LongWindow, real)
      <4>1. Recent(Held \cup {x}, LongWindow, real) =
               Recent(Held, LongWindow, real) \cup Recent({x}, LongWindow, real)
        BY DEF Recent
      <4> QED BY <1>h, <2>2, <3>3, <4>1
    <3>9. /\ Recent(Held, ShortWindow, real) # {} =>
                Sum(Recent(Held, ShortWindow, real)) + x.a <= ShortBudget
          /\ Sum(Held) + x.a <= LongBudget
      BY <3>1, <3>3 DEF Fitting, Held
    <3> QED BY <2>1, <2>2, <3>2, <3>3, <3>4, <3>5, <3>6, <3>7, <3>8, <3>9, AsReserve
  <2> QED BY <2>4, <2>5
<1>13. ASSUME Reboot PROVE Account!Next
  <2>1. /\ ledger' \in {ledger, durable} /\ real' = real /\ radiated' = radiated
        /\ \A q \in Procs : pc'[q] = "idle"
    BY <1>13 DEF Reboot, ghost
  <2>2. Out' = {} BY <2>1 DEF Out, Written
  <2>3. CASE ledger' = ledger
    BY <2>1, <2>2, <2>3, AsPowerLoss DEF Held, Usable
  <2>4. CASE ledger' = durable /\ durable.kind = "ok"
    <3>1. Usable' /\ Usable BY <1>t, <2>4 DEF Usable, LedgerBooks
    <3>2. Held' = Bookings(durable.entries, real) /\ Held' \subseteq Held
      BY <1>t, <2>1, <2>4 DEF LedgerBooks, Held
    <3>3. ASSUME NEW x \in Held, x \in radiated PROVE x \in Held'
      <4>1. PICK f \in ledger.entries : real - f.r < LongWindow /\ x = Bare(f) BY DEF Held, Bookings
      <4>2. x.id = f.id /\ x.a = f.a /\ x.r = f.r BY <4>1 DEF Bare
      <4>3. Booked(x, durable.entries) BY <1>t, <2>4, <3>3, <4>1, <4>2 DEF ChargedAll, Spent
      <4>4. PICK e \in durable.entries : e.id = x.id /\ e.a = x.a /\ e.r = x.r BY <4>3 DEF Booked
      <4>5. x = Bare(e) /\ real - e.r < LongWindow BY <4>1, <4>2, <4>4 DEF Bare
      <4> QED BY <3>2, <4>4, <4>5 DEF Bookings
    <3>4. Usable' \in {Usable, FALSE} /\ Usable' = Usable BY <3>1
    <3> QED BY <2>1, <2>2, <3>2, <3>3, <3>4, AsPowerLoss
  <2>5. CASE ledger' = durable /\ durable.kind # "ok"
    <3>1. ~Usable' /\ Held' = {} BY <1>t, <1>n, <2>5 DEF LedgerBooks, Usable, Held
    <3>2. radiated # {} => ~Usable BY <1>t, <2>5 DEF LedgerBooks, Usable, Spent
    <3>3. ~Usable => Held = {} BY <1>t, <1>n DEF LedgerBooks, Usable, Held
    <3>4. Held \cap radiated \subseteq Held' BY <3>2, <3>3
    <3>5. Usable' = FALSE BY <3>1 DEF Usable
    <3>6. Usable' \in {Usable, FALSE} BY <3>5
    <3>7. radiated # {} => Usable' = Usable BY <3>1, <3>2 DEF Usable
    <3> QED BY <2>1, <2>2, <3>1, <3>4, <3>6, <3>7, AsPowerLoss
  <2> QED BY <2>1, <2>3, <2>4, <2>5
<1>14. ASSUME Damage PROVE Account!Next
  <2>1. /\ ledger.kind = "ok" /\ ledger'.kind # "ok" /\ ledger'.entries = {}
        /\ UNCHANGED <<pc, why, ticket, air, now, real, radiated>>
    BY <1>14 DEF Damage, NoLedger, local, clock, ghost
  <2>2. Usable /\ ~Usable' /\ Held' = {} BY <1>n, <2>1 DEF Usable, Held
  <2>3. Out' = Out BY <2>1 DEF Out, Written, Packet
  <2> QED BY <2>1, <2>2, <2>3, AsLose
<1>15. ASSUME Tick PROVE Account!Next
  <2>1. real' = real + 1 /\ UNCHANGED <<pc, why, ticket, air, now, ledger, radiated>>
    BY <1>15 DEF Tick, disk, local, ghost
  <2>2. Out' = Out /\ Usable' = Usable BY <2>1 DEF Out, Written, Packet, Usable
  <2>3. real' \in Nat /\ real <= real' BY <1>p, <2>1
  <2>4. Bookings(ledger.entries, real') = Recent(Bookings(ledger.entries, real), LongWindow, real')
    BY <1>p, <2>3, BookingsLater
  <2>5. Held' = Recent(Held, LongWindow, real') BY <2>1, <2>4 DEF Held
  <2> QED BY <2>1, <2>2, <2>5, AsTick
<1>16. ASSUME StepClock \/ UNCHANGED vars PROVE Account!Next
  <2>1. UNCHANGED <<pc, why, ticket, air, now, real, ledger, radiated>>
    BY <1>16 DEF StepClock, vars, disk, local, clock, ghost
  <2>2. \A q \in Procs : Written(q)' => Written(q) /\ Packet(q)' = Packet(q)
    BY <2>1 DEF Written, Packet
  <2> QED BY <1>1, <2>1, <2>2
<1> QED BY <1>4, <1>5, <1>6, <1>7, <1>8, <1>9, <1>10, <1>11, <1>12, <1>13, <1>14, <1>15, <1>16
        DEF Next, Work, Environment

\* reserve() with its locks, files, clocks and retries implements the account it
\* promises (AirtimeAccount), for any number of processes, crashes, power losses and
\* clock steps outside critical sections: a packet goes on the air only after one
\* indivisible booking against the real window that it fits into, and what is booked
\* is lost only together with the account.
THEOREM ImplementsAccount == ~StepInside => (Spec => Refines)
<1> SUFFICES ASSUME ~StepInside PROVE Spec => Refines OBVIOUS
<1>1. Init => RefInv
  <2> SUFFICES ASSUME Init PROVE RefInv OBVIOUS
  <2>1. \A p \in Procs : pc[p] = "idle" /\ why[p] = "none" /\ air[p] = Status /\ ~Editing(p)
    BY DEF Init, Editing
  <2>2. ledger.kind # "ok" /\ durable.kind # "ok" /\ ledger.entries = {} /\ durable.entries = {}
    BY DEF Init, NoLedger
  <2>3. ExactInv
    BY <2>1, <2>2, AgeInit DEF ExactInv, NumberOK, DurableOlder, ViewAgrees, Numbered, Unambiguous
  <2>4. Books BY <2>1, <2>2 DEF Books, LedgerBooks, ViewBooks, GrantBooks
  <2>5. IdsOK BY <2>1 DEF IdsOK, Asking
  <2> QED BY <2>3, <2>4, <2>5, BudgetInit DEF RefInv
<1>2. RefInv /\ [Next]_vars => RefInv'
  BY BudgetStep, ExactStep, BooksStep, IdsStep DEF RefInv, BudgetInv, BookInv, AgeInv, TicketInv
<1>3. Init => Account!Init
  <2> SUFFICES ASSUME Init PROVE Account!Init OBVIOUS
  <2>1. \A p \in Procs : why[p] = "none" BY DEF Init
  <2>2. ledger.kind # "ok" /\ ledger.entries = {} /\ real = 0 /\ radiated = {} BY DEF Init, NoLedger
  <2> QED BY <2>1, <2>2 DEF Account!Init
<1>4. RefInv /\ [Next]_vars => [Account!Next]_(Account!vars)
  BY RefStep
<1> QED BY <1>1, <1>2, <1>3, <1>4, PTL DEF Spec, Refines, Account!Spec
===============================================================================
