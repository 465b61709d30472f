--------------------------- MODULE SessionsProofs ---------------------------
(* The safety properties of Sessions, for any set of logins and accounts, any *)
(* range of display numbers and any number of faults and restarts.            *)
EXTENDS Sessions, TLAPS

-----------------------------------------------------------------------------
(* What the shared operators of the model keep.                               *)

(* Reading a record gives a record, whatever state its file is in.            *)
LEMMA ReadType ==
  ASSUME RegistryType, NEW d \in Displays
  PROVE  read_record(d) \in RecordType
BY Zenon DEF RegistryType, read_record, RecordType, Absent

(* Opening, writing and removing a record's file.                             *)
LEMMA TruncateType ==
  ASSUME RegistryType, NEW w \in Writers, NEW d, Truncate(w, d)
  PROVE  RegistryType'
BY Zenon DEF RegistryType, Truncate, RecordType, Torn

(* Writing a record to its file, or to one that was removed meanwhile.        *)
LEMMA WriteBodyType ==
  ASSUME RegistryType, NEW w, NEW d, NEW r \in RecordType, WriteBody(w, d, r)
  PROVE  RegistryType'
<1>1. reg' \in [Displays -> RecordType]
  BY Zenon DEF RegistryType, WriteBody
<1>2. fresh' \in [Displays -> BOOLEAN]
  BY Zenon DEF RegistryType, WriteBody, RecordType
<1>3. open' \in [Displays -> SUBSET Writers]
  BY Zenon DEF RegistryType, WriteBody
<1> QED
  BY <1>1, <1>2, <1>3, Zenon DEF RegistryType

(* Removing a record's file.                                                  *)
LEMMA UnlinkType ==
  ASSUME RegistryType, NEW d, Unlink(d)
  PROVE  RegistryType'
BY Zenon DEF RegistryType, Unlink, RecordType, Absent

(* Workers, keepers and the supervisor are the writers of records.            *)
LEMMA WorkerIsWriter ==
  ASSUME NEW l \in Logins
  PROVE  Worker(l) \in Writers /\ Keeper(l) \in Writers /\ Supervisor \in Writers
BY Zenon DEF Writers

(* A worker that moves on, exits, or attaches to a live session.              *)
LEMMA GotoType ==
  ASSUME WorkerType, NEW l \in Logins, NEW pc \in WorkerPcs, Goto(l, pc)
  PROVE  wpc' \in [Logins -> WorkerPcs]
BY Zenon DEF WorkerType, Goto

(* A worker's copies of its descriptors are closed.                           *)
LEMMA ClosesType ==
  ASSUME ClaimsType, NEW l \in Logins, WorkerCloses(l)
  PROVE  ClaimsType'
BY Zenon DEF ClaimsType, WorkerCloses

(* A worker exits.                                                            *)
LEMMA ExitType ==
  ASSUME WorkerType, ClaimsType, NEW l \in Logins, WorkerExits(l)
  PROVE  WorkerType' /\ ClaimsType'
<1>1. First \in Displays /\ Absent \in RecordType /\ "gone" \in WorkerPcs
  BY RangeAssumption DEF Displays, Absent, RecordType, WorkerPcs
<1>2. WorkerType'
  BY <1>1, GotoType, Zenon DEF WorkerType, WorkerExits
<1> QED
  BY <1>2, ClosesType, Zenon DEF WorkerExits

(* A worker attaches to a session that answered it.                           *)
LEMMA AttachedType ==
  ASSUME WorkerType, ClaimsType, NEW l \in Logins, desktop_is_live(seen[l]), Attached(l)
  PROVE  WorkerType' /\ ClaimsType'
<1>1. (CHOOSE x \in Authenticates(seen[l]) : TRUE) \in Logins
  BY Zenon DEF desktop_is_live, Authenticates, Answering
<1>2. WorkerType'
  BY <1>1, GotoType, Zenon DEF WorkerType, Attached, WorkerPcs
<1> QED
  BY <1>2, ClosesType, Zenon DEF Attached

(* A keeper that moves on or exits, and its desktop.                          *)
LEMMA KeeperGotoType ==
  ASSUME KeeperType, NEW l \in Logins, NEW pc \in Running \cup {"gone"}, KeeperGoto(l, pc)
  PROVE  kpc' \in [Logins -> Running \cup {"none", "gone"}]
BY Zenon DEF KeeperType, KeeperGoto

(* A keeper exits.                                                            *)
LEMMA KeeperExitsType ==
  ASSUME KeeperType, ClaimsType, NEW l \in Logins, KeeperExits(l)
  PROVE  ClaimsType' /\ kpc' \in [Logins -> Running \cup {"none", "gone"}]
BY KeeperGotoType, Zenon DEF KeeperExits, ClaimsType

(* A desktop starts, comes up or ends.                                        *)
LEMMA DeskType ==
  ASSUME KeeperType, NEW l \in Logins, NEW st \in {"starting", "up", "dead"}, Desk(l, st)
  PROVE  desk' \in [Logins -> {"none", "starting", "up", "dead"}]
BY Zenon DEF KeeperType, Desk

-----------------------------------------------------------------------------
(* Type correctness.                                                          *)

(* Every step of every process keeps the types.                               *)
LEMMA TypeStep == IInv /\ [Next]_vars => TypeOK'
<1> SUFFICES ASSUME TypeOK, ControlInv, RecordsInv PROVE [Next]_vars => TypeOK'
  BY Zenon DEF IInv
<1> USE DEF TypeOK
<1>1. ASSUME NEW l \in Logins, WorkerStep(l) PROVE TypeOK'
  <2>1. CASE Acquire(l)
    <3>1. WorkerType'
      BY <2>1, RangeAssumption DEF Acquire, WorkerType, Goto, WorkerPcs, Displays
    <3>2. ClaimsType'
      BY <2>1, Zenon DEF Acquire, ClaimsType
    <3> QED
      BY <2>1, <3>1, <3>2, Zenon
         DEF Acquire, KeeperType, keeper, RegistryType, registry, SupervisorType,
             supervisor
  <2>2. CASE Find(l)
    <3>1. cur[l] \in Displays /\ read_record(cur[l]) \in RecordType
      BY ReadType, Zenon DEF WorkerType
    <3>2. cur' \in [Logins -> Displays]
      BY <2>2, RangeAssumption DEF Find, WorkerType, Displays
    <3>3. wpc' \in [Logins -> WorkerPcs]
      BY <2>2, Zenon DEF Find, WorkerType, Goto, WorkerPcs
    <3>4. seen' \in [Logins -> RecordType]
      BY <2>2, <3>1, Zenon DEF Find, WorkerType
    <3>5. WorkerType'
      BY <2>2, <3>2, <3>3, <3>4, Zenon DEF Find, WorkerType
    <3> QED
      BY <2>2, <3>5, Zenon
         DEF Find, ClaimsType, claims, KeeperType, keeper, RegistryType, registry,
             SupervisorType, supervisor
  <2>3. CASE Probe(l)
    <3>1. WorkerType' /\ ClaimsType'
      <4>1. CASE desktop_is_live(seen[l]) /\ Attached(l)
        BY <4>1, AttachedType, Zenon
      <4>2. CASE WorkerExits(l)
        BY <4>2, ExitType, Zenon
      <4>3. CASE Goto(l, "forget") /\ UNCHANGED <<cur, seen, tmp, ses, claims>>
        BY <4>3, Zenon DEF WorkerType, Goto, WorkerPcs, ClaimsType, claims
      <4> QED
        BY <2>3, <4>1, <4>2, <4>3, Zenon DEF Probe
    <3> QED
      BY <2>3, <3>1, Zenon
         DEF Probe, KeeperType, keeper, RegistryType, registry, SupervisorType, supervisor
  <2>4. CASE Forget(l)
    <3>1. WorkerType'
      BY <2>4, RangeAssumption DEF Forget, WorkerType, Goto, WorkerPcs, Displays
    <3> QED
      BY <2>4, <3>1, UnlinkType, Zenon
         DEF Forget, ClaimsType, claims, KeeperType, keeper, SupervisorType, supervisor
  <2>5. CASE Allocate(l)
    <3>1. WorkerType' /\ ClaimsType'
      <4>1. CASE disp' = [disp EXCEPT ![l] = cur[l]] /\ dfd' = [dfd EXCEPT ![l] = {"worker"}]
                 /\ Goto(l, "spawn") /\ UNCHANGED <<cur, seen, tmp, ses, afd>>
        BY <4>1, Zenon DEF WorkerType, Goto, WorkerPcs, ClaimsType
      <4>2. CASE cur[l] < Last /\ cur' = [cur EXCEPT ![l] = @ + 1] /\ UNCHANGED <<wpc, seen, tmp, ses, claims>>
        BY <4>2, RangeAssumption DEF WorkerType, Displays, ClaimsType, claims
      <4>3. CASE WorkerExits(l)
        BY <4>3, ExitType, Zenon
      <4> QED
        BY <2>5, <4>1, <4>2, <4>3, Zenon DEF Allocate
    <3> QED
      BY <2>5, <3>1, Zenon
         DEF Allocate, KeeperType, keeper, RegistryType, registry, SupervisorType,
             supervisor
  <2>6. CASE SpawnKeeper(l)
    <3>1. WorkerType' /\ ClaimsType' /\ KeeperType'
      <4>1. CASE WorkerExits(l) /\ UNCHANGED kpc
        BY <2>6, <4>1, ExitType, Zenon DEF SpawnKeeper, KeeperType
      <4>2. CASE Goto(l, "handoff") /\ kpc' = [kpc EXCEPT ![l] = "start"]
                 /\ afd' = [afd EXCEPT ![l] = @ \cup {"keeper"}] /\ dfd' = [dfd EXCEPT ![l] = @ \cup {"keeper"}]
                 /\ UNCHANGED <<cur, seen, tmp, ses, disp>>
        BY <2>6, <4>2, Zenon
           DEF SpawnKeeper, WorkerType, Goto, WorkerPcs, ClaimsType, KeeperType, Running,
               Starting
      <4> QED
        BY <2>6, <4>1, <4>2, Zenon DEF SpawnKeeper
    <3> QED
      BY <2>6, <3>1, Zenon DEF SpawnKeeper, RegistryType, registry, SupervisorType, supervisor
  <2>7. CASE Handoff(l)
    <3>1. WorkerType' /\ ClaimsType'
      BY <2>7, Zenon DEF Handoff, WorkerType, Goto, WorkerPcs, ClaimsType
    <3> QED
      BY <2>7, <3>1, Zenon
         DEF Handoff, KeeperType, keeper, RegistryType, registry, SupervisorType,
             supervisor
  <2>8. CASE WaitForRecord(l)
    <3>1. WorkerType' /\ ClaimsType'
      <4>1. CASE WorkerExits(l)
        BY <4>1, ExitType, Zenon
      <4>2. CASE Found(read_record(disp[l])) /\ seen' = [seen EXCEPT ![l] = read_record(disp[l])]
                 /\ Goto(l, "check") /\ UNCHANGED <<cur, tmp, ses, claims>>
        <5>1. read_record(disp[l]) \in RecordType
          BY <2>8, ReadType, Zenon DEF ControlInv, WaitForRecord
        <5> QED
          BY <4>2, <5>1, Zenon DEF WorkerType, Goto, WorkerPcs, ClaimsType, claims
      <4> QED
        BY <2>8, <4>1, <4>2, Zenon DEF WaitForRecord
    <3> QED
      BY <2>8, <3>1, Zenon
         DEF WaitForRecord, KeeperType, keeper, RegistryType, registry, SupervisorType,
             supervisor
  <2>9. CASE Check(l)
    <3>1. WorkerType' /\ ClaimsType'
      BY <2>9, ExitType, AttachedType, Zenon DEF Check
    <3> QED
      BY <2>9, <3>1, Zenon
         DEF Check, KeeperType, keeper, RegistryType, registry, SupervisorType, supervisor
  <2>10. CASE Bind(l)
    <3>1. WorkerType' /\ ClaimsType'
      <4>1. CASE WorkerExits(l)
        BY <4>1, ExitType, Zenon
      <4>2. CASE Goto(l, IF seen[l].locked THEN "unlock" ELSE "bound") /\ UNCHANGED <<cur, seen, tmp, ses, claims>>
        BY <4>2, Zenon DEF WorkerType, Goto, WorkerPcs, ClaimsType, claims
      <4> QED
        BY <2>10, <4>1, <4>2, Zenon DEF Bind
    <3> QED
      BY <2>10, <3>1, Zenon
         DEF Bind, KeeperType, keeper, RegistryType, registry, SupervisorType, supervisor
  <2>11. CASE SetLockedRead(l)
    <3>1. WorkerType' /\ ClaimsType'
      <4>1. CASE WorkerExits(l)
        BY <4>1, ExitType, Zenon
      <4>2. CASE UNCHANGED <<cur, seen, ses, claims>>
        <5> DEFINE r == read_record(disp[seen[l].sid])
        <5>1. disp[seen[l].sid] \in Displays
          BY <2>11, Zenon DEF SetLockedRead, RecordsInv, SeenNamed, Names, Serving, ControlInv
        <5>2. Record(r.sid, wpc[l] = "lock") \in RecordType
          BY <5>1, ReadType, Zenon DEF Record, RecordType
        <5>3. tmp' \in [Logins -> RecordType]
          BY <2>11, <4>2, <5>2, ExitType, Zenon DEF SetLockedRead, WorkerType
        <5>4. wpc' \in [Logins -> WorkerPcs]
          BY <2>11, <4>2, Zenon DEF SetLockedRead, WorkerExits, WorkerType, Goto, WorkerPcs
        <5> QED
          BY <4>2, <5>3, <5>4, Zenon DEF WorkerType, ClaimsType, claims
      <4> QED
        BY <2>11, <4>1, <4>2, Zenon DEF SetLockedRead
    <3> QED
      BY <2>11, <3>1, Zenon
         DEF SetLockedRead, KeeperType, keeper, RegistryType, registry, SupervisorType,
             supervisor
  <2>12. CASE SetLockedTruncate(l)
    <3>1. WorkerType' /\ RegistryType'
      BY <2>12, TruncateType, WorkerIsWriter, Zenon
         DEF SetLockedTruncate, WorkerType, Goto, WorkerPcs
    <3> QED
      BY <2>12, <3>1, Zenon
         DEF SetLockedTruncate, ClaimsType, claims, KeeperType, keeper, SupervisorType,
             supervisor
  <2>13. CASE SetLockedWrite(l)
    <3>1. RegistryType'
      BY <2>13, WriteBodyType, Zenon DEF SetLockedWrite, WorkerType
    <3>2. WorkerType' /\ ClaimsType'
      <4>1. CASE WorkerExits(l)
        BY <4>1, ExitType, Zenon
      <4>2. CASE Goto(l, "bound") /\ UNCHANGED <<cur, seen, tmp, ses, claims>>
        BY <4>2, Zenon DEF WorkerType, Goto, WorkerPcs, ClaimsType, claims
      <4> QED
        BY <2>13, <4>1, <4>2, Zenon DEF SetLockedWrite
    <3> QED
      BY <2>13, <3>1, <3>2, Zenon
         DEF SetLockedWrite, KeeperType, keeper, SupervisorType, supervisor
  <2> QED
    BY <1>1, <2>1, <2>2, <2>3, <2>4, <2>5, <2>6, <2>7, <2>8, <2>9, <2>10, <2>11, <2>12, <2>13, Zenon
       DEF WorkerStep
<1>2. ASSUME NEW l \in Logins, KeeperStep(l) PROVE TypeOK'
  <2>1. CASE KeeperStarts(l)
    <3>1. cookie' \in [Users \X Displays -> Logins \cup {NoLogin}]
      BY <2>1, Zenon DEF KeeperStarts, KeeperType
    <3>2. ClaimsType' /\ KeeperType'
      <4>1. CASE KeeperExits(l)
        BY <2>1, <3>1, <4>1, KeeperExitsType, Zenon DEF KeeperStarts, KeeperType
      <4>2. CASE KeeperGoto(l, "launch") /\ UNCHANGED claims
        BY <2>1, <3>1, <4>2, KeeperGotoType, Zenon
           DEF KeeperStarts, KeeperType, Running, Starting, ClaimsType, claims
      <4> QED
        BY <2>1, <4>1, <4>2, Zenon DEF KeeperStarts
    <3> QED
      BY <2>1, <3>2, Zenon
         DEF KeeperStarts, WorkerType, worker, RegistryType, registry, SupervisorType,
             supervisor
  <2>2. CASE Launch(l)
    <3>1. ClaimsType' /\ KeeperType'
      <4>1. CASE KeeperExits(l) /\ UNCHANGED desk
        BY <2>2, <4>1, KeeperExitsType, Zenon DEF Launch, KeeperType
      <4>2. CASE Desk(l, "starting") /\ KeeperGoto(l, "ready") /\ UNCHANGED claims
        BY <2>2, <4>2, KeeperGotoType, DeskType, Zenon
           DEF Launch, KeeperType, Running, Starting, ClaimsType, claims
      <4> QED
        BY <2>2, <4>1, <4>2, Zenon DEF Launch
    <3> QED
      BY <2>2, <3>1, Zenon
         DEF Launch, WorkerType, worker, RegistryType, registry, SupervisorType,
             supervisor
  <2>3. CASE Ready(l)
    <3>1. ClaimsType' /\ KeeperType'
      <4>1. CASE Desk(l, "dead") /\ KeeperExits(l)
        BY <2>3, <4>1, KeeperExitsType, DeskType, Zenon DEF Ready, KeeperType
      <4>2. CASE KeeperGoto(l, "publish") /\ UNCHANGED <<desk, claims>>
        BY <2>3, <4>2, KeeperGotoType, Zenon
           DEF Ready, KeeperType, Running, Starting, ClaimsType, claims
      <4> QED
        BY <2>3, <4>1, <4>2, Zenon DEF Ready
    <3> QED
      BY <2>3, <3>1, Zenon
         DEF Ready, WorkerType, worker, RegistryType, registry, SupervisorType, supervisor
  <2>4. CASE PublishTruncate(l)
    <3>1. RegistryType'
      BY <2>4, TruncateType, WorkerIsWriter, Zenon DEF PublishTruncate, RegistryType, registry
    <3>2. ClaimsType' /\ KeeperType'
      BY <2>4, KeeperExitsType, KeeperGotoType, Zenon
         DEF PublishTruncate, KeeperType, Running, Starting, ClaimsType, claims
    <3>3. faults' \in 0 .. MaxFaults
      <4>1. faults' = faults \/ (faults < MaxFaults /\ faults' = faults + 1)
        BY <2>4, Zenon DEF PublishTruncate
      <4> QED
        BY <4>1, BoundsAssumption
    <3> QED
      BY <2>4, <3>1, <3>2, <3>3, Zenon
         DEF PublishTruncate, WorkerType, worker, SupervisorType, supervisor
  <2>5. CASE PublishWrite(l)
    <3>1. RegistryType'
      BY <2>5, WriteBodyType, Zenon DEF PublishWrite, Record, RecordType
    <3>2. ClaimsType' /\ KeeperType'
      <4>1. CASE KeeperExits(l)
        BY <2>5, <4>1, KeeperExitsType, Zenon DEF PublishWrite, KeeperType
      <4>2. CASE /\ afd' = [afd EXCEPT ![l] = @ \ {"keeper"}]
                 /\ KeeperGoto(l, "serve")
                 /\ UNCHANGED <<disp, dfd>>
        BY <2>5, <4>2, KeeperGotoType, Zenon DEF PublishWrite, KeeperType, Running, ClaimsType
      <4> QED
        BY <2>5, <4>1, <4>2, Zenon DEF PublishWrite
    <3> QED
      BY <2>5, <3>1, <3>2, Zenon DEF PublishWrite, WorkerType, worker, SupervisorType, supervisor
  <2>6. CASE EndSession(l)
    <3>1. KeeperType'
      BY <2>6, KeeperGotoType, DeskType, Zenon DEF EndSession, KeeperType, Running
    <3> QED
      BY <2>6, <3>1, Zenon
         DEF EndSession, WorkerType, worker, ClaimsType, claims, RegistryType, registry,
             SupervisorType, supervisor
  <2>7. CASE ForgetRecord(l)
    <3>1. KeeperType' /\ RegistryType'
      BY <2>7, KeeperGotoType, UnlinkType, Zenon DEF ForgetRecord, KeeperType, Running
    <3> QED
      BY <2>7, <3>1, Zenon
         DEF ForgetRecord, WorkerType, worker, ClaimsType, claims, SupervisorType,
             supervisor
  <2>8. CASE Release(l)
    <3>1. KeeperType' /\ ClaimsType'
      BY <2>8, KeeperExitsType, Zenon DEF Release, KeeperType
    <3> QED
      BY <2>8, <3>1, Zenon
         DEF Release, WorkerType, worker, RegistryType, registry, SupervisorType,
             supervisor
  <2> QED
    BY <1>2, <2>1, <2>2, <2>3, <2>4, <2>5, <2>6, <2>7, <2>8, Zenon DEF KeeperStep
<1>3. ASSUME NEW l \in Logins, Environment(l) PROVE TypeOK'
  <2>1. CASE Connect(l) \/ Disconnect(l)
    <3>1. WorkerType'
      BY <2>1, Zenon DEF Connect, Disconnect, WorkerType, Goto, WorkerPcs
    <3> QED
      BY <2>1, <3>1, Zenon
         DEF Connect, Disconnect, ClaimsType, claims, KeeperType, keeper, RegistryType,
             registry, SupervisorType, supervisor
  <2>2. CASE WorkerKilled(l)
    <3>1. WorkerType' /\ ClaimsType' /\ faults' \in 0 .. MaxFaults
      BY <2>2, ExitType, BoundsAssumption DEF WorkerKilled
    <3> QED
      BY <2>2, <3>1, Zenon
         DEF WorkerKilled, KeeperType, keeper, RegistryType, registry, SupervisorType,
             supervisor
  <2>3. CASE KeeperKilled(l)
    <3>1. KeeperType' /\ ClaimsType' /\ faults' \in 0 .. MaxFaults
      BY <2>3, KeeperExitsType, BoundsAssumption DEF KeeperKilled, KeeperType
    <3> QED
      BY <2>3, <3>1, Zenon
         DEF KeeperKilled, WorkerType, worker, RegistryType, registry, SupervisorType,
             supervisor
  <2>4. CASE SessionEnds(l)
    <3>1. KeeperType'
      BY <2>4, KeeperGotoType, Zenon DEF SessionEnds, KeeperType, Running
    <3> QED
      BY <2>4, <3>1, Zenon
         DEF SessionEnds, WorkerType, worker, ClaimsType, claims, RegistryType, registry,
             SupervisorType, supervisor
  <2>5. CASE DesktopUp(l) \/ DesktopDies(l)
    <3>1. KeeperType'
      BY <2>5, DeskType, Zenon DEF DesktopUp, DesktopDies, KeeperType, keeper
    <3> QED
      BY <2>5, <3>1, Zenon
         DEF DesktopUp, DesktopDies, WorkerType, worker, ClaimsType, claims, RegistryType,
             registry, SupervisorType, supervisor
  <2> QED
    BY <1>3, <2>1, <2>2, <2>3, <2>4, <2>5, Zenon DEF Environment
<1>4. CASE SupervisorStep
  <2>1. CASE LockAllRead
    <3> DEFINE r == read_record(scur)
    <3>1. Record(r.sid, TRUE) \in RecordType
      BY ReadType, Zenon DEF SupervisorType, Record, RecordType
    <3>2. stmp' \in RecordType
      BY <2>1, <3>1, Zenon DEF LockAllRead, SupervisorType
    <3>3. scur' \in Displays
      <4>1. scur' = scur \/ scur' = First \/ (scur # Last /\ scur' = scur + 1)
        BY <2>1, Zenon DEF LockAllRead, LockAllNext
      <4> QED
        BY <4>1, RangeAssumption DEF SupervisorType, Displays
    <3>4. SupervisorType'
      BY <2>1, <3>2, <3>3, Zenon DEF LockAllRead, LockAllNext, SupervisorType
    <3> QED
      BY <2>1, <3>4, Zenon
         DEF LockAllRead, WorkerType, worker, ClaimsType, claims, KeeperType, keeper,
             RegistryType, registry
  <2>2. CASE LockAllTruncate
    <3>1. SupervisorType' /\ RegistryType'
      BY <2>2, TruncateType, WorkerIsWriter, Zenon DEF LockAllTruncate, SupervisorType, Writers
    <3> QED
      BY <2>2, <3>1, Zenon
         DEF LockAllTruncate, WorkerType, worker, ClaimsType, claims, KeeperType, keeper
  <2>3. CASE LockAllWrite
    <3>1. SupervisorType' /\ RegistryType'
      BY <2>3, RangeAssumption, WriteBodyType
         DEF LockAllWrite, LockAllNext, SupervisorType, Displays
    <3> QED
      BY <2>3, <3>1, Zenon
         DEF LockAllWrite, WorkerType, worker, ClaimsType, claims, KeeperType, keeper
  <2> QED
    BY <1>4, <2>1, <2>2, <2>3, Zenon DEF SupervisorStep
<1>5. CASE Restart
  <2>1. SupervisorType' /\ RegistryType'
    BY <1>5, RangeAssumption, BoundsAssumption
       DEF Restart, SupervisorType, RegistryType, Displays, Absent, RecordType
  <2> QED
    BY <1>5, <2>1, Zenon DEF Restart, WorkerType, worker, ClaimsType, claims, KeeperType, keeper
<1>6. CASE UNCHANGED vars
  BY <1>6, Zenon
     DEF vars, WorkerType, worker, ClaimsType, claims, KeeperType, keeper, RegistryType,
         registry, SupervisorType, supervisor
<1> QED
  BY <1>1, <1>2, <1>3, <1>4, <1>5, <1>6, Zenon DEF Next

-----------------------------------------------------------------------------
(* What the steps of Sessions leave alone.                                    *)

(* The steps of a login's worker, and of its keeper and desktop.              *)
WorkerSide(l) == WorkerStep(l) \/ Connect(l) \/ Disconnect(l) \/ WorkerKilled(l)
KeeperSide(l) ==
    KeeperStep(l) \/ SessionEnds(l) \/ KeeperKilled(l) \/ DesktopUp(l) \/ DesktopDies(l)

(* Every step is one of a worker, of a keeper or desktop, or of the           *)
(* supervisor.                                                                *)
LEMMA Sides ==
  ASSUME Next
  PROVE  (\E l \in Logins : WorkerSide(l) \/ KeeperSide(l)) \/ SupervisorStep \/ Restart
BY Zenon DEF Next, Environment, WorkerSide, KeeperSide

(* Claims are only dropped.                                                   *)
Shrinks ==
    /\ disp' = disp
    /\ \A m \in Logins : afd'[m] \subseteq afd[m] /\ dfd'[m] \subseteq dfd[m]

(* A file that says something after the step said it before.                  *)
Keeps == fresh' = fresh /\ \A d \in Displays : Found(reg'[d]) => reg'[d] = reg[d]

(* A step that touches no file keeps what the files say.                      *)
LEMMA UnchangedKeeps == ASSUME UNCHANGED registry PROVE Keeps
BY Zenon DEF Keeps, registry

(* Truncation (the first half of fs::write) leaves an empty file, which says  *)
(* nothing.                                                                   *)
LEMMA TruncateKeeps ==
  ASSUME RegistryType, NEW w, NEW d, Truncate(w, d) PROVE Keeps
BY Zenon DEF Keeps, Truncate, Torn, Found, RegistryType

(* Neither does a removed file (forget, forget_record).                       *)
LEMMA UnlinkKeeps ==
  ASSUME RegistryType, NEW d, Unlink(d) PROVE Keeps
BY Zenon DEF Keeps, Unlink, Absent, Found, RegistryType

(* A supervisor's start touches records only.                                 *)
LEMMA SupervisorFrame ==
  ASSUME SupervisorStep \/ Restart
  PROVE  UNCHANGED <<worker, claims, keeper>>
<1>1. CASE LockAllRead
  BY <1>1, Zenon DEF LockAllRead
<1>2. CASE LockAllTruncate
  BY <1>2, Zenon DEF LockAllTruncate
<1>3. CASE LockAllWrite
  BY <1>3, Zenon DEF LockAllWrite
<1>4. CASE Restart
  BY <1>4, Zenon DEF Restart
<1> QED
  BY <1>1, <1>2, <1>3, <1>4, Zenon DEF SupervisorStep

(* Shared effects on claims.                                                  *)
LEMMA UnchangedShrinks == ASSUME UNCHANGED claims PROVE Shrinks
BY Zenon DEF Shrinks, claims

(* A worker that closes its descriptors drops claims (attach_or_create,       *)
(* process exit).                                                             *)
LEMMA ClosesShrinks ==
  ASSUME ClaimsType, NEW l \in Logins, WorkerCloses(l) PROVE Shrinks
BY Zenon DEF Shrinks, WorkerCloses, ClaimsType

(* So does a keeper that exits.                                               *)
LEMMA ExitShrinks ==
  ASSUME ClaimsType, NEW l \in Logins, KeeperExits(l) PROVE Shrinks
BY Zenon DEF Shrinks, KeeperExits, ClaimsType

(* Beyond AccountLock, allocation and the spawn, a worker only drops claims;  *)
(* a keeper never takes any.                                                  *)
LEMMA WorkerReleases ==
  ASSUME ClaimsType, NEW l \in Logins, WorkerSide(l),
         ~Acquire(l), ~Allocate(l), ~SpawnKeeper(l)
  PROVE  Shrinks
<1>1. CASE Find(l)
  BY <1>1, UnchangedShrinks, Zenon DEF Find
<1>2. CASE Probe(l)
  BY <1>2, ClosesShrinks, UnchangedShrinks, Zenon DEF Probe, Attached, WorkerExits
<1>3. CASE Forget(l)
  BY <1>3, UnchangedShrinks, Zenon DEF Forget
<1>4. CASE Handoff(l)
  BY <1>4, Zenon DEF Handoff, Shrinks, ClaimsType
<1>5. CASE WaitForRecord(l)
  BY <1>5, ClosesShrinks, UnchangedShrinks, Zenon DEF WaitForRecord, WorkerExits
<1>6. CASE Check(l)
  BY <1>6, ClosesShrinks, UnchangedShrinks, Zenon DEF Check, Attached, WorkerExits
<1>7. CASE Bind(l)
  BY <1>7, ClosesShrinks, UnchangedShrinks, Zenon DEF Bind, WorkerExits
<1>8. CASE SetLockedRead(l)
  BY <1>8, ClosesShrinks, UnchangedShrinks, Zenon DEF SetLockedRead, WorkerExits
<1>9. CASE SetLockedTruncate(l)
  BY <1>9, UnchangedShrinks, Zenon DEF SetLockedTruncate
<1>10. CASE SetLockedWrite(l)
  BY <1>10, ClosesShrinks, UnchangedShrinks, Zenon DEF SetLockedWrite, WorkerExits
<1>11. CASE Connect(l)
  BY <1>11, UnchangedShrinks, Zenon DEF Connect
<1>12. CASE Disconnect(l)
  BY <1>12, UnchangedShrinks, Zenon DEF Disconnect
<1>13. CASE WorkerKilled(l)
  BY <1>13, ClosesShrinks, Zenon DEF WorkerKilled, WorkerExits
<1> QED
  BY <1>1, <1>2, <1>3, <1>4, <1>5, <1>6, <1>7, <1>8, <1>9, <1>10, <1>11,
     <1>12, <1>13, Zenon DEF WorkerSide, WorkerStep

(* A keeper never takes a claim: it adopts the ones it inherits and drops     *)
(* them.                                                                      *)
LEMMA KeeperReleases ==
  ASSUME ClaimsType, NEW l \in Logins, KeeperSide(l)
  PROVE  Shrinks
<1>1. CASE KeeperStarts(l)
  BY <1>1, ExitShrinks, UnchangedShrinks, Zenon DEF KeeperStarts
<1>2. CASE Launch(l)
  BY <1>2, ExitShrinks, UnchangedShrinks, Zenon DEF Launch
<1>3. CASE Ready(l)
  BY <1>3, ExitShrinks, UnchangedShrinks, Zenon DEF Ready
<1>4. CASE PublishTruncate(l)
  BY <1>4, ExitShrinks, UnchangedShrinks, Zenon DEF PublishTruncate
<1>5. CASE PublishWrite(l)
  BY <1>5, ExitShrinks, Zenon DEF PublishWrite, Shrinks, ClaimsType
<1>6. CASE EndSession(l)
  BY <1>6, UnchangedShrinks, Zenon DEF EndSession
<1>7. CASE ForgetRecord(l)
  BY <1>7, UnchangedShrinks, Zenon DEF ForgetRecord
<1>8. CASE Release(l)
  BY <1>8, ExitShrinks, Zenon DEF Release
<1>9. CASE SessionEnds(l)
  BY <1>9, UnchangedShrinks, Zenon DEF SessionEnds
<1>10. CASE KeeperKilled(l)
  BY <1>10, ExitShrinks, Zenon DEF KeeperKilled
<1>11. CASE DesktopUp(l)
  BY <1>11, UnchangedShrinks, Zenon DEF DesktopUp
<1>12. CASE DesktopDies(l)
  BY <1>12, UnchangedShrinks, Zenon DEF DesktopDies
<1> QED
  BY <1>1, <1>2, <1>3, <1>4, <1>5, <1>6, <1>7, <1>8, <1>9, <1>10, <1>11,
     <1>12, Zenon DEF KeeperSide, KeeperStep

(* A worker does not touch the supervisor's scan, nor, but for the spawn, the *)
(* keeper; a keeper touches neither the scan nor a worker.                    *)
LEMMA WorkerOnly ==
  ASSUME NEW l \in Logins, WorkerSide(l)
  PROVE  UNCHANGED supervisor /\ (UNCHANGED keeper \/ SpawnKeeper(l))
<1>1. CASE Acquire(l)
  BY <1>1, Zenon DEF Acquire
<1>2. CASE Find(l)
  BY <1>2, Zenon DEF Find
<1>3. CASE Probe(l)
  BY <1>3, Zenon DEF Probe
<1>4. CASE Forget(l)
  BY <1>4, Zenon DEF Forget
<1>5. CASE Allocate(l)
  BY <1>5, Zenon DEF Allocate
<1>6. CASE SpawnKeeper(l)
  BY <1>6, Zenon DEF SpawnKeeper
<1>7. CASE Handoff(l)
  BY <1>7, Zenon DEF Handoff
<1>8. CASE WaitForRecord(l)
  BY <1>8, Zenon DEF WaitForRecord
<1>9. CASE Check(l)
  BY <1>9, Zenon DEF Check
<1>10. CASE Bind(l)
  BY <1>10, Zenon DEF Bind
<1>11. CASE SetLockedRead(l)
  BY <1>11, Zenon DEF SetLockedRead
<1>12. CASE SetLockedTruncate(l)
  BY <1>12, Zenon DEF SetLockedTruncate
<1>13. CASE SetLockedWrite(l)
  BY <1>13, Zenon DEF SetLockedWrite
<1>14. CASE Connect(l)
  BY <1>14, Zenon DEF Connect
<1>15. CASE Disconnect(l)
  BY <1>15, Zenon DEF Disconnect
<1>16. CASE WorkerKilled(l)
  BY <1>16, Zenon DEF WorkerKilled
<1> QED
  BY <1>1, <1>2, <1>3, <1>4, <1>5, <1>6, <1>7, <1>8, <1>9, <1>10, <1>11,
     <1>12, <1>13, <1>14, <1>15, <1>16, Zenon DEF WorkerSide, WorkerStep

(* A keeper touches neither a worker nor the scan.                            *)
LEMMA KeeperOnly ==
  ASSUME NEW l \in Logins, KeeperSide(l)
  PROVE  UNCHANGED <<worker, supervisor>>
<1>1. CASE KeeperStarts(l)
  BY <1>1, Zenon DEF KeeperStarts
<1>2. CASE Launch(l)
  BY <1>2, Zenon DEF Launch
<1>3. CASE Ready(l)
  BY <1>3, Zenon DEF Ready
<1>4. CASE PublishTruncate(l)
  BY <1>4, Zenon DEF PublishTruncate
<1>5. CASE PublishWrite(l)
  BY <1>5, Zenon DEF PublishWrite
<1>6. CASE EndSession(l)
  BY <1>6, Zenon DEF EndSession
<1>7. CASE ForgetRecord(l)
  BY <1>7, Zenon DEF ForgetRecord
<1>8. CASE Release(l)
  BY <1>8, Zenon DEF Release
<1>9. CASE SessionEnds(l)
  BY <1>9, Zenon DEF SessionEnds
<1>10. CASE KeeperKilled(l)
  BY <1>10, Zenon DEF KeeperKilled
<1>11. CASE DesktopUp(l)
  BY <1>11, Zenon DEF DesktopUp
<1>12. CASE DesktopDies(l)
  BY <1>12, Zenon DEF DesktopDies
<1> QED
  BY <1>1, <1>2, <1>3, <1>4, <1>5, <1>6, <1>7, <1>8, <1>9, <1>10, <1>11,
     <1>12, Zenon DEF KeeperSide, KeeperStep

(* A keeper moves along its own steps and never back to before it was started.*)
LEMMA KeeperGoesOn ==
  ASSUME KeeperType, NEW l \in Logins, KeeperSide(l)
  PROVE  \A m \in Logins : kpc[m] = "none" <=> kpc'[m] = "none"
<1>1. CASE KeeperStarts(l)
  BY <1>1, Zenon DEF KeeperStarts, KeeperGoto, KeeperExits, KeeperType
<1>2. CASE Launch(l)
  BY <1>2, Zenon DEF Launch, KeeperGoto, KeeperExits, KeeperType
<1>3. CASE Ready(l)
  BY <1>3, Zenon DEF Ready, KeeperGoto, KeeperExits, KeeperType
<1>4. CASE PublishTruncate(l)
  BY <1>4, Zenon DEF PublishTruncate, KeeperGoto, KeeperExits, KeeperType
<1>5. CASE PublishWrite(l)
  BY <1>5, Zenon DEF PublishWrite, KeeperGoto, KeeperExits, KeeperType
<1>6. CASE EndSession(l)
  BY <1>6, Zenon DEF EndSession, KeeperGoto, KeeperType
<1>7. CASE ForgetRecord(l)
  BY <1>7, Zenon DEF ForgetRecord, KeeperGoto, KeeperType
<1>8. CASE Release(l)
  BY <1>8, Zenon DEF Release, KeeperGoto, KeeperExits, KeeperType
<1>9. CASE SessionEnds(l)
  BY <1>9, Zenon DEF SessionEnds, KeeperGoto, KeeperType
<1>10. CASE KeeperKilled(l)
  BY <1>10, Zenon DEF KeeperKilled, KeeperGoto, KeeperExits, KeeperType
<1>11. CASE DesktopUp(l)
  BY <1>11, Zenon DEF DesktopUp, keeper, KeeperType
<1>12. CASE DesktopDies(l)
  BY <1>12, Zenon DEF DesktopDies, keeper, KeeperType
<1> QED
  BY <1>1, <1>2, <1>3, <1>4, <1>5, <1>6, <1>7, <1>8, <1>9, <1>10, <1>11,
     <1>12, Zenon DEF KeeperSide, KeeperStep

(* Only a keeper that starts writes a cookie file.                            *)
LEMMA CookieKept ==
  ASSUME NEW l \in Logins, KeeperSide(l), ~KeeperStarts(l)
  PROVE  UNCHANGED cookie
<1>1. CASE Launch(l)
  BY <1>1, Zenon DEF Launch
<1>2. CASE Ready(l)
  BY <1>2, Zenon DEF Ready
<1>3. CASE PublishTruncate(l)
  BY <1>3, Zenon DEF PublishTruncate
<1>4. CASE PublishWrite(l)
  BY <1>4, Zenon DEF PublishWrite
<1>5. CASE EndSession(l)
  BY <1>5, Zenon DEF EndSession
<1>6. CASE ForgetRecord(l)
  BY <1>6, Zenon DEF ForgetRecord
<1>7. CASE Release(l)
  BY <1>7, Zenon DEF Release
<1>8. CASE SessionEnds(l)
  BY <1>8, Zenon DEF SessionEnds
<1>9. CASE KeeperKilled(l)
  BY <1>9, Zenon DEF KeeperKilled
<1>10. CASE DesktopUp(l)
  BY <1>10, Zenon DEF DesktopUp, keeper
<1>11. CASE DesktopDies(l)
  BY <1>11, Zenon DEF DesktopDies, keeper
<1> QED
  BY <1>1, <1>2, <1>3, <1>4, <1>5, <1>6, <1>7, <1>8, <1>9, <1>10, <1>11, Zenon DEF
     KeeperSide, KeeperStep

(* Records come from the second step of a write only.                         *)
LEMMA WorkerKeeps ==
  ASSUME RegistryType, NEW l \in Logins, WorkerSide(l), ~SetLockedWrite(l)
  PROVE  Keeps
<1>1. CASE Acquire(l)
  BY <1>1, UnchangedKeeps, Zenon DEF Acquire
<1>2. CASE Find(l)
  BY <1>2, UnchangedKeeps, Zenon DEF Find
<1>3. CASE Probe(l)
  BY <1>3, UnchangedKeeps, Zenon DEF Probe
<1>4. CASE Forget(l)
  BY <1>4, UnlinkKeeps, Zenon DEF Forget
<1>5. CASE Allocate(l)
  BY <1>5, UnchangedKeeps, Zenon DEF Allocate
<1>6. CASE SpawnKeeper(l)
  BY <1>6, UnchangedKeeps, Zenon DEF SpawnKeeper
<1>7. CASE Handoff(l)
  BY <1>7, UnchangedKeeps, Zenon DEF Handoff
<1>8. CASE WaitForRecord(l)
  BY <1>8, UnchangedKeeps, Zenon DEF WaitForRecord
<1>9. CASE Check(l)
  BY <1>9, UnchangedKeeps, Zenon DEF Check
<1>10. CASE Bind(l)
  BY <1>10, UnchangedKeeps, Zenon DEF Bind
<1>11. CASE SetLockedRead(l)
  BY <1>11, UnchangedKeeps, Zenon DEF SetLockedRead
<1>12. CASE SetLockedTruncate(l)
  BY <1>12, TruncateKeeps, Zenon DEF SetLockedTruncate
<1>13. CASE Connect(l)
  BY <1>13, UnchangedKeeps, Zenon DEF Connect
<1>14. CASE Disconnect(l)
  BY <1>14, UnchangedKeeps, Zenon DEF Disconnect
<1>15. CASE WorkerKilled(l)
  BY <1>15, UnchangedKeeps, Zenon DEF WorkerKilled
<1> QED
  BY <1>1, <1>2, <1>3, <1>4, <1>5, <1>6, <1>7, <1>8, <1>9, <1>10, <1>11,
     <1>12, <1>13, <1>14, <1>15, Zenon DEF WorkerSide, WorkerStep

(* Of a keeper, only the body of its publication makes a record readable.     *)
LEMMA KeeperKeeps ==
  ASSUME RegistryType, NEW l \in Logins, KeeperSide(l), ~PublishWrite(l)
  PROVE  Keeps
<1>1. CASE KeeperStarts(l)
  BY <1>1, UnchangedKeeps, Zenon DEF KeeperStarts
<1>2. CASE Launch(l)
  BY <1>2, UnchangedKeeps, Zenon DEF Launch
<1>3. CASE Ready(l)
  BY <1>3, UnchangedKeeps, Zenon DEF Ready
<1>4. CASE PublishTruncate(l)
  BY <1>4, TruncateKeeps, UnchangedKeeps, Zenon DEF PublishTruncate
<1>5. CASE EndSession(l)
  BY <1>5, UnchangedKeeps, Zenon DEF EndSession
<1>6. CASE ForgetRecord(l)
  BY <1>6, UnlinkKeeps, Zenon DEF ForgetRecord
<1>7. CASE Release(l)
  BY <1>7, UnchangedKeeps, Zenon DEF Release
<1>8. CASE SessionEnds(l)
  BY <1>8, UnchangedKeeps, Zenon DEF SessionEnds
<1>9. CASE KeeperKilled(l)
  BY <1>9, UnchangedKeeps, Zenon DEF KeeperKilled
<1>10. CASE DesktopUp(l)
  BY <1>10, UnchangedKeeps, Zenon DEF DesktopUp
<1>11. CASE DesktopDies(l)
  BY <1>11, UnchangedKeeps, Zenon DEF DesktopDies
<1> QED
  BY <1>1, <1>2, <1>3, <1>4, <1>5, <1>6, <1>7, <1>8, <1>9, <1>10, <1>11, Zenon DEF
     KeeperSide, KeeperStep

(* A session that was spawned stays spawned and keeps its number.             *)
LEMMA SessionsStay ==
  ASSUME KeeperType, ClaimsType, ControlInv, NEW l \in Logins, WorkerSide(l) \/ KeeperSide(l)
  PROVE  \A m \in Logins : kpc[m] # "none" => kpc'[m] # "none" /\ disp'[m] = disp[m]
<1>1. CASE KeeperSide(l)
  BY <1>1, KeeperGoesOn, KeeperReleases, Zenon DEF Shrinks
<1>2. CASE Allocate(l)
  BY <1>2, Zenon DEF Allocate, WorkerExits, WorkerCloses, ClaimsType, ControlInv, Early,
              claims, keeper
<1>3. CASE SpawnKeeper(l)
  BY <1>3, Zenon DEF SpawnKeeper, WorkerExits, WorkerCloses, KeeperType
<1>4. CASE Acquire(l)
  BY <1>4, Zenon DEF Acquire, keeper
<1>5. CASE WorkerSide(l) /\ ~Allocate(l) /\ ~SpawnKeeper(l) /\ ~Acquire(l)
  BY <1>5, WorkerOnly, WorkerReleases, Zenon DEF Shrinks, keeper
<1> QED
  BY <1>1, <1>2, <1>3, <1>4, <1>5, Zenon

(* The outcomes of the handshake with a recorded session, as claims see them. *)
LEMMA ProbeEffect ==
  ASSUME NEW l \in Logins, Probe(l)
  PROVE  /\ wpc[l] = "probe"
         /\ UNCHANGED <<tmp, keeper, desk, registry, supervisor, faults>>
            \/ (wpc' = [wpc EXCEPT ![l] = "gone"] /\ tmp' = [tmp EXCEPT ![l] = Absent]
                /\ UNCHANGED <<keeper, desk, registry, supervisor, faults>>)
         /\ \/ Goto(l, "bind") /\ WorkerCloses(l)
            \/ Goto(l, "gone") /\ WorkerCloses(l)
            \/ Goto(l, "forget") /\ UNCHANGED claims
BY Zenon DEF Probe, Attached, WorkerExits, Goto

-----------------------------------------------------------------------------
(* Records in files and in memory name sessions that exist, in their places,  *)
(* and the scan of a starting supervisor misses none.                         *)

(* Writing a session's record to the file of its own number.                  *)
LEMMA RegWriteOld ==
  ASSUME RegistryType, RegNamed, NEW w, NEW d \in Displays, NEW r, Names(r),
         disp[r.sid] = d, WriteBody(w, d, r)
  PROVE  \A e \in Displays : Found(reg'[e]) => Names(reg'[e]) /\ disp[reg'[e].sid] = e
BY SMTT(30) DEF RegNamed, WriteBody, RegistryType, Found, Names

(* The same, when the sessions do not move meanwhile.                         *)
LEMMA RegWrite ==
  ASSUME RegistryType, RegNamed, NEW w, NEW d \in Displays, NEW r, Names(r),
         disp[r.sid] = d, WriteBody(w, d, r), UNCHANGED <<disp, kpc>>
  PROVE  RegNamed'
BY RegWriteOld, Zenon DEF RegNamed, Names, Found

(* Writing an unlocked record (set_locked, publication) is noted as such.     *)
LEMMA ScanWrite ==
  ASSUME RegistryType, ScanInv, NEW w, NEW d, NEW r \in RecordType, WriteBody(w, d, r),
         spc' = spc, scur' = scur
  PROVE  ScanInv'
BY Zenon DEF ScanInv, WriteBody, RegistryType, RecordType, Found

(* Keepers exist once spawned, on a number of the range.                      *)
LEMMA ControlStep == IInv /\ [Next]_vars => ControlInv'
<1> SUFFICES ASSUME WorkerType, ClaimsType, KeeperType, ControlInv PROVE
   [Next]_vars => ControlInv'
  BY Zenon DEF IInv, TypeOK, RecordsInv
<1>1. ASSUME NEW l \in Logins, WorkerSide(l) PROVE ControlInv'
  <2>1. CASE Acquire(l)
    BY <2>1, Zenon DEF ControlInv, Acquire, Goto, keeper, Early, WorkerType
  <2>2. CASE Find(l)
    BY <2>2, Zenon DEF ControlInv, Find, Goto, WorkerType, claims, keeper, Early
  <2>3. CASE Probe(l)
    BY <2>3, Zenon
       DEF ControlInv, Probe, Attached, WorkerExits, WorkerCloses, Goto,
           WorkerType, claims, keeper, Early
  <2>4. CASE Forget(l)
    BY <2>4, Zenon DEF ControlInv, Forget, Goto, claims, keeper, Early, WorkerType
  <2>5. CASE Allocate(l)
    BY <2>5, Zenon
       DEF ControlInv, Allocate, WorkerExits, WorkerCloses, Goto, WorkerType,
           ClaimsType, claims, keeper, Early
  <2>6. CASE SpawnKeeper(l)
    BY <2>6, ZenonT(30)
       DEF ControlInv, SpawnKeeper, WorkerExits, WorkerCloses, Goto,
           WorkerType, KeeperType, Early
  <2>7. CASE Handoff(l)
    BY <2>7, Zenon DEF ControlInv, Handoff, Goto, keeper, Early, WorkerType
  <2>8. CASE WaitForRecord(l)
    BY <2>8, Zenon
       DEF ControlInv, WaitForRecord, WorkerExits, WorkerCloses, Goto,
           WorkerType, claims, keeper, Early
  <2>9. CASE Check(l)
    BY <2>9, SMTT(30)
       DEF ControlInv, Check, Attached, WorkerExits, WorkerCloses, Goto,
           WorkerType, keeper, Early
  <2>10. CASE Bind(l)
    BY <2>10
       DEF ControlInv, Bind, WorkerExits, WorkerCloses, Goto, WorkerType,
           claims, keeper, Early
  <2>11. CASE SetLockedRead(l)
    BY <2>11, ZenonT(30)
       DEF ControlInv, SetLockedRead, WorkerExits, WorkerCloses, Goto,
           WorkerType, claims, keeper, Early
  <2>12. CASE SetLockedTruncate(l)
    BY <2>12, Zenon
       DEF ControlInv, SetLockedTruncate, Goto, claims, keeper, Early,
           WorkerType
  <2>13. CASE SetLockedWrite(l)
    BY <2>13, Zenon
       DEF ControlInv, SetLockedWrite, WorkerExits, WorkerCloses, Goto,
           WorkerType, claims, keeper, Early
  <2>14. CASE Connect(l)
    BY <2>14, Zenon DEF ControlInv, Connect, Goto, claims, keeper, Early, WorkerType
  <2>15. CASE Disconnect(l)
    BY <2>15, Zenon
       DEF ControlInv, Disconnect, Goto, claims, keeper, Early, WorkerType
  <2>16. CASE WorkerKilled(l)
    BY <2>16, Zenon
       DEF ControlInv, WorkerKilled, WorkerExits, WorkerCloses, Goto, keeper,
           Early, WorkerType
  <2> QED
    BY <1>1, <2>1, <2>2, <2>3, <2>4, <2>5, <2>6, <2>7, <2>8, <2>9, <2>10,
       <2>11, <2>12, <2>13, <2>14, <2>15, <2>16, Zenon DEF WorkerSide, WorkerStep
<1>2. ASSUME NEW l \in Logins, KeeperSide(l) PROVE ControlInv'
  BY <1>2, KeeperOnly, KeeperGoesOn, KeeperReleases, Zenon DEF ControlInv, Shrinks, worker
<1>3. CASE SupervisorStep \/ Restart
  BY <1>3, SupervisorFrame, Zenon DEF ControlInv, worker, claims, keeper
<1>4. CASE UNCHANGED vars
  BY <1>4, Zenon DEF ControlInv, vars, worker, claims, keeper
<1> QED
  BY <1>1, <1>2, <1>3, <1>4, Sides, Zenon

(* Records name the session of their own number.                              *)
LEMMA RegNamedStep == IInv /\ [Next]_vars => RegNamed'
<1> SUFFICES ASSUME WorkerType, ClaimsType, KeeperType, RegistryType,
   SupervisorType, ControlInv, RecordsInv, RegNamed PROVE [Next]_vars =>
   RegNamed'
  BY Zenon DEF IInv, TypeOK, RecordsInv
<1>1. ASSUME NEW l \in Logins, WorkerSide(l) PROVE RegNamed'
  <2>1. CASE SetLockedWrite(l)
    <3>1. Names(tmp[l]) /\ disp[tmp[l].sid] \in Displays
      BY <2>1, Zenon DEF SetLockedWrite, RecordsInv, TmpNamed, Names, ControlInv
    <3>2. UNCHANGED <<disp, kpc>>
      BY <2>1, Zenon DEF SetLockedWrite, WorkerExits, WorkerCloses, claims, keeper
    <3> QED
      BY <2>1, <3>1, <3>2, RegWrite, Zenon DEF SetLockedWrite
  <2>2. CASE ~SetLockedWrite(l)
    BY <1>1, <2>2, WorkerKeeps, SessionsStay, Zenon DEF RegNamed, Names, Keeps, Found
  <2> QED
    BY <2>1, <2>2, Zenon
<1>2. ASSUME NEW l \in Logins, KeeperSide(l) PROVE RegNamed'
  <2>1. CASE PublishWrite(l)
    <3>1. Names(Record(l, FALSE)) /\ disp[l] \in Displays
      BY <2>1, Zenon DEF PublishWrite, ControlInv, Names, Record
    <3>2. \A e \in Displays : Found(reg'[e]) => Names(reg'[e]) /\ disp[reg'[e].sid] = e
      BY <2>1, <3>1, RegWriteOld, Zenon DEF PublishWrite, Record
    <3>3. disp' = disp /\ \A m \in Logins : kpc[m] # "none" => kpc'[m] # "none"
      BY <2>1, Zenon DEF PublishWrite, KeeperExits, KeeperGoto, KeeperType
    <3> QED
      BY <3>2, <3>3, Zenon DEF RegNamed, Names, Found
  <2>2. CASE ~PublishWrite(l)
    BY <1>2, <2>2, KeeperKeeps, SessionsStay, ZenonT(30) DEF RegNamed, Names, Keeps, Found
  <2> QED
    BY <2>1, <2>2, Zenon
<1>3. CASE SupervisorStep
  <2>1. CASE LockAllRead
    BY <2>1, Zenon DEF RegNamed, LockAllRead, claims, keeper, Names, registry
  <2>2. CASE LockAllTruncate
    BY <2>2
       DEF RegNamed, LockAllTruncate, Truncate, claims, keeper, Names, Found,
           Torn
  <2>3. CASE LockAllWrite
    <3>1. Names(stmp) /\ disp[stmp.sid] = scur /\ scur \in Displays
      BY <2>3, Zenon DEF LockAllWrite, RecordsInv, ScanNamed, SupervisorType
    <3>2. UNCHANGED <<disp, kpc>>
      BY <2>3, Zenon DEF LockAllWrite, claims, keeper
    <3> QED
      BY <2>3, <3>1, <3>2, RegWrite, Zenon DEF LockAllWrite
  <2> QED
    BY <1>3, <2>1, <2>2, <2>3, Zenon DEF SupervisorStep
<1>4. CASE Restart
  BY <1>4, Zenon DEF RegNamed, Restart, Names, claims, keeper
<1>5. CASE UNCHANGED vars
  BY <1>5, Zenon DEF RegNamed, vars, claims, keeper, registry, Names
<1> QED
  BY <1>1, <1>2, <1>3, <1>4, <1>5, Sides, Zenon

(* The record a worker goes by is one of its own account (find,               *)
(* wait_for_record).                                                          *)
LEMMA SeenNamedStep == IInv /\ [Next]_vars => SeenNamed'
<1> SUFFICES ASSUME WorkerType, ClaimsType, KeeperType, ControlInv, RegNamed,
   SeenNamed PROVE [Next]_vars => SeenNamed'
  BY Zenon DEF IInv, TypeOK, RecordsInv
<1>1. ASSUME NEW l \in Logins, WorkerSide(l) PROVE SeenNamed'
  <2>a. ASSUME WorkerExits(l), UNCHANGED kpc
        PROVE  SeenNamed'
    BY <2>a, Zenon DEF SeenNamed, Names, WorkerExits, Goto, WorkerType, Judging, Serving
  <2>b. ASSUME NEW pc, Goto(l, pc), UNCHANGED <<seen, kpc>>,
               pc \in Judging \cup Serving => wpc[l] \in Judging \cup Serving
        PROVE  SeenNamed'
    BY <2>b, Zenon DEF SeenNamed, Names, Goto, WorkerType
  <2>1. CASE Acquire(l)
    BY <2>1, <2>b, Zenon DEF Acquire, Judging, Serving, keeper
  <2>2. CASE Find(l)
    BY <2>2, SMTT(30)
       DEF SeenNamed, Find, Goto, read_record, WorkerType, keeper, RegNamed,
           Names, Found, Absent, Judging, Serving
  <2>3. CASE Probe(l)
    <3>1. CASE WorkerExits(l)
      BY <2>3, <3>1, <2>a, Zenon DEF Probe, keeper
    <3>2. CASE ~WorkerExits(l)
      BY <2>3, <3>2, <2>b, Zenon DEF Probe, Attached, Judging, Serving, keeper
    <3> QED
      BY <3>1, <3>2, Zenon
  <2>4. CASE Forget(l)
    BY <2>4, <2>b, Zenon DEF Forget, Judging, Serving, keeper
  <2>5. CASE Allocate(l)
    <3>1. CASE WorkerExits(l)
      BY <2>5, <3>1, <2>a, Zenon DEF Allocate, keeper
    <3>2. CASE UNCHANGED <<wpc, seen>>
      BY <2>5, <3>2, Zenon DEF SeenNamed, Names, Allocate, keeper
    <3>3. CASE Goto(l, "spawn") /\ UNCHANGED seen
      BY <2>5, <3>3, <2>b, Zenon DEF Allocate, Judging, Serving, keeper
    <3> QED
      BY <2>5, <3>1, <3>2, <3>3, Zenon DEF Allocate
  <2>6. CASE SpawnKeeper(l)
    <3>1. CASE WorkerExits(l) /\ UNCHANGED kpc
      BY <3>1, <2>a, Zenon
    <3>2. CASE ~(WorkerExits(l) /\ UNCHANGED kpc)
      BY <2>6, <3>2, SMTT(30)
         DEF SeenNamed, SpawnKeeper, Goto, WorkerType, KeeperType, Names, Judging, Serving
    <3> QED
      BY <3>1, <3>2, Zenon
  <2>7. CASE Handoff(l)
    BY <2>7, <2>b, Zenon DEF Handoff, Judging, Serving, keeper
  <2>8. CASE WaitForRecord(l)
    <3>1. CASE WorkerExits(l)
      BY <2>8, <3>1, <2>a, Zenon DEF WaitForRecord, keeper
    <3>2. CASE ~WorkerExits(l)
      BY <2>8, <3>2, SMTT(30)
         DEF SeenNamed, WaitForRecord, Goto, read_record, WorkerType, keeper, ControlInv, RegNamed,
             Names, Found, Absent, Judging, Serving
    <3> QED
      BY <3>1, <3>2, Zenon
  <2>9. CASE Check(l)
    <3>1. CASE WorkerExits(l)
      BY <2>9, <3>1, <2>a, Zenon DEF Check, keeper
    <3>2. CASE ~WorkerExits(l)
      BY <2>9, <3>2, <2>b, Zenon DEF Check, Attached, Judging, Serving, keeper
    <3> QED
      BY <3>1, <3>2, Zenon
  <2>10. CASE Bind(l)
    <3>1. CASE WorkerExits(l)
      BY <2>10, <3>1, <2>a, Zenon DEF Bind, keeper
    <3>2. CASE ~WorkerExits(l)
      BY <2>10, <3>2, <2>b, Zenon DEF Bind, Judging, Serving, keeper
    <3> QED
      BY <3>1, <3>2, Zenon
  <2>11. CASE SetLockedRead(l)
    <3>1. CASE WorkerExits(l)
      BY <2>11, <3>1, <2>a, Zenon DEF SetLockedRead, keeper
    <3>2. CASE ~WorkerExits(l)
      BY <2>11, <3>2, <2>b, Zenon DEF SetLockedRead, Judging, Serving, keeper
    <3> QED
      BY <3>1, <3>2, Zenon
  <2>12. CASE SetLockedTruncate(l)
    BY <2>12, <2>b, Zenon DEF SetLockedTruncate, Judging, Serving, keeper
  <2>13. CASE SetLockedWrite(l)
    <3>1. CASE WorkerExits(l)
      BY <2>13, <3>1, <2>a, Zenon DEF SetLockedWrite, keeper
    <3>2. CASE ~WorkerExits(l)
      BY <2>13, <3>2, <2>b, Zenon DEF SetLockedWrite, Judging, Serving, keeper
    <3> QED
      BY <3>1, <3>2, Zenon
  <2>14. CASE Connect(l)
    BY <2>14, <2>b, Zenon DEF Connect, Judging, Serving, keeper
  <2>15. CASE Disconnect(l)
    BY <2>15, <2>b, Zenon DEF Disconnect, Judging, Serving, keeper
  <2>16. CASE WorkerKilled(l)
    BY <2>16, <2>a, Zenon DEF WorkerKilled, keeper
  <2> QED
    BY <1>1, <2>1, <2>2, <2>3, <2>4, <2>5, <2>6, <2>7, <2>8, <2>9, <2>10,
       <2>11, <2>12, <2>13, <2>14, <2>15, <2>16, Zenon DEF WorkerSide, WorkerStep
<1>2. ASSUME NEW l \in Logins, KeeperSide(l) PROVE SeenNamed'
  BY <1>2, KeeperOnly, KeeperGoesOn, SMTT(30) DEF SeenNamed, Names, worker
<1>3. CASE SupervisorStep \/ Restart
  BY <1>3, SupervisorFrame, Zenon DEF SeenNamed, worker, claims, keeper, Names
<1>4. CASE UNCHANGED vars
  BY <1>4, Zenon DEF SeenNamed, vars, worker, keeper, Names
<1> QED
  BY <1>1, <1>2, <1>3, <1>4, Sides, Zenon

(* The record set_locked writes back names a session.                         *)
LEMMA TmpNamedStep == IInv /\ [Next]_vars => TmpNamed'
<1> SUFFICES ASSUME WorkerType, ClaimsType, KeeperType, ControlInv, RegNamed,
   SeenNamed, TmpNamed PROVE [Next]_vars => TmpNamed'
  BY Zenon DEF IInv, TypeOK, RecordsInv
<1>1. ASSUME NEW l \in Logins, WorkerSide(l) PROVE TmpNamed'
  <2> DEFINE Writing == {"unlock1", "unlock2", "lock1", "lock2"}
  <2>a. ASSUME WorkerExits(l), UNCHANGED kpc
        PROVE  TmpNamed'
    BY <2>a, Zenon DEF TmpNamed, Names, WorkerExits, Goto, WorkerType
  <2>b. ASSUME NEW pc, Goto(l, pc), UNCHANGED <<tmp, kpc>>, pc \in Writing => wpc[l] \in Writing
        PROVE  TmpNamed'
    BY <2>b, Zenon DEF TmpNamed, Names, Goto, WorkerType
  <2>1. CASE Acquire(l)
    BY <2>1, <2>b, Zenon DEF Acquire, keeper
  <2>2. CASE Find(l)
    BY <2>2, <2>b, Zenon DEF Find, keeper
  <2>3. CASE Probe(l)
    <3>1. CASE WorkerExits(l)
      BY <2>3, <3>1, <2>a, Zenon DEF Probe, keeper
    <3>2. CASE ~WorkerExits(l)
      BY <2>3, <3>2, <2>b, Zenon DEF Probe, Attached, keeper
    <3> QED
      BY <3>1, <3>2, Zenon
  <2>4. CASE Forget(l)
    BY <2>4, <2>b, Zenon DEF Forget, keeper
  <2>5. CASE Allocate(l)
    <3>1. CASE WorkerExits(l)
      BY <2>5, <3>1, <2>a, Zenon DEF Allocate, keeper
    <3>2. CASE UNCHANGED <<wpc, tmp>>
      BY <2>5, <3>2, Zenon DEF TmpNamed, Names, Allocate, keeper
    <3>3. CASE Goto(l, "spawn") /\ UNCHANGED tmp
      BY <2>5, <3>3, <2>b, Zenon DEF Allocate, keeper
    <3> QED
      BY <2>5, <3>1, <3>2, <3>3, Zenon DEF Allocate
  <2>6. CASE SpawnKeeper(l)
    <3>1. CASE WorkerExits(l) /\ UNCHANGED kpc
      BY <3>1, <2>a, Zenon
    <3>2. CASE ~(WorkerExits(l) /\ UNCHANGED kpc)
      BY <2>6, <3>2 DEF TmpNamed, SpawnKeeper, Goto, WorkerType, KeeperType, Names
    <3> QED
      BY <3>1, <3>2, Zenon
  <2>7. CASE Handoff(l)
    BY <2>7, <2>b, Zenon DEF Handoff, keeper
  <2>8. CASE WaitForRecord(l)
    <3>1. CASE WorkerExits(l)
      BY <2>8, <3>1, <2>a, Zenon DEF WaitForRecord, keeper
    <3>2. CASE ~WorkerExits(l)
      BY <2>8, <3>2, <2>b, Zenon DEF WaitForRecord, keeper
    <3> QED
      BY <3>1, <3>2, Zenon
  <2>9. CASE Check(l)
    <3>1. CASE WorkerExits(l)
      BY <2>9, <3>1, <2>a, Zenon DEF Check, keeper
    <3>2. CASE ~WorkerExits(l)
      BY <2>9, <3>2, <2>b, Zenon DEF Check, Attached, keeper
    <3> QED
      BY <3>1, <3>2, Zenon
  <2>10. CASE Bind(l)
    <3>1. CASE WorkerExits(l)
      BY <2>10, <3>1, <2>a, Zenon DEF Bind, keeper
    <3>2. CASE ~WorkerExits(l)
      BY <2>10, <3>2, <2>b, Zenon DEF Bind, keeper
    <3> QED
      BY <3>1, <3>2, Zenon
  <2>11. CASE SetLockedRead(l)
    <3> DEFINE r == read_record(disp[seen[l].sid])
    <3>1. disp[seen[l].sid] \in Displays
      BY <2>11, Zenon DEF SetLockedRead, SeenNamed, Serving, Names, ControlInv
    <3>2. Found(r) => r.sid \in Logins /\ kpc[r.sid] # "none"
      BY <3>1, ZenonT(30) DEF RegNamed, Names, read_record, Found, Absent
    <3>3. (Found(r) /\ tmp'[l].sid = r.sid) \/ wpc'[l] = "gone"
      BY <2>11, SMTT(30) DEF SetLockedRead, WorkerExits, Goto, WorkerType, Record
    <3> HIDE DEF r
    <3>4. \A m \in Logins \ {l} : wpc'[m] = wpc[m] /\ tmp'[m] = tmp[m]
      BY <2>11, Zenon DEF SetLockedRead, WorkerExits, Goto, WorkerType
    <3>5. kpc' = kpc
      BY <2>11, Zenon DEF SetLockedRead, keeper
    <3>6. ASSUME NEW m \in Logins, wpc'[m] \in {"unlock1", "unlock2", "lock1", "lock2"}
          PROVE  tmp'[m].sid \in Logins /\ kpc[tmp'[m].sid] # "none"
      <4>1. CASE m = l
        BY <3>2, <3>3, <3>6, <4>1, Zenon
      <4>2. CASE m # l
        BY <3>4, <3>6, <4>2, Zenon DEF TmpNamed, Names
      <4> QED
        BY <4>1, <4>2, Zenon
    <3> QED
      BY <3>5, <3>6, Zenon DEF TmpNamed, Names
  <2>12. CASE SetLockedTruncate(l)
    BY <2>12, <2>b, Zenon DEF SetLockedTruncate, keeper
  <2>13. CASE SetLockedWrite(l)
    <3>1. CASE WorkerExits(l)
      BY <2>13, <3>1, <2>a, Zenon DEF SetLockedWrite, keeper
    <3>2. CASE ~WorkerExits(l)
      BY <2>13, <3>2, <2>b, Zenon DEF SetLockedWrite, keeper
    <3> QED
      BY <3>1, <3>2, Zenon
  <2>14. CASE Connect(l)
    BY <2>14, <2>b, Zenon DEF Connect, keeper
  <2>15. CASE Disconnect(l)
    BY <2>15, <2>b, Zenon DEF Disconnect, keeper
  <2>16. CASE WorkerKilled(l)
    BY <2>16, <2>a, Zenon DEF WorkerKilled, keeper
  <2> QED
    BY <1>1, <2>1, <2>2, <2>3, <2>4, <2>5, <2>6, <2>7, <2>8, <2>9, <2>10,
       <2>11, <2>12, <2>13, <2>14, <2>15, <2>16, Zenon DEF WorkerSide, WorkerStep
<1>2. ASSUME NEW l \in Logins, KeeperSide(l) PROVE TmpNamed'
  BY <1>2, KeeperOnly, KeeperGoesOn, Zenon DEF TmpNamed, Names, worker
<1>3. CASE SupervisorStep \/ Restart
  BY <1>3, SupervisorFrame, Zenon DEF TmpNamed, worker, claims, keeper, Names
<1>4. CASE UNCHANGED vars
  BY <1>4, Zenon DEF TmpNamed, vars, worker, keeper, Names
<1> QED
  BY <1>1, <1>2, <1>3, <1>4, Sides, Zenon

(* The record lock_all writes back is locked and in its place.                *)
LEMMA ScanNamedStep == IInv /\ [Next]_vars => ScanNamed'
<1> SUFFICES ASSUME WorkerType, ClaimsType, KeeperType, SupervisorType,
   ControlInv, RegNamed, ScanNamed PROVE [Next]_vars => ScanNamed'
  BY Zenon DEF IInv, TypeOK, RecordsInv
<1>1. ASSUME NEW l \in Logins, WorkerSide(l) PROVE ScanNamed'
  BY <1>1, WorkerOnly, SessionsStay, Zenon DEF ScanNamed, Names, supervisor
<1>2. ASSUME NEW l \in Logins, KeeperSide(l) PROVE ScanNamed'
  BY <1>2, KeeperOnly, SessionsStay, Zenon DEF ScanNamed, Names, supervisor
<1>3. CASE SupervisorStep
  <2>1. CASE LockAllRead
    BY <2>1
       DEF ScanNamed, LockAllRead, LockAllNext, read_record, claims, keeper,
           SupervisorType, RegNamed, Names, Absent, Record
  <2>2. CASE LockAllTruncate
    BY <2>2, Zenon DEF ScanNamed, LockAllTruncate, claims, keeper, Names
  <2>3. CASE LockAllWrite
    BY <2>3, Zenon DEF ScanNamed, LockAllWrite, LockAllNext
  <2> QED
    BY <1>3, <2>1, <2>2, <2>3, Zenon DEF SupervisorStep
<1>4. CASE Restart
  BY <1>4, Zenon DEF ScanNamed, Restart
<1>5. CASE UNCHANGED vars
  BY <1>5, Zenon DEF ScanNamed, vars, claims, keeper, supervisor, Names
<1> QED
  BY <1>1, <1>2, <1>3, <1>4, <1>5, Sides, Zenon

(* The scan of lock_all leaves only freshly unlocked records behind.          *)
LEMMA ScanStep == IInv /\ [Next]_vars => ScanInv'
<1> SUFFICES ASSUME WorkerType, RegistryType, SupervisorType, RecordsInv,
   ScanInv PROVE [Next]_vars => ScanInv'
  BY Zenon DEF IInv, TypeOK, RecordsInv
<1>1. ASSUME NEW l \in Logins, WorkerSide(l) PROVE ScanInv'
  <2>1. CASE SetLockedWrite(l)
    BY <2>1, ScanWrite, Zenon DEF SetLockedWrite, WorkerType, supervisor
  <2>2. CASE ~SetLockedWrite(l)
    BY <1>1, <2>2, WorkerOnly, WorkerKeeps, Zenon DEF ScanInv, Keeps, supervisor
  <2> QED
    BY <2>1, <2>2, Zenon
<1>2. ASSUME NEW l \in Logins, KeeperSide(l) PROVE ScanInv'
  <2>1. CASE PublishWrite(l)
    BY <2>1, ScanWrite, Zenon DEF PublishWrite, Record, RecordType, supervisor
  <2>2. CASE ~PublishWrite(l)
    BY <1>2, <2>2, KeeperOnly, KeeperKeeps, Zenon DEF ScanInv, Keeps, supervisor
  <2> QED
    BY <2>1, <2>2, Zenon
<1>3. CASE SupervisorStep
  <2>1. CASE LockAllRead
    BY <2>1, SMTT(30)
       DEF ScanInv, LockAllRead, LockAllNext, SupervisorType, Displays, Found,
           Record, read_record, registry
  <2>2. CASE LockAllTruncate
    BY <2>2, Zenon DEF ScanInv, LockAllTruncate, Truncate, RegistryType, Torn
  <2>3. CASE LockAllWrite
    <3>1. spc = "lock2" /\ scur \in Displays /\ stmp.locked
      BY <2>3, Zenon DEF RecordsInv, ScanNamed, LockAllWrite, SupervisorType
    <3>2. ASSUME NEW d \in Displays, Found(reg'[d]), ~reg'[d].locked, d < scur \/ d = scur PROVE fresh'[d]
      <4>1. CASE Supervisor \in open[scur]
        BY <2>3, <3>1, <3>2, <4>1, Zenon
           DEF LockAllWrite, ScanInv, WriteBody, RegistryType, Displays
      <4>2. CASE Supervisor \notin open[scur]
        BY <2>3, <3>1, <3>2, <4>2, Zenon
           DEF LockAllWrite, ScanInv, WriteBody, RegistryType, Displays
      <4> QED
        BY <4>1, <4>2, Zenon
    <3>3. \A d \in Displays :
            spc' = "up" \/ d < scur' \/ (d = scur' /\ spc' = "lock2") => d < scur \/ d = scur
      BY <2>3, RangeAssumption DEF LockAllWrite, LockAllNext, SupervisorType, Displays
    <3> QED
      BY <3>2, <3>3, ZenonT(30) DEF ScanInv, Found
  <2> QED
    BY <1>3, <2>1, <2>2, <2>3, Zenon DEF SupervisorStep
<1>4. CASE Restart
  BY <1>4, RangeAssumption DEF ScanInv, Restart, Displays
<1>5. CASE UNCHANGED vars
  BY <1>5, Zenon DEF ScanInv, vars, registry, supervisor
<1> QED
  BY <1>1, <1>2, <1>3, <1>4, <1>5, Sides, Zenon

-----------------------------------------------------------------------------
(* The inductive invariant and the theorems.                                  *)

(* A handshake that succeeds (desktop_is_live) was with a desktop of the      *)
(* record's account, because the cookie file is the account's.                *)
LEMMA AttachedOwn ==
  ASSUME WorkerType, ControlInv, CookieInv, NEW l \in Logins, Names(seen[l]),
         UserOf[seen[l].sid] = UserOf[l], desktop_is_live(seen[l]), Attached(l)
  PROVE  ses'[l] \in Logins /\ UserOf[ses'[l]] = UserOf[l]
<1> DEFINE x == CHOOSE x \in Authenticates(seen[l]) : TRUE
<1>1. x \in Authenticates(seen[l])
  BY Zenon DEF desktop_is_live
<1>2. x \in Logins /\ cookie[<<UserOf[seen[l].sid], disp[seen[l].sid]>>] = x
  BY <1>1, Zenon DEF Authenticates, Answering
<1>3. ses'[l] = x
  BY DEF Attached, WorkerType
<1> HIDE DEF x
<1>4. UserOf[seen[l].sid] \in Users /\ disp[seen[l].sid] \in Displays
  BY LoginsAssumption, ZenonT(30) DEF Names, ControlInv
<1>5. UserOf[x] = UserOf[seen[l].sid]
  BY <1>2, <1>4, Zenon DEF CookieInv
<1> QED
  BY <1>2, <1>3, <1>5, Zenon

(* Nobody gets a number somebody has (allocate_with).                         *)
LEMMA DisplayStep == IInv /\ [Next]_vars => DisplayExclusive'
<1> SUFFICES ASSUME WorkerType, ClaimsType, KeeperType, ClaimsTrackWork,
   DisplayExclusive PROVE [Next]_vars => DisplayExclusive'
  BY Zenon DEF IInv, TypeOK, RecordsInv
<1>1. ASSUME NEW l \in Logins, WorkerSide(l) PROVE DisplayExclusive'
  <2>1. CASE Acquire(l)
    BY <2>1, Zenon DEF DisplayExclusive, Acquire
  <2>2. CASE Allocate(l)
    <3>1. CASE WorkerExits(l)
      BY <3>1, Zenon DEF DisplayExclusive, WorkerExits, WorkerCloses, ClaimsType
    <3>2. CASE UNCHANGED claims
      BY <3>2, Zenon DEF DisplayExclusive, claims
    <3>3. CASE /\ DisplayFree(cur[l])
               /\ disp' = [disp EXCEPT ![l] = cur[l]]
               /\ dfd' = [dfd EXCEPT ![l] = {"worker"}]
      BY <3>3, Zenon DEF DisplayExclusive, ClaimsType, DisplayFree
    <3> QED
      BY <2>2, <3>1, <3>2, <3>3, Zenon DEF Allocate
  <2>3. CASE SpawnKeeper(l)
    <3>1. CASE WorkerExits(l)
      BY <2>3, <3>1, ZenonT(30) DEF DisplayExclusive, SpawnKeeper, WorkerExits, WorkerCloses, ClaimsType
    <3>2. CASE ~WorkerExits(l)
      BY <2>3, <3>2, Zenon DEF DisplayExclusive, SpawnKeeper, ClaimsType, ClaimsTrackWork
    <3> QED
      BY <3>1, <3>2, Zenon
  <2>4. CASE ~Acquire(l) /\ ~Allocate(l) /\ ~SpawnKeeper(l)
    BY <1>1, <2>4, WorkerReleases, Zenon DEF DisplayExclusive, Shrinks
  <2> QED
    BY <2>1, <2>2, <2>3, <2>4, Zenon
<1>2. ASSUME NEW l \in Logins, KeeperSide(l) PROVE DisplayExclusive'
  BY <1>2, KeeperReleases, Zenon DEF DisplayExclusive, Shrinks
<1>3. CASE SupervisorStep \/ Restart
  BY <1>3, SupervisorFrame, Zenon DEF DisplayExclusive, claims
<1>4. CASE UNCHANGED vars
  BY <1>4, Zenon DEF DisplayExclusive, vars, claims
<1> QED
  BY <1>1, <1>2, <1>3, <1>4, Sides, Zenon

(* Nobody gets an account lock somebody has (AccountLock::acquire).           *)
LEMMA AccountStep == IInv /\ [Next]_vars => AccountExclusive'
<1> SUFFICES ASSUME WorkerType, ClaimsType, KeeperType, ClaimsTrackWork,
   AccountExclusive PROVE [Next]_vars => AccountExclusive'
  BY Zenon DEF IInv, TypeOK, RecordsInv
<1>1. ASSUME NEW l \in Logins, WorkerSide(l) PROVE AccountExclusive'
  <2>1. CASE Acquire(l)
    BY <2>1, Zenon DEF AccountExclusive, Acquire, AccountFree, ClaimsType
  <2>2. CASE Allocate(l)
    BY <2>2, SMTT(30)
       DEF AccountExclusive, Allocate, WorkerExits, WorkerCloses, ClaimsType,
           claims
  <2>3. CASE SpawnKeeper(l)
    BY <2>3, Zenon
       DEF AccountExclusive, SpawnKeeper, WorkerExits, WorkerCloses,
           ClaimsType, ClaimsTrackWork, Creating
  <2>4. CASE ~Acquire(l) /\ ~Allocate(l) /\ ~SpawnKeeper(l)
    BY <1>1, <2>4, WorkerReleases, Zenon DEF AccountExclusive, Shrinks
  <2> QED
    BY <2>1, <2>2, <2>3, <2>4, Zenon
<1>2. ASSUME NEW l \in Logins, KeeperSide(l) PROVE AccountExclusive'
  BY <1>2, KeeperReleases, Zenon DEF AccountExclusive, Shrinks
<1>3. CASE SupervisorStep \/ Restart
  BY <1>3, SupervisorFrame, Zenon DEF AccountExclusive, claims
<1>4. CASE UNCHANGED vars
  BY <1>4, Zenon DEF AccountExclusive, vars, claims
<1> QED
  BY <1>1, <1>2, <1>3, <1>4, Sides, Zenon

(* Claims are taken and dropped together with the work they protect.          *)
LEMMA TrackStep == IInv /\ [Next]_vars => ClaimsTrackWork'
<1> SUFFICES ASSUME WorkerType, ClaimsType, KeeperType, ControlInv,
   ClaimsTrackWork PROVE [Next]_vars => ClaimsTrackWork'
  BY Zenon DEF IInv, TypeOK, RecordsInv
<1>1. ASSUME NEW l \in Logins, WorkerSide(l) PROVE ClaimsTrackWork'
  <2>a. ASSUME NEW pc, Goto(l, pc), WorkerCloses(l), UNCHANGED kpc, pc \notin Creating
        PROVE  ClaimsTrackWork'
    BY <2>a, Zenon DEF ClaimsTrackWork, Goto, WorkerCloses, WorkerType, ClaimsType, Creating
  <2>b. ASSUME NEW pc, Goto(l, pc), UNCHANGED <<claims, kpc>>,
               pc \in Creating <=> wpc[l] \in Creating,
               pc \in {"spawn", "handoff"} <=> wpc[l] \in {"spawn", "handoff"}
        PROVE  ClaimsTrackWork'
    BY <2>b, Zenon DEF ClaimsTrackWork, Goto, WorkerType, claims
  <2>e. ASSUME WorkerExits(l), UNCHANGED kpc
        PROVE  ClaimsTrackWork'
    <3>1. Goto(l, "gone") /\ WorkerCloses(l)
      BY <2>e, Zenon DEF WorkerExits
    <3> QED
      BY <2>e, <3>1, <2>a, Zenon DEF Creating
  <2>1. CASE Acquire(l)
    BY <2>1, Zenon
       DEF ClaimsTrackWork, Acquire, Goto, WorkerType, ClaimsType, keeper,
           ControlInv, Early, Creating, Starting
  <2>2. CASE Find(l)
    BY <2>2, <2>b DEF Find, Creating, keeper
  <2>3. CASE Probe(l)
    <3>1. wpc[l] = "probe" /\ kpc' = kpc
      BY <2>3, Zenon DEF Probe, keeper
    <3>2. CASE Goto(l, "forget") /\ UNCHANGED claims
      BY <3>1, <3>2, <2>b, Zenon DEF Creating
    <3>3. CASE WorkerCloses(l) /\ (Goto(l, "bind") \/ Goto(l, "gone"))
      BY <3>1, <3>3, <2>a, Zenon DEF Creating
    <3> QED
      BY <2>3, <3>2, <3>3, ProbeEffect, Zenon
  <2>4. CASE Forget(l)
    BY <2>4, <2>b, Zenon DEF Forget, Creating, keeper
  <2>5. CASE Allocate(l)
    <3>1. CASE Goto(l, "spawn") /\ dfd' = [dfd EXCEPT ![l] = {"worker"}] /\ UNCHANGED afd
      BY <2>5, <3>1, ZenonT(30)
         DEF ClaimsTrackWork, Allocate, Goto, WorkerType, ClaimsType, keeper, ControlInv, Early,
             Creating, Running, Starting
    <3>2. CASE UNCHANGED <<wpc, claims>>
      BY <2>5, <3>2, Zenon DEF ClaimsTrackWork, Allocate, claims, keeper
    <3>3. CASE WorkerExits(l)
      BY <2>5, <3>3, <2>e, Zenon DEF Allocate, keeper
    <3> QED
      BY <2>5, <3>1, <3>2, <3>3, Zenon DEF Allocate
  <2>6. CASE SpawnKeeper(l)
    <3>1. CASE WorkerExits(l) /\ UNCHANGED kpc
      BY <3>1, <2>e, Zenon
    <3>2. CASE ~(WorkerExits(l) /\ UNCHANGED kpc)
      BY <2>6, <3>2, SMTT(30)
         DEF ClaimsTrackWork, SpawnKeeper, Goto, WorkerType, ClaimsType, KeeperType, Creating,
             Running, Starting
    <3> QED
      BY <3>1, <3>2, Zenon
  <2>7. CASE Handoff(l)
    BY <2>7, Zenon
       DEF ClaimsTrackWork, Handoff, Goto, WorkerType, ClaimsType, keeper,
           Creating
  <2>8. CASE WaitForRecord(l)
    <3>1. CASE WorkerExits(l)
      BY <2>8, <3>1, <2>e, Zenon DEF WaitForRecord, keeper
    <3>2. CASE ~WorkerExits(l)
      BY <2>8, <3>2, <2>b, Zenon DEF WaitForRecord, Creating, keeper
    <3> QED
      BY <3>1, <3>2, Zenon
  <2>9. CASE Check(l)
    <3>1. kpc' = kpc /\ WorkerCloses(l) /\ (Goto(l, "bind") \/ Goto(l, "gone"))
      BY <2>9, Zenon DEF Check, Attached, WorkerExits, keeper
    <3> QED
      BY <3>1, <2>a, Zenon DEF Creating
  <2>10. CASE Bind(l)
    <3>1. CASE WorkerExits(l)
      BY <2>10, <3>1, <2>e, Zenon DEF Bind, keeper
    <3>2. CASE ~WorkerExits(l)
      BY <2>10, <3>2, <2>b, Zenon DEF Bind, Creating, keeper
    <3> QED
      BY <3>1, <3>2, Zenon
  <2>11. CASE SetLockedRead(l)
    <3>1. CASE WorkerExits(l)
      BY <2>11, <3>1, <2>e, Zenon DEF SetLockedRead, keeper
    <3>2. CASE ~WorkerExits(l)
      BY <2>11, <3>2, <2>b, Zenon DEF SetLockedRead, Creating, keeper
    <3> QED
      BY <3>1, <3>2, Zenon
  <2>12. CASE SetLockedTruncate(l)
    BY <2>12, <2>b, Zenon DEF SetLockedTruncate, Creating, keeper
  <2>13. CASE SetLockedWrite(l)
    <3>1. CASE WorkerExits(l)
      BY <2>13, <3>1, <2>e, Zenon DEF SetLockedWrite, keeper
    <3>2. CASE ~WorkerExits(l)
      BY <2>13, <3>2, <2>b, Zenon DEF SetLockedWrite, Creating, keeper
    <3> QED
      BY <3>1, <3>2, Zenon
  <2>14. CASE Connect(l)
    BY <2>14, <2>b, Zenon DEF Connect, Creating, keeper
  <2>15. CASE Disconnect(l)
    BY <2>15, <2>b, Zenon DEF Disconnect, Creating, keeper
  <2>16. CASE WorkerKilled(l)
    BY <2>16, <2>e, Zenon DEF WorkerKilled, keeper
  <2> QED
    BY <1>1, <2>1, <2>2, <2>3, <2>4, <2>5, <2>6, <2>7, <2>8, <2>9, <2>10,
       <2>11, <2>12, <2>13, <2>14, <2>15, <2>16, Zenon DEF WorkerSide, WorkerStep
<1>2. ASSUME NEW l \in Logins, KeeperSide(l) PROVE ClaimsTrackWork'
  <2>a. ASSUME KeeperExits(l), UNCHANGED worker
        PROVE  ClaimsTrackWork'
    BY <2>a, Zenon DEF ClaimsTrackWork, KeeperGoto, KeeperExits, ClaimsType, KeeperType, worker, Running,
                Starting
  <2>b. ASSUME NEW pc, KeeperGoto(l, pc), UNCHANGED <<worker, claims>>,
               pc \in Running, kpc[l] \in Running, pc # "serve",
               pc \in Starting => kpc[l] \in Starting
        PROVE  ClaimsTrackWork'
    BY <2>b, Zenon DEF ClaimsTrackWork, KeeperGoto, KeeperType, worker, claims
  <2>1. CASE KeeperStarts(l)
    <3>1. CASE KeeperExits(l)
      BY <2>1, <3>1, <2>a, Zenon DEF KeeperStarts
    <3>2. CASE ~KeeperExits(l)
      BY <2>1, <3>2, <2>b, Zenon DEF KeeperStarts, Running, Starting
    <3> QED
      BY <3>1, <3>2, Zenon
  <2>2. CASE Launch(l)
    <3>1. CASE KeeperExits(l)
      BY <2>2, <3>1, <2>a, Zenon DEF Launch
    <3>2. CASE ~KeeperExits(l)
      BY <2>2, <3>2, <2>b, Zenon DEF Launch, Running, Starting
    <3> QED
      BY <3>1, <3>2, Zenon
  <2>3. CASE Ready(l)
    <3>1. CASE KeeperExits(l)
      BY <2>3, <3>1, <2>a, Zenon DEF Ready
    <3>2. CASE ~KeeperExits(l)
      BY <2>3, <3>2, <2>b, Zenon DEF Ready, Running, Starting
    <3> QED
      BY <3>1, <3>2, Zenon
  <2>4. CASE PublishTruncate(l)
    <3>1. CASE KeeperExits(l)
      BY <2>4, <3>1, <2>a, Zenon DEF PublishTruncate
    <3>2. CASE ~KeeperExits(l)
      BY <2>4, <3>2, <2>b, Zenon DEF PublishTruncate, Running, Starting
    <3> QED
      BY <3>1, <3>2, Zenon
  <2>5. CASE PublishWrite(l)
    <3>1. CASE KeeperExits(l)
      BY <2>5, <3>1, <2>a, Zenon DEF PublishWrite
    <3>2. CASE ~KeeperExits(l)
      <4>1. /\ afd' = [afd EXCEPT ![l] = @ \ {"keeper"}] /\ kpc' = [kpc EXCEPT ![l] = "serve"]
            /\ UNCHANGED <<dfd, wpc>> /\ kpc[l] = "publish1"
        BY <2>5, <3>2, Zenon DEF PublishWrite, KeeperGoto, worker
      <4> QED
        BY <4>1, Zenon DEF ClaimsTrackWork, ClaimsType, KeeperType, Running, Starting
    <3> QED
      BY <3>1, <3>2, Zenon
  <2>6. CASE EndSession(l)
    BY <2>6, <2>b, Zenon DEF EndSession, Running, Starting
  <2>7. CASE ForgetRecord(l)
    BY <2>7, <2>b, Zenon DEF ForgetRecord, Running, Starting
  <2>8. CASE Release(l)
    BY <2>8, <2>a, Zenon DEF Release
  <2>9. CASE SessionEnds(l)
    BY <2>9, <2>b, Zenon DEF SessionEnds, Running, Starting
  <2>10. CASE KeeperKilled(l)
    BY <2>10, <2>a, Zenon DEF KeeperKilled
  <2>11. CASE DesktopUp(l)
    BY <2>11, Zenon DEF ClaimsTrackWork, DesktopUp, worker, claims, keeper
  <2>12. CASE DesktopDies(l)
    BY <2>12, Zenon DEF ClaimsTrackWork, DesktopDies, worker, claims, keeper
  <2> QED
    BY <1>2, <2>1, <2>2, <2>3, <2>4, <2>5, <2>6, <2>7, <2>8, <2>9, <2>10,
       <2>11, <2>12, Zenon DEF KeeperSide, KeeperStep
<1>3. CASE SupervisorStep \/ Restart
  BY <1>3, SupervisorFrame, Zenon DEF ClaimsTrackWork, worker, claims, keeper
<1>4. CASE UNCHANGED vars
  BY <1>4, Zenon DEF ClaimsTrackWork, vars, worker, claims, keeper
<1> QED
  BY <1>1, <1>2, <1>3, <1>4, Sides, Zenon

(* Cookies and handshakes stay within an account.                             *)
LEMMA CookieStep == IInv /\ [Next]_vars => CookieInv'
<1> SUFFICES ASSUME WorkerType, ClaimsType, KeeperType, ControlInv, RegNamed,
   SeenNamed, CookieInv PROVE [Next]_vars => CookieInv'
  BY Zenon DEF IInv, TypeOK, RecordsInv
<1>1. ASSUME NEW l \in Logins, WorkerSide(l) PROVE CookieInv'
  <2>a. ASSUME WorkerExits(l), UNCHANGED cookie
        PROVE  CookieInv'
    BY <2>a, "gone" \notin Serving, Zenon DEF CookieInv, WorkerExits, Goto, WorkerType, Serving
  <2>b. ASSUME NEW pc, Goto(l, pc), UNCHANGED <<ses, cookie>>, pc \in Serving => wpc[l] \in Serving
        PROVE  CookieInv'
    BY <2>b, Zenon DEF CookieInv, Goto, WorkerType
  <2>c. ASSUME Attached(l), UNCHANGED cookie, ses'[l] \in Logins, UserOf[ses'[l]] = UserOf[l]
        PROVE  CookieInv'
    BY <2>c, ZenonT(30) DEF CookieInv, Attached, Goto, WorkerType
  <2>1. CASE Acquire(l)
    BY <2>1, <2>b, Zenon DEF Acquire, Serving, keeper
  <2>2. CASE Find(l)
    BY <2>2, <2>b, Zenon DEF Find, Serving, keeper
  <2>3. CASE Probe(l)
    <3>1. CASE desktop_is_live(seen[l]) /\ Attached(l)
      <4>1. ses'[l] \in Logins /\ UserOf[ses'[l]] = UserOf[l]
        BY <2>3, <3>1, AttachedOwn, Zenon DEF Probe, SeenNamed, Judging
      <4> QED
        BY <2>3, <3>1, <4>1, <2>c, Zenon DEF Probe, keeper
    <3>2. CASE WorkerExits(l)
      BY <2>3, <3>2, <2>a, Zenon DEF Probe, keeper
    <3>3. CASE Goto(l, "forget") /\ UNCHANGED <<cur, seen, tmp, ses, claims>>
      BY <2>3, <3>3, <2>b, Zenon DEF Probe, Serving, keeper
    <3> QED
      BY <2>3, <3>1, <3>2, <3>3, Zenon DEF Probe
  <2>4. CASE Forget(l)
    BY <2>4, <2>b, Zenon DEF Forget, Serving, keeper
  <2>5. CASE Allocate(l)
    <3>1. CASE UNCHANGED <<wpc, ses>>
      BY <2>5, <3>1, Zenon DEF CookieInv, Allocate, keeper
    <3>2. CASE WorkerExits(l)
      BY <2>5, <3>2, <2>a, Zenon DEF Allocate, keeper
    <3>3. CASE ~UNCHANGED <<wpc, ses>> /\ ~WorkerExits(l)
      BY <2>5, <3>3, <2>b, Zenon DEF Allocate, Serving, keeper
    <3> QED
      BY <3>1, <3>2, <3>3, Zenon
  <2>6. CASE SpawnKeeper(l)
    BY <2>6, <2>a, <2>b, Zenon DEF SpawnKeeper, Serving
  <2>7. CASE Handoff(l)
    BY <2>7, <2>b, Zenon DEF Handoff, Serving, keeper
  <2>8. CASE WaitForRecord(l)
    <3>1. CASE WorkerExits(l)
      BY <2>8, <3>1, <2>a, Zenon DEF WaitForRecord, keeper
    <3>2. CASE ~WorkerExits(l)
      BY <2>8, <3>2, <2>b, Zenon DEF WaitForRecord, Serving, keeper
    <3> QED
      BY <3>1, <3>2, Zenon
  <2>9. CASE Check(l)
    <3>1. CASE desktop_is_live(seen[l]) /\ Attached(l)
      <4>0. Names(seen[l]) /\ UserOf[seen[l].sid] = UserOf[l]
        BY <2>9, <3>1, Zenon DEF Check, SeenNamed, Judging
      <4>1. ses'[l] \in Logins /\ UserOf[ses'[l]] = UserOf[l]
        BY <3>1, <4>0, AttachedOwn, Zenon
      <4> QED
        BY <2>9, <3>1, <4>1, <2>c, Zenon DEF Check, keeper
    <3>2. CASE WorkerExits(l)
      BY <2>9, <3>2, <2>a, Zenon DEF Check, keeper
    <3> QED
      BY <2>9, <3>1, <3>2, Zenon DEF Check
  <2>10. CASE Bind(l)
    <3>1. CASE WorkerExits(l)
      BY <2>10, <3>1, <2>a, Zenon DEF Bind, keeper
    <3>2. CASE ~WorkerExits(l)
      BY <2>10, <3>2, <2>b, Zenon DEF Bind, Serving, keeper
    <3> QED
      BY <3>1, <3>2, Zenon
  <2>11. CASE SetLockedRead(l)
    <3>1. CASE WorkerExits(l)
      BY <2>11, <3>1, <2>a, Zenon DEF SetLockedRead, keeper
    <3>2. CASE ~WorkerExits(l)
      BY <2>11, <3>2, <2>b, Zenon DEF SetLockedRead, Serving, keeper
    <3> QED
      BY <3>1, <3>2, Zenon
  <2>12. CASE SetLockedTruncate(l)
    BY <2>12, <2>b, Zenon DEF SetLockedTruncate, Serving, keeper
  <2>13. CASE SetLockedWrite(l)
    <3>1. CASE WorkerExits(l)
      BY <2>13, <3>1, <2>a, Zenon DEF SetLockedWrite, keeper
    <3>2. CASE ~WorkerExits(l)
      BY <2>13, <3>2, <2>b, Zenon DEF SetLockedWrite, Serving, keeper
    <3> QED
      BY <3>1, <3>2, Zenon
  <2>14. CASE Connect(l)
    BY <2>14, <2>b, Zenon DEF Connect, Serving, keeper
  <2>15. CASE Disconnect(l)
    BY <2>15, <2>b, Zenon DEF Disconnect, Serving, keeper
  <2>16. CASE WorkerKilled(l)
    BY <2>16, <2>a, Zenon DEF WorkerKilled, keeper
  <2> QED
    BY <1>1, <2>1, <2>2, <2>3, <2>4, <2>5, <2>6, <2>7, <2>8, <2>9, <2>10,
       <2>11, <2>12, <2>13, <2>14, <2>15, <2>16, Zenon DEF WorkerSide, WorkerStep
<1>2. ASSUME NEW l \in Logins, KeeperSide(l) PROVE CookieInv'
  <2>1. CASE KeeperStarts(l)
    <3>1. disp[l] \in Displays /\ UserOf[l] \in Users
      BY <2>1, LoginsAssumption, Zenon DEF KeeperStarts, ControlInv
    <3>2. ASSUME NEW u \in Users, NEW d \in Displays, cookie'[<<u, d>>] \in Logins
          PROVE  UserOf[cookie'[<<u, d>>]] = u
      <4>1. CASE cookie' = cookie
        BY <3>2, <4>1, Zenon DEF CookieInv
      <4>2. CASE cookie' = [cookie EXCEPT ![<<UserOf[l], disp[l]>>] = l]
        BY <3>1, <3>2, <4>2, Zenon DEF CookieInv, KeeperType
      <4> QED
        BY <2>1, <4>1, <4>2, Zenon DEF KeeperStarts
    <3>3. UNCHANGED <<wpc, ses>>
      BY <2>1, Zenon DEF KeeperStarts, worker
    <3> QED
      BY <3>2, <3>3, Zenon DEF CookieInv
  <2>2. CASE ~KeeperStarts(l)
    BY <1>2, <2>2, KeeperOnly, CookieKept, Zenon DEF CookieInv, worker
  <2> QED
    BY <2>1, <2>2, Zenon
<1>3. CASE SupervisorStep \/ Restart
  BY <1>3, SupervisorFrame, ZenonT(30) DEF CookieInv, worker, keeper
<1>4. CASE UNCHANGED vars
  BY <1>4, Zenon DEF CookieInv, vars, worker, keeper
<1> QED
  BY <1>1, <1>2, <1>3, <1>4, Sides, Zenon

-----------------------------------------------------------------------------
(* The theorems.                                                              *)

(* Before the first connection nothing is claimed, recorded or running.       *)
LEMMA InitInv == Init => IInv
<1> SUFFICES ASSUME Init PROVE IInv
  BY Zenon
<1>1. TypeOK
  BY LoginsAssumption, RangeAssumption, BoundsAssumption, SMTT(30)
     DEF Init, TypeOK, WorkerType, ClaimsType, KeeperType, RegistryType, SupervisorType, WorkerPcs,
         RecordType, Absent, Displays
<1>2. ControlInv /\ RecordsInv
  BY Zenon DEF Init, ControlInv, RecordsInv, RegNamed, SeenNamed, TmpNamed, ScanNamed, Judging, Serving,
         Found, Absent
<1>3. DisplayExclusive /\ AccountExclusive /\ ClaimsTrackWork
  BY Zenon DEF Init, DisplayExclusive, AccountExclusive, ClaimsTrackWork, Running, Starting, Creating
<1>4. CookieInv /\ ScanInv
  BY LoginsAssumption, Zenon DEF Init, CookieInv, ScanInv, Serving, Found, Absent
<1> QED
  BY <1>1, <1>2, <1>3, <1>4, Zenon DEF IInv

(* Every reachable state satisfies the inductive invariant.                   *)
THEOREM Invariance == Spec => []IInv
<1>1. IInv /\ [Next]_vars => IInv'
  BY TypeStep, ControlStep, RegNamedStep, SeenNamedStep, TmpNamedStep, ScanNamedStep, DisplayStep,
     AccountStep, TrackStep, CookieStep, ScanStep, Zenon DEF IInv, RecordsInv
<1> QED
  BY InitInv, <1>1, PTL DEF Spec

(* Scans, files and processes stay within their domains.                      *)
THEOREM TypeCorrect == Spec => []TypeOK
BY Invariance, PTL DEF IInv

(* At most one owner per display number, through every handoff, kill and      *)
(* restart (display_alloc.rs).                                                *)
THEOREM DisplayExclusion == Spec => []DisplayExclusive
BY Invariance, PTL DEF IInv

(* No claim outlives the work it protects and no work outlives its claim.     *)
THEOREM ClaimsAccounted == Spec => []ClaimsTrackWork
BY Invariance, PTL DEF IInv

(* While a session of an account starts, no other login of that account is    *)
(* past the account lock (mod.rs, AccountLock).                               *)
THEOREM SingleStart == Spec => []OneStartPerAccount
<1>1. IInv => OneStartPerAccount
  BY Zenon DEF IInv, OneStartPerAccount, AccountExclusive, ClaimsTrackWork
<1> QED
  BY <1>1, Invariance, PTL

(* No worker is ever bound to another account's desktop.                      *)
THEOREM OwnDesktop == Spec => []OwnDesktopOnly
<1>1. IInv => OwnDesktopOnly
  BY Zenon DEF IInv, OwnDesktopOnly, CookieInv, Serving
<1> QED
  BY <1>1, Invariance, PTL

(* A supervisor that listens has left no record unlocked from before it       *)
(* started (registry.rs, lock_all).                                           *)
THEOREM RestartLocked == Spec => []RestartLocks
<1>1. IInv => RestartLocks
  BY Zenon DEF IInv, RestartLocks, ScanInv
<1> QED
  BY <1>1, Invariance, PTL
=============================================================================
