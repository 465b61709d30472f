------------------------------ MODULE Sessions ------------------------------
(* The life of per-account desktops: linrdp/src/session/{mod, registry,       *)
(* display_alloc, keeper_main, keeper, router}.rs, backends/{x11,             *)
(* gnome_headless}.rs and the supervisor's lock_all.                          *)
(*                                                                            *)
(* A login l is one authenticated connection, served by a worker process.     *)
(* The worker creates at most one session, so the session it creates, the     *)
(* keeper process of that session, its desktop (the X server of an x11        *)
(* session, the bus and shell of a gnome one) and its cookie are named l too. *)
(* Processes share three things: the flocks (a claim belongs to an open file  *)
(* description and lives while any process has a copy of the descriptor), the *)
(* files of the state directory, and the X servers.  One step of the model is *)
(* one operation on one of them.                                              *)
EXTENDS Integers

CONSTANTS
    Logins,        \* the connections that authenticate
    Users,         \* the accounts
    UserOf,        \* the account each login authenticated as
    BackendOf,     \* the kind of desktop backends::choose gave each login
    First, Last,   \* session.display_range
    NoLogin,       \* "no session"
    MaxFaults,     \* bound: processes killed, or publications failed
    MaxRestarts    \* bound: supervisor restarts

ASSUME LoginsAssumption ==
    /\ NoLogin \notin Logins
    /\ UserOf \in [Logins -> Users]
    /\ BackendOf \in [Logins -> {"x11", "gnome"}]

ASSUME RangeAssumption ==
    First \in Nat /\ Last \in Nat /\ 1 <= First /\ First <= Last

ASSUME BoundsAssumption == MaxFaults \in Nat /\ MaxRestarts \in Nat

Displays == First .. Last

VARIABLES
    wpc,       \* where each worker is
    cur,       \* the display number a worker's scan has reached
    seen,      \* the record the worker attached to, or waited for
    tmp,       \* the record a worker read in set_locked and will write back
    ses,       \* the session whose X server accepted the record's cookie
    disp,      \* the display number allocated for the login's session
    afd,       \* the processes with a copy of the login's account descriptor
    dfd,       \* the processes with a copy of its display descriptor
    kpc,       \* where each keeper is
    desk,      \* the state of each session's desktop
    cookie,    \* the session whose cookie is in the file of (account, display)
    reg,       \* the session record of each display number
    open,      \* the writers whose descriptor is on that record's file
    spc,       \* where the supervisor is
    scur,      \* the number lock_all has reached
    stmp,      \* the record lock_all read and will write back
    fresh,     \* history: a record unlocked since the last restart began
    faults, restarts

worker == <<wpc, cur, seen, tmp, ses>>
claims == <<disp, afd, dfd>>
keeper == <<kpc, cookie>>
supervisor == <<spc, scur, stmp, restarts>>
registry == <<reg, open, fresh>>
vars == <<worker, claims, keeper, desk, registry, supervisor, faults>>

-----------------------------------------------------------------------------
(* The registry: one file per display number.  fs::write truncates and then   *)
(* writes, so a reader can meet an empty file ("torn"), which read_record     *)
(* reports as no record.  A record is that of the session sid names.          *)

Record(l, locked) == [st |-> "ok", sid |-> l, locked |-> locked]
Absent == [st |-> "none", sid |-> NoLogin, locked |-> TRUE]
Torn == [st |-> "torn", sid |-> NoLogin, locked |-> TRUE]

read_record(d) == IF reg[d].st = "ok" THEN reg[d] ELSE Absent

Found(r) == r.st = "ok"

(* The processes that write records.                                          *)
Worker(l) == <<"worker", l>>
Keeper(l) == <<"keeper", l>>
Supervisor == <<"supervisor", NoLogin>>
Writers == {Worker(l) : l \in Logins} \cup {Keeper(l) : l \in Logins} \cup {Supervisor}

(* write_record, first step: fs::write opens the file, truncating it.         *)
Truncate(w, d) ==
    /\ reg' = [reg EXCEPT ![d] = Torn]
    /\ open' = [open EXCEPT ![d] = @ \cup {w}]
    /\ UNCHANGED fresh

(* write_record, second step: the body, then the chmod.  A file unlinked in   *)
(* between takes the body with it; the chmod then finds no file, or another.  *)
WriteBody(w, d, r) ==
    /\ IF w \in open[d]
       THEN /\ reg' = [reg EXCEPT ![d] = r]
            /\ fresh' = [fresh EXCEPT ![d] = @ \/ ~r.locked]
       ELSE UNCHANGED <<reg, fresh>>
    /\ open' = [open EXCEPT ![d] = @ \ {w}]

(* forget_record, forget: unlink.                                             *)
Unlink(d) ==
    /\ reg' = [reg EXCEPT ![d] = Absent]
    /\ open' = [open EXCEPT ![d] = {}]
    /\ UNCHANGED fresh

(* The X servers that answer on the socket of display d.                      *)
Answering(d) == {l \in Logins : BackendOf[l] = "x11" /\ desk[l] = "up" /\ disp[l] = d}

is_served(d) == Answering(d) # {}

(* Variant: whoever answers on the number is taken for the session.           *)
Authenticates_SocketOnly(r) == Answering(disp[r.sid])

(* The sessions whose X server accepts the cookie that record r names: an     *)
(* x11 record names the cookie file of its account and display, a gnome       *)
(* record names none.                                                         *)
Authenticates(r) ==
    {l \in Answering(disp[r.sid]) :
        /\ BackendOf[r.sid] = "x11"
        /\ cookie[<<UserOf[r.sid], disp[r.sid]>>] = l}

desktop_is_live(r) == Authenticates(r) # {}

(* flock: a claim is free when nobody has a descriptor that holds it.         *)
AccountFree(u) == \A l \in Logins : UserOf[l] = u => afd[l] = {}

(* Variant: the number is probed, its flock never tried.                      *)
DisplayFree_Probed(d) == ~is_served(d)

DisplayFree(d) == \A l \in Logins : disp[l] = d => dfd[l] = {}

-----------------------------------------------------------------------------
(* The worker: bind_to_desktop -> bind -> attach_or_create, then the          *)
(* disconnect.  Every error ends the process (process::exit), and with it     *)
(* the worker's copies of its descriptors.                                    *)

Goto(l, pc) == wpc' = [wpc EXCEPT ![l] = pc]

WorkerCloses(l) ==
    /\ afd' = [afd EXCEPT ![l] = @ \ {"worker"}]
    /\ dfd' = [dfd EXCEPT ![l] = @ \ {"worker"}]
    /\ UNCHANGED disp

WorkerExits(l) ==
    /\ Goto(l, "gone")
    /\ WorkerCloses(l)
    /\ cur' = [cur EXCEPT ![l] = First]
    /\ seen' = [seen EXCEPT ![l] = Absent]
    /\ tmp' = [tmp EXCEPT ![l] = Absent]
    /\ ses' = [ses EXCEPT ![l] = NoLogin]

Connect(l) ==
    /\ wpc[l] = "new"
    /\ spc = "up"
    /\ Goto(l, "acquire")
    /\ UNCHANGED <<cur, seen, tmp, ses, claims, keeper, desk, registry, supervisor, faults>>

(* AccountLock::acquire: a blocking flock on the account's file.              *)
Acquire(l) ==
    /\ wpc[l] = "acquire"
    /\ AccountFree(UserOf[l])
    /\ afd' = [afd EXCEPT ![l] = {"worker"}]
    /\ Goto(l, "find")
    /\ cur' = [cur EXCEPT ![l] = First]
    /\ UNCHANGED <<seen, tmp, ses, disp, dfd, keeper, desk, registry, supervisor, faults>>

(* registry::find: the first record, from the lowest number up, that names    *)
(* this account; none means create().                                         *)
Find(l) ==
    LET r == read_record(cur[l])
    IN  /\ wpc[l] = "find"
        /\ \/ /\ Found(r) /\ UserOf[r.sid] = UserOf[l]
              /\ seen' = [seen EXCEPT ![l] = r]
              /\ Goto(l, "probe")
              /\ UNCHANGED cur
           \/ /\ ~(Found(r) /\ UserOf[r.sid] = UserOf[l])
              /\ cur' = [cur EXCEPT ![l] = IF @ = Last THEN First ELSE @ + 1]
              /\ Goto(l, IF cur[l] = Last THEN "alloc" ELSE "find")
              /\ UNCHANGED seen
        /\ UNCHANGED <<tmp, ses, claims, keeper, desk, registry, supervisor, faults>>

(* A desktop answered: attach_or_create returns and drops the worker's copy   *)
(* of the account lock.                                                       *)
Attached(l) ==
    /\ ses' = [ses EXCEPT ![l] = CHOOSE x \in Authenticates(seen[l]) : TRUE]
    /\ Goto(l, "bind")
    /\ WorkerCloses(l)
    /\ UNCHANGED <<cur, seen, tmp>>

(* attach_live_with's probe.  A live session of another kind refuses the      *)
(* login; a dead one is forgotten and replaced.                               *)
Probe(l) ==
    /\ wpc[l] = "probe"
    /\ \/ /\ desktop_is_live(seen[l]) /\ BackendOf[seen[l].sid] = BackendOf[l]
          /\ Attached(l)
       \/ /\ desktop_is_live(seen[l]) /\ BackendOf[seen[l].sid] # BackendOf[l]
          /\ WorkerExits(l)
       \/ /\ ~desktop_is_live(seen[l])
          /\ Goto(l, "forget")
          /\ UNCHANGED <<cur, seen, tmp, ses, claims>>
    /\ UNCHANGED <<keeper, desk, registry, supervisor, faults>>

(* forget: unlink the file of the dead session's number.                      *)
Forget(l) ==
    /\ wpc[l] = "forget"
    /\ Unlink(disp[seen[l].sid])
    /\ Goto(l, "alloc")
    /\ cur' = [cur EXCEPT ![l] = First]
    /\ UNCHANGED <<seen, tmp, ses, claims, keeper, desk, supervisor, faults>>

(* allocate_with: the lowest number whose flock this process obtains and no   *)
(* X server answers on; the numbers below were taken when they were tried.    *)
Allocate(l) ==
    /\ wpc[l] = "alloc"
    /\ \/ /\ DisplayFree(cur[l]) /\ ~is_served(cur[l])
          /\ disp' = [disp EXCEPT ![l] = cur[l]]
          /\ dfd' = [dfd EXCEPT ![l] = {"worker"}]
          /\ Goto(l, "spawn")
          /\ UNCHANGED <<cur, seen, tmp, ses, afd>>
       \/ /\ ~(DisplayFree(cur[l]) /\ ~is_served(cur[l]))
          /\ cur[l] < Last
          /\ cur' = [cur EXCEPT ![l] = @ + 1]
          /\ UNCHANGED <<wpc, seen, tmp, ses, claims>>
       \/ /\ ~(DisplayFree(cur[l]) /\ ~is_served(cur[l]))
          /\ cur[l] = Last
          /\ WorkerExits(l)
    /\ UNCHANGED <<keeper, desk, registry, supervisor, faults>>

(* Variant: the keeper is not given the account claim.                        *)
SpawnKeeper_Alone(l) ==
    /\ wpc[l] = "spawn"
    /\ \/ /\ kpc' = [kpc EXCEPT ![l] = "start"]
          /\ dfd' = [dfd EXCEPT ![l] = @ \cup {"keeper"}]
          /\ Goto(l, "handoff")
          /\ UNCHANGED <<cur, seen, tmp, ses, disp, afd>>
       \/ /\ WorkerExits(l)
          /\ UNCHANGED kpc
    /\ UNCHANGED <<cookie, desk, registry, supervisor, faults>>

(* spawn_keeper: the keeper inherits both descriptors, and detaches.          *)
SpawnKeeper(l) ==
    /\ wpc[l] = "spawn"
    /\ \/ /\ kpc' = [kpc EXCEPT ![l] = "start"]
          /\ afd' = [afd EXCEPT ![l] = @ \cup {"keeper"}]
          /\ dfd' = [dfd EXCEPT ![l] = @ \cup {"keeper"}]
          /\ Goto(l, "handoff")
          /\ UNCHANGED <<cur, seen, tmp, ses, disp>>
       \/ /\ WorkerExits(l)
          /\ UNCHANGED kpc
    /\ UNCHANGED <<cookie, desk, registry, supervisor, faults>>

(* Variant: create keeps its copy of the display claim open.                  *)
Handoff_KeepsCopy(l) ==
    /\ wpc[l] = "handoff"
    /\ Goto(l, "wait")
    /\ UNCHANGED <<cur, seen, tmp, ses, claims, keeper, desk, registry, supervisor, faults>>

(* create closes its own copy of the display claim.                           *)
Handoff(l) ==
    /\ wpc[l] = "handoff"
    /\ dfd' = [dfd EXCEPT ![l] = @ \ {"worker"}]
    /\ Goto(l, "wait")
    /\ UNCHANGED <<cur, seen, tmp, ses, disp, afd, keeper, desk, registry, supervisor, faults>>

(* wait_for_record: poll the number's record.  A record of another account is *)
(* refused, and the deadline may pass at any time.                            *)
WaitForRecord(l) ==
    LET r == read_record(disp[l])
    IN  /\ wpc[l] = "wait"
        /\ \/ /\ Found(r) /\ UserOf[r.sid] = UserOf[l]
              /\ seen' = [seen EXCEPT ![l] = r]
              /\ Goto(l, "check")
              /\ UNCHANGED <<cur, tmp, ses, claims>>
           \/ WorkerExits(l)
        /\ UNCHANGED <<keeper, desk, registry, supervisor, faults>>

(* create: the session must have survived its own start-up.                   *)
Check(l) ==
    /\ wpc[l] = "check"
    /\ IF desktop_is_live(seen[l]) THEN Attached(l) ELSE WorkerExits(l)
    /\ UNCHANGED <<keeper, desk, registry, supervisor, faults>>

(* bind, x11.rs: the record must name the account, then the gate is opened;   *)
(* a session recorded as locked is unlocked before the client may see it.     *)
Bind(l) ==
    /\ wpc[l] = "bind"
    /\ IF UserOf[seen[l].sid] = UserOf[l]
       THEN /\ Goto(l, IF seen[l].locked THEN "unlock" ELSE "bound")
            /\ UNCHANGED <<cur, seen, tmp, ses, claims>>
       ELSE WorkerExits(l)
    /\ UNCHANGED <<keeper, desk, registry, supervisor, faults>>

Disconnect(l) ==
    /\ wpc[l] = "bound"
    /\ Goto(l, "lock")
    /\ UNCHANGED <<cur, seen, tmp, ses, claims, keeper, desk, registry, supervisor, faults>>

(* set_locked, on unlock and on disconnect: read, change the flag, write.     *)
(* No record: unlock fails the login, lock is logged; both end the worker.    *)
SetLockedRead(l) ==
    LET r == read_record(disp[seen[l].sid])
    IN  /\ wpc[l] \in {"unlock", "lock"}
        /\ \/ /\ Found(r)
              /\ tmp' = [tmp EXCEPT ![l] = Record(r.sid, wpc[l] = "lock")]
              /\ Goto(l, IF wpc[l] = "lock" THEN "lock1" ELSE "unlock1")
              /\ UNCHANGED <<cur, seen, ses, claims>>
           \/ /\ ~Found(r)
              /\ WorkerExits(l)
        /\ UNCHANGED <<keeper, desk, registry, supervisor, faults>>

SetLockedTruncate(l) ==
    /\ wpc[l] \in {"unlock1", "lock1"}
    /\ Truncate(Worker(l), disp[tmp[l].sid])
    /\ Goto(l, IF wpc[l] = "lock1" THEN "lock2" ELSE "unlock2")
    /\ UNCHANGED <<cur, seen, tmp, ses, claims, keeper, desk, supervisor, faults>>

SetLockedWrite(l) ==
    LET d == disp[tmp[l].sid]
    IN  /\ wpc[l] \in {"unlock2", "lock2"}
        /\ WriteBody(Worker(l), d, tmp[l])
        /\ IF wpc[l] = "unlock2" /\ reg[d].st # "none"
           THEN Goto(l, "bound") /\ UNCHANGED <<cur, seen, tmp, ses, claims>>
           ELSE WorkerExits(l)
        /\ UNCHANGED <<keeper, desk, supervisor, faults>>

WorkerKilled(l) ==
    /\ wpc[l] \notin {"new", "gone"}
    /\ faults < MaxFaults
    /\ faults' = faults + 1
    /\ WorkerExits(l)
    /\ UNCHANGED <<keeper, desk, registry, supervisor>>

-----------------------------------------------------------------------------
(* The keeper: keeper_main::run, then the case's serve_session.               *)

KeeperGoto(l, pc) == kpc' = [kpc EXCEPT ![l] = pc]

KeeperExits(l) ==
    /\ KeeperGoto(l, "gone")
    /\ afd' = [afd EXCEPT ![l] = @ \ {"keeper"}]
    /\ dfd' = [dfd EXCEPT ![l] = @ \ {"keeper"}]
    /\ UNCHANGED disp

(* The desktop's processes, started or ended.                                 *)
Desk(l, st) == desk' = [desk EXCEPT ![l] = IF @ = "dead" THEN "dead" ELSE st]

(* run and the head of serve: PAM, then (x11) a fresh cookie.                 *)
KeeperStarts(l) ==
    /\ kpc[l] = "start"
    /\ \/ /\ cookie' = IF BackendOf[l] = "x11"
                       THEN [cookie EXCEPT ![<<UserOf[l], disp[l]>>] = l]
                       ELSE cookie
          /\ KeeperGoto(l, "launch")
          /\ UNCHANGED claims
       \/ /\ KeeperExits(l)
          /\ UNCHANGED cookie
    /\ UNCHANGED <<worker, desk, registry, supervisor, faults>>

(* spawn_child: the X server (x11), the bus and the shell (gnome).            *)
Launch(l) ==
    /\ kpc[l] = "launch"
    /\ \/ Desk(l, "starting") /\ KeeperGoto(l, "ready") /\ UNCHANGED claims
       \/ KeeperExits(l) /\ UNCHANGED desk
    /\ UNCHANGED <<worker, cookie, registry, supervisor, faults>>

(* wait_for_display: somebody answers on the number and our own server has    *)
(* not exited; prepare_headless: our own shell answers.  Otherwise, or when   *)
(* the deadline passes, what was started is killed and the keeper exits.      *)
Ready(l) ==
    /\ kpc[l] = "ready"
    /\ \/ /\ desk[l] # "dead"
          /\ IF BackendOf[l] = "x11" THEN is_served(disp[l]) ELSE desk[l] = "up"
          /\ KeeperGoto(l, "publish")
          /\ UNCHANGED <<desk, claims>>
       \/ Desk(l, "dead") /\ KeeperExits(l)
    /\ UNCHANGED <<worker, cookie, registry, supervisor, faults>>

(* The desktop on the X server starts, or does not and the session is torn    *)
(* down; then record_owner and write_record, whose errors leave the desktop.  *)
PublishTruncate(l) ==
    /\ kpc[l] = "publish"
    /\ \/ /\ Truncate(Keeper(l), disp[l])
          /\ KeeperGoto(l, "publish1")
          /\ UNCHANGED <<claims, faults>>
       \/ /\ BackendOf[l] = "x11"
          /\ KeeperGoto(l, "end")
          /\ UNCHANGED <<registry, claims, faults>>
       \/ /\ faults < MaxFaults
          /\ faults' = faults + 1
          /\ KeeperExits(l)
          /\ UNCHANGED registry
    /\ UNCHANGED <<worker, cookie, desk, supervisor>>

(* Variant: the account claim is held for as long as the session.             *)
PublishWrite_KeepsAccount(l) ==
    /\ kpc[l] = "publish1"
    /\ WriteBody(Keeper(l), disp[l], Record(l, FALSE))
    /\ IF reg[disp[l]].st # "none"
       THEN KeeperGoto(l, "serve") /\ UNCHANGED claims
       ELSE KeeperExits(l)
    /\ UNCHANGED <<worker, cookie, desk, supervisor, faults>>

(* Publication drops the account claim.  A failed write ends the keeper and   *)
(* leaves the desktop running.                                                *)
PublishWrite(l) ==
    /\ kpc[l] = "publish1"
    /\ WriteBody(Keeper(l), disp[l], Record(l, FALSE))
    /\ IF reg[disp[l]].st # "none"
       THEN /\ afd' = [afd EXCEPT ![l] = @ \ {"keeper"}]
            /\ KeeperGoto(l, "serve")
            /\ UNCHANGED <<disp, dfd>>
       ELSE KeeperExits(l)
    /\ UNCHANGED <<worker, cookie, desk, supervisor, faults>>

(* wait_for_either: the desktop logged out, or its server exited.             *)
SessionEnds(l) ==
    /\ kpc[l] = "serve"
    /\ KeeperGoto(l, "end")
    /\ UNCHANGED <<worker, claims, cookie, desk, registry, supervisor, faults>>

EndSession(l) ==
    /\ kpc[l] = "end"
    /\ Desk(l, "dead")
    /\ KeeperGoto(l, "forget")
    /\ UNCHANGED <<worker, claims, cookie, registry, supervisor, faults>>

ForgetRecord(l) ==
    /\ kpc[l] = "forget"
    /\ Unlink(disp[l])
    /\ KeeperGoto(l, "release")
    /\ UNCHANGED <<worker, claims, cookie, desk, supervisor, faults>>

(* PAM is closed, the lease dropped, the process exits.                       *)
Release(l) ==
    /\ kpc[l] = "release"
    /\ KeeperExits(l)
    /\ UNCHANGED <<worker, cookie, desk, registry, supervisor, faults>>

(* The desktop is not the keeper's to take along: spawn_child asks for no     *)
(* death signal, and KillMode=process spares it.                              *)
KeeperKilled(l) ==
    /\ kpc[l] \notin {"none", "gone"}
    /\ faults < MaxFaults
    /\ faults' = faults + 1
    /\ KeeperExits(l)
    /\ UNCHANGED <<worker, cookie, desk, registry, supervisor>>

-----------------------------------------------------------------------------
(* The desktops, as the code meets them: an X server comes to listen unless   *)
(* another one answers on its number, and any desktop may end at any time.    *)

DesktopUp(l) ==
    /\ desk[l] = "starting"
    /\ BackendOf[l] = "x11" => ~is_served(disp[l])
    /\ Desk(l, "up")
    /\ UNCHANGED <<worker, claims, keeper, registry, supervisor, faults>>

DesktopDies(l) ==
    /\ desk[l] \in {"starting", "up"}
    /\ Desk(l, "dead")
    /\ UNCHANGED <<worker, claims, keeper, registry, supervisor, faults>>

-----------------------------------------------------------------------------
(* The supervisor: supervisor_main runs lock_all before it listens.  Workers, *)
(* keepers and desktops outlive the restart.                                  *)

Restart ==
    /\ restarts < MaxRestarts
    /\ restarts' = restarts + 1
    /\ spc' = "scan"
    /\ scur' = First
    /\ stmp' = Absent
    /\ fresh' = [d \in Displays |-> FALSE]
    /\ UNCHANGED <<worker, claims, keeper, desk, reg, open, faults>>

(* The next number of the scan, or, past the last, the listeners.             *)
LockAllNext ==
    /\ scur' = IF scur = Last THEN First ELSE scur + 1
    /\ spc' = IF scur = Last THEN "up" ELSE "scan"

(* Variant: the test of the record's flag is inverted.                        *)
LockAllRead_Inverted ==
    LET r == read_record(scur)
    IN  /\ spc = "scan"
        /\ \/ /\ Found(r) /\ r.locked
              /\ stmp' = Record(r.sid, TRUE)
              /\ spc' = "lock1"
              /\ UNCHANGED scur
           \/ /\ ~(Found(r) /\ r.locked)
              /\ LockAllNext
              /\ UNCHANGED stmp
        /\ UNCHANGED <<worker, claims, keeper, desk, registry, restarts, faults>>

LockAllRead ==
    LET r == read_record(scur)
    IN  /\ spc = "scan"
        /\ \/ /\ Found(r) /\ ~r.locked
              /\ stmp' = Record(r.sid, TRUE)
              /\ spc' = "lock1"
              /\ UNCHANGED scur
           \/ /\ ~(Found(r) /\ ~r.locked)
              /\ LockAllNext
              /\ UNCHANGED stmp
        /\ UNCHANGED <<worker, claims, keeper, desk, registry, restarts, faults>>

LockAllTruncate ==
    /\ spc = "lock1"
    /\ Truncate(Supervisor, scur)
    /\ spc' = "lock2"
    /\ UNCHANGED <<worker, claims, keeper, desk, scur, stmp, restarts, faults>>

LockAllWrite ==
    /\ spc = "lock2"
    /\ WriteBody(Supervisor, scur, stmp)
    /\ LockAllNext
    /\ UNCHANGED <<worker, claims, keeper, desk, stmp, restarts, faults>>

-----------------------------------------------------------------------------
Init ==
    /\ wpc = [l \in Logins |-> "new"]
    /\ cur = [l \in Logins |-> First]
    /\ seen = [l \in Logins |-> Absent]
    /\ tmp = [l \in Logins |-> Absent]
    /\ ses = [l \in Logins |-> NoLogin]
    /\ disp = [l \in Logins |-> 0]
    /\ afd = [l \in Logins |-> {}]
    /\ dfd = [l \in Logins |-> {}]
    /\ kpc = [l \in Logins |-> "none"]
    /\ desk = [l \in Logins |-> "none"]
    /\ cookie = [f \in Users \X Displays |-> NoLogin]
    /\ reg = [d \in Displays |-> Absent]
    /\ open = [d \in Displays |-> {}]
    /\ fresh = [d \in Displays |-> FALSE]
    /\ spc = "up"
    /\ scur = First
    /\ stmp = Absent
    /\ faults = 0
    /\ restarts = 0

(* What a worker does by itself, and what happens to it.                      *)
WorkerStep(l) ==
    \/ Acquire(l) \/ Find(l) \/ Probe(l) \/ Forget(l) \/ Allocate(l)
    \/ SpawnKeeper(l) \/ Handoff(l) \/ WaitForRecord(l) \/ Check(l) \/ Bind(l)
    \/ SetLockedRead(l) \/ SetLockedTruncate(l) \/ SetLockedWrite(l)

KeeperStep(l) ==
    \/ KeeperStarts(l) \/ Launch(l) \/ Ready(l) \/ PublishTruncate(l)
    \/ PublishWrite(l) \/ EndSession(l) \/ ForgetRecord(l) \/ Release(l)

SupervisorStep == LockAllRead \/ LockAllTruncate \/ LockAllWrite

Environment(l) ==
    \/ Connect(l) \/ Disconnect(l) \/ WorkerKilled(l)
    \/ SessionEnds(l) \/ KeeperKilled(l) \/ DesktopUp(l) \/ DesktopDies(l)

Next ==
    \/ \E l \in Logins : WorkerStep(l) \/ KeeperStep(l) \/ Environment(l)
    \/ SupervisorStep
    \/ Restart

Spec == Init /\ [][Next]_vars

(* Processes run.  Clients, users, faults and restarts owe nothing, and a     *)
(* blocking flock is granted once it stays free.                              *)
FairSpec ==
    /\ Spec
    /\ \A l \in Logins : WF_vars(WorkerStep(l)) /\ WF_vars(KeeperStep(l))
    /\ WF_vars(SupervisorStep)

-----------------------------------------------------------------------------
WorkerPcs ==
    {"new", "acquire", "find", "probe", "forget", "alloc", "spawn", "handoff",
     "wait", "check", "bind", "unlock", "unlock1", "unlock2", "bound", "lock",
     "lock1", "lock2", "gone"}

(* Keepers that have not published yet, and all keepers that run.             *)
Starting == {"start", "launch", "ready", "publish", "publish1"}
Running == Starting \cup {"serve", "end", "forget", "release"}

RecordType == [st : {"ok", "none", "torn"}, sid : Logins \cup {NoLogin}, locked : BOOLEAN]

WorkerType ==
    /\ wpc \in [Logins -> WorkerPcs]
    /\ cur \in [Logins -> Displays]
    /\ seen \in [Logins -> RecordType]
    /\ tmp \in [Logins -> RecordType]
    /\ ses \in [Logins -> Logins \cup {NoLogin}]

ClaimsType ==
    /\ disp \in [Logins -> Displays \cup {0}]
    /\ afd \in [Logins -> SUBSET {"worker", "keeper"}]
    /\ dfd \in [Logins -> SUBSET {"worker", "keeper"}]

KeeperType ==
    /\ kpc \in [Logins -> Running \cup {"none", "gone"}]
    /\ cookie \in [Users \X Displays -> Logins \cup {NoLogin}]
    /\ desk \in [Logins -> {"none", "starting", "up", "dead"}]

RegistryType ==
    /\ reg \in [Displays -> RecordType]
    /\ open \in [Displays -> SUBSET Writers]
    /\ fresh \in [Displays -> BOOLEAN]

SupervisorType ==
    /\ spc \in {"up", "scan", "lock1", "lock2"}
    /\ scur \in Displays
    /\ stmp \in RecordType
    /\ restarts \in 0 .. MaxRestarts

(* Every scan stays inside session.display_range, every file written is that  *)
(* of a number in it, and every process is at one of its steps.               *)
TypeOK ==
    /\ WorkerType /\ ClaimsType /\ KeeperType /\ RegistryType /\ SupervisorType
    /\ faults \in 0 .. MaxFaults

(* The steps of attach_or_create that run under the account lock.             *)
Creating == {"find", "probe", "forget", "alloc", "spawn", "handoff", "wait", "check"}

(* A display number has one owner: no two logins hold a claim on it, through  *)
(* every handoff from a worker to its keeper (DisplayLease, into_handoff_fd,  *)
(* adopt).                                                                    *)
DisplayExclusive ==
    \A l, m \in Logins :
        dfd[l] # {} /\ dfd[m] # {} /\ disp[l] = disp[m] => l = m

(* Claims end with the work they protect, whichever way that ends: a keeper   *)
(* has its number exactly while it runs, and its account until it publishes   *)
(* or has undone a start that failed; a worker has the account while it       *)
(* decides and the number until it has handed it over (AccountLock,           *)
(* DisplayLease, create).                                                     *)
ClaimsTrackWork ==
    \A l \in Logins :
        /\ "keeper" \in dfd[l] <=> kpc[l] \in Running
        /\ kpc[l] \in Starting => "keeper" \in afd[l]
        /\ "keeper" \in afd[l] => kpc[l] \in Running \ {"serve"}
        /\ "worker" \in dfd[l] <=> wpc[l] \in {"spawn", "handoff"}
        /\ "worker" \in afd[l] <=> wpc[l] \in Creating

(* Until its session is published (or its keeper is gone) no other login of   *)
(* the account gets past the account lock, so no second session of the        *)
(* account starts, whatever happened to the worker that began the first one   *)
(* (AccountLock; keeper_main::run adopts it).                                 *)
OneStartPerAccount ==
    \A l, m \in Logins :
        kpc[l] \in Starting /\ l # m /\ UserOf[l] = UserOf[m] =>
            kpc[m] \notin Starting /\ wpc[m] \notin Creating

(* A worker is only ever bound to a desktop started for the account it        *)
(* authenticated, although numbers and record files pass from account to      *)
(* account (wait_for_record and bind compare users; the cookie decides).      *)
OwnDesktopOnly ==
    \A l \in Logins : wpc[l] = "bound" => ses[l] \in Logins /\ UserOf[ses[l]] = UserOf[l]

(* Once a restarted supervisor listens, a record says unlocked only because   *)
(* something unlocked it after the restart began (lock_all).                  *)
RestartLocks ==
    spc = "up" =>
        \A d \in Displays : Found(reg[d]) /\ ~reg[d].locked => fresh[d]

(* Every login that reaches the account lock gets a desktop or an answer:     *)
(* nobody waits for ever on an account lock or on a record.                   *)
LoginSettles ==
    \A l \in Logins : wpc[l] = "acquire" ~> wpc[l] \in {"bound", "gone"}

-----------------------------------------------------------------------------
(* The inductive invariant behind the safety properties.                      *)

Early == {"new", "acquire", "find", "probe", "forget", "alloc", "spawn"}
Judging == {"probe", "forget", "check"}
Serving == {"bind", "unlock", "unlock1", "unlock2", "bound", "lock", "lock1", "lock2"}

(* A login's keeper exists only once its worker has spawned it, and both know *)
(* their number by then.                                                      *)
ControlInv ==
    \A l \in Logins :
        /\ wpc[l] \in Early => kpc[l] = "none"
        /\ wpc[l] \in {"spawn", "handoff", "wait"} \/ kpc[l] # "none" => disp[l] \in Displays

(* A record names a session that a keeper was started for.                    *)
Names(r) == r.sid \in Logins /\ kpc[r.sid] # "none"

RegNamed ==
    \A d \in Displays : Found(reg[d]) => Names(reg[d]) /\ disp[reg[d].sid] = d

SeenNamed ==
    \A l \in Logins :
        wpc[l] \in Judging \cup Serving => Names(seen[l]) /\ UserOf[seen[l].sid] = UserOf[l]

TmpNamed ==
    \A l \in Logins : wpc[l] \in {"unlock1", "unlock2", "lock1", "lock2"} => Names(tmp[l])

ScanNamed ==
    spc \in {"lock1", "lock2"} => Names(stmp) /\ disp[stmp.sid] = scur /\ stmp.locked

RecordsInv == RegNamed /\ SeenNamed /\ TmpNamed /\ ScanNamed

(* An account's claim has one holder.                                         *)
AccountExclusive ==
    \A l, m \in Logins :
        afd[l] # {} /\ afd[m] # {} /\ UserOf[l] = UserOf[m] => l = m

(* A cookie file holds the cookie of a session of its account, and so does a  *)
(* worker that got through the handshake.                                     *)
CookieInv ==
    /\ \A u \in Users, d \in Displays :
        cookie[<<u, d>>] \in Logins => UserOf[cookie[<<u, d>>]] = u
    /\ \A l \in Logins :
        wpc[l] \in Serving => ses[l] \in Logins /\ UserOf[ses[l]] = UserOf[l]

(* What the scan has passed is locked, or was unlocked since it began.        *)
ScanInv ==
    \A d \in Displays :
        /\ Found(reg[d]) /\ ~reg[d].locked
        /\ spc = "up" \/ d < scur \/ (d = scur /\ spc = "lock2")
        => fresh[d]

IInv ==
    /\ TypeOK /\ ControlInv /\ RecordsInv
    /\ DisplayExclusive /\ AccountExclusive /\ ClaimsTrackWork
    /\ CookieInv /\ ScanInv

-----------------------------------------------------------------------------
(* What comments of the code promise and the code does not keep.              *)

(* "a second connection for the same person either finds the session the      *)
(* first one made or waits for it - never starts a second" (attach_or_create).*)
OneDesktopPerAccount ==
    \A l, m \in Logins :
        /\ l # m /\ UserOf[l] = UserOf[m]
        /\ kpc[l] = "serve" /\ desk[l] = "up"
        => ~(kpc[m] = "serve" /\ desk[m] = "up")
=============================================================================
