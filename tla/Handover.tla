------------------------------ MODULE Handover ------------------------------
(* One worker between its logon screen and a desktop: the gate that says      *)
(* which screen it may touch (session/gate.rs), the router and the logon form *)
(* (session/router.rs, greeter.rs), the bind of an X session                  *)
(* (session/backends/x11.rs), and the two paths that hold an X connection of  *)
(* their own, capture (capture.rs, gfx_display.rs) and input (main.rs).       *)
(*                                                                            *)
(* A screen is the account whose desktop it is, the logon screen, or the      *)
(* ambient display of the service's environment.  The connection's task, the  *)
(* form's thread and the capture task interleave at every read of the gate.   *)
EXTENDS Integers

CONSTANTS Users, None, Logon, Ambient,
          MaxLost,     \* bound: sources dropped by a timeout or a reactivation
          MaxFaults,   \* bound: locks that fail, workers that are killed
          LogonMayDie  \* whether the logon screen's X server can die by itself

ASSUME ScreensAssumption ==
    /\ None \notin Users /\ Logon \notin Users /\ Ambient \notin Users
    /\ None # Logon /\ None # Ambient /\ Logon # Ambient

ASSUME FaultsAssumption == MaxLost \in Nat /\ MaxFaults \in Nat /\ LogonMayDie \in BOOLEAN

VARIABLES
    main,      \* the connection's task
    pending,   \* PendingIdentity: the account the client's credentials proved
    sent,      \* whether the client's credentials chose the desktop
    faults,
    lpc,       \* the route to a desktop: on the task, or on the form's thread
    who,       \* the account on that route
    rl,        \* whether the record it attached by said locked
    bound,     \* BOUND: the screen this worker may touch
    gen,       \* GENERATION
    env,       \* DISPLAY and XAUTHORITY
    noted,     \* bound_display: what the disconnect will lock
    locked,    \* the lock state of each account's session record
    xup,       \* the logon screen's X server runs
    cpc,       \* capture: the mint of a source, or its life
    fac,       \* the factory's cached X connection
    nm, num,   \* what the connect has read of the gate so far
    src,       \* the frame source
    lost,
    ipc, inp, inum      \* input: its step, its cached connection, what it read

task    == <<main, pending, sent, faults>>
login   == <<lpc, who, rl>>
gate    == <<bound, gen, env>>
session == <<noted, locked>>
capture == <<cpc, fac, nm, num, src, lost>>
input   == <<ipc, inp, inum>>
vars    == <<task, login, gate, session, xup, capture, input>>

Screens == Users \cup {Logon, Ambient}

Up(s) == s # Logon \/ xup

(* A connect that goes by the environment gets in only with the cookie of the *)
(* display it names.                                                          *)
Dial(s) == s # None /\ Up(s) /\ env = s

(* Variant: an unbound worker answers with the environment's display.         *)
display_name_Ambient == IF bound = None THEN env ELSE bound

(* The display this process may connect to; None when the gate refuses.       *)
display_name == bound

(* Whether the gate lets the worker move.                                     *)
bind_into(wanted) == bound = None \/ bound = wanted \/ (bound = Logon /\ wanted \in Users)

-----------------------------------------------------------------------------
(* The connection's task.                                                     *)

(* Before anything is known of the client, the server asks for a size, and    *)
(* the factory tries to connect.                                              *)
Accept ==
    /\ main = "accept"
    /\ main' = "info"
    /\ fac' = [gen |-> gen, name |-> display_name,
               conn |-> IF Dial(display_name) THEN display_name ELSE None]
    /\ UNCHANGED <<pending, sent, faults, login, gate, session, xup, cpc, nm, num, src, lost, input>>

(* The logon screen's own X server is started, the gate is pointed at it and  *)
(* the form gets a thread.                                                    *)
ShowGreeter ==
    /\ bind_into(Logon)
    /\ main' = "serving" /\ lpc' = "connect"
    /\ xup' = TRUE /\ env' = Logon /\ bound' = Logon /\ gen' = gen + 1
    /\ UNCHANGED <<pending, sent, who>>

(* on_connection_info where the logon form is configured: the credentials the *)
(* client sent are used; without them the form is shown, or the worker exits  *)
(* because it cannot be.                                                      *)
OnConnectionInfo ==
    /\ main = "info"
    /\ \/ /\ pending # None
          /\ main' = "binding" /\ lpc' = "attach" /\ who' = pending /\ pending' = None /\ sent' = TRUE
          /\ UNCHANGED <<gate, xup>>
       \/ pending = None /\ ShowGreeter
       \/ /\ pending = None
          /\ main' = "closed"
          /\ UNCHANGED <<pending, sent, lpc, who, gate, xup>>
    /\ UNCHANGED <<faults, rl, session, capture, input>>

(* The client is gone: on_disconnected locks what was noted.  The lock fails  *)
(* where the record is gone, being rewritten or cannot be written; that is    *)
(* logged, and the worker leaves all the same.                                *)
OnDisconnected ==
    /\ main = "serving"
    /\ main' = "leaving"
    /\ \/ locked' = [u \in Users |-> locked[u] \/ u = noted] /\ UNCHANGED faults
       \/ noted # None /\ faults < MaxFaults /\ faults' = faults + 1 /\ UNCHANGED locked
    /\ UNCHANGED <<pending, sent, login, gate, noted, xup, capture, input>>

(* serve returns and the process exits; its other threads just stop.          *)
Exit ==
    /\ main = "leaving"
    /\ main' = "closed"
    /\ UNCHANGED <<pending, sent, faults, login, gate, session, xup, capture, input>>

(* The worker is killed, or aborts, wherever it is.                           *)
Killed ==
    /\ main # "closed" /\ faults < MaxFaults
    /\ main' = "closed" /\ faults' = faults + 1
    /\ UNCHANGED <<pending, sent, login, gate, session, xup, capture, input>>

-----------------------------------------------------------------------------
(* The form's thread, and the route to a desktop it shares with the task.     *)

FormConnect ==
    /\ lpc = "connect" /\ main # "closed"
    /\ lpc' = IF Up(bound) THEN "typing" ELSE "drop"
    /\ UNCHANGED <<task, who, rl, gate, session, xup, capture, input>>

(* run_form: an account is accepted, or the X connection dies.  A rejected    *)
(* attempt only costs time.                                                   *)
RunForm ==
    /\ lpc = "typing" /\ main # "closed"
    /\ \/ \E u \in Users : xup /\ who' = u /\ lpc' = "attach"
       \/ ~xup /\ lpc' = "drop" /\ UNCHANGED who
    /\ UNCHANGED <<task, rl, gate, session, xup, capture, input>>

(* A route that fails ends the process, or the form's thread.                 *)
Refused ==
    /\ main' = IF main = "binding" THEN "closed" ELSE main
    /\ lpc' = IF main = "binding" THEN "done" ELSE "drop"
    /\ UNCHANGED <<pending, sent, faults>>

(* authorize_for_desktop, choose and attach_or_create.                        *)
Attach ==
    /\ lpc = "attach" /\ main # "closed"
    /\ \/ lpc' = "env" /\ rl' = locked[who] /\ UNCHANGED task
       \/ Refused /\ UNCHANGED rl
    /\ UNCHANGED <<who, gate, session, xup, capture, input>>

(* bind_kind sets the environment first,                                      *)
SetEnv ==
    /\ lpc = "env" /\ main # "closed"
    /\ lpc' = "bind" /\ env' = who
    /\ UNCHANGED <<task, who, rl, bound, gen, session, xup, capture, input>>

(* then, under the gate's lock, moves the worker and bumps the generation.    *)
BindKind ==
    /\ lpc = "bind" /\ main # "closed"
    /\ \/ /\ bind_into(who)
          /\ bound' = who /\ gen' = gen + 1 /\ lpc' = "unlock"
          /\ UNCHANGED task
       \/ ~bind_into(who) /\ Refused /\ UNCHANGED <<bound, gen>>
    /\ UNCHANGED <<who, rl, env, session, xup, capture, input>>

Unlock ==
    /\ lpc = "unlock" /\ main # "closed"
    /\ \/ lpc' = "note" /\ locked' = [locked EXCEPT ![who] = @ /\ ~rl] /\ UNCHANGED task
       \/ rl /\ Refused /\ UNCHANGED locked
    /\ UNCHANGED <<who, rl, gate, noted, xup, capture, input>>

(* Variant: only the form's thread notes what it bound.                       *)
Note_FormOnly ==
    /\ lpc = "note" /\ main # "closed"
    /\ noted' = IF main = "binding" THEN noted ELSE who
    /\ main' = IF main = "binding" THEN "serving" ELSE main
    /\ lpc' = IF main = "binding" THEN "done" ELSE "drop"
    /\ UNCHANGED <<pending, sent, faults, who, rl, gate, locked, xup, capture, input>>

Note ==
    /\ lpc = "note" /\ main # "closed"
    /\ noted' = who
    /\ main' = IF main = "binding" THEN "serving" ELSE main
    /\ lpc' = IF main = "binding" THEN "done" ELSE "drop"
    /\ UNCHANGED <<pending, sent, faults, who, rl, gate, locked, xup, capture, input>>

(* The thread ends, and the logon screen with it.                             *)
DropGreeter ==
    /\ lpc = "drop" /\ main # "closed"
    /\ lpc' = "done" /\ xup' = FALSE
    /\ UNCHANGED <<task, who, rl, gate, session, capture, input>>

-----------------------------------------------------------------------------
(* Capture, which runs while the client is served.                            *)

(* updates_source asks with_display for the cached connection, which is       *)
(* dropped when the gate has moved since.                                     *)
UpdatesSource ==
    /\ main = "serving" /\ cpc = "lost"
    /\ fac' = IF fac.gen = gen THEN fac ELSE [gen |-> gen, name |-> None, conn |-> None]
    /\ cpc' = IF fac'.conn = None THEN "name" ELSE "mint"
    /\ UNCHANGED <<task, login, gate, session, xup, nm, num, src, lost, input>>

(* X11Display::connect reads the gate three times: for the name it keeps, for *)
(* the socket, and for the cookie.                                            *)
ReadName ==
    /\ main = "serving" /\ cpc = "name"
    /\ nm' = display_name
    /\ cpc' = IF nm' = None THEN "bare" ELSE "number"
    /\ UNCHANGED <<task, login, gate, session, xup, fac, num, src, lost, input>>

ReadNumber ==
    /\ main = "serving" /\ cpc = "number"
    /\ num' = bound /\ cpc' = "cookie"
    /\ UNCHANGED <<task, login, gate, session, xup, fac, nm, src, lost, input>>

(* A cookie file of another display has no entry for this one.                *)
ReadCookie ==
    /\ main = "serving" /\ cpc = "cookie"
    /\ cpc' = IF bound = num /\ Up(num) THEN "join" ELSE "bare"
    /\ UNCHANGED <<task, login, gate, session, xup, fac, nm, num, src, lost, input>>

(* Variant: the generation is taken once the connection stands.               *)
Join_Stamps ==
    /\ main = "serving" /\ cpc = "join"
    /\ \/ fac' = [gen |-> gen, name |-> nm, conn |-> num] /\ cpc' = "mint"
       \/ ~Up(num) /\ cpc' = "bare" /\ UNCHANGED fac
    /\ UNCHANGED <<task, login, gate, session, xup, nm, num, src, lost, input>>

(* The setup and the scaling of the screen take their time.                   *)
Join ==
    /\ main = "serving" /\ cpc = "join"
    /\ \/ fac' = [fac EXCEPT !.name = nm, !.conn = num] /\ cpc' = "mint"
       \/ ~Up(num) /\ cpc' = "bare" /\ UNCHANGED fac
    /\ UNCHANGED <<task, login, gate, session, xup, nm, num, src, lost, input>>

(* The source is stamped with the generation of this moment.                  *)
Mint ==
    /\ main = "serving" /\ cpc = "mint"
    /\ src' = [gen |-> gen, name |-> fac.name, conn |-> fac.conn]
    /\ cpc' = "live"
    /\ UNCHANGED <<task, login, gate, session, xup, fac, nm, num, lost, input>>

(* Without a connection it gets the gate's name only, read before the         *)
(* generation.                                                                *)
ReadBareName ==
    /\ main = "serving" /\ cpc = "bare"
    /\ nm' = display_name /\ cpc' = "unnamed"
    /\ UNCHANGED <<task, login, gate, session, xup, fac, num, src, lost, input>>

MintBare ==
    /\ main = "serving" /\ cpc = "unnamed"
    /\ src' = [gen |-> gen, name |-> nm, conn |-> None]
    /\ cpc' = "live"
    /\ UNCHANGED <<task, login, gate, session, xup, fac, nm, num, lost, input>>

(* A poll: a source older than the gate lets go and asks where the gate       *)
(* points; one whose X server died reconnects to the name it has.             *)
Poll ==
    /\ main = "serving" /\ cpc = "live" /\ src.conn # None
    /\ \/ /\ src.gen # gen
          /\ src' = [src EXCEPT !.gen = gen, !.conn = None] /\ cpc' = "follow"
       \/ /\ src.gen = gen /\ ~Up(src.conn) /\ Dial(src.name)
          /\ src' = [src EXCEPT !.conn = src.name] /\ UNCHANGED cpc
    /\ UNCHANGED <<task, login, gate, session, xup, fac, nm, num, lost, input>>

Follow ==
    /\ main = "serving" /\ cpc = "follow"
    /\ src' = [src EXCEPT !.name = display_name] /\ cpc' = "live"
    /\ UNCHANGED <<task, login, gate, session, xup, fac, nm, num, lost, input>>

(* A source without a connection is not polled but attached to its name.      *)
TryAttach ==
    /\ main = "serving" /\ cpc = "live" /\ src.conn = None /\ Dial(src.name)
    /\ src' = [src EXCEPT !.conn = src.name]
    /\ UNCHANGED <<task, login, gate, session, xup, cpc, fac, nm, num, lost, input>>

(* A poll that hangs or panics, or a reactivation, costs the source.          *)
LoseSource ==
    /\ main = "serving" /\ cpc = "live" /\ lost < MaxLost
    /\ lost' = lost + 1 /\ cpc' = "lost"
    /\ UNCHANGED <<task, login, gate, session, xup, fac, nm, num, src, input>>

-----------------------------------------------------------------------------
(* Input, one event of the client's: the handler drops a connection older     *)
(* than the gate and makes one if it has none.                                *)
InputEvent ==
    /\ main = "serving" /\ ipc = "idle"
    /\ inp' = IF inp.gen = gen THEN inp ELSE [gen |-> gen, conn |-> None]
    /\ ipc' = IF inp'.conn = None /\ display_name # None THEN "number" ELSE "idle"
    /\ inp' # inp \/ ipc' # ipc
    /\ UNCHANGED <<task, login, gate, session, xup, capture, inum>>

InputNumber ==
    /\ main = "serving" /\ ipc = "number"
    /\ inum' = bound /\ ipc' = "cookie"
    /\ UNCHANGED <<task, login, gate, session, xup, capture, inp>>

InputCookie ==
    /\ main = "serving" /\ ipc = "cookie"
    /\ ipc' = IF bound = inum /\ Up(inum) THEN "join" ELSE "idle"
    /\ UNCHANGED <<task, login, gate, session, xup, capture, inp, inum>>

InputJoin ==
    /\ main = "serving" /\ ipc = "join"
    /\ inp' = IF Up(inum) THEN [inp EXCEPT !.conn = inum] ELSE inp
    /\ ipc' = "idle"
    /\ UNCHANGED <<task, login, gate, session, xup, capture, inum>>

(* The logon screen's X server dies by itself.                                *)
LogonDies ==
    /\ LogonMayDie /\ xup /\ xup' = FALSE
    /\ UNCHANGED <<task, login, gate, session, capture, input>>

-----------------------------------------------------------------------------
Init ==
    /\ main = "accept" /\ pending \in Users \cup {None} /\ sent = FALSE /\ faults = 0
    /\ lpc = "none" /\ who = None /\ rl = FALSE
    /\ bound = None /\ gen = 0 /\ env = Ambient
    /\ noted = None /\ locked \in [Users -> BOOLEAN] /\ xup = FALSE
    /\ cpc = "lost" /\ fac = [gen |-> 0, name |-> None, conn |-> None]
    /\ nm = None /\ num = None /\ src = [gen |-> 0, name |-> None, conn |-> None] /\ lost = 0
    /\ ipc = "idle" /\ inp = [gen |-> 0, conn |-> None] /\ inum = None

Route   == Attach \/ SetEnv \/ BindKind \/ Unlock \/ Note
Form    == FormConnect \/ RunForm \/ DropGreeter
Capture == UpdatesSource \/ ReadName \/ ReadNumber \/ ReadCookie \/ Join \/ Mint
           \/ ReadBareName \/ MintBare \/ Poll \/ Follow \/ TryAttach
Input   == InputEvent \/ InputNumber \/ InputCookie \/ InputJoin

Next ==
    \/ Accept \/ OnConnectionInfo \/ OnDisconnected \/ Exit \/ Killed
    \/ Route \/ Form \/ Capture \/ LoseSource \/ Input \/ LogonDies

Spec == Init /\ [][Next]_vars

(* The display loop polls and attaches for as long as it runs, and the form's *)
(* thread and the connection's task are scheduled.                            *)
FairSpec == Spec /\ WF_vars(Capture) /\ WF_vars(Route) /\ WF_vars(DropGreeter) /\ WF_vars(Exit)

-----------------------------------------------------------------------------
(* Properties.                                                                *)

Conn == Screens \cup {None}

(* Every variable stays in its domain, and the route to a desktop is walked   *)
(* for an account that proved itself.                                         *)
TaskType ==
    /\ main \in {"accept", "info", "binding", "serving", "leaving", "closed"}
    /\ pending \in Users \cup {None} /\ sent \in BOOLEAN /\ faults \in 0 .. MaxFaults

LoginType ==
    /\ lpc \in {"none", "connect", "typing", "attach", "env", "bind", "unlock", "note", "drop", "done"}
    /\ who \in Users \cup {None} /\ rl \in BOOLEAN
    /\ lpc \in {"attach", "env", "bind", "unlock", "note"} => who \in Users

GateType == bound \in Users \cup {Logon, None} /\ gen \in Nat /\ env \in Screens

SessionType ==
    noted \in Users \cup {None} /\ locked \in [Users -> BOOLEAN] /\ xup \in BOOLEAN

CaptureType ==
    /\ cpc \in {"lost", "name", "number", "cookie", "join", "mint", "bare", "unnamed", "live", "follow"}
    /\ fac \in [gen : Nat, name : Conn, conn : Conn]
    /\ src \in [gen : Nat, name : Conn, conn : Conn]
    /\ nm \in Conn /\ num \in Conn /\ lost \in 0 .. MaxLost

InputType ==
    ipc \in {"idle", "number", "cookie", "join"} /\ inp \in [gen : Nat, conn : Conn] /\ inum \in Conn

TypeOK == TaskType /\ LoginType /\ GateType /\ SessionType /\ CaptureType /\ InputType

(* No part of the worker is ever connected to a screen other than the logon   *)
(* screen and the desktop of the account that proved itself; the ambient      *)
(* display and every other account's stay out of reach, also while bindings   *)
(* and connects overlap (gate.rs).                                            *)
OnlyOwnScreens ==
    \A c \in {fac.conn, src.conn, inp.conn} \ {None} : c = Logon \/ (c \in Users /\ c = who)

(* A connection that carries the gate's generation leads to the screen the    *)
(* gate names.                                                                *)
Fresh(c) == c.gen = gen /\ c.conn # None => c.conn = bound

(* A cached connection that carries the gate's generation is a connection to  *)
(* the screen the gate names: keystrokes, and the sizes asked of the display, *)
(* never go to the logon screen once the user is in (with_display,            *)
(* AnyInput::x11).  So it is with a frame source, unless the move overtook    *)
(* the connect it was minted from, which leaves the factory's stamp behind    *)
(* (updates_source).                                                          *)
CachesFollow == Fresh(fac) /\ Fresh(inp) /\ (cpc = "live" /\ fac.gen = gen => Fresh(src))

(* A desktop chosen by the credentials the client sent is locked again by the *)
(* time the worker is gone, also when the unlock before it failed or another  *)
(* thread was in the middle of something, unless the lock itself failed or    *)
(* the worker was killed (on_disconnected, bind_to_desktop).                  *)
SentIsLocked == sent /\ main = "closed" /\ bound # None /\ faults = 0 => locked[bound]

(* The strengthening OnlyOwnScreens rests on: whatever the gate, the          *)
(* environment or a half-made connection names is within reach, and nobody    *)
(* has proved themselves before the route to a desktop begins.                *)
Reach == {None, Logon, who}

ReachInv ==
    /\ main \in {"accept", "info"} => lpc = "none" /\ cpc = "lost"
    /\ lpc \in {"none", "connect", "typing"} => who = None
    /\ bound \in Reach /\ env \in Reach \cup {Ambient}
    /\ nm \in Reach /\ num \in Reach /\ inum \in Reach
    /\ fac.name \in Reach /\ fac.conn \in Reach
    /\ src.name \in Reach /\ src.conn \in Reach /\ inp.conn \in Reach

(* The strengthening CachesFollow rests on.  The caches: no stamp is ahead of *)
(* the gate, and a connect that began at this generation is heading for its   *)
(* screen.                                                                    *)
StampInv ==
    /\ fac.gen <= gen /\ inp.gen <= gen
    /\ cpc \in {"cookie", "join"} /\ fac.gen = gen => num = bound
    /\ ipc \in {"cookie", "join"} /\ inp.gen = gen => inum = bound
    /\ Fresh(fac) /\ Fresh(inp)

(* The source: until the gate has moved to a desktop every name read of it is *)
(* the one it has, and afterwards the environment names what it does.         *)
SourceInv ==
    /\ lpc \in {"none", "connect", "typing", "attach", "env", "bind"} => bound \notin Users
    /\ lpc = "bind" => env = who
    /\ bound \in Users => env = bound
    /\ bound \notin Users => nm \in {None, bound} /\ fac.name \in {None, bound} /\ src.name \in {None, bound}
    /\ cpc = "follow" => src.conn = None
    /\ cpc = "live" /\ fac.gen = gen => Fresh(src)

(* The strengthening SentIsLocked rests on: while the task walks the route,   *)
(* the record keeps the lock state it was read with until the unlock, and     *)
(* whoever is served is noted.                                                *)
LockInv ==
    /\ main = "binding" => sent
    /\ sent => main \in {"binding", "serving", "leaving", "closed"}
    /\ sent /\ main = "binding" =>
        \/ lpc = "attach" /\ bound = None
        \/ lpc \in {"env", "bind"} /\ bound = None /\ rl = locked[who]
        \/ lpc = "unlock" /\ bound = who /\ rl = locked[who]
        \/ lpc = "note" /\ bound = who
    /\ sent /\ main \in {"serving", "leaving"} => lpc = "done"
    /\ sent /\ main = "serving" => noted = bound
    /\ sent /\ bound # None => bound \in Users
    /\ sent /\ main = "leaving" /\ faults = 0 => bound = None \/ locked[bound]
    /\ main \in {"accept", "info"} => bound = None
    /\ SentIsLocked

IInv == TypeOK /\ ReachInv /\ StampInv /\ SourceInv /\ LockInv
=============================================================================
