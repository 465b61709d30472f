--------------------------- MODULE HandoverProofs ---------------------------
(* Proofs that a worker touches its own screens only and that its cached X    *)
(* connections follow the gate, for every set of accounts.                    *)
EXTENDS Handover, TLAPS

-----------------------------------------------------------------------------
(* Type correctness, one group of variables at a time.                        *)

(* The connection's task.                                                    *)
LEMMA TaskStep ==
  ASSUME TaskType, [Next]_vars
  PROVE  TaskType'
<1>1. CASE Accept \/ OnConnectionInfo \/ Exit \/ FormConnect
  BY <1>1, Zenon
     DEF TaskType, Accept, OnConnectionInfo, ShowGreeter, Exit, FormConnect, task
<1>a. CASE OnDisconnected \/ Killed
  BY <1>a, FaultsAssumption DEF TaskType, OnDisconnected, Killed
<1>2. CASE RunForm \/ Attach \/ SetEnv \/ BindKind \/ Unlock
  BY <1>2, Zenon
     DEF TaskType, RunForm, task, Attach, Refused, SetEnv, BindKind, Unlock
<1>3. CASE Note \/ DropGreeter \/ UpdatesSource \/ ReadName \/ ReadNumber
  BY <1>3, Zenon
     DEF TaskType, Note, DropGreeter, task, UpdatesSource, ReadName,
         ReadNumber
<1>4. CASE ReadCookie \/ Join \/ Mint \/ ReadBareName \/ MintBare
  BY <1>4, Zenon DEF TaskType, ReadCookie, task, Join, Mint, ReadBareName, MintBare
<1>5. CASE Poll \/ Follow \/ TryAttach \/ LoseSource \/ InputEvent
  BY <1>5, Zenon DEF TaskType, Poll, task, Follow, TryAttach, LoseSource, InputEvent
<1>6. CASE InputNumber \/ InputCookie \/ InputJoin \/ LogonDies
  BY <1>6, Zenon DEF TaskType, InputNumber, task, InputCookie, InputJoin, LogonDies
<1>7. CASE UNCHANGED vars
  BY <1>7, Zenon DEF TaskType, vars, task
<1>8. QED
  BY <1>1, <1>a, <1>2, <1>3, <1>4, <1>5, <1>6, <1>7, Zenon
     DEF Next, Route, Form, Capture, Input

(* The route to a desktop.                                                    *)
LEMMA LoginStep ==
  ASSUME TaskType, LoginType, SessionType, [Next]_vars
  PROVE  LoginType'
<1>1. CASE OnConnectionInfo
  BY <1>1, Zenon DEF LoginType, OnConnectionInfo, ShowGreeter, TaskType
<1>2. CASE RunForm
  BY <1>2, Zenon DEF LoginType, RunForm
<1>3. CASE Attach
  BY <1>3, Zenon DEF LoginType, Attach, SessionType, Refused
<1>4. CASE BindKind
  BY <1>4, Zenon DEF LoginType, BindKind, Refused
<1>5. CASE Unlock
  BY <1>5, Zenon DEF LoginType, Unlock, Refused
<1>6. CASE Accept \/ OnDisconnected \/ Exit \/ Killed \/ FormConnect \/ SetEnv
  BY <1>6, Zenon
     DEF LoginType, Accept, login, OnDisconnected, Exit, Killed, FormConnect, SetEnv
<1>7. CASE Note \/ DropGreeter \/ UpdatesSource \/ ReadName \/ ReadNumber
  BY <1>7, Zenon
     DEF LoginType, Note, DropGreeter, UpdatesSource, login, ReadName,
         ReadNumber
<1>8. CASE ReadCookie \/ Join \/ Mint \/ ReadBareName \/ MintBare
  BY <1>8, Zenon DEF LoginType, ReadCookie, login, Join, Mint, ReadBareName, MintBare
<1>9. CASE Poll \/ Follow \/ TryAttach \/ LoseSource \/ InputEvent
  BY <1>9, Zenon DEF LoginType, Poll, login, Follow, TryAttach, LoseSource, InputEvent
<1>10. CASE InputNumber \/ InputCookie \/ InputJoin \/ LogonDies
  BY <1>10, Zenon DEF LoginType, InputNumber, login, InputCookie, InputJoin, LogonDies
<1>11. CASE UNCHANGED vars
  BY <1>11, Zenon DEF LoginType, vars, login
<1>12. QED
  BY <1>1, <1>2, <1>3, <1>4, <1>5, <1>6, <1>7, <1>8, <1>9, <1>10, <1>11, Zenon
     DEF Next, Route, Form, Capture, Input

(* The gate and the environment it sets.                                      *)
LEMMA GateStep ==
  ASSUME LoginType, GateType, [Next]_vars
  PROVE  GateType'
<1>1. CASE OnConnectionInfo
  BY <1>1 DEF GateType, OnConnectionInfo, ShowGreeter, Screens, gate
<1>2. CASE SetEnv
  BY <1>2, Zenon DEF GateType, SetEnv, LoginType, Screens
<1>3. CASE BindKind
  BY <1>3 DEF GateType, BindKind, LoginType
<1>4. CASE Accept \/ OnDisconnected \/ Exit \/ Killed \/ FormConnect \/ RunForm
  BY <1>4, Zenon
     DEF GateType, Accept, gate, OnDisconnected, Exit, Killed, FormConnect, RunForm
<1>5. CASE Attach \/ Unlock \/ Note \/ DropGreeter \/ UpdatesSource
  BY <1>5, Zenon DEF GateType, Attach, gate, Unlock, Note, DropGreeter, UpdatesSource
<1>6. CASE ReadName \/ ReadNumber \/ ReadCookie \/ Join \/ Mint
  BY <1>6, Zenon DEF GateType, ReadName, gate, ReadNumber, ReadCookie, Join, Mint
<1>7. CASE ReadBareName \/ MintBare \/ Poll \/ Follow \/ TryAttach
  BY <1>7, Zenon DEF GateType, ReadBareName, gate, MintBare, Poll, Follow, TryAttach
<1>8. CASE LoseSource \/ InputEvent \/ InputNumber \/ InputCookie \/ InputJoin
  BY <1>8, Zenon
     DEF GateType, LoseSource, gate, InputEvent, InputNumber, InputCookie,
         InputJoin
<1>9. CASE LogonDies
  BY <1>9, Zenon DEF GateType, LogonDies, gate
<1>10. CASE UNCHANGED vars
  BY <1>10, Zenon DEF GateType, vars, gate
<1>11. QED
  BY <1>1, <1>2, <1>3, <1>4, <1>5, <1>6, <1>7, <1>8, <1>9, <1>10, Zenon
     DEF Next, Route, Form, Capture, Input

(* The record and what was noted of it.                                       *)
LEMMA SessionStep ==
  ASSUME LoginType, SessionType, [Next]_vars
  PROVE  SessionType'
<1>1. CASE OnDisconnected
  BY <1>1, Zenon DEF SessionType, OnDisconnected
<1>2. CASE Unlock
  BY <1>2, Zenon DEF SessionType, Unlock, LoginType
<1>3. CASE Note
  BY <1>3, Zenon DEF SessionType, Note, LoginType
<1>4. CASE Accept \/ OnConnectionInfo \/ Exit \/ Killed \/ FormConnect \/ RunForm
  BY <1>4, Zenon
     DEF SessionType, Accept, session, OnConnectionInfo, ShowGreeter, Exit, Killed, FormConnect,
         RunForm
<1>5. CASE Attach \/ SetEnv \/ BindKind \/ DropGreeter \/ UpdatesSource
  BY <1>5, Zenon
     DEF SessionType, Attach, session, SetEnv, BindKind, DropGreeter,
         UpdatesSource
<1>6. CASE ReadName \/ ReadNumber \/ ReadCookie \/ Join \/ Mint
  BY <1>6, Zenon
     DEF SessionType, ReadName, session, ReadNumber, ReadCookie, Join, Mint
<1>7. CASE ReadBareName \/ MintBare \/ Poll \/ Follow \/ TryAttach
  BY <1>7, Zenon
     DEF SessionType, ReadBareName, session, MintBare, Poll, Follow,
         TryAttach
<1>8. CASE LoseSource \/ InputEvent \/ InputNumber \/ InputCookie \/ InputJoin
  BY <1>8, Zenon
     DEF SessionType, LoseSource, session, InputEvent, InputNumber,
         InputCookie, InputJoin
<1>9. CASE LogonDies
  BY <1>9, Zenon DEF SessionType, LogonDies, session
<1>10. CASE UNCHANGED vars
  BY <1>10, Zenon DEF SessionType, vars, session
<1>11. QED
  BY <1>1, <1>2, <1>3, <1>4, <1>5, <1>6, <1>7, <1>8, <1>9, <1>10, Zenon
     DEF Next, Route, Form, Capture, Input

(* Capture: the factory, the half-made connection and the source.             *)
LEMMA CaptureStep ==
  ASSUME GateType, CaptureType, [Next]_vars
  PROVE  CaptureType'
<1>1. CASE Accept
  BY <1>1 DEF CaptureType, Accept, GateType, Conn, Screens, display_name
<1>2. CASE UpdatesSource
  BY <1>2, Zenon DEF CaptureType, UpdatesSource, GateType, Conn
<1>3. CASE ReadName
  BY <1>3 DEF CaptureType, ReadName, GateType, Conn, Screens, display_name
<1>4. CASE ReadNumber
  BY <1>4 DEF CaptureType, ReadNumber, GateType, Conn, Screens
<1>5. CASE Join
  BY <1>5, Zenon DEF CaptureType, Join
<1>6. CASE Mint
  BY <1>6, Zenon DEF CaptureType, Mint, GateType
<1>7. CASE ReadBareName
  BY <1>7 DEF CaptureType, ReadBareName, GateType, Conn, Screens, display_name
<1>8. CASE MintBare
  BY <1>8, Zenon DEF CaptureType, MintBare, GateType, Conn
<1>9. CASE Poll
  BY <1>9, Zenon DEF CaptureType, Poll, GateType, Conn, gate
<1>10. CASE Follow
  BY <1>10, Zenon DEF CaptureType, Follow, GateType, Conn, Screens, display_name
<1>11. CASE TryAttach
  BY <1>11, Zenon DEF CaptureType, TryAttach
<1>12. CASE LoseSource
  BY <1>12, FaultsAssumption DEF CaptureType, LoseSource
<1>13. CASE OnConnectionInfo \/ OnDisconnected \/ Exit \/ Killed \/ FormConnect \/ RunForm
  BY <1>13, Zenon
     DEF CaptureType, OnConnectionInfo, ShowGreeter, capture, OnDisconnected, Exit, Killed,
         FormConnect, RunForm
<1>14. CASE Attach \/ SetEnv \/ BindKind \/ Unlock \/ Note
  BY <1>14, Zenon DEF CaptureType, Attach, capture, SetEnv, BindKind, Unlock, Note
<1>15. CASE DropGreeter \/ ReadCookie \/ InputEvent \/ InputNumber \/ InputCookie
  BY <1>15, Zenon
     DEF CaptureType, DropGreeter, capture, ReadCookie, InputEvent,
         InputNumber, InputCookie
<1>16. CASE InputJoin \/ LogonDies
  BY <1>16, Zenon DEF CaptureType, InputJoin, capture, LogonDies
<1>17. CASE UNCHANGED vars
  BY <1>17, Zenon DEF CaptureType, vars, capture
<1>18. QED
  BY <1>1, <1>2, <1>3, <1>4, <1>5, <1>6, <1>7, <1>8, <1>9, <1>10, <1>11,
     <1>12, <1>13, <1>14, <1>15, <1>16, <1>17, Zenon
     DEF Next, Route, Form, Capture, Input

(* Input's connection.                                                       *)
LEMMA InputStep ==
  ASSUME GateType, InputType, [Next]_vars
  PROVE  InputType'
<1>1. CASE InputEvent
  BY <1>1, Zenon DEF InputType, InputEvent, GateType, Conn
<1>2. CASE InputNumber
  BY <1>2, Zenon DEF InputType, InputNumber, GateType, Conn, Screens
<1>3. CASE InputJoin
  BY <1>3, Zenon DEF InputType, InputJoin
<1>4. CASE Accept \/ OnConnectionInfo \/ OnDisconnected \/ Exit \/ Killed \/ FormConnect
  BY <1>4, Zenon
     DEF InputType, Accept, input, OnConnectionInfo, ShowGreeter, OnDisconnected, Exit, Killed,
         FormConnect
<1>5. CASE RunForm \/ Attach \/ SetEnv \/ BindKind \/ Unlock
  BY <1>5, Zenon DEF InputType, RunForm, input, Attach, SetEnv, BindKind, Unlock
<1>6. CASE Note \/ DropGreeter \/ UpdatesSource \/ ReadName \/ ReadNumber
  BY <1>6, Zenon
     DEF InputType, Note, input, DropGreeter, UpdatesSource, ReadName,
         ReadNumber
<1>7. CASE ReadCookie \/ Join \/ Mint \/ ReadBareName \/ MintBare
  BY <1>7, Zenon DEF InputType, ReadCookie, input, Join, Mint, ReadBareName, MintBare
<1>8. CASE Poll \/ Follow \/ TryAttach \/ LoseSource \/ InputCookie
  BY <1>8, Zenon
     DEF InputType, Poll, input, Follow, TryAttach, LoseSource, InputCookie
<1>9. CASE LogonDies
  BY <1>9, Zenon DEF InputType, LogonDies, input
<1>10. CASE UNCHANGED vars
  BY <1>10, Zenon DEF InputType, vars, input
<1>11. QED
  BY <1>1, <1>2, <1>3, <1>4, <1>5, <1>6, <1>7, <1>8, <1>9, <1>10, Zenon
     DEF Next, Route, Form, Capture, Input

(* What a connect that stands and a poll leave in the records they change.    *)
LEMMA JoinEffect ==
  ASSUME CaptureType, Join
  PROVE  /\ \/ fac'.gen = fac.gen /\ fac'.name = nm /\ fac'.conn = num /\ cpc' = "mint"
            \/ UNCHANGED fac /\ cpc' = "bare"
         /\ main = "serving" /\ cpc = "join"
         /\ UNCHANGED <<task, login, gate, nm, num, src, input>>
BY Zenon DEF CaptureType, Join

(* A poll keeps the source, drops it, or mints one the gate leads to.         *)
LEMMA PollEffect ==
  ASSUME CaptureType, Poll
  PROVE  /\ main = "serving"
         /\ src'.conn \in {None, src.name} /\ src'.name = src.name
         /\ UNCHANGED <<task, login, gate, fac, nm, num, input>>
BY Zenon DEF CaptureType, Poll

(* The invariant holds initially.                                             *)
LEMMA InitInv ==
  ASSUME Init
  PROVE  IInv
<1>1. 0 \in 0 .. MaxFaults
  BY FaultsAssumption
<1>2. TaskType
  BY <1>1, Zenon DEF Init, TaskType
<1>3. LoginType /\ GateType
  BY ScreensAssumption, Zenon DEF Init, LoginType, GateType, Screens
<1>4. SessionType /\ InputType
  BY Zenon DEF Init, SessionType, InputType, Conn
<1>5. CaptureType
  BY FaultsAssumption DEF Init, CaptureType, Conn
<1>6. ReachInv
  BY Zenon DEF Init, ReachInv, Reach
<1>7. StampInv
  BY DEF Init, StampInv, Fresh
<1>8. SourceInv
  BY ScreensAssumption DEF Init, SourceInv, Fresh
<1>9. LockInv
  BY Zenon DEF Init, LockInv, SentIsLocked
<1> QED
  BY <1>2, <1>3, <1>4, <1>5, <1>6, <1>7, <1>8, <1>9, Zenon DEF IInv, TypeOK

(* Every screen a step can read, hold or connect to stays within reach.       *)
LEMMA ReachStep ==
  ASSUME TaskType, LoginType, CaptureType, InputType, ReachInv, [Next]_vars
  PROVE  ReachInv'
<1> USE DEF Reach
<1>1. CASE Accept
  BY <1>1 DEF ReachInv, Accept, display_name, login, gate, input
<1>2. CASE OnConnectionInfo
  BY <1>2 DEF ReachInv, OnConnectionInfo, ShowGreeter, capture, input, gate
<1>3. CASE RunForm
  BY <1>3 DEF ReachInv, RunForm, task, gate, capture, input
<1>4. CASE Attach
  BY <1>4 DEF ReachInv, Attach, Refused, task, gate, capture, input
<1>5. CASE SetEnv
  BY <1>5 DEF ReachInv, SetEnv, task, capture, input
<1>6. CASE BindKind
  BY <1>6 DEF ReachInv, BindKind, Refused, task, capture, input
<1>7. CASE UpdatesSource
  BY <1>7 DEF ReachInv, UpdatesSource, task, login, gate, input, CaptureType
<1>8. CASE ReadName
  BY <1>8 DEF ReachInv, ReadName, display_name, task, login, gate, input
<1>9. CASE ReadNumber
  BY <1>9 DEF ReachInv, ReadNumber, task, login, gate, input
<1>10. CASE Join
  BY <1>10, JoinEffect DEF ReachInv, task, login, gate, input
<1>11. CASE Mint
  BY <1>11 DEF ReachInv, Mint, task, login, gate, input, CaptureType
<1>12. CASE ReadBareName
  BY <1>12 DEF ReachInv, ReadBareName, display_name, task, login, gate, input
<1>13. CASE Poll
  BY <1>13, PollEffect, Zenon DEF ReachInv, task, login, gate, input
<1>14. CASE Follow
  BY <1>14
     DEF ReachInv, Follow, display_name, task, login, gate, input,
         CaptureType
<1>15. CASE TryAttach
  BY <1>15 DEF ReachInv, TryAttach, task, login, gate, input, CaptureType
<1>16. CASE InputEvent
  BY <1>16
     DEF ReachInv, InputEvent, display_name, task, login, gate, capture,
         InputType
<1>17. CASE InputNumber
  BY <1>17 DEF ReachInv, InputNumber, task, login, gate, capture
<1>18. CASE InputJoin
  BY <1>18 DEF ReachInv, InputJoin, task, login, gate, capture, InputType
<1>19. CASE LoseSource
  BY <1>19 DEF ReachInv, LoseSource, task, login, gate, input
<1>20. CASE MintBare
  BY <1>20 DEF ReachInv, MintBare, task, login, gate, input
<1>21. CASE ReadCookie
  BY <1>21 DEF ReachInv, ReadCookie, task, login, gate, input
<1>22. CASE LogonDies
  BY <1>22 DEF ReachInv, LogonDies, task, login, gate, capture, input
<1>23. CASE OnDisconnected \/ Exit \/ Killed \/ FormConnect \/ Unlock \/ Note
  BY <1>23, Zenon
     DEF ReachInv, OnDisconnected, login, gate, capture, input, Exit, Killed,
         FormConnect, task, Unlock, Refused, Note
<1>24. CASE DropGreeter \/ InputCookie
  BY <1>24, Zenon
     DEF ReachInv, DropGreeter, task, gate, capture, input, InputCookie,
         login
<1>25. CASE UNCHANGED vars
  <2>1. UNCHANGED <<main, lpc, who, bound, env, cpc, nm, num, inum>>
    BY <1>25, Zenon DEF vars, task, login, gate, capture, input
  <2>2. UNCHANGED <<fac, src, inp>>
    BY <1>25, Zenon DEF vars, capture, input
  <2>3. QED
    BY <2>1, <2>2 DEF ReachInv
<1>26. QED
  BY <1>1, <1>2, <1>3, <1>4, <1>5, <1>6, <1>7, <1>8, <1>9, <1>10, <1>11,
     <1>12, <1>13, <1>14, <1>15, <1>16, <1>17, <1>18, <1>19, <1>20, <1>21,
     <1>22, <1>23, <1>24, <1>25, Zenon
     DEF Next, Route, Form, Capture, Input

(* The stamps of the caches and the half-made connections keep up.            *)
LEMMA StampStep ==
  ASSUME GateType, CaptureType, InputType, ReachInv, StampInv, [Next]_vars
  PROVE  StampInv'
<1> USE DEF Fresh
<1>a. /\ gen \in Nat
      /\ fac \in [gen : Nat, name : Conn, conn : Conn]
      /\ inp \in [gen : Nat, conn : Conn]
  BY Zenon DEF GateType, CaptureType, InputType
<1>b. main = "accept" => cpc = "lost"
  BY Zenon DEF ReachInv
<1>1. CASE Accept
  BY <1>1, <1>a, <1>b DEF StampInv, Accept, display_name, gate, input
<1>2. CASE OnConnectionInfo
  BY <1>2, <1>a DEF StampInv, OnConnectionInfo, ShowGreeter, capture, input, gate
<1>3. CASE BindKind
  BY <1>3, <1>a DEF StampInv, BindKind, Refused, capture, input
<1>4. CASE UpdatesSource
  BY <1>4, <1>a DEF StampInv, UpdatesSource, gate, input
<1>5. CASE ReadNumber
  BY <1>5, <1>a, Zenon DEF StampInv, ReadNumber, gate, input
<1>6. CASE ReadCookie
  BY <1>6, <1>a, Zenon DEF StampInv, ReadCookie, gate, input
<1>7. CASE ReadName
  BY <1>7, <1>a, Zenon DEF StampInv, ReadName, display_name, gate, input
<1>8. CASE Join
  BY <1>8, <1>a, JoinEffect DEF StampInv, gate, input
<1>9. CASE InputEvent
  BY <1>9, <1>a DEF StampInv, InputEvent, display_name, gate, capture
<1>10. CASE InputNumber
  BY <1>10, <1>a, Zenon DEF StampInv, InputNumber, gate, capture
<1>11. CASE InputCookie
  BY <1>11, <1>a, Zenon DEF StampInv, InputCookie, gate, capture
<1>12. CASE InputJoin
  BY <1>12, <1>a, Zenon DEF StampInv, InputJoin, gate, capture
<1>13. CASE OnDisconnected \/ Exit \/ Killed \/ FormConnect \/ RunForm \/ Attach
  BY <1>13, Zenon
     DEF StampInv, OnDisconnected, gate, capture, input, Exit, Killed, FormConnect,
         RunForm, Attach
<1>14. CASE SetEnv \/ Unlock \/ Note \/ DropGreeter \/ Mint
  BY <1>14, Zenon
     DEF StampInv, SetEnv, capture, input, Unlock, gate, Note, DropGreeter,
         Mint
<1>15. CASE ReadBareName \/ MintBare \/ Poll \/ Follow \/ TryAttach
  BY <1>15, Zenon
     DEF StampInv, ReadBareName, gate, input, MintBare, Poll, Follow,
         TryAttach
<1>16. CASE LoseSource \/ LogonDies
  BY <1>16, Zenon DEF StampInv, LoseSource, gate, input, LogonDies, capture
<1>17. CASE UNCHANGED vars
  BY <1>17, Zenon DEF StampInv, vars, gate, capture, input
<1>18. QED
  BY <1>1, <1>2, <1>3, <1>4, <1>5, <1>6, <1>7, <1>8, <1>9, <1>10, <1>11,
     <1>12, <1>13, <1>14, <1>15, <1>16, <1>17, Zenon
     DEF Next, Route, Form, Capture, Input

(* The names the source goes by keep up with the gate, and only a mint that   *)
(* the gate has overtaken puts it on another screen.                          *)
LEMMA SourceStep ==
  ASSUME TaskType, LoginType, GateType, CaptureType, ReachInv, StampInv, SourceInv, LockInv,
         [Next]_vars
  PROVE  SourceInv'
<1>a. gen \in Nat /\ fac.gen \in Nat /\ fac.gen <= gen
  BY DEF GateType, CaptureType, StampInv
<1>b. \A s \in Conn : Dial(s) /\ s = src.name => s = bound
  BY DEF Dial, SourceInv
<1>1. CASE OnConnectionInfo
  <2>1. bound = None /\ cpc = "lost" /\ lpc = "none"
    BY <1>1, Zenon DEF OnConnectionInfo, ShowGreeter, LockInv, ReachInv
  <2>2. CASE UNCHANGED bound
    BY <1>1, <2>1, <2>2, ScreensAssumption DEF OnConnectionInfo, ShowGreeter, SourceInv, Fresh, capture, gate
  <2>3. CASE bound' = Logon /\ lpc' = "connect"
    BY <1>1, <2>1, <2>3, ScreensAssumption DEF OnConnectionInfo, ShowGreeter, SourceInv, Fresh, capture
  <2>4. QED
    BY <1>1, <2>2, <2>3, Zenon DEF OnConnectionInfo, ShowGreeter, gate
<1>2. CASE Accept
  <2>1. cpc = "lost"
    BY <1>2, Zenon DEF Accept, ReachInv
  <2>2. QED
    BY <1>2, <2>1 DEF Accept, SourceInv, Fresh, display_name, login, gate
<1>3. CASE FormConnect \/ RunForm \/ Attach
  BY <1>3, ScreensAssumption DEF FormConnect, RunForm, Attach, Refused, SourceInv, LoginType, Fresh, gate, capture
<1>4. CASE SetEnv
  BY <1>4, Zenon DEF SetEnv, SourceInv, Fresh, capture
<1>5. CASE BindKind
  <2>1. CASE bound' = who /\ gen' = gen + 1 /\ lpc' = "unlock"
    <3>1. fac.gen # gen'
      BY <1>a, <2>1
    <3>2. env' = who /\ who \in Users /\ UNCHANGED <<cpc, nm, fac, src>>
      BY <1>5, Zenon DEF BindKind, SourceInv, LoginType, capture
    <3>3. QED
      BY <2>1, <3>1, <3>2, Zenon DEF SourceInv
  <2>2. CASE UNCHANGED <<bound, gen>>
    BY <1>5, <2>2, Zenon DEF BindKind, Refused, SourceInv, Fresh, capture, task
  <2>3. QED
    BY <1>5, <2>1, <2>2, Zenon DEF BindKind
<1>6. CASE UpdatesSource
  BY <1>6 DEF UpdatesSource, SourceInv, Fresh, login, gate
<1>7. CASE ReadName \/ ReadBareName
  BY <1>7, Zenon DEF ReadName, ReadBareName, SourceInv, Fresh, display_name, login, gate
<1>8. CASE ReadNumber \/ ReadCookie
  BY <1>8, Zenon DEF ReadNumber, ReadCookie, SourceInv, Fresh, login, gate
<1>9. CASE Join
  BY <1>9, JoinEffect DEF SourceInv, Fresh, login, gate
<1>10. CASE Mint
  BY <1>10, <1>a DEF Mint, SourceInv, StampInv, Fresh, login, gate
<1>11. CASE MintBare
  BY <1>11 DEF MintBare, SourceInv, Fresh, login, gate
<1>12. CASE Poll
  <2>1. CASE src'.conn = None /\ src'.name = src.name
    BY <1>12, <2>1, Zenon DEF Poll, SourceInv, Fresh, login, gate
  <2>2. CASE Dial(src.name) /\ src'.conn = src.name /\ src'.name = src.name /\ cpc' = "live"
    <3>1. src'.conn = bound
      BY <1>b, <2>2 DEF CaptureType
    <3>2. QED
      BY <1>12, <2>2, <3>1, Zenon DEF Poll, SourceInv, Fresh, login, gate
  <2>3. \/ src' = [src EXCEPT !.gen = gen, !.conn = None]
        \/ Dial(src.name) /\ src' = [src EXCEPT !.conn = src.name] /\ cpc' = "live"
    BY <1>12, Zenon DEF Poll
  <2>4. QED
    BY <2>1, <2>2, <2>3, Zenon DEF CaptureType
<1>13. CASE Follow
  BY <1>13 DEF Follow, SourceInv, Fresh, display_name, CaptureType, login, gate
<1>14. CASE TryAttach
  <2>1. src'.conn = src.name /\ src'.name = src.name
    BY <1>14 DEF TryAttach, CaptureType
  <2>2. src'.conn = bound
    BY <1>14, <1>b, <2>1 DEF TryAttach, CaptureType
  <2>3. QED
    BY <1>14, <2>1, <2>2, Zenon DEF TryAttach, SourceInv, Fresh, login, gate
<1>15. CASE OnDisconnected \/ Exit \/ Killed \/ LogonDies
  BY <1>15, Zenon
     DEF OnDisconnected, Exit, Killed, LogonDies, SourceInv, Fresh, login, gate, capture
<1>16. CASE Unlock \/ Note \/ DropGreeter
  BY <1>16, Zenon DEF Unlock, Note, DropGreeter, Refused, task, SourceInv, Fresh, gate, capture
<1>17. CASE LoseSource
  BY <1>17, Zenon DEF LoseSource, SourceInv, Fresh, login, gate
<1>18. CASE Input
  BY <1>18, Zenon
     DEF Input, InputEvent, InputNumber, InputCookie, InputJoin, SourceInv, Fresh, login, gate,
         capture
<1>19. CASE UNCHANGED vars
  BY <1>19, Zenon DEF vars, SourceInv, Fresh, login, gate, capture
<1>20. QED
  BY <1>1, <1>2, <1>3, <1>4, <1>5, <1>6, <1>7, <1>8, <1>9, <1>10, <1>11,
     <1>12, <1>13, <1>14, <1>15, <1>16, <1>17, <1>18, <1>19, Zenon
     DEF Next, Route, Form, Capture

(* Whoever is let in by their credentials is locked behind when they leave.   *)
LEMMA LockStep ==
  ASSUME TaskType, LoginType, SessionType, ReachInv, LockInv, [Next]_vars
  PROVE  LockInv'
<1> USE DEF SentIsLocked
<1>a. lpc \in {"bind", "unlock"} => who \in Users
  BY Zenon DEF LoginType
<1>b. lpc = "bind" => main \notin {"accept", "info"}
  BY Zenon DEF ReachInv
<1>1. CASE Accept
  BY <1>1, Zenon DEF LockInv, Accept, login, gate, session
<1>2. CASE OnConnectionInfo
  BY <1>2 DEF LockInv, OnConnectionInfo, ShowGreeter, TaskType, session, gate
<1>3. CASE OnDisconnected
  <2>1. /\ main = "serving" /\ main' = "leaving" /\ UNCHANGED <<sent, lpc, bound, noted>>
        /\ \/ locked' = [u \in Users |-> locked[u] \/ u = noted] /\ faults' = faults
           \/ faults' = faults + 1
    BY <1>3, Zenon DEF OnDisconnected, login, gate
  <2>2. faults' = 0 => \A u \in Users : locked'[u] = (locked[u] \/ u = noted)
    BY <2>1 DEF TaskType
  <2>3. QED
    BY <2>1, <2>2, Zenon DEF LockInv
<1>4. CASE Exit
  BY <1>4, Zenon DEF LockInv, Exit, login, gate, session
<1>c. CASE Killed
  <2>1. main' = "closed" /\ faults' = faults + 1 /\ UNCHANGED <<sent, lpc, bound, noted, locked>>
    BY <1>c, Zenon DEF Killed, login, gate, session
  <2>2. faults' # 0
    BY <2>1 DEF TaskType
  <2>3. QED
    BY <2>1, <2>2, Zenon DEF LockInv
<1>5. CASE FormConnect
  BY <1>5, Zenon DEF LockInv, FormConnect, task, gate, session
<1>6. CASE RunForm
  BY <1>6, Zenon DEF LockInv, RunForm, task, gate, session
<1>7. CASE DropGreeter
  BY <1>7, Zenon DEF LockInv, DropGreeter, task, gate, session
<1>8. CASE Attach
  BY <1>8 DEF LockInv, Attach, Refused, task, gate, session
<1>9. CASE SetEnv
  BY <1>9, Zenon DEF LockInv, SetEnv, task, session
<1>10. CASE BindKind
  BY <1>10, <1>a, <1>b DEF LockInv, BindKind, Refused, bind_into, task, session
<1>11. CASE Unlock
  BY <1>11, <1>a DEF LockInv, Unlock, Refused, SessionType, task, gate
<1>12. CASE Note
  BY <1>12, Zenon DEF LockInv, Note, gate
<1>13. CASE UpdatesSource \/ ReadName \/ ReadNumber \/ ReadCookie \/ Join
  BY <1>13
     DEF LockInv, UpdatesSource, task, login, gate, session, ReadName,
         ReadNumber, ReadCookie, Join
<1>14. CASE Mint \/ ReadBareName \/ MintBare \/ Poll \/ Follow
  BY <1>14
     DEF LockInv, Mint, task, login, gate, session, ReadBareName, MintBare,
         Poll, Follow
<1>15. CASE TryAttach \/ LoseSource \/ InputEvent \/ InputNumber \/ InputCookie
  BY <1>15
     DEF LockInv, TryAttach, task, login, gate, session, LoseSource,
         InputEvent, InputNumber, InputCookie
<1>16. CASE InputJoin \/ LogonDies
  BY <1>16 DEF LockInv, InputJoin, task, login, gate, session, LogonDies
<1>17. CASE UNCHANGED vars
  BY <1>17, Zenon DEF LockInv, vars, task, login, gate, session
<1>18. QED
  BY <1>1, <1>c, <1>2, <1>3, <1>4, <1>5, <1>6, <1>7, <1>8, <1>9, <1>10, <1>11,
     <1>12, <1>13, <1>14, <1>15, <1>16, <1>17, Zenon
     DEF Next, Route, Form, Capture, Input

(* The joint invariant is kept by every step.                                 *)
LEMMA Invariance ==
  ASSUME IInv, [Next]_vars
  PROVE  IInv'
BY TaskStep, LoginStep, GateStep, SessionStep, CaptureStep, InputStep,
   ReachStep, StampStep, SourceStep,
   LockStep, Zenon
   DEF IInv, TypeOK

-----------------------------------------------------------------------------
(* The variables of the worker stay in their domains.                         *)
THEOREM TypeCorrect == Spec => []TypeOK
<1>1. IInv => TypeOK
  BY Zenon DEF IInv
<1> QED
  BY <1>1, InitInv, Invariance, PTL DEF Spec

(* A worker never holds a connection to the ambient display or to another     *)
(* account's desktop (gate.rs).                                               *)
THEOREM OwnScreens == Spec => []OnlyOwnScreens
<1>1. IInv => OnlyOwnScreens
  BY Zenon DEF IInv, TypeOK, LoginType, ReachInv, Reach, OnlyOwnScreens
<1> QED
  BY <1>1, InitInv, Invariance, PTL DEF Spec

(* A cached connection stamped with the gate's generation leads to the        *)
(* gate's screen (X11DisplayFactory::with_display, AnyInput::x11), and so     *)
(* does a frame source that was not overtaken while it was minted.            *)
THEOREM Following == Spec => []CachesFollow
<1>1. IInv => CachesFollow
  BY Zenon DEF IInv, StampInv, SourceInv, CachesFollow
<1> QED
  BY <1>1, InitInv, Invariance, PTL DEF Spec

(* A desktop reached by the credentials the client sent is locked behind it   *)
(* when the worker leaves by itself and the record can be written             *)
(* (SessionRouter::on_disconnected).                                          *)
THEOREM LockedOnLeave == Spec => []SentIsLocked
<1>1. IInv => SentIsLocked
  BY Zenon DEF IInv, LockInv
<1> QED
  BY <1>1, InitInv, Invariance, PTL DEF Spec
=============================================================================
