-------------------------- MODULE LifecycleProofs --------------------------
(***************************************************************************)
(* Proofs about module Lifecycle, for any set of requests.                 *)
(***************************************************************************)
EXTENDS Lifecycle, TLAPS

(***************************************************************************)
(* What each place of the main goroutine means for the databases.          *)
(***************************************************************************)
StoreAt(audit, ledger) == store["audit"] = audit /\ store["ledger"] = ledger

StoresOK ==
  /\ step \in {"config", "audit"} => StoreAt("unopened", "unopened")
  /\ step = "ledger" => StoreAt("open", "unopened")
  /\ step \in {"auth", "assemble", "select", "shutdown", "close ledger"}
       => StoreAt("open", "open")
  /\ step = "close audit" => store["audit"] = "open" /\ store["ledger"] # "open"
  /\ step \in {"return", "exit"} => store["audit"] # "open" /\ store["ledger"] # "open"
  /\ listener # "off" => store["audit"] # "unopened" /\ store["ledger"] # "unopened"

(***************************************************************************)
(* What it means for the listener, and for the result of Execute.          *)
(***************************************************************************)
ListenerOK ==
  /\ step \in Startup => listener = "off"
  /\ step = "select" => listener \in {"starting", "up", "failed"}
  /\ step = "shutdown" => listener = "closed"
  /\ step \notin Startup \cup {"select"} => listener \in {"off", "failed", "closed"}
  /\ result = "none" <=> step \in Startup \cup {"select", "shutdown"}

(***************************************************************************)
(* Handlers run only in a process that has listened; a nil result leaves   *)
(* none behind, nor a connection by which another could come; and only a   *)
(* process about to return an error loses work.                            *)
(***************************************************************************)
HandlersOK ==
  /\ listener = "off" => \A q \in Request : handler[q] = "none"
  /\ result = "nil" => listener = "closed" /\ \A q \in Request : handler[q] \in {"none", "done"}
  /\ lost # {} => result = "error"
  /\ \A q \in lost : handler[q] \notin {"none", "connected"}

IInv == TypeOK /\ StoresOK /\ ListenerOK /\ HandlersOK

(***************************************************************************)
(* The inductive invariant: it holds at the start and every step, of the   *)
(* main goroutine, of the listener, of the operator and of a handler,      *)
(* preserves it.                                                           *)
(***************************************************************************)
THEOREM Inductive == Spec => []IInv
<1>1. Init => IInv
  BY DEF Init, IInv, TypeOK, StoresOK, StoreAt, ListenerOK, HandlersOK, Startup, Step,
         Listener, Phase, Active
<1>2. IInv /\ [Next]_vars => IInv'
  <2> SUFFICES ASSUME IInv, [Next]_vars PROVE IInv'
    OBVIOUS
  <2> USE DEF IInv, TypeOK, StoresOK, StoreAt, ListenerOK, HandlersOK, Startup, Step,
          Listener, Phase, Active, serving, main, others
  <2>1. CASE Fail
    BY <2>1 DEF Fail, FirstClose
  <2>2. CASE LoadConfig
    BY <2>2 DEF LoadConfig
  <2>3. CASE OpenAudit
    BY <2>3 DEF OpenAudit
  <2>4. CASE OpenLedger
    BY <2>4 DEF OpenLedger
  <2>5. CASE NewManager
    BY <2>5 DEF NewManager
  <2>6. CASE Assemble
    BY <2>6 DEF Assemble
  <2>7. CASE SelectDone
    BY <2>7 DEF SelectDone
  <2>8. CASE SelectError
    BY <2>8 DEF SelectError, FirstClose
  <2>9. CASE Drained
    BY <2>9 DEF Drained, FirstClose
  <2>10. CASE TimedOut
    BY <2>10 DEF TimedOut, FirstClose
  <2>11. CASE CloseLedger
    BY <2>11 DEF CloseLedger
  <2>12. CASE CloseAudit
    BY <2>12 DEF CloseAudit
  <2>13. CASE Exit
    BY <2>13 DEF Exit
  <2>14. CASE Listen
    BY <2>14 DEF Listen
  <2>15. CASE ListenFails
    BY <2>15 DEF ListenFails
  <2>16. CASE Signal
    BY <2>16 DEF Signal
  <2>17. CASE Expire
    BY <2>17 DEF Expire
  <2>18. ASSUME NEW q \in Request, Connect(q) \/ HangUp(q) \/ Accept(q) PROVE IInv'
    BY <2>18 DEF Connect, HangUp, Accept, Goto, Alive
  <2>19. ASSUME NEW q \in Request, Allow(q) PROVE IInv'
    BY <2>19 DEF Allow, Goto, Alive
  <2>20. ASSUME NEW q \in Request, CallProviders(q) PROVE IInv'
    BY <2>20 DEF CallProviders, Goto, Alive
  <2>21. ASSUME NEW q \in Request, RecordUsage(q) PROVE IInv'
    BY <2>21 DEF RecordUsage, Goto, Alive, Refused
  <2>22. ASSUME NEW q \in Request, RecordAudit(q) PROVE IInv'
    BY <2>22 DEF RecordAudit, Goto, Alive, Refused
  <2>23. CASE UNCHANGED vars
    BY <2>23 DEF vars
  <2> QED
    BY <2>1, <2>2, <2>3, <2>4, <2>5, <2>6, <2>7, <2>8, <2>9, <2>10, <2>11, <2>12, <2>13,
       <2>14, <2>15, <2>16, <2>17, <2>18, <2>19, <2>20, <2>21, <2>22, <2>23
       DEF Next, Main, Handle
<1> QED
  BY <1>1, <1>2, PTL DEF Spec

(***************************************************************************)
(* The state of the process keeps its types.                               *)
(***************************************************************************)
THEOREM TypeCorrect == Spec => []TypeOK
<1>1. IInv => TypeOK
  BY DEF IInv
<1> QED
  BY <1>1, Inductive, PTL

(***************************************************************************)
(* Exit code 0 means that nothing accepted was lost, for any number of     *)
(* requests: the nil result needs a drain that found no active handler,    *)
(* the listener was closed before it and no connection was left, and the   *)
(* databases close after it.                                               *)
(***************************************************************************)
THEOREM ExitIsClean == Spec => []CleanExit
<1>1. IInv => CleanExit
  BY DEF IInv, HandlersOK, CleanExit, Active
<1> QED
  BY <1>1, Inductive, PTL

(***************************************************************************)
(* Execute leaves no database open, whichever way it returns, and no       *)
(* handler meets a database that was never opened.                         *)
(***************************************************************************)
THEOREM NothingLeftOpen == Spec => []StoresReleased
<1>1. IInv => StoresReleased
  BY DEF IInv, TypeOK, StoresOK, HandlersOK, StoresReleased, Active
<1> QED
  BY <1>1, Inductive, PTL

----------------------------------------------------------------------------
(***************************************************************************)
(* Every step of the process is a step of module Service or none at all    *)
(* under the mapping of module Lifecycle.  Fairness is left to TLC.        *)
(***************************************************************************)
THEOREM ImplementsService == Spec => S!Init /\ [][S!Next]_(S!svars)
<1>1. Init => S!Init
  BY DEF Init, S!Init, mode, work, Startup
<1>2. IInv /\ [Next]_vars => [S!Next]_(S!svars)
  <2> SUFFICES ASSUME IInv, [Next]_vars PROVE [S!Next]_(S!svars)
    OBVIOUS
  <2> USE DEF S!svars
  <2>1. CASE Fail
    <3>1. S!GiveUp
      BY <2>1 DEF Fail, FirstClose, S!GiveUp, mode, work, IInv, TypeOK, StoresOK, StoreAt,
                  ListenerOK, HandlersOK, Startup, serving
    <3> QED BY <3>1 DEF S!Next
  <2>2. CASE LoadConfig \/ OpenAudit \/ OpenLedger \/ NewManager
    <3>1. UNCHANGED <<mode, work>>
      BY <2>2 DEF LoadConfig, OpenAudit, OpenLedger, NewManager, mode, work, IInv,
                  HandlersOK, ListenerOK, Startup, serving
    <3> QED BY <3>1
  <2>3. CASE Assemble
    <3>1. S!Start
      BY <2>3 DEF Assemble, S!Start, mode, work, IInv, HandlersOK, ListenerOK, Startup
    <3> QED BY <3>1 DEF S!Next
  <2>4. CASE SelectDone
    <3>1. S!Drain
      BY <2>4 DEF SelectDone, S!Drain, mode, work, Startup
    <3> QED BY <3>1 DEF S!Next
  <2>5. CASE SelectError
    <3>1. S!Abort
      BY <2>5 DEF SelectError, FirstClose, S!Abort, mode, work, IInv, StoresOK, StoreAt,
                  ListenerOK, Startup, serving
    <3> QED BY <3>1 DEF S!Next
  <2>6. CASE Drained
    <3>1. S!Stop
      BY <2>6 DEF Drained, FirstClose, S!Stop, mode, work, IInv, StoresOK, StoreAt,
                  Startup, Active, serving
    <3> QED BY <3>1 DEF S!Next
  <2>7. CASE TimedOut
    <3>1. S!Abort
      BY <2>7 DEF TimedOut, FirstClose, S!Abort, mode, work, IInv, StoresOK, StoreAt,
                  ListenerOK, Startup, serving
    <3> QED BY <3>1 DEF S!Next
  <2>8. CASE CloseLedger \/ CloseAudit
    <3>1. UNCHANGED <<mode, work>>
      BY <2>8 DEF CloseLedger, CloseAudit, mode, work, Startup, serving
    <3> QED BY <3>1
  <2>9. CASE Exit
    <3>1. CASE result = "nil" \/ listener = "off"
      <4>1. \A q \in Request : ~Active(q)
        BY <3>1 DEF IInv, HandlersOK, Active
      <4>2. UNCHANGED <<mode, work>>
        BY <2>9, <3>1, <4>1 DEF Exit, mode, work, Startup, Active, serving
      <4> QED BY <4>2
    <3>2. CASE result # "nil" /\ listener # "off"
      <4>1. S!Die
        BY <2>9, <3>2 DEF Exit, S!Die, mode, work, Startup, serving
      <4> QED BY <4>1 DEF S!Next
    <3> QED BY <3>1, <3>2
  <2>10. CASE Listen \/ ListenFails
    <3>1. listener # "off" /\ listener' # "off"
      BY <2>10 DEF Listen, ListenFails
    <3>2. UNCHANGED <<mode, work>>
      BY <2>10, <3>1 DEF Listen, ListenFails, mode, work, main
    <3> QED BY <3>2
  <2>11. CASE Signal \/ Expire
    <3>1. UNCHANGED <<mode, work>>
      BY <2>11 DEF Signal, Expire, mode, work, serving
    <3> QED BY <3>1
  <2>12. ASSUME NEW q \in Request, Accept(q) PROVE [S!Next]_(S!svars)
    <3>1. listener # "off" /\ result # "nil" /\ step # "exit" /\ q \notin lost
      BY <2>12 DEF Accept, Alive, IInv, HandlersOK
    <3>2. mode \in {"serving", "draining", "aborting"} /\ mode' = mode
      BY <2>12, <3>1 DEF Accept, mode, IInv, ListenerOK, others
    <3>3. work[q] = "none" /\ work' = [work EXCEPT ![q] = "open"]
      BY <2>12, <3>1 DEF Accept, Goto, work, IInv, TypeOK, others
    <3> QED BY <3>2, <3>3 DEF S!Next, S!Accept
  <2>13. ASSUME NEW q \in Request, Connect(q) \/ HangUp(q) PROVE [S!Next]_(S!svars)
    <3>1. UNCHANGED <<mode, work>>
      BY <2>13 DEF Connect, HangUp, Goto, mode, work, IInv, TypeOK, others
    <3> QED BY <3>1
  <2>14. ASSUME NEW q \in Request, Allow(q) \/ CallProviders(q)
         PROVE  [S!Next]_(S!svars)
    <3>1. CASE handler'[q] = "done" /\ q \notin lost
      <4>1. S!Keep(q)
        BY <2>14, <3>1 DEF Allow, CallProviders, Goto, Alive, S!Keep, mode, work, IInv, TypeOK,
                           ListenerOK, HandlersOK, Startup, Step, Active, others
      <4> QED BY <4>1 DEF S!Next
    <3>2. CASE ~(handler'[q] = "done" /\ q \notin lost)
      <4>1. UNCHANGED <<mode, work>>
        BY <2>14, <3>2 DEF Allow, CallProviders, Goto, Alive, mode, work, IInv, TypeOK, others
      <4> QED BY <4>1
    <3> QED BY <3>1, <3>2
  <2>15. ASSUME NEW q \in Request, RecordUsage(q) \/ RecordAudit(q)
         PROVE  [S!Next]_(S!svars)
    <3>1. CASE q \notin lost /\ q \in lost'
      <4>1. S!Lose(q)
        BY <2>15, <3>1 DEF RecordUsage, RecordAudit, Refused, Goto, Alive, S!Lose, mode, work,
                           IInv, TypeOK, StoresOK, StoreAt, ListenerOK, HandlersOK, Startup, Step,
                           Active, others
      <4> QED BY <4>1 DEF S!Next
    <3>2. CASE q \notin lost /\ q \notin lost' /\ RecordAudit(q)
      <4>1. S!Keep(q)
        BY <3>2 DEF RecordAudit, Refused, Goto, Alive, S!Keep, mode, work,
                    IInv, TypeOK, StoresOK, StoreAt, ListenerOK, HandlersOK, Startup, Step,
                    Active, others
      <4> QED BY <4>1 DEF S!Next
    <3>3. CASE q \in lost \/ (q \notin lost' /\ RecordUsage(q))
      <4>1. UNCHANGED <<mode, work>>
        BY <2>15, <3>3 DEF RecordUsage, RecordAudit, Refused, Goto, Alive, mode, work, IInv,
                           TypeOK, others
      <4> QED BY <4>1
    <3> QED BY <2>15, <3>1, <3>2, <3>3
  <2>16. CASE UNCHANGED vars
    <3>1. UNCHANGED <<mode, work>>
      BY <2>16 DEF vars, mode, work
    <3> QED BY <3>1
  <2> QED
    BY <2>1, <2>2, <2>3, <2>4, <2>5, <2>6, <2>7, <2>8, <2>9, <2>10, <2>11, <2>12, <2>13,
       <2>14, <2>15, <2>16 DEF Next, Main, Handle
<1> QED
  BY <1>1, <1>2, Inductive, PTL DEF Spec
=============================================================================
