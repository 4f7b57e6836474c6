------------------------------ MODULE Service ------------------------------
(***************************************************************************)
(* What a gateway process promises to those who start and stop it, said    *)
(* without its parts.  Work that it takes on is kept: charged and audited  *)
(* as it should be.  Told to stop, it finishes what it has, with whatever  *)
(* still comes by open connections, and stops; only if it aborts may work  *)
(* be lost, and then it does not claim to have stopped well.  Once it has  *)
(* ended nothing comes.  Module Lifecycle implements this.                 *)
(***************************************************************************)
CONSTANT Request

VARIABLES
  mode,  \* of the process
  work   \* request |-> what has become of it

svars == <<mode, work>>

Mode == {"starting", "serving", "draining", "aborting", "stopped", "failed"}
Work == {"none", "open", "kept", "lost"}

Init == mode = "starting" /\ work = [q \in Request |-> "none"]

Start == mode = "starting" /\ mode' = "serving" /\ UNCHANGED work
GiveUp == mode = "starting" /\ mode' = "failed" /\ UNCHANGED work
Drain == mode = "serving" /\ mode' = "draining" /\ UNCHANGED work
Abort == mode \in {"serving", "draining"} /\ mode' = "aborting" /\ UNCHANGED work

Accept(q) ==
  /\ mode \in {"serving", "draining", "aborting"} /\ work[q] = "none"
  /\ work' = [work EXCEPT ![q] = "open"]
  /\ UNCHANGED mode

Keep(q) ==
  /\ mode \in {"serving", "draining", "aborting"} /\ work[q] = "open"
  /\ work' = [work EXCEPT ![q] = "kept"]
  /\ UNCHANGED mode

Lose(q) ==
  /\ mode = "aborting" /\ work[q] = "open"
  /\ work' = [work EXCEPT ![q] = "lost"]
  /\ UNCHANGED mode

\* A good end: nothing is open any more.
Stop ==
  /\ mode = "draining" /\ \A q \in Request : work[q] # "open"
  /\ mode' = "stopped"
  /\ UNCHANGED work

\* A bad end: what was open goes down with the process.
Die ==
  /\ mode = "aborting"
  /\ mode' = "failed"
  /\ work' = [q \in Request |-> IF work[q] = "open" THEN "lost" ELSE work[q]]

Next ==
  \/ Start \/ GiveUp \/ Drain \/ Abort \/ Stop \/ Die
  \/ \E q \in Request : Accept(q) \/ Keep(q) \/ Lose(q)

\* Whoever drains comes to an end, good or bad; whoever aborts comes to a bad one.
Ends == Stop \/ (mode = "draining" /\ Abort) \/ Die

Spec == Init /\ [][Next]_svars /\ WF_svars(Ends)
=============================================================================
