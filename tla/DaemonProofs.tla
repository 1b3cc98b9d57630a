---------------------------- MODULE DaemonProofs ----------------------------
(***************************************************************************)
(* Proofs about Socket and about Daemon, which adds to it, for any daemons *)
(* and executions: the flock and the phase of each process determine each  *)
(* other, and with them what clients find at the path; and whose rows the  *)
(* reaper ends.                                                            *)
(***************************************************************************)
EXTENDS Daemon, TLAPS

-----------------------------------------------------------------------------
(* The socket                                                              *)

\* A process is between Listen's flock and Close's unlock exactly while it
\* holds the lock.
LockMatchesPhase == \A d \in Daemons : lock = d <=> at[d] \in Holding

\* The path shows the socket of a process exactly while that process is
\* between bind and unlink, and nothing right before the bind.
PathMatchesPhase ==
  \A d \in Daemons : /\ path = d <=> at[d] \in {"bound", "serving", "closing"}
                     /\ at[d] = "cleared" => path = Nobody

SocketInv == TypeOK /\ LockMatchesPhase /\ PathMatchesPhase

LEMMA MishapType ==
  ASSUME mishaps \in 0..MaxMishaps, Mishap
  PROVE  mishaps' \in 0..MaxMishaps
  BY SocketAssumption DEF Mishap

LEMMA SocketStarts == Init => SocketInv
<1> SUFFICES ASSUME Init PROVE SocketInv
  OBVIOUS
<1>1. TypeOK
  BY SocketAssumption DEF Init, TypeOK, Holding
<1>2. LockMatchesPhase /\ PathMatchesPhase
  BY SocketAssumption DEF Init, LockMatchesPhase, PathMatchesPhase, Holding
<1> QED
  BY <1>1, <1>2 DEF SocketInv

LEMMA SocketSteps ==
  ASSUME SocketInv, [Next]_socketVars
  PROVE  SocketInv'
<1> USE SocketAssumption DEF SocketInv, TypeOK, LockMatchesPhase, PathMatchesPhase, Holding
<1>1. ASSUME NEW d \in Daemons, TakeLock(d) PROVE SocketInv'
  BY <1>1 DEF TakeLock, Step
<1>2. ASSUME NEW d \in Daemons, Refuse(d) \/ Leave(d) PROVE SocketInv'
  BY <1>2 DEF Refuse, Leave, Step
<1>3. ASSUME NEW d \in Daemons, Clear(d) PROVE SocketInv'
  BY <1>3 DEF Clear, Step
<1>4. ASSUME NEW d \in Daemons, Bind(d) PROVE SocketInv'
  BY <1>4 DEF Bind, Step
<1>5. ASSUME NEW d \in Daemons, ListenFails(d) PROVE SocketInv'
  <2>1. at[d] \in {"locked", "cleared"} /\ at' = [at EXCEPT ![d] = "out"]
    BY <1>5 DEF ListenFails, Step
  <2>2. lock' = Nobody /\ path' = path /\ mishaps' \in 0..MaxMishaps
    BY <1>5, MishapType DEF ListenFails
  <2> QED
    BY <2>1, <2>2
<1>6. ASSUME NEW d \in Daemons, Chmod(d) \/ Shutdown(d) PROVE SocketInv'
  BY <1>6 DEF Chmod, Shutdown, Step
<1>7. ASSUME NEW d \in Daemons, ChmodFails(d) PROVE SocketInv'
  <2>1. mishaps' \in 0..MaxMishaps
    BY <1>7, MishapType DEF ChmodFails
  <2> QED
    BY <1>7, <2>1 DEF ChmodFails, Step
<1>8. ASSUME NEW d \in Daemons, Unlink(d) PROVE SocketInv'
  BY <1>8 DEF Unlink, Step
<1>9. ASSUME NEW d \in Daemons, Unlock(d) PROVE SocketInv'
  BY <1>9 DEF Unlock, Step
<1>10. ASSUME NEW d \in Daemons, Crash(d) PROVE SocketInv'
  <2>1. /\ at' = [at EXCEPT ![d] = "out"]
        /\ lock' = IF lock = d THEN Nobody ELSE lock
        /\ path' = IF path = d THEN Stale ELSE path
        /\ mishaps' \in 0..MaxMishaps
    BY <1>10, MishapType DEF Crash
  <2>2. TypeOK'
    BY <2>1
  <2>3. LockMatchesPhase'
    BY <2>1
  <2>4. PathMatchesPhase'
    <3>1. CASE at[d] \in Holding
      BY <3>1, <2>1
    <3>2. CASE at[d] \notin Holding
      BY <3>2, <2>1
    <3> QED
      BY <3>1, <3>2
  <2> QED
    BY <2>2, <2>3, <2>4
<1>11. CASE UNCHANGED socketVars
  BY <1>11 DEF socketVars
<1> QED
  BY <1>1, <1>2, <1>3, <1>4, <1>5, <1>6, <1>7, <1>8, <1>9, <1>10, <1>11 DEF Next, ListenStep, CloseStep

(* The lock, the path and the phases agree in every reachable state. *)
THEOREM SocketInvariant == Spec => []SocketInv
  BY SocketStarts, SocketSteps, PTL DEF Spec

(* Every variable keeps its type. *)
THEOREM SocketTypeCorrect == Spec => []TypeOK
<1>1. SocketInv => TypeOK
  BY DEF SocketInv
<1> QED
  BY <1>1, SocketInvariant, PTL

(* Two daemons never both hold a listener on the socket path. *)
THEOREM ListenerIsUnique == Spec => []OneListener
<1>1. SocketInv => OneListener
  BY DEF SocketInv, LockMatchesPhase, OneListener, Holding, Listening
<1> QED
  BY <1>1, SocketInvariant, PTL

(* The socket of a daemon that serves is the one clients find at the path. *)
THEOREM ServingReachable == Spec => []ServingIsReachable
<1>1. SocketInv => ServingIsReachable
  BY DEF SocketInv, PathMatchesPhase, ServingIsReachable
<1> QED
  BY <1>1, SocketInvariant, PTL

(* A live socket is only taken off the path by its own daemon's end.       *)
THEOREM LiveSocketStays == Spec => NeverDisplaced
<1>1. ASSUME SocketInv, [Next]_socketVars, NEW d \in Daemons, path = d, path' # d
      PROVE  at'[d] \in {"unlinked", "out"} /\ at'[d] # at[d]
  <2> USE SocketAssumption, <1>1 DEF SocketInv, TypeOK, LockMatchesPhase, PathMatchesPhase, Holding
  <2>1. at[d] \in {"bound", "serving", "closing"} /\ lock = d
    BY <1>1
  <2>2. PICK e \in Daemons : Clear(e) \/ Bind(e) \/ Unlink(e) \/ Crash(e)
    BY <1>1 DEF Next, ListenStep, CloseStep, TakeLock, Refuse, Leave, ListenFails, Chmod, ChmodFails,
       Shutdown, Unlock, socketVars
  <2>3. e = d
    <3>1. CASE Clear(e) \/ Unlink(e) \/ Bind(e)
      BY <3>1, <2>1 DEF Clear, Unlink, Bind, Step
    <3>2. CASE Crash(e)
      BY <3>2, <1>1 DEF Crash
    <3> QED
      BY <2>2, <3>1, <3>2
  <2>4. ~Clear(d) /\ ~Bind(d)
    BY <2>1 DEF Clear, Bind, Step
  <2>5. CASE Unlink(d)
    BY <2>5 DEF Unlink, Step
  <2>6. CASE Crash(d)
    BY <2>6, <2>1 DEF Crash
  <2> QED
    BY <2>2, <2>3, <2>4, <2>5, <2>6
<1>2. SocketInv /\ [Next]_socketVars =>
        [\A d \in Daemons : path = d /\ path' # d => at'[d] \in {"unlinked", "out"} /\ at'[d] # at[d]]_socketVars
  BY <1>1
<1> QED
  BY <1>2, SocketInvariant, PTL DEF Spec, NeverDisplaced

-----------------------------------------------------------------------------
(* The inductive invariant of the daemons                                  *)

\* What the stage of a process says about its place in Listen and Close.
StageMatchesSocket ==
  \A d \in Daemons :
    /\ stage[d] \in {"down", "reap", "schedule", "draining"} => at[d] = "out"
    /\ stage[d] = "listen" => at[d] \in {"out", "locked", "cleared", "bound", "closing", "unlinked"}
    /\ stage[d] = "serving" => at[d] = "serving"
    /\ stage[d] = "closing" => at[d] \in {"closing", "unlinked"}
    /\ stage[d] = "leaving" => at[d] \in {"out", "refused"}

\* Runs belong to processes that are past their reaper.
Working == {"listen", "serving", "closing", "draining", "leaving"}
OwnersWork == \A x \in Executions : owner[x] # Nobody => stage[owner[x]] \in Working

\* As long as daemons are started one after the other, one is there.
AloneIsOne == alone => \A d, e \in Daemons : stage[d] # "down" /\ stage[e] # "down" => d = e

DaemonInv == DaemonTypeOK /\ SocketInv /\ StageMatchesSocket /\ OwnersWork /\ AloneIsOne

-----------------------------------------------------------------------------
(* Steps                                                                   *)

\* A failure that leaves the socket alone.
LEMMA MishapKept ==
  ASSUME SocketInv, UNCHANGED <<at, lock, path>>, mishaps' \in 0..MaxMishaps
  PROVE  SocketInv'
  BY DEF SocketInv, TypeOK, LockMatchesPhase, PathMatchesPhase

\* Each step of a daemon is one of the socket, or leaves it as it is.
LEMMA SocketPreserved ==
  ASSUME DaemonInv, [DaemonNext]_daemonVars
  PROVE  SocketInv'
<1>1. ASSUME NEW d \in Daemons, ServeStep(d)
      PROVE  ListenStep(d) \/ CloseStep(d) \/ UNCHANGED socketVars
  BY <1>1 DEF ServeStep, Boot, Reap, ReapFails, StartScheduler, Listen, Serve, ListenReturnsError,
     CloseListener, ReleaseSocket, Exit, ListenStep, CloseStep
<1>2. ASSUME NEW d \in Daemons, Terminate(d) PROVE Shutdown(d)
  BY <1>2 DEF Terminate
<1>3. ASSUME NEW d \in Daemons, Die(d)
      PROVE  Crash(d) \/ (Mishap /\ UNCHANGED <<at, lock, path>>)
  BY <1>3 DEF Die
<1>4. ASSUME NEW d \in Daemons, NEW x \in Executions, Launch(d, x) \/ Finish(d, x)
      PROVE  UNCHANGED socketVars
  BY <1>4 DEF Launch, Finish
<1>5. [Next]_socketVars \/ (Mishap /\ UNCHANGED <<at, lock, path>>)
  BY <1>1, <1>2, <1>3, <1>4 DEF DaemonNext, daemonVars, Next
<1>6. CASE Mishap /\ UNCHANGED <<at, lock, path>>
  BY <1>6, MishapKept, MishapType DEF DaemonInv, SocketInv, TypeOK
<1> QED
  BY <1>5, <1>6, SocketSteps DEF DaemonInv

-----------------------------------------------------------------------------
(* The stages                                                              *)

\* A step leaves the other processes where they are in the socket.
LEMMA StagePreserved ==
  ASSUME DaemonInv, [DaemonNext]_daemonVars
  PROVE  StageMatchesSocket'
<1> USE DEF DaemonInv, DaemonTypeOK, TypeOK, StageMatchesSocket, Holding
<1>1. ASSUME NEW d \in Daemons, Boot(d) \/ Reap(d) \/ ReapFails(d) \/ StartScheduler(d)
      PROVE  StageMatchesSocket'
  <2>1. at' = at
    BY <1>1 DEF Boot, Reap, ReapFails, StartScheduler, socketVars
  <2>2. /\ stage[d] \in {"down", "reap", "schedule"}
        /\ \E to \in {"reap", "schedule", "listen"} : stage' = [stage EXCEPT ![d] = to]
    BY <1>1 DEF Boot, Reap, ReapFails, StartScheduler, Stage
  <2> QED
    BY <2>1, <2>2
<1>2. ASSUME NEW d \in Daemons, Listen(d) PROVE StageMatchesSocket'
  <2>1. stage[d] = "listen" /\ stage' = stage
    BY <1>2 DEF Listen
  <2>2. \E to \in {"locked", "cleared", "bound", "closing", "unlinked"} : at' = [at EXCEPT ![d] = to]
    BY <1>2 DEF Listen, TakeLock, Clear, Bind, ChmodFails, Unlink, Step
  <2> QED
    BY <2>1, <2>2
<1>3. ASSUME NEW d \in Daemons, Serve(d) \/ Terminate(d) PROVE StageMatchesSocket'
  BY <1>3 DEF Serve, Terminate, Stage, Chmod, Shutdown, Step
<1>4. ASSUME NEW d \in Daemons, ListenReturnsError(d) PROVE StageMatchesSocket'
  BY <1>4 DEF ListenReturnsError, Stage, Refuse, ListenFails, Unlock, Step
<1>5. ASSUME NEW d \in Daemons, CloseListener(d) \/ ReleaseSocket(d) PROVE StageMatchesSocket'
  BY <1>5 DEF CloseListener, ReleaseSocket, Stage, Unlink, Unlock, Step
<1>6. ASSUME NEW d \in Daemons, Exit(d) PROVE StageMatchesSocket'
  BY <1>6 DEF Exit, Stage, Leave, Step, socketVars
<1>7. ASSUME NEW d \in Daemons, Die(d) PROVE StageMatchesSocket'
  BY <1>7 DEF Die, Crash
<1>8. ASSUME NEW d \in Daemons, NEW x \in Executions, Launch(d, x) \/ Finish(d, x)
      PROVE  StageMatchesSocket'
  BY <1>8 DEF Launch, Finish, socketVars
<1>9. CASE UNCHANGED daemonVars
  BY <1>9 DEF daemonVars, socketVars
<1> QED
  BY <1>1, <1>2, <1>3, <1>4, <1>5, <1>6, <1>7, <1>8, <1>9 DEF DaemonNext, ServeStep

\* A process that has left the rest has no runs, and one that is alone stays so.
LEMMA OwnersPreserved ==
  ASSUME DaemonInv, [DaemonNext]_daemonVars
  PROVE  DaemonTypeOK' /\ OwnersWork' /\ AloneIsOne'
<1> USE DaemonAssumption DEF DaemonInv, DaemonTypeOK, OwnersWork, AloneIsOne, Working
<1>1. TypeOK'
  BY SocketPreserved DEF SocketInv
<1>2. ASSUME NEW d \in Daemons, Boot(d) PROVE DaemonTypeOK' /\ OwnersWork' /\ AloneIsOne'
  BY <1>1, <1>2 DEF Boot, Stage, rowVars
<1>3. ASSUME NEW d \in Daemons, Reap(d) \/ ReapFails(d) \/ StartScheduler(d)
      PROVE  DaemonTypeOK' /\ OwnersWork' /\ AloneIsOne'
  BY <1>1, <1>3 DEF Reap, ReapFails, StartScheduler, Stage, rowVars, Fault
<1>4. ASSUME NEW d \in Daemons, Listen(d) \/ Serve(d) \/ ListenReturnsError(d) \/ Terminate(d)
                                \/ CloseListener(d) \/ ReleaseSocket(d)
      PROVE  DaemonTypeOK' /\ OwnersWork' /\ AloneIsOne'
  BY <1>1, <1>4 DEF Listen, Serve, ListenReturnsError, Terminate, CloseListener, ReleaseSocket, Stage, rowVars
<1>5. ASSUME NEW d \in Daemons, Exit(d) \/ Die(d) PROVE DaemonTypeOK' /\ OwnersWork' /\ AloneIsOne'
  BY <1>1, <1>5 DEF Exit, Die, Stage, Orphan
<1>6. ASSUME NEW d \in Daemons, NEW x \in Executions, Launch(d, x) \/ Finish(d, x)
      PROVE  DaemonTypeOK' /\ OwnersWork' /\ AloneIsOne'
  BY <1>1, <1>6 DEF Launch, Finish, Fault
<1>7. CASE UNCHANGED daemonVars
  BY <1>1, <1>7 DEF daemonVars, rowVars
<1> QED
  BY <1>2, <1>3, <1>4, <1>5, <1>6, <1>7 DEF DaemonNext, ServeStep

-----------------------------------------------------------------------------
(* Theorems                                                                *)

LEMMA InitEstablishes == DaemonInit => DaemonInv
  BY DaemonAssumption, SocketStarts DEF DaemonInit, Init, DaemonInv, DaemonTypeOK, SocketInv, StageMatchesSocket,
     OwnersWork, AloneIsOne

(* The stages of the daemons, their places in Listen and Close, the lock,  *)
(* the path and the owners of runs agree in every reachable state.         *)
THEOREM Invariant == DaemonSpec => []DaemonInv
<1>1. DaemonInv /\ [DaemonNext]_daemonVars => DaemonInv'
  BY SocketPreserved, StagePreserved, OwnersPreserved DEF DaemonInv
<1> QED
  BY <1>1, InitEstablishes, PTL DEF DaemonSpec

(* Every variable keeps its type, those of the socket included.            *)
THEOREM TypeCorrect == DaemonSpec => []DaemonTypeOK
<1>1. DaemonInv => DaemonTypeOK
  BY DEF DaemonInv
<1> QED
  BY <1>1, Invariant, PTL

(* Clients reach the one daemon that serves, whatever others are started,  *)
(* refused, stopped or die beside it.                                      *)
THEOREM OneIsServed == DaemonSpec => []ServedByOne
<1>1. DaemonInv => ServedByOne
  BY DEF DaemonInv, DaemonTypeOK, SocketInv, TypeOK, Holding, StageMatchesSocket, LockMatchesPhase, PathMatchesPhase,
     ServedByOne
<1> QED
  BY <1>1, Invariant, PTL

(* What Socket promises of the listeners holds of those of the daemons:   *)
(* beside the other steps of serve no two processes hold one.              *)
THEOREM DaemonsListenAlone == DaemonSpec => []OneListener
<1>1. DaemonInv => OneListener
  BY DEF DaemonInv, SocketInv, LockMatchesPhase, OneListener, Holding, Listening
<1> QED
  BY <1>1, Invariant, PTL

(* As long as daemons are started one after the other, the reaper ends     *)
(* rows without a goroutine and no others, for any number of them.         *)
THEOREM OrphansAreReaped == DaemonSpec => ReapsOnlyOrphans
<1>1. ASSUME DaemonInv, [DaemonNext]_daemonVars, NEW x \in Executions,
             alone, status[x] = "active", status'[x] = "reaped"
      PROVE  owner[x] = Nobody
  <2> USE DaemonAssumption, <1>1 DEF DaemonInv, DaemonTypeOK, OwnersWork, AloneIsOne, Working
  <2>1. ASSUME NEW d \in Daemons, ServeStep(d) \/ Terminate(d) \/ Die(d), ~Reap(d) PROVE FALSE
    BY <2>1 DEF ServeStep, Boot, ReapFails, StartScheduler, Listen, Serve, ListenReturnsError, Terminate,
       CloseListener, ReleaseSocket, Exit, Die, rowVars
  <2>2. ASSUME NEW d \in Daemons, NEW y \in Executions, Launch(d, y) \/ Finish(d, y) PROVE FALSE
    <3>1. CASE Launch(d, y)
      BY <3>1 DEF Launch
    <3>2. CASE Finish(d, y)
      BY <3>2 DEF Finish
    <3> QED
      BY <2>2, <3>1, <3>2
  <2>3. DaemonNext
    <3>1. status' # status
      BY <1>1
    <3> QED
      BY <3>1 DEF rowVars, daemonVars
  <2>4. PICK d \in Daemons : ServeStep(d) \/ Terminate(d) \/ Die(d)
                           \/ \E y \in Executions : Launch(d, y) \/ Finish(d, y)
    BY <2>3, Zenon DEF DaemonNext
  <2>5. Reap(d)
    BY <2>1, <2>2, <2>4
  <2> QED
    BY <2>5 DEF Reap, Stage
<1>2. DaemonInv /\ [DaemonNext]_daemonVars =>
        [\A x \in Executions :
           alone /\ status[x] = "active" /\ status'[x] = "reaped" => owner[x] = Nobody]_daemonVars
  BY <1>1
<1> QED
  BY <1>2, Invariant, PTL DEF DaemonSpec, ReapsOnlyOrphans
=============================================================================
