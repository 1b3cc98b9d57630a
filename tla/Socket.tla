------------------------------- MODULE Socket -------------------------------
(***************************************************************************)
(* internal/ipc: which daemon owns the socket path.  Listen takes an flock *)
(* on a sibling file, removes whatever socket is at the path, binds and    *)
(* sets the mode; Close unlinks the path, by name, before the lock goes.   *)
(* The kernel releases the flock of a process that dies and leaves its     *)
(* socket file behind.                                                     *)
(***************************************************************************)
EXTENDS Naturals

CONSTANTS
  Daemons,     \* processes that run serve, each as often as it is started
  Nobody,      \* holder of a free lock, and what is at an empty path
  Stale,       \* a socket file nothing listens on
  MaxMishaps   \* bound: crashes and system calls that fail

ASSUME SocketAssumption ==
  /\ Nobody \notin Daemons
  /\ Stale \notin Daemons
  /\ Nobody # Stale
  /\ MaxMishaps \in Nat

VARIABLES
  at,      \* where each process is in Listen and Close
  lock,    \* who holds the flock
  path,    \* whose listening socket is at the path
  mishaps

socketVars == <<at, lock, path, mishaps>>

\* Phases with the flock held, and among them those with a socket bound.
Holding == {"locked", "cleared", "bound", "serving", "closing", "unlinked"}
Listening == {"bound", "serving", "closing", "unlinked"}

Mishap == mishaps < MaxMishaps /\ mishaps' = mishaps + 1

Init ==
  /\ at = [d \in Daemons |-> "out"]
  /\ lock = Nobody
  /\ path \in {Nobody, Stale}
  /\ mishaps = 0

Step(d, from, to) == at[d] = from /\ at' = [at EXCEPT ![d] = to]

\* Mutant: the lock is not asked for.
TakeLockRegardless(d) ==
  /\ Step(d, "out", "locked")
  /\ lock' = d
  /\ UNCHANGED <<path, mishaps>>

TakeLock(d) ==
  /\ lock = Nobody
  /\ Step(d, "out", "locked")
  /\ lock' = d
  /\ UNCHANGED <<path, mishaps>>

\* Mutant: the lock is waited for, without LOCK_NB.
RefuseBlocking(d) ==
  /\ lock # Nobody
  /\ Step(d, "out", "waiting")
  /\ UNCHANGED <<lock, path, mishaps>>

\* EWOULDBLOCK: ErrAlreadyServing.
Refuse(d) ==
  /\ lock # Nobody
  /\ Step(d, "out", "refused")
  /\ UNCHANGED <<lock, path, mishaps>>

\* The process that was refused ends with that error, and may be started again.
Leave(d) ==
  /\ Step(d, "refused", "out")
  /\ UNCHANGED <<lock, path, mishaps>>

\* Mutant: a socket that is already there is left alone.
ClearNothing(d) ==
  /\ Step(d, "locked", "cleared")
  /\ UNCHANGED <<lock, path, mishaps>>

\* With the lock held, any socket at the path is stale.
Clear(d) ==
  /\ Step(d, "locked", "cleared")
  /\ path' = Nobody
  /\ UNCHANGED <<lock, mishaps>>

Bind(d) ==
  /\ path = Nobody
  /\ Step(d, "cleared", "bound")
  /\ path' = d
  /\ UNCHANGED <<lock, mishaps>>

\* Removing or binding fails: the lock is given back and Listen returns.
ListenFails(d) ==
  /\ \/ Step(d, "locked", "out") /\ Mishap
     \/ Step(d, "cleared", "out") /\ Mishap
     \/ Step(d, "cleared", "out") /\ path # Nobody /\ UNCHANGED mishaps
  /\ lock' = Nobody
  /\ UNCHANGED path

Chmod(d) ==
  /\ Step(d, "bound", "serving")
  /\ UNCHANGED <<lock, path, mishaps>>

ChmodFails(d) ==
  /\ Step(d, "bound", "closing")
  /\ Mishap
  /\ UNCHANGED <<lock, path>>

\* Mutant: the lock is released before the socket is unlinked.
ShutdownUnlocking(d) ==
  /\ Step(d, "serving", "closing")
  /\ lock' = Nobody
  /\ UNCHANGED <<path, mishaps>>

\* http.Server.Shutdown closes the listener.
Shutdown(d) ==
  /\ Step(d, "serving", "closing")
  /\ UNCHANGED <<lock, path, mishaps>>

\* UnixListener.Close removes the name, whatever socket it stands for.
Unlink(d) ==
  /\ Step(d, "closing", "unlinked")
  /\ path' = Nobody
  /\ UNCHANGED <<lock, mishaps>>

Unlock(d) ==
  /\ Step(d, "unlinked", "out")
  /\ lock' = IF lock = d THEN Nobody ELSE lock
  /\ UNCHANGED <<path, mishaps>>

Crash(d) ==
  /\ at[d] # "out"
  /\ Mishap
  /\ at' = [at EXCEPT ![d] = "out"]
  /\ lock' = IF lock = d THEN Nobody ELSE lock
  /\ path' = IF path = d THEN Stale ELSE path

ListenStep(d) ==
  TakeLock(d) \/ Refuse(d) \/ Leave(d) \/ Clear(d) \/ Bind(d) \/ ListenFails(d) \/ Chmod(d) \/ ChmodFails(d)

CloseStep(d) == Unlink(d) \/ Unlock(d)

Next == \E d \in Daemons : ListenStep(d) \/ Shutdown(d) \/ CloseStep(d) \/ Crash(d)

Spec == Init /\ [][Next]_socketVars

\* A service manager keeps starting the daemon, and processes are scheduled.
FairSpec == Spec /\ \A d \in Daemons : WF_socketVars(ListenStep(d)) /\ WF_socketVars(CloseStep(d))

-----------------------------------------------------------------------------
(* Properties *)

TypeOK ==
  /\ at \in [Daemons -> {"out", "refused"} \union Holding]
  /\ lock \in Daemons \union {Nobody}
  /\ path \in Daemons \union {Nobody, Stale}
  /\ mishaps \in 0..MaxMishaps

(***************************************************************************)
(* No two daemons hold listeners: a client that connects to the path can   *)
(* only mean the one there is.                                             *)
(***************************************************************************)
OneListener ==
  \A d, e \in Daemons : at[d] \in Listening /\ at[e] \in Listening => d = e

(***************************************************************************)
(* A daemon that serves is reachable: no start, refusal, close or crash of *)
(* another ever removed or replaced the socket it bound.                   *)
(***************************************************************************)
ServingIsReachable == \A d \in Daemons : at[d] = "serving" => path = d

(***************************************************************************)
(* A live socket leaves the path only by its own daemon's close or death.  *)
(***************************************************************************)
NeverDisplaced ==
  [][\A d \in Daemons : path = d /\ path' # d => at'[d] \in {"unlinked", "out"} /\ at'[d] # at[d]]_socketVars

(***************************************************************************)
(* A crash needs no manual cleanup: whenever no daemon is left, one that   *)
(* is started again gets to serve, socket file or not.                     *)
(***************************************************************************)
ServesAgain ==
  (\A d \in Daemons : at[d] = "out") ~> (\E d \in Daemons : at[d] = "serving")
=============================================================================
