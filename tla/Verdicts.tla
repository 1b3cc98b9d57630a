------------------------------ MODULE Verdicts -------------------------------
(***************************************************************************)
(* What a check says: how internal/health reads the AWS configuration, the *)
(* outcome of aws sts get-caller-identity, the listing of claude mcp list  *)
(* and the version of a binary, and what it tells the user to do.  Health  *)
(* has the processes and the cache around it.                              *)
(*                                                                         *)
(* Texts are reduced to what the code looks for in them.                   *)
(***************************************************************************)
EXTENDS Naturals, Sequences, SequencesExt

CONSTANTS
  Names,     \* what profiles are called
  MaxLines   \* bound: lines of a configuration, or of a listing

ASSUME VerdictsAssumption ==
  /\ "" \notin Names
  /\ MaxLines \in Nat

States == {"ok", "needs_login", "misconfigured", "unavailable", "unknown"}

\* store.Gates
Gates(state) == state \in {"needs_login", "misconfigured"}

----------------------------------------------------------------------------
(* ~/.aws/config.                                                          *)

ConfigKeys == {"sso_start_url", "sso_session", "source_profile"}

\* A line: a section of a profile or of something else, a key with its value
\* (no profile has the name ""), or what is skipped.
ConfigLines ==
  [is : {"profile"}, name : Names] \cup [is : {"section", "noise"}]
  \cup [is : {"set"}, key : ConfigKeys, value : Names \cup {""}]

NoProfile == [k \in ConfigKeys |-> ""]

\* Mutant: a profile goes on where another section of its name left off.
ReadLineMerging(acc, line) ==
  CASE line.is = "profile" ->
         [current |-> line.name,
          profiles |-> [n \in DOMAIN acc.profiles \cup {line.name} |->
                          IF n \in DOMAIN acc.profiles THEN acc.profiles[n] ELSE NoProfile]]
    [] line.is = "section" -> [acc EXCEPT !.current = ""]
    [] line.is = "set" /\ acc.current # "" -> [acc EXCEPT !.profiles[acc.current][line.key] = line.value]
    [] OTHER -> acc

\* One turn of the loop of parseProfiles.  A section starts its profile anew.
ReadLine(acc, line) ==
  CASE line.is = "profile" ->
         [current |-> line.name,
          profiles |-> [n \in DOMAIN acc.profiles \cup {line.name} |->
                          IF n = line.name THEN NoProfile ELSE acc.profiles[n]]]
    [] line.is = "section" -> [acc EXCEPT !.current = ""]
    [] line.is = "set" /\ acc.current # "" -> [acc EXCEPT !.profiles[acc.current][line.key] = line.value]
    [] OTHER -> acc

NothingRead == [current |-> "", profiles |-> [n \in {} |-> NoProfile]]

ParseProfiles(lines) ==
  LET after[i \in 0 .. Len(lines)] ==
        IF i = 0 THEN NothingRead ELSE ReadLine(after[i - 1], lines[i])
  IN after[Len(lines)].profiles

IsSSO(p) == p.sso_start_url # "" \/ p.sso_session # ""

\* Mutant: the source of a profile is logged in to, whatever the profile is.
LoginTargetSource(profiles, n) ==
  IF n \in DOMAIN profiles /\ profiles[n].source_profile # ""
  THEN profiles[n].source_profile ELSE n

\* The profile that a login for n logs in to.
LoginTarget(profiles, n) ==
  IF n \in DOMAIN profiles /\ ~IsSSO(profiles[n]) /\ profiles[n].source_profile # ""
  THEN profiles[n].source_profile ELSE n

SSORemediation(profiles, n) ==
  LET p == profiles[n]
      chained == ~IsSSO(p) /\ p.source_profile # ""
  IN [automatic |-> IsSSO(p) \/ p.source_profile # "",
      login |-> IF chained THEN p.source_profile ELSE n]

----------------------------------------------------------------------------
(* Processes.                                                              *)

\* The error codes the code knows, by what it makes of them.
CodeState ==
  [ExpiredToken |-> "needs_login", NoCredentials |-> "needs_login",
   AccessDenied |-> "misconfigured", ProfileNotFound |-> "misconfigured",
   EndpointConnectionError |-> "unavailable"]

Codes == DOMAIN CodeState \cup {"Other", ""}

\* The fragments of a message that it looks for.  Some contain others.
Fragments == {"config profile", "could not be found", "profile", "does not exist", "sso session",
              "expired", "sso", "login", "could not connect"}

Messages ==
  {m \in [code : Codes, says : SUBSET Fragments] :
     /\ "config profile" \in m.says => "profile" \in m.says
     /\ "sso session" \in m.says => "sso" \in m.says}

\* classifyAWSError: the code first, then the wording.
ClassifyAWSError(m) ==
  LET Says(S) == S \subseteq m.says
  IN CASE m.code \in DOMAIN CodeState -> CodeState[m.code]
       [] OTHER ->
            IF Says({"config profile", "could not be found"}) \/ Says({"profile", "does not exist"})
            THEN "misconfigured"
            ELSE IF Says({"sso session", "expired"}) \/ Says({"sso", "login"}) THEN "needs_login"
            ELSE IF Says({"could not connect"}) THEN "unavailable"
            ELSE "unknown"

\* How a process ended, in time or not, and what it left.
Processes ==
  [exit : {"answer", "garbled"}, late : BOOLEAN, message : {[code |-> "", says |-> {}]}]
  \cup [exit : {"unstarted"}, late : BOOLEAN, message : {[code |-> "", says |-> {}]}]
  \cup [exit : {"error"}, late : BOOLEAN, message : Messages]

\* Mutant: the message of a process that ran out of time is read.
ProcessStateLate(p) ==
  CASE p.exit = "answer" -> "ok"
    [] p.exit = "garbled" -> "unknown"
    [] OTHER -> ClassifyAWSError(p.message)

\* The rest of AWSChecker.Check.  An answer counts, however late.
ProcessState(p) ==
  CASE p.exit = "answer" -> "ok"
    [] p.exit = "garbled" -> "unknown"
    [] p.exit \in {"error", "unstarted"} /\ p.late -> "unavailable"
    [] OTHER -> ClassifyAWSError(p.message)

\* AWSChecker.Check
CheckProfile(installed, readable, listed, p) ==
  IF ~installed THEN "unavailable"
  ELSE IF ~readable \/ ~listed THEN "misconfigured"
  ELSE ProcessState(p)

MarkerState ==
  [connected |-> "ok", authentication |-> "needs_login", approval |-> "misconfigured", failed |-> "unavailable"]

\* probe over MCPChecker.CheckAll: rows are those that could be read, the
\* last of a server counts.
CheckServer(installed, exit, rows, n) ==
  IF ~installed \/ exit # "answer" THEN "unavailable"
  ELSE LET own == {i \in DOMAIN rows : rows[i].name = n}
       IN IF own = {} THEN "misconfigured"
          ELSE MarkerState[rows[CHOOSE i \in own : \A j \in own : j <= i].marker]

\* BinaryChecker.Check
CheckBinary(found, p) ==
  CASE ~found -> "misconfigured"
    [] found /\ p.exit \in {"answer", "garbled"} -> "ok"
    [] found /\ p.exit = "error" /\ ~p.late -> "unknown"
    [] OTHER -> "unavailable"

\* CheckRequirements: the requirements that block the run.
Failing(reqs, state) == {r \in reqs : r.required /\ Gates(state[r.target])}

----------------------------------------------------------------------------
(* Properties.                                                             *)

LastOf(S) == CHOOSE i \in S : \A j \in S : j <= i

(* Reading the configuration line by line gives what it says: a profile is *)
(* known if it has a section, and has the values that are assigned last in *)
(* its last section, whatever other sections stand in between.             *)
ParsedAsWritten ==
  \A lines \in SeqOf(ConfigLines, MaxLines) :
    LET parsed == ParseProfiles(lines)
        Heads(n) == {i \in DOMAIN lines : lines[i] = [is |-> "profile", name |-> n]}
        Sets(n, k) ==
          {i \in DOMAIN lines :
             /\ lines[i].is = "set" /\ lines[i].key = k
             /\ LastOf(Heads(n)) < i
             /\ \A j \in LastOf(Heads(n)) + 1 .. i : lines[j].is \notin {"profile", "section"}}
    IN /\ DOMAIN parsed = {n \in Names : Heads(n) # {}}
       /\ \A n \in DOMAIN parsed, k \in ConfigKeys :
            parsed[n][k] = IF Sets(n, k) = {} THEN "" ELSE lines[LastOf(Sets(n, k))].value

(* What the user is told to log in to for a profile is what the daemon     *)
(* logs in to when it is asked for that profile; and where the profile has *)
(* a session of its own, or sources one that has, it is that session.      *)
LoginGoesToTheSession ==
  \A profiles \in [Names -> [ConfigKeys -> Names \cup {""}]], n \in Names :
    LET told == SSORemediation(profiles, n)
        source == profiles[n].source_profile
    IN /\ told.login = LoginTarget(profiles, n)
       /\ IsSSO(profiles[n]) => told = [automatic |-> TRUE, login |-> n]
       /\ ~IsSSO(profiles[n]) /\ source # "" /\ IsSSO(profiles[source]) =>
            told.automatic /\ IsSSO(profiles[told.login])

(* A run is not blocked by what may be over soon: by a process that was    *)
(* killed or ran out of time, whatever it had said, by a command that is   *)
(* not there to ask, by a message that names no cause, by a server that    *)
(* does not answer, nor by a requirement that is optional.                 *)
OnlyLastingTroubleGates ==
  /\ \A p \in Processes, readable, listed \in BOOLEAN :
       /\ ~Gates(CheckProfile(FALSE, readable, listed, p))
       /\ Gates(CheckProfile(TRUE, TRUE, TRUE, p)) =>
            /\ p.exit = "error" /\ ~p.late
            /\ \/ p.message.code \in DOMAIN CodeState \ {"EndpointConnectionError"}
               \/ p.message.says \intersect {"profile", "sso"} # {}
       /\ ~Gates(CheckBinary(TRUE, p))
  /\ \A rows \in SeqOf([name : Names, marker : DOMAIN MarkerState], MaxLines), n \in Names :
       /\ ~Gates(CheckServer(FALSE, "answer", rows, n)) /\ ~Gates(CheckServer(TRUE, "error", rows, n))
       /\ Gates(CheckServer(TRUE, "answer", rows, n)) =>
            \A i \in DOMAIN rows :
              rows[i].name = n /\ rows[i].marker \in {"connected", "failed"} =>
                \E j \in DOMAIN rows : j > i /\ rows[j].name = n
  /\ \A reqs \in SUBSET [target : Names, required : BOOLEAN], state \in [Names -> States] :
       Failing(reqs, state) = {} <=>
         \A r \in reqs : r.required => state[r.target] \in {"ok", "unavailable", "unknown"}
=============================================================================
