---------------------------- MODULE NotifyProofs -----------------------------
(***************************************************************************)
(* Proofs about Notify, for any calls, tasks, events, throttle and budget. *)
(* The invariant says what the entries of lastSent stand for, how far a    *)
(* call has come with its channels, and which popups are accounted for.    *)
(***************************************************************************)
EXTENDS Notify, TLAPS

\* An entry of lastSent is as new as any call that went out under its key,
\* and is the time of one of them.
SentIsLatest ==
  /\ \A c \in Calls : Admitted(c) => began[c] <= lastSent[KeyOf(c)]
  /\ \A k \in Keys : lastSent[k] # Never =>
       \E c \in Calls : KeyOf(c) = k /\ Admitted(c) /\ began[c] = lastSent[k]
  /\ \A k \in Keys : lastSent[k] <= now

\* The channels a call has been through.
ChannelsInTurn ==
  \A c \in Calls :
    /\ at[c] \in {"told", "slack", "posted", "done"} => outcome[c]["desktop"] # "none"
    /\ at[c] \in {"posted", "done"} => outcome[c]["slack"] # "none"

\* As long as the popup of a key is not known, all that are shown are lost.
PopupsAreKnown == \A k \in Keys : ~lastID[k] => popups[k] <= lost[k]

IInv ==
  /\ TypeOK
  /\ SentIsLatest /\ RepeatsAreApart /\ DroppedIsCovered
  /\ ChannelsInTurn
  /\ PopupsAreKnown /\ PopupsAreReplaced

throttleVars == <<lastSent, began>>
popupVars == <<lastID, popups, lost>>

----------------------------------------------------------------------------
(* Types.                                                                  *)

LEMMA KeyType == \A c \in Calls : KeyOf(c) \in Keys
  BY DEF Keys

LEMMA NeverType == Never \in Int /\ Never < 0 /\ 0 - Never > Throttle
  BY NotifyAssumption DEF Never

LEMMA TypePreserved ==
  ASSUME TypeOK, [Next]_vars
  PROVE  TypeOK'
<1> USE NotifyAssumption, KeyType DEF TypeOK
<1>1. ASSUME NEW c \in Calls, Drop(c) PROVE TypeOK'
  BY <1>1 DEF Drop, Step
<1>2. ASSUME NEW c \in Calls, Admit(c) PROVE TypeOK'
  BY <1>2 DEF Admit, Step
<1>3. ASSUME NEW c \in Calls, Lock(c) PROVE TypeOK'
  BY <1>3 DEF Lock, Step
<1>4. ASSUME NEW c \in Calls, DialSucceeds(c) PROVE TypeOK'
  BY <1>4 DEF DialSucceeds, Step
<1>5. ASSUME NEW c \in Calls, DialFails(c) PROVE TypeOK'
  BY <1>5 DEF DialFails, Step, Tell, Fault, Outcome, Channels
<1>6. ASSUME NEW c \in Calls, SendSucceeds(c) PROVE TypeOK'
  BY <1>6 DEF SendSucceeds, Step, Tell, Show, Outcome, Channels
<1>7. ASSUME NEW c \in Calls, SendFails(c) PROVE TypeOK'
  <2>1. /\ at[c] = "send" /\ at' = [at EXCEPT ![c] = "told"] /\ holder' = Nobody
        /\ now' = now /\ began' = began /\ lastSent' = lastSent /\ lastID' = lastID /\ conn' = FALSE
    BY <1>7 DEF SendFails, Step, Tell
  <2>2. at' \in [Calls -> {"new", "dropped", "desktop", "dial", "send", "told", "slack", "posted",
                          "done", "gone"}]
        /\ \A d \in Calls : at'[d] \in {"dial", "send"} <=> holder' = d
    BY <2>1
  <2>3. popups' \in [Keys -> Nat] /\ lost' \in [Keys -> Nat]
    BY <1>7 DEF SendFails, Show
  <2>4. faults' \in 0 .. MaxFaults
    BY <1>7 DEF SendFails, Fault
  <2>5. outcome' \in [Calls -> [Channels -> Outcome]]
    BY <1>7 DEF SendFails, Tell, Outcome, Channels
  <2> QED
    BY <2>1, <2>2, <2>3, <2>4, <2>5
<1>8. ASSUME NEW c \in Calls, RecordDesktop(c) \/ RecordSlack(c) PROVE TypeOK'
  BY <1>8 DEF RecordDesktop, RecordSlack, Record, Step
<1>9. ASSUME NEW c \in Calls, Post(c) PROVE TypeOK'
  BY <1>9 DEF Post, PostSucceeds, PostFails, Step, Fault, Outcome, Channels
<1>10. CASE Tick
  BY <1>10 DEF Tick
<1>11. CASE LogOut
  BY <1>11 DEF LogOut
<1>12. CASE Restart
  <2>1. /\ \A c \in Calls : at'[c] \in {"new", "gone"}
        /\ at' \in [Calls -> {"new", "gone"}]
        /\ holder' = Nobody
    BY <1>12 DEF Restart
  <2>2. /\ lastSent' \in [Keys -> {Never} \cup 0 .. MaxTime] /\ lastID' \in [Keys -> BOOLEAN]
        /\ lost' \in [Keys -> Nat] /\ popups' \in [Keys -> Nat]
    BY <1>12 DEF Restart
  <2>3. outcome' \in [Calls -> [Channels -> Outcome]]
    BY <1>12 DEF Restart, Outcome, Channels
  <2>4. now' \in 0 .. MaxTime /\ faults' \in 0 .. MaxFaults /\ conn' = FALSE
    BY <1>12 DEF Restart
  <2>5. began' \in [Calls -> 0 .. MaxTime]
    <3>1. 0 \in 0 .. MaxTime /\ began' = [c \in Calls |-> 0]
      BY <1>12 DEF Restart
    <3> QED
      BY <3>1
  <2> QED
    BY <2>1, <2>2, <2>3, <2>4, <2>5
<1>13. CASE UNCHANGED vars
  BY <1>13 DEF vars
<1> QED
  BY <1>1, <1>2, <1>3, <1>4, <1>5, <1>6, <1>7, <1>8, <1>9, <1>10, <1>11, <1>12, <1>13
  DEF Next, Send, Dial

----------------------------------------------------------------------------
(* The throttle.                                                           *)

LEMMA SentType ==
  ASSUME TypeOK
  PROVE  /\ now \in Int
         /\ \A c \in Calls : began[c] \in Int /\ 0 <= began[c] /\ KeyOf(c) \in Keys
         /\ \A k \in Keys : lastSent[k] \in Int /\ (lastSent[k] = Never \/ 0 <= lastSent[k])
  BY NotifyAssumption, KeyType, NeverType DEF TypeOK

\* The part of the invariant about repeats.
ThrottleInv == SentIsLatest /\ RepeatsAreApart /\ DroppedIsCovered

LEMMA ThrottleUntouched ==
  ASSUME TypeOK, ThrottleInv, TypeOK', UNCHANGED throttleVars, now <= now',
         \A c \in Calls : /\ Admitted(c)' <=> Admitted(c)
                          /\ at'[c] = "dropped" => at[c] = "dropped"
  PROVE  ThrottleInv'
<1> USE DEF ThrottleInv, throttleVars
<1>1. SentIsLatest'
  BY SentType DEF SentIsLatest, TypeOK
<1>2. RepeatsAreApart'
  BY DEF RepeatsAreApart
<1>3. DroppedIsCovered'
  BY DEF DroppedIsCovered
<1> QED
  BY <1>1, <1>2, <1>3

LEMMA DropThrottles ==
  ASSUME TypeOK, ThrottleInv, NEW c \in Calls, Drop(c)
  PROVE  ThrottleInv'
<1> USE DEF ThrottleInv
<1>1. /\ at[c] = "new" /\ at' = [at EXCEPT ![c] = "dropped"]
      /\ began' = [began EXCEPT ![c] = now]
      /\ lastSent' = lastSent /\ now' = now
  BY DEF Drop, Step
<1>2. \A d \in Calls : /\ Admitted(d)' <=> Admitted(d)
                       /\ Admitted(d) => began'[d] = began[d]
  BY <1>1 DEF Admitted, TypeOK
<1>3. SentIsLatest'
  BY <1>1, <1>2 DEF SentIsLatest
<1>4. RepeatsAreApart'
  BY <1>1, <1>2 DEF RepeatsAreApart
<1>5. \E d \in Calls : /\ KeyOf(d) = KeyOf(c) /\ Admitted(d)'
                       /\ began'[d] <= now /\ now < began'[d] + Throttle
  <2>1. now - lastSent[KeyOf(c)] < Throttle
    BY DEF Drop, Repeat
  <2>2. lastSent[KeyOf(c)] # Never
    BY <2>1, NeverType, SentType, NotifyAssumption, 0 <= now DEF TypeOK
  <2>3. PICK d \in Calls : KeyOf(d) = KeyOf(c) /\ Admitted(d) /\ began[d] = lastSent[KeyOf(c)]
    BY <2>2, KeyType DEF SentIsLatest
  <2>4. lastSent[KeyOf(c)] <= now
    BY KeyType DEF SentIsLatest
  <2>5. began'[d] = lastSent[KeyOf(c)] /\ Admitted(d)'
    BY <1>2, <2>3
  <2>6. lastSent[KeyOf(c)] \in Int /\ now \in Int
    BY SentType
  <2>7. began'[d] <= now /\ now < began'[d] + Throttle
    BY <2>1, <2>4, <2>5, <2>6, NotifyAssumption
  <2> QED
    BY <2>3, <2>5, <2>7
<1>6. DroppedIsCovered'
  <2>1. ASSUME NEW b \in Calls, at'[b] = "dropped"
        PROVE  \E d \in Calls : /\ KeyOf(d) = KeyOf(b) /\ Admitted(d)'
                                /\ began'[d] <= began'[b] /\ began'[b] < began'[d] + Throttle
    <3>1. CASE b = c
      <4>1. began'[b] = now
        BY <1>1, <3>1 DEF TypeOK
      <4> QED
        BY <1>5, <3>1, <4>1
    <3>2. CASE b # c
      <4>1. at[b] = "dropped" /\ began'[b] = began[b]
        BY <1>1, <2>1, <3>2 DEF TypeOK
      <4>2. PICK d \in Calls : /\ KeyOf(d) = KeyOf(b) /\ Admitted(d)
                               /\ began[d] <= began[b] /\ began[b] < began[d] + Throttle
        BY <4>1 DEF DroppedIsCovered
      <4> QED
        BY <1>2, <4>1, <4>2
    <3> QED
      BY <3>1, <3>2
  <2> QED
    BY <2>1 DEF DroppedIsCovered
<1> QED
  BY <1>3, <1>4, <1>6

LEMMA AdmitThrottles ==
  ASSUME TypeOK, ThrottleInv, NEW c \in Calls, Admit(c)
  PROVE  ThrottleInv'
<1> USE DEF ThrottleInv
<1>1. /\ at[c] = "new" /\ at' = [at EXCEPT ![c] = "desktop"]
      /\ began' = [began EXCEPT ![c] = now]
      /\ lastSent' = [lastSent EXCEPT ![KeyOf(c)] = now]
      /\ now' = now
  BY DEF Admit, Step
<1>2. /\ Admitted(c)' /\ ~Admitted(c) /\ began'[c] = now
      /\ \A d \in Calls : d # c => (Admitted(d)' <=> Admitted(d)) /\ began'[d] = began[d]
  BY <1>1 DEF Admitted, TypeOK
<1>3. /\ lastSent'[KeyOf(c)] = now
      /\ \A k \in Keys : k # KeyOf(c) => lastSent'[k] = lastSent[k]
  BY <1>1, KeyType DEF TypeOK
<1>4. \A d \in Calls : Admitted(d) /\ KeyOf(d) = KeyOf(c) => began[d] + Throttle <= now
  <2> SUFFICES ASSUME NEW d \in Calls, Admitted(d), KeyOf(d) = KeyOf(c)
               PROVE  began[d] + Throttle <= now
    OBVIOUS
  <2>1. ~(now - lastSent[KeyOf(c)] < Throttle)
    BY DEF Admit, Repeat
  <2>2. began[d] <= lastSent[KeyOf(c)]
    BY DEF SentIsLatest
  <2>3. began[d] \in Int /\ lastSent[KeyOf(c)] \in Int /\ now \in Int
    BY SentType
  <2> QED
    BY <2>1, <2>2, <2>3, NotifyAssumption
<1>5. SentIsLatest'
  <2>1. \A d \in Calls : Admitted(d)' => began'[d] <= lastSent'[KeyOf(d)]
    <3> SUFFICES ASSUME NEW d \in Calls, Admitted(d)' PROVE began'[d] <= lastSent'[KeyOf(d)]
      OBVIOUS
    <3>1. CASE d = c
      BY <1>2, <1>3, <3>1, SentType
    <3>2. CASE d # c
      <4>1. Admitted(d) /\ began'[d] = began[d] /\ began[d] <= lastSent[KeyOf(d)]
        BY <1>2, <3>2 DEF SentIsLatest
      <4>2. lastSent[KeyOf(d)] <= lastSent'[KeyOf(d)]
        BY <1>3, SentType DEF SentIsLatest
      <4>3. lastSent[KeyOf(d)] \in Int /\ lastSent'[KeyOf(d)] \in Int /\ began[d] \in Int
        BY <1>3, SentType
      <4> QED
        BY <4>1, <4>2, <4>3
    <3> QED
      BY <3>1, <3>2
  <2>2. ASSUME NEW k \in Keys, lastSent'[k] # Never
        PROVE  \E d \in Calls : KeyOf(d) = k /\ Admitted(d)' /\ began'[d] = lastSent'[k]
    <3>1. CASE k = KeyOf(c)
      BY <1>2, <1>3, <3>1
    <3>2. CASE k # KeyOf(c)
      <4>1. PICK d \in Calls : KeyOf(d) = k /\ Admitted(d) /\ began[d] = lastSent[k]
        BY <1>3, <2>2, <3>2 DEF SentIsLatest
      <4>2. d # c
        BY <1>2, <4>1
      <4> QED
        BY <1>2, <1>3, <3>2, <4>1, <4>2
    <3> QED
      BY <3>1, <3>2
  <2>3. \A k \in Keys : lastSent'[k] <= now'
    BY <1>1, <1>3, SentType DEF SentIsLatest
  <2> QED
    BY <2>1, <2>2, <2>3 DEF SentIsLatest
<1>6. RepeatsAreApart'
  <2> SUFFICES ASSUME NEW a \in Calls, NEW b \in Calls, a # b, KeyOf(a) = KeyOf(b),
                      Admitted(a)', Admitted(b)'
               PROVE  began'[a] >= began'[b] + Throttle \/ began'[b] >= began'[a] + Throttle
    BY DEF RepeatsAreApart
  <2>1. CASE a = c
    BY <1>2, <1>4, <2>1, SentType, NotifyAssumption
  <2>2. CASE b = c
    BY <1>2, <1>4, <2>2, SentType, NotifyAssumption
  <2>3. CASE a # c /\ b # c
    BY <1>2, <2>3 DEF RepeatsAreApart
  <2> QED
    BY <2>1, <2>2, <2>3
<1>7. DroppedIsCovered'
  <2> SUFFICES ASSUME NEW b \in Calls, at'[b] = "dropped"
               PROVE  \E d \in Calls : /\ KeyOf(d) = KeyOf(b) /\ Admitted(d)'
                                       /\ began'[d] <= began'[b] /\ began'[b] < began'[d] + Throttle
    BY DEF DroppedIsCovered
  <2>1. b # c /\ at[b] = "dropped"
    BY <1>1 DEF TypeOK
  <2>2. PICK d \in Calls : /\ KeyOf(d) = KeyOf(b) /\ Admitted(d)
                           /\ began[d] <= began[b] /\ began[b] < began[d] + Throttle
    BY <2>1 DEF DroppedIsCovered
  <2>3. d # c
    BY <1>2, <2>2
  <2> QED
    BY <1>2, <2>1, <2>2, <2>3
<1> QED
  BY <1>5, <1>6, <1>7

LEMMA RestartThrottles ==
  ASSUME TypeOK, ThrottleInv, Restart
  PROVE  ThrottleInv'
<1>1. \A c \in Calls : ~Admitted(c)' /\ at'[c] # "dropped"
  BY DEF Restart, Admitted
<1>2. \A k \in Keys : lastSent'[k] = Never /\ Never <= now'
  BY NeverType, NotifyAssumption DEF Restart, TypeOK
<1> QED
  BY <1>1, <1>2 DEF ThrottleInv, SentIsLatest, RepeatsAreApart, DroppedIsCovered

LEMMA ThrottlePreserved ==
  ASSUME TypeOK, ThrottleInv, [Next]_vars
  PROVE  ThrottleInv'
<1>1. TypeOK'
  BY TypePreserved
<1>2. ASSUME NEW c \in Calls,
             Lock(c) \/ Dial(c) \/ Send(c) \/ RecordDesktop(c) \/ Post(c) \/ RecordSlack(c)
      PROVE  ThrottleInv'
  <2>1. UNCHANGED throttleVars /\ now' = now
    BY <1>2 DEF Lock, Dial, DialSucceeds, DialFails, Send, SendSucceeds, SendFails, RecordDesktop,
                Post, PostSucceeds, PostFails, RecordSlack, Record, throttleVars
  <2>2. \A d \in Calls : /\ Admitted(d)' <=> Admitted(d)
                         /\ at'[d] = "dropped" => at[d] = "dropped"
    BY <1>2 DEF Lock, Dial, DialSucceeds, DialFails, Send, SendSucceeds, SendFails, RecordDesktop,
                Post, PostSucceeds, PostFails, RecordSlack, Record, Step, Admitted, TypeOK
  <2> QED
    BY <1>1, <2>1, <2>2, SentType, ThrottleUntouched
<1>3. CASE Tick
  BY <1>1, <1>3, SentType, ThrottleUntouched DEF Tick, throttleVars, Admitted
<1>4. CASE LogOut
  BY <1>1, <1>4, SentType, ThrottleUntouched DEF LogOut, throttleVars, Admitted
<1>5. CASE UNCHANGED vars
  BY <1>1, <1>5, SentType, ThrottleUntouched DEF vars, throttleVars, Admitted
<1> QED
  BY <1>2, <1>3, <1>4, <1>5, DropThrottles, AdmitThrottles, RestartThrottles DEF Next

----------------------------------------------------------------------------
(* The channels.                                                           *)

LEMMA ChannelsPreserved ==
  ASSUME TypeOK, ChannelsInTurn, [Next]_vars
  PROVE  ChannelsInTurn'
<1> USE DEF ChannelsInTurn, TypeOK
<1>1. ASSUME NEW c \in Calls, Drop(c) \/ Admit(c) \/ Lock(c) \/ DialSucceeds(c) PROVE ChannelsInTurn'
  BY <1>1 DEF Drop, Admit, Lock, DialSucceeds, Step
<1>2. ASSUME NEW c \in Calls, DialFails(c) PROVE ChannelsInTurn'
  BY <1>2 DEF DialFails, Step, Tell, Channels
<1>3. ASSUME NEW c \in Calls, SendSucceeds(c) PROVE ChannelsInTurn'
  BY <1>3 DEF SendSucceeds, Step, Tell, Channels
<1>4. ASSUME NEW c \in Calls, SendFails(c) PROVE ChannelsInTurn'
  <2>1. Step(c, "send", "told") /\ Tell(c, "failed")
    BY <1>4 DEF SendFails
  <2> QED
    BY <2>1 DEF Step, Tell, Channels
<1>5. ASSUME NEW c \in Calls, RecordDesktop(c) \/ RecordSlack(c) PROVE ChannelsInTurn'
  BY <1>5 DEF RecordDesktop, RecordSlack, Record, Step
<1>6. ASSUME NEW c \in Calls, Post(c) PROVE ChannelsInTurn'
  BY <1>6 DEF Post, PostSucceeds, PostFails, Step, Channels
<1>7. CASE Tick \/ LogOut \/ UNCHANGED vars
  BY <1>7 DEF Tick, LogOut, vars
<1>8. CASE Restart
  BY <1>8 DEF Restart
<1> QED
  BY <1>1, <1>2, <1>3, <1>4, <1>5, <1>6, <1>7, <1>8 DEF Next, Dial, Send

----------------------------------------------------------------------------
(* The popups.                                                             *)

PopupInv == PopupsAreKnown /\ PopupsAreReplaced

LEMMA PopupsPreserved ==
  ASSUME TypeOK, PopupInv, [Next]_vars
  PROVE  PopupInv'
<1> USE DEF PopupInv, PopupsAreKnown, PopupsAreReplaced, TypeOK
<1>1. ASSUME UNCHANGED popupVars PROVE PopupInv'
  BY <1>1 DEF popupVars
<1>2. ASSUME NEW c \in Calls, SendSucceeds(c) PROVE PopupInv'
  <2>1. /\ popups' = [popups EXCEPT ![KeyOf(c)] = IF lastID[KeyOf(c)] /\ @ > 0 THEN @ ELSE @ + 1]
        /\ lastID' = [lastID EXCEPT ![KeyOf(c)] = TRUE]
        /\ lost' = lost
    BY <1>2 DEF SendSucceeds, Show
  <2> QED
    BY <2>1, KeyType
<1>3. ASSUME NEW c \in Calls, SendFails(c) PROVE PopupInv'
  <2>1. CASE UNCHANGED <<popups, lost>>
    BY <1>1, <1>3, <2>1 DEF SendFails, popupVars
  <2>2. CASE /\ Show(KeyOf(c))
             /\ lost' = [lost EXCEPT ![KeyOf(c)] = IF lastID[KeyOf(c)] THEN @ ELSE @ + 1]
    <3>1. popups' = [popups EXCEPT ![KeyOf(c)] = IF lastID[KeyOf(c)] /\ @ > 0 THEN @ ELSE @ + 1]
      BY <2>2 DEF Show
    <3>2. lastID' = lastID
      BY <1>3 DEF SendFails
    <3> QED
      BY <2>2, <3>1, <3>2, KeyType
  <2> QED
    BY <1>3, <2>1, <2>2 DEF SendFails
<1>4. CASE LogOut
  BY <1>4 DEF LogOut
<1>5. CASE Restart
  BY <1>5 DEF Restart
<1>6. ASSUME NEW c \in Calls,
             \/ Drop(c) \/ Admit(c) \/ Lock(c) \/ Dial(c) \/ RecordDesktop(c)
             \/ Post(c) \/ RecordSlack(c)
      PROVE  UNCHANGED popupVars
  BY <1>6 DEF Drop, Admit, Lock, Dial, DialSucceeds, DialFails, RecordDesktop, Post, PostSucceeds,
              PostFails, RecordSlack, Record, popupVars
<1>7. CASE Tick \/ UNCHANGED vars
  BY <1>1, <1>7 DEF Tick, vars, popupVars
<1> QED
  BY <1>1, <1>2, <1>3, <1>4, <1>5, <1>6, <1>7 DEF Next, Send

----------------------------------------------------------------------------
(* The theorems.                                                           *)

LEMMA InitEstablishes == Init => IInv
<1> SUFFICES ASSUME Init PROVE IInv
  OBVIOUS
<1> USE NotifyAssumption DEF Init
<1>1. TypeOK
  <2>1. outcome \in [Calls -> [Channels -> Outcome]]
    BY DEF Channels, Outcome
  <2>2. 0 \in 0 .. MaxTime /\ 0 \in 0 .. MaxFaults
    OBVIOUS
  <2> QED
    BY <2>1, <2>2 DEF TypeOK
<1>2. \A k \in Keys : lastSent[k] = Never /\ Never <= now
  BY NeverType
<1>3. SentIsLatest /\ RepeatsAreApart /\ DroppedIsCovered
  BY <1>2 DEF SentIsLatest, RepeatsAreApart, DroppedIsCovered, Admitted
<1>4. ChannelsInTurn /\ PopupsAreKnown /\ PopupsAreReplaced
  BY DEF ChannelsInTurn, PopupsAreKnown, PopupsAreReplaced
<1> QED
  BY <1>1, <1>3, <1>4 DEF IInv

LEMMA StepPreserves ==
  ASSUME IInv, [Next]_vars
  PROVE  IInv'
<1>1. TypeOK' /\ ThrottleInv'
  BY TypePreserved, ThrottlePreserved DEF IInv, ThrottleInv
<1>2. ChannelsInTurn' /\ PopupInv'
  BY ChannelsPreserved, PopupsPreserved DEF IInv, PopupInv
<1> QED
  BY <1>1, <1>2 DEF IInv, ThrottleInv, PopupInv

THEOREM Invariant == Spec => []IInv
  BY InitEstablishes, StepPreserves, PTL DEF Spec

(* The variables of Notify keep their types, and the mutex has one holder. *)
THEOREM TypeCorrect == Spec => []TypeOK
<1>1. IInv => TypeOK
  BY DEF IInv
<1> QED
  BY <1>1, Invariant, PTL

(* Two events of one key that go out are a throttle apart.                 *)
THEOREM RepeatsHoldBack == Spec => []RepeatsAreApart
<1>1. IInv => RepeatsAreApart
  BY DEF IInv
<1> QED
  BY <1>1, Invariant, PTL

(* What is dropped has a predecessor within the throttle that went out.    *)
THEOREM DropsAreCovered == Spec => []DroppedIsCovered
<1>1. IInv => DroppedIsCovered
  BY DEF IInv
<1> QED
  BY <1>1, Invariant, PTL

(* Per key the desktop shows one popup, besides those whose identifier was *)
(* lost.                                                                   *)
THEOREM PopupsReplaceEachOther == Spec => []PopupsAreReplaced
<1>1. IInv => PopupsAreReplaced
  BY DEF IInv
<1> QED
  BY <1>1, Invariant, PTL

(* A call that ended has a result from every channel.                      *)
THEOREM ChannelsAreTried == Spec => []EveryChannelIsTried
<1>1. IInv => EveryChannelIsTried
  BY DEF IInv, ChannelsInTurn, EveryChannelIsTried, Channels
<1> QED
  BY <1>1, Invariant, PTL

(* Of the events of one key exactly those within a throttle of one that    *)
(* went out are held back.                                                 *)
THEOREM RepeatsAreHeldBack == Spec => []RepeatsAreThrottled
  BY RepeatsHoldBack, DropsAreCovered, PTL DEF RepeatsAreThrottled
=============================================================================
