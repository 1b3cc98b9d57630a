----------------------------- MODULE Transcript -----------------------------
(***************************************************************************)
(* How the transcript of one execution reaches the people who follow it:   *)
(* consume (internal/executor) stores and publishes each event, the broker *)
(* fans it out over bounded channels, the stream handler (internal/api)    *)
(* subscribes, backfills from the database and forwards the live feed, and *)
(* followExecution (internal/cli) renders the frames and reconnects.       *)
(* The daemon may crash and boot again; a connection may break.            *)
(*                                                                         *)
(* Each follower has one connection at a time, so the handler that serves  *)
(* it goes by the follower's name.  An event is its sequence number.       *)
(***************************************************************************)
EXTENDS Naturals, Sequences, FiniteSets, Stream

CONSTANTS
  Followers,
  MaxEvents,     \* bound: events in the transcript
  ChanSize,      \* subscriberBuffer
  PageSize,      \* rows one backfill query returns
  WireSize,      \* frames the connection holds between handler and follower
  MaxReconnects, \* failed connects in a row that followExecution tolerates
  MaxCuts,       \* bound: times each follower's connection breaks
  MaxCrashes,    \* bound: crashes of the daemon
  MaxFaults      \* bound: store calls that fail

ASSUME TranscriptAssumption ==
  /\ {MaxEvents, MaxCuts, MaxCrashes, MaxFaults} \subseteq Nat
  /\ {ChanSize, PageSize, WireSize, MaxReconnects} \subseteq Nat \ {0}

VARIABLES
  phase,    \* where the goroutine of the run is
  seq,      \* Decoder.seq: the events decoded so far
  stored,   \* the rows of execution_events
  row,      \* the execution's status: "pending", "running" or "final"
  shut,     \* topic.closed
  subs,     \* topic.subs: a channel that is not in it is closed
  feed,     \* what each subscriber's channel holds
  handler,  \* where the handler of each connection is
  rowSeen,  \* the status handleStreamExecution read on entry
  over,     \* its local finished: no live feed is needed
  page,     \* rows of a backfill query that it has yet to write
  sent,     \* its local lastSeq
  wire,     \* frames written and not yet read
  mode,     \* what each follower does
  attempts, \* its local attempt
  lastSeq,  \* its local lastSeq: where it resumes
  shown,    \* the events it rendered
  cuts,
  up,       \* the daemon serves
  crashes,
  faults

runVars == <<phase, seq, stored, row>>
brokerVars == <<shut, subs, feed>>
handlerVars == <<handler, rowSeen, over, page, sent>>
followVars == <<mode, attempts, lastSeq, shown>>
envVars == <<cuts, up, crashes, faults>>
vars == <<runVars, brokerVars, handlerVars, wire, followVars, envVars>>

Event(n) == [seq |-> n, terminal |-> FALSE]
Started == [seq |-> 0, terminal |-> FALSE]
Ending == [seq |-> 0, terminal |-> TRUE]

Message == [seq : 0..MaxEvents, terminal : BOOLEAN]

Fault == faults < MaxFaults /\ faults' = faults + 1

Init ==
  /\ phase = "pending"
  /\ seq = 0
  /\ stored = {}
  /\ row = "pending"
  /\ shut = FALSE
  /\ subs = {}
  /\ feed = [f \in Followers |-> <<>>]
  /\ handler = [f \in Followers |-> "none"]
  /\ rowSeen = [f \in Followers |-> "pending"]
  /\ over = [f \in Followers |-> FALSE]
  /\ page = [f \in Followers |-> {}]
  /\ sent = [f \in Followers |-> 0]
  /\ wire = [f \in Followers |-> <<>>]
  /\ mode = [f \in Followers |-> "waiting"]
  /\ attempts = [f \in Followers |-> 0]
  /\ lastSeq = [f \in Followers |-> 0]
  /\ shown = [f \in Followers |-> <<>>]
  /\ cuts = [f \in Followers |-> 0]
  /\ up = TRUE
  /\ crashes = 0
  /\ faults = 0

-----------------------------------------------------------------------------
(* Broker *)

\* Mutant: a subscriber that does not drain misses the message and stays.
PublishLossy(msg) ==
  IF shut THEN UNCHANGED brokerVars
  ELSE /\ feed' = [f \in Followers |->
                     IF f \in subs /\ Len(feed[f]) < ChanSize THEN Append(feed[f], msg) ELSE feed[f]]
       /\ UNCHANGED <<shut, subs>>

\* Mutant: the queue of a subscriber grows without limit.
PublishUnbounded(msg) ==
  IF shut THEN UNCHANGED brokerVars
  ELSE /\ feed' = [f \in Followers |-> IF f \in subs THEN Append(feed[f], msg) ELSE feed[f]]
       /\ UNCHANGED <<shut, subs>>

\* A subscriber whose channel is full is dropped; what the channel holds can
\* still be received.
Publish(msg) ==
  IF shut THEN UNCHANGED brokerVars
  ELSE /\ subs' = {f \in subs : Len(feed[f]) < ChanSize}
       /\ feed' = [f \in Followers |-> IF f \in subs' THEN Append(feed[f], msg) ELSE feed[f]]
       /\ UNCHANGED shut

CloseTopic == /\ shut' = TRUE
              /\ subs' = {}
              /\ UNCHANGED feed

-----------------------------------------------------------------------------
(* The run *)

MoveTo(from, to) == up /\ phase = from /\ phase' = to

\* RecordBlocked or recordSkipped: the row is finished, unless the store fails,
\* and the broker is not told.
Suppress ==
  /\ MoveTo("pending", "suppressed")
  /\ \/ row' = "final" /\ UNCHANGED faults
     \/ Fault /\ UNCHANGED row
  /\ UNCHANGED <<seq, stored, brokerVars, handlerVars, wire, followVars, cuts, up, crashes>>

\* abandon: the run never gets to start the CLI.
Abandon ==
  /\ MoveTo("pending", "record")
  /\ UNCHANGED <<seq, stored, row, brokerVars, handlerVars, wire, followVars, envVars>>

MarkStarted ==
  /\ MoveTo("pending", "greet")
  /\ \/ row' = "running" /\ UNCHANGED faults
     \/ Fault /\ UNCHANGED row
  /\ UNCHANGED <<seq, stored, brokerVars, handlerVars, wire, followVars, cuts, up, crashes>>

Greet ==
  /\ MoveTo("greet", "reading")
  /\ Publish(Started)
  /\ UNCHANGED <<seq, stored, row, handlerVars, wire, followVars, envVars>>

Decode ==
  /\ MoveTo("reading", "append")
  /\ seq < MaxEvents
  /\ seq' = seq + 1
  /\ UNCHANGED <<stored, row, brokerVars, handlerVars, wire, followVars, envVars>>

\* A failure to store an event is logged, and the event published all the same.
AppendEvent ==
  /\ MoveTo("append", "publish")
  /\ \/ stored' = stored \union {seq} /\ UNCHANGED faults
     \/ Fault /\ UNCHANGED stored
  /\ UNCHANGED <<seq, row, brokerVars, handlerVars, wire, followVars, cuts, up, crashes>>

PublishEvent ==
  /\ MoveTo("publish", "reading")
  /\ Publish(Event(seq))
  /\ UNCHANGED <<seq, stored, row, handlerVars, wire, followVars, envVars>>

EndOfStream ==
  /\ MoveTo("reading", "record")
  /\ UNCHANGED <<seq, stored, row, brokerVars, handlerVars, wire, followVars, envVars>>

Record ==
  /\ MoveTo("record", "announce")
  /\ \/ row' = "final" /\ UNCHANGED faults
     \/ Fault /\ UNCHANGED row
  /\ UNCHANGED <<seq, stored, brokerVars, handlerVars, wire, followVars, cuts, up, crashes>>

Announce ==
  /\ MoveTo("announce", "close")
  /\ Publish(Ending)
  /\ UNCHANGED <<seq, stored, row, handlerVars, wire, followVars, envVars>>

Close ==
  /\ MoveTo("close", "done")
  /\ CloseTopic
  /\ UNCHANGED <<seq, stored, row, handlerVars, wire, followVars, envVars>>

-----------------------------------------------------------------------------
(* The stream handler *)

At(f, from) == handler[f] = from
Room(f) == Len(wire[f]) < WireSize
WriteSSE(f, msg) == wire' = [wire EXCEPT ![f] = Append(@, msg)]

\* The handler returns: its deferred sub.Close gives the channel back.
Return(f) == /\ handler' = [handler EXCEPT ![f] = "none"]
             /\ subs' = subs \ {f}
             /\ feed' = [feed EXCEPT ![f] = <<>>]
             /\ page' = [page EXCEPT ![f] = {}]

\* Mutant: a topic that is closed is subscribed to like any other.
SubscribeRegardless(f) ==
  /\ At(f, "found")
  /\ handler' = [handler EXCEPT ![f] = "backfill"]
  /\ subs' = subs \union {f}
  /\ over' = [over EXCEPT ![f] = rowSeen[f] = "final"]
  /\ UNCHANGED <<runVars, shut, feed, rowSeen, page, sent, wire, followVars, envVars>>

\* Attached before the backfill, so that nothing falls between the two.
Subscribe(f) ==
  /\ At(f, "found")
  /\ handler' = [handler EXCEPT ![f] = "backfill"]
  /\ subs' = IF shut THEN subs ELSE subs \union {f}
  /\ over' = [over EXCEPT ![f] = rowSeen[f] = "final" \/ shut]
  /\ UNCHANGED <<runVars, shut, feed, rowSeen, page, sent, wire, followVars, envVars>>

\* ListEvents: the first PageSize rows after a sequence number.
ListEvents(after) ==
  {n \in stored : n > after /\ Cardinality({m \in stored : after < m /\ m <= n}) <= PageSize}

EndBackfill(f) == handler' = [handler EXCEPT ![f] = IF over[f] THEN "ending" ELSE "live"]

ReadPage(f) ==
  /\ At(f, "backfill")
  /\ page[f] = {}
  /\ page' = [page EXCEPT ![f] = ListEvents(sent[f])]
  /\ IF page'[f] = {} THEN EndBackfill(f) ELSE UNCHANGED handler
  /\ UNCHANGED <<runVars, brokerVars, rowSeen, over, sent, wire, followVars, envVars>>

\* Logged, and the backfill is taken to be complete.
PageFails(f) ==
  /\ At(f, "backfill")
  /\ page[f] = {}
  /\ Fault
  /\ EndBackfill(f)
  /\ UNCHANGED <<runVars, brokerVars, rowSeen, over, page, sent, wire, followVars, cuts, up, crashes>>

\* The rows of a page in order.
WritePage(f) ==
  /\ At(f, "backfill")
  /\ Room(f)
  /\ \E n \in page[f] :
       /\ \A m \in page[f] : n <= m
       /\ WriteSSE(f, Event(n))
       /\ sent' = [sent EXCEPT ![f] = n]
       /\ page' = [page EXCEPT ![f] = @ \ {n}]
  /\ UNCHANGED <<runVars, brokerVars, handler, rowSeen, over, followVars, envVars>>

\* Nothing is left to wait for.  The frame names the status read on entry,
\* which a follower prints and nothing here depends on.
WriteEnding(f) ==
  /\ At(f, "ending")
  /\ Room(f)
  /\ WriteSSE(f, Ending)
  /\ Return(f)
  /\ UNCHANGED <<runVars, shut, rowSeen, over, sent, followVars, envVars>>

\* A live event that the backfill already covered.
SkipCovered(f) ==
  /\ At(f, "live")
  /\ feed[f] # <<>>
  /\ Head(feed[f]).seq # 0
  /\ Head(feed[f]).seq <= sent[f]
  /\ feed' = [feed EXCEPT ![f] = Tail(@)]
  /\ UNCHANGED <<runVars, shut, subs, handlerVars, wire, followVars, envVars>>

Forward(f) ==
  /\ At(f, "live")
  /\ feed[f] # <<>>
  /\ Room(f)
  /\ LET msg == Head(feed[f]) IN
       /\ msg.seq = 0 \/ msg.seq > sent[f]
       /\ WriteSSE(f, msg)
       /\ sent' = [sent EXCEPT ![f] = IF msg.seq > @ THEN msg.seq ELSE @]
       /\ IF msg.terminal
          THEN Return(f)
          ELSE /\ feed' = [feed EXCEPT ![f] = Tail(@)]
               /\ UNCHANGED <<handler, subs, page>>
  /\ UNCHANGED <<runVars, shut, rowSeen, over, followVars, envVars>>

\* The channel was closed and is drained.
FeedClosed(f) ==
  /\ At(f, "live")
  /\ feed[f] = <<>>
  /\ f \notin subs
  /\ Return(f)
  /\ UNCHANGED <<runVars, shut, rowSeen, over, sent, wire, followVars, envVars>>

-----------------------------------------------------------------------------
(* The follower *)

\* The stream is gone.  A connection that was made resets the budget, which
\* the loop then raises by one.
Resume(f) ==
  /\ mode' = [mode EXCEPT ![f] = "waiting"]
  /\ attempts' = [attempts EXCEPT ![f] = 1]

\* The request is answered with 200 once GetExecution found the row.
Connect(f) ==
  /\ up
  /\ mode[f] = "waiting"
  /\ mode' = [mode EXCEPT ![f] = "reading"]
  /\ handler' = [handler EXCEPT ![f] = "found"]
  /\ rowSeen' = [rowSeen EXCEPT ![f] = row]
  /\ sent' = [sent EXCEPT ![f] = lastSeq[f]]
  /\ UNCHANGED <<runVars, brokerVars, over, page, wire, attempts, lastSeq, shown, envVars>>

\* GetExecution failed.  An answer that is an error ends the follow at once.
ConnectFails(f) ==
  /\ up
  /\ mode[f] = "waiting"
  /\ Fault
  /\ mode' = [mode EXCEPT ![f] = "gaveup"]
  /\ UNCHANGED <<runVars, brokerVars, handlerVars, wire, attempts, lastSeq, shown, cuts, up, crashes>>

ConnectRefused(f) ==
  /\ ~up
  /\ mode[f] = "waiting"
  /\ IF attempts[f] >= MaxReconnects
     THEN mode' = [mode EXCEPT ![f] = "gaveup"] /\ UNCHANGED attempts
     ELSE attempts' = [attempts EXCEPT ![f] = @ + 1] /\ UNCHANGED mode
  /\ UNCHANGED <<runVars, brokerVars, handlerVars, wire, lastSeq, shown, envVars>>

\* renderFrame for a transcript event, which may be one it already has.
Render(f) ==
  /\ mode[f] = "reading"
  /\ wire[f] # <<>>
  /\ ~Head(wire[f]).terminal
  /\ LET n == Head(wire[f]).seq IN
       IF n > lastSeq[f]
       THEN /\ shown' = [shown EXCEPT ![f] = Append(@, n)]
            /\ lastSeq' = [lastSeq EXCEPT ![f] = n]
       ELSE UNCHANGED <<shown, lastSeq>>
  /\ wire' = [wire EXCEPT ![f] = Tail(@)]
  /\ UNCHANGED <<runVars, brokerVars, handlerVars, mode, attempts, envVars>>

\* The terminal frame ends the follow.
Finish(f) ==
  /\ mode[f] = "reading"
  /\ wire[f] # <<>>
  /\ Head(wire[f]).terminal
  /\ mode' = [mode EXCEPT ![f] = "finished"]
  /\ wire' = [wire EXCEPT ![f] = <<>>]
  /\ UNCHANGED <<runVars, brokerVars, handlerVars, attempts, lastSeq, shown, envVars>>

\* The response ended without a terminal frame.
StreamEnds(f) ==
  /\ mode[f] = "reading"
  /\ wire[f] = <<>>
  /\ handler[f] = "none"
  /\ Resume(f)
  /\ UNCHANGED <<runVars, brokerVars, handlerVars, wire, lastSeq, shown, envVars>>

-----------------------------------------------------------------------------
(* The environment *)

\* The connection breaks: what was in flight is lost, the handler's context
\* is done, and the follower resumes from what arrived.
Cut(f) ==
  /\ mode[f] = "reading"
  /\ cuts[f] < MaxCuts
  /\ cuts' = [cuts EXCEPT ![f] = @ + 1]
  /\ wire' = [wire EXCEPT ![f] = <<>>]
  /\ Return(f)
  /\ Resume(f)
  /\ UNCHANGED <<runVars, shut, rowSeen, over, sent, lastSeq, shown, up, crashes, faults>>

\* The broker and the handlers die with the daemon; the database stays.
Crash ==
  /\ up
  /\ crashes < MaxCrashes
  /\ crashes' = crashes + 1
  /\ up' = FALSE
  /\ phase' = IF phase \in {"done", "suppressed"} THEN phase ELSE "lost"
  /\ shut' = FALSE
  /\ subs' = {}
  /\ feed' = [f \in Followers |-> <<>>]
  /\ page' = [f \in Followers |-> {}]
  /\ handler' = [f \in Followers |-> "none"]
  /\ UNCHANGED <<seq, stored, row, rowSeen, over, sent, wire, followVars, cuts, faults>>

\* ReapOrphanedExecutions finishes the row; its failure is only logged.
Boot ==
  /\ ~up
  /\ up' = TRUE
  /\ \/ row' = "final" /\ UNCHANGED faults
     \/ Fault /\ UNCHANGED row
  /\ UNCHANGED <<phase, seq, stored, brokerVars, handlerVars, wire, followVars, cuts, crashes>>

-----------------------------------------------------------------------------
RunStep ==
  \/ Suppress \/ Abandon \/ MarkStarted \/ Greet \/ Decode \/ AppendEvent
  \/ PublishEvent \/ EndOfStream \/ Record \/ Announce \/ Close

HandlerStep(f) ==
  \/ Subscribe(f) \/ ReadPage(f) \/ PageFails(f) \/ WritePage(f)
  \/ WriteEnding(f) \/ SkipCovered(f) \/ Forward(f) \/ FeedClosed(f)

FollowerStep(f) ==
  Connect(f) \/ ConnectFails(f) \/ ConnectRefused(f) \/ Render(f) \/ Finish(f) \/ StreamEnds(f)

Next == \/ RunStep
        \/ \E f \in Followers : HandlerStep(f) \/ FollowerStep(f) \/ Cut(f)
        \/ Crash \/ Boot

Spec == Init /\ [][Next]_vars

(***************************************************************************)
(* Fairness.  The goroutine of the run, the handlers and the followers are *)
(* scheduled, a follower whose connection failed tries again, and the      *)
(* service manager restarts a daemon that died (Restart=on-failure).       *)
(***************************************************************************)
Fairness == /\ WF_vars(RunStep)
            /\ \A f \in Followers : WF_vars(HandlerStep(f)) /\ WF_vars(FollowerStep(f))
            /\ WF_vars(Boot)

FairSpec == Spec /\ Fairness

-----------------------------------------------------------------------------
(* Properties *)

TypeOK ==
  /\ phase \in {"pending", "greet", "reading", "append", "publish", "record", "announce",
                "close", "done", "suppressed", "lost"}
  /\ seq \in 0..MaxEvents
  /\ stored \subseteq 1..seq
  /\ row \in {"pending", "running", "final"}
  /\ shut \in BOOLEAN
  /\ subs \subseteq Followers
  /\ feed \in [Followers -> Seq(Message)]
  /\ handler \in [Followers -> {"none", "found", "backfill", "ending", "live"}]
  /\ rowSeen \in [Followers -> {"pending", "running", "final"}]
  /\ over \in [Followers -> BOOLEAN]
  /\ page \in [Followers -> SUBSET (1..MaxEvents)]
  /\ sent \in [Followers -> 0..MaxEvents]
  /\ wire \in [Followers -> Seq(Message)]
  /\ mode \in [Followers -> {"waiting", "reading", "finished", "gaveup"}]
  /\ attempts \in [Followers -> 0..MaxReconnects]
  /\ lastSeq \in [Followers -> 0..MaxEvents]
  /\ shown \in [Followers -> Seq(1..MaxEvents)]
  /\ cuts \in [Followers -> 0..MaxCuts]
  /\ up \in BOOLEAN
  /\ crashes \in 0..MaxCrashes
  /\ faults \in 0..MaxFaults
  /\ \A f \in Followers :
       Len(feed[f]) <= ChanSize /\ Len(wire[f]) <= WireSize /\ Cardinality(page[f]) <= PageSize

(***************************************************************************)
(* Following an execution implements ExecutionFeed: each event once, in    *)
(* order, and an end only after all of them, through dropped subscribers,  *)
(* broken connections and daemon restarts.  After a store call that failed *)
(* events may be missing, but still none comes twice or out of order.      *)
(***************************************************************************)
Feed == INSTANCE ExecutionFeed WITH
          numbered <- seq,
          written <- stored,
          over <- row = "final",
          satisfied <- {f \in Followers : mode[f] = "finished"},
          faulty <- faults > 0
FeedSpec == Feed!FeedSpec

(***************************************************************************)
(* Every follower gets to an end, whatever breaks meanwhile: it is told    *)
(* that the execution finished, or the daemon was away for too long.  The  *)
(* exceptions are the live streams that nobody will end: of a run that is  *)
(* suppressed, which the broker is not told, and of one whose row survived *)
(* the reaping at boot.                                                    *)
(***************************************************************************)
Forsaken(f) ==
  /\ handler[f] = "live"
  /\ phase = "suppressed" \/ (phase = "lost" /\ row # "final")

EveryFollowEnds ==
  \A f \in Followers : <>(mode[f] \in {"finished", "gaveup"} \/ Forsaken(f))

(***************************************************************************)
(* The output of claude is understood: its lines, what they add up to, and *)
(* the rules that would allow what was denied.  These are statements       *)
(* without variables, which the first state is as good for as any.         *)
(***************************************************************************)
OutputIsUnderstood == Init => LinesAreWhole /\ SummaryIsOfTheStream /\ DenialsAreAllowed
=============================================================================
