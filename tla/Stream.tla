------------------------------- MODULE Stream --------------------------------
(***************************************************************************)
(* What a run makes of the output of claude: internal/claude cuts it into  *)
(* lines, takes those that are JSON objects for events and folds them into *)
(* a summary, from which the executor judges the run (Classify of Executor *)
(* has the verdict, Transcript the way of an event to its readers).  The   *)
(* denials of the result become rules, which a re-run adds to the          *)
(* allowlist of its task.                                                  *)
(***************************************************************************)
EXTENDS Naturals, Sequences, SequencesExt, FiniteSetsExt

CONSTANTS
  BufferSize,  \* of the bufio.Reader (64 KiB)
  MaxLineBytes,
  MaxInput,    \* bound: bytes of an output
  MaxStream    \* bound: lines of an output, and denials of a run

ASSUME StreamAssumption ==
  /\ BufferSize \in Nat \ {0} /\ MaxLineBytes \in Nat \ {0}
  /\ MaxInput \in Nat /\ MaxStream \in Nat

----------------------------------------------------------------------------
(* Lines.  An output is a sequence of bytes; a line is where it begins and *)
(* ends.                                                                   *)

NewLine == "\n"

\* bufio.Reader.ReadSlice from place i: to the newline, if it is within the
\* buffer, else a full buffer or what is left.
ReadSlice(output, i) ==
  LET breaks == {j \in i .. i + BufferSize - 1 : j <= Len(output) /\ output[j] = NewLine}
  IN IF breaks # {} THEN [end |-> Min(breaks), err |-> "nil"]
     ELSE IF i + BufferSize - 1 <= Len(output) THEN [end |-> i + BufferSize - 1, err |-> "full"]
     ELSE [end |-> Len(output), err |-> "EOF"]

\* Mutant: a full buffer is taken for a line.
TakeUnjoined(chunk, i) ==
  IF chunk.end - i + 1 > MaxLineBytes THEN "long"
  ELSE IF chunk.err = "EOF" /\ chunk.end < i THEN "EOF" ELSE "line"

\* One turn of the loop of readLine, for a line that began at i.
Take(chunk, i) ==
  IF chunk.end - i + 1 > MaxLineBytes THEN "long"
  ELSE CASE chunk.err = "nil" -> "line"
         [] chunk.err = "full" -> "more"
         [] chunk.err = "EOF" -> IF chunk.end < i THEN "EOF" ELSE "line"

\* readLine: the end of the line that begins at i, or why there is none.
LineFrom(output, i) ==
  LET turn[n \in 0 .. Len(output) + 1] ==
        IF n = 0 THEN [end |-> i - 1, is |-> "more"]
        ELSE LET before == turn[n - 1]
                 chunk == ReadSlice(output, before.end + 1)
             IN IF before.is = "more" THEN [end |-> chunk.end, is |-> Take(chunk, i)] ELSE before
  IN turn[Len(output) + 1]

\* What Next reads until it returns an error: the lines, and the error.
Lines(output) ==
  LET read[n \in 0 .. Len(output) + 1] ==
        IF n = 0 THEN [lines |-> <<>>, next |-> 1, is |-> "line"]
        ELSE LET before == read[n - 1]
                 l == LineFrom(output, before.next)
             IN IF before.is # "line" THEN before
                ELSE IF l.is # "line" THEN [before EXCEPT !.is = l.is]
                ELSE [lines |-> Append(before.lines, <<before.next, l.end>>),
                      next |-> l.end + 1, is |-> "line"]
  IN read[Len(output) + 1]

----------------------------------------------------------------------------
(* Events.  A session is known by a number; 0 stands for an event that     *)
(* names none, or a result that cannot be decoded.                         *)

Sessions == 0 .. 2
Results == {"ok", "error", "budget"}

EventLines ==
  [type : {"init", "assistant"}, session : Sessions]
  \cup [type : {"result"}, session : {0, 2}, result : Results \cup {"torn"}]
  \cup [type : {"rate_limit_event"}, session : {0},
        status : {"", "allowed", "rejected"}, overage : {"", "out_of_credits"}]

\* Blank lines, and those that are no JSON object; the line that is too long.
StreamLines == EventLines \cup [type : {"noise", "long"}]

\* RateLimit.Exhausted.  Here overage is rejected where it has a reason.
Exhausted(e) == e.status \notin {"", "allowed"} \/ e.overage = "out_of_credits"

NoSummary == [session |-> 0, result |-> "none", limited |-> FALSE, turns |-> 0]

\* Mutant: each notice says anew whether there is quota left.
ObserveLatest(s, e) ==
  LET t == CASE e.type = "init" -> [s EXCEPT !.session = e.session]
             [] e.type = "assistant" -> [s EXCEPT !.turns = @ + 1]
             [] e.type = "rate_limit_event" -> [s EXCEPT !.limited = Exhausted(e)]
             [] e.type = "result" -> IF e.result = "torn" THEN s ELSE [s EXCEPT !.result = e.result]
  IN IF t.session = 0 THEN [t EXCEPT !.session = e.session] ELSE t

\* Summary.Observe
Observe(s, e) ==
  LET t == CASE e.type = "init" -> [s EXCEPT !.session = e.session]
             [] e.type = "assistant" -> [s EXCEPT !.turns = @ + 1]
             [] e.type = "rate_limit_event" -> [s EXCEPT !.limited = @ \/ Exhausted(e)]
             [] e.type = "result" -> IF e.result = "torn" THEN s ELSE [s EXCEPT !.result = e.result]
  IN IF t.session = 0 THEN [t EXCEPT !.session = e.session] ELSE t

\* Next: what is no event is skipped; after an error nothing is read.
Hear(heard, line) ==
  CASE ~heard.open \/ line.type = "noise" -> heard
    [] heard.open /\ line.type = "long" -> [heard EXCEPT !.open = FALSE]
    [] OTHER -> [heard EXCEPT !.summary = Observe(@, line)]

\* What consume returns.
SummaryOf(stream) ==
  LET after[n \in 0 .. Len(stream)] ==
        IF n = 0 THEN [summary |-> NoSummary, open |-> TRUE] ELSE Hear(after[n - 1], stream[n])
  IN after[Len(stream)].summary

----------------------------------------------------------------------------
(* Denials.  The rule of a denial is the name of the tool, but for Bash    *)
(* the first word of the command with it.                                  *)

Denials == [tool : {"", "Read"}, word : {""}] \cup [tool : {"Bash"}, word : {"", "git", "ls"}]

\* DisplayRule; "" for none.
DisplayRule(d) == IF d.word = "" THEN d.tool ELSE d.word

\* Mutant: what one loop adds is not noted.
AddRulesRepeating(have, rules) ==
  SelectSeq(rules, LAMBDA r : r # "" /\ r \notin have)

\* The loop of DenialRules and of mergeRules: the rules that are new, each once.
AddRules(have, rules) ==
  LET added[n \in 0 .. Len(rules)] ==
        IF n = 0 THEN <<>>
        ELSE LET known == have \cup ToSet(added[n - 1]) \cup {""}
             IN IF rules[n] \in known THEN added[n - 1] ELSE Append(added[n - 1], rules[n])
  IN added[Len(rules)]

DenialRules(denials) == AddRules({}, [i \in DOMAIN denials |-> DisplayRule(denials[i])])
MergeRules(allowed, rules) == AddRules(allowed, rules)

----------------------------------------------------------------------------
(* Properties.                                                             *)

(* Wherever the buffer is full, the lines are those of the output, whole   *)
(* and in order, the last without its newline too, up to the first one     *)
(* that is longer than the limit.                                          *)
LinesAreWhole ==
  \A output \in SeqOf({NewLine, "x"}, MaxInput) :
    LET read == Lines(output)
        found == {read.lines[i] : i \in DOMAIN read.lines}
        real == {l \in (1 .. Len(output)) \X (1 .. Len(output)) :
                   /\ l[1] <= l[2]
                   /\ l[1] = 1 \/ output[l[1] - 1] = NewLine
                   /\ l[2] = Len(output) \/ output[l[2]] = NewLine
                   /\ \A j \in l[1] .. l[2] - 1 : output[j] # NewLine}
        long == {l \in real : l[2] - l[1] + 1 > MaxLineBytes}
    IN /\ found = {l \in real : \A m \in long : l[2] < m[1]}
       /\ \A i \in 2 .. Len(read.lines) : read.lines[i][1] = read.lines[i - 1][2] + 1
       /\ read.is = IF long = {} THEN "EOF" ELSE "long"

(* Noise between events changes nothing, and nothing counts after a line   *)
(* that is too long; the last result that can be read counts; an exhausted *)
(* quota is not forgotten, whatever notices follow; the session is that of *)
(* the last init, or the first that is named when there is none.           *)
SummaryIsOfTheStream ==
  \A stream \in SeqOf(StreamLines, MaxStream) :
    LET s == SummaryOf(stream)
        heard == {i \in DOMAIN stream : \A j \in 1 .. i : stream[j].type # "long"}
        Of(type) == {i \in heard : stream[i].type = type}
        read == {i \in Of("result") : stream[i].result # "torn"}
        named == {i \in heard : stream[i].type # "noise" /\ stream[i].session # 0}
        inits == Of("init") \intersect named
    IN /\ s.result = IF read = {} THEN "none" ELSE stream[Max(read)].result
       /\ s.limited <=> \E i \in Of("rate_limit_event") :
                          stream[i].status = "rejected" \/ stream[i].overage # ""
       /\ s.turns = Cardinality(Of("assistant"))
       /\ Of("init") = inits =>
            s.session = IF inits # {} THEN stream[Max(inits)].session
                        ELSE IF named # {} THEN stream[Min(named)].session ELSE 0

(* "Allow these and re-run" allows all that was denied and can be named,   *)
(* each once and nothing else, and asking again adds nothing.              *)
DenialsAreAllowed ==
  \A denials \in SeqOf(Denials, MaxStream), allowed \in SUBSET {"Read", "git"} :
    LET rules == DenialRules(denials)
        added == MergeRules(allowed, rules)
        after == allowed \cup {added[i] : i \in DOMAIN added}
    IN /\ after = allowed \cup ({DisplayRule(denials[i]) : i \in DOMAIN denials} \ {""})
       /\ \A i, j \in DOMAIN added : i # j => added[i] # added[j]
       /\ \A i \in DOMAIN added : added[i] \notin allowed
       /\ MergeRules(after, rules) = <<>>
=============================================================================
