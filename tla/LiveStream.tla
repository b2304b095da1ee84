------------------------------ MODULE LiveStream ------------------------------
(***************************************************************************)
(* One WebSocket stream of the live gateway: the worker and the source of  *)
(* live/websocket.py as the runtime wires them up (live/runtime.py): every *)
(* message and every change of health is put into the source, which        *)
(* poll_source (live/service.py) then reads into the signal log and saves  *)
(* as the stream's checkpoint.                                             *)
(*                                                                         *)
(* All of it runs in one task of the event loop.  The store may fail at    *)
(* each of its transactions, the connection at each message, the process   *)
(* at any time.  The provider sends nothing twice.                         *)
(***************************************************************************)
EXTENDS Integers, FiniteSets, Sequences

CONSTANTS
  News,         \* messages with an observation
  MaxFaults,    \* bound on the failures
  MaxFailures   \* failed connections counted; the backoff does not grow after five

StreamAssumption == MaxFaults \in Nat /\ MaxFailures \in Nat

VARIABLES
  phase,      \* of the worker
  failures,   \* its consecutive failures
  source,     \* the source: [queue, health, received]
  poll,       \* the poll_source at work, or NoPoll
  row,        \* the stream's checkpoint: [health, cursor, last]
  kept,       \* the messages in the signal log
  unsent,     \* the messages the provider has not sent yet
  faults      \* failures so far

streamVars == <<phase, failures, source, poll, row, kept, unsent, faults>>

NoPoll == [pc |-> "none"]
NewSource == [queue |-> <<>>, health |-> "not_configured", received |-> 0]

StreamInit ==
  /\ phase = "connecting"
  /\ failures = 0
  /\ source = NewSource
  /\ poll = NoPoll
  /\ row = [health |-> "none", cursor |-> 0, last |-> "none"]
  /\ kept = {}
  /\ unsent = News
  /\ faults = 0

-----------------------------------------------------------------------------
Awaits(p) == phase = p /\ poll = NoPoll
Fault == faults < MaxFaults /\ faults' = faults + 1

\* Jin10WebSocketSource.push and set_health.
Pushed(m) ==
  [queue |-> Append(source.queue, m), health |-> "active", received |-> source.received + 1]

\* _ingest_websocket and _set_websocket_health: the source, then poll_source; where the
\* worker goes on after it, and where if it raises.
Poll(from, then, else) ==
  /\ source' = from
  /\ poll' = [pc |-> "load", then |-> then, else |-> else]

\* Mutant: a change of health does not poll.
Report_SetOnly(health, then, else) ==
  /\ source' = [source EXCEPT !.health = health]
  /\ phase' = then
  /\ UNCHANGED poll

Report(health, then, else) ==
  /\ Poll([source EXCEPT !.health = health], then, else)
  /\ UNCHANGED phase

-----------------------------------------------------------------------------
(* Jin10WebSocketWorker.run_once                                           *)

\* The handshake: connected, authenticated, subscribed, each with its acknowledgement.
Handshake == <<"connecting", "connected", "authenticating", "subscribing">>

Acknowledged(i) ==
  /\ Awaits(Handshake[i])
  /\ IF i < Len(Handshake)
     THEN phase' = Handshake[i + 1] /\ UNCHANGED <<source, poll>>
     ELSE Report("active", "open", "failed")
  /\ UNCHANGED <<failures, row, kept, unsent, faults>>

\* No connection, a rejection, an acknowledgement of something else; a message whose
\* decoding raises what run_once does not catch; the connection breaks.
Breaks ==
  /\ \/ \E i \in DOMAIN Handshake : Awaits(Handshake[i])
     \/ Awaits("open")
  /\ Fault
  /\ phase' = "failed"
  /\ UNCHANGED <<failures, source, poll, row, kept, unsent>>

\* The server closes the connection in good order: the loop over it ends.
Closes ==
  /\ Awaits("open")
  /\ phase' = "returned"
  /\ UNCHANGED <<failures, source, poll, row, kept, unsent, faults>>

Message(m) ==
  /\ Awaits("open") /\ m \in unsent
  /\ unsent' = unsent \ {m}
  /\ Poll(Pushed(m), "open", "failed")
  /\ UNCHANGED <<phase, failures, row, kept, faults>>

\* A message that is not understood degrades the stream, which stays open.
Malformed ==
  /\ Awaits("open")
  /\ Fault
  /\ Report("degraded", "open", "failed")
  /\ UNCHANGED <<failures, row, kept, unsent>>

\* While the stream is down, messages pass it by.
Missed(m) ==
  /\ phase # "open" /\ m \in unsent
  /\ unsent' = unsent \ {m}
  /\ UNCHANGED <<phase, failures, source, poll, row, kept, faults>>

-----------------------------------------------------------------------------
(* run_forever                                                             *)

Failed ==
  /\ Awaits("failed")
  /\ failures' = IF failures < MaxFailures THEN failures + 1 ELSE failures
  /\ Report("degraded", "backoff", "dead")
  /\ UNCHANGED <<row, kept, unsent, faults>>

Returned ==
  /\ Awaits("returned")
  /\ failures' = 0
  /\ phase' = "backoff"
  /\ UNCHANGED <<source, poll, row, kept, unsent, faults>>

Retry ==
  /\ Awaits("backoff")
  /\ phase' = "connecting"
  /\ UNCHANGED <<failures, source, poll, row, kept, unsent, faults>>

\* A stop is seen at the end of the backoff, or cancels what is being awaited.
Stop ==
  /\ poll = NoPoll /\ phase \notin {"dead", "stopped"}
  /\ phase' = "stopped"
  /\ UNCHANGED <<failures, source, poll, row, kept, unsent, faults>>

\* The process dies and is started again, or the gateway is: a new source.
Restart ==
  /\ Fault
  /\ phase' = "connecting" /\ failures' = 0
  /\ source' = NewSource /\ poll' = NoPoll
  /\ UNCHANGED <<row, kept, unsent>>

-----------------------------------------------------------------------------
(* poll_source                                                             *)

Raise ==
  /\ Fault
  /\ phase' = poll.else
  /\ poll' = NoPoll
  /\ UNCHANGED <<failures, source, row, kept, unsent>>

\* The checkpoint is loaded, and Jin10WebSocketSource.read takes the queue and makes the
\* next one: the cursor counts the observations, health is the source's.
Next_(batch) ==
  [health |-> source.health,
   cursor |-> row.cursor + Len(batch),
   last   |-> IF batch = <<>> THEN row.last ELSE batch[Len(batch)]]

Read ==
  /\ poll.pc = "load"
  /\ poll' = [pc |-> "ingest", then |-> poll.then, else |-> poll.else,
              batch |-> source.queue, next |-> Next_(source.queue)]
  /\ source' = [source EXCEPT !.queue = <<>>]
  /\ UNCHANGED <<phase, failures, row, kept, unsent, faults>>

\* ingest_observation, one after the other (module LiveSignals).
IngestOne ==
  /\ poll.pc = "ingest" /\ poll.batch # <<>>
  /\ kept' = kept \cup {Head(poll.batch)}
  /\ poll' = [poll EXCEPT !.batch = Tail(poll.batch)]
  /\ UNCHANGED <<phase, failures, source, row, unsent, faults>>

\* Mutant: the checkpoint is saved before the messages are ingested.
SaveCheckpoint_First ==
  /\ poll.pc = "ingest"
  /\ row' = poll.next
  /\ IF poll.batch # <<>>
     THEN UNCHANGED <<poll, phase>>
     ELSE poll' = NoPoll /\ phase' = poll.then
  /\ UNCHANGED <<failures, source, kept, unsent, faults>>

SaveCheckpoint ==
  /\ poll.pc = "ingest" /\ poll.batch = <<>>
  /\ row' = poll.next
  /\ poll' = NoPoll
  /\ phase' = poll.then
  /\ UNCHANGED <<failures, source, kept, unsent, faults>>

\* A transaction of the store fails, or the content of a message is refused.
PollFails == poll # NoPoll /\ Raise

StreamNext ==
  \/ \E i \in DOMAIN Handshake : Acknowledged(i)
  \/ Breaks
  \/ Closes
  \/ \E m \in News : Message(m)
  \/ Malformed
  \/ \E m \in News : Missed(m)
  \/ Failed
  \/ Returned
  \/ Retry
  \/ Stop
  \/ Restart
  \/ Read
  \/ IngestOne
  \/ SaveCheckpoint
  \/ PollFails

StreamSpec == StreamInit /\ [][StreamNext]_streamVars

-----------------------------------------------------------------------------

StreamTypeOK ==
  /\ phase \in {"connecting", "connected", "authenticating", "subscribing", "open", "failed",
                "returned", "backoff", "dead", "stopped"}
  /\ source.queue \in Seq(News) /\ row.cursor \in Nat /\ kept \subseteq News

\* What the checkpoint counts, and the message it names last, is in the signal log,
\* whatever fails or dies between the read and the save (poll_source, service.py:239).
CountedIsLogged ==
  /\ row.cursor <= Cardinality(kept)
  /\ row.last \in kept \cup {"none"}

\* No message lies in the queue of a stream that waits for the network or for a retry:
\* what a failed poll left there, the report of the failure takes along
\* (_set_websocket_health, runtime.py:79).
NothingWaits ==
  poll = NoPoll /\ phase \notin {"failed", "dead", "stopped"} => source.queue = <<>>
=============================================================================
