------------------------------ MODULE EventBus ------------------------------
(***************************************************************************)
(* The daemon's in-memory event bus (runner/event_bus.py) and the          *)
(* per-scan event streams read from it (daemon/sse.py).                    *)
(*                                                                         *)
(* Scans publish from threads with event loops of their own; a subscriber  *)
(* lives on the server's loop.  So an event goes through three places:     *)
(* the callbacks call_soon_threadsafe has scheduled, the subscriber's      *)
(* bounded queue, and the client.                                          *)
(***************************************************************************)
EXTENDS Naturals, Sequences, FiniteSets, SequencesExt

CONSTANTS
  Streams,      \* clients, each with at most one event stream open
  ScanIds,      \* ids of scans
  QueueMax      \* _QUEUE_MAX

VARIABLES
  stream,       \* state of each client's stream
  watch,        \* the scan it is about, 0 when there is no stream
  calls,        \* events handed to the server's loop, not yet offered
  queue,        \* the subscriber's queue
  sent,         \* events this connection has sent to its client
  \* History, for the properties:
  published,    \* events of each scan, in the order of publication
  from,         \* length of published[watch] when the stream subscribed
  dropped       \* whether its queue has overflowed since

busVars == <<stream, watch, calls, queue, sent, published, from, dropped>>

BusInit ==
  /\ stream = [s \in Streams |-> "off"]
  /\ watch = [s \in Streams |-> 0]
  /\ calls = [s \in Streams |-> <<>>]
  /\ queue = [s \in Streams |-> <<>>]
  /\ sent = [s \in Streams |-> <<>>]
  /\ published = [n \in ScanIds |-> <<>>]
  /\ from = [s \in Streams |-> 0]
  /\ dropped = [s \in Streams |-> FALSE]

Subscribed(s) == stream[s] = "open"

\* publish, from the loop of a scan's thread: one callback per subscriber.
Publish(e) ==
  /\ calls' = [s \in Streams |-> IF Subscribed(s) THEN Append(calls[s], e) ELSE calls[s]]
  /\ published' = [published EXCEPT ![e.scan] = Append(@, e)]
  /\ UNCHANGED <<stream, watch, queue, sent, from, dropped>>

\* GET /api/scans/{id}/events: a response whose generator has not run yet.
\* EventSource comes back by itself after the server has ended a stream.
Connect(s, n) ==
  /\ stream[s] = "off" \/ (stream[s] = "ended" /\ watch[s] = n)
  /\ stream' = [stream EXCEPT ![s] = "connected"]
  /\ watch' = [watch EXCEPT ![s] = n]
  /\ sent' = [sent EXCEPT ![s] = <<>>]
  /\ UNCHANGED <<calls, queue, published, from, dropped>>

\* subscribe() runs at the first __anext__.
Subscribe(s) ==
  /\ stream[s] = "connected"
  /\ stream' = [stream EXCEPT ![s] = "open"]
  /\ from' = [from EXCEPT ![s] = Len(published[watch[s]])]
  /\ dropped' = [dropped EXCEPT ![s] = FALSE]
  /\ UNCHANGED <<watch, calls, queue, sent, published>>

\* _offer: a full queue drops the event.
Offer(s) ==
  /\ calls[s] # <<>>
  /\ calls' = [calls EXCEPT ![s] = Tail(@)]
  /\ IF Len(queue[s]) < QueueMax
     THEN queue' = [queue EXCEPT ![s] = Append(@, Head(calls[s]))] /\ UNCHANGED dropped
     ELSE dropped' = [dropped EXCEPT ![s] = TRUE] /\ UNCHANGED queue
  /\ UNCHANGED <<stream, watch, sent, published, from>>

\* Mutated: events of concurrent scans are not dropped.
EventForAny(e, n) == TRUE

EventForScan(e, n) == e.scan = n

\* The stream takes the next event and sends it if it is its scan's.
Deliver(s) ==
  /\ Subscribed(s)
  /\ queue[s] # <<>>
  /\ queue' = [queue EXCEPT ![s] = Tail(@)]
  /\ sent' = IF EventForScan(Head(queue[s]), watch[s])
             THEN [sent EXCEPT ![s] = Append(@, Head(queue[s]))] ELSE sent
  /\ UNCHANGED <<stream, watch, calls, published, from, dropped>>

\* The subscription's finally block: the queue and what was bound for it are
\* garbage.
Unsubscribe(s, to) ==
  /\ stream' = [stream EXCEPT ![s] = to]
  /\ calls' = [calls EXCEPT ![s] = <<>>]
  /\ queue' = [queue EXCEPT ![s] = <<>>]

\* No event for heartbeat_s: wait_for cancels the pending __anext__, which
\* closes the subscription generator, and the stream sends a keepalive.
Keepalive(s) ==
  /\ Subscribed(s)
  /\ queue[s] = <<>>
  /\ Unsubscribe(s, "kept")
  /\ UNCHANGED <<watch, sent, published, from, dropped>>

\* The next __anext__ of the closed generator: StopAsyncIteration, break.
StreamEnds(s) ==
  /\ stream[s] = "kept"
  /\ stream' = [stream EXCEPT ![s] = "ended"]
  /\ UNCHANGED <<watch, calls, queue, sent, published, from, dropped>>

ClientLeaves(s) ==
  /\ stream[s] # "off"
  /\ Unsubscribe(s, "off")
  /\ watch' = [watch EXCEPT ![s] = 0]
  /\ sent' = [sent EXCEPT ![s] = <<>>]
  /\ UNCHANGED <<published, from, dropped>>

\* The bus lives in the daemon's memory.
BusCrash ==
  /\ stream' = [s \in Streams |-> "off"]
  /\ watch' = [s \in Streams |-> 0]
  /\ calls' = [s \in Streams |-> <<>>]
  /\ queue' = [s \in Streams |-> <<>>]
  /\ sent' = [s \in Streams |-> <<>>]
  /\ UNCHANGED <<published, from, dropped>>

\* Steps of the server's loop.
StreamStep(s) == Subscribe(s) \/ Offer(s) \/ Deliver(s) \/ Keepalive(s) \/ StreamEnds(s)

-----------------------------------------------------------------------------
\* The events of scan n among the first i.
Rank(events, n, i) == Cardinality({j \in 1..i : events[j].scan = n})

\* out is what is left of events when those of other scans are left out.
Projects(out, events, n) ==
  /\ Len(out) = Rank(events, n, Len(events))
  /\ \A i \in DOMAIN events : events[i].scan = n => out[Rank(events, n, i)] = events[i]

\* Unless its queue has overflowed, an open stream misses nothing, repeats
\* nothing, reorders nothing and mixes nothing: it has sent events of its scan
\* only, and what it has sent, what is queued and what the loop still has to
\* offer are, those of other scans left out, exactly the events of its scan
\* since it subscribed.
NothingMissed ==
  \A s \in Streams : Subscribed(s) /\ ~ dropped[s] =>
    LET all == published[watch[s]]
    IN  /\ \A i \in DOMAIN sent[s] : sent[s][i].scan = watch[s]
        /\ Projects(SubSeq(all, from[s] + 1, Len(all)), sent[s] \o queue[s] \o calls[s], watch[s])

\* sse_stream: an idle stream "yields an SSE comment (`: keepalive`) so
\* intermediaries keep the connection open" (daemon/sse.py:52): the server
\* never ends a stream its client still reads.
StaysOpen ==
  \A s \in Streams : stream[s] # "ended"

=============================================================================
