----------------------------- MODULE LogStream -----------------------------
(***************************************************************************)
(* Live log streaming of one execution: app/services/log_broadcaster.py    *)
(* and the WebSocket handlers of app/api/ws_routes.py that relay it.       *)
(*                                                                         *)
(* The worker thread publishes under _lock and hands each line to the      *)
(* event loop with call_soon_threadsafe; the loop puts it into the         *)
(* client's asyncio.Queue; the client's handler takes it out and sends it. *)
(* Lines are numbered in the order they are printed, from 1 to at most     *)
(* MaxLines; End stands for the None sentinel.                             *)
(*                                                                         *)
(* A handler subscribes one queue, once, so the subscribers are the set of *)
(* their clients.  The loop runs its callbacks in the order it was given   *)
(* them; a callback touches the queue of one client only, so what is kept  *)
(* of that order is the order among the callbacks of one client.           *)
(***************************************************************************)
EXTENDS Naturals, Sequences, SequencesExt

CONSTANTS
    Clients,      \* WebSocket connections
    MaxLines,     \* bound on the lines the script prints
    BufferMax,    \* buffer_max: lines kept for late clients
    QueueMax,     \* maxsize of a client's queue
    MaxCloses     \* bound on the calls of close_channel: _execute_job makes two
                  \* when notifying of a timeout raises, else one

ASSUME LogStreamAssumption ==
    /\ MaxLines \in Nat
    /\ BufferMax \in Nat \ {0}
    /\ QueueMax \in Nat
    /\ MaxCloses \in Nat \ {0}
    /\ BufferMax < QueueMax     \* subscribe puts buffer and sentinel at once

End == 0

VARIABLES
    channel,      \* the channel: "none", "open", "finished" or "removed"
    printed,      \* lines published so far
    buffer,       \* channel.buffer
    closes,       \* calls of close_channel so far
    subscribers,  \* channel.subscribers, by client
    ready,        \* the items in callbacks handed to the loop, per client
    queue,        \* the asyncio.Queue of each client
    handler,      \* where the handler of each client is
    item,         \* what the handler of each client is sending
    sent,         \* the lines each client was sent
    closed,       \* the clients whose connection is gone
    dropped       \* the clients whose queue was full when something came

pubVars == <<channel, printed, buffer, closes>>
vars == <<pubVars, subscribers, ready, queue, handler, item, sent, closed,
          dropped>>

Items == 0..MaxLines
Pending == {"meta", "waiting", "sending"}   \* the handler holds a queue

TypeOK ==
    /\ channel \in {"none", "open", "finished", "removed"}
    /\ printed \in 0..MaxLines
    /\ buffer \in Seq(1..MaxLines)
    /\ closes \in 0..MaxCloses
    /\ subscribers \subseteq Clients
    /\ ready \in [Clients -> Seq(Items)]
    /\ queue \in [Clients -> Seq(Items)]
    /\ handler \in [Clients -> {"idle", "found", "refused", "ended"}
                                   \union Pending]
    /\ item \in [Clients -> Items]
    /\ sent \in [Clients -> Seq(1..MaxLines)]
    /\ closed \subseteq Clients
    /\ dropped \subseteq Clients

Init ==
    /\ channel = "none"
    /\ printed = 0
    /\ buffer = <<>>
    /\ closes = 0
    /\ subscribers = {}
    /\ ready = [c \in Clients |-> <<>>]
    /\ queue = [c \in Clients |-> <<>>]
    /\ handler = [c \in Clients |-> "idle"]
    /\ item = [c \in Clients |-> End]
    /\ sent = [c \in Clients |-> <<>>]
    /\ closed = {}
    /\ dropped = {}

-----------------------------------------------------------------------------
(* The worker thread *)

\* The last BufferMax elements of s.
Recent(s) == SubSeq(s, Len(s) - BufferMax + 1, Len(s))
Trim(s) == IF Len(s) > BufferMax THEN Recent(s) ELSE s

\* call_soon_threadsafe(queue.put_nowait, x) for every subscriber.
Push(x) == ready' = [c \in Clients |-> IF c \in subscribers
                                         THEN Append(ready[c], x) ELSE ready[c]]

CreateChannel ==
    /\ channel = "none"
    /\ channel' = "open"
    /\ UNCHANGED <<printed, buffer, closes, subscribers, ready, queue, handler,
                   item, sent, closed, dropped>>

\* The worker publishes no line once it has closed the channel.
PublishLine ==
    /\ channel = "open"
    /\ printed < MaxLines
    /\ printed' = printed + 1
    /\ buffer' = Trim(Append(buffer, printed + 1))
    /\ Push(printed + 1)
    /\ UNCHANGED <<channel, closes, subscribers, queue, handler, item, sent,
                   closed, dropped>>

\* Seeded bug for HandlersEnd: the channel is marked but nobody is told.
CloseChannel_NoSentinel ==
    /\ channel = "open"
    /\ channel' = "finished"
    /\ closes' = closes + 1
    /\ UNCHANGED <<printed, buffer, subscribers, ready, queue, handler, item,
                   sent, closed, dropped>>

\* Seeded bug for TypeOK: the sentinel goes through publish_line.
CloseChannel_Buffered ==
    /\ channel = "open"
    /\ channel' = "finished"
    /\ closes' = closes + 1
    /\ buffer' = Trim(Append(buffer, End))
    /\ Push(End)
    /\ UNCHANGED <<printed, subscribers, queue, handler, item, sent, closed,
                   dropped>>

\* A second call pushes a second sentinel.
CloseChannel ==
    /\ channel \in {"open", "finished"}
    /\ closes < MaxCloses
    /\ channel' = "finished"
    /\ closes' = closes + 1
    /\ Push(End)
    /\ UNCHANGED <<printed, buffer, subscribers, queue, handler, item, sent,
                   closed, dropped>>

\* The _cleanup thread, five seconds after the close.
Cleanup ==
    /\ channel = "finished"
    /\ channel' = "removed"
    /\ buffer' = <<>>
    /\ subscribers' = {}
    /\ UNCHANGED <<printed, closes, ready, queue, handler, item, sent, closed,
                   dropped>>

-----------------------------------------------------------------------------
(* The event loop and the handlers *)

\* The oldest callback of a client: put_nowait, or QueueFull, which nobody
\* catches.
Callback(c) ==
    /\ ready[c] # <<>>
    /\ ready' = [ready EXCEPT ![c] = Tail(@)]
    /\ IF Len(queue[c]) < QueueMax
       THEN /\ queue' = [queue EXCEPT ![c] = Append(@, Head(ready[c]))]
            /\ UNCHANGED dropped
       ELSE /\ dropped' = dropped \union {c}
            /\ UNCHANGED queue
    /\ UNCHANGED <<pubVars, subscribers, handler, item, sent, closed>>

\* stream_job_logs looks for a channel that is not finished.
FindChannel(c) ==
    /\ handler[c] = "idle"
    /\ handler' = [handler EXCEPT ![c] = IF channel = "open" THEN "found"
                                                             ELSE "refused"]
    /\ UNCHANGED <<pubVars, subscribers, ready, queue, item, sent, closed,
                   dropped>>

\* Seeded bug for NoGap: a client of a finished run is registered like any
\* other and gets no sentinel of its own.
Subscribe_NoSentinel(c) ==
    /\ handler[c] \in {"idle", "found"}
    /\ channel \in {"open", "finished"}
    /\ handler' = [handler EXCEPT ![c] = IF handler[c] = "found" THEN "meta"
                                                                 ELSE "waiting"]
    /\ queue' = [queue EXCEPT ![c] = buffer]
    /\ subscribers' = subscribers \union {c}
    /\ UNCHANGED <<pubVars, ready, item, sent, closed, dropped>>

\* subscribe: the buffered lines, then the sentinel if the run is over, else
\* a place among the subscribers, all under the lock.
Subscribe(c) ==
    /\ handler[c] \in {"idle", "found"}
    /\ handler' = [handler EXCEPT ![c] =
                      IF channel \notin {"open", "finished"} THEN "refused"
                      ELSE IF handler[c] = "found" THEN "meta" ELSE "waiting"]
    /\ CASE channel = "open" ->
                /\ queue' = [queue EXCEPT ![c] = buffer]
                /\ subscribers' = subscribers \union {c}
         [] channel = "finished" ->
                /\ queue' = [queue EXCEPT ![c] = Append(buffer, End)]
                /\ UNCHANGED subscribers
         [] OTHER -> UNCHANGED <<queue, subscribers>>
    /\ UNCHANGED <<pubVars, ready, item, sent, closed, dropped>>

\* Seeded bug for FeedImplemented: a queue that gives the newest item.
Get_Newest(c) ==
    /\ handler[c] = "waiting"
    /\ queue[c] # <<>>
    /\ item' = [item EXCEPT ![c] = Last(queue[c])]
    /\ queue' = [queue EXCEPT ![c] = Front(@)]
    /\ handler' = [handler EXCEPT ![c] = "sending"]
    /\ UNCHANGED <<pubVars, subscribers, ready, sent, closed, dropped>>

\* queue.get() returns.
Get(c) ==
    /\ handler[c] = "waiting"
    /\ queue[c] # <<>>
    /\ item' = [item EXCEPT ![c] = Head(queue[c])]
    /\ queue' = [queue EXCEPT ![c] = Tail(@)]
    /\ handler' = [handler EXCEPT ![c] = "sending"]
    /\ UNCHANGED <<pubVars, subscribers, ready, sent, closed, dropped>>

\* The finally block of the handler.
Leave(c) ==
    /\ handler' = [handler EXCEPT ![c] = "ended"]
    /\ subscribers' = subscribers \ {c}

\* send_json returns: go on, or leave after "done".
Send(c) ==
    /\ handler[c] \in {"meta", "sending"}
    /\ c \notin closed
    /\ IF handler[c] = "sending" /\ item[c] = End
       THEN Leave(c) /\ UNCHANGED sent
       ELSE /\ handler' = [handler EXCEPT ![c] = "waiting"]
            /\ sent' = IF handler[c] = "meta" THEN sent
                       ELSE [sent EXCEPT ![c] = Append(@, item[c])]
            /\ UNCHANGED subscribers
    /\ UNCHANGED <<pubVars, ready, queue, item, closed, dropped>>

\* send_json raises: the client is gone.  A handler waiting for a line does
\* not notice.
SendFails(c) ==
    /\ handler[c] \in {"meta", "sending"}
    /\ c \in closed
    /\ Leave(c)
    /\ UNCHANGED <<pubVars, ready, queue, item, sent, closed, dropped>>

Disconnect(c) ==
    /\ handler[c] \in Pending
    /\ c \notin closed
    /\ closed' = closed \union {c}
    /\ UNCHANGED <<pubVars, subscribers, ready, queue, handler, item, sent,
                   dropped>>

-----------------------------------------------------------------------------
(* Specification *)

Publisher == CreateChannel \/ PublishLine \/ CloseChannel \/ Cleanup

Handler(c) == Get(c) \/ Send(c) \/ SendFails(c)

Next ==
    \/ Publisher
    \/ \E c \in Clients : Callback(c) \/ FindChannel(c) \/ Subscribe(c)
                          \/ Handler(c) \/ Disconnect(c)

Spec == Init /\ [][Next]_vars

\* The event loop serves its callbacks and its tasks, and a send returns or
\* raises.  Nothing is asked of the worker: when the row of the execution is gone
\* or its session broken, close_channel(execution.id) raises in the except block
\* too, and the channel stays open for ever (Executor!Close).
FairSpec ==
    /\ Spec
    /\ \A c \in Clients : WF_vars(Callback(c) \/ Handler(c))

-----------------------------------------------------------------------------
(* Properties *)

\* Everything on its way to a client: sent, being sent, queued, and handed to
\* the event loop.
InHand(c) == IF handler[c] = "sending" THEN <<item[c]>> ELSE <<>>
Pipeline(c) == sent[c] \o InHand(c) \o queue[c] \o ready[c]

Over == channel \in {"finished", "removed"}

\* A client that lost nothing to a full queue has, sent or on its way, every
\* line from its first one to the last one printed, each once and in order,
\* and the sentinel after them once the run is over: joining while lines are
\* published neither loses nor repeats one.
NoGap ==
    \A c \in Clients \ dropped : handler[c] \in Pending =>
        LET p == Pipeline(c)
        IN  \E n \in 0..Len(p) :
                /\ n <= printed
                /\ \A i \in 1..n : p[i] = printed - n + i
                /\ \A i \in n+1..Len(p) : p[i] = End
                /\ n < Len(p) <=> Over
                /\ n < printed => n >= BufferMax

\* What is still to come, read off the pipeline: the abstract position of a
\* client is the first line that can still reach it.
Position(c) == IF sent[c] = <<>> THEN 1 ELSE Last(sent[c]) + 1
Told == {c \in Clients : /\ handler[c] = "ended"
                         /\ item[c] = End
                         /\ c \notin closed}

Feed == INSTANCE LineFeed WITH
            over <- Over,
            next <- [c \in Clients |-> Position(c)],
            told <- Told
\* The broadcaster and the handlers implement the feed.
FeedImplemented == Feed!Spec

\* Once the run has closed the channel, the handler of a client whose queue
\* never was full returns, however late it subscribed and whatever else the loop
\* has to serve.  (That a run does close it is Executor!RunsEnd, where no row is
\* deleted; where one is, handlers may wait for ever.)
HandlersEnd ==
    \A c \in Clients :
        (handler[c] \in Pending /\ Over) ~> (handler[c] = "ended" \/ c \in dropped)

\* Every subscriber of a run that is over gets the sentinel: its handler
\* returns.
SentinelArrives ==
    \A c \in Clients : (handler[c] \in Pending /\ Over) ~> handler[c] = "ended"
=============================================================================
