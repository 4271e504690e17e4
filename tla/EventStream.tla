---------------------------- MODULE EventStream -----------------------------
(***************************************************************************)
(* The live event feed: the event bus hands every published event to the   *)
(* stream manager (fiat_agent/events/stream.py), which numbers it, keeps   *)
(* it in a ring buffer and puts it on the queues of the connected clients  *)
(* of its session; the SSE route streams to each client what the buffer    *)
(* holds beyond the client's cursor, then the queue.                       *)
(*                                                                         *)
(* Code that does not suspend is one action: publishing with the manager's *)
(* handler, and connecting up to the first frame (subscribe, snapshot,     *)
(* replay).  A frame that was yielded is on the wire until the client has  *)
(* it; a client that reconnects sends the last id it has seen.             *)
(***************************************************************************)
EXTENDS Naturals, Sequences, SequencesExt, Lists

CONSTANTS
  Sessions,
  Clients,
  SessionOf,     \* SessionOf[c]: the session client c watches
  MaxLen,        \* the length of the ring buffer
  MaxEvents,     \* bound: how many events are published
  MaxRestarts    \* bound: how often the process is restarted

ASSUME StreamAssumption ==
  /\ SessionOf \in [Clients -> Sessions]
  /\ MaxLen \in Nat \ {0} /\ MaxEvents \in Nat /\ MaxRestarts \in Nat

VARIABLES
  published,     \* history: the session of each event ever published
  heard,         \* history: the events the manager was listening for
  listening,     \* _listening
  seq,           \* _seq
  buffer,        \* _buffer: pairs of the number given and the event
  online,        \* the clients that are connected
  replay,        \* replay[c]: what stream() still has to replay
  queue,         \* queue[c]: the live queue
  cursor,        \* cursor[c]: the cursor of the running stream() call
  wire,          \* wire[c]: yielded, not yet received
  lastId,        \* lastId[c]: the client's Last-Event-ID
  received,      \* history: received[c], the events client c has seen
  excused,       \* history: excused[c], those gone from the buffer when c came
  restarts       \* history

server == <<listening, seq, buffer, online, replay, queue, cursor, wire>>
client == <<lastId, received, excused>>
vars == <<published, heard, server, client, restarts>>

Own(c, n) == published[n] = SessionOf[c]
-----------------------------------------------------------------------------
\* Mutant: a list without a limit.
PushUnbounded(b, x) == Append(b, x)

\* deque(maxlen): the oldest entry makes room.
Push(b, x) == IF Len(b) = MaxLen THEN Append(Tail(b), x) ELSE Append(b, x)

\* Mutant: every connected client gets every event.
FanOutToAll(x, s) ==
  [c \in Clients |-> IF c \in online THEN Append(queue[c], x) ELSE queue[c]]

\* _buffer_event: put on the queues of the session's clients.
FanOut(x, s) ==
  [c \in Clients |-> IF c \in online /\ SessionOf[c] = s
                     THEN Append(queue[c], x) ELSE queue[c]]

\* EventBus.publish.  Before the first request to the route nobody listens.
Publish(s) ==
  /\ Len(published) < MaxEvents
  /\ published' = Append(published, s)
  /\ IF listening
     THEN LET x == [seq |-> seq + 1, event |-> Len(published) + 1]
          IN  /\ seq' = seq + 1
              /\ buffer' = Push(buffer, x)
              /\ queue' = FanOut(x, s)
              /\ heard' = heard \cup {x.event}
     ELSE UNCHANGED <<seq, buffer, queue, heard>>
  /\ UNCHANGED <<listening, online, replay, cursor, wire, client, restarts>>

\* Mutants: the event at the cursor is replayed again; one too few is.
ReplayInclusive(c, cur) ==
  Keep(buffer, { x \in Elements(buffer) : x.seq >= cur /\ Own(c, x.event) })

ReplayTooLate(c, cur) ==
  Keep(buffer, { x \in Elements(buffer) : x.seq > cur + 1 /\ Own(c, x.event) })

\* replay(cursor, session_id)
Replay(c, cur) ==
  Keep(buffer, { x \in Elements(buffer) : x.seq > cur /\ Own(c, x.event) })

\* The client connects: start(), then stream() subscribes, takes the snapshot
\* and collects the replay.  A first connection has the cursor 0, a later one
\* the client's Last-Event-ID.
Connect(c) ==
  /\ c \notin online
  /\ listening' = TRUE
  /\ online' = online \cup {c}
  /\ cursor' = [cursor EXCEPT ![c] = lastId[c]]
  /\ replay' = [replay EXCEPT ![c] = Replay(c, lastId[c])]
  /\ excused' = [excused EXCEPT ![c] = @ \cup
       { n \in heard : Own(c, n) /\ \A i \in DOMAIN buffer : buffer[i].event # n }]
  /\ UNCHANGED <<published, heard, seq, buffer, queue, wire, lastId, received,
                 restarts>>

\* stream() yields what it has to replay ...
YieldReplay(c) ==
  /\ c \in online
  /\ replay[c] # << >>
  /\ replay' = [replay EXCEPT ![c] = Tail(@)]
  /\ wire' = [wire EXCEPT ![c] = Append(@, Head(replay[c]))]
  /\ UNCHANGED <<published, heard, listening, seq, buffer, online, queue,
                 cursor, client, restarts>>

\* ... and then from the queue, where it skips what is not past the cursor.
YieldLive(c) ==
  /\ c \in online
  /\ replay[c] = << >> /\ queue[c] # << >>
  /\ queue' = [queue EXCEPT ![c] = Tail(@)]
  /\ wire' = IF Head(queue[c]).seq <= cursor[c] THEN wire
             ELSE [wire EXCEPT ![c] = Append(@, Head(queue[c]))]
  /\ UNCHANGED <<published, heard, listening, seq, buffer, online, replay,
                 cursor, client, restarts>>

\* The client gets a frame, and with it its next Last-Event-ID.
Receive(c) ==
  /\ wire[c] # << >>
  /\ wire' = [wire EXCEPT ![c] = Tail(@)]
  /\ received' = [received EXCEPT ![c] = Append(@, Head(wire[c]).event)]
  /\ lastId' = [lastId EXCEPT ![c] = Head(wire[c]).seq]
  /\ UNCHANGED <<published, heard, listening, seq, buffer, online, replay,
                 queue, cursor, excused, restarts>>

\* Mutant: who leaves takes the session's other queues along.
HangUpAll(c) ==
  /\ online' = online \ {c}
  /\ replay' = [replay EXCEPT ![c] = << >>]
  /\ queue' = [d \in Clients |-> IF SessionOf[d] = SessionOf[c] THEN << >>
                                                                ELSE queue[d]]
  /\ wire' = [wire EXCEPT ![c] = << >>]

\* The connection ends: stream()'s finally drops the queue, and what is on
\* the wire is lost.
HangUp(c) ==
  /\ online' = online \ {c}
  /\ replay' = [replay EXCEPT ![c] = << >>]
  /\ queue' = [queue EXCEPT ![c] = << >>]
  /\ wire' = [wire EXCEPT ![c] = << >>]

Disconnect(c) ==
  /\ c \in online
  /\ HangUp(c)
  /\ UNCHANGED <<published, heard, listening, seq, buffer, cursor, client,
                 restarts>>

\* The process is restarted: the manager starts from nothing, the clients
\* keep what they have.
Restart ==
  /\ restarts < MaxRestarts
  /\ restarts' = restarts + 1
  /\ listening' = FALSE /\ seq' = 0 /\ buffer' = << >> /\ online' = {}
  /\ replay' = [c \in Clients |-> << >>]
  /\ queue' = [c \in Clients |-> << >>]
  /\ wire' = [c \in Clients |-> << >>]
  /\ UNCHANGED <<published, heard, cursor, client>>

-----------------------------------------------------------------------------
Init ==
  /\ published = << >> /\ heard = {} /\ restarts = 0
  /\ listening = FALSE /\ seq = 0 /\ buffer = << >> /\ online = {}
  /\ replay = [c \in Clients |-> << >>]
  /\ queue = [c \in Clients |-> << >>] /\ wire = [c \in Clients |-> << >>]
  /\ cursor = [c \in Clients |-> 0] /\ lastId = [c \in Clients |-> 0]
  /\ received = [c \in Clients |-> << >>]
  /\ excused = [c \in Clients |-> {}]

Next ==
  \/ \E s \in Sessions : Publish(s)
  \/ \E c \in Clients :
       Connect(c) \/ YieldReplay(c) \/ YieldLive(c) \/ Receive(c) \/ Disconnect(c)
  \/ Restart

Spec == Init /\ [][Next]_vars

\* The event loop runs a stream that has something to yield, and a connection
\* that stays up delivers.  Nobody has to publish, connect or restart.
Fairness ==
  \A c \in Clients :
    WF_vars(YieldReplay(c) \/ YieldLive(c)) /\ WF_vars(Receive(c))

FairSpec == Spec /\ Fairness
-----------------------------------------------------------------------------
Numbered == [seq : Nat, event : Nat]

TypeOK ==
  /\ published \in Seq(Sessions) /\ heard \subseteq DOMAIN published
  /\ listening \in BOOLEAN /\ seq \in Nat /\ online \subseteq Clients
  /\ buffer \in Seq(Numbered) /\ Len(buffer) <= MaxLen
  /\ replay \in [Clients -> Seq(Numbered)]
  /\ queue \in [Clients -> Seq(Numbered)] /\ wire \in [Clients -> Seq(Numbered)]
  /\ cursor \in [Clients -> Nat] /\ lastId \in [Clients -> Nat]
  /\ received \in [Clients -> Seq(Nat)]
  /\ excused \in [Clients -> SUBSET heard]

(***************************************************************************)
(* A client sees events of its own session only, each once, in the order   *)
(* they were published, over any number of reconnections: a frame lost on  *)
(* the wire comes again, one that arrived does not.  (stream, replay)      *)
(***************************************************************************)
OnceInOrder ==
  \A c \in Clients :
    /\ \A i \in DOMAIN received[c] : Own(c, received[c][i])
    /\ \A i, j \in DOMAIN received[c] :
         i < j => received[c][i] < received[c][j]

(***************************************************************************)
(* Up to the latest event a client has seen it has missed none of its      *)
(* session, except those that had left the ring buffer when it connected.  *)
(* ("a reconnecting client loses no events")                               *)
(***************************************************************************)
NoGap ==
  \A c \in Clients : \A i \in DOMAIN received[c] : \A n \in heard :
    n < received[c][i] /\ Own(c, n) =>
      n \in ToSet(received[c]) \cup excused[c]

(***************************************************************************)
(* As long as the process lives that holds over any number of connections. *)
(* (subscribe before the snapshot, replay, the live loop)                  *)
(***************************************************************************)
NoGapInOneLife == restarts = 0 => NoGap

(***************************************************************************)
(* Whatever is published while a client is connected reaches it, unless it *)
(* disconnects first or the process goes down.  (stream's live queue)      *)
(***************************************************************************)
EventuallySeen ==
  \A c \in Clients : \A n \in 1 .. MaxEvents :
    (restarts = 0 /\ c \in online /\ n \in heard /\ Own(c, n))
      ~> (c \notin online \/ n \in ToSet(received[c]) \cup excused[c])
=============================================================================
