------------------------- MODULE EventStream_proofs -------------------------
(***************************************************************************)
(* Theorems about EventStream, for any number of sessions, clients and     *)
(* events and any length of the ring buffer.                               *)
(***************************************************************************)
EXTENDS EventStream, Lists_proofs

(***************************************************************************)
(* Entries are ordered by the number the manager gave them.                *)
(***************************************************************************)
Rises(s) == \A i, j \in DOMAIN s : i < j => s[i].seq < s[j].seq

\* What a queue holds when an event joined it.
LEMMA AppendParts ==
  ASSUME NEW S, NEW s \in Seq(S), NEW x \in S
  PROVE  /\ Append(s, x) \in Seq(S)
         /\ Elements(Append(s, x)) = Elements(s) \cup {x}
         /\ Elements(s) \subseteq S
  <1>1. /\ Append(s, x) \in Seq(S) /\ Len(s) \in Nat
        /\ DOMAIN s = 1 .. Len(s) /\ DOMAIN Append(s, x) = 1 .. Len(s) + 1
        /\ Append(s, x)[Len(s) + 1] = x
        /\ \A i \in 1 .. Len(s) : Append(s, x)[i] = s[i]
    OBVIOUS
  <1> HIDE DEF Append
  <1>2. Elements(Append(s, x)) = Elements(s) \cup {x}
    BY <1>1 DEF Elements
  <1>3. Elements(s) \subseteq S
    BY DEF Elements
  <1> QED
    BY <1>1, <1>2, <1>3

\* What a queue holds when its head has left.
LEMMA TailParts ==
  ASSUME NEW S, NEW s \in Seq(S), s # << >>
  PROVE  /\ Head(s) \in S /\ Tail(s) \in Seq(S)
         /\ Elements(s) = {Head(s)} \cup Elements(Tail(s))
         /\ Elements(s) \subseteq S
         /\ Len(Tail(s)) = Len(s) - 1
         /\ s[1] = Head(s) /\ 1 \in DOMAIN s
         /\ \A i \in DOMAIN Tail(s) : i + 1 \in DOMAIN s /\ Tail(s)[i] = s[i + 1]
  <1> DEFINE t == Tail(s)
  <1>1. /\ Head(s) \in S /\ t \in Seq(S) /\ Len(s) \in Nat /\ Len(s) > 0
        /\ DOMAIN s = 1 .. Len(s) /\ DOMAIN t = 1 .. Len(s) - 1
        /\ Len(t) = Len(s) - 1
        /\ s[1] = Head(s)
        /\ \A i \in 1 .. Len(s) - 1 : t[i] = s[i + 1]
    OBVIOUS
  <1> HIDE DEF t
  <1>2. \A i \in DOMAIN t : i + 1 \in DOMAIN s /\ t[i] = s[i + 1]
    BY <1>1
  <1>3. \A i \in DOMAIN s : i # 1 => i - 1 \in DOMAIN t /\ s[i] = t[i - 1]
    BY <1>1
  <1>4. Elements(s) = {Head(s)} \cup Elements(t)
    <2>1. 1 \in DOMAIN s
      BY <1>1
    <2> QED
      BY <1>1, <1>2, <1>3, <2>1 DEF Elements
  <1>5. Elements(s) \subseteq S
    BY DEF Elements
  <1> QED
    BY <1>1, <1>2, <1>4, <1>5 DEF t

\* The rest of a rising queue rises, beyond its head.
LEMMA RisesTail ==
  ASSUME NEW s \in Seq(Numbered), s # << >>, Rises(s)
  PROVE  Rises(Tail(s)) /\ \A x \in Elements(Tail(s)) : Head(s).seq < x.seq
  <1>1. /\ \A i \in DOMAIN Tail(s) : i + 1 \in DOMAIN s /\ Tail(s)[i] = s[i + 1]
        /\ s[1] = Head(s) /\ 1 \in DOMAIN s /\ DOMAIN Tail(s) \subseteq Nat \ {0}
    BY TailParts
  <1>2. Rises(Tail(s))
    <2>1. \A i, j \in DOMAIN Tail(s) : i < j => i + 1 < j + 1
      BY <1>1
    <2> QED
      BY <1>1, <2>1 DEF Rises
  <1>3. \A i \in DOMAIN Tail(s) : Head(s).seq < Tail(s)[i].seq
    <2>1. \A i \in DOMAIN Tail(s) : 1 < i + 1
      BY <1>1
    <2> QED
      BY <1>1, <2>1 DEF Rises
  <1> QED
    BY <1>2, <1>3 DEF Elements

\* A rising queue takes an event with a greater number.
LEMMA RisesAppend ==
  ASSUME NEW s \in Seq(Numbered), Rises(s), NEW y \in Numbered,
         \A x \in Elements(s) : x.seq < y.seq
  PROVE  Rises(Append(s, y))
  <1> DEFINE t == Append(s, y)
  <1>1. /\ Len(s) \in Nat /\ DOMAIN s = 1 .. Len(s) /\ DOMAIN t = 1 .. Len(s) + 1
        /\ t[Len(s) + 1] = y
        /\ \A i \in 1 .. Len(s) : t[i] = s[i]
    OBVIOUS
  <1> HIDE DEF t
  <1>2. SUFFICES ASSUME NEW i \in DOMAIN t, NEW j \in DOMAIN t, i < j
                 PROVE  t[i].seq < t[j].seq
    BY DEF Rises, t
  <1>3. i \in DOMAIN s /\ t[i] = s[i]
    BY <1>1, <1>2
  <1>4. CASE j = Len(s) + 1
    BY <1>1, <1>3, <1>4 DEF Elements
  <1>5. CASE j # Len(s) + 1
    <2>1. j \in DOMAIN s /\ t[j] = s[j]
      BY <1>1, <1>5
    <2> QED
      BY <1>2, <1>3, <2>1 DEF Rises
  <1> QED
    BY <1>4, <1>5

\* What is kept of a rising queue rises.
LEMMA RisesKeep ==
  ASSUME NEW s \in Seq(Numbered), Rises(s), NEW T
  PROVE  Rises(Keep(s, T))
  <1>1. DOMAIN s = 1 .. Len(s)
    OBVIOUS
  <1>2. PICK at : KeptAt(Keep(s, T), at, s, T, Len(s))
    BY KeepPlaces
  <1> QED
    BY <1>1, <1>2 DEF KeptAt, Rises

\* An empty queue rises.
LEMMA RisesNone == Rises(<< >>) /\ Elements(<< >>) = {}
  BY DEF Rises, Elements
-----------------------------------------------------------------------------
\* The ring never exceeds its length and holds the new event.  (deque(maxlen))
LEMMA PushParts ==
  ASSUME NEW b \in Seq(Numbered), Len(b) <= MaxLen, NEW x \in Numbered
  PROVE  /\ Push(b, x) \in Seq(Numbered) /\ Len(Push(b, x)) <= MaxLen
         /\ x \in Elements(Push(b, x))
         /\ Elements(Push(b, x)) \subseteq Elements(b) \cup {x}
         /\ Rises(b) /\ (\A y \in Elements(b) : y.seq < x.seq) => Rises(Push(b, x))
  <1>1. CASE Len(b) = MaxLen
    <2>1. b # << >>
      BY <1>1, StreamAssumption
    <2>2. /\ Tail(b) \in Seq(Numbered) /\ Len(Tail(b)) = Len(b) - 1
          /\ Elements(Tail(b)) \subseteq Elements(b)
      BY <2>1, TailParts
    <2>3. Push(b, x) = Append(Tail(b), x)
      BY <1>1 DEF Push
    <2>4. /\ Push(b, x) \in Seq(Numbered) /\ Len(Push(b, x)) <= MaxLen
      BY <1>1, <2>2, <2>3
    <2>5. Elements(Push(b, x)) = Elements(Tail(b)) \cup {x}
      <3> DEFINE t == Tail(b)
      <3>1. t \in Seq(Numbered) /\ Push(b, x) = Append(t, x)
        BY <2>2, <2>3
      <3> HIDE DEF t
      <3>2. Elements(Append(t, x)) = Elements(t) \cup {x}
        BY <3>1, AppendParts
      <3> QED
        BY <3>1, <3>2 DEF t
    <2>6. Rises(b) /\ (\A y \in Elements(b) : y.seq < x.seq) => Rises(Push(b, x))
      BY <2>1, <2>2, <2>3, RisesTail, RisesAppend
    <2> QED
      BY <2>2, <2>4, <2>5, <2>6
  <1>2. CASE Len(b) # MaxLen
    <2>1. Push(b, x) = Append(b, x)
      BY <1>2 DEF Push
    <2>2. /\ Push(b, x) \in Seq(Numbered) /\ Len(Push(b, x)) <= MaxLen
      BY <1>2, <2>1, StreamAssumption
    <2>3. Elements(Push(b, x)) = Elements(b) \cup {x}
      BY <2>1, AppendParts
    <2>4. Rises(b) /\ (\A y \in Elements(b) : y.seq < x.seq) => Rises(Push(b, x))
      BY <2>1, RisesAppend
    <2> QED
      BY <2>2, <2>3, <2>4
  <1> QED
    BY <1>1, <1>2

\* What a replay holds.
LEMMA ReplayParts ==
  ASSUME TypeOK, NEW c \in Clients, NEW cur
  PROVE  /\ Replay(c, cur) \in Seq(Numbered)
         /\ Elements(Replay(c, cur)) =
              { x \in Elements(buffer) : x.seq > cur /\ Own(c, x.event) }
         /\ Rises(buffer) => Rises(Replay(c, cur))
  <1>1. buffer \in Seq(Numbered)
    BY DEF TypeOK
  <1> DEFINE T == { x \in Elements(buffer) : x.seq > cur /\ Own(c, x.event) }
  <1>2. Replay(c, cur) = Keep(buffer, T)
    BY DEF Replay
  <1>3. T \subseteq Elements(buffer)
    OBVIOUS
  <1> HIDE DEF T
  <1>4. Keep(buffer, T) \in Seq(Numbered)
    BY <1>1, KeepPlaces
  <1>5. Elements(Keep(buffer, T)) = T
    <2>1. Elements(Keep(buffer, T)) = Elements(buffer) \cap T
      BY <1>1, KeepElements
    <2> QED
      BY <1>3, <2>1
  <1>6. Rises(buffer) => Rises(Keep(buffer, T))
    BY <1>1, RisesKeep
  <1> QED
    BY <1>2, <1>4, <1>5, <1>6 DEF T
-----------------------------------------------------------------------------
\* The event that is published, as it is numbered.
Newest == [seq |-> seq + 1, event |-> Len(published) + 1]

\* What publishing an event changes, read off the action.
LEMMA PublishParts ==
  ASSUME TypeOK, NEW s \in Sessions, Publish(s)
  PROVE  /\ Newest \in Numbered /\ Newest.seq = seq + 1
         /\ Newest.event = Len(published) + 1
         /\ published' \in Seq(Sessions)
         /\ DOMAIN published' = DOMAIN published \cup {Newest.event}
         /\ DOMAIN published = 1 .. Len(published) /\ Len(published) \in Nat
         /\ \A n \in DOMAIN published : published'[n] = published[n]
         /\ published'[Newest.event] = s
         /\ UNCHANGED <<listening, online, replay, cursor, wire, client, restarts>>
         /\ listening => /\ seq' = seq + 1 /\ buffer' = Push(buffer, Newest)
                         /\ queue' = FanOut(Newest, s)
                         /\ heard' = heard \cup {Newest.event}
         /\ ~ listening => UNCHANGED <<seq, buffer, queue, heard>>
  <1>1. published \in Seq(Sessions) /\ seq \in Nat
    BY DEF TypeOK
  <1>2. published' = Append(published, s)
    BY DEF Publish
  <1>3. /\ published' \in Seq(Sessions) /\ Len(published) \in Nat
        /\ DOMAIN published' = 1 .. Len(published) + 1
        /\ DOMAIN published = 1 .. Len(published)
        /\ \A n \in DOMAIN published : published'[n] = published[n]
        /\ published'[Len(published) + 1] = s
    BY <1>1, <1>2
  <1>4. DOMAIN published' = DOMAIN published \cup {Len(published) + 1}
    BY <1>3
  <1>5. Newest \in Numbered /\ Newest.seq = seq + 1 /\ Newest.event = Len(published) + 1
    BY <1>1, <1>3 DEF Newest, Numbered
  <1>6. /\ UNCHANGED <<listening, online, replay, cursor, wire, client, restarts>>
        /\ listening => /\ seq' = seq + 1 /\ buffer' = Push(buffer, Newest)
                        /\ queue' = FanOut(Newest, s)
                        /\ heard' = heard \cup {Newest.event}
        /\ ~ listening => UNCHANGED <<seq, buffer, queue, heard>>
    BY DEF Publish, Newest
  <1> QED
    BY <1>3, <1>4, <1>5, <1>6

\* Type correctness, one step per action.
LEMMA TypeStep ==
  ASSUME TypeOK, [Next]_vars
  PROVE  TypeOK'
  <1> USE StreamAssumption
  <1>1. ASSUME NEW s \in Sessions, Publish(s)
        PROVE  TypeOK'
    <2>1. /\ Newest \in Numbered /\ published' \in Seq(Sessions)
          /\ DOMAIN published' = DOMAIN published \cup {Newest.event}
          /\ UNCHANGED <<listening, online, replay, cursor, wire, client, restarts>>
          /\ listening => /\ seq' = seq + 1 /\ buffer' = Push(buffer, Newest)
                          /\ queue' = FanOut(Newest, s)
                          /\ heard' = heard \cup {Newest.event}
          /\ ~ listening => UNCHANGED <<seq, buffer, queue, heard>>
      BY <1>1, PublishParts
    <2>2. /\ heard' \subseteq DOMAIN published' /\ heard \subseteq heard'
          /\ seq' \in Nat
      BY <2>1 DEF TypeOK
    <2>3. buffer' \in Seq(Numbered) /\ Len(buffer') <= MaxLen
      BY <2>1, PushParts DEF TypeOK
    <2>4. queue' \in [Clients -> Seq(Numbered)]
      <3>1. \A c \in Clients : Append(queue[c], Newest) \in Seq(Numbered)
        BY <2>1, AppendParts DEF TypeOK
      <3> QED
        BY <2>1, <3>1 DEF FanOut, TypeOK
    <2>5. excused' \in [Clients -> SUBSET heard']
      BY <2>1, <2>2 DEF TypeOK, client
    <2> QED
      BY <2>1, <2>2, <2>3, <2>4, <2>5 DEF TypeOK, client
  <1>2. ASSUME NEW c \in Clients, Connect(c)
        PROVE  TypeOK'
    <2>1. replay' \in [Clients -> Seq(Numbered)]
      BY <1>2, ReplayParts DEF Connect, TypeOK
    <2>2. cursor' \in [Clients -> Nat]
      BY <1>2 DEF Connect, TypeOK
    <2>3. excused' \in [Clients -> SUBSET heard']
      BY <1>2 DEF Connect, TypeOK
    <2> QED
      BY <1>2, <2>1, <2>2, <2>3 DEF Connect, TypeOK
  <1>3. ASSUME NEW c \in Clients, YieldReplay(c)
        PROVE  TypeOK'
    <2>1. /\ Head(replay[c]) \in Numbered /\ Tail(replay[c]) \in Seq(Numbered)
      BY <1>3, TailParts DEF YieldReplay, TypeOK
    <2>2. Append(wire[c], Head(replay[c])) \in Seq(Numbered)
      BY <2>1, AppendParts DEF TypeOK
    <2>3. /\ replay' \in [Clients -> Seq(Numbered)]
          /\ wire' \in [Clients -> Seq(Numbered)]
      BY <1>3, <2>1, <2>2 DEF YieldReplay, TypeOK
    <2> QED
      BY <1>3, <2>3 DEF YieldReplay, client, TypeOK
  <1>4. ASSUME NEW c \in Clients, YieldLive(c)
        PROVE  TypeOK'
    <2>1. /\ Head(queue[c]) \in Numbered /\ Tail(queue[c]) \in Seq(Numbered)
      BY <1>4, TailParts DEF YieldLive, TypeOK
    <2>2. Append(wire[c], Head(queue[c])) \in Seq(Numbered)
      BY <2>1, AppendParts DEF TypeOK
    <2>3. /\ queue' \in [Clients -> Seq(Numbered)]
          /\ wire' \in [Clients -> Seq(Numbered)]
      BY <1>4, <2>1, <2>2 DEF YieldLive, TypeOK
    <2> QED
      BY <1>4, <2>3 DEF YieldLive, client, TypeOK
  <1>5. ASSUME NEW c \in Clients, Receive(c)
        PROVE  TypeOK'
    <2>1. /\ Head(wire[c]) \in Numbered /\ Tail(wire[c]) \in Seq(Numbered)
      BY <1>5, TailParts DEF Receive, TypeOK
    <2>2. Append(received[c], Head(wire[c]).event) \in Seq(Nat)
      BY <2>1, AppendParts DEF TypeOK, Numbered
    <2>3. /\ wire' \in [Clients -> Seq(Numbered)]
          /\ received' \in [Clients -> Seq(Nat)]
          /\ lastId' \in [Clients -> Nat]
      BY <1>5, <2>1, <2>2 DEF Receive, TypeOK, Numbered
    <2> QED
      BY <1>5, <2>3 DEF Receive, TypeOK
  <1>6. ASSUME NEW c \in Clients, Disconnect(c)
        PROVE  TypeOK'
    BY <1>6 DEF Disconnect, HangUp, client, TypeOK
  <1>7. CASE Restart
    <2>1. /\ buffer' \in Seq(Numbered) /\ Len(buffer') <= MaxLen
      BY <1>7 DEF Restart
    <2>2. /\ replay' \in [Clients -> Seq(Numbered)]
          /\ queue' \in [Clients -> Seq(Numbered)]
          /\ wire' \in [Clients -> Seq(Numbered)]
      BY <1>7 DEF Restart
    <2> QED
      BY <1>7, <2>1, <2>2 DEF Restart, client, TypeOK
  <1>8. CASE UNCHANGED vars
    BY <1>8 DEF vars, server, client, TypeOK
  <1> QED
    BY <1>1, <1>2, <1>3, <1>4, <1>5, <1>6, <1>7, <1>8 DEF Next

(***************************************************************************)
(* The manager's numbers, buffer and queues and what the clients hold are  *)
(* well formed in every reachable state, and the buffer never grows past   *)
(* its length.                                                             *)
(***************************************************************************)
THEOREM TypeCorrect == Spec => []TypeOK
  <1>1. Init => TypeOK
    <2> SUFFICES ASSUME Init
                 PROVE  TypeOK
      OBVIOUS
    <2>1. << >> \in Seq(Numbered) /\ << >> \in Seq(Nat) /\ << >> \in Seq(Sessions)
      OBVIOUS
    <2>2. Len(buffer) <= MaxLen
      BY StreamAssumption DEF Init
    <2> QED
      BY <2>1, <2>2 DEF Init, TypeOK
  <1> QED
    BY <1>1, TypeStep, PTL DEF Spec
-----------------------------------------------------------------------------
(***************************************************************************)
(* What the server holds for a client, and what of it the client will get; *)
(* the entries there are in this life of the process; what a client need   *)
(* not get any more.                                                       *)
(***************************************************************************)
Held(c) == Elements(wire[c]) \cup Elements(replay[c]) \cup Elements(queue[c])

Coming(c) == Elements(wire[c]) \cup Elements(replay[c])
               \cup { x \in Elements(queue[c]) : x.seq > cursor[c] }

Alive == Elements(buffer) \cup UNION { Held(c) : c \in Clients }

Done(c) == ToSet(received[c]) \cup excused[c]

\* In one life the numbers order the entries as they were published.
NumbersAgree ==
  /\ \A x \in Alive : x.seq \in 1 .. seq /\ x.event \in heard
  /\ \A x, y \in Alive :
       /\ x.seq < y.seq => x.event < y.event
       /\ x.seq = y.seq => x.event = y.event
  /\ Rises(buffer)

(***************************************************************************)
(* Wire, replay and queue stand in line: their entries rise from the one   *)
(* to the next, are the client's own, and those it will get are past what  *)
(* it has.  Who is not connected has nothing in line.                      *)
(***************************************************************************)
InLine(c) ==
  /\ Rises(wire[c]) /\ Rises(replay[c]) /\ Rises(queue[c])
  /\ \A x \in Elements(wire[c]) :
       /\ \A y \in Elements(replay[c]) : x.seq < y.seq
       /\ \A y \in Elements(queue[c]) : x.seq < y.seq
  /\ \A x \in Elements(replay[c]) : \A y \in Elements(queue[c]) : x.seq < y.seq
  /\ \A x \in Held(c) : Own(c, x.event)
  /\ \A x \in Coming(c) : lastId[c] < x.seq
  /\ c \in online => lastId[c] <= cursor[c] \/ lastId[c] <= seq
  /\ c \notin online => wire[c] = << >> /\ replay[c] = << >> /\ queue[c] = << >>

\* What has a number past the client's is past all the client has seen.
Ahead(c) ==
  /\ \A i \in DOMAIN received[c] : received[c][i] \in heard
  /\ \A x \in Alive :
       lastId[c] < x.seq => \A i \in DOMAIN received[c] : received[c][i] < x.event

InOrder(c) ==
  /\ \A i \in DOMAIN received[c] : Own(c, received[c][i])
  /\ \A i, j \in DOMAIN received[c] : i < j => received[c][i] < received[c][j]

Gapless(c) ==
  \A i \in DOMAIN received[c] : \A n \in heard :
    n < received[c][i] /\ Own(c, n) => n \in Done(c)

(***************************************************************************)
(* In the first life the client's numbers are the manager's: what the      *)
(* buffer holds up to the client's number it has seen or passed, and what  *)
(* a connected client has not seen is in line for it.                      *)
(***************************************************************************)
OneLife(c) ==
  /\ lastId[c] <= seq /\ cursor[c] <= seq
  /\ \A x \in Elements(buffer) :
       x.seq <= lastId[c] => \E i \in DOMAIN received[c] : x.event <= received[c][i]
  /\ c \in online =>
       \A n \in heard : Own(c, n) =>
         n \in Done(c) \/ \E x \in Coming(c) : x.event = n

ClientInv(c) ==
  /\ InLine(c) /\ Ahead(c) /\ InOrder(c)
  /\ restarts = 0 => OneLife(c) /\ Gapless(c)

StreamInv ==
  /\ TypeOK /\ restarts \in Nat
  /\ NumbersAgree
  /\ \A c \in Clients : ClientInv(c)

-----------------------------------------------------------------------------
\* The types of what the ring and the queues hold.
LEMMA EntryTypes ==
  ASSUME TypeOK, NEW c \in Clients
  PROVE  /\ Elements(wire[c]) \subseteq Numbered
         /\ Elements(replay[c]) \subseteq Numbered
         /\ Elements(queue[c]) \subseteq Numbered
         /\ Elements(buffer) \subseteq Numbered
         /\ Held(c) \subseteq Alive /\ Elements(buffer) \subseteq Alive
         /\ Coming(c) \subseteq Held(c)
         /\ Alive \subseteq Numbered
         /\ \A x \in Numbered : x.seq \in Nat /\ x.event \in Nat
         /\ lastId[c] \in Nat /\ cursor[c] \in Nat /\ seq \in Nat
         /\ \A i \in DOMAIN received[c] : received[c][i] \in Nat
         /\ heard \subseteq Nat
  <1>1. ASSUME NEW s \in Seq(Numbered)
        PROVE  Elements(s) \subseteq Numbered
    BY DEF Elements
  <1>2. ASSUME NEW d \in Clients
        PROVE  /\ Elements(wire[d]) \subseteq Numbered
               /\ Elements(replay[d]) \subseteq Numbered
               /\ Elements(queue[d]) \subseteq Numbered
    BY <1>1 DEF TypeOK
  <1>3. Elements(buffer) \subseteq Numbered
    BY <1>1 DEF TypeOK
  <1>4. Alive \subseteq Numbered
    BY <1>2, <1>3 DEF Alive, Held
  <1>5. Held(c) \subseteq Alive /\ Elements(buffer) \subseteq Alive
    BY DEF Alive
  <1>6. Coming(c) \subseteq Held(c)
    BY DEF Coming, Held
  <1>7. \A x \in Numbered : x.seq \in Nat /\ x.event \in Nat
    BY DEF Numbered
  <1>8. /\ lastId[c] \in Nat /\ cursor[c] \in Nat /\ seq \in Nat
        /\ \A i \in DOMAIN received[c] : received[c][i] \in Nat
    BY DEF TypeOK
  <1>9. heard \subseteq Nat
    BY DEF TypeOK
  <1> QED
    BY <1>2, <1>3, <1>4, <1>5, <1>6, <1>7, <1>8, <1>9

\* Client d is not touched by the step.
Same(d) ==
  /\ wire'[d] = wire[d] /\ replay'[d] = replay[d] /\ queue'[d] = queue[d]
  /\ cursor'[d] = cursor[d] /\ lastId'[d] = lastId[d]
  /\ received'[d] = received[d] /\ excused'[d] = excused[d]
  /\ d \in online' <=> d \in online

\* A step of client c leaves the manager's numbers and the others alone.
Others(c) ==
  /\ UNCHANGED <<published, heard, seq, buffer, restarts>>
  /\ \A d \in Clients : d # c => Same(d)

\* A client whom a step leaves alone keeps its invariant.
LEMMA ClientKept ==
  ASSUME NEW d \in Clients, ClientInv(d), Same(d), Alive' \subseteq Alive,
         UNCHANGED <<published, heard, seq, buffer, restarts>>
  PROVE  ClientInv(d)'
  <1>1. Held(d)' = Held(d) /\ Coming(d)' = Coming(d) /\ Done(d)' = Done(d)
    BY DEF Same, Held, Coming, Done
  <1>2. InLine(d)'
    BY <1>1 DEF ClientInv, InLine, Same, Own
  <1>3. Ahead(d)'
    BY DEF ClientInv, Ahead, Same
  <1>4. InOrder(d)'
    BY DEF ClientInv, InOrder, Same, Own
  <1>5. restarts = 0 => OneLife(d)' /\ Gapless(d)'
    BY <1>1 DEF ClientInv, OneLife, Gapless, Same, Own
  <1> QED
    BY <1>2, <1>3, <1>4, <1>5 DEF ClientInv

\* For a step of one client it is enough to look at that client.
LEMMA OneClient ==
  ASSUME StreamInv, TypeOK', NEW c \in Clients, Others(c), Held(c)' \subseteq Alive,
         Alive' \subseteq Alive => ClientInv(c)'
  PROVE  StreamInv'
  <1>1. Alive' \subseteq Alive
    <2>1. \A d \in Clients : d # c => Held(d)' = Held(d)
      BY DEF Others, Same, Held
    <2>2. Elements(buffer') = Elements(buffer)
      BY DEF Others
    <2> QED
      BY <2>1, <2>2 DEF Alive
  <1>2. NumbersAgree'
    BY <1>1 DEF StreamInv, NumbersAgree, Others
  <1>3. ASSUME NEW d \in Clients
        PROVE  ClientInv(d)'
    <2>1. CASE d = c
      BY <1>1, <2>1
    <2>2. CASE d # c
      BY <1>1, <2>2, ClientKept DEF Others, StreamInv
    <2> QED
      BY <2>1, <2>2
  <1>4. (restarts \in Nat)'
    BY DEF StreamInv, Others
  <1> QED
    BY <1>2, <1>3, <1>4 DEF StreamInv
-----------------------------------------------------------------------------
\* The head of the replay goes to the end of the wire.
LEMMA YieldReplayStep ==
  ASSUME StreamInv, TypeOK', NEW c \in Clients, YieldReplay(c)
  PROVE  StreamInv'
  <1> DEFINE h == Head(replay[c])
  <1>1. /\ replay[c] \in Seq(Numbered) /\ replay[c] # << >>
        /\ wire[c] \in Seq(Numbered) /\ TypeOK /\ ClientInv(c) /\ InLine(c)
    BY DEF StreamInv, TypeOK, YieldReplay, ClientInv
  <1>2. /\ wire'[c] = Append(wire[c], h) /\ replay'[c] = Tail(replay[c])
        /\ queue'[c] = queue[c] /\ cursor' = cursor /\ online' = online
        /\ lastId' = lastId /\ received' = received /\ excused' = excused
    BY <1>1 DEF YieldReplay, TypeOK, client
  <1>3. /\ h \in Numbered /\ Elements(replay[c]) = {h} \cup Elements(replay'[c])
        /\ Rises(replay'[c]) /\ \A x \in Elements(replay'[c]) : h.seq < x.seq
    BY <1>1, <1>2, TailParts, RisesTail DEF InLine
  <1> HIDE DEF h
  <1>4. Elements(wire'[c]) = Elements(wire[c]) \cup {h}
    BY <1>1, <1>2, <1>3, AppendParts
  <1>5. Rises(wire'[c])
    BY <1>1, <1>2, <1>3, RisesAppend DEF InLine
  <1>6. Held(c)' = Held(c) /\ Coming(c)' = Coming(c) /\ Done(c)' = Done(c)
    BY <1>2, <1>3, <1>4 DEF Held, Coming, Done
  <1>7. Others(c)
    BY <1>1 DEF Others, Same, YieldReplay, TypeOK, client
  <1>8. InLine(c)'
    <2>1. \A x \in Held(c)' : Own(c, x.event)'
      BY <1>1, <1>6, <1>7 DEF InLine, Own, Others
    <2>2. /\ \A x \in Elements(wire'[c]) :
               /\ \A y \in Elements(replay'[c]) : x.seq < y.seq
               /\ \A y \in Elements(queue'[c]) : x.seq < y.seq
          /\ \A x \in Elements(replay'[c]) : \A y \in Elements(queue'[c]) : x.seq < y.seq
      BY <1>1, <1>2, <1>3, <1>4 DEF InLine
    <2>3. \A x \in Coming(c)' : lastId'[c] < x.seq
      BY <1>1, <1>2, <1>6 DEF InLine
    <2>4. c \in online' /\ (lastId'[c] <= cursor'[c] \/ lastId'[c] <= seq')
      BY <1>1, <1>2, <1>7 DEF InLine, YieldReplay, Others
    <2>5. Rises(queue'[c])
      BY <1>1, <1>2 DEF InLine
    <2> QED
      BY <1>3, <1>5, <2>1, <2>2, <2>3, <2>4, <2>5 DEF InLine
  <1>9. Alive' \subseteq Alive => Ahead(c)'
    BY <1>1, <1>2, <1>7 DEF ClientInv, Ahead, Others
  <1>10. InOrder(c)'
    BY <1>1, <1>2, <1>7 DEF ClientInv, InOrder, Own, Others
  <1>11. restarts' = 0 => OneLife(c)' /\ Gapless(c)'
    BY <1>1, <1>2, <1>6, <1>7 DEF ClientInv, OneLife, Gapless, Own, Others
  <1>12. Held(c)' \subseteq Alive
    BY <1>1, <1>6, EntryTypes
  <1> QED
    BY <1>7, <1>8, <1>9, <1>10, <1>11, <1>12, OneClient DEF ClientInv

\* The head of the queue goes to the end of the wire, or is skipped.
LEMMA YieldLiveStep ==
  ASSUME StreamInv, TypeOK', NEW c \in Clients, YieldLive(c)
  PROVE  StreamInv'
  <1> DEFINE h == Head(queue[c])
  <1>1. /\ queue[c] \in Seq(Numbered) /\ queue[c] # << >> /\ replay[c] = << >>
        /\ wire[c] \in Seq(Numbered) /\ TypeOK /\ ClientInv(c) /\ InLine(c)
    BY DEF StreamInv, TypeOK, YieldLive, ClientInv
  <1>2. /\ wire'[c] = (IF h.seq <= cursor[c] THEN wire[c] ELSE Append(wire[c], h))
        /\ queue'[c] = Tail(queue[c])
        /\ replay' = replay /\ cursor' = cursor /\ online' = online
        /\ lastId' = lastId /\ received' = received /\ excused' = excused
    BY <1>1 DEF YieldLive, TypeOK, client
  <1>3. /\ h \in Numbered /\ Elements(queue[c]) = {h} \cup Elements(queue'[c])
        /\ Rises(queue'[c]) /\ \A x \in Elements(queue'[c]) : h.seq < x.seq
    BY <1>1, <1>2, TailParts, RisesTail DEF InLine
  <1> HIDE DEF h
  <1>4. /\ h.seq \in Nat /\ cursor[c] \in Nat
    BY <1>1, <1>3, EntryTypes
  <1>5. Elements(wire'[c]) = Elements(wire[c]) \cup (IF h.seq <= cursor[c] THEN {} ELSE {h})
    BY <1>1, <1>2, <1>3, AppendParts
  <1>6. Rises(wire'[c])
    BY <1>1, <1>2, <1>3, RisesAppend DEF InLine
  <1>7. Elements(replay[c]) = {} /\ Elements(replay'[c]) = {}
    BY <1>1, <1>2, RisesNone
  <1>8. Held(c)' \subseteq Held(c) /\ Coming(c)' = Coming(c) /\ Done(c)' = Done(c)
    <2>1. Held(c)' \subseteq Held(c)
      BY <1>3, <1>5, <1>7 DEF Held
    <2>2. Coming(c)' = Coming(c)
      BY <1>2, <1>3, <1>4, <1>5, <1>7 DEF Coming
    <2>3. Done(c)' = Done(c)
      BY <1>2 DEF Done
    <2> QED
      BY <2>1, <2>2, <2>3
  <1>9. Others(c)
    BY <1>1 DEF Others, Same, YieldLive, TypeOK, client
  <1>10. InLine(c)'
    <2>1. \A x \in Held(c)' : Own(c, x.event)'
      BY <1>1, <1>8, <1>9 DEF InLine, Own, Others
    <2>2. /\ \A x \in Elements(wire'[c]) :
               /\ \A y \in Elements(replay'[c]) : x.seq < y.seq
               /\ \A y \in Elements(queue'[c]) : x.seq < y.seq
          /\ \A x \in Elements(replay'[c]) : \A y \in Elements(queue'[c]) : x.seq < y.seq
      BY <1>1, <1>3, <1>5, <1>7 DEF InLine
    <2>3. \A x \in Coming(c)' : lastId'[c] < x.seq
      BY <1>1, <1>2, <1>8 DEF InLine
    <2>4. c \in online' /\ (lastId'[c] <= cursor'[c] \/ lastId'[c] <= seq')
      BY <1>1, <1>2, <1>9 DEF InLine, YieldLive, Others
    <2>5. Rises(replay'[c])
      BY <1>1, <1>2 DEF InLine
    <2> QED
      BY <1>3, <1>6, <2>1, <2>2, <2>3, <2>4, <2>5 DEF InLine
  <1>11. Alive' \subseteq Alive => Ahead(c)'
    BY <1>1, <1>2, <1>9 DEF ClientInv, Ahead, Others
  <1>12. InOrder(c)'
    BY <1>1, <1>2, <1>9 DEF ClientInv, InOrder, Own, Others
  <1>13. restarts' = 0 => OneLife(c)' /\ Gapless(c)'
    BY <1>1, <1>2, <1>8, <1>9 DEF ClientInv, OneLife, Gapless, Own, Others
  <1>14. Held(c)' \subseteq Alive
    BY <1>1, <1>8, EntryTypes
  <1> QED
    BY <1>9, <1>10, <1>11, <1>12, <1>13, <1>14, OneClient DEF ClientInv

\* The client gets the next of its line: it is past all it has seen, and
\* nothing it still has to get comes before it.
LEMMA ReceiveStep ==
  ASSUME StreamInv, TypeOK', NEW c \in Clients, Receive(c)
  PROVE  StreamInv'
  <1> DEFINE h == Head(wire[c])
             k == Len(received[c]) + 1
  <1>1. /\ wire[c] \in Seq(Numbered) /\ wire[c] # << >> /\ received[c] \in Seq(Nat)
        /\ TypeOK /\ ClientInv(c) /\ InLine(c) /\ Ahead(c) /\ InOrder(c)
        /\ NumbersAgree /\ c \in online
    BY DEF StreamInv, TypeOK, Receive, ClientInv, InLine
  <1>2. /\ wire'[c] = Tail(wire[c]) /\ lastId'[c] = h.seq
        /\ received'[c] = Append(received[c], h.event)
        /\ replay' = replay /\ queue' = queue
        /\ cursor' = cursor /\ online' = online /\ excused' = excused
    BY <1>1 DEF Receive, TypeOK
  <1>3. /\ h \in Numbered /\ Elements(wire[c]) = {h} \cup Elements(wire'[c])
        /\ Rises(wire'[c]) /\ \A x \in Elements(wire'[c]) : h.seq < x.seq
    BY <1>1, <1>2, TailParts, RisesTail DEF InLine
  <1> HIDE DEF h
  <1>4. /\ h.seq \in Nat /\ h.event \in Nat /\ h \in Coming(c) /\ h \in Alive
        /\ lastId[c] \in Nat /\ seq \in Nat
        /\ \A x \in Alive : x \in Numbered /\ x.seq \in Nat /\ x.event \in Nat
        /\ Coming(c) \subseteq Alive
    <2>1. h \in Coming(c)
      BY <1>3 DEF Coming
    <2> QED
      BY <1>1, <1>3, <2>1, EntryTypes
  <1>5. lastId[c] < h.seq /\ h.seq <= seq /\ h.event \in heard /\ Own(c, h.event)
    <2>1. Own(c, h.event)
      BY <1>1, <1>3 DEF InLine, Held
    <2>2. h.seq \in 1 .. seq
      BY <1>1, <1>4 DEF NumbersAgree
    <2> QED
      BY <1>1, <1>4, <2>1, <2>2 DEF InLine, NumbersAgree
  <1>6. /\ k \in Nat /\ DOMAIN received[c] = 1 .. k - 1
        /\ DOMAIN received'[c] = DOMAIN received[c] \cup {k}
        /\ received'[c][k] = h.event
        /\ \A i \in DOMAIN received[c] : i < k /\ received'[c][i] = received[c][i]
    BY <1>1, <1>2, <1>4
  <1> HIDE DEF k
  <1>7. /\ Held(c)' \subseteq Held(c)
        /\ Coming(c)' \subseteq Coming(c) /\ Coming(c) \subseteq Coming(c)' \cup {h}
        /\ \A x \in Coming(c)' : h.seq < x.seq
    <2>1. Held(c)' \subseteq Held(c)
      BY <1>2, <1>3 DEF Held
    <2>2. Coming(c)' \subseteq Coming(c) /\ Coming(c) \subseteq Coming(c)' \cup {h}
      BY <1>2, <1>3 DEF Coming
    <2>3. \A x \in Coming(c)' : h.seq < x.seq
      BY <1>1, <1>2, <1>3 DEF Coming, InLine
    <2> QED
      BY <2>1, <2>2, <2>3
  <1>8. Done(c)' = Done(c) \cup {h.event}
    <2>1. ToSet(received'[c]) = ToSet(received[c]) \cup {h.event}
      BY <1>6 DEF ToSet
    <2> QED
      BY <1>2, <2>1 DEF Done
  <1>9. Others(c)
    BY <1>1 DEF Others, Same, Receive, TypeOK
  <1>10. InLine(c)'
    <2>1. \A x \in Held(c)' : Own(c, x.event)'
      BY <1>1, <1>7, <1>9 DEF InLine, Own, Others
    <2>2. /\ \A x \in Elements(wire'[c]) :
               /\ \A y \in Elements(replay'[c]) : x.seq < y.seq
               /\ \A y \in Elements(queue'[c]) : x.seq < y.seq
          /\ \A x \in Elements(replay'[c]) : \A y \in Elements(queue'[c]) : x.seq < y.seq
      BY <1>1, <1>2, <1>3 DEF InLine
    <2>3. \A x \in Coming(c)' : lastId'[c] < x.seq
      BY <1>2, <1>7
    <2>4. c \in online' /\ (lastId'[c] <= cursor'[c] \/ lastId'[c] <= seq')
      BY <1>1, <1>2, <1>5, <1>9 DEF Others
    <2>5. Rises(replay'[c]) /\ Rises(queue'[c])
      BY <1>1, <1>2 DEF InLine
    <2> QED
      BY <1>3, <2>1, <2>2, <2>3, <2>4, <2>5 DEF InLine
  <1>11. Alive' \subseteq Alive => Ahead(c)'
    <2>1. SUFFICES ASSUME Alive' \subseteq Alive
                   PROVE  Ahead(c)'
      OBVIOUS
    <2>2. \A i \in DOMAIN received'[c] : received'[c][i] \in heard'
      BY <1>1, <1>5, <1>6, <1>9 DEF Ahead, Others
    <2>3. ASSUME NEW x \in Alive', lastId'[c] < x.seq, NEW i \in DOMAIN received'[c]
          PROVE  received'[c][i] < x.event
      <3>1. x \in Alive /\ h.seq < x.seq
        BY <1>2, <2>1, <2>3
      <3>2. h.event < x.event
        BY <1>1, <1>4, <3>1 DEF NumbersAgree
      <3>3. lastId[c] < x.seq
        BY <1>4, <1>5, <3>1
      <3>4. CASE i = k
        BY <1>6, <3>2, <3>4
      <3>5. CASE i \in DOMAIN received[c]
        <4>1. received[c][i] < x.event
          BY <1>1, <3>1, <3>3, <3>5 DEF Ahead
        <4> QED
          BY <1>6, <3>5, <4>1
      <3> QED
        BY <1>6, <3>4, <3>5
    <2> QED
      BY <2>2, <2>3 DEF Ahead
  <1>12. InOrder(c)'
    <2>1. \A i \in DOMAIN received[c] : received[c][i] < h.event
      BY <1>1, <1>4, <1>5 DEF Ahead
    <2>2. \A i \in DOMAIN received'[c] : published'[received'[c][i]] = SessionOf[c]
      BY <1>1, <1>5, <1>6, <1>9 DEF InOrder, Own, Others
    <2>3. ASSUME NEW i \in DOMAIN received'[c], NEW j \in DOMAIN received'[c], i < j
          PROVE  received'[c][i] < received'[c][j]
      <3>1. i \in DOMAIN received[c]
        BY <1>6, <2>3
      <3>2. CASE j = k
        BY <1>6, <2>1, <3>1, <3>2
      <3>3. CASE j \in DOMAIN received[c]
        BY <1>1, <1>6, <2>3, <3>1, <3>3 DEF InOrder
      <3> QED
        BY <1>6, <3>2, <3>3
    <2> QED
      BY <2>2, <2>3 DEF InOrder, Own
  <1>13. restarts' = 0 => OneLife(c)' /\ Gapless(c)'
    <2>1. SUFFICES ASSUME restarts = 0
                   PROVE  OneLife(c)' /\ Gapless(c)'
      BY <1>9 DEF Others
    <2>2. OneLife(c) /\ Gapless(c)
      BY <1>1, <2>1 DEF ClientInv
    <2>3. \A n \in heard : Own(c, n) => n \in Done(c) \/ \E x \in Coming(c) : x.event = n
      BY <1>1, <2>2 DEF OneLife
    <2>4. ASSUME NEW x \in Elements(buffer'), x.seq <= lastId'[c]
          PROVE  \E i \in DOMAIN received'[c] : x.event <= received'[c][i]
      <3>1. x \in Alive /\ x.seq <= h.seq
        BY <1>1, <1>2, <1>9, <2>4, EntryTypes DEF Others
      <3>2. x.event <= h.event
        <4>1. x.seq \in Nat /\ x.event \in Nat
          BY <1>4, <3>1
        <4>2. x.seq < h.seq \/ x.seq = h.seq
          BY <1>4, <3>1, <4>1
        <4>3. x.event < h.event \/ x.event = h.event
          BY <1>1, <1>4, <3>1, <4>2 DEF NumbersAgree
        <4> QED
          BY <1>4, <4>1, <4>3
      <3> QED
        BY <1>6, <3>2
    <2>5. \A n \in heard : Own(c, n) => n \in Done(c)' \/ \E x \in Coming(c)' : x.event = n
      BY <1>7, <1>8, <2>3
    <2>6. lastId'[c] <= seq' /\ cursor'[c] <= seq'
      BY <1>2, <1>5, <1>9, <2>2 DEF OneLife, Others
    <2>7. OneLife(c)'
      BY <1>9, <2>4, <2>5, <2>6 DEF OneLife, Others, Own
    <2>8. ASSUME NEW i \in DOMAIN received'[c], NEW n \in heard,
                 n < received'[c][i], Own(c, n)
          PROVE  n \in Done(c)'
      <3>1. CASE i \in DOMAIN received[c]
        BY <1>6, <1>8, <2>2, <2>8, <3>1 DEF Gapless
      <3>2. CASE i = k
        <4>1. SUFFICES ASSUME NEW x \in Coming(c), x.event = n
                       PROVE  n \in Done(c)'
          BY <1>8, <2>3, <2>8
        <4>2. n < h.event
          BY <1>6, <2>8, <3>2
        <4>3. x \in Alive /\ x.event \in Nat /\ x.seq \in Nat
          BY <1>4
        <4>4. x = h \/ h.seq < x.seq
          BY <1>7
        <4>5. x = h \/ h.event < x.event
          BY <1>1, <1>4, <4>3, <4>4 DEF NumbersAgree
        <4> QED
          BY <1>4, <4>1, <4>2, <4>3, <4>5
      <3> QED
        BY <1>6, <3>1, <3>2
    <2>9. Gapless(c)'
      BY <1>9, <2>8 DEF Gapless, Others, Own
    <2> QED
      BY <2>7, <2>9
  <1>14. Held(c)' \subseteq Alive
    BY <1>1, <1>7, EntryTypes
  <1> QED
    BY <1>9, <1>10, <1>11, <1>12, <1>13, <1>14, OneClient DEF ClientInv
-----------------------------------------------------------------------------
\* Who connects is owed what is past its number and still in the buffer: the
\* rest it has seen, or it is gone.
LEMMA ConnectStep ==
  ASSUME StreamInv, TypeOK', NEW c \in Clients, Connect(c)
  PROVE  StreamInv'
  <1>1. /\ TypeOK /\ ClientInv(c) /\ InLine(c) /\ Ahead(c) /\ NumbersAgree
        /\ c \notin online /\ wire[c] = << >> /\ queue[c] = << >>
    BY DEF StreamInv, Connect, ClientInv, InLine
  <1>2. /\ wire'[c] = << >> /\ queue'[c] = << >>
        /\ replay'[c] = Replay(c, lastId[c]) /\ cursor'[c] = lastId[c]
        /\ c \in online' /\ lastId' = lastId /\ received' = received
        /\ excused'[c] = excused[c] \cup
             { n \in heard : Own(c, n) /\ \A i \in DOMAIN buffer : buffer[i].event # n }
    BY <1>1 DEF Connect, TypeOK
  <1>3. /\ Rises(replay'[c])
        /\ Elements(replay'[c]) =
             { x \in Elements(buffer) : x.seq > lastId[c] /\ Own(c, x.event) }
    BY <1>1, <1>2, ReplayParts DEF NumbersAgree
  <1>4. /\ Elements(wire'[c]) = {} /\ Elements(queue'[c]) = {}
        /\ Rises(wire'[c]) /\ Rises(queue'[c])
    BY <1>2, RisesNone
  <1>5. /\ Held(c)' = Elements(replay'[c]) /\ Coming(c)' = Elements(replay'[c])
        /\ Done(c) \subseteq Done(c)'
    BY <1>2, <1>4 DEF Held, Coming, Done
  <1>6. Others(c)
    BY <1>1 DEF Others, Same, Connect, TypeOK
  <1>7. /\ lastId[c] \in Nat
        /\ \A x \in Elements(buffer) :
             x \in Alive /\ x.seq \in Nat /\ x.event \in Nat /\ x.event \in heard
    BY <1>1, EntryTypes DEF NumbersAgree
  <1>8. InLine(c)'
    <2>1. \A x \in Held(c)' : Own(c, x.event)'
      BY <1>3, <1>5, <1>6 DEF Own, Others
    <2>2. \A x \in Coming(c)' : lastId'[c] < x.seq
      BY <1>2, <1>3, <1>5, <1>7
    <2>3. c \in online' /\ lastId'[c] <= cursor'[c]
      BY <1>2, <1>7
    <2> QED
      BY <1>3, <1>4, <2>1, <2>2, <2>3 DEF InLine
  <1>9. Alive' \subseteq Alive => Ahead(c)'
    BY <1>1, <1>2, <1>6 DEF Ahead, Others
  <1>10. InOrder(c)'
    BY <1>1, <1>2, <1>6 DEF ClientInv, InOrder, Own, Others
  <1>11. restarts' = 0 => OneLife(c)' /\ Gapless(c)'
    <2>1. SUFFICES ASSUME restarts = 0
                   PROVE  OneLife(c)' /\ Gapless(c)'
      BY <1>6 DEF Others
    <2>2. OneLife(c) /\ Gapless(c)
      BY <1>1, <2>1 DEF ClientInv
    <2>3. Gapless(c)'
      BY <1>2, <1>5, <1>6, <2>2 DEF Gapless, Own, Others
    <2>4. ASSUME NEW n \in heard, Own(c, n), n \notin Done(c)'
          PROVE  \E x \in Coming(c)' : x.event = n
      <3>1. PICK i \in DOMAIN buffer : buffer[i].event = n
        BY <1>2, <2>4 DEF Done
      <3> DEFINE x == buffer[i]
      <3>2. x \in Elements(buffer) /\ x.event = n
        BY <3>1 DEF Elements
      <3> HIDE DEF x
      <3>3. CASE x.seq <= lastId[c]
        <4>1. PICK j \in DOMAIN received[c] : x.event <= received[c][j]
          BY <2>2, <3>2, <3>3 DEF OneLife
        <4>2. received[c][j] \in Nat /\ n \in Nat
          BY <1>1, <1>7, <3>2, EntryTypes
        <4>3. n # received[c][j]
          BY <1>5, <2>4 DEF Done, ToSet
        <4>4. n < received[c][j]
          BY <3>2, <4>1, <4>2, <4>3
        <4> QED
          BY <1>5, <2>2, <2>4, <4>4 DEF Gapless
      <3>4. CASE x.seq > lastId[c]
        BY <1>3, <1>5, <2>4, <3>2, <3>4
      <3> QED
        BY <1>7, <3>2, <3>3, <3>4
    <2>5. OneLife(c)'
      <3>1. lastId'[c] <= seq' /\ cursor'[c] <= seq'
        BY <1>2, <1>6, <2>2 DEF OneLife, Others
      <3>2. \A x \in Elements(buffer') : x.seq <= lastId'[c] =>
              \E i \in DOMAIN received'[c] : x.event <= received'[c][i]
        BY <1>2, <1>6, <2>2 DEF OneLife, Others
      <3>3. \A n \in heard' : Own(c, n)' =>
              n \in Done(c)' \/ \E x \in Coming(c)' : x.event = n
        BY <1>6, <2>4 DEF Own, Others
      <3> QED
        BY <3>1, <3>2, <3>3 DEF OneLife
    <2> QED
      BY <2>3, <2>5
  <1>12. Held(c)' \subseteq Alive
    BY <1>3, <1>5, <1>7
  <1> QED
    BY <1>6, <1>8, <1>9, <1>10, <1>11, <1>12, OneClient DEF ClientInv

\* A client that leaves loses what was on its way.
LEMMA DisconnectStep ==
  ASSUME StreamInv, TypeOK', NEW c \in Clients, Disconnect(c)
  PROVE  StreamInv'
  <1>1. TypeOK /\ ClientInv(c)
    BY DEF StreamInv
  <1>2. /\ wire'[c] = << >> /\ queue'[c] = << >> /\ replay'[c] = << >>
        /\ cursor' = cursor /\ c \notin online'
        /\ lastId' = lastId /\ received' = received /\ excused' = excused
    BY <1>1 DEF Disconnect, HangUp, TypeOK, client
  <1>3. Held(c)' = {} /\ Coming(c)' = {} /\ Done(c)' = Done(c)
    BY <1>2, RisesNone DEF Held, Coming, Done
  <1>4. Others(c)
    BY <1>1 DEF Others, Same, Disconnect, HangUp, TypeOK, client
  <1>5. InLine(c)'
    BY <1>2, <1>3, RisesNone DEF InLine
  <1>6. Alive' \subseteq Alive => Ahead(c)'
    BY <1>1, <1>2, <1>4 DEF ClientInv, Ahead, Others
  <1>7. InOrder(c)'
    BY <1>1, <1>2, <1>4 DEF ClientInv, InOrder, Own, Others
  <1>8. restarts' = 0 => OneLife(c)' /\ Gapless(c)'
    BY <1>1, <1>2, <1>3, <1>4 DEF ClientInv, OneLife, Gapless, Own, Others
  <1> QED
    BY <1>3, <1>4, <1>5, <1>6, <1>7, <1>8, OneClient DEF ClientInv

\* Nothing of an earlier life is left.
LEMMA RestartStep ==
  ASSUME StreamInv, TypeOK', Restart
  PROVE  StreamInv'
  <1>1. /\ restarts' \in Nat /\ restarts' # 0
        /\ buffer' = << >> /\ online' = {}
        /\ \A c \in Clients : wire'[c] = << >> /\ replay'[c] = << >> /\ queue'[c] = << >>
        /\ UNCHANGED <<published, heard, cursor, lastId, received, excused>>
    BY DEF Restart, StreamInv, client
  <1>2. \A c \in Clients : Held(c)' = {}
    BY <1>1, RisesNone DEF Held
  <1>3. Alive' = {}
    BY <1>1, <1>2, RisesNone DEF Alive
  <1>4. NumbersAgree'
    BY <1>1, <1>3, RisesNone DEF NumbersAgree
  <1>5. ASSUME NEW c \in Clients
        PROVE  ClientInv(c)'
    <2>1. Coming(c)' = {}
      BY <1>1, RisesNone DEF Coming
    <2>2. InLine(c)'
      BY <1>1, <1>2, <2>1, RisesNone DEF InLine
    <2>3. Ahead(c)'
      BY <1>1, <1>3 DEF StreamInv, ClientInv, Ahead
    <2>4. InOrder(c)'
      BY <1>1 DEF StreamInv, ClientInv, InOrder, Own
    <2> QED
      BY <1>1, <2>2, <2>3, <2>4 DEF ClientInv
  <1> QED
    BY <1>1, <1>4, <1>5 DEF StreamInv

-----------------------------------------------------------------------------
\* The new entry is past all there is and all anybody has seen.
LEMMA NewestIsLast ==
  ASSUME StreamInv, NEW s \in Sessions, Publish(s)
  PROVE  /\ Newest \in Numbered /\ Newest.seq \in Nat /\ Newest.event \in Nat
         /\ seq < Newest.seq /\ 0 < Newest.seq
         /\ \A x \in Alive : x.seq < Newest.seq /\ x.event < Newest.event
         /\ \A n \in heard : n < Newest.event /\ published'[n] = published[n]
         /\ heard \subseteq heard'
  <1>1. /\ TypeOK /\ NumbersAgree
    BY DEF StreamInv
  <1>2. /\ Newest \in Numbered /\ Newest.seq = seq + 1
        /\ Newest.event = Len(published) + 1
        /\ DOMAIN published = 1 .. Len(published) /\ Len(published) \in Nat
        /\ \A n \in DOMAIN published : published'[n] = published[n]
        /\ heard \subseteq heard'
    BY <1>1, PublishParts
  <1>3. seq \in Nat /\ heard \subseteq DOMAIN published
    BY <1>1 DEF TypeOK
  <1>4. \A n \in heard : n < Newest.event /\ published'[n] = published[n]
    BY <1>2, <1>3
  <1>5. \A x \in Alive : x.seq < Newest.seq /\ x.event < Newest.event
    BY <1>1, <1>2, <1>3, <1>4 DEF NumbersAgree
  <1> QED
    BY <1>2, <1>3, <1>4, <1>5

\* What publishing does to the line of one client.
LEMMA FanOutParts ==
  ASSUME TypeOK, NEW s \in Sessions, NEW c \in Clients, Newest \in Numbered,
         queue' = FanOut(Newest, s)
  PROVE  \/ /\ c \in online /\ SessionOf[c] = s
            /\ queue'[c] = Append(queue[c], Newest)
            /\ Elements(queue'[c]) = Elements(queue[c]) \cup {Newest}
         \/ /\ ~ (c \in online /\ SessionOf[c] = s)
            /\ queue'[c] = queue[c]
  <1>1. Elements(Append(queue[c], Newest)) = Elements(queue[c]) \cup {Newest}
    BY AppendParts DEF TypeOK
  <1> QED
    BY <1>1 DEF FanOut

\* The part of publishing that is about one client.
LEMMA PublishClient ==
  ASSUME StreamInv, TypeOK', NEW s \in Sessions, Publish(s), listening,
         NEW c \in Clients, Alive' \subseteq Alive \cup {Newest}
  PROVE  ClientInv(c)'
  <1>1. /\ TypeOK /\ NumbersAgree
        /\ InLine(c) /\ Ahead(c) /\ InOrder(c)
        /\ restarts = 0 => OneLife(c) /\ Gapless(c)
    BY DEF StreamInv, ClientInv
  <1>2. /\ Newest \in Numbered
        /\ Newest.seq \in Nat /\ Newest.event \in Nat
        /\ seq < Newest.seq /\ 0 < Newest.seq
        /\ \A x \in Alive : x.seq < Newest.seq /\ x.event < Newest.event
        /\ \A n \in heard : n < Newest.event /\ published'[n] = published[n]
        /\ heard \subseteq heard'
    BY NewestIsLast
  <1>3. /\ seq' = Newest.seq /\ buffer' = Push(buffer, Newest)
        /\ queue' = FanOut(Newest, s) /\ heard' = heard \cup {Newest.event}
        /\ published'[Newest.event] = s
        /\ UNCHANGED <<online, replay, cursor, wire, lastId, received, excused, restarts>>
    BY <1>1, PublishParts DEF client
  <1>4. /\ lastId[c] \in Nat /\ cursor[c] \in Nat /\ seq \in Nat
        /\ Held(c) \subseteq Alive /\ Coming(c) \subseteq Held(c)
        /\ Elements(buffer) \subseteq Alive
        /\ \A x \in Alive : x.seq \in Nat /\ x.event \in Nat /\ x.event \in heard
    BY <1>1, EntryTypes DEF NumbersAgree
  <1>5. \/ /\ c \in online /\ SessionOf[c] = s
           /\ queue'[c] = Append(queue[c], Newest)
           /\ Elements(queue'[c]) = Elements(queue[c]) \cup {Newest}
        \/ /\ ~ (c \in online /\ SessionOf[c] = s)
           /\ queue'[c] = queue[c]
    BY <1>1, <1>2, <1>3, FanOutParts
  <1>6. /\ Held(c)' \subseteq Held(c) \cup {Newest}
        /\ Newest \in Held(c)' => Newest \in Held(c) \/ (c \in online /\ SessionOf[c] = s)
        /\ Coming(c) \subseteq Coming(c)'
        /\ Coming(c)' \subseteq Coming(c) \cup {Newest}
        /\ Newest \in Coming(c)' =>
             Newest \in Coming(c) \/ (c \in online /\ cursor[c] < Newest.seq)
        /\ Done(c)' = Done(c)
    BY <1>2, <1>3, <1>4, <1>5 DEF Held, Coming, Done
  <1> HIDE DEF Newest
  <1>7. InLine(c)'
    <2>1. Rises(wire'[c]) /\ Rises(replay'[c])
      BY <1>1, <1>3 DEF InLine
    <2>2. \A x \in Elements(queue[c]) : x.seq < Newest.seq
      BY <1>2, <1>4 DEF Held
    <2>3. Rises(queue'[c])
      <3>1. queue[c] \in Seq(Numbered) /\ Rises(queue[c])
        BY <1>1 DEF TypeOK, InLine
      <3>2. Rises(Append(queue[c], Newest))
        BY <1>2, <2>2, <3>1, RisesAppend
      <3> QED
        BY <1>5, <3>1, <3>2
    <2>4. /\ \A x \in Elements(wire'[c]) :
               /\ \A y \in Elements(replay'[c]) : x.seq < y.seq
               /\ \A y \in Elements(queue'[c]) : x.seq < y.seq
          /\ \A x \in Elements(replay'[c]) : \A y \in Elements(queue'[c]) : x.seq < y.seq
      <3>1. /\ \A x \in Elements(wire[c]) : x.seq < Newest.seq
            /\ \A x \in Elements(replay[c]) : x.seq < Newest.seq
        BY <1>2, <1>4 DEF Held
      <3>2. \A y \in Elements(queue'[c]) : y = Newest \/ y \in Elements(queue[c])
        BY <1>5
      <3> QED
        BY <1>1, <1>3, <3>1, <3>2 DEF InLine
    <2>5. \A x \in Held(c)' : Own(c, x.event)'
      <3>1. \A x \in Held(c) : published'[x.event] = SessionOf[c]
        BY <1>1, <1>2, <1>4 DEF InLine, Own
      <3>2. Newest \in Held(c)' => published'[Newest.event] = SessionOf[c]
        BY <1>3, <1>6, <3>1
      <3> QED
        BY <1>6, <3>1, <3>2 DEF Own
    <2>6. \A x \in Coming(c)' : lastId'[c] < x.seq
      <3>1. \A x \in Coming(c) : lastId[c] < x.seq
        BY <1>1 DEF InLine
      <3>2. c \in online /\ cursor[c] < Newest.seq => lastId[c] < Newest.seq
        <4>1. c \in online => lastId[c] <= cursor[c] \/ lastId[c] <= seq
          BY <1>1 DEF InLine
        <4> QED
          BY <1>2, <1>4, <4>1
      <3> QED
        BY <1>3, <1>6, <3>1, <3>2
    <2>7. c \in online' => lastId'[c] <= cursor'[c] \/ lastId'[c] <= seq'
      <3>1. c \in online => lastId[c] <= cursor[c] \/ lastId[c] <= seq
        BY <1>1 DEF InLine
      <3> QED
        BY <1>2, <1>3, <1>4, <3>1
    <2>8. c \notin online' => wire'[c] = << >> /\ replay'[c] = << >> /\ queue'[c] = << >>
      BY <1>1, <1>3, <1>5 DEF InLine
    <2> QED
      BY <2>1, <2>3, <2>4, <2>5, <2>6, <2>7, <2>8 DEF InLine
  <1>8. Ahead(c)'
    <2>1. \A i \in DOMAIN received[c] :
            received[c][i] \in heard' /\ received[c][i] < Newest.event
      BY <1>1, <1>2 DEF Ahead
    <2>2. \A x \in Alive' : lastId[c] < x.seq =>
            \A i \in DOMAIN received[c] : received[c][i] < x.event
      BY <1>1, <2>1 DEF Ahead
    <2> QED
      BY <1>3, <2>1, <2>2 DEF Ahead
  <1>9. InOrder(c)'
    <2>1. \A i \in DOMAIN received[c] : published'[received[c][i]] = published[received[c][i]]
      BY <1>1, <1>2 DEF Ahead
    <2> QED
      BY <1>1, <1>3, <2>1 DEF InOrder, Own
  <1>10. restarts' = 0 => OneLife(c)' /\ Gapless(c)'
    <2>1. SUFFICES ASSUME restarts = 0
                   PROVE  OneLife(c)' /\ Gapless(c)'
      BY <1>3
    <2>2. OneLife(c) /\ Gapless(c)
      BY <1>1, <2>1
    <2>3. \A n \in heard : Own(c, n)' <=> Own(c, n)
      BY <1>2 DEF Own
    <2>4. lastId'[c] <= seq' /\ cursor'[c] <= seq'
      BY <1>2, <1>3, <1>4, <2>2 DEF OneLife
    <2>5. ASSUME NEW x \in Elements(buffer'), x.seq <= lastId'[c]
          PROVE  \E i \in DOMAIN received'[c] : x.event <= received'[c][i]
      <3>1. x \in Elements(buffer) \cup {Newest}
        BY <1>1, <1>2, <1>3, <2>5, PushParts DEF TypeOK
      <3>2. lastId[c] < Newest.seq
        BY <1>2, <1>4, <2>2 DEF OneLife
      <3>3. x # Newest
        BY <1>2, <1>3, <1>4, <2>5, <3>2
      <3> QED
        BY <1>3, <2>2, <2>5, <3>1, <3>3 DEF OneLife
    <2>6. ASSUME c \in online', NEW n \in heard', Own(c, n)'
          PROVE  n \in Done(c)' \/ \E x \in Coming(c)' : x.event = n
      <3>1. CASE n \in heard
        BY <1>3, <1>6, <2>2, <2>3, <2>6, <3>1 DEF OneLife
      <3>2. CASE n = Newest.event
        <4>1. c \in online /\ SessionOf[c] = s
          BY <1>3, <2>6, <3>2 DEF Own
        <4>2. Newest \in Elements(queue'[c])
          BY <1>5, <4>1
        <4>3. cursor'[c] < Newest.seq
          BY <1>2, <1>3, <1>4, <2>2 DEF OneLife
        <4>4. Newest \in { x \in Elements(queue'[c]) : x.seq > cursor'[c] }
          BY <1>2, <1>3, <1>4, <4>2, <4>3
        <4> QED
          BY <3>2, <4>4 DEF Coming
      <3> QED
        BY <1>3, <2>6, <3>1, <3>2
    <2>7. OneLife(c)'
      BY <2>4, <2>5, <2>6 DEF OneLife
    <2>8. ASSUME NEW i \in DOMAIN received'[c], NEW n \in heard',
                 n < received'[c][i], Own(c, n)'
          PROVE  n \in Done(c)'
      <3>1. received[c][i] < Newest.event /\ received[c][i] \in Nat
        <4>1. received[c][i] \in heard
          BY <1>1, <1>3, <2>8 DEF Ahead
        <4> QED
          BY <1>1, <1>2, <4>1, EntryTypes
      <3>2. n # Newest.event
        BY <1>2, <1>3, <2>8, <3>1
      <3> QED
        BY <1>3, <1>6, <2>2, <2>3, <2>8, <3>2 DEF Gapless
    <2>9. Gapless(c)'
      BY <2>8 DEF Gapless
    <2> QED
      BY <2>7, <2>9
  <1> QED
    BY <1>7, <1>8, <1>9, <1>10 DEF ClientInv

\* A new event is numbered beyond all that is on its way.
LEMMA PublishStep ==
  ASSUME StreamInv, TypeOK', NEW s \in Sessions, Publish(s)
  PROVE  StreamInv'
  <1>1. TypeOK /\ NumbersAgree /\ restarts \in Nat
    BY DEF StreamInv
  <1>2. CASE ~ listening
    <2>1. UNCHANGED <<seq, buffer, queue, heard, online, replay, cursor, wire,
                      lastId, received, excused, restarts>>
      BY <1>1, <1>2, PublishParts DEF client
    <2>2. /\ \A c \in Clients : Held(c)' = Held(c) /\ Coming(c)' = Coming(c)
                                /\ Done(c)' = Done(c)
      BY <2>1 DEF Held, Coming, Done
    <2>3. Alive' = Alive
      BY <2>1, <2>2 DEF Alive
    <2>4. NumbersAgree'
      BY <1>1, <2>1, <2>3 DEF NumbersAgree
    <2>5. ASSUME NEW c \in Clients
          PROVE  ClientInv(c)'
      <3>1. \A n \in heard : Own(c, n)' <=> Own(c, n)
        BY NewestIsLast DEF Own
      <3>2. /\ \A x \in Held(c) : x.event \in heard
            /\ \A i \in DOMAIN received[c] : received[c][i] \in heard
        BY <1>1, EntryTypes DEF NumbersAgree, StreamInv, ClientInv, Ahead
      <3>3. ClientInv(c)
        BY DEF StreamInv
      <3>4. InLine(c)'
        BY <2>1, <2>2, <3>1, <3>2, <3>3 DEF ClientInv, InLine
      <3>5. Ahead(c)'
        BY <2>1, <2>3, <3>3 DEF ClientInv, Ahead
      <3>6. InOrder(c)'
        BY <2>1, <3>1, <3>2, <3>3 DEF ClientInv, InOrder, Own
      <3>7. restarts' = 0 => OneLife(c)' /\ Gapless(c)'
        BY <2>1, <2>2, <3>1, <3>3 DEF ClientInv, OneLife, Gapless
      <3> QED
        BY <3>4, <3>5, <3>6, <3>7 DEF ClientInv
    <2> QED
      BY <1>1, <2>1, <2>4, <2>5 DEF StreamInv
  <1>3. CASE listening
    <2>1. /\ Newest \in Numbered
          /\ Newest.seq \in Nat /\ Newest.event \in Nat
          /\ seq < Newest.seq /\ 0 < Newest.seq
          /\ \A x \in Alive : x.seq < Newest.seq /\ x.event < Newest.event
          /\ heard \subseteq heard'
      BY NewestIsLast
    <2>2. /\ seq' = Newest.seq /\ buffer' = Push(buffer, Newest)
          /\ queue' = FanOut(Newest, s) /\ heard' = heard \cup {Newest.event}
          /\ replay' = replay /\ wire' = wire /\ restarts' = restarts
      BY <1>1, <1>3, PublishParts
    <2>3. /\ Elements(buffer') \subseteq Elements(buffer) \cup {Newest}
          /\ Rises(buffer')
      <3>1. /\ buffer \in Seq(Numbered) /\ Len(buffer) <= MaxLen /\ Rises(buffer)
            /\ \A x \in Elements(buffer) : x.seq < Newest.seq
        BY <1>1, <2>1 DEF TypeOK, NumbersAgree, Alive
      <3> QED
        BY <2>1, <2>2, <3>1, PushParts
    <2>4. \A c \in Clients : Held(c)' \subseteq Held(c) \cup {Newest}
      <3>1. \A c \in Clients : Elements(queue'[c]) \subseteq Elements(queue[c]) \cup {Newest}
        BY <1>1, <2>1, <2>2, FanOutParts
      <3> QED
        BY <2>2, <3>1 DEF Held
    <2>5. Alive' \subseteq Alive \cup {Newest}
      BY <2>3, <2>4 DEF Alive
    <2>6. NumbersAgree'
      <3>1. \A x \in Alive : x.seq \in 1 .. seq' /\ x.event \in heard'
        BY <1>1, <2>1, <2>2 DEF NumbersAgree, TypeOK
      <3>2. Newest.seq \in 1 .. seq' /\ Newest.event \in heard'
        BY <2>1, <2>2
      <3>3. ASSUME NEW x \in Alive', NEW y \in Alive'
            PROVE  /\ x.seq < y.seq => x.event < y.event
                   /\ x.seq = y.seq => x.event = y.event
        <4>1. \A z \in Alive : z.seq \in Nat /\ z.event \in Nat
          BY <1>1 DEF NumbersAgree, TypeOK
        <4> HIDE DEF Newest
        <4>2. CASE x \in Alive /\ y \in Alive
          BY <1>1, <4>2 DEF NumbersAgree
        <4>3. CASE x \in Alive /\ y = Newest
          BY <2>1, <4>1, <4>3
        <4>4. CASE x = Newest /\ y \in Alive
          BY <2>1, <4>1, <4>4
        <4>5. CASE x = Newest /\ y = Newest
          BY <2>1, <4>5
        <4> QED
          BY <2>5, <4>2, <4>3, <4>4, <4>5
      <3> QED
        BY <2>3, <2>5, <3>1, <3>2, <3>3 DEF NumbersAgree
    <2>7. \A c \in Clients : ClientInv(c)'
      BY <1>3, <2>5, PublishClient
    <2> QED
      BY <1>1, <2>2, <2>6, <2>7 DEF StreamInv
  <1> QED
    BY <1>2, <1>3

\* Every step preserves the invariant.
LEMMA StreamStep ==
  ASSUME StreamInv, [Next]_vars
  PROVE  StreamInv'
  <1>1. TypeOK'
    BY TypeStep DEF StreamInv
  <1>2. CASE UNCHANGED vars
    <2>1. /\ UNCHANGED <<published, heard, listening, seq, buffer, online, replay,
                         queue, cursor, wire, lastId, received, excused, restarts>>
      BY <1>2 DEF vars, server, client
    <2>2. \A c \in Clients : Held(c)' = Held(c)
      BY <2>1 DEF Held
    <2>3. Alive' = Alive
      BY <2>1, <2>2 DEF Alive
    <2>4. \A c \in Clients : ClientInv(c)'
      BY <2>1, <2>3, ClientKept DEF Same, StreamInv
    <2>5. NumbersAgree'
      BY <2>1, <2>3 DEF StreamInv, NumbersAgree
    <2> QED
      BY <1>1, <2>1, <2>4, <2>5 DEF StreamInv
  <1> QED
    BY <1>1, <1>2, PublishStep, ConnectStep, YieldReplayStep, YieldLiveStep,
       ReceiveStep, DisconnectStep, RestartStep DEF Next

\* The inductive invariant holds throughout, with any number of clients,
\* reconnections and restarts.
THEOREM StreamInvCorrect == Spec => []StreamInv
  <1>1. Init /\ TypeOK => StreamInv
    <2> SUFFICES ASSUME Init, TypeOK
                 PROVE  StreamInv
      OBVIOUS
    <2>1. \A c \in Clients : Held(c) = {} /\ Coming(c) = {}
      BY RisesNone DEF Init, Held, Coming
    <2>2. Alive = {}
      BY <2>1, RisesNone DEF Init, Alive
    <2>3. NumbersAgree
      BY <2>2, RisesNone DEF Init, NumbersAgree
    <2>4. \A c \in Clients : InLine(c)
      BY <2>1, RisesNone DEF Init, InLine
    <2>5. \A c \in Clients : Ahead(c) /\ InOrder(c) /\ Gapless(c)
      BY <2>2 DEF Init, Ahead, InOrder, Gapless
    <2>6. \A c \in Clients : OneLife(c)
      BY RisesNone DEF Init, OneLife
    <2> QED
      BY <2>3, <2>4, <2>5, <2>6 DEF Init, StreamInv, ClientInv
  <1>2. StreamInv /\ [Next]_vars => StreamInv'
    BY StreamStep
  <1> QED
    BY <1>1, <1>2, TypeCorrect, PTL DEF Spec

(***************************************************************************)
(* For any number of clients, reconnections and restarts, and wherever the *)
(* connections break: a client sees events of its own session only, each   *)
(* once, in the order they were published.                                 *)
(***************************************************************************)
THEOREM OnceInOrderCorrect == Spec => []OnceInOrder
  <1>1. StreamInv => OnceInOrder
    BY DEF StreamInv, ClientInv, InOrder, OnceInOrder
  <1> QED
    BY <1>1, StreamInvCorrect, PTL

(***************************************************************************)
(* As long as the process lives, a client that reconnects, however often   *)
(* and with whatever lost on the wire, has missed nothing up to the latest *)
(* event it has seen but what had left the ring buffer when it came.       *)
(***************************************************************************)
THEOREM NoGapInOneLifeCorrect == Spec => []NoGapInOneLife
  <1>1. StreamInv => NoGapInOneLife
    BY DEF StreamInv, ClientInv, Gapless, Done, NoGapInOneLife, NoGap
  <1> QED
    BY <1>1, StreamInvCorrect, PTL
=============================================================================
