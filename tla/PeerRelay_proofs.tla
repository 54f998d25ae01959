-------------------------- MODULE PeerRelay_proofs --------------------------
(***************************************************************************)
(* The relay, for any diallers, limits and numbers of messages.            *)
(***************************************************************************)
EXTENDS PeerRelay, FiniteSetTheorems, SequenceTheorems, TLAPS

Pipes == Calls \X {"up", "down"}
Msgs == (Pipes \X Nat) \cup {NoMsg}
Entries == [pipe : Pipes, msg : Msgs]
Ops == {"OPEN", "ACCEPT", "REFUSE", "CLOSE", "DATA"}
Frames == [op : Ops, id : Nat, call : Calls, msg : Msgs]
Sessions == UNION {[D -> Calls] : D \in SUBSET Nat}
CallRec == [pc : {"idle", "opening", "attached", "ended"}, id : Nat,
            answer : {"none", "accept", "decline"}, closed : BOOLEAN,
            inbox : Seq(Entries), queue : Seq(Entries)]
ClientRec == [sock : {"none", "waiting", "open", "gone"}, sent : Nat, got : Seq(Msgs)]
HostRec == [pc : {"none", "admitting", "live", "over"}, open : BOOLEAN, id : Nat, sent : Nat, got : Seq(Msgs)]

\* A slot is held by a session of its own node, under its own number, that is not over.
Slot(s, n, i) ==
  LET c == s.carried[n][i]
  IN  /\ at[c] = n /\ s.call[c].id = i /\ s.call[c].closed = FALSE
      /\ s.call[c].pc \in {"opening", "attached"}

\* What was never opened.
Unused(r, q) == r.closed = FALSE /\ r.queue = <<>> /\ q.sock = "none"

\* The part of the state that the carrier's handlers work on.
Carrier == [wire : [Nodes -> Seq(Frames)], carried : [Nodes -> Sessions],
            call : [Calls -> CallRec], client : [Calls -> ClientRec]]
Carries(s) ==
  /\ s \in Carrier
  /\ \A n \in Nodes :
       /\ IsFiniteSet(DOMAIN s.carried[n]) /\ Cardinality(DOMAIN s.carried[n]) <= MaxSessions
       /\ \A i \in DOMAIN s.carried[n] : Slot(s, n, i)
  /\ \A c \in Calls : /\ Len(s.call[c].queue) <= MaxBuffered
                      /\ s.call[c].pc = "idle" => Unused(s.call[c], s.client[c])

RestType ==
  /\ link \subseteq Nodes /\ at \in [Calls -> Nodes] /\ next \in [Nodes -> Nat]
  /\ hosted \in [Nodes -> Sessions] /\ host \in [Calls -> HostRec]

RelayInv == Carries(State) /\ RestType

-----------------------------------------------------------------------------
(* Session maps, frames and the wire.                                      *)

LEMMA OtherNode ==
  ASSUME NEW n \in Nodes
  PROVE  Other(n) \in Nodes /\ Other(n) # n /\ Other(Other(n)) = n /\ \A m \in Nodes : m = n \/ m = Other(n)
  BY RelayConstants DEF Nodes, Other

LEMMA EmptySessions == Empty \in Sessions /\ DOMAIN Empty = {}
<1>1. DOMAIN Empty = {}
  BY DEF Empty
<1>2. Empty \in [{} -> Calls]
  BY DEF Empty
<1>3. {} \in SUBSET Nat
  OBVIOUS
<1> QED
  BY <1>1, <1>2, <1>3 DEF Sessions

LEMMA SessionsType ==
  ASSUME NEW f \in Sessions
  PROVE  DOMAIN f \subseteq Nat /\ \A i \in DOMAIN f : f[i] \in Calls
  BY DEF Sessions

LEMMA WithSessions ==
  ASSUME NEW f \in Sessions, NEW i \in Nat, NEW c \in Calls
  PROVE  /\ With(f, i, c) \in Sessions /\ DOMAIN With(f, i, c) = DOMAIN f \cup {i}
         /\ With(f, i, c)[i] = c /\ \A j \in DOMAIN f : j # i => With(f, i, c)[j] = f[j]
<1>1. With(f, i, c) \in [DOMAIN f \cup {i} -> Calls]
  BY SessionsType DEF With
<1>2. DOMAIN f \cup {i} \in SUBSET Nat
  BY SessionsType
<1>3. With(f, i, c) \in Sessions
  BY <1>1, <1>2 DEF Sessions
<1> QED
  BY <1>3 DEF With

LEMMA WithoutSessions ==
  ASSUME NEW f \in Sessions, NEW i \in Nat
  PROVE  /\ Without(f, i) \in Sessions /\ DOMAIN Without(f, i) = DOMAIN f \ {i}
         /\ \A j \in DOMAIN f \ {i} : Without(f, i)[j] = f[j]
<1>1. Without(f, i) \in [DOMAIN f \ {i} -> Calls]
  BY SessionsType DEF Without
<1>2. DOMAIN f \ {i} \in SUBSET Nat
  BY SessionsType
<1>3. Without(f, i) \in Sessions
  BY <1>1, <1>2 DEF Sessions
<1> QED
  BY <1>3 DEF Without

LEMMA FrameType ==
  ASSUME NEW op \in Ops, NEW id \in Nat, NEW c \in Calls, NEW msg \in Msgs
  PROVE  Frame(op, id, c, msg) \in Frames
  BY DEF Frame, Frames

LEMMA MessageType ==
  ASSUME NEW c \in Calls, NEW k \in Nat
  PROVE  /\ Up(c) \in Pipes /\ Down(c) \in Pipes /\ NoMsg \in Msgs
         /\ Message(Up(c), k) \in Msgs /\ Message(Down(c), k) \in Msgs
  BY DEF Up, Down, Pipes, Msgs, Message

LEMMA EntryType ==
  ASSUME NEW c \in Calls, NEW msg \in Msgs
  PROVE  Entry(Down(c), msg) \in Entries /\ Entry(Up(c), msg) \in Entries
  BY MessageType DEF Entry, Entries

LEMMA NoneWaiting == <<>> \in Seq(Msgs) /\ <<>> \in Seq(Entries) /\ Len(<<>>) = 0
  OBVIOUS

LEMMA SendsType ==
  ASSUME NEW w \in [Nodes -> Seq(Frames)], NEW n \in Nodes, NEW f \in Frames
  PROVE  Sends(w, n, f) \in [Nodes -> Seq(Frames)]
  BY OtherNode DEF Sends

LEMMA TailType ==
  ASSUME NEW w \in [Nodes -> Seq(Frames)], NEW n \in Nodes, w[n] # <<>>
  PROVE  /\ [w EXCEPT ![n] = Tail(@)] \in [Nodes -> Seq(Frames)]
         /\ Head(w[n]) \in Frames
  OBVIOUS

-----------------------------------------------------------------------------
(* The carrier's handlers.                                                 *)

LEMMA CarrierFields ==
  ASSUME NEW s \in Carrier
  PROVE  /\ s.wire \in [Nodes -> Seq(Frames)] /\ s.carried \in [Nodes -> Sessions]
         /\ s.call \in [Calls -> CallRec] /\ s.client \in [Calls -> ClientRec]
  BY DEF Carrier

\* What _closeCarried leaves.
LEMMA CloseCarriedIs ==
  ASSUME NEW s \in Carrier, NEW c \in Calls, s.call[c].closed = FALSE, at \in [Calls -> Nodes]
  PROVE  LET t == CloseCarried(s, c)
         IN  /\ t \in Carrier
             /\ t.call = [s.call EXCEPT ![c] = [s.call[c] EXCEPT !.closed = TRUE, !.queue = <<>>, !.inbox = <<>>]]
             /\ t.carried = [s.carried EXCEPT ![at[c]] = Without(s.carried[at[c]], s.call[c].id)]
             /\ t.wire = Sends(s.wire, at[c], Frame("CLOSE", s.call[c].id, c, NoMsg))
             /\ t.client = [s.client EXCEPT ![c] = [s.client[c] EXCEPT !.sock =
                              IF s.client[c].sock = "open" THEN "gone" ELSE s.client[c].sock]]
<1> DEFINE t == CloseCarried(s, c)
           calls == [s.call EXCEPT ![c] = [s.call[c] EXCEPT !.closed = TRUE, !.queue = <<>>, !.inbox = <<>>]]
           maps == [s.carried EXCEPT ![at[c]] = Without(s.carried[at[c]], s.call[c].id)]
           frames == Sends(s.wire, at[c], Frame("CLOSE", s.call[c].id, c, NoMsg))
           socks == [s.client EXCEPT ![c] = [s.client[c] EXCEPT !.sock =
                       IF s.client[c].sock = "open" THEN "gone" ELSE s.client[c].sock]]
<1>1. t = [s EXCEPT !.call = calls, !.carried = maps, !.wire = frames, !.client = socks]
  BY DEF CloseCarried, Carrier
<1>2. calls \in [Calls -> CallRec] /\ socks \in [Calls -> ClientRec]
  <2>0. s.call[c] \in CallRec /\ s.client[c] \in ClientRec
    BY CarrierFields
  <2>1. [s.call[c] EXCEPT !.closed = TRUE, !.queue = <<>>, !.inbox = <<>>] \in CallRec
    BY <2>0, NoneWaiting DEF CallRec
  <2>2. [s.client[c] EXCEPT !.sock = IF s.client[c].sock = "open" THEN "gone" ELSE s.client[c].sock] \in ClientRec
    BY <2>0 DEF ClientRec
  <2> QED
    BY <2>1, <2>2, CarrierFields
<1>3. maps \in [Nodes -> Sessions]
  <2>1. s.call[c].id \in Nat
    BY CarrierFields DEF CallRec
  <2> QED
    BY <2>1, CarrierFields, WithoutSessions
<1>4. frames \in [Nodes -> Seq(Frames)]
  <2>1. Frame("CLOSE", s.call[c].id, c, NoMsg) \in Frames
    BY CarrierFields, FrameType, MessageType DEF Ops, CallRec
  <2> QED
    BY <2>1, CarrierFields, SendsType
<1> HIDE DEF calls, maps, frames, socks, t
<1>5. t \in Carrier /\ t.call = calls /\ t.carried = maps /\ t.wire = frames /\ t.client = socks
  BY <1>1, <1>2, <1>3, <1>4 DEF Carrier
<1> QED
  BY <1>5 DEF calls, maps, frames, socks, t

\* A handler works for one session.
Others(s, t, c) == \A d \in Calls : d # c => t.call[d] = s.call[d] /\ t.client[d] = s.client[d]

\* A handler that leaves the sessions where they are.
LEMMA CarriesStill ==
  ASSUME NEW s, Carries(s), NEW t \in Carrier, NEW c \in Calls,
         t.carried = s.carried, Others(s, t, c), t.call[c].pc # "idle",
         t.call[c].id = s.call[c].id, t.call[c].closed = s.call[c].closed,
         s.call[c].pc \in {"opening", "attached"} => t.call[c].pc \in {"opening", "attached"},
         Len(t.call[c].queue) <= MaxBuffered
  PROVE  Carries(t)
<1>1. ASSUME NEW n \in Nodes, NEW i \in DOMAIN t.carried[n] PROVE Slot(t, n, i)
  <2>1. t.carried[n][i] \in Calls
    BY <1>1, CarrierFields, SessionsType
  <2>2. Slot(s, n, i)
    BY <1>1 DEF Carries, Others
  <2> QED
    BY <2>1, <2>2 DEF Slot, Others
<1> QED
  BY <1>1 DEF Carries, Others

\* No slot is new, and none is c's.
Fewer(s, t, c) ==
  \A n \in Nodes : /\ DOMAIN t.carried[n] \subseteq DOMAIN s.carried[n]
                   /\ \A i \in DOMAIN t.carried[n] : t.carried[n][i] = s.carried[n][i] /\ t.carried[n][i] # c

\* One that changes a session no slot is left to.
LEMMA CarriesFewer ==
  ASSUME NEW s, Carries(s), NEW t \in Carrier, NEW c \in Calls,
         Fewer(s, t, c), Others(s, t, c), t.call[c].pc # "idle",
         Len(t.call[c].queue) <= MaxBuffered
  PROVE  Carries(t)
<1>1. ASSUME NEW n \in Nodes
      PROVE  /\ IsFiniteSet(DOMAIN t.carried[n]) /\ Cardinality(DOMAIN t.carried[n]) <= MaxSessions
             /\ \A i \in DOMAIN t.carried[n] : Slot(t, n, i)
  <2>1. IsFiniteSet(DOMAIN s.carried[n]) /\ Cardinality(DOMAIN s.carried[n]) <= MaxSessions
    BY DEF Carries
  <2>2. /\ IsFiniteSet(DOMAIN t.carried[n])
        /\ Cardinality(DOMAIN t.carried[n]) <= Cardinality(DOMAIN s.carried[n])
    BY <2>1, FS_Subset DEF Fewer
  <2>3. Cardinality(DOMAIN t.carried[n]) \in Nat /\ Cardinality(DOMAIN s.carried[n]) \in Nat
    BY <2>1, <2>2, FS_CardinalityType
  <2>4. ASSUME NEW i \in DOMAIN t.carried[n] PROVE Slot(t, n, i)
    <3>1. t.carried[n][i] \in Calls
      BY CarrierFields, SessionsType
    <3>2. Slot(s, n, i)
      BY DEF Carries, Fewer
    <3> QED
      BY <3>1, <3>2 DEF Slot, Fewer, Others
  <2> QED
    BY <2>1, <2>2, <2>3, <2>4, RelayConstants
<1> QED
  BY <1>1 DEF Carries, Others

\* And one that ends a session.
LEMMA CarriesLess ==
  ASSUME NEW s, Carries(s), NEW t \in Carrier, NEW c \in Calls, at \in [Calls -> Nodes],
         t.carried = [s.carried EXCEPT ![at[c]] = Without(s.carried[at[c]], s.call[c].id)],
         Others(s, t, c), t.call[c].pc # "idle",
         Len(t.call[c].queue) <= MaxBuffered
  PROVE  Carries(t)
<1>0. s \in Carrier /\ at[c] \in Nodes /\ s.call[c].id \in Nat /\ s.carried \in [Nodes -> Sessions]
  BY CarrierFields DEF Carries, CallRec
<1>1. ASSUME NEW n \in Nodes
      PROVE  /\ DOMAIN t.carried[n] \subseteq DOMAIN s.carried[n]
             /\ \A i \in DOMAIN t.carried[n] : t.carried[n][i] = s.carried[n][i] /\ t.carried[n][i] # c
  <2>1. CASE n # at[c]
    <3>1. t.carried[n] = s.carried[n]
      BY <2>1, <1>0
    <3> QED
      BY <2>1, <3>1 DEF Carries, Slot
  <2>2. CASE n = at[c]
    <3> DEFINE f == s.carried[n]
               g == Without(f, s.call[c].id)
    <3>1. t.carried[n] = g /\ f \in Sessions
      BY <2>2, <1>0
    <3>2. DOMAIN g = DOMAIN f \ {s.call[c].id}
      BY <1>0, <3>1, WithoutSessions
    <3>3. \A i \in DOMAIN f \ {s.call[c].id} : g[i] = f[i]
      BY <1>0, <3>1, WithoutSessions
    <3>4. \A i \in DOMAIN f : f[i] = c => i = s.call[c].id
      BY DEF Carries, Slot
    <3> HIDE DEF g
    <3> QED
      BY <3>1, <3>2, <3>3, <3>4
  <2> QED
    BY <2>1, <2>2
<1>2. Fewer(s, t, c)
  BY <1>1 DEF Fewer
<1> QED
  BY <1>2, CarriesFewer

LEMMA CloseCarriedKeeps ==
  ASSUME NEW s, Carries(s), NEW c \in Calls, s.call[c].pc # "idle", at \in [Calls -> Nodes]
  PROVE  Carries(CloseCarried(s, c))
<1>0. s \in Carrier /\ s.call[c] \in CallRec
  BY CarrierFields DEF Carries
<1>1. CASE s.call[c].closed
  BY <1>1 DEF CloseCarried
<1>2. CASE s.call[c].closed = FALSE
  <2> DEFINE t == CloseCarried(s, c)
  <2>1. /\ t \in Carrier
        /\ t.call = [s.call EXCEPT ![c] = [s.call[c] EXCEPT !.closed = TRUE, !.queue = <<>>, !.inbox = <<>>]]
        /\ t.carried = [s.carried EXCEPT ![at[c]] = Without(s.carried[at[c]], s.call[c].id)]
        /\ t.client = [s.client EXCEPT ![c] = [s.client[c] EXCEPT !.sock =
                         IF s.client[c].sock = "open" THEN "gone" ELSE s.client[c].sock]]
    BY <1>0, <1>2, CloseCarriedIs
  <2> HIDE DEF t
  <2>2. Others(s, t, c)
    BY <1>0, <2>1, CarrierFields DEF Others
  <2>3. t.call[c].queue = <<>> /\ t.call[c].pc = s.call[c].pc
    BY <1>0, <2>1, CarrierFields DEF CallRec
  <2>4. Len(t.call[c].queue) <= MaxBuffered
    BY <2>3, NoneWaiting, RelayConstants
  <2> QED
    BY <2>1, <2>2, <2>3, <2>4, CarriesLess DEF t
<1> QED
  BY <1>0, <1>1, <1>2 DEF CallRec

\* What _forward leaves of a session that has room.
\* All but the queue.
Same(r, q) ==
  r.pc = q.pc /\ r.id = q.id /\ r.answer = q.answer /\ r.closed = q.closed /\ r.inbox = q.inbox

LEMMA ForwardIs ==
  ASSUME NEW s \in Carrier, NEW c \in Calls, NEW new \in Seq(Entries),
         s.call[c].closed = FALSE, ~(Len(s.call[c].queue) + Len(new) > MaxBuffered)
  PROVE  LET t == Forward(s, c, new)
         IN  /\ t \in Carrier /\ t.wire = s.wire /\ t.carried = s.carried /\ t.client = s.client
             /\ \A d \in Calls : d # c => t.call[d] = s.call[d]
             /\ Same(t.call[c], s.call[c]) /\ t.call[c].queue = s.call[c].queue \o new
<1> DEFINE t == Forward(s, c, new)
           calls == [s.call EXCEPT ![c] = [s.call[c] EXCEPT !.queue = s.call[c].queue \o new]]
<1>2. t = [s EXCEPT !.call = calls]
  BY DEF Forward, Carrier
<1>3. calls \in [Calls -> CallRec]
  <2>1. s.call[c] \in CallRec /\ s.call \in [Calls -> CallRec]
    BY CarrierFields
  <2>2. s.call[c].queue \o new \in Seq(Entries)
    BY <2>1 DEF CallRec
  <2>3. [s.call[c] EXCEPT !.queue = s.call[c].queue \o new] \in CallRec
    BY <2>1, <2>2 DEF CallRec
  <2> QED
    BY <2>1, <2>3
<1> HIDE DEF calls, t
<1>4. t \in Carrier /\ t.call = calls /\ t.wire = s.wire /\ t.carried = s.carried /\ t.client = s.client
  BY <1>2, <1>3 DEF Carrier
<1>5. \A d \in Calls : d # c => calls[d] = s.call[d]
  BY CarrierFields DEF calls
<1>6. Same(calls[c], s.call[c]) /\ calls[c].queue = s.call[c].queue \o new
  <2>1. s.call[c] \in CallRec /\ s.call \in [Calls -> CallRec]
    BY CarrierFields
  <2>2. calls[c] = [s.call[c] EXCEPT !.queue = s.call[c].queue \o new]
    BY <2>1 DEF calls
  <2> QED
    BY <2>1, <2>2 DEF CallRec, Same
<1> QED
  BY <1>4, <1>5, <1>6 DEF t

LEMMA ForwardKeeps ==
  ASSUME NEW s, Carries(s), NEW c \in Calls, s.call[c].pc # "idle",
         NEW new \in Seq(Entries), at \in [Calls -> Nodes]
  PROVE  Carries(Forward(s, c, new))
<1>0. s \in Carrier /\ s.call[c] \in CallRec
  BY CarrierFields DEF Carries
<1>1. CASE s.call[c].closed
  BY <1>1 DEF Forward
<1>2. CASE s.call[c].closed = FALSE /\ Len(s.call[c].queue) + Len(new) > MaxBuffered
  BY <1>2, CloseCarriedKeeps DEF Forward
<1>3. CASE s.call[c].closed = FALSE /\ ~(Len(s.call[c].queue) + Len(new) > MaxBuffered)
  <2> DEFINE t == Forward(s, c, new)
  <2> HIDE DEF t
  <2>1. /\ t \in Carrier /\ t.carried = s.carried /\ t.client = s.client
        /\ \A d \in Calls : d # c => t.call[d] = s.call[d]
        /\ Same(t.call[c], s.call[c]) /\ t.call[c].queue = s.call[c].queue \o new
    BY <1>0, <1>3, ForwardIs DEF t
  <2>5. Len(s.call[c].queue \o new) = Len(s.call[c].queue) + Len(new)
    <3>1. s.call[c].queue \in Seq(Entries)
      BY <1>0 DEF CallRec
    <3> QED
      BY <3>1, ConcatProperties
  <2>6. Len(t.call[c].queue) <= MaxBuffered
    <3>1. Len(s.call[c].queue) \in Nat /\ Len(new) \in Nat /\ MaxBuffered \in Nat
      BY <1>0, RelayConstants DEF CallRec
    <3> QED
      BY <1>3, <2>1, <2>5, <3>1
  <2> QED
    <3>1. Others(s, t, c)
      BY <2>1 DEF Others
    <3> QED
      BY <2>1, <2>6, <3>1, CarriesStill DEF t, Same
<1> QED
  BY <1>0, <1>1, <1>2, <1>3 DEF CallRec

LEMMA StateFields ==
  ASSUME Carries(State)
  PROVE  /\ State \in Carrier /\ State.wire = wire /\ State.carried = carried
         /\ State.call = call /\ State.client = client
         /\ wire \in [Nodes -> Seq(Frames)] /\ carried \in [Nodes -> Sessions]
         /\ call \in [Calls -> CallRec] /\ client \in [Calls -> ClientRec]
         /\ \A c \in Calls : call[c] \in CallRec /\ client[c] \in ClientRec
<1>1. State \in Carrier
  BY DEF Carries
<1>2. State.wire = wire /\ State.carried = carried /\ State.call = call /\ State.client = client
  BY DEF State
<1> QED
  BY <1>1, <1>2, CarrierFields

LEMMA ToClientKeeps ==
  ASSUME NEW s, Carries(s), NEW c \in Calls, s.call[c].pc # "idle", NEW frame \in Frames, at \in [Calls -> Nodes]
  PROVE  Carries(ToClient(s, c, frame))
<1>0. s \in Carrier /\ s.call[c] \in CallRec /\ s.call \in [Calls -> CallRec]
  BY CarrierFields DEF Carries
<1>1. CASE frame.op \in {"ACCEPT", "REFUSE"}
  <2> DEFINE a == IF s.call[c].answer # "none" \/ s.call[c].closed THEN s.call[c].answer
                  ELSE IF frame.op = "ACCEPT" THEN "accept" ELSE "decline"
             r == [s.call[c] EXCEPT !.answer = a]
             t == [s EXCEPT !.call = [s.call EXCEPT ![c] = r]]
  <2>1. ToClient(s, c, frame) = t
    BY <1>0, <1>1 DEF ToClient, Carrier, CallRec
  <2>2. /\ r \in CallRec /\ r.id = s.call[c].id /\ r.closed = s.call[c].closed
        /\ r.pc = s.call[c].pc /\ r.queue = s.call[c].queue
    BY <1>0 DEF CallRec
  <2> HIDE DEF r
  <2>3. t \in Carrier /\ t.carried = s.carried /\ t.client = s.client /\ t.call = [s.call EXCEPT ![c] = r]
    BY <1>0, <2>2 DEF Carrier
  <2> HIDE DEF t
  <2>4. t.call[c] = r /\ \A d \in Calls : d # c => t.call[d] = s.call[d]
    BY <1>0, <2>3
  <2>5. Len(t.call[c].queue) <= MaxBuffered
    BY <2>2, <2>4 DEF Carries
  <2>6. Others(s, t, c)
    BY <2>3, <2>4 DEF Others
  <2>7. Carries(t)
    BY <2>2, <2>3, <2>4, <2>5, <2>6, CarriesStill
  <2> QED
    BY <2>1, <2>7
<1>2. CASE frame.op = "CLOSE"
  BY <1>2, CloseCarriedKeeps DEF ToClient
<1>3. CASE frame.op \notin {"ACCEPT", "REFUSE", "CLOSE"} /\ s.call[c].pc # "attached"
  <2> DEFINE e == Entry(Down(c), frame.msg)
             r == [s.call[c] EXCEPT !.inbox = Append(s.call[c].inbox, e)]
             t == [s EXCEPT !.call = [s.call EXCEPT ![c] = r]]
  <2>1. ToClient(s, c, frame) = t
    BY <1>0, <1>3 DEF ToClient, Carrier, CallRec
  <2>2. /\ r \in CallRec /\ r.id = s.call[c].id /\ r.closed = s.call[c].closed
        /\ r.pc = s.call[c].pc /\ r.queue = s.call[c].queue
    <3>1. s.call[c].inbox \in Seq(Entries) /\ e \in Entries
      BY <1>0, EntryType DEF CallRec, Frames
    <3> HIDE DEF e
    <3>2. Append(s.call[c].inbox, e) \in Seq(Entries)
      BY <3>1
    <3> QED
      BY <1>0, <3>2 DEF CallRec
  <2> HIDE DEF r
  <2>3. t \in Carrier /\ t.carried = s.carried /\ t.client = s.client /\ t.call = [s.call EXCEPT ![c] = r]
    BY <1>0, <2>2 DEF Carrier
  <2> HIDE DEF t
  <2>4. t.call[c] = r /\ \A d \in Calls : d # c => t.call[d] = s.call[d]
    BY <1>0, <2>3
  <2>5. Len(t.call[c].queue) <= MaxBuffered
    BY <2>2, <2>4 DEF Carries
  <2>6. Others(s, t, c)
    BY <2>3, <2>4 DEF Others
  <2>7. Carries(t)
    BY <2>2, <2>3, <2>4, <2>5, <2>6, CarriesStill
  <2> QED
    BY <2>1, <2>7
<1>4. CASE frame.op \notin {"ACCEPT", "REFUSE", "CLOSE"} /\ s.call[c].pc = "attached"
  <2>1. <<Entry(Down(c), frame.msg)>> \in Seq(Entries)
    BY EntryType DEF Frames
  <2> QED
    BY <1>4, <2>1, ForwardKeeps DEF ToClient
<1> QED
  BY <1>1, <1>2, <1>3, <1>4

\* The session in hand changes, and its client may.
LEMMA Changes ==
  ASSUME NEW s, Carries(s), NEW c \in Calls, NEW r \in CallRec, NEW q \in ClientRec,
         r.id = s.call[c].id, r.closed = s.call[c].closed,
         s.call[c].pc \in {"opening", "attached"} => r.pc \in {"opening", "attached"},
         r.pc # "idle", Len(r.queue) <= MaxBuffered
  PROVE  Carries([s EXCEPT !.call = [s.call EXCEPT ![c] = r], !.client = [s.client EXCEPT ![c] = q]])
<1> DEFINE t == [s EXCEPT !.call = [s.call EXCEPT ![c] = r], !.client = [s.client EXCEPT ![c] = q]]
<1>0. s \in Carrier /\ s.call \in [Calls -> CallRec] /\ s.client \in [Calls -> ClientRec]
  BY CarrierFields DEF Carries
<1>1. /\ t \in Carrier /\ t.carried = s.carried /\ t.call = [s.call EXCEPT ![c] = r]
      /\ t.client = [s.client EXCEPT ![c] = q]
  BY <1>0 DEF Carrier
<1> HIDE DEF t
<1>2. t.call[c] = r /\ Others(s, t, c)
  BY <1>0, <1>1 DEF Others
<1>3. Carries(t)
  BY <1>1, <1>2, CarriesStill
<1> QED
  BY <1>3 DEF t

LEMMA AttachesKeeps ==
  ASSUME Carries(State), NEW c \in Calls, at \in [Calls -> Nodes]
  PROVE  Carries(Attaches(c))
<1>0. /\ State \in Carrier /\ State.call = call /\ State.client = client
      /\ call[c] \in CallRec /\ client[c] \in ClientRec /\ call \in [Calls -> CallRec] /\ client \in [Calls -> ClientRec]
  BY StateFields
<1>1. Len(call[c].queue) <= MaxBuffered
  BY <1>0 DEF Carries
<1>2. CASE client[c].sock = "gone"
  <2> DEFINE r == [call[c] EXCEPT !.pc = "attached"]
             t == [State EXCEPT !.call = [State.call EXCEPT ![c] = r],
                                !.client = [State.client EXCEPT ![c] = client[c]]]
  <2>1. [State EXCEPT !.call[c].pc = "attached"] = t
    BY <1>0 DEF State
  <2>2. r \in CallRec /\ r.id = call[c].id /\ r.closed = call[c].closed /\ r.pc = "attached" /\ r.queue = call[c].queue
    BY <1>0 DEF CallRec
  <2> HIDE DEF r
  <2>3. Carries(t) /\ t.call[c].pc = "attached"
    <3>1. Carries(t)
      BY <1>0, <1>1, <2>2, Changes
    <3>2. t.call = [call EXCEPT ![c] = r]
      BY <1>0 DEF State
    <3> QED
      BY <1>0, <2>2, <3>1, <3>2
  <2> HIDE DEF t
  <2> QED
    BY <1>2, <2>1, <2>3, CloseCarriedKeeps DEF Attaches
<1>3. CASE client[c].sock # "gone" /\ call[c].closed
  <2> DEFINE r == [call[c] EXCEPT !.pc = "attached"]
             q == [client[c] EXCEPT !.sock = "gone"]
             t == [State EXCEPT !.call = [State.call EXCEPT ![c] = r], !.client = [State.client EXCEPT ![c] = q]]
  <2>1. [State EXCEPT !.call[c].pc = "attached", !.client[c].sock = "gone"] = t
    BY <1>0 DEF State
  <2>2. r \in CallRec /\ r.id = call[c].id /\ r.closed = call[c].closed /\ r.pc = "attached" /\ r.queue = call[c].queue
    BY <1>0 DEF CallRec
  <2>3. q \in ClientRec
    BY <1>0 DEF ClientRec
  <2> HIDE DEF r, q
  <2>4. Carries(t)
    BY <1>0, <1>1, <2>2, <2>3, Changes
  <2> HIDE DEF t
  <2> QED
    BY <1>3, <2>1, <2>4 DEF Attaches
<1>4. CASE client[c].sock # "gone" /\ ~call[c].closed
  <2> DEFINE r == [call[c] EXCEPT !.pc = "attached", !.inbox = <<>>]
             q == [client[c] EXCEPT !.sock = "open"]
             t == [State EXCEPT !.call = [State.call EXCEPT ![c] = r], !.client = [State.client EXCEPT ![c] = q]]
  <2>1. [State EXCEPT !.call[c].pc = "attached", !.call[c].inbox = <<>>, !.client[c].sock = "open"] = t
    BY <1>0 DEF State
  <2>2. r \in CallRec /\ r.id = call[c].id /\ r.closed = call[c].closed /\ r.pc = "attached" /\ r.queue = call[c].queue
    BY <1>0, NoneWaiting DEF CallRec
  <2>3. q \in ClientRec
    BY <1>0 DEF ClientRec
  <2> HIDE DEF r, q
  <2>4. Carries(t) /\ t.call[c].pc = "attached"
    <3>1. Carries(t)
      BY <1>0, <1>1, <2>2, <2>3, Changes
    <3>2. t.call = [call EXCEPT ![c] = r]
      BY <1>0 DEF State
    <3> QED
      BY <1>0, <2>2, <3>1, <3>2
  <2> HIDE DEF t
  <2>5. call[c].inbox \in Seq(Entries)
    BY <1>0 DEF CallRec
  <2>6. Attaches(c) = Forward(t, c, call[c].inbox)
    BY <1>4, <2>1 DEF Attaches
  <2> QED
    BY <2>4, <2>5, <2>6, ForwardKeeps
<1> QED
  BY <1>2, <1>3, <1>4

-----------------------------------------------------------------------------
(* The steps.                                                              *)

LEMMA InitRelay == Init => RelayInv
<1> SUFFICES ASSUME Init PROVE RelayInv
  OBVIOUS
<1>1. at \in [Calls -> Nodes] /\ link \subseteq Nodes
  BY RelayConstants DEF Init
<1>2. next \in [Nodes -> Nat]
  BY DEF Init, FirstSession
<1>3. carried = [n \in Nodes |-> Empty] /\ hosted = [n \in Nodes |-> Empty]
  BY DEF Init
<1>4. carried \in [Nodes -> Sessions] /\ hosted \in [Nodes -> Sessions]
  BY <1>3, EmptySessions
<1>5. wire \in [Nodes -> Seq(Frames)]
  <2>1. wire = [n \in Nodes |-> <<>>]
    BY DEF Init
  <2> QED
    BY <2>1
<1>6. call \in [Calls -> CallRec] /\ \A c \in Calls : call[c].queue = <<>> /\ call[c].closed = FALSE
  <2>1. call = [c \in Calls |-> [pc |-> "idle", id |-> 0, answer |-> "none", closed |-> FALSE,
                                 inbox |-> <<>>, queue |-> <<>>]]
    BY DEF Init
  <2> QED
    BY <2>1, NoneWaiting DEF CallRec
<1>7. client \in [Calls -> ClientRec] /\ \A c \in Calls : client[c].sock = "none"
  <2>1. client = [c \in Calls |-> [sock |-> "none", sent |-> 0, got |-> <<>>]]
    BY DEF Init
  <2> QED
    BY <2>1, NoneWaiting DEF ClientRec
<1>8. host \in [Calls -> HostRec]
  <2>1. host = [c \in Calls |-> [pc |-> "none", open |-> FALSE, id |-> 0, sent |-> 0, got |-> <<>>]]
    BY DEF Init
  <2> QED
    BY <2>1, NoneWaiting DEF HostRec
<1>9. State \in Carrier /\ State.carried = carried /\ State.call = call /\ State.client = client
  BY <1>4, <1>5, <1>6, <1>7 DEF State, Carrier
<1>10. \A n \in Nodes : DOMAIN carried[n] = {}
  BY <1>3, EmptySessions
<1>11. Carries(State)
  <2>1. IsFiniteSet({}) /\ Cardinality({}) = 0
    BY FS_EmptySet
  <2>2. \A c \in Calls : Len(call[c].queue) <= MaxBuffered
    BY <1>6, NoneWaiting, RelayConstants
  <2>3. ASSUME NEW n \in Nodes
        PROVE  /\ DOMAIN State.carried[n] = {} /\ IsFiniteSet(DOMAIN State.carried[n])
               /\ Cardinality(DOMAIN State.carried[n]) <= MaxSessions
    <3>1. DOMAIN State.carried[n] = {}
      BY <1>9, <1>10
    <3>2. 0 <= MaxSessions
      BY RelayConstants
    <3> QED
      BY <2>1, <3>1, <3>2
  <2> QED
    BY <1>6, <1>7, <1>9, <2>2, <2>3 DEF Carries, Unused
<1> QED
  BY <1>1, <1>2, <1>4, <1>8, <1>11 DEF RelayInv, RestType

\* The primed state is the one the handler made.
LEMMA BecomesKeeps ==
  ASSUME NEW s, Carries(s), Becomes(s), UNCHANGED at
  PROVE  Carries(State)'
<1>1. s \in Carrier
  BY DEF Carries
<1>2. State' = s
  BY <1>1 DEF Becomes, State, Carrier
<1> QED
  BY <1>2 DEF Carries, Slot

\* A step that is no handler's is one all the same.
LEMMA StepIs ==
  ASSUME wire' \in [Nodes -> Seq(Frames)], carried' \in [Nodes -> Sessions],
         call' \in [Calls -> CallRec], client' \in [Calls -> ClientRec]
  PROVE  /\ State' \in Carrier /\ State'.wire = wire' /\ State'.carried = carried'
         /\ State'.call = call' /\ State'.client = client'
  BY DEF State, Carrier

\* One that ends a session no slot is left to, or leaves all of them alone.
LEMMA StepKeeps ==
  ASSUME RelayInv, UNCHANGED at, NEW c \in Calls,
         wire' \in [Nodes -> Seq(Frames)], carried' \in [Nodes -> Sessions],
         call' \in [Calls -> CallRec], client' \in [Calls -> ClientRec],
         \A n \in Nodes : /\ DOMAIN carried'[n] \subseteq DOMAIN carried[n]
                          /\ \A i \in DOMAIN carried'[n] : carried'[n][i] = carried[n][i] /\ carried'[n][i] # c,
         \A d \in Calls : d # c => call'[d] = call[d] /\ client'[d] = client[d],
         call'[c].pc # "idle", Len(call'[c].queue) <= MaxBuffered
  PROVE  Carries(State)'
<1> DEFINE t == State'
<1>1. t \in Carrier /\ t.carried = carried' /\ t.call = call' /\ t.wire = wire' /\ t.client = client'
  BY StepIs
<1>2. Carries(State) /\ State.carried = carried /\ State.call = call /\ State.client = client
  BY StateFields DEF RelayInv
<1>3. Carries(t)
  <2> HIDE DEF t
  <2> QED
    <3>1. Fewer(State, t, c) /\ Others(State, t, c)
      BY <1>1, <1>2 DEF Fewer, Others
    <3> QED
      BY <1>1, <1>2, <3>1, CarriesFewer
<1>4. Becomes(t)
  BY <1>1 DEF Becomes
<1> QED
  BY <1>3, <1>4, BecomesKeeps

\* The state of the sessions is left alone.
LEMMA SameSessions ==
  ASSUME RelayInv, UNCHANGED <<at, carried, call, client>>, wire' \in [Nodes -> Seq(Frames)]
  PROVE  Carries(State)'
<1>1. /\ Carries(State) /\ State.carried = carried /\ State.call = call /\ State.client = client
      /\ carried \in [Nodes -> Sessions] /\ call \in [Calls -> CallRec] /\ client \in [Calls -> ClientRec]
  BY StateFields DEF RelayInv
<1>2. State' \in Carrier /\ State'.carried = carried /\ State'.call = call /\ State'.client = client
  BY <1>1, StepIs
<1> QED
  BY <1>1, <1>2 DEF Carries, Slot

\* A session in a slot has begun.
LEMMA IdleHasNoSlot ==
  ASSUME RelayInv, NEW c \in Calls, call[c].pc \notin {"opening", "attached"}
  PROVE  \A n \in Nodes : \A i \in DOMAIN carried[n] : carried[n][i] # c
<1>1. Carries(State) /\ State.carried = carried /\ State.call = call
  BY StateFields DEF RelayInv
<1>2. \A n \in Nodes : \A i \in DOMAIN carried[n] : Slot(State, n, i)
  BY <1>1 DEF Carries
<1> QED
  BY <1>1, <1>2 DEF Slot

LEMMA RefusedIs ==
  ASSUME RelayInv, NEW c \in Calls, Refused(c)
  PROVE  /\ call' \in [Calls -> CallRec] /\ client' \in [Calls -> ClientRec]
         /\ \A d \in Calls : d # c => call'[d] = call[d] /\ client'[d] = client[d]
         /\ call'[c].pc = "ended" /\ Len(call'[c].queue) <= MaxBuffered
<1>0. /\ call \in [Calls -> CallRec] /\ client \in [Calls -> ClientRec]
      /\ call[c] \in CallRec /\ client[c] \in ClientRec /\ Len(call[c].queue) <= MaxBuffered
  BY StateFields DEF RelayInv, Carries
<1>1. call' = [call EXCEPT ![c] = [call[c] EXCEPT !.pc = "ended", !.closed = TRUE]]
  BY <1>0 DEF Refused
<1>2. client' = [client EXCEPT ![c] = [client[c] EXCEPT !.sock = "gone"]]
  BY <1>0 DEF Refused
<1>3. /\ [call[c] EXCEPT !.pc = "ended", !.closed = TRUE] \in CallRec
      /\ [call[c] EXCEPT !.pc = "ended", !.closed = TRUE].queue = call[c].queue
      /\ [call[c] EXCEPT !.pc = "ended", !.closed = TRUE].pc = "ended"
  BY <1>0 DEF CallRec
<1>4. [client[c] EXCEPT !.sock = "gone"] \in ClientRec
  BY <1>0 DEF ClientRec
<1> QED
  BY <1>0, <1>1, <1>2, <1>3, <1>4

LEMMA ReserveKeeps ==
  ASSUME RelayInv, NEW c \in Calls, Reserve(c)
  PROVE  RelayInv'
<1>0. /\ Carries(State) /\ RestType /\ State \in Carrier /\ State.carried = carried /\ State.call = call
      /\ wire \in [Nodes -> Seq(Frames)] /\ carried \in [Nodes -> Sessions]
      /\ call \in [Calls -> CallRec] /\ client \in [Calls -> ClientRec]
      /\ call[c] \in CallRec /\ client[c] \in ClientRec
  BY StateFields DEF RelayInv
<1>1. \A n \in Nodes : \A i \in DOMAIN carried[n] : carried[n][i] # c
  BY IdleHasNoSlot DEF Reserve
<1>2. CASE Refused(c) /\ UNCHANGED <<wire, next, carried>>
  <2>1. Carries(State)'
    BY <1>0, <1>1, <1>2, RefusedIs, StepKeeps DEF Reserve
  <2> QED
    BY <1>0, <1>2, <2>1 DEF RelayInv, RestType, Reserve
<1>3. CASE HasRoom(at[c]) /\ at[c] \in link /\ Opens(c)
  <2> DEFINE n == at[c]
             f == carried[n]
             i == next[n]
  <2>1. n \in Nodes /\ i \in Nat /\ f \in Sessions /\ next \in [Nodes -> Nat]
    BY <1>0 DEF RestType
  <2>2. carried' = [carried EXCEPT ![n] = With(f, i, c)] /\ next' = [next EXCEPT ![n] = i + 2]
    BY <1>0, <1>3, <2>1 DEF Opens
  <2> HIDE DEF i, f
  <2>3. With(f, i, c) \in Sessions /\ DOMAIN With(f, i, c) = DOMAIN f \cup {i} /\ With(f, i, c)[i] = c
    BY <2>1, WithSessions
  <2>4. \A j \in DOMAIN f : j # i => With(f, i, c)[j] = f[j]
    BY <2>1, WithSessions
  <2>5. wire' \in [Nodes -> Seq(Frames)]
    <3>1. Frame("OPEN", i, c, NoMsg) \in Frames
      BY <2>1, FrameType, MessageType DEF Ops
    <3> QED
      BY <1>0, <1>3, <2>1, <3>1, SendsType DEF Opens, i
  <2>6. call' = [call EXCEPT ![c] = [call[c] EXCEPT !.pc = "opening", !.id = i]]
    BY <1>0, <1>3 DEF Opens, i
  <2>7. call' \in [Calls -> CallRec] /\ \A d \in Calls : d # c => call'[d] = call[d]
    <3>1. [call[c] EXCEPT !.pc = "opening", !.id = i] \in CallRec
      BY <1>0, <2>1 DEF CallRec
    <3> QED
      BY <1>0, <2>6, <3>1
  <2>8. call'[c].pc = "opening" /\ call'[c].id = i /\ call'[c].closed = call[c].closed /\ call'[c].queue = call[c].queue
    BY <1>0, <2>1, <2>6 DEF CallRec
  <2>9. client' \in [Calls -> ClientRec]
    <3>1. client' = [client EXCEPT ![c] = [client[c] EXCEPT !.sock = "waiting"]]
      BY <1>0, <1>3 DEF Opens
    <3>2. [client[c] EXCEPT !.sock = "waiting"] \in ClientRec
      BY <1>0 DEF ClientRec
    <3> QED
      BY <1>0, <3>1, <3>2
  <2>10. \A d \in Calls : d # c => client'[d] = client[d]
    BY <1>0, <1>3 DEF Opens
  <2>11. /\ State' \in Carrier /\ State'.carried = carried' /\ State'.call = call' /\ State'.client = client'
    BY <1>0, <2>2, <2>3, <2>5, <2>7, <2>9, StepIs
  <2>12. UNCHANGED at /\ call[c].closed = FALSE /\ Len(call'[c].queue) <= MaxBuffered
    BY <1>0, <2>8, StateFields DEF Reserve, Carries, Unused
  <2>13. ASSUME NEW m \in Nodes
         PROVE  /\ IsFiniteSet(DOMAIN carried'[m]) /\ Cardinality(DOMAIN carried'[m]) <= MaxSessions
                /\ \A j \in DOMAIN carried'[m] :
                     LET d == carried'[m][j]
                     IN  /\ at[d] = m /\ call'[d].id = j /\ call'[d].closed = FALSE
                         /\ call'[d].pc \in {"opening", "attached"}
    <3>1. /\ IsFiniteSet(DOMAIN carried[m]) /\ Cardinality(DOMAIN carried[m]) <= MaxSessions
          /\ \A j \in DOMAIN carried[m] : Slot(State, m, j)
      BY <1>0 DEF Carries
    <3>2. \A j \in DOMAIN carried[m] : /\ carried[m][j] \in Calls /\ carried[m][j] # c
                                       /\ call'[carried[m][j]] = call[carried[m][j]]
      BY <1>0, <1>1, <2>7, SessionsType
    <3>3. CASE m # n
      <4>1. carried'[m] = carried[m]
        BY <1>0, <2>1, <2>2, <3>3
      <4> QED
        BY <1>0, <3>1, <3>2, <4>1 DEF Slot
    <3>4. CASE m = n
      <4>1. carried'[m] = With(f, i, c) /\ f = carried[m]
        BY <1>0, <2>1, <2>2, <3>4 DEF f
      <4>2. Cardinality(DOMAIN f) \in Nat /\ Cardinality(DOMAIN f) < MaxSessions
        BY <1>3, <3>1, <3>4, <4>1, FS_CardinalityType DEF HasRoom
      <4>3. /\ IsFiniteSet(DOMAIN f \cup {i})
            /\ Cardinality(DOMAIN f \cup {i}) \in {Cardinality(DOMAIN f), Cardinality(DOMAIN f) + 1}
        BY <3>1, <4>1, FS_AddElement
      <4>4. Cardinality(DOMAIN f \cup {i}) <= MaxSessions
        BY <4>2, <4>3, RelayConstants
      <4>5. ASSUME NEW j \in DOMAIN carried'[m]
            PROVE  LET d == carried'[m][j]
                   IN  /\ at[d] = m /\ call'[d].id = j /\ call'[d].closed = FALSE
                       /\ call'[d].pc \in {"opening", "attached"}
        <5>1. CASE j = i
          BY <2>3, <2>8, <2>12, <3>4, <4>1, <5>1
        <5>2. CASE j # i
          <6>1. j \in DOMAIN f /\ carried'[m][j] = f[j]
            BY <2>3, <2>4, <4>1, <5>2
          <6> QED
            BY <1>0, <3>1, <3>2, <4>1, <6>1 DEF Slot
        <5> QED
          BY <5>1, <5>2
      <4> QED
        BY <2>3, <4>1, <4>3, <4>4, <4>5
    <3> QED
      BY <3>3, <3>4
  <2>14. \A d \in Calls : /\ Len(call'[d].queue) <= MaxBuffered
                          /\ call'[d].pc = "idle" => Unused(call'[d], client'[d])
    BY <1>0, <2>7, <2>8, <2>10, <2>12, StateFields DEF Carries
  <2>15. Carries(State)'
    BY <2>11, <2>12, <2>13, <2>14 DEF Carries, Slot, Unused
  <2>16. next' \in [Nodes -> Nat]
    BY <2>1, <2>2
  <2> QED
    BY <1>0, <2>12, <2>15, <2>16 DEF RelayInv, RestType, Reserve
<1> QED
  BY <1>2, <1>3 DEF Reserve

\* A step of the carrier that leaves the rest of the state alone.
LEMMA HandlerKeeps ==
  ASSUME RelayInv, NEW s, Carries(s), Becomes(s), UNCHANGED <<link, next, hosted, at, host>>
  PROVE  RelayInv'
<1>1. Carries(State)'
  BY BecomesKeeps
<1> QED
  BY <1>1 DEF RelayInv, RestType

LEMMA OpenTimesOutKeeps ==
  ASSUME RelayInv, NEW c \in Calls, OpenTimesOut(c)
  PROVE  RelayInv'
<1>0. /\ Carries(State) /\ State \in Carrier /\ State.call = call /\ State.client = client
      /\ State.wire = wire /\ State.carried = carried
      /\ call \in [Calls -> CallRec] /\ client \in [Calls -> ClientRec] /\ call[c] \in CallRec
      /\ client[c] \in ClientRec
  BY StateFields DEF RelayInv
<1> DEFINE r == [call[c] EXCEPT !.answer = "decline"]
           s == [State EXCEPT !.call = [State.call EXCEPT ![c] = r],
                              !.client = [State.client EXCEPT ![c] = client[c]]]
<1>1. r \in CallRec /\ r.id = call[c].id /\ r.closed = call[c].closed /\ r.pc = call[c].pc /\ r.queue = call[c].queue
  BY <1>0 DEF CallRec
<1>2. call' = [call EXCEPT ![c] = r] /\ UNCHANGED <<linkvars, at, client, host>> /\ call[c].pc = "opening"
  BY <1>0 DEF OpenTimesOut
<1> HIDE DEF r
<1>3. Len(call[c].queue) <= MaxBuffered
  BY <1>0 DEF Carries
<1>4. Carries(s)
  BY <1>0, <1>1, <1>2, <1>3, Changes
<1>5. Becomes(s)
  <2>1. s.wire = wire /\ s.carried = carried /\ s.call = [call EXCEPT ![c] = r] /\ s.client = [client EXCEPT ![c] = client[c]]
    BY <1>0 DEF State
  <2>2. [client EXCEPT ![c] = client[c]] = client
    BY <1>0
  <2> HIDE DEF s
  <2> QED
    BY <1>2, <2>1, <2>2 DEF Becomes, linkvars
<1> HIDE DEF s
<1> QED
  BY <1>2, <1>4, <1>5, HandlerKeeps DEF linkvars

LEMMA SettleKeeps ==
  ASSUME RelayInv, NEW c \in Calls, Settle(c)
  PROVE  RelayInv'
<1>0. /\ Carries(State) /\ State \in Carrier /\ State.call = call /\ State.client = client
      /\ State.carried = carried /\ RestType
      /\ wire \in [Nodes -> Seq(Frames)] /\ carried \in [Nodes -> Sessions]
      /\ call \in [Calls -> CallRec] /\ client \in [Calls -> ClientRec] /\ call[c] \in CallRec
  BY StateFields DEF RelayInv
<1>1. UNCHANGED <<link, next, hosted, at, host>> /\ at \in [Calls -> Nodes]
  BY <1>0 DEF Settle, RestType
<1>2. CASE /\ Refused(c) /\ UNCHANGED wire
           /\ carried' = [carried EXCEPT ![at[c]] = Without(@, call[c].id)]
  <2> DEFINE n == at[c]
             f == carried[n]
             i == call[c].id
  <2>1. n \in Nodes /\ f \in Sessions /\ i \in Nat
    BY <1>0, <1>1 DEF CallRec
  <2>2. carried' = [carried EXCEPT ![n] = Without(f, i)]
    BY <1>2
  <2>3. /\ call' \in [Calls -> CallRec] /\ client' \in [Calls -> ClientRec]
        /\ \A d \in Calls : d # c => call'[d] = call[d] /\ client'[d] = client[d]
        /\ call'[c].pc = "ended" /\ Len(call'[c].queue) <= MaxBuffered
    BY <1>2, RefusedIs
  <2>4. carried' \in [Nodes -> Sessions]
    BY <1>0, <2>1, <2>2, WithoutSessions
  <2> DEFINE t == State'
  <2>5. t \in Carrier /\ t.carried = carried' /\ t.call = call' /\ t.client = client' /\ t.wire = wire'
    BY <1>0, <1>2, <2>3, <2>4, StepIs
  <2> HIDE DEF t, f, i
  <2>6. Others(State, t, c)
    BY <1>0, <2>3, <2>5 DEF Others
  <2>7. t.carried = [State.carried EXCEPT ![at[c]] = Without(State.carried[at[c]], State.call[c].id)]
    BY <1>0, <2>2, <2>5 DEF f, i
  <2>8. Carries(t)
    BY <1>0, <1>1, <2>3, <2>5, <2>6, <2>7, CarriesLess
  <2>9. Becomes(t)
    BY <2>5 DEF Becomes
  <2> QED
    BY <1>1, <2>8, <2>9, HandlerKeeps
<1>3. CASE Becomes(Attaches(c))
  <2>1. Carries(Attaches(c))
    BY <1>0, <1>1, AttachesKeeps
  <2> QED
    BY <1>1, <1>3, <2>1, HandlerKeeps
<1> QED
  BY <1>2, <1>3 DEF Settle

LEMMA SendsKeeps ==
  ASSUME NEW s, Carries(s), NEW w \in [Nodes -> Seq(Frames)]
  PROVE  Carries([s EXCEPT !.wire = w])
<1> DEFINE t == [s EXCEPT !.wire = w]
<1>0. s \in Carrier
  BY DEF Carries
<1>1. t \in Carrier /\ t.carried = s.carried /\ t.call = s.call /\ t.client = s.client
  BY <1>0 DEF Carrier
<1> HIDE DEF t
<1>2. Carries(t)
  BY <1>1 DEF Carries, Slot
<1> QED
  BY <1>2 DEF t

LEMMA DrainKeeps ==
  ASSUME RelayInv, NEW c \in Calls, Drain(c)
  PROVE  RelayInv'
<1>0. /\ Carries(State) /\ State \in Carrier /\ State.call = call /\ State.client = client /\ State.wire = wire
      /\ RestType /\ wire \in [Nodes -> Seq(Frames)]
      /\ call \in [Calls -> CallRec] /\ client \in [Calls -> ClientRec]
      /\ call[c] \in CallRec /\ client[c] \in ClientRec
  BY StateFields DEF RelayInv
<1> DEFINE m == Head(call[c].queue)
           r == [call[c] EXCEPT !.queue = Tail(call[c].queue)]
           up == Sends(wire, at[c], Frame("DATA", call[c].id, c, m.msg))
           q == [client[c] EXCEPT !.got = Append(client[c].got, m.msg)]
           s(d) == [State EXCEPT !.call = [State.call EXCEPT ![c] = r], !.client = [State.client EXCEPT ![c] = d]]
           s1 == s(client[c])
           s2 == s(q)
<1>1. UNCHANGED <<link, next, hosted, at, host>> /\ at \in [Calls -> Nodes] /\ at[c] \in Nodes
  BY <1>0 DEF Drain, RestType
<1>2. /\ call[c].queue \in Seq(Entries) /\ call[c].queue # <<>> /\ Len(call[c].queue) <= MaxBuffered
      /\ call[c].pc # "idle"
  BY <1>0 DEF Drain, CallRec, Carries, Unused
<1>3. m \in Entries /\ Tail(call[c].queue) \in Seq(Entries) /\ Len(Tail(call[c].queue)) <= MaxBuffered
  <2>1. m \in Entries /\ Tail(call[c].queue) \in Seq(Entries) /\ Len(Tail(call[c].queue)) = Len(call[c].queue) - 1
    BY <1>2
  <2>2. Len(call[c].queue) \in Nat /\ MaxBuffered \in Nat
    BY <1>2, RelayConstants
  <2> QED
    BY <1>2, <2>1, <2>2
<1>4. m.msg \in Msgs
  BY <1>3 DEF Entries
<1> HIDE DEF m
<1>5. /\ r \in CallRec /\ r.id = call[c].id /\ r.closed = call[c].closed /\ r.pc = call[c].pc
      /\ Len(r.queue) <= MaxBuffered
  BY <1>0, <1>3 DEF CallRec
<1>6. q \in ClientRec
  <2>1. Append(client[c].got, m.msg) \in Seq(Msgs)
    BY <1>0, <1>4 DEF ClientRec
  <2> QED
    BY <1>0, <2>1 DEF ClientRec
<1>7. up \in [Nodes -> Seq(Frames)]
  <2>1. Frame("DATA", call[c].id, c, m.msg) \in Frames
    BY <1>0, <1>4, FrameType DEF Ops, CallRec
  <2> QED
    BY <1>0, <1>1, <2>1, SendsType
<1>8. CASE Becomes([s1 EXCEPT !.wire = up])
  <2> HIDE DEF r, up
  <2>1. Carries(s1)
    BY <1>0, <1>2, <1>5, Changes
  <2> HIDE DEF s1
  <2>2. Carries([s1 EXCEPT !.wire = up])
    BY <1>7, <2>1, SendsKeeps
  <2> QED
    BY <1>1, <1>8, <2>2, HandlerKeeps
<1>9. CASE Becomes(s2)
  <2> HIDE DEF r, q
  <2>1. Carries(s2)
    BY <1>0, <1>2, <1>5, <1>6, Changes
  <2> HIDE DEF s2
  <2> QED
    BY <1>1, <1>9, <2>1, HandlerKeeps
<1>10. Becomes([s1 EXCEPT !.wire = up]) \/ Becomes(s2)
  <2>1. [State EXCEPT !.call[c].queue = Tail(@)] = s1
    BY <1>0 DEF State
  <2>2. [s1 EXCEPT !.client[c].got = Append(@, m.msg)] = s2
    BY <1>0 DEF State
  <2>3. [s1 EXCEPT !.wire = Sends(@, at[c], Frame("DATA", call[c].id, c, m.msg))] = [s1 EXCEPT !.wire = up]
    BY <1>0 DEF State
  <2> QED
    BY <2>1, <2>2, <2>3 DEF Drain, m
<1> QED
  BY <1>8, <1>9, <1>10

LEMMA ClientSendsKeeps ==
  ASSUME RelayInv, NEW c \in Calls, ClientSends(c)
  PROVE  RelayInv'
<1>0. /\ Carries(State) /\ State \in Carrier /\ State.call = call /\ State.client = client
      /\ RestType /\ call \in [Calls -> CallRec] /\ client \in [Calls -> ClientRec]
      /\ call[c] \in CallRec /\ client[c] \in ClientRec
  BY StateFields DEF RelayInv
<1> DEFINE q == [client[c] EXCEPT !.sent = client[c].sent + 1]
           s == [State EXCEPT !.call = [State.call EXCEPT ![c] = call[c]], !.client = [State.client EXCEPT ![c] = q]]
           m == Message(Up(c), client[c].sent + 1)
<1>1. UNCHANGED <<link, next, hosted, at, host>> /\ at \in [Calls -> Nodes]
  BY <1>0 DEF ClientSends, RestType
<1>2. call[c].pc # "idle" /\ Len(call[c].queue) <= MaxBuffered
  BY <1>0 DEF ClientSends, Carries, Unused
<1>3. q \in ClientRec
  <2>1. client[c].sent + 1 \in Nat
    BY <1>0 DEF ClientRec
  <2> QED
    BY <1>0, <2>1 DEF ClientRec
<1>4. <<Entry(Up(c), m)>> \in Seq(Entries)
  <2>1. client[c].sent + 1 \in Nat
    BY <1>0 DEF ClientRec
  <2>2. m \in Msgs
    BY <2>1, MessageType
  <2> QED
    BY <2>2, EntryType
<1>5. [State EXCEPT !.client[c].sent = @ + 1] = s
  BY <1>0 DEF State
<1>6. s.call = call
  BY <1>0 DEF State
<1> HIDE DEF q
<1>7. Carries(s)
  BY <1>0, <1>2, <1>3, Changes
<1> HIDE DEF s, m
<1>8. Carries(Forward(s, c, <<Entry(Up(c), m)>>))
  BY <1>1, <1>2, <1>4, <1>6, <1>7, ForwardKeeps
<1>9. Becomes(Forward(s, c, <<Entry(Up(c), m)>>))
  BY <1>5 DEF ClientSends, m
<1> QED
  BY <1>1, <1>8, <1>9, HandlerKeeps

LEMMA ClientLeavesKeeps ==
  ASSUME RelayInv, NEW c \in Calls, ClientLeaves(c)
  PROVE  RelayInv'
<1>0. /\ Carries(State) /\ State \in Carrier /\ State.call = call /\ State.client = client
      /\ RestType /\ call \in [Calls -> CallRec] /\ client \in [Calls -> ClientRec]
      /\ call[c] \in CallRec /\ client[c] \in ClientRec
  BY StateFields DEF RelayInv
<1> DEFINE q == [client[c] EXCEPT !.sock = "gone"]
           s == [State EXCEPT !.call = [State.call EXCEPT ![c] = call[c]], !.client = [State.client EXCEPT ![c] = q]]
<1>1. UNCHANGED <<link, next, hosted, at, host>> /\ at \in [Calls -> Nodes]
  BY <1>0 DEF ClientLeaves, RestType
<1>2. call[c].pc # "idle" /\ Len(call[c].queue) <= MaxBuffered
  BY <1>0 DEF ClientLeaves, Carries, Unused
<1>3. q \in ClientRec
  BY <1>0 DEF ClientRec
<1>4. [State EXCEPT !.client[c].sock = "gone"] = s
  BY <1>0 DEF State
<1>5. s.call = call
  BY <1>0 DEF State
<1> HIDE DEF q
<1>6. Carries(s)
  BY <1>0, <1>2, <1>3, Changes
<1> HIDE DEF s
<1>7. Carries(CloseCarried(s, c))
  BY <1>1, <1>2, <1>5, <1>6, CloseCarriedKeeps
<1>8. Becomes(CloseCarried(s, c)) \/ Becomes(s)
  BY <1>4 DEF ClientLeaves
<1> QED
  BY <1>1, <1>6, <1>7, <1>8, HandlerKeeps

LEMMA AdmitKeeps ==
  ASSUME RelayInv, NEW c \in Calls, Admit(c)
  PROVE  RelayInv'
<1>0. /\ RestType /\ wire \in [Nodes -> Seq(Frames)] /\ host \in [Calls -> HostRec] /\ host[c] \in HostRec
      /\ hosted \in [Nodes -> Sessions] /\ at \in [Calls -> Nodes]
  BY StateFields DEF RelayInv, RestType
<1> DEFINE n == Holder(c)
           id == host[c].id
<1>1. n \in Nodes /\ id \in Nat
  BY <1>0, OtherNode DEF Holder, HostRec
<1>2. UNCHANGED <<link, next, carried, at, call, client>>
  BY DEF Admit
<1>3. Frame("ACCEPT", id, c, NoMsg) \in Frames /\ Frame("REFUSE", id, c, NoMsg) \in Frames
  BY <1>1, FrameType, MessageType DEF Ops
<1> HIDE DEF n, id
<1>4. /\ Sends(wire, n, Frame("ACCEPT", id, c, NoMsg)) \in [Nodes -> Seq(Frames)]
      /\ Sends(wire, n, Frame("REFUSE", id, c, NoMsg)) \in [Nodes -> Seq(Frames)]
  BY <1>0, <1>1, <1>3, SendsType
<1>5. wire' \in [Nodes -> Seq(Frames)]
  BY <1>4 DEF Admit, n, id
<1>6. Carries(State)'
  BY <1>2, <1>5, SameSessions
<1>7. hosted' \in [Nodes -> Sessions]
  <2>1. hosted' = hosted \/ hosted' = [hosted EXCEPT ![n] = Without(hosted[n], id)]
    BY DEF Admit, n, id
  <2>2. Without(hosted[n], id) \in Sessions
    BY <1>0, <1>1, WithoutSessions
  <2> QED
    BY <1>0, <1>1, <2>1, <2>2
<1>8. host' \in [Calls -> HostRec]
  <2>1. \/ host' = [host EXCEPT ![c] = [host[c] EXCEPT !.pc = "live"]]
        \/ host' = [host EXCEPT ![c] = [host[c] EXCEPT !.pc = "over", !.open = FALSE]]
    BY <1>0 DEF Admit
  <2>2. [host[c] EXCEPT !.pc = "live"] \in HostRec /\ [host[c] EXCEPT !.pc = "over", !.open = FALSE] \in HostRec
    BY <1>0 DEF HostRec
  <2> QED
    BY <1>0, <2>1, <2>2
<1> QED
  BY <1>0, <1>2, <1>6, <1>7, <1>8 DEF RelayInv, RestType

LEMMA HostSendsKeeps ==
  ASSUME RelayInv, NEW c \in Calls, HostSends(c)
  PROVE  RelayInv'
<1>0. /\ RestType /\ wire \in [Nodes -> Seq(Frames)] /\ host \in [Calls -> HostRec] /\ host[c] \in HostRec
      /\ at \in [Calls -> Nodes]
  BY StateFields DEF RelayInv, RestType
<1> DEFINE m == Message(Down(c), host[c].sent + 1)
<1>1. Holder(c) \in Nodes /\ host[c].id \in Nat /\ host[c].sent + 1 \in Nat
  BY <1>0, OtherNode DEF Holder, HostRec
<1>2. m \in Msgs
  BY <1>1, MessageType
<1> HIDE DEF m
<1>3. Frame("DATA", host[c].id, c, m) \in Frames
  BY <1>1, <1>2, FrameType DEF Ops
<1>4. wire' \in [Nodes -> Seq(Frames)]
  BY <1>0, <1>1, <1>3, SendsType DEF HostSends, m
<1>5. UNCHANGED <<link, next, carried, hosted, at, call, client>>
  BY DEF HostSends
<1>6. Carries(State)'
  BY <1>4, <1>5, SameSessions
<1>7. host' \in [Calls -> HostRec]
  <2>1. host' = [host EXCEPT ![c] = [host[c] EXCEPT !.sent = host[c].sent + 1]]
    BY <1>0 DEF HostSends
  <2>2. [host[c] EXCEPT !.sent = host[c].sent + 1] \in HostRec
    BY <1>0, <1>1 DEF HostRec
  <2> QED
    BY <1>0, <2>1, <2>2
<1> QED
  BY <1>0, <1>5, <1>6, <1>7 DEF RelayInv, RestType

LEMMA HangsUpKeeps ==
  ASSUME RelayInv, NEW c \in Calls, HangsUp(c)
  PROVE  RelayInv'
<1>0. /\ RestType /\ wire \in [Nodes -> Seq(Frames)] /\ host \in [Calls -> HostRec] /\ host[c] \in HostRec
      /\ hosted \in [Nodes -> Sessions] /\ at \in [Calls -> Nodes]
  BY StateFields DEF RelayInv, RestType
<1> DEFINE n == Holder(c)
           id == host[c].id
<1>1. n \in Nodes /\ id \in Nat
  BY <1>0, OtherNode DEF Holder, HostRec
<1>2. UNCHANGED <<link, next, carried, at, call, client>>
  BY DEF HangsUp
<1>3. Frame("CLOSE", id, c, NoMsg) \in Frames
  BY <1>1, FrameType, MessageType DEF Ops
<1> HIDE DEF n, id
<1>4. wire' \in [Nodes -> Seq(Frames)]
  <2>1. wire' = wire \/ wire' = Sends(wire, n, Frame("CLOSE", id, c, NoMsg))
    BY DEF HangsUp, n, id
  <2> QED
    BY <1>0, <1>1, <1>3, <2>1, SendsType
<1>5. Carries(State)'
  BY <1>2, <1>4, SameSessions
<1>6. hosted' \in [Nodes -> Sessions]
  <2>1. hosted' = hosted \/ hosted' = [hosted EXCEPT ![n] = Without(hosted[n], id)]
    BY DEF HangsUp, n, id
  <2>2. Without(hosted[n], id) \in Sessions
    BY <1>0, <1>1, WithoutSessions
  <2> QED
    BY <1>0, <1>1, <2>1, <2>2
<1>7. host' \in [Calls -> HostRec]
  <2>1. host' = [host EXCEPT ![c] = [host[c] EXCEPT !.pc = "over", !.open = FALSE]]
    BY <1>0 DEF HangsUp
  <2>2. [host[c] EXCEPT !.pc = "over", !.open = FALSE] \in HostRec
    BY <1>0 DEF HostRec
  <2> QED
    BY <1>0, <2>1, <2>2
<1> QED
  BY <1>0, <1>2, <1>5, <1>6, <1>7 DEF RelayInv, RestType

LEMMA DispatchKeeps ==
  ASSUME RelayInv, NEW n \in Nodes, Dispatch(n)
  PROVE  RelayInv'
<1>0. /\ Carries(State) /\ State \in Carrier /\ State.call = call /\ State.carried = carried /\ State.wire = wire
      /\ RestType /\ wire \in [Nodes -> Seq(Frames)] /\ carried \in [Nodes -> Sessions]
      /\ host \in [Calls -> HostRec] /\ hosted \in [Nodes -> Sessions] /\ at \in [Calls -> Nodes]
  BY StateFields DEF RelayInv, RestType
<1> DEFINE frame == Head(wire[n])
           id == frame.id
           w == [wire EXCEPT ![n] = Tail(wire[n])]
<1>1. frame \in Frames /\ w \in [Nodes -> Seq(Frames)]
  BY <1>0, TailType DEF Dispatch
<1>2. id \in Nat /\ frame.call \in Calls /\ frame.op \in Ops
  BY <1>1 DEF Frames
<1>3. UNCHANGED <<link, next, at>>
  BY DEF Dispatch
<1> HIDE DEF frame, w
<1>4. CASE Hosts(n, frame)
  <2>1. UNCHANGED <<carried, call, client>>
    BY <1>4 DEF Hosts
  <2>2. wire' \in [Nodes -> Seq(Frames)]
    <3>1. Frame("REFUSE", frame.id, frame.call, NoMsg) \in Frames
      BY <1>2, FrameType, MessageType DEF Ops
    <3>2. Sends(w, n, Frame("REFUSE", frame.id, frame.call, NoMsg)) \in [Nodes -> Seq(Frames)]
      BY <1>1, <3>1, SendsType
    <3> QED
      BY <1>1, <1>4, <3>2 DEF Hosts, w
  <2>3. Carries(State)'
    BY <1>3, <2>1, <2>2, SameSessions
  <2>4. hosted' \in [Nodes -> Sessions]
    <3>1. With(hosted[n], frame.id, frame.call) \in Sessions
      BY <1>0, <1>2, WithSessions
    <3> QED
      BY <1>0, <1>4, <3>1 DEF Hosts
  <2>5. host' \in [Calls -> HostRec]
    <3> DEFINE h == [host[frame.call] EXCEPT !.pc = "admitting", !.open = TRUE, !.id = frame.id]
    <3>1. host[frame.call] \in HostRec
      BY <1>0, <1>2
    <3>2. h \in HostRec
      BY <1>2, <3>1 DEF HostRec
    <3>3. host' = host \/ host' = [host EXCEPT ![frame.call] = h]
      BY <1>4 DEF Hosts
    <3> HIDE DEF h
    <3> QED
      BY <1>0, <3>2, <3>3
  <2> QED
    BY <1>0, <1>3, <2>3, <2>4, <2>5 DEF RelayInv, RestType
<1>5. CASE /\ id \in DOMAIN carried[n]
           /\ Becomes(ToClient([State EXCEPT !.wire[n] = Tail(@)], carried[n][id], frame))
           /\ UNCHANGED <<hosted, host>>
  <2> DEFINE s == [State EXCEPT !.wire = w]
             c == carried[n][id]
  <2>1. [State EXCEPT !.wire[n] = Tail(@)] = s
    BY <1>0 DEF State, w
  <2>2. Carries(s)
    BY <1>0, <1>1, SendsKeeps
  <2>3. s.call = call
    BY <1>0 DEF State
  <2>4. c \in Calls /\ call[c].pc # "idle"
    <3>1. c \in Calls
      BY <1>0, <1>5, SessionsType
    <3>2. Slot(State, n, id)
      BY <1>0, <1>5 DEF Carries
    <3> QED
      BY <1>0, <3>1, <3>2 DEF Slot
  <2> HIDE DEF s, c
  <2>5. Carries(ToClient(s, c, frame))
    BY <1>0, <1>1, <2>2, <2>3, <2>4, ToClientKeeps
  <2> QED
    BY <1>3, <1>5, <2>1, <2>5, HandlerKeeps DEF c
<1>6. CASE id \in DOMAIN hosted[n] /\ ToHost(n, frame)
  <2> DEFINE c == hosted[n][frame.id]
  <2>1. c \in Calls /\ host[c] \in HostRec
    BY <1>0, <1>6, SessionsType
  <2>2. wire' = w /\ UNCHANGED <<carried, call, client>>
    BY <1>6 DEF ToHost, w
  <2>3. Carries(State)'
    BY <1>1, <1>3, <2>2, SameSessions
  <2>4. hosted' \in [Nodes -> Sessions]
    <3>1. Without(hosted[n], frame.id) \in Sessions
      BY <1>0, <1>2, WithoutSessions
    <3> QED
      BY <1>0, <1>6, <3>1 DEF ToHost
  <2>5. host' \in [Calls -> HostRec]
    <3> DEFINE got == IF host[c].pc = "live" THEN Append(host[c].got, frame.msg) ELSE host[c].got
               h == [host[c] EXCEPT !.got = got]
    <3>1. \/ host' = [host EXCEPT ![c] = Dropped(host[c])]
          \/ host' = [host EXCEPT ![c] = h]
          \/ host' = host
      BY <1>0, <1>6 DEF ToHost
    <3>2. Dropped(host[c]) \in HostRec
      BY <2>1 DEF Dropped, HostRec
    <3>3. got \in Seq(Msgs)
      BY <1>1, <2>1 DEF Frames, HostRec
    <3> HIDE DEF got
    <3>4. h \in HostRec
      BY <2>1, <3>3 DEF HostRec
    <3> HIDE DEF h
    <3> QED
      BY <1>0, <2>1, <3>1, <3>2, <3>4
  <2> QED
    BY <1>0, <1>3, <2>3, <2>4, <2>5 DEF RelayInv, RestType
<1>7. CASE wire' = w /\ UNCHANGED <<carried, hosted, call, client, host>>
  <2>1. Carries(State)'
    BY <1>1, <1>3, <1>7, SameSessions
  <2> QED
    BY <1>0, <1>3, <1>7, <2>1 DEF RelayInv, RestType
<1> QED
  BY <1>4, <1>5, <1>6, <1>7 DEF Dispatch, frame, w

LEMMA LoseKeeps ==
  ASSUME RelayInv, NEW n \in Nodes, Lose(n)
  PROVE  RelayInv'
<1>0. /\ Carries(State) /\ State \in Carrier /\ State.call = call /\ State.carried = carried /\ State.client = client
      /\ RestType /\ wire \in [Nodes -> Seq(Frames)] /\ carried \in [Nodes -> Sessions]
      /\ call \in [Calls -> CallRec] /\ client \in [Calls -> ClientRec]
      /\ host \in [Calls -> HostRec] /\ hosted \in [Nodes -> Sessions] /\ at \in [Calls -> Nodes]
  BY StateFields DEF RelayInv, RestType
<1>1. UNCHANGED <<next, at>> /\ link' = link \ {n}
  BY DEF Lose
<1>2. wire' \in [Nodes -> Seq(Frames)]
  <2>1. wire' = [wire EXCEPT ![n] = <<>>]
    BY DEF Lose
  <2> QED
    BY <1>0, <2>1
<1>3. carried' \in [Nodes -> Sessions] /\ hosted' \in [Nodes -> Sessions]
  BY <1>0, EmptySessions DEF Lose
<1>4. host' \in [Calls -> HostRec]
  <2>1. \A c \in Calls : Dropped(host[c]) \in HostRec
    BY <1>0 DEF Dropped, HostRec
  <2> QED
    BY <1>0, <2>1 DEF Lose
<1>5. ASSUME NEW c \in Calls
      PROVE  /\ call'[c] \in CallRec /\ client'[c] \in ClientRec
             /\ at[c] # n => call'[c] = call[c]
             /\ call'[c].pc = "idle" => Unused(call'[c], client'[c])
             /\ Len(call'[c].queue) <= MaxBuffered
  <2> DEFINE r == [call[c] EXCEPT !.closed = TRUE, !.queue = <<>>, !.inbox = <<>>]
             q == [client[c] EXCEPT !.sock = "gone"]
             ended == c \in Held(carried[n]) /\ ~call[c].closed
  <2>1. /\ call'[c] = IF ended THEN r ELSE call[c]
        /\ client'[c] = IF ended /\ client[c].sock = "open" THEN q ELSE client[c]
    BY DEF Lose
  <2>2. call[c] \in CallRec /\ client[c] \in ClientRec
    BY <1>0
  <2>3. r \in CallRec /\ r.pc = call[c].pc /\ r.queue = <<>>
    BY <2>2, NoneWaiting DEF CallRec
  <2>4. q \in ClientRec
    BY <2>2 DEF ClientRec
  <2>5. Len(call[c].queue) <= MaxBuffered /\ (call[c].pc = "idle" => Unused(call[c], client[c]))
    BY <1>0 DEF Carries
  <2>6. Len(r.queue) <= MaxBuffered
    BY <2>3, NoneWaiting, RelayConstants
  <2>7. c \in Held(carried[n]) => at[c] = n /\ call[c].pc # "idle"
    <3>1. \A i \in DOMAIN carried[n] : Slot(State, n, i)
      BY <1>0 DEF Carries
    <3>2. \A i \in DOMAIN carried[n] : carried[n][i] = c => at[c] = n /\ call[c].pc # "idle"
      BY <1>0, <3>1 DEF Slot
    <3> QED
      BY <3>2 DEF Held
  <2>8. ended => at[c] = n /\ call[c].pc # "idle"
    BY <2>7
  <2> HIDE DEF r, q, ended
  <2> QED
    BY <2>1, <2>2, <2>3, <2>4, <2>5, <2>6, <2>8
<1>6. call' \in [Calls -> CallRec] /\ client' \in [Calls -> ClientRec]
  <2>1. DOMAIN call' = Calls /\ DOMAIN client' = Calls
    BY DEF Lose
  <2>2. call' = [c \in Calls |-> call'[c]] /\ client' = [c \in Calls |-> client'[c]]
    BY DEF Lose
  <2> QED
    BY <1>5, <2>2
<1>7. State' \in Carrier /\ State'.carried = carried' /\ State'.call = call' /\ State'.client = client'
  BY <1>2, <1>3, <1>6, StepIs
<1>8. ASSUME NEW m \in Nodes
      PROVE  /\ IsFiniteSet(DOMAIN carried'[m]) /\ Cardinality(DOMAIN carried'[m]) <= MaxSessions
             /\ \A i \in DOMAIN carried'[m] :
                  LET c == carried'[m][i]
                  IN  /\ at[c] = m /\ call'[c].id = i /\ call'[c].closed = FALSE
                      /\ call'[c].pc \in {"opening", "attached"}
  <2>1. CASE m = n
    <3>1. DOMAIN carried'[m] = {}
      BY <1>0, <2>1, EmptySessions DEF Lose
    <3>2. IsFiniteSet({}) /\ Cardinality({}) = 0
      BY FS_EmptySet
    <3>3. 0 <= MaxSessions
      BY RelayConstants
    <3> QED
      BY <3>1, <3>2, <3>3
  <2>2. CASE m # n
    <3>1. carried'[m] = carried[m]
      BY <1>0, <2>2 DEF Lose
    <3>2. /\ IsFiniteSet(DOMAIN carried[m]) /\ Cardinality(DOMAIN carried[m]) <= MaxSessions
          /\ \A i \in DOMAIN carried[m] : Slot(State, m, i)
      BY <1>0 DEF Carries
    <3>3. \A i \in DOMAIN carried[m] : carried[m][i] \in Calls
      BY <1>0, SessionsType
    <3> QED
      BY <1>0, <1>5, <2>2, <3>1, <3>2, <3>3 DEF Slot
  <2> QED
    BY <2>1, <2>2
<1>9. Carries(State)'
  <2>1. \A c \in Calls : /\ Len(call'[c].queue) <= MaxBuffered
                         /\ call'[c].pc = "idle" => Unused(call'[c], client'[c])
    BY <1>5
  <2>2. at' = at
    BY <1>1
  <2>3. ASSUME NEW m \in Nodes, NEW i \in DOMAIN State'.carried[m] PROVE Slot(State, m, i)'
    <3> DEFINE c == carried'[m][i]
    <3>1. i \in DOMAIN carried'[m]
      BY <1>7, <2>3
    <3>2. /\ at[c] = m /\ call'[c].id = i /\ call'[c].closed = FALSE
          /\ call'[c].pc \in {"opening", "attached"}
      BY <1>8, <3>1
    <3> QED
      BY <1>7, <2>2, <3>2 DEF Slot
  <2>4. \A m \in Nodes : /\ IsFiniteSet(DOMAIN State'.carried[m])
                         /\ Cardinality(DOMAIN State'.carried[m]) <= MaxSessions
    BY <1>7, <1>8
  <2> QED
    BY <1>7, <2>1, <2>3, <2>4 DEF Carries, Unused
<1> QED
  BY <1>0, <1>1, <1>3, <1>4, <1>9 DEF RelayInv, RestType

LEMMA NextKeeps == RelayInv /\ [Next]_vars => RelayInv'
<1> SUFFICES ASSUME RelayInv, [Next]_vars PROVE RelayInv'
  OBVIOUS
<1>1. CASE UNCHANGED vars
  BY <1>1 DEF vars, linkvars, RelayInv, RestType, Carries, Slot, State
<1>2. ASSUME NEW c \in Calls, CallStep(c) PROVE RelayInv'
  <2>1. CASE Reserve(c)
    BY <2>1, ReserveKeeps
  <2>2. CASE OpenTimesOut(c)
    BY <2>2, OpenTimesOutKeeps
  <2>3. CASE Settle(c)
    BY <2>3, SettleKeeps
  <2>4. CASE Drain(c)
    BY <2>4, DrainKeeps
  <2>5. CASE ClientSends(c)
    BY <2>5, ClientSendsKeeps
  <2>6. CASE ClientLeaves(c)
    BY <2>6, ClientLeavesKeeps
  <2>7. CASE Admit(c)
    BY <2>7, AdmitKeeps
  <2>8. CASE HostSends(c)
    BY <2>8, HostSendsKeeps
  <2>9. CASE HelloTimesOut(c) \/ HostLeaves(c)
    BY <2>9, HangsUpKeeps DEF HelloTimesOut, HostLeaves
  <2> QED
    BY <1>2, <2>1, <2>2, <2>3, <2>4, <2>5, <2>6, <2>7, <2>8, <2>9 DEF CallStep
<1>3. ASSUME NEW n \in Nodes, Dispatch(n) PROVE RelayInv'
  BY <1>3, DispatchKeeps
<1>4. ASSUME NEW n \in Nodes, Lose(n) PROVE RelayInv'
  BY <1>4, LoseKeeps
<1> QED
  BY <1>1, <1>2, <1>3, <1>4 DEF Next

\* The state of the relay has the shape TypeOK says: what is in a session map is a
\* call, and a session carried is known by its own number.
THEOREM TypeCorrect == Spec => []TypeOK
<1>1. RelayInv => TypeOK
  <2> SUFFICES ASSUME RelayInv PROVE TypeOK
    OBVIOUS
  <2>0. /\ Carries(State) /\ State.call = call /\ State.carried = carried
        /\ RestType /\ wire \in [Nodes -> Seq(Frames)] /\ carried \in [Nodes -> Sessions]
        /\ \A c \in Calls : call[c] \in CallRec /\ client[c] \in ClientRec
    BY StateFields DEF RelayInv
  <2>1. ASSUME NEW n \in Nodes
        PROVE  /\ DOMAIN carried[n] \cup DOMAIN hosted[n] \subseteq Nat
               /\ \A i \in DOMAIN carried[n] : carried[n][i] \in Calls /\ call[carried[n][i]].id = i
               /\ \A i \in DOMAIN hosted[n] : hosted[n][i] \in Calls
               /\ \A k \in 1..Len(wire[n]) : wire[n][k].op \in Ops
    <3>1. carried[n] \in Sessions /\ hosted[n] \in Sessions /\ wire[n] \in Seq(Frames)
      BY <2>0 DEF RestType
    <3>2. \A i \in DOMAIN carried[n] : carried[n][i] \in Calls /\ call[carried[n][i]].id = i
      BY <2>0, <3>1, SessionsType DEF Carries, Slot
    <3>3. \A k \in 1..Len(wire[n]) : wire[n][k].op \in Ops
      <4>1. \A k \in 1..Len(wire[n]) : wire[n][k] \in Frames
        BY <3>1
      <4>2. \A frame \in Frames : frame.op \in Ops
        BY DEF Frames
      <4> QED
        BY <4>1, <4>2
    <3> QED
      BY <3>1, <3>2, <3>3, SessionsType
  <2>2. ASSUME NEW c \in Calls
        PROVE  /\ call[c].pc \in {"idle", "opening", "attached", "ended"}
               /\ call[c].answer \in {"none", "accept", "decline"}
               /\ client[c].sock \in {"none", "waiting", "open", "gone"}
               /\ host[c].pc \in {"none", "admitting", "live", "over"}
    <3>1. call[c] \in CallRec /\ client[c] \in ClientRec /\ host[c] \in HostRec
      BY <2>0 DEF RestType
    <3> QED
      BY <3>1 DEF CallRec, ClientRec, HostRec
  <2> QED
    BY <2>0, <2>1, <2>2 DEF TypeOK, RestType, Ops
<1> QED
  BY <1>1, InitRelay, NextKeeps, PTL DEF Spec

\* carriedCount and _forward: whatever diallers ask together and whatever the links do,
\* a gateway carries at most RELAY_MAX_SESSIONS, every slot is held by a session that is
\* not over, and none has more waiting than RELAY_MAX_BUFFERED_BYTES.
THEOREM CarriesWithinLimits == Spec => []CarryingIsBounded
<1>1. RelayInv => CarryingIsBounded
  <2> SUFFICES ASSUME RelayInv PROVE CarryingIsBounded
    OBVIOUS
  <2>1. Carries(State) /\ State.call = call /\ State.carried = carried
    BY StateFields DEF RelayInv
  <2>2. \A n \in Nodes : /\ Cardinality(DOMAIN carried[n]) <= MaxSessions
                         /\ \A i \in DOMAIN carried[n] : ~call[carried[n][i]].closed
    BY <2>1 DEF Carries, Slot
  <2>3. \A c \in Calls : Len(call[c].queue) <= MaxBuffered
    BY <2>1 DEF Carries
  <2> QED
    BY <2>2, <2>3 DEF CarryingIsBounded
<1> QED
  BY <1>1, InitRelay, NextKeeps, PTL DEF Spec

-----------------------------------------------------------------------------
(* What is on its way.                                                     *)

\* The numbers of the messages of a pipe that a queue, an inbox or the wire holds, and
\* that they are in order there.
Nums(x, p) == {k \in Nat : \E j \in 1..Len(x) : x[j].msg = Message(p, k)}
Ordered(x, p) ==
  \A i, j \in 1..Len(x) : \A k, l \in Nat :
    i < j /\ x[i].msg = Message(p, k) /\ x[j].msg = Message(p, l) => k < l
Below(A, B) == \A a \in A, b \in B : a < b
Elements(x) == {x[j] : j \in 1..Len(x)}

Begun(c) == call[c].id > 0

\* No two sessions of a link have the same number, whichever end gave it.
Numbers ==
  /\ \A n \in Nodes : next[n] > 0 /\ next[n] % 2 = FirstSession(n) % 2
  /\ \A c \in Calls : Begun(c) => call[c].id < next[at[c]] /\ call[c].id % 2 = FirstSession(at[c]) % 2
  /\ \A c, d \in Calls : Begun(c) /\ Begun(d) /\ call[c].id = call[d].id => c = d

\* What an end holds for a session it holds under the session's number, over its link.
HostOK(c) ==
  /\ host[c].pc # "none" => Begun(c) /\ host[c].id = call[c].id
  /\ host[c].pc \in {"none", "admitting"} => host[c].sent = 0 /\ host[c].got = <<>>
  /\ host[c].open => /\ host[c].pc \in {"admitting", "live"}
                     /\ host[c].id \in DOMAIN hosted[Holder(c)]
  /\ Len(host[c].got) <= client[c].sent
HostedOK(n) ==
  /\ DOMAIN hosted[n] # {} => n \in link
  /\ \A i \in DOMAIN hosted[n] :
       LET c == hosted[n][i] IN Holder(c) = n /\ host[c].id = i /\ host[c].open = TRUE
CallOK(c) ==
  /\ call[c].pc = "idle" => ~Begun(c)
  /\ call[c].pc \in {"opening", "attached"} => Begun(c)
  /\ Begun(c) /\ ~call[c].closed =>
       /\ call[c].pc \in {"opening", "attached"} /\ at[c] \in link
       /\ call[c].id \in DOMAIN carried[at[c]] /\ carried[at[c]][call[c].id] = c
  /\ call[c].answer = "accept" => host[c].pc \in {"live", "over"}
  /\ call[c].pc = "attached" => call[c].answer = "accept"
  /\ call[c].pc = "attached" /\ ~call[c].closed => call[c].inbox = <<>> /\ client[c].sock = "open"
  /\ client[c].sent > 0 => call[c].pc = "attached"
  /\ client[c].sock = "open" => call[c].pc = "attached" /\ call[c].closed = FALSE
  /\ call[c].queue # <<>> => client[c].sock = "open"
  /\ \A e \in Elements(call[c].queue) : \E k \in Nat :
       e = Entry(Up(c), Message(Up(c), k)) \/ e = Entry(Down(c), Message(Down(c), k))
  /\ \A e \in Elements(call[c].inbox) : \E k \in Nat : e = Entry(Down(c), Message(Down(c), k))
  /\ Len(client[c].got) <= host[c].sent

\* A frame is of a session that has begun, goes the way its session has it go, and its
\* answer was given.
FrameOK(n, f) ==
  /\ Begun(f.call) /\ f.id = call[f.call].id
  /\ f.op = "OPEN" => n = Holder(f.call) /\ host[f.call].pc = "none"
  /\ f.op = "ACCEPT" => host[f.call].pc \in {"live", "over"}
  /\ f.op = "DATA" => \E k \in Nat : \/ n = at[f.call] /\ f.msg = Message(Down(f.call), k)
                                     \/ n = Holder(f.call) /\ f.msg = Message(Up(f.call), k)
  /\ f.op # "DATA" => f.msg = NoMsg
OpensOnce(x) ==
  \A i, j \in 1..Len(x) : x[i].op = "OPEN" /\ x[j].op = "OPEN" /\ x[i].call = x[j].call => i = j
WireOK == \A n \in Nodes : OpensOnce(wire[n]) /\ \A f \in Elements(wire[n]) : FrameOK(n, f)

\* Upwards: the wire holds what comes before the queue; while the holder listens there
\* is no gap, and while the session lasts nothing is lost.
UpOK(p, x, q, s) ==
  /\ Ordered(x, p) /\ Ordered(q, p)
  /\ Below(Nums(x, p), Nums(q, p)) /\ Nums(x, p) \cup Nums(q, p) \subseteq 1..s
NoGap(p, x, q, g) ==
  \A k \in Nums(x, p) \cup Nums(q, p) : g < k /\ g + 1..k \subseteq Nums(x, p) \cup Nums(q, p)
NoLoss(p, x, q, g, s) == g + 1..s \subseteq Nums(x, p) \cup Nums(q, p)
Listens(c) == host[c].open = TRUE /\ host[c].pc = "live"
Upwards(c) ==
  LET p == Up(c)
      x == wire[Holder(c)]
      q == call[c].queue
      g == Len(host[c].got)
  IN  /\ UpOK(p, x, q, client[c].sent)
      /\ Listens(c) => NoGap(p, x, q, g) /\ (~call[c].closed => NoLoss(p, x, q, g, client[c].sent))

\* Downwards: the queue, the inbox and the wire hold, in this order, what has not
\* reached the dialler.
DownOK(p, x, i, q, g, s) ==
  /\ Ordered(x, p) /\ Ordered(i, p) /\ Ordered(q, p)
  /\ Below(Nums(q, p), Nums(i, p)) /\ Below(Nums(q, p), Nums(x, p)) /\ Below(Nums(i, p), Nums(x, p))
  /\ Nums(q, p) \cup Nums(i, p) \cup Nums(x, p) = g + 1..s
Downwards(c) ==
  ~call[c].closed =>
    DownOK(Down(c), wire[at[c]], call[c].inbox, call[c].queue, Len(client[c].got), host[c].sent)

SessionOK(c) == HostOK(c) /\ CallOK(c) /\ Upwards(c) /\ Downwards(c)
PipesInv ==
  /\ Numbers /\ WireOK /\ (\A n \in Nodes : HostedOK(n)) /\ \A c \in Calls : SessionOK(c)

LEMMA MessagesDiffer ==
  ASSUME NEW c \in Calls, NEW d \in Calls, NEW k \in Nat, NEW l \in Nat
  PROVE  /\ Message(Up(c), k) # Message(Down(d), l)
         /\ Message(Up(c), k) = Message(Up(d), l) => c = d /\ k = l
         /\ Message(Down(c), k) = Message(Down(d), l) => c = d /\ k = l
         /\ NoMsg # Message(Up(c), k) /\ NoMsg # Message(Down(c), k)
  BY DEF Message, Up, Down, NoMsg

LEMMA NoMessages ==
  ASSUME NEW p
  PROVE  Nums(<<>>, p) = {} /\ Ordered(<<>>, p)
  BY DEF Nums, Ordered

\* Message k of p, and nothing else, is among the numbers of e.
Is(e, p) == {k \in Nat : e.msg = Message(p, k)}

\* What y has of p, x has, but for e.
Adds(y, x, e, p) == Nums(y, p) = Nums(x, p) \cup Is(e, p)

LEMMA AppendNums ==
  ASSUME NEW S, NEW x \in Seq(S), NEW e \in S, NEW p
  PROVE  /\ Adds(Append(x, e), x, e, p)
         /\ Ordered(x, p) /\ Below(Nums(x, p), Is(e, p)) => Ordered(Append(x, e), p)
<1> DEFINE y == Append(x, e)
<1>1. /\ Len(y) = Len(x) + 1 /\ Len(x) \in Nat /\ y[Len(x) + 1] = e
      /\ \A j \in 1..Len(x) : y[j] = x[j]
  BY AppendProperties
<1> HIDE DEF y
<1>2. Adds(y, x, e, p)
  <2>1. ASSUME NEW k \in Nums(y, p) PROVE k \in Nums(x, p) \cup Is(e, p)
    <3>1. PICK j \in 1..Len(y) : y[j].msg = Message(p, k)
      BY DEF Nums
    <3>2. k \in Nat
      BY DEF Nums
    <3>3. CASE j = Len(x) + 1
      BY <1>1, <3>1, <3>2, <3>3 DEF Is
    <3>4. CASE j \in 1..Len(x)
      BY <1>1, <3>1, <3>2, <3>4 DEF Nums
    <3> QED
      BY <1>1, <3>3, <3>4
  <2>2. ASSUME NEW k \in Nums(x, p) PROVE k \in Nums(y, p)
    <3>1. PICK j \in 1..Len(x) : x[j].msg = Message(p, k)
      BY DEF Nums
    <3>2. j \in 1..Len(y) /\ y[j].msg = Message(p, k) /\ k \in Nat
      BY <1>1, <3>1 DEF Nums
    <3> QED
      BY <3>2 DEF Nums
  <2>3. ASSUME NEW k \in Is(e, p) PROVE k \in Nums(y, p)
    <3>1. Len(x) + 1 \in 1..Len(y) /\ y[Len(x) + 1].msg = Message(p, k) /\ k \in Nat
      BY <1>1 DEF Is
    <3> QED
      BY <3>1 DEF Nums
  <2> QED
    BY <2>1, <2>2, <2>3 DEF Adds
<1>3. ASSUME Ordered(x, p), Below(Nums(x, p), Is(e, p)) PROVE Ordered(y, p)
  <2> SUFFICES ASSUME NEW i \in 1..Len(y), NEW j \in 1..Len(y), NEW k \in Nat, NEW l \in Nat,
                      i < j, y[i].msg = Message(p, k), y[j].msg = Message(p, l)
               PROVE  k < l
    BY DEF Ordered
  <2>1. i \in 1..Len(x) /\ y[i] = x[i]
    BY <1>1
  <2>2. CASE j \in 1..Len(x)
    BY <1>1, <1>3, <2>1, <2>2 DEF Ordered
  <2>3. CASE j = Len(x) + 1
    <3>1. k \in Nums(x, p)
      BY <2>1 DEF Nums
    <3>2. l \in Is(e, p)
      BY <1>1, <2>3 DEF Is
    <3> QED
      BY <1>3, <3>1, <3>2 DEF Below
  <2> QED
    BY <1>1, <2>2, <2>3
<1> QED
  BY <1>2, <1>3 DEF y

LEMMA TailNums ==
  ASSUME NEW S, NEW x \in Seq(S), x # <<>>, NEW p
  PROVE  /\ Adds(x, Tail(x), Head(x), p)
         /\ Ordered(x, p) => Ordered(Tail(x), p) /\ Below(Is(Head(x), p), Nums(Tail(x), p))
<1> DEFINE y == Tail(x)
<1>1. /\ Len(x) \in Nat /\ Len(x) > 0 /\ Len(y) = Len(x) - 1 /\ x[1] = Head(x)
      /\ \A j \in 1..Len(y) : y[j] = x[j + 1]
  BY HeadTailProperties, EmptySeq
<1> HIDE DEF y
<1>2. Adds(x, y, Head(x), p)
  <2>1. ASSUME NEW k \in Nums(x, p) PROVE k \in Is(Head(x), p) \cup Nums(y, p)
    <3>1. PICK j \in 1..Len(x) : x[j].msg = Message(p, k)
      BY DEF Nums
    <3>2. k \in Nat
      BY DEF Nums
    <3>3. CASE j = 1
      BY <1>1, <3>1, <3>2, <3>3 DEF Is
    <3>4. CASE j # 1
      <4>1. j - 1 \in 1..Len(y) /\ y[j - 1] = x[j]
        BY <1>1, <3>4
      <4> QED
        BY <3>1, <3>2, <4>1 DEF Nums
    <3> QED
      BY <3>3, <3>4
  <2>2. ASSUME NEW k \in Nums(y, p) PROVE k \in Nums(x, p)
    <3>1. PICK j \in 1..Len(y) : y[j].msg = Message(p, k)
      BY DEF Nums
    <3>2. j + 1 \in 1..Len(x) /\ x[j + 1].msg = Message(p, k) /\ k \in Nat
      BY <1>1, <3>1 DEF Nums
    <3> QED
      BY <3>2 DEF Nums
  <2>3. ASSUME NEW k \in Is(Head(x), p) PROVE k \in Nums(x, p)
    <3>1. 1 \in 1..Len(x) /\ x[1].msg = Message(p, k) /\ k \in Nat
      BY <1>1 DEF Is
    <3> QED
      BY <3>1 DEF Nums
  <2> QED
    BY <2>1, <2>2, <2>3 DEF Adds
<1>3. ASSUME Ordered(x, p) PROVE Ordered(y, p)
  <2> SUFFICES ASSUME NEW i \in 1..Len(y), NEW j \in 1..Len(y), NEW k \in Nat, NEW l \in Nat,
                      i < j, y[i].msg = Message(p, k), y[j].msg = Message(p, l)
               PROVE  k < l
    BY DEF Ordered
  <2>1. i + 1 \in 1..Len(x) /\ j + 1 \in 1..Len(x) /\ i + 1 < j + 1 /\ x[i + 1] = y[i] /\ x[j + 1] = y[j]
    BY <1>1
  <2> QED
    BY <1>3, <2>1 DEF Ordered
<1>4. ASSUME Ordered(x, p), NEW k \in Is(Head(x), p), NEW l \in Nums(y, p) PROVE k < l
  <2>1. PICK j \in 1..Len(y) : y[j].msg = Message(p, l)
    BY DEF Nums
  <2>2. /\ 1 \in 1..Len(x) /\ j + 1 \in 1..Len(x) /\ 1 < j + 1 /\ k \in Nat /\ l \in Nat
        /\ x[1].msg = Message(p, k) /\ x[j + 1].msg = Message(p, l)
    BY <1>1, <2>1 DEF Is, Nums
  <2> QED
    BY <1>4, <2>2 DEF Ordered
<1> QED
  BY <1>2, <1>3, <1>4 DEF y, Below

LEMMA ElementsOf ==
  ASSUME NEW S, NEW x \in Seq(S)
  PROVE  /\ Elements(x) \subseteq S
         /\ \A e \in S : Elements(Append(x, e)) = Elements(x) \cup {e}
         /\ x # <<>> => Head(x) \in Elements(x) /\ Elements(Tail(x)) \subseteq Elements(x)
         /\ Elements(<<>>) = {}
<1>1. Elements(x) \subseteq S
  BY DEF Elements
<1>2. ASSUME NEW e \in S PROVE Elements(Append(x, e)) = Elements(x) \cup {e}
  <2> DEFINE y == Append(x, e)
  <2>1. /\ Len(y) = Len(x) + 1 /\ Len(x) \in Nat /\ y[Len(x) + 1] = e
        /\ \A j \in 1..Len(x) : y[j] = x[j]
    BY AppendProperties
  <2> HIDE DEF y
  <2>2. Elements(y) \subseteq Elements(x) \cup {e}
    <3>1. \A j \in 1..Len(y) : j \in 1..Len(x) \/ j = Len(x) + 1
      BY <2>1
    <3> QED
      BY <2>1, <3>1 DEF Elements
  <2>3. e \in Elements(y)
    <3>1. Len(x) + 1 \in 1..Len(y)
      BY <2>1
    <3> QED
      BY <2>1, <3>1 DEF Elements
  <2>4. Elements(x) \subseteq Elements(y)
    <3>1. \A j \in 1..Len(x) : j \in 1..Len(y)
      BY <2>1
    <3> QED
      BY <2>1, <3>1 DEF Elements
  <2> QED
    BY <2>2, <2>3, <2>4 DEF y
<1>3. ASSUME x # <<>> PROVE Head(x) \in Elements(x) /\ Elements(Tail(x)) \subseteq Elements(x)
  <2> DEFINE y == Tail(x)
  <2>1. /\ Len(x) \in Nat /\ Len(x) > 0 /\ Len(y) = Len(x) - 1 /\ x[1] = Head(x)
        /\ \A j \in 1..Len(y) : y[j] = x[j + 1]
    BY <1>3, HeadTailProperties, EmptySeq
  <2> HIDE DEF y
  <2>2. Head(x) \in Elements(x)
    <3>1. 1 \in 1..Len(x)
      BY <2>1
    <3> QED
      BY <2>1, <3>1 DEF Elements
  <2>3. Elements(y) \subseteq Elements(x)
    <3>1. \A j \in 1..Len(y) : j + 1 \in 1..Len(x)
      BY <2>1
    <3> QED
      BY <2>1, <3>1 DEF Elements
  <2> QED
    BY <2>2, <2>3 DEF y
<1>4. Elements(<<>>) = {}
  BY DEF Elements
<1> QED
  BY <1>1, <1>2, <1>3, <1>4

\* At most one OPEN of a session is ever on the wire.
NoOpen(x, c) == \A e \in Elements(x) : e.op = "OPEN" => e.call # c

LEMMA AppendOpens ==
  ASSUME NEW S, NEW x \in Seq(S), NEW e \in S, OpensOnce(x), e.op = "OPEN" => NoOpen(x, e.call)
  PROVE  OpensOnce(Append(x, e))
<1> DEFINE y == Append(x, e)
<1>1. /\ Len(y) = Len(x) + 1 /\ Len(x) \in Nat /\ y[Len(x) + 1] = e
      /\ \A j \in 1..Len(x) : y[j] = x[j]
  BY AppendProperties
<1> HIDE DEF y
<1>2. \A j \in 1..Len(x) : x[j] \in Elements(x)
  BY DEF Elements
<1>3. \A j \in 1..Len(y) : (j \in 1..Len(x) /\ y[j] = x[j]) \/ (j = Len(x) + 1 /\ y[j] = e)
  BY <1>1
<1>4. OpensOnce(y)
  BY <1>2, <1>3 DEF OpensOnce, NoOpen
<1> QED
  BY <1>4 DEF y

LEMMA TailOpens ==
  ASSUME NEW S, NEW x \in Seq(S), x # <<>>, OpensOnce(x)
  PROVE  OpensOnce(Tail(x)) /\ (Head(x).op = "OPEN" => NoOpen(Tail(x), Head(x).call))
<1> DEFINE y == Tail(x)
<1>1. /\ Len(x) \in Nat /\ Len(x) > 0 /\ Len(y) = Len(x) - 1 /\ x[1] = Head(x)
      /\ \A j \in 1..Len(y) : y[j] = x[j + 1]
  BY HeadTailProperties, EmptySeq
<1> HIDE DEF y
<1>2. OpensOnce(y)
  <2> SUFFICES ASSUME NEW i \in 1..Len(y), NEW j \in 1..Len(y),
                      y[i].op = "OPEN", y[j].op = "OPEN", y[i].call = y[j].call
               PROVE  i = j
    BY DEF OpensOnce
  <2>1. i + 1 \in 1..Len(x) /\ j + 1 \in 1..Len(x) /\ x[i + 1] = y[i] /\ x[j + 1] = y[j]
    BY <1>1
  <2>2. i + 1 = j + 1
    BY <2>1 DEF OpensOnce
  <2> QED
    BY <2>2
<1>3. ASSUME Head(x).op = "OPEN" PROVE NoOpen(y, Head(x).call)
  <2> SUFFICES ASSUME NEW j \in 1..Len(y), y[j].op = "OPEN", y[j].call = Head(x).call PROVE FALSE
    BY DEF NoOpen, Elements
  <2>1. 1 \in 1..Len(x) /\ j + 1 \in 1..Len(x) /\ x[1] = Head(x) /\ x[j + 1] = y[j] /\ 1 # j + 1
    BY <1>1
  <2> QED
    BY <1>3, <2>1 DEF OpensOnce
<1> QED
  BY <1>2, <1>3 DEF y

\* For pipe p y is as good as x, and nothing changes on the wire.
Like(y, x, p) == Nums(y, p) = Nums(x, p) /\ (Ordered(x, p) => Ordered(y, p))
Quiet(w, v, p) == \A m \in Nodes : Like(v[m], w[m], p)

LEMMA SendsIs ==
  ASSUME NEW w \in [Nodes -> Seq(Frames)], NEW n \in Nodes, NEW f \in Frames
  PROVE  LET v == Sends(w, n, f)
         IN  /\ v \in [Nodes -> Seq(Frames)] /\ v[n] = w[n]
             /\ v[Other(n)] = w[Other(n)] \/ v[Other(n)] = Append(w[Other(n)], f)
             /\ link = Nodes => v[Other(n)] = Append(w[Other(n)], f)
  BY OtherNode DEF Sends

LEMMA SendsQuiet ==
  ASSUME NEW w \in [Nodes -> Seq(Frames)], NEW n \in Nodes, NEW f \in Frames, NEW p, Is(f, p) = {}
  PROVE  Quiet(w, Sends(w, n, f), p)
<1> DEFINE v == Sends(w, n, f)
           x == w[Other(n)]
<1>1. v[n] = w[n] /\ (v[Other(n)] = x \/ v[Other(n)] = Append(x, f))
  BY SendsIs
<1>2. x \in Seq(Frames)
  BY OtherNode
<1> HIDE DEF v, x
<1>3. Adds(Append(x, f), x, f, p)
  BY <1>2, AppendNums
<1>4. Ordered(x, p) => Ordered(Append(x, f), p)
  BY <1>2, AppendNums DEF Below
<1>5. Quiet(w, v, p)
  <2>1. Nums(Append(x, f), p) = Nums(x, p)
    BY <1>3 DEF Adds
  <2> QED
    BY <1>1, <1>4, <2>1, OtherNode DEF Quiet, Like, x
<1> QED
  BY <1>5 DEF v

LEMMA TailQuiet ==
  ASSUME NEW w \in [Nodes -> Seq(Frames)], NEW n \in Nodes, w[n] # <<>>, NEW p, Is(Head(w[n]), p) = {}
  PROVE  Quiet(w, [w EXCEPT ![n] = Tail(@)], p)
<1>1. w[n] \in Seq(Frames)
  OBVIOUS
<1>2. Adds(w[n], Tail(w[n]), Head(w[n]), p) /\ (Ordered(w[n], p) => Ordered(Tail(w[n]), p))
  BY <1>1, TailNums
<1>3. Nums(Tail(w[n]), p) = Nums(w[n], p)
  BY <1>2 DEF Adds
<1> QED
  BY <1>2, <1>3 DEF Quiet, Like

LEMMA QuietTwice ==
  ASSUME NEW u, NEW v, NEW w, NEW p, Quiet(u, v, p), Quiet(v, w, p)
  PROVE  Quiet(u, w, p)
  BY DEF Quiet, Like

\* A frame stays what it is.
Stays(c) ==
  /\ at'[c] = at[c] /\ (Begun(c) => call'[c].id = call[c].id)
  /\ host[c].pc = "none" => host'[c].pc = "none"
  /\ host[c].pc \in {"live", "over"} => host'[c].pc \in {"live", "over"}

LEMMA FrameStays ==
  ASSUME NEW n \in Nodes, NEW f \in Frames, FrameOK(n, f), Stays(f.call), call[f.call].id \in Nat
  PROVE  FrameOK(n, f)'
<1>1. Holder(f.call)' = Holder(f.call)
  BY DEF Holder, Stays
<1>2. Begun(f.call)'
  BY DEF Begun, Stays, FrameOK
<1> QED
  BY <1>1, <1>2 DEF FrameOK, Stays

\* No OPEN is twice on the wire w; all that v has of frames, w has, but for f at n.
Clean(w) == \A m \in Nodes : OpensOnce(w[m])
Within(v, w, n, f) == \A m \in Nodes : \A e \in Elements(v[m]) : e \in Elements(w[m]) \/ (m = n /\ e = f)
Part(v, w) == \A m \in Nodes : Elements(v[m]) \subseteq Elements(w[m])

LEMMA SendsClean ==
  ASSUME NEW w \in [Nodes -> Seq(Frames)], NEW n \in Nodes, NEW f \in Frames, Clean(w),
         f.op = "OPEN" => NoOpen(w[Other(n)], f.call)
  PROVE  Clean(Sends(w, n, f)) /\ Within(Sends(w, n, f), w, Other(n), f)
<1> DEFINE v == Sends(w, n, f)
           x == w[Other(n)]
<1>1. v[n] = w[n] /\ (v[Other(n)] = x \/ v[Other(n)] = Append(x, f))
  BY SendsIs
<1>2. x \in Seq(Frames) /\ OpensOnce(x)
  BY OtherNode DEF Clean
<1> HIDE DEF v
<1>3. OpensOnce(Append(x, f)) /\ Elements(Append(x, f)) = Elements(x) \cup {f}
  <2> HIDE DEF x
  <2>1. OpensOnce(Append(x, f))
    BY <1>2, AppendOpens DEF x
  <2>2. Elements(Append(x, f)) = Elements(x) \cup {f}
    BY <1>2, ElementsOf
  <2> QED
    BY <2>1, <2>2
<1>4. Clean(v)
  BY <1>1, <1>3, OtherNode DEF Clean
<1>5. Within(v, w, Other(n), f)
  BY <1>1, <1>3, OtherNode DEF Within
<1> QED
  BY <1>4, <1>5 DEF v

LEMMA TailClean ==
  ASSUME NEW w \in [Nodes -> Seq(Frames)], NEW n \in Nodes, w[n] # <<>>, Clean(w)
  PROVE  LET v == [w EXCEPT ![n] = Tail(@)]
         IN  Clean(v) /\ Part(v, w) /\ (Head(w[n]).op = "OPEN" => NoOpen(v[n], Head(w[n]).call))
<1> DEFINE v == [w EXCEPT ![n] = Tail(@)]
           x == w[n]
<1>1. v[n] = Tail(x) /\ \A m \in Nodes : m # n => v[m] = w[m]
  OBVIOUS
<1>2. x \in Seq(Frames) /\ OpensOnce(x)
  BY DEF Clean
<1> HIDE DEF v, x
<1>3. OpensOnce(Tail(x)) /\ (Head(x).op = "OPEN" => NoOpen(Tail(x), Head(x).call))
  BY <1>2, TailOpens DEF x
<1>4. Elements(Tail(x)) \subseteq Elements(x)
  BY <1>2, ElementsOf DEF x
<1>5. Clean(v)
  BY <1>1, <1>3 DEF Clean
<1>6. Part(v, w)
  BY <1>1, <1>4 DEF Part, x
<1> QED
  BY <1>1, <1>3, <1>5, <1>6 DEF v, x

\* Steps that leave the frames of the wire in order, and those that add one.
LEMMA WireStays ==
  ASSUME RelayInv, WireOK, \A c \in Calls : Stays(c),
         wire' \in [Nodes -> Seq(Frames)], Clean(wire'), Part(wire', wire)
  PROVE  WireOK'
<1>1. ASSUME NEW m \in Nodes, NEW f \in Elements(wire'[m]) PROVE FrameOK(m, f)'
  <2>1. f \in Elements(wire[m])
    BY <1>1 DEF Part
  <2>2. f \in Frames /\ FrameOK(m, f)
    BY <2>1, StateFields, ElementsOf DEF RelayInv, WireOK
  <2>3. f.call \in Calls
    BY <2>2 DEF Frames
  <2>4. call[f.call].id \in Nat
    BY <2>3, StateFields DEF RelayInv, CallRec
  <2> QED
    BY <2>2, <2>3, <2>4, FrameStays
<1> QED
  BY <1>1 DEF WireOK, Clean

LEMMA WireGrows ==
  ASSUME RelayInv, WireOK, \A c \in Calls : Stays(c),
         NEW w \in [Nodes -> Seq(Frames)], Clean(w), Part(w, wire), NEW n \in Nodes, NEW f \in Frames,
         wire' = Sends(w, n, f), f.op = "OPEN" => NoOpen(w[Other(n)], f.call), FrameOK(Other(n), f)'
  PROVE  WireOK'
<1>0. Clean(wire') /\ Within(wire', w, Other(n), f)
  BY SendsClean
<1>1. ASSUME NEW m \in Nodes, NEW e \in Elements(wire'[m]) PROVE FrameOK(m, e)'
  <2>1. CASE e \in Elements(w[m])
    <3>1. e \in Elements(wire[m])
      BY <2>1 DEF Part
    <3>2. e \in Frames /\ FrameOK(m, e)
      BY <3>1, StateFields, ElementsOf DEF RelayInv, WireOK
    <3>3. e.call \in Calls
      BY <3>2 DEF Frames
    <3>4. call[e.call].id \in Nat
      BY <3>3, StateFields DEF RelayInv, CallRec
    <3> QED
      BY <3>2, <3>3, <3>4, FrameStays
  <2>2. CASE m = Other(n) /\ e = f
    BY <2>2
  <2> QED
    BY <1>0, <1>1, <2>1, <2>2 DEF Within
<1> QED
  BY <1>0, <1>1 DEF WireOK, Clean

LEMMA WireIsClean ==
  ASSUME WireOK
  PROVE  Clean(wire) /\ Part(wire, wire)
  BY DEF WireOK, Clean, Part

-----------------------------------------------------------------------------
(* A pipe: what goes in at one place comes out at the next.                *)

\* The message of e is the k-th of p.
Carrying(e, p, k) == Is(e, p) = {k}

LEMMA IsOne ==
  ASSUME NEW e, NEW p, NEW k \in Nat, e.msg = Message(p, k)
  PROVE  Carrying(e, p, k)
  BY DEF Carrying, Is, Message

LEMMA NumsAreNat ==
  ASSUME NEW x, NEW p
  PROVE  Nums(x, p) \subseteq Nat
  BY DEF Nums

LEMMA LikeItself ==
  ASSUME NEW x, NEW p
  PROVE  Like(x, x, p)
  BY DEF Like

LEMMA AppendOne ==
  ASSUME NEW S, NEW q \in Seq(S), NEW e \in S
  PROVE  q \o <<e>> = Append(q, e) /\ <<e>> \in Seq(S) /\ Len(<<e>>) = 1
  OBVIOUS

LEMMA AppendCarries ==
  ASSUME NEW S, NEW x \in Seq(S), NEW e \in S, NEW p, NEW k \in Nat, Carrying(e, p, k)
  PROVE  /\ Nums(Append(x, e), p) = Nums(x, p) \cup {k}
         /\ Ordered(x, p) /\ (\A j \in Nums(x, p) : j < k) => Ordered(Append(x, e), p)
<1>1. Adds(Append(x, e), x, e, p)
  BY AppendNums
<1>2. Ordered(x, p) /\ Below(Nums(x, p), Is(e, p)) => Ordered(Append(x, e), p)
  BY AppendNums
<1> QED
  BY <1>1, <1>2 DEF Adds, Carrying, Below

LEMMA TailCarries ==
  ASSUME NEW S, NEW x \in Seq(S), x # <<>>, NEW p, NEW k \in Nat, Carrying(Head(x), p, k), Ordered(x, p)
  PROVE  /\ Nums(x, p) = Nums(Tail(x), p) \cup {k} /\ Ordered(Tail(x), p)
         /\ \A j \in Nums(Tail(x), p) : k < j
<1>1. Adds(x, Tail(x), Head(x), p)
  BY TailNums
<1>2. Ordered(Tail(x), p) /\ Below(Is(Head(x), p), Nums(Tail(x), p))
  BY TailNums
<1> QED
  BY <1>1, <1>2 DEF Adds, Carrying, Below

LEMMA TailLike ==
  ASSUME NEW S, NEW x \in Seq(S), x # <<>>, NEW p, Is(Head(x), p) = {}
  PROVE  Like(Tail(x), x, p)
<1>1. Adds(x, Tail(x), Head(x), p)
  BY TailNums
<1>2. Ordered(x, p) => Ordered(Tail(x), p)
  BY TailNums
<1> QED
  BY <1>1, <1>2 DEF Adds, Like

LEMMA AppendLike ==
  ASSUME NEW S, NEW x \in Seq(S), NEW e \in S, NEW p, Is(e, p) = {}
  PROVE  Like(Append(x, e), x, p)
<1>1. Adds(Append(x, e), x, e, p)
  BY AppendNums
<1>2. Ordered(x, p) /\ Below(Nums(x, p), Is(e, p)) => Ordered(Append(x, e), p)
  BY AppendNums
<1> QED
  BY <1>1, <1>2 DEF Adds, Like, Below

LEMMA UpSame ==
  ASSUME NEW p, NEW x, NEW y, NEW q, NEW r, NEW s, NEW g, Like(y, x, p), Like(r, q, p), UpOK(p, x, q, s)
  PROVE  /\ UpOK(p, y, r, s) /\ (NoGap(p, x, q, g) => NoGap(p, y, r, g))
         /\ NoLoss(p, x, q, g, s) => NoLoss(p, y, r, g, s)
<1>1. Nums(y, p) = Nums(x, p) /\ Nums(r, p) = Nums(q, p)
  BY DEF Like
<1> QED
  BY <1>1 DEF UpOK, NoGap, NoLoss, Like

LEMMA UpCloses ==
  ASSUME NEW p, NEW x, NEW y, NEW q, NEW s \in Nat, NEW t \in Nat, s <= t, NEW g \in Nat,
         Like(y, x, p), UpOK(p, x, q, s)
  PROVE  UpOK(p, y, <<>>, t) /\ (NoGap(p, x, q, g) => NoGap(p, y, <<>>, g))
<1> DEFINE A == Nums(x, p)
           B == Nums(q, p)
<1>1. Nums(y, p) = A /\ Nums(<<>>, p) = {} /\ Ordered(<<>>, p) /\ Ordered(y, p)
  BY NoMessages DEF Like, UpOK
<1>2. A \subseteq Nat /\ B \subseteq Nat
  BY NumsAreNat
<1>3. Below(A, B) /\ A \subseteq 1..s
  BY DEF UpOK
<1>4. UpOK(p, y, <<>>, t)
  BY <1>1, <1>3 DEF UpOK, Below
<1>5. ASSUME NoGap(p, x, q, g) PROVE NoGap(p, y, <<>>, g)
  <2>1. \A k \in A : g < k /\ g + 1..k \subseteq A \cup B
    BY <1>5 DEF NoGap
  <2> HIDE DEF A, B
  <2>2. \A k \in A : g < k /\ g + 1..k \subseteq A
    BY <1>2, <1>3, <2>1 DEF Below
  <2> QED
    BY <1>1, <2>2 DEF NoGap
<1> QED
  BY <1>4, <1>5

LEMMA UpSends ==
  ASSUME NEW S, NEW p, NEW x, NEW q \in Seq(S), NEW e \in S, NEW s \in Nat, NEW g \in Nat, g <= s,
         Carrying(e, p, s + 1), UpOK(p, x, q, s)
  PROVE  /\ UpOK(p, x, Append(q, e), s + 1)
         /\ NoGap(p, x, q, g) /\ NoLoss(p, x, q, g, s) =>
              NoGap(p, x, Append(q, e), g) /\ NoLoss(p, x, Append(q, e), g, s + 1)
<1> DEFINE A == Nums(x, p)
           B == Nums(q, p)
           r == Append(q, e)
<1>1. A \subseteq Nat /\ B \subseteq Nat /\ A \cup B \subseteq 1..s /\ Below(A, B) /\ Ordered(x, p)
  BY NumsAreNat DEF UpOK
<1>2. Nums(r, p) = B \cup {s + 1}
  BY AppendCarries
<1>3. Ordered(r, p)
  <2>1. Ordered(q, p) /\ \A j \in Nums(q, p) : j < s + 1
    BY <1>1 DEF UpOK
  <2> QED
    BY <2>1, AppendCarries
<1> HIDE DEF r
<1>4. UpOK(p, x, r, s + 1)
  <2>1. Below(A, B \cup {s + 1}) /\ A \cup (B \cup {s + 1}) \subseteq 1..(s + 1)
    <3> HIDE DEF A, B
    <3> QED
      BY <1>1 DEF Below
  <2> QED
    BY <1>1, <1>2, <1>3, <2>1 DEF UpOK
<1>5. ASSUME NoGap(p, x, q, g), NoLoss(p, x, q, g, s)
      PROVE  NoGap(p, x, r, g) /\ NoLoss(p, x, r, g, s + 1)
  <2>1. (\A k \in A \cup B : g < k /\ g + 1..k \subseteq A \cup B) /\ g + 1..s \subseteq A \cup B
    BY <1>5 DEF NoGap, NoLoss
  <2> DEFINE C == A \cup (B \cup {s + 1})
  <2>2. (\A k \in C : g < k /\ g + 1..k \subseteq C) /\ g + 1..(s + 1) \subseteq C
    <3> HIDE DEF A, B
    <3> QED
      BY <1>1, <2>1
  <2> QED
    BY <1>2, <2>2 DEF NoGap, NoLoss
<1> QED
  BY <1>4, <1>5 DEF r

LEMMA UpDrains ==
  ASSUME NEW S, NEW T, NEW p, NEW x \in Seq(S), NEW q \in Seq(T), q # <<>>, NEW f \in S, NEW s \in Nat,
         NEW g, NEW k \in Nat, Carrying(Head(q), p, k), Carrying(f, p, k), UpOK(p, x, q, s)
  PROVE  /\ UpOK(p, Append(x, f), Tail(q), s)
         /\ NoGap(p, x, q, g) => NoGap(p, Append(x, f), Tail(q), g)
         /\ NoLoss(p, x, q, g, s) => NoLoss(p, Append(x, f), Tail(q), g, s)
         /\ UpOK(p, x, Tail(q), s)
<1> DEFINE A == Nums(x, p)
           B == Nums(q, p)
           C == Nums(Tail(q), p)
           y == Append(x, f)
           r == Tail(q)
<1>1. A \subseteq Nat /\ C \subseteq Nat /\ A \cup B \subseteq 1..s /\ Below(A, B) /\ Ordered(x, p) /\ Ordered(q, p)
  BY NumsAreNat DEF UpOK
<1>2. B = C \cup {k} /\ Ordered(r, p) /\ \A j \in C : k < j
  BY <1>1, TailCarries
<1>3. Nums(y, p) = A \cup {k}
  BY AppendCarries
<1>4. Ordered(y, p)
  <2>1. Ordered(x, p) /\ \A j \in Nums(x, p) : j < k
    BY <1>1, <1>2 DEF Below
  <2> QED
    BY <2>1, AppendCarries
<1> HIDE DEF y
<1>5. UpOK(p, y, r, s) /\ UpOK(p, x, r, s)
  <2>1. /\ Below(A \cup {k}, C) /\ (A \cup {k}) \cup C \subseteq 1..s
        /\ Below(A, C) /\ A \cup C \subseteq 1..s
    <3> HIDE DEF A, B, C
    <3> QED
      BY <1>1, <1>2 DEF Below
  <2> QED
    BY <1>1, <1>2, <1>3, <1>4, <2>1 DEF UpOK
<1>6. A \cup B = (A \cup {k}) \cup C
  BY <1>2
<1>7. Nums(x, p) \cup Nums(q, p) = Nums(y, p) \cup Nums(r, p)
  BY <1>3, <1>6
<1>8. NoGap(p, x, q, g) => NoGap(p, y, r, g)
  BY <1>7 DEF NoGap
<1>9. NoLoss(p, x, q, g, s) => NoLoss(p, y, r, g, s)
  BY <1>7 DEF NoLoss
<1> QED
  BY <1>5, <1>8, <1>9 DEF y

LEMMA UpReceives ==
  ASSUME NEW S, NEW p, NEW x \in Seq(S), x # <<>>, NEW q, NEW s \in Nat, NEW g \in Nat, NEW k \in Nat,
         Carrying(Head(x), p, k), UpOK(p, x, q, s)
  PROVE  /\ UpOK(p, Tail(x), q, s)
         /\ NoGap(p, x, q, g) => /\ k = g + 1 /\ k <= s /\ NoGap(p, Tail(x), q, g + 1)
                                 /\ NoLoss(p, x, q, g, s) => NoLoss(p, Tail(x), q, g + 1, s)
<1> DEFINE A == Nums(x, p)
           B == Nums(q, p)
           C == Nums(Tail(x), p)
           y == Tail(x)
<1>1. B \subseteq Nat /\ C \subseteq Nat /\ A \cup B \subseteq 1..s /\ Below(A, B) /\ Ordered(x, p) /\ Ordered(q, p)
  BY NumsAreNat DEF UpOK
<1>2. A = C \cup {k} /\ Ordered(y, p) /\ \A j \in C : k < j
  BY <1>1, TailCarries
<1>3. UpOK(p, y, q, s)
  <2>1. Below(C, B) /\ C \cup B \subseteq 1..s
    <3> HIDE DEF A, B, C
    <3> QED
      BY <1>1, <1>2 DEF Below
  <2> QED
    BY <1>1, <1>2, <2>1 DEF UpOK
<1>4. ASSUME NoGap(p, x, q, g) PROVE k = g + 1 /\ k <= s /\ NoGap(p, y, q, g + 1)
  <2>1. \A j \in A \cup B : g < j /\ g + 1..j \subseteq A \cup B
    BY <1>4 DEF NoGap
  <2>2. k = g + 1 /\ k <= s
    <3> HIDE DEF A, B, C
    <3>1. k \in A /\ g < k /\ g + 1..k \subseteq A \cup B
      BY <1>2, <2>1
    <3>2. g + 1 \in A \cup B
      BY <3>1
    <3>3. \A j \in A \cup B : k <= j
      BY <1>1, <1>2 DEF Below
    <3> QED
      BY <1>1, <3>1, <3>2, <3>3
  <2>3. \A j \in C \cup B : g + 1 < j /\ g + 1 + 1..j \subseteq C \cup B
    <3> HIDE DEF A, B, C
    <3>1. \A j \in C \cup B : g + 1 < j
      BY <1>1, <1>2, <2>2 DEF Below
    <3> QED
      BY <1>1, <1>2, <2>1, <2>2, <3>1
  <2> QED
    BY <2>2, <2>3 DEF NoGap
<1>5. ASSUME NoGap(p, x, q, g), NoLoss(p, x, q, g, s) PROVE NoLoss(p, y, q, g + 1, s)
  <2>1. g + 1..s \subseteq A \cup B
    BY <1>5 DEF NoLoss
  <2>2. g + 1 + 1..s \subseteq C \cup B
    <3> HIDE DEF A, B, C
    <3> QED
      BY <1>2, <1>4, <1>5, <2>1
  <2> QED
    BY <2>2 DEF NoLoss
<1> QED
  BY <1>3, <1>4, <1>5

\* Before the dialler has sent anything.
LEMMA UpFresh ==
  ASSUME NEW p, NEW x, NEW q, UpOK(p, x, q, 0)
  PROVE  NoGap(p, x, q, 0) /\ NoLoss(p, x, q, 0, 0)
<1>1. Nums(x, p) \cup Nums(q, p) = {} /\ 0 + 1..0 = {}
  <2>1. 1..0 = {} /\ 0 + 1..0 = {}
    OBVIOUS
  <2> QED
    BY <2>1 DEF UpOK
<1> QED
  BY <1>1 DEF NoGap, NoLoss

\* After the wire was cut.
LEMMA UpCut ==
  ASSUME NEW p, NEW x, NEW q, NEW s, UpOK(p, x, q, s)
  PROVE  UpOK(p, <<>>, q, s)
  BY NoMessages DEF UpOK, Below

LEMMA DownSame ==
  ASSUME NEW p, NEW x, NEW y, NEW i, NEW q, NEW r, NEW g, NEW s,
         Like(y, x, p), Like(r, q, p), DownOK(p, x, i, q, g, s)
  PROVE  DownOK(p, y, i, r, g, s)
<1>1. Nums(y, p) = Nums(x, p) /\ Nums(r, p) = Nums(q, p)
  BY DEF Like
<1> QED
  BY <1>1 DEF DownOK, Like

LEMMA DownSends ==
  ASSUME NEW S, NEW p, NEW x \in Seq(S), NEW f \in S, NEW i, NEW q, NEW g \in Nat, NEW s \in Nat, g <= s,
         Carrying(f, p, s + 1), DownOK(p, x, i, q, g, s)
  PROVE  DownOK(p, Append(x, f), i, q, g, s + 1)
<1> DEFINE A == Nums(x, p)
           I == Nums(i, p)
           Q == Nums(q, p)
           y == Append(x, f)
<1>1. A \subseteq Nat /\ I \subseteq Nat /\ Q \subseteq Nat /\ Q \cup I \cup A = g + 1..s
  BY NumsAreNat DEF DownOK
<1>2. Nums(y, p) = A \cup {s + 1}
  BY AppendCarries
<1>3. Ordered(y, p)
  <2>1. Ordered(x, p) /\ \A j \in Nums(x, p) : j < s + 1
    BY <1>1 DEF DownOK
  <2> QED
    BY <2>1, AppendCarries
<1> HIDE DEF y
<1>4. Below(Q, A \cup {s + 1}) /\ Below(I, A \cup {s + 1}) /\ Q \cup I \cup (A \cup {s + 1}) = g + 1..(s + 1)
  <2>1. Below(Q, A) /\ Below(I, A)
    BY DEF DownOK
  <2> HIDE DEF A, I, Q
  <2>2. Q \subseteq 1..s /\ I \subseteq 1..s
    BY <1>1
  <2>3. g + 1..(s + 1) = (g + 1..s) \cup {s + 1}
    OBVIOUS
  <2> QED
    BY <1>1, <2>1, <2>2, <2>3 DEF Below
<1>5. DownOK(p, y, i, q, g, s + 1)
  BY <1>2, <1>3, <1>4 DEF DownOK
<1> QED
  BY <1>5 DEF y

\* A message goes from the wire to the inbox,
LEMMA DownKept ==
  ASSUME NEW S, NEW T, NEW p, NEW x \in Seq(S), x # <<>>, NEW i \in Seq(T), NEW e \in T, NEW q, NEW g, NEW s,
         NEW k \in Nat, Carrying(Head(x), p, k), Carrying(e, p, k), DownOK(p, x, i, q, g, s)
  PROVE  DownOK(p, Tail(x), Append(i, e), q, g, s)
<1> DEFINE A == Nums(x, p)
           C == Nums(Tail(x), p)
           I == Nums(i, p)
           Q == Nums(q, p)
           y == Tail(x)
           r == Append(i, e)
<1>1. A = C \cup {k} /\ Ordered(y, p) /\ \A j \in C : k < j
  BY TailCarries DEF DownOK
<1>2. Nums(r, p) = I \cup {k}
  BY AppendCarries
<1>3. Below(Q, I) /\ Below(Q, A) /\ Below(I, A) /\ Q \cup I \cup A = g + 1..s
  BY DEF DownOK
<1>4. Ordered(r, p)
  <2>1. Ordered(i, p) /\ \A j \in Nums(i, p) : j < k
    BY <1>1, <1>3 DEF DownOK, Below
  <2> QED
    BY <2>1, AppendCarries
<1> HIDE DEF r
<1>5. /\ Below(Q, I \cup {k}) /\ Below(Q, C) /\ Below(I \cup {k}, C)
      /\ Q \cup (I \cup {k}) \cup C = g + 1..s
  <2> HIDE DEF A, C, I, Q
  <2> QED
    BY <1>1, <1>3 DEF Below
<1>6. DownOK(p, y, r, q, g, s)
  BY <1>1, <1>2, <1>4, <1>5 DEF DownOK
<1> QED
  BY <1>6 DEF r

\* or to the queue,
LEMMA DownQueued ==
  ASSUME NEW S, NEW T, NEW p, NEW x \in Seq(S), x # <<>>, NEW q \in Seq(T), NEW e \in T, NEW g, NEW s,
         NEW k \in Nat, Carrying(Head(x), p, k), Carrying(e, p, k), DownOK(p, x, <<>>, q, g, s)
  PROVE  DownOK(p, Tail(x), <<>>, Append(q, e), g, s)
<1> DEFINE A == Nums(x, p)
           C == Nums(Tail(x), p)
           Q == Nums(q, p)
           y == Tail(x)
           r == Append(q, e)
<1>1. A = C \cup {k} /\ Ordered(y, p) /\ \A j \in C : k < j
  BY TailCarries DEF DownOK
<1>2. Nums(r, p) = Q \cup {k}
  BY AppendCarries
<1>3. Below(Q, A) /\ Q \cup A = g + 1..s /\ Nums(<<>>, p) = {} /\ Ordered(<<>>, p)
  BY NoMessages DEF DownOK
<1>4. Ordered(r, p)
  <2>1. Ordered(q, p) /\ \A j \in Nums(q, p) : j < k
    BY <1>1, <1>3 DEF DownOK, Below
  <2> QED
    BY <2>1, AppendCarries
<1> HIDE DEF r
<1>5. Below(Q \cup {k}, C) /\ (Q \cup {k}) \cup {} \cup C = g + 1..s
  <2> HIDE DEF A, C, Q
  <2> QED
    BY <1>1, <1>3 DEF Below
<1>6. DownOK(p, y, <<>>, r, g, s)
  <2>1. Below(Q \cup {k}, {}) /\ Below({}, C)
    BY DEF Below
  <2> QED
    BY <1>1, <1>2, <1>3, <1>4, <1>5, <2>1 DEF DownOK
<1> QED
  BY <1>6 DEF r

\* the inbox becomes the queue,
LEMMA DownAttached ==
  ASSUME NEW p, NEW x, NEW i, NEW g, NEW s, DownOK(p, x, i, <<>>, g, s)
  PROVE  DownOK(p, x, <<>>, i, g, s)
<1>1. Nums(<<>>, p) = {} /\ Ordered(<<>>, p)
  BY NoMessages
<1>2. Below(Nums(i, p), {}) /\ Below({}, Nums(x, p))
  BY DEF Below
<1> QED
  BY <1>1, <1>2 DEF DownOK

\* and the next one reaches the dialler.
LEMMA DownDrains ==
  ASSUME NEW S, NEW p, NEW x, NEW i, NEW q \in Seq(S), q # <<>>, NEW g \in Nat, NEW s \in Nat,
         NEW k \in Nat, Carrying(Head(q), p, k), DownOK(p, x, i, q, g, s)
  PROVE  k = g + 1 /\ k <= s /\ DownOK(p, x, i, Tail(q), g + 1, s)
<1> DEFINE A == Nums(x, p)
           I == Nums(i, p)
           Q == Nums(q, p)
           C == Nums(Tail(q), p)
           r == Tail(q)
<1>1. Q = C \cup {k} /\ Ordered(r, p) /\ \A j \in C : k < j
  BY TailCarries DEF DownOK
<1>2. /\ Below(Q, I) /\ Below(Q, A) /\ Below(I, A) /\ Q \cup I \cup A = g + 1..s
      /\ Ordered(x, p) /\ Ordered(i, p)
  BY DEF DownOK
<1>3. A \subseteq Nat /\ I \subseteq Nat /\ C \subseteq Nat
  BY NumsAreNat
<1>4. k = g + 1 /\ k <= s
  <2> HIDE DEF A, I, Q, C
  <2>1. k \in g + 1..s /\ g + 1 \in Q \cup I \cup A
    BY <1>1, <1>2
  <2>2. \A j \in Q \cup I \cup A : k <= j
    BY <1>1, <1>2, <1>3 DEF Below
  <2> QED
    BY <2>1, <2>2
<1>5. Below(C, I) /\ Below(C, A) /\ C \cup I \cup A = g + 1 + 1..s
  <2> HIDE DEF A, I, Q, C
  <2>1. \A j \in C \cup I \cup A : k < j
    BY <1>1, <1>2 DEF Below
  <2>2. C \cup I \cup A \subseteq g + 1 + 1..s
    BY <1>1, <1>2, <1>3, <1>4, <2>1
  <2>3. g + 1 + 1..s \subseteq C \cup I \cup A
    BY <1>1, <1>2, <1>4
  <2> QED
    BY <1>1, <1>2, <2>2, <2>3 DEF Below
<1>6. DownOK(p, x, i, r, g + 1, s)
  BY <1>1, <1>2, <1>5 DEF DownOK
<1> QED
  BY <1>4, <1>6

-----------------------------------------------------------------------------
(* What a step leaves alone.                                               *)

\* Nothing of a session changes, and it keeps its places in the maps.
Untouched(d) ==
  /\ call'[d] = call[d] /\ client'[d] = client[d] /\ host'[d] = host[d] /\ at'[d] = at[d]
  /\ Quiet(wire, wire', Up(d)) /\ Quiet(wire, wire', Down(d))
KeepsPlaces(d) ==
  /\ host[d].open => host[d].id \in DOMAIN hosted'[Holder(d)]
  /\ Begun(d) /\ ~call[d].closed =>
       /\ at[d] \in link' /\ call[d].id \in DOMAIN carried'[at[d]] /\ carried'[at[d]][call[d].id] = d

LEMMA OthersKeep ==
  ASSUME RestType, NEW d \in Calls, SessionOK(d), Untouched(d), KeepsPlaces(d)
  PROVE  SessionOK(d)'
<1>1. Holder(d)' = Holder(d) /\ Holder(d) \in Nodes /\ at[d] \in Nodes
  BY OtherNode DEF Holder, Untouched, RestType
<1>2. call'[d] = call[d] /\ client'[d] = client[d] /\ host'[d] = host[d] /\ at'[d] = at[d]
  BY DEF Untouched
<1>3. HostOK(d)'
  BY <1>1, <1>2 DEF SessionOK, HostOK, KeepsPlaces, Begun
<1>4. CallOK(d)'
  BY <1>1, <1>2 DEF SessionOK, CallOK, KeepsPlaces, Begun
<1>5. Upwards(d)'
  <2> DEFINE p == Up(d)
             x == wire[Holder(d)]
             y == wire'[Holder(d)]
             q == call[d].queue
             g == Len(host[d].got)
             s == client[d].sent
  <2>1. Like(y, x, p) /\ Like(q, q, p)
    BY <1>1, LikeItself DEF Untouched, Quiet
  <2>2. UpOK(p, x, q, s) /\ (Listens(d) => NoGap(p, x, q, g) /\ (~call[d].closed => NoLoss(p, x, q, g, s)))
    BY DEF SessionOK, Upwards
  <2> HIDE DEF p, x, y, q, g, s
  <2>3. /\ UpOK(p, y, q, s) /\ (NoGap(p, x, q, g) => NoGap(p, y, q, g))
        /\ NoLoss(p, x, q, g, s) => NoLoss(p, y, q, g, s)
    BY <2>1, <2>2, UpSame
  <2>4. Listens(d)' <=> Listens(d)
    BY <1>2 DEF Listens
  <2> QED
    BY <1>1, <1>2, <2>2, <2>3, <2>4 DEF Upwards, p, x, y, q, g, s
<1>6. Downwards(d)'
  <2> DEFINE p == Down(d)
             x == wire[at[d]]
             y == wire'[at[d]]
             q == call[d].queue
  <2>1. Like(y, x, p) /\ Like(q, q, p)
    BY <1>1, LikeItself DEF Untouched, Quiet
  <2> HIDE DEF p, x, y, q
  <2>2. ~call[d].closed => DownOK(p, x, call[d].inbox, q, Len(client[d].got), host[d].sent)
    BY DEF SessionOK, Downwards, p, x, y, q
  <2>3. ~call[d].closed => DownOK(p, y, call[d].inbox, q, Len(client[d].got), host[d].sent)
    BY <2>1, <2>2, DownSame
  <2> QED
    BY <1>1, <1>2, <2>3 DEF Downwards, p, x, y, q
<1> QED
  BY <1>3, <1>4, <1>5, <1>6 DEF SessionOK

LEMMA OneSession ==
  ASSUME RelayInv, PipesInv, NEW c \in Calls,
         \A d \in Calls : d # c => Untouched(d) /\ KeepsPlaces(d),
         Numbers', WireOK', \A n \in Nodes : HostedOK(n)', SessionOK(c)'
  PROVE  PipesInv'
<1>1. RestType
  BY DEF RelayInv
<1>2. ASSUME NEW d \in Calls, d # c PROVE SessionOK(d)'
  BY <1>1, <1>2, OthersKeep DEF PipesInv
<1> QED
  BY <1>2 DEF PipesInv

LEMMA NumbersStay ==
  ASSUME Numbers, UNCHANGED <<next, at>>, \A d \in Calls : call'[d].id = call[d].id
  PROVE  Numbers'
  BY DEF Numbers, Begun, FirstSession

LEMMA HostedStays ==
  ASSUME RestType, \A n \in Nodes : HostedOK(n), UNCHANGED <<link, hosted, at>>,
         \A d \in Calls : host'[d].id = host[d].id /\ host'[d].open = host[d].open
  PROVE  \A n \in Nodes : HostedOK(n)'
<1>1. \A n \in Nodes : \A i \in DOMAIN hosted[n] : hosted[n][i] \in Calls
  BY SessionsType DEF RestType
<1>2. \A d \in Calls : Holder(d)' = Holder(d)
  BY DEF Holder
<1> QED
  BY <1>1, <1>2 DEF HostedOK

\* The holder gives up its place for a session.
LEMMA HostedLess ==
  ASSUME RestType, PipesInv, NEW c \in Calls, UNCHANGED <<link, at>>, host[c].pc # "none",
         hosted' = [hosted EXCEPT ![Holder(c)] = Without(hosted[Holder(c)], host[c].id)],
         \A d \in Calls : d # c => host'[d] = host[d]
  PROVE  /\ \A n \in Nodes : HostedOK(n)'
         /\ \A d \in Calls : d # c /\ host[d].open => host[d].id \in DOMAIN hosted'[Holder(d)]
<1> DEFINE n == Holder(c)
           f == hosted[n]
           id == host[c].id
           g == Without(f, id)
<1>1. n \in Nodes /\ id \in Nat /\ f \in Sessions /\ hosted \in [Nodes -> Sessions]
  BY OtherNode DEF Holder, RestType, HostRec
<1>2. DOMAIN g = DOMAIN f \ {id} /\ \A j \in DOMAIN f \ {id} : g[j] = f[j]
  <2> HIDE DEF f, id
  <2>1. DOMAIN g = DOMAIN f \ {id}
    BY <1>1, WithoutSessions
  <2>2. \A j \in DOMAIN f \ {id} : g[j] = f[j]
    BY <1>1, WithoutSessions
  <2> QED
    BY <2>1, <2>2
<1>3. hosted'[n] = g /\ \A m \in Nodes : m # n => hosted'[m] = hosted[m]
  BY <1>1
<1>4. \A d \in Calls : Holder(d)' = Holder(d) /\ Holder(d) \in Nodes
  BY OtherNode DEF Holder, RestType
<1>5. \A m \in Nodes : \A i \in DOMAIN hosted[m] : hosted[m][i] \in Calls
  BY <1>1, SessionsType
<1>6. \A m \in Nodes : \A i \in DOMAIN hosted'[m] : i \in DOMAIN hosted[m] /\ hosted'[m][i] = hosted[m][i] /\ hosted[m][i] # c
  <2>1. ASSUME NEW m \in Nodes, NEW i \in DOMAIN hosted[m], hosted[m][i] = c PROVE m = n /\ i = id
    BY <2>1 DEF PipesInv, HostedOK
  <2> HIDE DEF g, id
  <2>2. ASSUME NEW m \in Nodes, m # n, NEW i \in DOMAIN hosted'[m]
        PROVE  i \in DOMAIN hosted[m] /\ hosted'[m][i] = hosted[m][i] /\ hosted[m][i] # c
    BY <1>3, <2>1, <2>2
  <2>3. ASSUME NEW i \in DOMAIN hosted'[n]
        PROVE  i \in DOMAIN hosted[n] /\ hosted'[n][i] = hosted[n][i] /\ hosted[n][i] # c
    <3>1. i \in DOMAIN f \ {id} /\ hosted'[n][i] = f[i]
      BY <1>2, <1>3, <2>3
    <3> QED
      BY <1>1, <2>1, <3>1
  <2> QED
    BY <2>2, <2>3
<1>7. ASSUME NEW m \in Nodes PROVE HostedOK(m)'
  <2>1. HostedOK(m)
    BY DEF PipesInv
  <2>2. \A i \in DOMAIN hosted'[m] : i \in DOMAIN hosted[m] /\ hosted'[m][i] = hosted[m][i] /\ hosted[m][i] # c
    BY <1>6
  <2> QED
    BY <1>4, <1>5, <2>1, <2>2 DEF HostedOK
<1>8. ASSUME NEW d \in Calls, d # c, host[d].open PROVE host[d].id \in DOMAIN hosted'[Holder(d)]
  <2>1. host[d].id \in DOMAIN hosted[Holder(d)] /\ host[d].pc # "none"
    BY <1>8 DEF PipesInv, SessionOK, HostOK
  <2>2. host[d].id # id
    <3>1. /\ Begun(c) /\ host[c].id = call[c].id /\ Begun(d) /\ host[d].id = call[d].id
      BY <2>1 DEF PipesInv, SessionOK, HostOK
    <3> QED
      BY <1>8, <3>1 DEF PipesInv, Numbers
  <2> HIDE DEF g, id
  <2>3. CASE Holder(d) = n
    BY <1>2, <1>3, <2>1, <2>2, <2>3
  <2>4. CASE Holder(d) # n
    BY <1>3, <1>4, <2>1, <2>4
  <2> QED
    BY <2>3, <2>4
<1> QED
  BY <1>7, <1>8

\* The carrier gives up its place for a session.
LEMMA CarriedLess ==
  ASSUME RelayInv, PipesInv, NEW c \in Calls, Begun(c), UNCHANGED <<link, hosted>>,
         carried' = [carried EXCEPT ![at[c]] = Without(carried[at[c]], call[c].id)]
  PROVE  \A d \in Calls : d # c => KeepsPlaces(d)
<1> DEFINE n == at[c]
           f == carried[n]
           id == call[c].id
           g == Without(f, id)
<1>1. n \in Nodes /\ id \in Nat /\ f \in Sessions /\ carried \in [Nodes -> Sessions] /\ at \in [Calls -> Nodes]
  BY StateFields DEF RelayInv, RestType, CallRec
<1>2. DOMAIN g = DOMAIN f \ {id} /\ \A j \in DOMAIN f \ {id} : g[j] = f[j]
  <2> HIDE DEF f, id
  <2>1. DOMAIN g = DOMAIN f \ {id}
    BY <1>1, WithoutSessions
  <2>2. \A j \in DOMAIN f \ {id} : g[j] = f[j]
    BY <1>1, WithoutSessions
  <2> QED
    BY <2>1, <2>2
<1>3. carried'[n] = g /\ \A m \in Nodes : m # n => carried'[m] = carried[m]
  BY <1>1
<1>4. ASSUME NEW d \in Calls, d # c PROVE KeepsPlaces(d)
  <2>1. host[d].open => host[d].id \in DOMAIN hosted'[Holder(d)]
    BY DEF PipesInv, SessionOK, HostOK
  <2>2. ASSUME Begun(d), ~call[d].closed
        PROVE  at[d] \in link' /\ call[d].id \in DOMAIN carried'[at[d]] /\ carried'[at[d]][call[d].id] = d
    <3>1. at[d] \in link /\ call[d].id \in DOMAIN carried[at[d]] /\ carried[at[d]][call[d].id] = d
      BY <2>2 DEF PipesInv, SessionOK, CallOK
    <3>2. call[d].id # id
      BY <1>4, <2>2 DEF PipesInv, Numbers
    <3> HIDE DEF g, id
    <3>3. CASE at[d] = n
      BY <1>2, <1>3, <3>1, <3>2, <3>3
    <3>4. CASE at[d] # n
      BY <1>1, <1>3, <3>1, <3>4
    <3> QED
      BY <3>3, <3>4
  <2> QED
    BY <2>1, <2>2 DEF KeepsPlaces
<1> QED
  BY <1>4

LEMMA PlacesStay ==
  ASSUME PipesInv, UNCHANGED <<link, hosted, carried>>
  PROVE  \A d \in Calls : KeepsPlaces(d)
  BY DEF PipesInv, SessionOK, HostOK, CallOK, KeepsPlaces

\* A frame or an entry that says nothing to any pipe, or only to those of c; a wire
\* that changes for none, or only for those.
Silent(f) == \A d \in Calls : Is(f, Up(d)) = {} /\ Is(f, Down(d)) = {}
Only(f, c) == \A d \in Calls : d # c => Is(f, Up(d)) = {} /\ Is(f, Down(d)) = {}
QuietAll(w, v) == \A d \in Calls : Quiet(w, v, Up(d)) /\ Quiet(w, v, Down(d))
QuietBut(w, v, c) == \A d \in Calls : d # c => Quiet(w, v, Up(d)) /\ Quiet(w, v, Down(d))

LEMMA ControlIsSilent ==
  ASSUME NEW f, f.msg = NoMsg
  PROVE  Silent(f)
  BY DEF Silent, Is, NoMsg, Message

LEMMA UpOnly ==
  ASSUME NEW f, NEW c \in Calls, NEW k \in Nat, f.msg = Message(Up(c), k)
  PROVE  Only(f, c) /\ Is(f, Down(c)) = {} /\ Carrying(f, Up(c), k)
<1>1. \A d \in Calls : d # c => Up(d) # Up(c)
  BY DEF Up
<1>2. \A d \in Calls : Down(d) # Up(c)
  BY DEF Up, Down
<1>3. \A p, j : Message(p, j) = Message(Up(c), k) => p = Up(c)
  BY DEF Message
<1>4. Only(f, c) /\ Is(f, Down(c)) = {}
  BY <1>1, <1>2, <1>3 DEF Only, Is
<1> QED
  BY <1>4, IsOne

LEMMA DownOnly ==
  ASSUME NEW f, NEW c \in Calls, NEW k \in Nat, f.msg = Message(Down(c), k)
  PROVE  Only(f, c) /\ Is(f, Up(c)) = {} /\ Carrying(f, Down(c), k)
<1>1. \A d \in Calls : d # c => Down(d) # Down(c)
  BY DEF Down
<1>2. \A d \in Calls : Up(d) # Down(c)
  BY DEF Up, Down
<1>3. \A p, j : Message(p, j) = Message(Down(c), k) => p = Down(c)
  BY DEF Message
<1>4. Only(f, c) /\ Is(f, Up(c)) = {}
  BY <1>1, <1>2, <1>3 DEF Only, Is
<1> QED
  BY <1>4, IsOne

LEMMA SendsSilent ==
  ASSUME NEW w \in [Nodes -> Seq(Frames)], NEW n \in Nodes, NEW f \in Frames, Silent(f)
  PROVE  QuietAll(w, Sends(w, n, f))
  BY SendsQuiet DEF Silent, QuietAll

LEMMA SendsOnly ==
  ASSUME NEW w \in [Nodes -> Seq(Frames)], NEW n \in Nodes, NEW f \in Frames, NEW c \in Calls, Only(f, c)
  PROVE  QuietBut(w, Sends(w, n, f), c)
  BY SendsQuiet DEF Only, QuietBut

LEMMA TailSilent ==
  ASSUME NEW w \in [Nodes -> Seq(Frames)], NEW n \in Nodes, w[n] # <<>>, Silent(Head(w[n]))
  PROVE  QuietAll(w, [w EXCEPT ![n] = Tail(@)])
  BY TailQuiet DEF Silent, QuietAll

LEMMA TailOnly ==
  ASSUME NEW w \in [Nodes -> Seq(Frames)], NEW n \in Nodes, w[n] # <<>>, NEW c \in Calls, Only(Head(w[n]), c)
  PROVE  QuietBut(w, [w EXCEPT ![n] = Tail(@)], c)
  BY TailQuiet DEF Only, QuietBut

LEMMA AllBut ==
  ASSUME NEW u, NEW v, NEW w, NEW c, QuietBut(u, v, c), QuietAll(v, w)
  PROVE  QuietBut(u, w, c)
  BY QuietTwice DEF QuietAll, QuietBut

LEMMA AllAll ==
  ASSUME NEW u, NEW v, NEW w, QuietAll(u, v), QuietAll(v, w)
  PROVE  QuietAll(u, w)
  BY QuietTwice DEF QuietAll

LEMMA AllIsBut ==
  ASSUME NEW u, NEW v, NEW c, QuietAll(u, v)
  PROVE  QuietBut(u, v, c)
  BY DEF QuietAll, QuietBut

LEMMA QuietItself ==
  ASSUME NEW w
  PROVE  QuietAll(w, w)
  BY DEF QuietAll, Quiet, Like

-----------------------------------------------------------------------------
(* The steps of the carrier keep the pipes.                                *)

LEMMA CarrierStep ==
  ASSUME RelayInv, PipesInv, NEW c \in Calls, UNCHANGED <<link, next, hosted, at, host>>,
         call'[c].id = call[c].id, \A d \in Calls : d # c => call'[d] = call[d] /\ client'[d] = client[d],
         QuietBut(wire, wire', c), \A d \in Calls : d # c => KeepsPlaces(d),
         WireOK', CallOK(c)', Upwards(c)', Downwards(c)', Len(host[c].got) <= client'[c].sent
  PROVE  PipesInv'
<1>1. RestType
  BY DEF RelayInv
<1>2. \A d \in Calls : call'[d].id = call[d].id
  OBVIOUS
<1>3. Numbers'
  BY <1>2, NumbersStay DEF PipesInv
<1>4. \A n \in Nodes : HostedOK(n)'
  BY <1>1, HostedStays DEF PipesInv
<1>5. HostOK(c)'
  BY DEF PipesInv, SessionOK, HostOK, Begun, Holder
<1>6. \A d \in Calls : d # c => Untouched(d)
  BY DEF Untouched, QuietBut
<1> QED
  BY <1>3, <1>4, <1>5, <1>6, OneSession DEF SessionOK

\* No step of the carrier changes what a frame says.
LEMMA CarrierStays ==
  ASSUME UNCHANGED <<at, host>>, \A d \in Calls : call'[d].id = call[d].id
  PROVE  \A d \in Calls : Stays(d)
  BY DEF Stays

LEMMA NoneElements == Elements(<<>>) = {}
  BY DEF Elements

\* _closeCarried, wherever it is called from.
LEMMA ClosingStep ==
  ASSUME RelayInv, PipesInv, NEW c \in Calls, Begun(c), UNCHANGED <<link, next, hosted, at, host>>,
         NEW s \in Carrier, Becomes(CloseCarried(s, c)), Others(State, s, c), s.carried = carried,
         s.call[c].closed = FALSE, s.call[c].id = call[c].id, s.call[c].answer = call[c].answer,
         s.call[c].pc \in {"opening", "attached"}, s.call[c].pc = "attached" => call[c].answer = "accept",
         client[c].sent <= s.client[c].sent, s.client[c].sent > 0 => s.call[c].pc = "attached",
         s.client[c].got = client[c].got,
         Clean(s.wire), Part(s.wire, wire), QuietBut(wire, s.wire, c), Quiet(wire, s.wire, Up(c))
  PROVE  PipesInv'
<1> DEFINE id == call[c].id
<1>a. at[c] \in Nodes
  BY DEF RelayInv, RestType
<1>n. PICK n \in Nodes : n = at[c]
  BY <1>a
<1>0. /\ RestType /\ State.call = call /\ State.client = client /\ wire \in [Nodes -> Seq(Frames)]
      /\ call[c] \in CallRec /\ client[c] \in ClientRec /\ at \in [Calls -> Nodes] /\ n \in Nodes
      /\ s.wire \in [Nodes -> Seq(Frames)] /\ s.call \in [Calls -> CallRec] /\ s.client \in [Calls -> ClientRec]
      /\ s.call[c] \in CallRec /\ s.client[c] \in ClientRec /\ host[c] \in HostRec
  BY <1>n, StateFields, CarrierFields DEF RelayInv, RestType
<1>f. PICK f \in Frames : f = Frame("CLOSE", id, c, NoMsg)
  <2>1. id \in Nat
    BY <1>0 DEF CallRec
  <2>2. Frame("CLOSE", id, c, NoMsg) \in Frames
    BY <2>1, FrameType, MessageType DEF Ops
  <2> QED
    BY <2>2
<1>1. /\ call' = [s.call EXCEPT ![c] = [s.call[c] EXCEPT !.closed = TRUE, !.queue = <<>>, !.inbox = <<>>]]
      /\ carried' = [carried EXCEPT ![n] = Without(carried[n], id)] /\ wire' = Sends(s.wire, n, f)
      /\ client' = [s.client EXCEPT ![c] = [s.client[c] EXCEPT !.sock =
                       IF s.client[c].sock = "open" THEN "gone" ELSE s.client[c].sock]]
  <2> DEFINE t == CloseCarried(s, c)
  <2>1. /\ t.call = [s.call EXCEPT ![c] = [s.call[c] EXCEPT !.closed = TRUE, !.queue = <<>>, !.inbox = <<>>]]
        /\ t.carried = [s.carried EXCEPT ![at[c]] = Without(s.carried[at[c]], s.call[c].id)]
        /\ t.wire = Sends(s.wire, at[c], Frame("CLOSE", s.call[c].id, c, NoMsg))
        /\ t.client = [s.client EXCEPT ![c] = [s.client[c] EXCEPT !.sock =
                         IF s.client[c].sock = "open" THEN "gone" ELSE s.client[c].sock]]
    BY <1>0, CloseCarriedIs
  <2> HIDE DEF t
  <2>2. wire' = t.wire /\ carried' = t.carried /\ call' = t.call /\ client' = t.client
    BY DEF Becomes, t
  <2> QED
    BY <1>n, <1>f, <2>1, <2>2
<1>2. \A d \in Calls : d # c => call'[d] = call[d] /\ client'[d] = client[d]
  BY <1>0, <1>1 DEF Others
<1>3. /\ call'[c].id = id /\ call'[c].closed = TRUE /\ call'[c].queue = <<>> /\ call'[c].inbox = <<>>
      /\ call'[c].answer = call[c].answer
      /\ call'[c].pc = s.call[c].pc /\ client'[c].sock # "open" /\ client'[c].sent = s.client[c].sent
      /\ client'[c].got = client[c].got
  BY <1>0, <1>1 DEF CallRec, ClientRec
<1>4. f.msg = NoMsg /\ f.op = "CLOSE" /\ f.call = c /\ f.id = id
  BY <1>f DEF Frame
<1>5. QuietAll(s.wire, wire')
  BY <1>0, <1>1, <1>4, ControlIsSilent, SendsSilent
<1>6. QuietBut(wire, wire', c) /\ Quiet(wire, wire', Up(c))
  BY <1>5, AllBut, QuietTwice DEF QuietAll
<1>7. WireOK'
  <2>1. \A d \in Calls : Stays(d)
    BY <1>2, <1>3, CarrierStays
  <2>2. FrameOK(Other(n), f)'
    BY <1>3, <1>4 DEF FrameOK, Begun
  <2> QED
    BY <1>0, <1>1, <1>4, <2>1, <2>2, WireGrows DEF PipesInv
<1>8. \A d \in Calls : d # c => KeepsPlaces(d)
  BY <1>1, <1>n, CarriedLess
<1>9. SessionOK(c)
  BY DEF PipesInv
<1>10. CallOK(c)'
  <2>1. /\ Begun(c)' /\ Elements(call'[c].queue) = {} /\ Elements(call'[c].inbox) = {}
        /\ call[c].answer = "accept" => host[c].pc \in {"live", "over"}
        /\ Len(client[c].got) <= host[c].sent
    BY <1>3, <1>9, NoneElements DEF Begun, SessionOK, CallOK
  <2> QED
    BY <1>3, <2>1 DEF CallOK
<1>11. Downwards(c)'
  BY <1>3 DEF Downwards
<1>12. Upwards(c)'
  <2> DEFINE p == Up(c)
             x == wire[Holder(c)]
             y == wire'[Holder(c)]
             q == call[c].queue
             g == Len(host[c].got)
  <2>1. Holder(c) \in Nodes /\ Holder(c)' = Holder(c) /\ g \in Nat /\ client[c].sent \in Nat /\ s.client[c].sent \in Nat
    BY <1>0, OtherNode DEF Holder, HostRec, ClientRec
  <2>2. Like(y, x, p)
    BY <1>6, <2>1 DEF Quiet
  <2>3. UpOK(p, x, q, client[c].sent) /\ (Listens(c) => NoGap(p, x, q, g))
    BY <1>9 DEF SessionOK, Upwards
  <2> HIDE DEF p, x, y, q, g
  <2>4. UpOK(p, y, <<>>, s.client[c].sent) /\ (NoGap(p, x, q, g) => NoGap(p, y, <<>>, g))
    BY <2>1, <2>2, <2>3, UpCloses
  <2>5. Listens(c)' <=> Listens(c)
    BY DEF Listens
  <2> QED
    BY <1>3, <2>1, <2>3, <2>4, <2>5 DEF Upwards, p, x, y, q, g
<1>13. Len(host[c].got) <= client'[c].sent
  <2>1. Len(host[c].got) <= client[c].sent /\ Len(host[c].got) \in Nat /\ client[c].sent \in Nat /\ s.client[c].sent \in Nat
    BY <1>0, <1>9 DEF SessionOK, HostOK, HostRec, ClientRec
  <2> QED
    BY <1>3, <2>1
<1> QED
  BY <1>2, <1>3, <1>6, <1>7, <1>8, <1>10, <1>11, <1>12, <1>13, CarrierStep

\* Nothing of a pipe changes.
LEMMA UpStill ==
  ASSUME RelayInv, NEW c \in Calls, Upwards(c), at'[c] = at[c], host'[c].got = host[c].got,
         Listens(c)' => Listens(c), client'[c].sent = client[c].sent,
         Like(call'[c].queue, call[c].queue, Up(c)), Quiet(wire, wire', Up(c)),
         ~call'[c].closed => ~call[c].closed
  PROVE  Upwards(c)'
<1> DEFINE p == Up(c)
           x == wire[Holder(c)]
           y == wire'[Holder(c)]
           q == call[c].queue
           r == call'[c].queue
           g == Len(host[c].got)
           s == client[c].sent
<1>1. Holder(c) \in Nodes /\ Holder(c)' = Holder(c)
  BY OtherNode DEF Holder, RelayInv, RestType
<1>2. Like(y, x, p) /\ Like(r, q, p)
  BY <1>1 DEF Quiet
<1>3. UpOK(p, x, q, s) /\ (Listens(c) => NoGap(p, x, q, g) /\ (~call[c].closed => NoLoss(p, x, q, g, s)))
  BY DEF Upwards
<1> HIDE DEF p, x, y, q, r, g, s
<1>4. /\ UpOK(p, y, r, s) /\ (NoGap(p, x, q, g) => NoGap(p, y, r, g))
      /\ NoLoss(p, x, q, g, s) => NoLoss(p, y, r, g, s)
  BY <1>2, <1>3, UpSame
<1> QED
  BY <1>1, <1>3, <1>4 DEF Upwards, p, x, y, q, r, g, s

LEMMA DownStill ==
  ASSUME RelayInv, NEW c \in Calls, Downwards(c), at'[c] = at[c], host'[c].sent = host[c].sent,
         client'[c].got = client[c].got, call'[c].inbox = call[c].inbox,
         Like(call'[c].queue, call[c].queue, Down(c)), Quiet(wire, wire', Down(c)),
         ~call'[c].closed => ~call[c].closed
  PROVE  Downwards(c)'
<1> DEFINE p == Down(c)
           x == wire[at[c]]
           y == wire'[at[c]]
           q == call[c].queue
           r == call'[c].queue
<1>1. at[c] \in Nodes
  BY DEF RelayInv, RestType
<1>2. Like(y, x, p) /\ Like(r, q, p)
  BY <1>1 DEF Quiet
<1> HIDE DEF p, x, y, q, r
<1>3. ~call[c].closed => DownOK(p, x, call[c].inbox, q, Len(client[c].got), host[c].sent)
  BY DEF Downwards, p, x, q
<1>4. ~call[c].closed => DownOK(p, y, call[c].inbox, r, Len(client[c].got), host[c].sent)
  BY <1>2, <1>3, DownSame
<1> QED
  BY <1>4 DEF Downwards, p, x, y, q, r

\* A step of the carrier that leaves the wire, the inbox and the queue alone.
LEMMA StillStep ==
  ASSUME RelayInv, PipesInv, NEW c \in Calls, UNCHANGED <<wire, link, next, hosted, at, host>>,
         \A d \in Calls : d # c => call'[d] = call[d] /\ client'[d] = client[d],
         \A d \in Calls : d # c => KeepsPlaces(d), CallOK(c)',
         call'[c].id = call[c].id, call'[c].queue = call[c].queue, call'[c].inbox = call[c].inbox,
         ~call'[c].closed => ~call[c].closed, client'[c].sent = client[c].sent, client'[c].got = client[c].got
  PROVE  PipesInv'
<1>1. QuietAll(wire, wire')
  BY QuietItself
<1>2. QuietBut(wire, wire', c) /\ Quiet(wire, wire', Up(c)) /\ Quiet(wire, wire', Down(c))
  BY <1>1, AllIsBut DEF QuietAll
<1>3. WireOK'
  <2>1. \A d \in Calls : call'[d].id = call[d].id
    OBVIOUS
  <2>2. \A d \in Calls : Stays(d)
    BY <2>1, CarrierStays
  <2>3. WireOK /\ wire' \in [Nodes -> Seq(Frames)] /\ Clean(wire') /\ Part(wire', wire)
    BY StateFields, WireIsClean DEF PipesInv, RelayInv
  <2> QED
    BY <2>2, <2>3, WireStays
<1>4. SessionOK(c)
  BY DEF PipesInv
<1>5. Like(call'[c].queue, call[c].queue, Up(c)) /\ Like(call'[c].queue, call[c].queue, Down(c))
  BY LikeItself
<1>6. Upwards(c)'
  <2>1. Listens(c)' => Listens(c)
    BY DEF Listens
  <2> QED
    BY <1>2, <1>4, <1>5, <2>1, UpStill DEF SessionOK
<1>7. Downwards(c)'
  BY <1>2, <1>4, <1>5, DownStill DEF SessionOK
<1>8. Len(host[c].got) <= client'[c].sent
  BY <1>4 DEF SessionOK, HostOK
<1> QED
  BY <1>2, <1>3, <1>6, <1>7, <1>8, CarrierStep

LEMMA RefusedPipes ==
  ASSUME RelayInv, PipesInv, NEW c \in Calls, call[c].pc \in {"idle", "opening"}, Refused(c),
         UNCHANGED <<wire, link, next, hosted, at, host>>, \A d \in Calls : d # c => KeepsPlaces(d)
  PROVE  PipesInv'
<1>0. /\ call \in [Calls -> CallRec] /\ client \in [Calls -> ClientRec]
      /\ call[c] \in CallRec /\ client[c] \in ClientRec /\ SessionOK(c)
  BY StateFields DEF RelayInv, PipesInv
<1>1. /\ call' = [call EXCEPT ![c] = [call[c] EXCEPT !.pc = "ended", !.closed = TRUE]]
      /\ client' = [client EXCEPT ![c] = [client[c] EXCEPT !.sock = "gone"]]
  BY <1>0 DEF Refused
<1>2. \A d \in Calls : d # c => call'[d] = call[d] /\ client'[d] = client[d]
  BY <1>0, <1>1
<1>3. /\ call'[c].pc = "ended" /\ call'[c].id = call[c].id /\ call'[c].answer = call[c].answer
      /\ call'[c].closed = TRUE /\ call'[c].inbox = call[c].inbox /\ call'[c].queue = call[c].queue
      /\ client'[c].sock = "gone" /\ client'[c].sent = client[c].sent /\ client'[c].got = client[c].got
  BY <1>0, <1>1 DEF CallRec, ClientRec
<1>4. CallOK(c)'
  BY <1>0, <1>3 DEF SessionOK, CallOK, Begun
<1> QED
  BY <1>2, <1>3, <1>4, StillStep

LEMMA OpenTimesOutPipes ==
  ASSUME RelayInv, PipesInv, NEW c \in Calls, OpenTimesOut(c)
  PROVE  PipesInv'
<1>0. call \in [Calls -> CallRec] /\ call[c] \in CallRec /\ SessionOK(c)
  BY StateFields DEF RelayInv, PipesInv
<1>1. /\ call' = [call EXCEPT ![c] = [call[c] EXCEPT !.answer = "decline"]] /\ call[c].pc = "opening"
      /\ UNCHANGED <<wire, link, next, carried, hosted, at, host, client>>
  BY <1>0 DEF OpenTimesOut, linkvars
<1>2. \A d \in Calls : d # c => call'[d] = call[d] /\ client'[d] = client[d]
  BY <1>0, <1>1
<1>3. /\ call'[c].pc = "opening" /\ call'[c].id = call[c].id /\ call'[c].answer = "decline"
      /\ call'[c].closed = call[c].closed /\ call'[c].inbox = call[c].inbox /\ call'[c].queue = call[c].queue
  BY <1>0, <1>1 DEF CallRec
<1>4. CallOK(c)'
  BY <1>0, <1>1, <1>3 DEF SessionOK, CallOK, Begun
<1>5. \A d \in Calls : d # c => KeepsPlaces(d)
  BY <1>1, PlacesStay
<1> QED
  BY <1>1, <1>2, <1>3, <1>4, <1>5, StillStep

LEMMA OpensPipes ==
  ASSUME RelayInv, PipesInv, NEW c \in Calls, call[c].pc = "idle", at[c] \in link, Opens(c),
         UNCHANGED <<link, hosted, at, host>>
  PROVE  PipesInv'
<1>0. /\ RestType /\ call \in [Calls -> CallRec] /\ client \in [Calls -> ClientRec] /\ wire \in [Nodes -> Seq(Frames)]
      /\ call[c] \in CallRec /\ client[c] \in ClientRec /\ SessionOK(c) /\ carried \in [Nodes -> Sessions]
      /\ at \in [Calls -> Nodes] /\ next \in [Nodes -> Nat] /\ host[c] \in HostRec
      /\ Numbers /\ WireOK /\ at[c] \in Nodes
  BY StateFields DEF RelayInv, PipesInv, RestType
<1>n. PICK n \in Nodes : n = at[c]
  BY <1>0
<1>i. PICK i \in Nat : i = next[n]
  BY <1>0
<1>f. PICK f \in Frames : f = Frame("OPEN", i, c, NoMsg)
  <2>1. Frame("OPEN", i, c, NoMsg) \in Frames
    BY FrameType, MessageType DEF Ops
  <2> QED
    BY <2>1
<1>1. /\ call' = [call EXCEPT ![c] = [call[c] EXCEPT !.pc = "opening", !.id = i]]
      /\ client' = [client EXCEPT ![c] = [client[c] EXCEPT !.sock = "waiting"]]
      /\ carried' = [carried EXCEPT ![n] = With(carried[n], i, c)]
      /\ next' = [next EXCEPT ![n] = i + 2] /\ wire' = Sends(wire, n, f)
  BY <1>0, <1>n, <1>i, <1>f DEF Opens
<1>2. \A d \in Calls : d # c => call'[d] = call[d] /\ client'[d] = client[d]
  BY <1>0, <1>1
<1>3. /\ call'[c].pc = "opening" /\ call'[c].id = i /\ call'[c].answer = call[c].answer
      /\ call'[c].closed = call[c].closed /\ call'[c].inbox = call[c].inbox /\ call'[c].queue = call[c].queue
      /\ client'[c].sock = "waiting" /\ client'[c].sent = client[c].sent /\ client'[c].got = client[c].got
  BY <1>0, <1>1 DEF CallRec, ClientRec
<1>4. ~Begun(c) /\ host[c].pc = "none" /\ i > 0 /\ Begun(c)'
  BY <1>0, <1>3, <1>i DEF SessionOK, HostOK, CallOK, Numbers, Begun, HostRec
<1>5. f.msg = NoMsg /\ f.op = "OPEN" /\ f.call = c /\ f.id = i
  BY <1>f DEF Frame
<1>6. QuietAll(wire, wire')
  BY <1>0, <1>1, <1>5, ControlIsSilent, SendsSilent
<1>7. Numbers'
  <2>1. \A m \in Nodes : next[m] \in Nat /\ next[m] > 0 /\ next[m] % 2 = FirstSession(m) % 2
    BY <1>0 DEF Numbers
  <2>2. \A d \in Calls : call[d].id \in Nat /\ at[d] \in Nodes
    BY <1>0 DEF CallRec
  <2>3. \A d \in Calls : Begun(d) => call[d].id < next[at[d]] /\ call[d].id % 2 = FirstSession(at[d]) % 2
    BY <1>0 DEF Numbers
  <2>4. ASSUME NEW d \in Calls, d # c, Begun(d) PROVE call[d].id # i
    <3>1. CASE at[d] = n
      BY <1>i, <2>2, <2>3, <2>4, <3>1
    <3>2. CASE at[d] # n
      <4>1. FirstSession(at[d]) % 2 # FirstSession(n) % 2
        <5>1. (at[d] = Dialler /\ n = Answerer) \/ (at[d] = Answerer /\ n = Dialler)
          BY <2>2, <3>2 DEF Nodes
        <5>2. FirstSession(Dialler) = 2 /\ FirstSession(Answerer) = 1
          BY RelayConstants DEF FirstSession
        <5>3. 2 % 2 = 0 /\ 1 % 2 = 1
          OBVIOUS
        <5> QED
          BY <5>1, <5>2, <5>3
      <4> QED
        BY <1>i, <2>1, <2>3, <2>4, <4>1
    <3> QED
      BY <3>1, <3>2
  <2>5. next'[n] = i + 2 /\ \A m \in Nodes : m # n => next'[m] = next[m]
    BY <1>0, <1>1
  <2>6. (i + 2) % 2 = i % 2
    OBVIOUS
  <2>7. \A m \in Nodes : next'[m] > 0 /\ next'[m] % 2 = FirstSession(m) % 2
    BY <1>i, <1>4, <2>1, <2>5, <2>6
  <2>8. ASSUME NEW d \in Calls, Begun(d)'
        PROVE  call'[d].id < next'[at[d]] /\ call'[d].id % 2 = FirstSession(at[d]) % 2
    <3>1. CASE d = c
      BY <1>3, <1>i, <1>n, <2>1, <2>5, <3>1
    <3>2. CASE d # c
      <4>1. call'[d].id = call[d].id /\ Begun(d)
        BY <1>2, <2>8, <3>2 DEF Begun
      <4>2. next[at[d]] <= next'[at[d]] /\ next'[at[d]] \in Nat /\ next[at[d]] \in Nat
        BY <1>i, <2>1, <2>2, <2>5
      <4> QED
        BY <2>2, <2>3, <4>1, <4>2
    <3> QED
      BY <3>1, <3>2
  <2>9. \A d, e \in Calls : Begun(d)' /\ Begun(e)' /\ call'[d].id = call'[e].id => d = e
    <3>1. \A d \in Calls : d # c => call'[d].id = call[d].id /\ (Begun(d)' => Begun(d))
      BY <1>2 DEF Begun
    <3>2. \A d, e \in Calls : Begun(d) /\ Begun(e) /\ call[d].id = call[e].id => d = e
      BY <1>0 DEF Numbers
    <3> QED
      BY <1>3, <2>4, <3>1, <3>2
  <2> QED
    BY <2>7, <2>8, <2>9 DEF Numbers, FirstSession
<1>8. WireOK'
  <2>1. \A d \in Calls : Stays(d)
    BY <1>2, <1>4 DEF Stays
  <2>2. FrameOK(Other(n), f)'
    BY <1>3, <1>4, <1>5, <1>n DEF FrameOK, Holder
  <2>3. NoOpen(wire[Other(n)], c)
    BY <1>0, <1>4, OtherNode DEF NoOpen, WireOK, FrameOK
  <2>4. Clean(wire) /\ Part(wire, wire)
    BY <1>0, WireIsClean
  <2> QED
    BY <1>0, <1>1, <1>5, <2>1, <2>2, <2>3, <2>4, WireGrows
<1>9. \A m \in Nodes : HostedOK(m)'
  BY <1>0, HostedStays DEF PipesInv
<1>10. /\ DOMAIN With(carried[n], i, c) = DOMAIN carried[n] \cup {i} /\ With(carried[n], i, c)[i] = c
       /\ \A j \in DOMAIN carried[n] : j # i => With(carried[n], i, c)[j] = carried[n][j]
  <2> DEFINE g == carried[n]
  <2>0. g \in Sessions
    BY <1>0
  <2> HIDE DEF g
  <2>1. DOMAIN With(g, i, c) = DOMAIN g \cup {i} /\ With(g, i, c)[i] = c
    BY <2>0, WithSessions
  <2>2. \A j \in DOMAIN g : j # i => With(g, i, c)[j] = g[j]
    BY <2>0, WithSessions
  <2> QED
    BY <2>1, <2>2 DEF g
<1>11. ASSUME NEW d \in Calls, d # c PROVE KeepsPlaces(d)
  <2>1. host[d].open => host[d].id \in DOMAIN hosted'[Holder(d)]
    BY DEF PipesInv, SessionOK, HostOK
  <2>2. ASSUME Begun(d), ~call[d].closed
        PROVE  at[d] \in link' /\ call[d].id \in DOMAIN carried'[at[d]] /\ carried'[at[d]][call[d].id] = d
    <3>1. at[d] \in link /\ call[d].id \in DOMAIN carried[at[d]] /\ carried[at[d]][call[d].id] = d /\ at[d] \in Nodes
      BY <1>0, <2>2 DEF PipesInv, SessionOK, CallOK
    <3>2. CASE at[d] = n
      <4>1. call[d].id # i
        <5>1. call[d].id < next[n] /\ call[d].id \in Nat
          BY <1>0, <2>2, <3>2 DEF Numbers, CallRec
        <5> QED
          BY <1>i, <5>1
      <4>2. carried'[n] = With(carried[n], i, c)
        BY <1>0, <1>1
      <4> QED
        BY <1>10, <3>1, <3>2, <4>1, <4>2
    <3>3. CASE at[d] # n
      <4>1. carried'[at[d]] = carried[at[d]]
        BY <1>0, <1>1, <3>1, <3>3
      <4> QED
        BY <3>1, <4>1
    <3> QED
      BY <3>2, <3>3
  <2> QED
    BY <2>1, <2>2 DEF KeepsPlaces
<1>12. HostOK(c)'
  BY <1>0, <1>3, <1>4 DEF SessionOK, HostOK, Holder
<1>13. CallOK(c)'
  <2>1. i \in DOMAIN carried'[n] /\ carried'[n][i] = c
    BY <1>0, <1>1, <1>10
  <2> QED
    BY <1>0, <1>3, <1>4, <1>n, <2>1 DEF SessionOK, CallOK
<1>14. Quiet(wire, wire', Up(c)) /\ Quiet(wire, wire', Down(c))
  BY <1>6 DEF QuietAll
<1>15. Like(call'[c].queue, call[c].queue, Up(c)) /\ Like(call'[c].queue, call[c].queue, Down(c))
  BY <1>3, LikeItself
<1>16. Upwards(c)'
  <2>1. Listens(c)' => Listens(c)
    BY DEF Listens
  <2> QED
    BY <1>0, <1>3, <1>14, <1>15, <2>1, UpStill DEF SessionOK
<1>17. Downwards(c)'
  BY <1>0, <1>3, <1>14, <1>15, DownStill DEF SessionOK
<1>18. \A d \in Calls : d # c => Untouched(d)
  BY <1>2, <1>6 DEF Untouched, QuietAll
<1> QED
  BY <1>7, <1>8, <1>9, <1>11, <1>12, <1>13, <1>16, <1>17, <1>18, OneSession DEF SessionOK

LEMMA ReservePipes ==
  ASSUME RelayInv, PipesInv, NEW c \in Calls, Reserve(c)
  PROVE  PipesInv'
<1>1. CASE Refused(c) /\ UNCHANGED <<wire, next, carried>>
  <2>1. \A d \in Calls : d # c => KeepsPlaces(d)
    BY <1>1, PlacesStay DEF Reserve
  <2> QED
    BY <1>1, <2>1, RefusedPipes DEF Reserve
<1>2. CASE HasRoom(at[c]) /\ at[c] \in link /\ Opens(c)
  BY <1>2, OpensPipes DEF Reserve
<1> QED
  BY <1>1, <1>2 DEF Reserve

LEMMA ClientLeavesPipes ==
  ASSUME RelayInv, PipesInv, NEW c \in Calls, ClientLeaves(c)
  PROVE  PipesInv'
<1>0. /\ State \in Carrier /\ State.call = call /\ State.client = client /\ State.wire = wire /\ State.carried = carried
      /\ call \in [Calls -> CallRec] /\ client \in [Calls -> ClientRec]
      /\ call[c] \in CallRec /\ client[c] \in ClientRec /\ SessionOK(c) /\ WireOK
  BY StateFields DEF RelayInv, PipesInv
<1>1. UNCHANGED <<link, next, hosted, at, host>>
  BY DEF ClientLeaves
<1> DEFINE q == [client[c] EXCEPT !.sock = "gone"]
           s == [State EXCEPT !.client = [client EXCEPT ![c] = q]]
<1>2. [State EXCEPT !.client[c].sock = "gone"] = s
  BY <1>0 DEF State
<1>3. q \in ClientRec /\ q.sock = "gone" /\ q.sent = client[c].sent /\ q.got = client[c].got
  BY <1>0 DEF ClientRec
<1> HIDE DEF q
<1>4. /\ s \in Carrier /\ s.call = call /\ s.wire = wire /\ s.carried = carried
      /\ s.client = [client EXCEPT ![c] = q]
  BY <1>0, <1>3 DEF State, Carrier
<1> HIDE DEF s
<1>5. s.client[c] = q /\ \A d \in Calls : d # c => s.client[d] = client[d]
  BY <1>0, <1>4
<1>6. CASE client[c].sock = "open"
  <2>1. Becomes(CloseCarried(s, c))
    BY <1>2, <1>6 DEF ClientLeaves
  <2>2. /\ call[c].pc = "attached" /\ call[c].closed = FALSE /\ Begun(c) /\ call[c].answer = "accept"
    BY <1>0, <1>6 DEF SessionOK, CallOK
  <2>3. Others(State, s, c)
    BY <1>0, <1>4, <1>5 DEF Others
  <2>4. Clean(s.wire) /\ Part(s.wire, wire)
    BY <1>0, <1>4, WireIsClean
  <2>5. QuietBut(wire, s.wire, c) /\ Quiet(wire, s.wire, Up(c))
    BY <1>4, QuietItself, AllIsBut DEF QuietAll
  <2>6. client[c].sent <= s.client[c].sent
    BY <1>0, <1>3, <1>5 DEF ClientRec
  <2> QED
    BY <1>1, <1>3, <1>4, <1>5, <2>1, <2>2, <2>3, <2>4, <2>5, <2>6, ClosingStep
<1>7. CASE client[c].sock # "open"
  <2>1. Becomes(s)
    BY <1>2, <1>7 DEF ClientLeaves
  <2>2. wire' = wire /\ carried' = carried /\ call' = call /\ client' = [client EXCEPT ![c] = q]
    BY <1>4, <2>1 DEF Becomes
  <2>3. client'[c] = q /\ \A d \in Calls : d # c => client'[d] = client[d]
    BY <1>0, <2>2
  <2>4. CallOK(c)'
    BY <1>0, <1>1, <1>3, <1>7, <2>2, <2>3 DEF SessionOK, CallOK, Begun
  <2>5. \A d \in Calls : d # c => KeepsPlaces(d)
    BY <1>1, <2>2, PlacesStay
  <2> QED
    BY <1>1, <1>3, <2>2, <2>3, <2>4, <2>5, StillStep
<1> QED
  BY <1>6, <1>7

LEMMA InboxIsDown ==
  ASSUME NEW c \in Calls, NEW x, \A e \in Elements(x) : \E k \in Nat : e = Entry(Down(c), Message(Down(c), k))
  PROVE  Like(x, <<>>, Up(c))
<1>1. \A j \in 1..Len(x) : x[j] \in Elements(x)
  BY DEF Elements
<1>2. \A k \in Nat, j \in 1..Len(x) : x[j].msg # Message(Up(c), k)
  BY <1>1, MessagesDiffer DEF Entry
<1> QED
  BY <1>2, NoMessages DEF Like, Nums, Ordered

LEMMA AttachesPipes ==
  ASSUME RelayInv, PipesInv, NEW c \in Calls, call[c].pc = "opening", call[c].answer = "accept",
         Becomes(Attaches(c)), UNCHANGED <<link, next, hosted, at, host>>
  PROVE  PipesInv'
<1>0. /\ State \in Carrier /\ State.call = call /\ State.client = client /\ State.wire = wire /\ State.carried = carried
      /\ call \in [Calls -> CallRec] /\ client \in [Calls -> ClientRec]
      /\ call[c] \in CallRec /\ client[c] \in ClientRec /\ SessionOK(c) /\ WireOK /\ RestType
      /\ wire \in [Nodes -> Seq(Frames)]
  BY StateFields DEF RelayInv, PipesInv
<1>1. Begun(c) /\ call[c].queue = <<>> /\ client[c].sent = 0 /\ client[c].sock # "open"
  BY <1>0 DEF SessionOK, CallOK, ClientRec
<1>2. Clean(wire) /\ Part(wire, wire) /\ QuietBut(wire, wire, c) /\ Quiet(wire, wire, Up(c)) /\ Quiet(wire, wire, Down(c))
  BY <1>0, WireIsClean, QuietItself, AllIsBut DEF QuietAll
<1>3. \A d \in Calls : carried' = carried => KeepsPlaces(d)
  BY PlacesStay
<1>4. CASE client[c].sock = "gone"
  <2> DEFINE r == [call[c] EXCEPT !.pc = "attached"]
             s == [State EXCEPT !.call = [call EXCEPT ![c] = r]]
  <2>1. [State EXCEPT !.call[c].pc = "attached"] = s
    BY <1>0 DEF State
  <2>2. /\ r \in CallRec /\ r.pc = "attached" /\ r.id = call[c].id /\ r.closed = call[c].closed
        /\ r.answer = call[c].answer /\ r.queue = call[c].queue /\ r.inbox = call[c].inbox
    BY <1>0 DEF CallRec
  <2> HIDE DEF r
  <2>3. /\ s \in Carrier /\ s.client = client /\ s.wire = wire /\ s.carried = carried /\ s.call = [call EXCEPT ![c] = r]
    BY <1>0, <2>2 DEF State, Carrier
  <2> HIDE DEF s
  <2>4. s.call[c] = r /\ \A d \in Calls : d # c => s.call[d] = call[d]
    BY <1>0, <2>3
  <2>5. Becomes(CloseCarried(s, c))
    BY <1>4, <2>1 DEF Attaches
  <2>6. CASE call[c].closed = FALSE
    <3>1. Others(State, s, c)
      BY <1>0, <2>3, <2>4 DEF Others
    <3>2. client[c].sent <= s.client[c].sent
      BY <1>1, <2>3
    <3> QED
      BY <1>1, <1>2, <2>2, <2>3, <2>4, <2>5, <2>6, <3>1, <3>2, ClosingStep
  <2>7. CASE call[c].closed = TRUE
    <3>1. Becomes(s)
      BY <2>2, <2>4, <2>5, <2>7 DEF CloseCarried
    <3>2. wire' = wire /\ carried' = carried /\ client' = client /\ call'[c] = r /\ \A d \in Calls : d # c => call'[d] = call[d]
      BY <2>3, <2>4, <3>1 DEF Becomes
    <3>3. CallOK(c)'
      BY <1>0, <1>1, <2>2, <2>7, <3>2 DEF SessionOK, CallOK, Begun
    <3> QED
      BY <1>3, <2>2, <3>2, <3>3, StillStep
  <2> QED
    BY <1>0, <2>6, <2>7 DEF CallRec
<1>5. CASE client[c].sock # "gone" /\ call[c].closed
  <2> DEFINE r == [call[c] EXCEPT !.pc = "attached"]
             q == [client[c] EXCEPT !.sock = "gone"]
             s == [State EXCEPT !.call = [call EXCEPT ![c] = r], !.client = [client EXCEPT ![c] = q]]
  <2>1. [State EXCEPT !.call[c].pc = "attached", !.client[c].sock = "gone"] = s
    BY <1>0 DEF State
  <2>2. /\ r \in CallRec /\ r.pc = "attached" /\ r.id = call[c].id /\ r.closed = call[c].closed
        /\ r.answer = call[c].answer /\ r.queue = call[c].queue /\ r.inbox = call[c].inbox
    BY <1>0 DEF CallRec
  <2>3. q \in ClientRec /\ q.sock = "gone" /\ q.sent = client[c].sent /\ q.got = client[c].got
    BY <1>0 DEF ClientRec
  <2> HIDE DEF r, q
  <2>4. s.wire = wire /\ s.carried = carried /\ s.call = [call EXCEPT ![c] = r] /\ s.client = [client EXCEPT ![c] = q]
    BY <1>0 DEF State
  <2> HIDE DEF s
  <2>5. Becomes(s)
    BY <1>5, <2>1 DEF Attaches
  <2>6. /\ wire' = wire /\ carried' = carried /\ call'[c] = r /\ client'[c] = q
        /\ \A d \in Calls : d # c => call'[d] = call[d] /\ client'[d] = client[d]
    BY <1>0, <2>4, <2>5 DEF Becomes
  <2>c. call[c].closed = TRUE
    BY <1>0, <1>5 DEF CallRec
  <2>7. CallOK(c)'
    BY <1>0, <1>1, <2>c, <2>2, <2>3, <2>6 DEF SessionOK, CallOK, Begun
  <2> QED
    BY <1>3, <2>2, <2>3, <2>6, <2>7, StillStep
<1>6. CASE client[c].sock # "gone" /\ ~call[c].closed
  <2> DEFINE r == [call[c] EXCEPT !.pc = "attached", !.inbox = <<>>]
             q == [client[c] EXCEPT !.sock = "open"]
             s == [State EXCEPT !.call = [call EXCEPT ![c] = r], !.client = [client EXCEPT ![c] = q]]
             i == call[c].inbox
  <2>1. [State EXCEPT !.call[c].pc = "attached", !.call[c].inbox = <<>>, !.client[c].sock = "open"] = s
    BY <1>0 DEF State
  <2>2. /\ r \in CallRec /\ r.pc = "attached" /\ r.id = call[c].id /\ r.closed = FALSE
        /\ r.answer = call[c].answer /\ r.queue = <<>> /\ r.inbox = <<>>
    BY <1>0, <1>1, <1>6, NoneWaiting DEF CallRec
  <2>3. q \in ClientRec /\ q.sock = "open" /\ q.sent = client[c].sent /\ q.got = client[c].got
    BY <1>0 DEF ClientRec
  <2> HIDE DEF r, q
  <2>4. /\ s \in Carrier /\ s.wire = wire /\ s.carried = carried /\ s.call = [call EXCEPT ![c] = r]
        /\ s.client = [client EXCEPT ![c] = q]
    BY <1>0, <2>2, <2>3 DEF State, Carrier
  <2> HIDE DEF s
  <2>5. /\ s.call[c] = r /\ s.client[c] = q
        /\ \A d \in Calls : d # c => s.call[d] = call[d] /\ s.client[d] = client[d]
    BY <1>0, <2>4
  <2>6. Becomes(Forward(s, c, i)) /\ i \in Seq(Entries)
    BY <1>0, <1>6, <2>1 DEF Attaches, CallRec
  <2>i. \A e \in Elements(i) : \E k \in Nat : e = Entry(Down(c), Message(Down(c), k))
    BY <1>0 DEF SessionOK, CallOK
  <2> HIDE DEF i
  <2>7. CASE Len(s.call[c].queue) + Len(i) > MaxBuffered
    <3>1. Becomes(CloseCarried(s, c))
      BY <2>2, <2>5, <2>6, <2>7 DEF Forward
    <3>2. Others(State, s, c)
      BY <1>0, <2>5 DEF Others
    <3>3. client[c].sent <= s.client[c].sent
      BY <1>1, <2>3, <2>5
    <3> QED
      BY <1>1, <1>2, <2>2, <2>3, <2>4, <2>5, <3>1, <3>2, <3>3, ClosingStep
  <2>8. CASE ~(Len(s.call[c].queue) + Len(i) > MaxBuffered)
    <3> DEFINE t == Forward(s, c, i)
    <3> HIDE DEF t
    <3>0. s.call[c].closed = FALSE /\ s \in Carrier /\ i \in Seq(Entries)
      BY <2>2, <2>4, <2>5, <2>6
    <3>1. /\ t.wire = s.wire /\ t.carried = s.carried /\ t.client = s.client
          /\ \A d \in Calls : d # c => t.call[d] = s.call[d]
          /\ Same(t.call[c], s.call[c]) /\ t.call[c].queue = s.call[c].queue \o i
      BY <3>0, <2>8, ForwardIs DEF t
    <3>2. wire' = t.wire /\ carried' = t.carried /\ call' = t.call /\ client' = t.client
      BY <2>6 DEF Becomes, t
    <3>3. <<>> \o i = i
      BY <2>6, ConcatEmptySeq
    <3>4. /\ wire' = wire /\ carried' = carried /\ client'[c] = q
          /\ \A d \in Calls : d # c => call'[d] = call[d] /\ client'[d] = client[d]
          /\ call'[c].queue = i /\ call'[c].pc = "attached" /\ call'[c].id = call[c].id /\ call'[c].closed = FALSE
          /\ call'[c].answer = "accept" /\ call'[c].inbox = <<>>
      BY <2>2, <2>4, <2>5, <3>1, <3>2, <3>3 DEF Same
    <3>5. CallOK(c)'
      <4>1. Elements(call'[c].inbox) = {}
        BY <3>4, NoneElements
      <4>2. \A e \in Elements(call'[c].queue) : \E k \in Nat : e = Entry(Down(c), Message(Down(c), k))
        BY <2>i, <3>4
      <4>3. \A e \in Elements(call'[c].queue) : \E k \in Nat :
              e = Entry(Up(c), Message(Up(c), k)) \/ e = Entry(Down(c), Message(Down(c), k))
        BY <4>2
      <4>4. /\ at[c] \in link /\ call[c].id \in DOMAIN carried[at[c]] /\ carried[at[c]][call[c].id] = c
            /\ host[c].pc \in {"live", "over"} /\ Len(client[c].got) <= host[c].sent
        BY <1>0, <1>1, <1>6 DEF SessionOK, CallOK
      <4>5. Begun(c)'
        BY <1>1, <3>4 DEF Begun
      <4> QED
        BY <2>3, <3>4, <4>1, <4>3, <4>4, <4>5 DEF CallOK
    <3>6. Upwards(c)'
      <4>1. Like(call'[c].queue, call[c].queue, Up(c))
        BY <1>1, <2>i, <3>4, InboxIsDown
      <4>2. Listens(c)' => Listens(c)
        BY DEF Listens
      <4> QED
        BY <1>0, <1>2, <1>6, <2>3, <3>4, <4>1, <4>2, UpStill DEF SessionOK
    <3>7. Downwards(c)'
      <4> DEFINE p == Down(c)
                 x == wire[at[c]]
                 g == Len(client[c].got)
      <4>1. DownOK(p, x, i, <<>>, g, host[c].sent)
        BY <1>0, <1>1, <1>6 DEF SessionOK, Downwards, i
      <4> HIDE DEF p, x, g
      <4>2. DownOK(p, x, <<>>, i, g, host[c].sent)
        BY <4>1, DownAttached
      <4> QED
        BY <2>3, <3>4, <4>2 DEF Downwards, p, x, g
    <3>8. WireOK'
      <4>1. \A d \in Calls : call'[d].id = call[d].id
        BY <3>4
      <4>2. \A d \in Calls : Stays(d)
        BY <4>1, CarrierStays
      <4> QED
        BY <1>0, <1>2, <3>4, <4>2, WireStays
    <3>9. Len(host[c].got) <= client'[c].sent
      BY <1>0, <2>3, <3>4 DEF SessionOK, HostOK
    <3>10. QuietBut(wire, wire', c)
      BY <1>2, <3>4
    <3> QED
      BY <1>3, <3>4, <3>5, <3>6, <3>7, <3>8, <3>9, <3>10, CarrierStep
  <2> QED
    BY <2>7, <2>8
<1> QED
  BY <1>4, <1>5, <1>6

LEMMA SettlePipes ==
  ASSUME RelayInv, PipesInv, NEW c \in Calls, Settle(c)
  PROVE  PipesInv'
<1>1. CASE /\ Refused(c) /\ UNCHANGED wire
           /\ carried' = [carried EXCEPT ![at[c]] = Without(@, call[c].id)]
  <2>1. Begun(c)
    BY DEF Settle, PipesInv, SessionOK, CallOK
  <2>2. carried' = [carried EXCEPT ![at[c]] = Without(carried[at[c]], call[c].id)]
    BY <1>1
  <2>3. \A d \in Calls : d # c => KeepsPlaces(d)
    BY <2>1, <2>2, CarriedLess DEF Settle
  <2> QED
    BY <1>1, <2>3, RefusedPipes DEF Settle
<1>2. CASE call[c].answer = "accept" /\ Becomes(Attaches(c))
  BY <1>2, AttachesPipes DEF Settle
<1> QED
  BY <1>1, <1>2 DEF Settle

LEMMA ListensLinked ==
  ASSUME RelayInv, PipesInv, NEW c \in Calls, Listens(c)
  PROVE  Holder(c) \in link /\ Holder(c) \in Nodes
<1>1. host[c].id \in DOMAIN hosted[Holder(c)]
  BY DEF PipesInv, SessionOK, HostOK, Listens
<1>2. Holder(c) \in Nodes
  BY OtherNode DEF Holder, RelayInv, RestType
<1> QED
  BY <1>1, <1>2 DEF PipesInv, HostedOK

\* A session that has something in its queue.
LEMMA QueueIs ==
  ASSUME RelayInv, PipesInv, NEW c \in Calls, call[c].queue # <<>>
  PROVE  /\ Begun(c) /\ call[c].closed = FALSE /\ call[c].pc = "attached" /\ client[c].sock = "open"
         /\ call[c].inbox = <<>> /\ call[c].queue \in Seq(Entries) /\ Head(call[c].queue) \in Entries
         /\ Tail(call[c].queue) \in Seq(Entries) /\ Elements(Tail(call[c].queue)) \subseteq Elements(call[c].queue)
         /\ \E k \in Nat : \/ Head(call[c].queue) = Entry(Up(c), Message(Up(c), k))
                           \/ Head(call[c].queue) = Entry(Down(c), Message(Down(c), k))
<1>1. call[c] \in CallRec /\ CallOK(c)
  BY StateFields DEF RelayInv, PipesInv, SessionOK
<1>2. call[c].queue \in Seq(Entries)
  BY <1>1 DEF CallRec
<1>3. Head(call[c].queue) \in Entries /\ Tail(call[c].queue) \in Seq(Entries)
  BY <1>2
<1>4. Head(call[c].queue) \in Elements(call[c].queue) /\ Elements(Tail(call[c].queue)) \subseteq Elements(call[c].queue)
  BY <1>2, ElementsOf
<1> QED
  BY <1>1, <1>2, <1>3, <1>4 DEF CallOK

LEMMA DrainUpPipes ==
  ASSUME RelayInv, PipesInv, NEW c \in Calls, NEW k \in Nat, call[c].queue # <<>>,
         Head(call[c].queue) = Entry(Up(c), Message(Up(c), k)),
         UNCHANGED <<link, next, hosted, at, host, carried, client>>,
         call' = [call EXCEPT ![c] = [call[c] EXCEPT !.queue = Tail(call[c].queue)]],
         wire' = Sends(wire, at[c], Frame("DATA", call[c].id, c, Message(Up(c), k)))
  PROVE  PipesInv'
<1>0. /\ call \in [Calls -> CallRec] /\ client \in [Calls -> ClientRec] /\ wire \in [Nodes -> Seq(Frames)]
      /\ call[c] \in CallRec /\ client[c] \in ClientRec /\ SessionOK(c) /\ WireOK /\ RestType /\ at[c] \in Nodes
      /\ host[c] \in HostRec
  BY StateFields DEF RelayInv, PipesInv, RestType
<1> DEFINE q == call[c].queue
           r == Tail(call[c].queue)
<1>1. /\ Begun(c) /\ call[c].closed = FALSE /\ call[c].pc = "attached" /\ client[c].sock = "open"
      /\ call[c].inbox = <<>> /\ q \in Seq(Entries) /\ r \in Seq(Entries) /\ Elements(r) \subseteq Elements(q)
  BY QueueIs
<1>n. PICK n \in Nodes : n = at[c]
  BY <1>0
<1>f. PICK f \in Frames : f = Frame("DATA", call[c].id, c, Message(Up(c), k))
  <2>1. Frame("DATA", call[c].id, c, Message(Up(c), k)) \in Frames
    BY <1>0, FrameType, MessageType DEF Ops, CallRec
  <2> QED
    BY <2>1
<1>2. f.msg = Message(Up(c), k) /\ f.op = "DATA" /\ f.call = c /\ f.id = call[c].id
  BY <1>f DEF Frame
<1>3. Only(f, c) /\ Is(f, Down(c)) = {} /\ Carrying(f, Up(c), k)
  BY <1>2, UpOnly
<1>4. Is(Head(q), Down(c)) = {} /\ Carrying(Head(q), Up(c), k)
  <2>1. Head(q).msg = Message(Up(c), k)
    BY DEF Entry
  <2> QED
    BY <2>1, UpOnly
<1>5. wire' = Sends(wire, n, f) /\ Other(n) = Holder(c) /\ Holder(c) \in Nodes /\ Holder(c)' = Holder(c)
  BY <1>f, <1>n, OtherNode DEF Holder
<1>6. QuietBut(wire, wire', c) /\ Quiet(wire, wire', Down(c))
  BY <1>0, <1>3, <1>5, SendsOnly, SendsQuiet
<1> HIDE DEF q, r
<1>7. /\ \A d \in Calls : d # c => call'[d] = call[d]
      /\ call'[c].queue = r /\ call'[c].pc = "attached" /\ call'[c].id = call[c].id /\ call'[c].closed = FALSE
      /\ call'[c].answer = call[c].answer /\ call'[c].inbox = call[c].inbox
  BY <1>0, <1>1 DEF CallRec, r
<1>8. WireOK'
  <2>0. \A d \in Calls : call'[d].id = call[d].id
    BY <1>7
  <2>1. \A d \in Calls : Stays(d)
    BY <2>0, CarrierStays
  <2>2. FrameOK(Other(n), f)'
    BY <1>1, <1>2, <1>5, <1>7 DEF FrameOK, Begun
  <2>3. Clean(wire) /\ Part(wire, wire)
    BY <1>0, WireIsClean
  <2> QED
    BY <1>0, <1>2, <1>5, <2>1, <2>2, <2>3, WireGrows
<1>9. CallOK(c)'
  BY <1>0, <1>1, <1>7 DEF SessionOK, CallOK, Begun, q
<1>10. Downwards(c)'
  <2>1. Like(r, q, Down(c))
    BY <1>1, <1>4, TailLike DEF q, r
  <2> QED
    <3>1. Like(call'[c].queue, call[c].queue, Down(c))
      BY <1>7, <2>1 DEF q
    <3> QED
      BY <1>0, <1>1, <1>6, <1>7, <3>1, DownStill DEF SessionOK
<1>11. Upwards(c)'
  <2> DEFINE p == Up(c)
             x == wire[Holder(c)]
             g == Len(host[c].got)
             s == client[c].sent
  <2>1. UpOK(p, x, q, s) /\ (Listens(c) => NoGap(p, x, q, g) /\ NoLoss(p, x, q, g, s))
    BY <1>0, <1>1 DEF SessionOK, Upwards, q
  <2>2. x \in Seq(Frames) /\ s \in Nat /\ q # <<>> /\ q \in Seq(Entries)
    BY <1>0, <1>1, <1>5 DEF ClientRec, q
  <2>3. Carrying(Head(q), p, k) /\ Carrying(f, p, k)
    BY <1>3, <1>4
  <2>4. wire'[Holder(c)] = x \/ wire'[Holder(c)] = Append(x, f)
    <3>1. wire'[Other(n)] = wire[Other(n)] \/ wire'[Other(n)] = Append(wire[Other(n)], f)
      BY <1>0, <1>5, OtherNode DEF Sends
    <3> QED
      BY <1>5, <3>1
  <2>5. Listens(c) => wire'[Holder(c)] = Append(x, f)
    <3>1. Listens(c) => Holder(c) \in link
      BY ListensLinked
    <3>2. n \in link
      BY <1>0, <1>1, <1>n DEF SessionOK, CallOK
    <3> QED
      BY <1>0, <1>5, <3>1, <3>2 DEF Sends
  <2> HIDE DEF p, x, g, s
  <2>6. /\ UpOK(p, Append(x, f), Tail(q), s) /\ UpOK(p, x, Tail(q), s)
        /\ NoGap(p, x, q, g) => NoGap(p, Append(x, f), Tail(q), g)
        /\ NoLoss(p, x, q, g, s) => NoLoss(p, Append(x, f), Tail(q), g, s)
    BY <2>1, <2>2, <2>3, UpDrains
  <2>7. r = Tail(q)
    BY DEF r, q
  <2>8. Listens(c)' <=> Listens(c)
    BY DEF Listens
  <2> DEFINE y == wire'[Holder(c)]
  <2>9. UpOK(p, y, r, s) /\ (Listens(c) => NoGap(p, y, r, g) /\ NoLoss(p, y, r, g, s))
    BY <2>1, <2>4, <2>5, <2>6, <2>7
  <2> QED
    BY <1>5, <1>7, <2>8, <2>9 DEF Upwards, p, g, s
<1>12. Len(host[c].got) <= client'[c].sent
  BY <1>0 DEF SessionOK, HostOK
<1>13. \A d \in Calls : d # c => KeepsPlaces(d)
  BY PlacesStay
<1> QED
  BY <1>6, <1>7, <1>8, <1>9, <1>10, <1>11, <1>12, <1>13, CarrierStep

\* The next message the dialler gets is the next of its pipe.
LEMMA NextDown ==
  ASSUME RelayInv, PipesInv, NEW c \in Calls, NEW k \in Nat, call[c].queue # <<>>,
         Head(call[c].queue) = Entry(Down(c), Message(Down(c), k))
  PROVE  /\ k = Len(client[c].got) + 1 /\ k <= host[c].sent
         /\ DownOK(Down(c), wire[at[c]], call[c].inbox, Tail(call[c].queue), Len(client[c].got) + 1, host[c].sent)
<1> DEFINE q == call[c].queue
           p == Down(c)
           x == wire[at[c]]
           i == call[c].inbox
           g == Len(client[c].got)
           s == host[c].sent
<1>1. call[c].closed = FALSE /\ q \in Seq(Entries) /\ q # <<>>
  BY QueueIs
<1>2. g \in Nat /\ s \in Nat
  BY StateFields DEF RelayInv, RestType, ClientRec, HostRec
<1>3. Carrying(Head(q), p, k)
  <2>1. Head(q).msg = Message(p, k)
    BY DEF Entry
  <2> QED
    BY <2>1, IsOne
<1>4. DownOK(p, x, i, q, g, s)
  BY <1>1 DEF PipesInv, SessionOK, Downwards
<1> HIDE DEF q, p, x, i, g, s
<1>5. k = g + 1 /\ k <= s /\ DownOK(p, x, i, Tail(q), g + 1, s)
  BY <1>1, <1>2, <1>3, <1>4, DownDrains
<1> QED
  BY <1>5 DEF q, p, x, i, g, s

LEMMA DrainDownPipes ==
  ASSUME RelayInv, PipesInv, NEW c \in Calls, NEW k \in Nat, call[c].queue # <<>>,
         Head(call[c].queue) = Entry(Down(c), Message(Down(c), k)),
         UNCHANGED <<link, next, hosted, at, host, carried, wire>>,
         call' = [call EXCEPT ![c] = [call[c] EXCEPT !.queue = Tail(call[c].queue)]],
         client' = [client EXCEPT ![c] = [client[c] EXCEPT !.got = Append(client[c].got, Message(Down(c), k))]]
  PROVE  PipesInv'
<1>0. /\ call \in [Calls -> CallRec] /\ client \in [Calls -> ClientRec] /\ wire \in [Nodes -> Seq(Frames)]
      /\ call[c] \in CallRec /\ client[c] \in ClientRec /\ SessionOK(c) /\ WireOK /\ RestType
  BY StateFields DEF RelayInv, PipesInv, RestType
<1> DEFINE q == call[c].queue
           r == Tail(call[c].queue)
           g == Len(client[c].got)
<1>1. /\ Begun(c) /\ call[c].closed = FALSE /\ call[c].pc = "attached" /\ client[c].sock = "open"
      /\ call[c].inbox = <<>> /\ q \in Seq(Entries) /\ r \in Seq(Entries) /\ Elements(r) \subseteq Elements(q)
  BY QueueIs
<1>2. k = g + 1 /\ k <= host[c].sent
  BY NextDown
<1>3. DownOK(Down(c), wire[at[c]], call[c].inbox, r, g + 1, host[c].sent)
  BY NextDown
<1>4. Is(Head(q), Up(c)) = {}
  <2>1. Head(q).msg = Message(Down(c), k)
    BY DEF Entry
  <2> QED
    BY <2>1, DownOnly
<1>5. Message(Down(c), k) \in Msgs /\ client[c].got \in Seq(Msgs)
  BY <1>0, MessageType DEF ClientRec
<1>6. Len(Append(client[c].got, Message(Down(c), k))) = g + 1
  <2> HIDE DEF g
  <2>1. g = Len(client[c].got)
    BY DEF g
  <2> QED
    BY <1>5, <2>1, AppendProperties
<1> HIDE DEF q, r, g
<1>7. /\ \A d \in Calls : d # c => call'[d] = call[d] /\ client'[d] = client[d]
      /\ call'[c].queue = r /\ call'[c].pc = "attached" /\ call'[c].id = call[c].id /\ call'[c].closed = FALSE
      /\ call'[c].answer = call[c].answer /\ call'[c].inbox = call[c].inbox
  BY <1>0, <1>1 DEF CallRec, r
<1>8. /\ client'[c].sock = client[c].sock /\ client'[c].sent = client[c].sent
      /\ client'[c].got = Append(client[c].got, Message(Down(c), k))
  BY <1>0 DEF ClientRec
<1>9. QuietAll(wire, wire')
  BY QuietItself
<1>10. QuietBut(wire, wire', c) /\ Quiet(wire, wire', Up(c))
  BY <1>9, AllIsBut DEF QuietAll
<1>11. WireOK'
  <2>1. \A d \in Calls : call'[d].id = call[d].id
    BY <1>7
  <2>2. \A d \in Calls : Stays(d)
    BY <2>1, CarrierStays
  <2>3. Clean(wire') /\ Part(wire', wire) /\ wire' \in [Nodes -> Seq(Frames)]
    BY <1>0, WireIsClean
  <2> QED
    BY <1>0, <2>2, <2>3, WireStays
<1>12. CallOK(c)'
  <2>1. Len(client'[c].got) <= host[c].sent
    BY <1>2, <1>6, <1>8
  <2> QED
    <3>1. \A e \in Elements(r) : \E j \in Nat :
            e = Entry(Up(c), Message(Up(c), j)) \/ e = Entry(Down(c), Message(Down(c), j))
      BY <1>0, <1>1 DEF SessionOK, CallOK, q
    <3>2. /\ call[c].answer = "accept" /\ host[c].pc \in {"live", "over"} /\ at[c] \in link
          /\ call[c].id \in DOMAIN carried[at[c]] /\ carried[at[c]][call[c].id] = c
      BY <1>0, <1>1 DEF SessionOK, CallOK
    <3>3. Begun(c)' /\ Elements(call'[c].inbox) = {}
      BY <1>1, <1>7, NoneElements DEF Begun
    <3> QED
      BY <1>1, <1>7, <1>8, <2>1, <3>1, <3>2, <3>3 DEF CallOK
<1>13. Upwards(c)'
  <2>1. Like(r, q, Up(c))
    BY <1>1, <1>4, TailLike DEF q, r
  <2>2. Listens(c)' => Listens(c)
    BY DEF Listens
  <2> QED
    <3>1. Like(call'[c].queue, call[c].queue, Up(c))
      BY <1>7, <2>1 DEF q
    <3> QED
      BY <1>0, <1>1, <1>7, <1>8, <1>10, <2>2, <3>1, UpStill DEF SessionOK
<1>14. Downwards(c)'
  BY <1>3, <1>6, <1>7, <1>8 DEF Downwards
<1>15. Len(host[c].got) <= client'[c].sent
  BY <1>0, <1>8 DEF SessionOK, HostOK
<1>16. \A d \in Calls : d # c => KeepsPlaces(d)
  BY PlacesStay
<1> QED
  BY <1>7, <1>10, <1>11, <1>12, <1>13, <1>14, <1>15, <1>16, CarrierStep

\* What the bandwidth service lets through.
LEMMA DrainIs ==
  ASSUME RelayInv, PipesInv, NEW c \in Calls, Drain(c)
  PROVE  /\ call[c].queue # <<>> /\ UNCHANGED <<link, next, hosted, at, host, carried>>
         /\ call' = [call EXCEPT ![c] = [call[c] EXCEPT !.queue = Tail(call[c].queue)]]
         /\ \E k \in Nat :
              \/ /\ Head(call[c].queue) = Entry(Up(c), Message(Up(c), k)) /\ client' = client
                 /\ wire' = Sends(wire, at[c], Frame("DATA", call[c].id, c, Message(Up(c), k)))
              \/ /\ Head(call[c].queue) = Entry(Down(c), Message(Down(c), k)) /\ wire' = wire
                 /\ client' = [client EXCEPT ![c] = [client[c] EXCEPT !.got = Append(client[c].got, Message(Down(c), k))]]
<1>0. /\ State.call = call /\ State.client = client /\ State.wire = wire /\ State.carried = carried
      /\ call \in [Calls -> CallRec] /\ client \in [Calls -> ClientRec]
  BY StateFields DEF RelayInv
<1> DEFINE m == Head(call[c].queue)
           calls == [call EXCEPT ![c] = [call[c] EXCEPT !.queue = Tail(call[c].queue)]]
           s == [State EXCEPT !.call = calls]
<1>1. call[c].queue # <<>> /\ UNCHANGED <<link, next, hosted, at, host>>
  BY DEF Drain
<1>2. PICK k \in Nat : m = Entry(Up(c), Message(Up(c), k)) \/ m = Entry(Down(c), Message(Down(c), k))
  BY <1>1, QueueIs
<1>3. [State EXCEPT !.call[c].queue = Tail(@)] = s
  BY <1>0 DEF State
<1>4. s.call = calls /\ s.wire = wire /\ s.carried = carried /\ s.client = client
  BY <1>0 DEF State
<1> DEFINE u == [s EXCEPT !.wire = Sends(@, at[c], Frame("DATA", call[c].id, c, m.msg))]
           v == [s EXCEPT !.client[c].got = Append(@, m.msg)]
<1>5. /\ u.call = calls /\ u.carried = carried /\ u.client = client
      /\ u.wire = Sends(wire, at[c], Frame("DATA", call[c].id, c, m.msg))
  BY <1>0 DEF State
<1>6. /\ v.call = calls /\ v.carried = carried /\ v.wire = wire
      /\ v.client = [client EXCEPT ![c] = [client[c] EXCEPT !.got = Append(client[c].got, m.msg)]]
  BY <1>0 DEF State
<1>7. Becomes(IF m.pipe = Up(c) THEN u ELSE v)
  BY <1>3 DEF Drain
<1> HIDE DEF u, v, m, calls, s
<1>8. CASE m = Entry(Up(c), Message(Up(c), k))
  <2>1. m.pipe = Up(c) /\ m.msg = Message(Up(c), k)
    BY <1>8 DEF Entry
  <2>2. Becomes(u)
    BY <1>7, <2>1
  <2> QED
    BY <1>1, <1>5, <1>8, <2>1, <2>2 DEF Becomes, m, calls
<1>9. CASE m = Entry(Down(c), Message(Down(c), k))
  <2>1. m.pipe # Up(c) /\ m.msg = Message(Down(c), k)
    BY <1>9 DEF Entry, Up, Down
  <2>2. Becomes(v)
    BY <1>7, <2>1
  <2> QED
    BY <1>1, <1>6, <1>9, <2>1, <2>2 DEF Becomes, m, calls
<1> QED
  BY <1>2, <1>8, <1>9

LEMMA DrainPipes ==
  ASSUME RelayInv, PipesInv, NEW c \in Calls, Drain(c)
  PROVE  PipesInv'
<1>1. /\ call[c].queue # <<>> /\ UNCHANGED <<link, next, hosted, at, host, carried>>
      /\ call' = [call EXCEPT ![c] = [call[c] EXCEPT !.queue = Tail(call[c].queue)]]
  BY DrainIs
<1>2. PICK k \in Nat :
              \/ /\ Head(call[c].queue) = Entry(Up(c), Message(Up(c), k)) /\ client' = client
                 /\ wire' = Sends(wire, at[c], Frame("DATA", call[c].id, c, Message(Up(c), k)))
              \/ /\ Head(call[c].queue) = Entry(Down(c), Message(Down(c), k)) /\ wire' = wire
                 /\ client' = [client EXCEPT ![c] = [client[c] EXCEPT !.got = Append(client[c].got, Message(Down(c), k))]]
  BY DrainIs
<1> QED
  BY <1>1, <1>2, DrainUpPipes, DrainDownPipes

LEMMA ClientSendsPipes ==
  ASSUME RelayInv, PipesInv, NEW c \in Calls, ClientSends(c)
  PROVE  PipesInv'
<1>0. /\ State \in Carrier /\ State.call = call /\ State.client = client /\ State.wire = wire /\ State.carried = carried
      /\ call \in [Calls -> CallRec] /\ client \in [Calls -> ClientRec] /\ wire \in [Nodes -> Seq(Frames)]
      /\ call[c] \in CallRec /\ client[c] \in ClientRec /\ SessionOK(c) /\ WireOK /\ RestType /\ host[c] \in HostRec
  BY StateFields DEF RelayInv, PipesInv, RestType
<1>1. UNCHANGED <<link, next, hosted, at, host>> /\ client[c].sock = "open"
  BY DEF ClientSends
<1>2. /\ call[c].pc = "attached" /\ call[c].closed = FALSE /\ Begun(c) /\ call[c].answer = "accept"
      /\ call[c].inbox = <<>>
  BY <1>0, <1>1 DEF SessionOK, CallOK
<1> DEFINE k == client[c].sent
           e == Entry(Up(c), Message(Up(c), k + 1))
           q == [client[c] EXCEPT !.sent = k + 1]
           s == [State EXCEPT !.client = [client EXCEPT ![c] = q]]
<1>3. k \in Nat /\ k + 1 \in Nat
  BY <1>0 DEF ClientRec
<1>4. [State EXCEPT !.client[c].sent = @ + 1] = s
  BY <1>0 DEF State
<1>5. Becomes(Forward(s, c, <<e>>))
  BY <1>4 DEF ClientSends
<1>6. e \in Entries /\ e.msg = Message(Up(c), k + 1)
  BY <1>3, MessageType, EntryType DEF Entry
<1>7. q \in ClientRec /\ q.sock = "open" /\ q.sent = k + 1 /\ q.got = client[c].got
  BY <1>0, <1>1, <1>3 DEF ClientRec
<1>8. Is(e, Down(c)) = {} /\ Carrying(e, Up(c), k + 1)
  BY <1>3, <1>6, UpOnly
<1>e. e = Entry(Up(c), Message(Up(c), k + 1))
  OBVIOUS
<1> HIDE DEF q, e
<1>9. s \in Carrier /\ s.call = call /\ s.wire = wire /\ s.carried = carried /\ s.client = [client EXCEPT ![c] = q]
  BY <1>0, <1>7 DEF State, Carrier
<1> HIDE DEF s
<1>10. s.client[c] = q /\ \A d \in Calls : d # c => s.client[d] = client[d]
  BY <1>0, <1>9
<1>11. Clean(wire) /\ Part(wire, wire) /\ QuietBut(wire, wire, c) /\ Quiet(wire, wire, Up(c)) /\ Quiet(wire, wire, Down(c))
  BY <1>0, WireIsClean, QuietItself, AllIsBut DEF QuietAll
<1>12. call[c].queue \in Seq(Entries)
  BY <1>0 DEF CallRec
<1>13. call[c].queue \o <<e>> = Append(call[c].queue, e) /\ <<e>> \in Seq(Entries)
  BY <1>6, <1>12, AppendOne
<1>14. CASE Len(s.call[c].queue) + Len(<<e>>) > MaxBuffered
  <2>1. Becomes(CloseCarried(s, c))
    BY <1>2, <1>5, <1>9, <1>14 DEF Forward
  <2>2. Others(State, s, c)
    BY <1>0, <1>9, <1>10 DEF Others
  <2>3. client[c].sent <= s.client[c].sent
    BY <1>3, <1>7, <1>10
  <2> QED
    BY <1>1, <1>2, <1>7, <1>9, <1>10, <1>11, <2>1, <2>2, <2>3, ClosingStep
<1>15. CASE ~(Len(s.call[c].queue) + Len(<<e>>) > MaxBuffered)
  <2> DEFINE t == Forward(s, c, <<e>>)
             r == Append(call[c].queue, e)
  <2> HIDE DEF t
  <2>0. s.call[c].closed = FALSE
    BY <1>2, <1>9
  <2>1. /\ t.wire = s.wire /\ t.carried = s.carried /\ t.client = s.client
        /\ \A d \in Calls : d # c => t.call[d] = s.call[d]
        /\ Same(t.call[c], s.call[c]) /\ t.call[c].queue = s.call[c].queue \o <<e>>
    BY <2>0, <1>9, <1>13, <1>15, ForwardIs DEF t
  <2>2. wire' = t.wire /\ carried' = t.carried /\ call' = t.call /\ client' = t.client
    BY <1>5 DEF Becomes, t
  <2>3. /\ wire' = wire /\ carried' = carried /\ client'[c] = q
        /\ \A d \in Calls : d # c => call'[d] = call[d] /\ client'[d] = client[d]
        /\ call'[c].queue = r /\ call'[c].pc = "attached" /\ call'[c].id = call[c].id /\ call'[c].closed = FALSE
        /\ call'[c].answer = "accept" /\ call'[c].inbox = <<>>
    BY <1>2, <1>9, <1>10, <1>13, <2>1, <2>2 DEF Same
  <2>4. CallOK(c)'
    <3>1. Elements(call'[c].inbox) = {}
      BY <2>3, NoneElements
    <3>2. Elements(r) = Elements(call[c].queue) \cup {e}
      BY <1>6, <1>12, ElementsOf
    <3>3. \A f \in Elements(call[c].queue) : \E j \in Nat :
            f = Entry(Up(c), Message(Up(c), j)) \/ f = Entry(Down(c), Message(Down(c), j))
      BY <1>0 DEF SessionOK, CallOK
    <3>4. \A f \in Elements(r) : \E j \in Nat :
            f = Entry(Up(c), Message(Up(c), j)) \/ f = Entry(Down(c), Message(Down(c), j))
      BY <1>3, <1>e, <3>2, <3>3
    <3>5. /\ at[c] \in link /\ call[c].id \in DOMAIN carried[at[c]] /\ carried[at[c]][call[c].id] = c
          /\ host[c].pc \in {"live", "over"} /\ Len(client[c].got) <= host[c].sent
      BY <1>0, <1>2 DEF SessionOK, CallOK
    <3>6. Begun(c)'
      BY <1>2, <2>3 DEF Begun
    <3> QED
      BY <1>1, <1>7, <2>3, <3>1, <3>4, <3>5, <3>6 DEF CallOK
  <2>5. Upwards(c)'
    <3> DEFINE p == Up(c)
               x == wire[Holder(c)]
               g == Len(host[c].got)
               u == call[c].queue
    <3>1. UpOK(p, x, u, k) /\ (Listens(c) => NoGap(p, x, u, g) /\ NoLoss(p, x, u, g, k))
      BY <1>0, <1>2 DEF SessionOK, Upwards
    <3>2. g \in Nat /\ g <= k
      BY <1>0 DEF SessionOK, HostOK, HostRec
    <3>3. Holder(c)' = Holder(c) /\ (Listens(c)' <=> Listens(c))
      BY <1>1 DEF Holder, Listens
    <3>4. u \in Seq(Entries) /\ Carrying(e, p, k + 1)
      BY <1>8, <1>12
    <3> HIDE DEF p, x, g, u, k
    <3>5. /\ UpOK(p, x, Append(u, e), k + 1)
          /\ NoGap(p, x, u, g) /\ NoLoss(p, x, u, g, k) =>
               NoGap(p, x, Append(u, e), g) /\ NoLoss(p, x, Append(u, e), g, k + 1)
      BY <1>3, <1>6, <3>1, <3>2, <3>4, UpSends
    <3> QED
      BY <1>1, <1>7, <2>3, <3>1, <3>3, <3>5 DEF Upwards, p, x, g, u
  <2>6. Downwards(c)'
    <3>1. Like(call'[c].queue, call[c].queue, Down(c))
      BY <1>6, <1>8, <1>12, <2>3, AppendLike
    <3> QED
      BY <1>0, <1>1, <1>2, <1>7, <1>11, <2>3, <3>1, DownStill DEF SessionOK
  <2>7. WireOK'
    <3>1. \A d \in Calls : call'[d].id = call[d].id
      BY <2>3
    <3>2. \A d \in Calls : Stays(d)
      BY <1>1, <3>1, CarrierStays
    <3> QED
      BY <1>0, <1>11, <2>3, <3>2, WireStays
  <2>8. Len(host[c].got) <= client'[c].sent
    <3>1. Len(host[c].got) \in Nat /\ Len(host[c].got) <= k
      BY <1>0 DEF SessionOK, HostOK, HostRec
    <3> QED
      BY <1>3, <1>7, <2>3, <3>1
  <2>9. QuietBut(wire, wire', c)
    BY <1>11, <2>3
  <2>10. \A d \in Calls : d # c => KeepsPlaces(d)
    BY <1>1, <2>3, PlacesStay
  <2> QED
    BY <1>1, <2>3, <2>4, <2>5, <2>6, <2>7, <2>8, <2>9, <2>10, CarrierStep
<1> QED
  BY <1>14, <1>15

-----------------------------------------------------------------------------
(* The steps of the holder keep the pipes.                                 *)

LEMMA HostStep ==
  ASSUME RelayInv, PipesInv, NEW c \in Calls, UNCHANGED <<link, next, carried, at, call, client>>,
         \A d \in Calls : d # c => host'[d] = host[d], QuietBut(wire, wire', c),
         \A d \in Calls : d # c /\ host[d].open => host[d].id \in DOMAIN hosted'[Holder(d)],
         \A n \in Nodes : HostedOK(n)', WireOK', SessionOK(c)'
  PROVE  PipesInv'
<1>1. Numbers'
  BY NumbersStay DEF PipesInv
<1>2. \A d \in Calls : d # c => Untouched(d)
  BY DEF Untouched, QuietBut
<1>3. \A d \in Calls : d # c => KeepsPlaces(d)
  BY DEF PipesInv, SessionOK, CallOK, KeepsPlaces
<1> QED
  BY <1>1, <1>2, <1>3, OneSession

\* The holder lets go of a session.
LEMMA HostEnds ==
  ASSUME RelayInv, PipesInv, NEW c \in Calls, UNCHANGED <<link, next, carried, at, call, client>>,
         \A d \in Calls : d # c => host'[d] = host[d], QuietAll(wire, wire'), WireOK',
         host[c].pc # "none", host'[c].pc \in {"admitting", "over"}, host[c].pc # "admitting" => host'[c].pc = "over",
         host'[c].open = FALSE, host'[c].id = host[c].id, host'[c].sent = host[c].sent, host'[c].got = host[c].got,
         \/ hosted' = hosted /\ host[c].open = FALSE
         \/ hosted' = [hosted EXCEPT ![Holder(c)] = Without(hosted[Holder(c)], host[c].id)]
  PROVE  PipesInv'
<1>0. RestType /\ SessionOK(c)
  BY DEF RelayInv, PipesInv
<1>1. /\ \A n \in Nodes : HostedOK(n)'
      /\ \A d \in Calls : d # c /\ host[d].open => host[d].id \in DOMAIN hosted'[Holder(d)]
  <2>1. CASE hosted' = hosted /\ host[c].open = FALSE
    <3>1. \A d \in Calls : host'[d].id = host[d].id /\ host'[d].open = host[d].open
      BY <2>1
    <3>2. \A n \in Nodes : HostedOK(n)'
      BY <1>0, <2>1, <3>1, HostedStays DEF PipesInv
    <3> QED
      BY <2>1, <3>2 DEF PipesInv, SessionOK, HostOK
  <2>2. CASE hosted' = [hosted EXCEPT ![Holder(c)] = Without(hosted[Holder(c)], host[c].id)]
    BY <1>0, <2>2, HostedLess
  <2> QED
    BY <2>1, <2>2
<1>2. QuietBut(wire, wire', c) /\ Quiet(wire, wire', Up(c)) /\ Quiet(wire, wire', Down(c))
  BY AllIsBut DEF QuietAll
<1>3. HostOK(c)'
  BY <1>0 DEF SessionOK, HostOK, Begun
<1>4. CallOK(c)'
  <2>1. host[c].pc \in {"live", "over"} => host'[c].pc \in {"live", "over"}
    OBVIOUS
  <2> QED
    BY <1>0, <2>1 DEF SessionOK, CallOK, Begun
<1>5. Like(call'[c].queue, call[c].queue, Up(c)) /\ Like(call'[c].queue, call[c].queue, Down(c))
  BY LikeItself
<1>6. Upwards(c)'
  <2>1. Listens(c)' => Listens(c)
    BY DEF Listens
  <2> QED
    BY <1>0, <1>2, <1>5, <2>1, UpStill DEF SessionOK
<1>7. Downwards(c)'
  BY <1>0, <1>2, <1>5, DownStill DEF SessionOK
<1> QED
  BY <1>1, <1>2, <1>3, <1>4, <1>6, <1>7, HostStep DEF SessionOK

\* A control frame of the holder of c.
LEMMA HostFrame ==
  ASSUME RelayInv, PipesInv, NEW c \in Calls, NEW op \in {"ACCEPT", "REFUSE", "CLOSE"}, Begun(c),
         UNCHANGED <<at, call>>, \A d \in Calls : Stays(d), op = "ACCEPT" => host'[c].pc \in {"live", "over"},
         wire' = Sends(wire, Holder(c), Frame(op, call[c].id, c, NoMsg))
  PROVE  WireOK' /\ QuietAll(wire, wire')
<1>0. wire \in [Nodes -> Seq(Frames)] /\ call[c] \in CallRec /\ Holder(c) \in Nodes /\ WireOK
  BY StateFields, OtherNode DEF RelayInv, RestType, Holder, PipesInv
<1>n. PICK n \in Nodes : n = Holder(c)
  BY <1>0
<1>f. PICK f \in Frames : f = Frame(op, call[c].id, c, NoMsg)
  <2>1. Frame(op, call[c].id, c, NoMsg) \in Frames
    BY <1>0, FrameType, MessageType DEF Ops, CallRec
  <2> QED
    BY <2>1
<1>1. f.msg = NoMsg /\ f.op = op /\ f.call = c /\ f.id = call[c].id /\ wire' = Sends(wire, n, f)
  BY <1>n, <1>f DEF Frame
<1>2. QuietAll(wire, wire')
  BY <1>0, <1>1, ControlIsSilent, SendsSilent
<1>3. FrameOK(Other(n), f)'
  BY <1>1 DEF FrameOK, Begun
<1>4. Clean(wire) /\ Part(wire, wire)
  BY <1>0, WireIsClean
<1>5. WireOK'
  BY <1>0, <1>1, <1>3, <1>4, WireGrows
<1> QED
  BY <1>2, <1>5

LEMMA AdmitPipes ==
  ASSUME RelayInv, PipesInv, NEW c \in Calls, Admit(c)
  PROVE  PipesInv'
<1>0. /\ RestType /\ host \in [Calls -> HostRec] /\ host[c] \in HostRec /\ SessionOK(c)
      /\ client[c] \in ClientRec
  BY StateFields DEF RelayInv, RestType, PipesInv
<1>1. UNCHANGED <<link, next, carried, at, call, client>> /\ host[c].pc = "admitting"
  BY DEF Admit
<1>2. Begun(c) /\ host[c].id = call[c].id /\ host[c].got = <<>>
  BY <1>0, <1>1 DEF SessionOK, HostOK
<1>3. CASE /\ host' = [host EXCEPT ![c].pc = "live"] /\ UNCHANGED hosted
           /\ wire' = Sends(wire, Holder(c), Frame("ACCEPT", host[c].id, c, NoMsg))
  <2>1. /\ \A d \in Calls : d # c => host'[d] = host[d]
        /\ host'[c].pc = "live" /\ host'[c].open = host[c].open /\ host'[c].id = host[c].id
        /\ host'[c].sent = host[c].sent /\ host'[c].got = host[c].got
    <3>1. host' = [host EXCEPT ![c] = [host[c] EXCEPT !.pc = "live"]]
      BY <1>0, <1>3
    <3> QED
      BY <1>0, <3>1 DEF HostRec
  <2>2. \A d \in Calls : Stays(d)
    BY <1>1, <2>1 DEF Stays
  <2>3. WireOK' /\ QuietAll(wire, wire')
    BY <1>1, <1>2, <1>3, <2>1, <2>2, HostFrame
  <2>4. QuietBut(wire, wire', c) /\ Quiet(wire, wire', Up(c)) /\ Quiet(wire, wire', Down(c))
    BY <2>3, AllIsBut DEF QuietAll
  <2>5. \A d \in Calls : host'[d].id = host[d].id /\ host'[d].open = host[d].open
    BY <2>1
  <2>6. \A n \in Nodes : HostedOK(n)'
    BY <1>0, <1>1, <1>3, <2>5, HostedStays DEF PipesInv
  <2>7. \A d \in Calls : d # c /\ host[d].open => host[d].id \in DOMAIN hosted'[Holder(d)]
    BY <1>3 DEF PipesInv, SessionOK, HostOK
  <2>8. HostOK(c)'
    BY <1>0, <1>1, <1>2, <1>3, <2>1 DEF SessionOK, HostOK, Begun, Holder
  <2>9. CallOK(c)'
    BY <1>0, <1>1, <2>1 DEF SessionOK, CallOK, Begun
  <2>10. Like(call'[c].queue, call[c].queue, Up(c)) /\ Like(call'[c].queue, call[c].queue, Down(c))
    BY <1>1, LikeItself
  <2>11. Downwards(c)'
    BY <1>0, <1>1, <2>1, <2>4, <2>10, DownStill DEF SessionOK
  <2>12. Upwards(c)'
    <3> DEFINE p == Up(c)
               x == wire[Holder(c)]
               y == wire'[Holder(c)]
               q == call[c].queue
    <3>1. client[c].sent = 0
      BY <1>0, <1>1 DEF SessionOK, CallOK, ClientRec
    <3>2. UpOK(p, x, q, 0)
      BY <1>0, <3>1 DEF SessionOK, Upwards
    <3>3. Like(y, x, p) /\ Like(q, q, p)
      BY <1>0, <2>4, LikeItself, OtherNode DEF Quiet, RestType, Holder
    <3>4. Len(host'[c].got) = 0 /\ Holder(c)' = Holder(c)
      BY <1>1, <1>2, <2>1 DEF Holder
    <3> HIDE DEF p, x, y, q
    <3>5. UpOK(p, y, q, 0)
      BY <3>2, <3>3, UpSame
    <3>6. NoGap(p, y, q, 0) /\ NoLoss(p, y, q, 0, 0)
      BY <3>5, UpFresh
    <3> QED
      BY <1>1, <3>1, <3>4, <3>5, <3>6 DEF Upwards, p, y, q
  <2> QED
    BY <1>1, <2>1, <2>3, <2>4, <2>6, <2>7, <2>8, <2>9, <2>11, <2>12, HostStep DEF SessionOK
<1>4. CASE /\ host' = [host EXCEPT ![c].pc = "over", ![c].open = FALSE]
           /\ hosted' = [hosted EXCEPT ![Holder(c)] = Without(@, host[c].id)]
           /\ wire' = Sends(wire, Holder(c), Frame("REFUSE", host[c].id, c, NoMsg))
  <2>1. /\ \A d \in Calls : d # c => host'[d] = host[d]
        /\ host'[c].pc = "over" /\ host'[c].open = FALSE /\ host'[c].id = host[c].id
        /\ host'[c].sent = host[c].sent /\ host'[c].got = host[c].got
    <3>1. host' = [host EXCEPT ![c] = [host[c] EXCEPT !.pc = "over", !.open = FALSE]]
      BY <1>0, <1>4
    <3> QED
      BY <1>0, <3>1 DEF HostRec
  <2>2. \A d \in Calls : Stays(d)
    BY <1>1, <2>1 DEF Stays
  <2>3. WireOK' /\ QuietAll(wire, wire')
    BY <1>1, <1>2, <1>4, <2>2, HostFrame
  <2>4. hosted' = [hosted EXCEPT ![Holder(c)] = Without(hosted[Holder(c)], host[c].id)]
    BY <1>4
  <2> QED
    BY <1>1, <2>1, <2>3, <2>4, HostEnds
<1> QED
  BY <1>3, <1>4 DEF Admit

LEMMA HangsUpPipes ==
  ASSUME RelayInv, PipesInv, NEW c \in Calls, HangsUp(c)
  PROVE  PipesInv'
<1>0. /\ RestType /\ host \in [Calls -> HostRec] /\ host[c] \in HostRec /\ SessionOK(c) /\ WireOK
      /\ wire \in [Nodes -> Seq(Frames)]
  BY StateFields DEF RelayInv, RestType, PipesInv
<1>1. /\ UNCHANGED <<link, next, carried, at, call, client>> /\ host[c].pc = "live"
      /\ host' = [host EXCEPT ![c] = [host[c] EXCEPT !.pc = "over", !.open = FALSE]]
  BY <1>0 DEF HangsUp
<1>2. Begun(c) /\ host[c].id = call[c].id
  BY <1>0, <1>1 DEF SessionOK, HostOK
<1>3. /\ \A d \in Calls : d # c => host'[d] = host[d]
      /\ host'[c].pc = "over" /\ host'[c].open = FALSE /\ host'[c].id = host[c].id
      /\ host'[c].sent = host[c].sent /\ host'[c].got = host[c].got
  BY <1>0, <1>1 DEF HostRec
<1>4. \A d \in Calls : Stays(d)
  BY <1>1, <1>3 DEF Stays
<1>5. CASE host[c].open
  <2>1. /\ hosted' = [hosted EXCEPT ![Holder(c)] = Without(hosted[Holder(c)], host[c].id)]
        /\ wire' = Sends(wire, Holder(c), Frame("CLOSE", call[c].id, c, NoMsg))
    BY <1>2, <1>5 DEF HangsUp
  <2>2. WireOK' /\ QuietAll(wire, wire')
    BY <1>1, <1>2, <1>4, <2>1, HostFrame
  <2> QED
    BY <1>1, <1>3, <2>1, <2>2, HostEnds
<1>6. CASE ~host[c].open
  <2>1. hosted' = hosted /\ wire' = wire /\ host[c].open = FALSE
    BY <1>0, <1>6 DEF HangsUp, HostRec
  <2>2. Clean(wire') /\ Part(wire', wire) /\ wire' \in [Nodes -> Seq(Frames)] /\ QuietAll(wire, wire')
    BY <1>0, <2>1, WireIsClean, QuietItself
  <2>3. WireOK'
    BY <1>0, <1>4, <2>2, WireStays
  <2> QED
    BY <1>1, <1>3, <2>1, <2>2, <2>3, HostEnds
<1> QED
  BY <1>5, <1>6

LEMMA HostSendsPipes ==
  ASSUME RelayInv, PipesInv, NEW c \in Calls, HostSends(c)
  PROVE  PipesInv'
<1>0. /\ RestType /\ host \in [Calls -> HostRec] /\ host[c] \in HostRec /\ SessionOK(c) /\ WireOK
      /\ wire \in [Nodes -> Seq(Frames)] /\ call[c] \in CallRec /\ client[c] \in ClientRec
      /\ Holder(c) \in Nodes /\ at[c] \in Nodes /\ Other(Holder(c)) = at[c]
  BY StateFields, OtherNode DEF RelayInv, RestType, PipesInv, Holder
<1> DEFINE k == host[c].sent
<1>1. /\ UNCHANGED <<link, next, carried, hosted, at, call, client>> /\ host[c].pc = "live" /\ host[c].open = TRUE
      /\ host' = [host EXCEPT ![c] = [host[c] EXCEPT !.sent = k + 1]]
  BY <1>0 DEF HostSends, HostRec
<1>2. Begun(c) /\ host[c].id = call[c].id /\ k \in Nat /\ k + 1 \in Nat
  BY <1>0, <1>1 DEF SessionOK, HostOK, HostRec
<1>n. PICK n \in Nodes : n = Holder(c)
  BY <1>0
<1>f. PICK f \in Frames : f = Frame("DATA", host[c].id, c, Message(Down(c), k + 1))
  <2>1. host[c].id \in Nat /\ Message(Down(c), k + 1) \in Msgs
    BY <1>0, <1>2, MessageType DEF HostRec
  <2>2. Frame("DATA", host[c].id, c, Message(Down(c), k + 1)) \in Frames
    BY <2>1, FrameType DEF Ops
  <2> QED
    BY <2>2
<1>3. f.msg = Message(Down(c), k + 1) /\ f.op = "DATA" /\ f.call = c /\ f.id = call[c].id
  BY <1>2, <1>f DEF Frame
<1>4. Only(f, c) /\ Is(f, Up(c)) = {} /\ Carrying(f, Down(c), k + 1)
  BY <1>2, <1>3, DownOnly
<1>5. wire' = Sends(wire, n, f) /\ Other(n) = at[c]
  BY <1>0, <1>f, <1>n DEF HostSends
<1>6. QuietBut(wire, wire', c) /\ Quiet(wire, wire', Up(c))
  BY <1>0, <1>4, <1>5, SendsOnly, SendsQuiet
<1>7. /\ \A d \in Calls : d # c => host'[d] = host[d]
      /\ host'[c].pc = "live" /\ host'[c].open = TRUE /\ host'[c].id = host[c].id
      /\ host'[c].sent = k + 1 /\ host'[c].got = host[c].got
  BY <1>0, <1>1 DEF HostRec
<1>8. WireOK'
  <2>1. \A d \in Calls : Stays(d)
    BY <1>1, <1>7 DEF Stays
  <2>2. FrameOK(Other(n), f)'
    BY <1>1, <1>2, <1>3, <1>5 DEF FrameOK, Begun
  <2>3. Clean(wire) /\ Part(wire, wire)
    BY <1>0, WireIsClean
  <2> QED
    BY <1>0, <1>3, <1>5, <2>1, <2>2, <2>3, WireGrows
<1>9. \A m \in Nodes : HostedOK(m)'
  <2>1. \A d \in Calls : host'[d].id = host[d].id /\ host'[d].open = host[d].open
    BY <1>1, <1>7
  <2> QED
    BY <1>0, <1>1, <2>1, HostedStays DEF PipesInv
<1>10. \A d \in Calls : d # c /\ host[d].open => host[d].id \in DOMAIN hosted'[Holder(d)]
  BY <1>1 DEF PipesInv, SessionOK, HostOK
<1>11. HostOK(c)'
  BY <1>0, <1>1, <1>2, <1>7 DEF SessionOK, HostOK, Begun, Holder
<1>12. CallOK(c)'
  <2>1. Len(client[c].got) <= k + 1
    <3>1. Len(client[c].got) \in Nat /\ Len(client[c].got) <= k
      BY <1>0 DEF SessionOK, CallOK, ClientRec
    <3> QED
      BY <1>2, <3>1
  <2> QED
    BY <1>0, <1>1, <1>7, <2>1 DEF SessionOK, CallOK, Begun
<1>13. Upwards(c)'
  <2>1. Listens(c)' => Listens(c)
    BY <1>1 DEF Listens
  <2>2. Like(call'[c].queue, call[c].queue, Up(c))
    BY <1>1, LikeItself
  <2> QED
    BY <1>0, <1>1, <1>6, <1>7, <2>1, <2>2, UpStill DEF SessionOK
<1>14. Downwards(c)'
  <2> SUFFICES ASSUME ~call[c].closed
               PROVE  DownOK(Down(c), wire'[at[c]], call[c].inbox, call[c].queue, Len(client[c].got), k + 1)
    BY <1>1, <1>7 DEF Downwards
  <2> DEFINE x == wire[at[c]]
             p == Down(c)
             i == call[c].inbox
             q == call[c].queue
             g == Len(client[c].got)
  <2>1. at[c] \in link /\ n \in link
    <3>1. Listens(c)
      BY <1>1 DEF Listens
    <3> QED
      BY <1>0, <1>2, <1>n, <3>1, ListensLinked DEF SessionOK, CallOK
  <2>2. wire'[at[c]] = Append(x, f)
    BY <1>0, <1>5, <2>1 DEF Sends
  <2>3. DownOK(p, x, i, q, g, k)
    BY <1>0 DEF SessionOK, Downwards
  <2>4. x \in Seq(Frames) /\ g \in Nat /\ g <= k /\ Carrying(f, p, k + 1)
    BY <1>0, <1>4 DEF SessionOK, CallOK, ClientRec
  <2> HIDE DEF x, p, i, q, g, k
  <2>5. DownOK(p, Append(x, f), i, q, g, k + 1)
    BY <1>2, <2>3, <2>4, DownSends
  <2> QED
    BY <2>2, <2>5 DEF x, p, i, q, g
<1> QED
  BY <1>1, <1>6, <1>7, <1>8, <1>9, <1>10, <1>11, <1>12, <1>13, <1>14, HostStep DEF SessionOK

-----------------------------------------------------------------------------
(* Reading a frame keeps the pipes.                                        *)

LEMMA HeadIs ==
  ASSUME RelayInv, PipesInv, NEW n \in Nodes, wire[n] # <<>>, NEW f, f = Head(wire[n]),
         NEW w, w = [wire EXCEPT ![n] = Tail(@)]
  PROVE  /\ f \in Frames /\ f.call \in Calls /\ FrameOK(n, f) /\ f.msg \in Msgs
         /\ w \in [Nodes -> Seq(Frames)] /\ Clean(w) /\ Part(w, wire)
         /\ f.op = "OPEN" => NoOpen(w[n], f.call)
         /\ f.op # "DATA" => QuietAll(wire, w)
<1>0. wire \in [Nodes -> Seq(Frames)] /\ WireOK /\ Clean(wire) /\ wire[n] \in Seq(Frames)
  BY StateFields, WireIsClean DEF RelayInv, PipesInv
<1>1. f \in Frames /\ w \in [Nodes -> Seq(Frames)]
  BY <1>0, TailType
<1>2. f \in Elements(wire[n])
  BY <1>0, ElementsOf
<1>3. f.call \in Calls /\ FrameOK(n, f) /\ f.msg \in Msgs
  BY <1>0, <1>1, <1>2 DEF Frames, WireOK
<1>4. Clean(w) /\ Part(w, wire) /\ (f.op = "OPEN" => NoOpen(w[n], f.call))
  BY <1>0, TailClean
<1>5. f.op # "DATA" => QuietAll(wire, w)
  <2>1. f.op # "DATA" => Silent(f)
    BY <1>3, ControlIsSilent DEF FrameOK
  <2> QED
    BY <1>0, <2>1, TailSilent
<1> QED
  BY <1>1, <1>3, <1>4, <1>5

\* Only the wire changes.
LEMMA WireStep ==
  ASSUME RelayInv, PipesInv, NEW c \in Calls, UNCHANGED <<link, next, carried, hosted, at, call, client, host>>,
         QuietBut(wire, wire', c), WireOK', Upwards(c)', Downwards(c)'
  PROVE  PipesInv'
<1>1. CallOK(c)' /\ Len(host[c].got) <= client'[c].sent
  BY DEF PipesInv, SessionOK, CallOK, HostOK, Begun
<1>2. \A d \in Calls : d # c => KeepsPlaces(d)
  BY PlacesStay
<1> QED
  BY <1>1, <1>2, CarrierStep

LEMMA SilentStep ==
  ASSUME RelayInv, PipesInv, NEW c \in Calls, UNCHANGED <<link, next, carried, hosted, at, call, client, host>>,
         QuietAll(wire, wire'), WireOK'
  PROVE  PipesInv'
<1>1. QuietBut(wire, wire', c) /\ Quiet(wire, wire', Up(c)) /\ Quiet(wire, wire', Down(c)) /\ SessionOK(c)
  BY AllIsBut DEF QuietAll, PipesInv
<1>2. Like(call'[c].queue, call[c].queue, Up(c)) /\ Like(call'[c].queue, call[c].queue, Down(c))
  BY LikeItself
<1>3. Upwards(c)'
  <2>1. Listens(c)' => Listens(c)
    BY DEF Listens
  <2> QED
    BY <1>1, <1>2, <2>1, UpStill DEF SessionOK
<1>4. Downwards(c)'
  BY <1>1, <1>2, DownStill DEF SessionOK
<1> QED
  BY <1>1, <1>3, <1>4, WireStep

LEMMA HostsPipes ==
  ASSUME RelayInv, PipesInv, NEW n \in Nodes, n \in link, wire[n] # <<>>, NEW f, f = Head(wire[n]),
         f.op = "OPEN", Hosts(n, f), UNCHANGED <<link, next, at>>
  PROVE  PipesInv'
<1>w. PICK w : w = [wire EXCEPT ![n] = Tail(@)]
  OBVIOUS
<1>0. /\ f \in Frames /\ f.call \in Calls /\ FrameOK(n, f)
      /\ w \in [Nodes -> Seq(Frames)] /\ Clean(w) /\ Part(w, wire)
      /\ NoOpen(w[n], f.call) /\ QuietAll(wire, w)
  BY <1>w, HeadIs
<1>c. PICK c \in Calls : c = f.call
  BY <1>0
<1>1. /\ RestType /\ WireOK /\ host \in [Calls -> HostRec] /\ host[c] \in HostRec /\ SessionOK(c)
      /\ hosted \in [Nodes -> Sessions] /\ f.id \in Nat /\ wire \in [Nodes -> Seq(Frames)]
  BY <1>0, StateFields DEF RelayInv, RestType, PipesInv, Frames
<1>2. Begun(c) /\ f.id = call[c].id /\ n = Holder(c) /\ host[c].pc = "none"
  BY <1>0, <1>c DEF FrameOK
<1>3. UNCHANGED <<carried, call, client>>
  BY DEF Hosts
<1>4. CASE /\ wire' = Sends(w, n, Frame("REFUSE", f.id, f.call, NoMsg)) /\ UNCHANGED <<hosted, host>>
  <2>e. PICK e \in Frames : e = Frame("REFUSE", f.id, f.call, NoMsg)
    <3>1. Frame("REFUSE", f.id, f.call, NoMsg) \in Frames
      BY <1>0, <1>1, FrameType, MessageType DEF Ops
    <3> QED
      BY <3>1
  <2>1. e.msg = NoMsg /\ e.op = "REFUSE" /\ e.call = c /\ e.id = call[c].id /\ wire' = Sends(w, n, e)
    BY <1>2, <1>4, <1>c, <2>e DEF Frame
  <2>2. QuietAll(wire, wire')
    <3>1. QuietAll(w, wire')
      BY <1>0, <2>1, ControlIsSilent, SendsSilent
    <3> QED
      BY <1>0, <3>1, AllAll
  <2>3. WireOK'
    <3>1. \A d \in Calls : Stays(d)
      BY <1>3, <1>4 DEF Stays
    <3>2. FrameOK(Other(n), e)'
      BY <1>2, <1>3, <2>1 DEF FrameOK, Begun
    <3> QED
      BY <1>0, <1>1, <2>1, <3>1, <3>2, WireGrows
  <2> QED
    BY <1>3, <1>4, <2>2, <2>3, SilentStep
<1>5. CASE /\ wire' = w /\ hosted' = [hosted EXCEPT ![n] = With(@, f.id, f.call)]
           /\ host' = [host EXCEPT ![f.call] = [@ EXCEPT !.pc = "admitting", !.open = TRUE, !.id = f.id]]
  <2>1. /\ \A d \in Calls : d # c => host'[d] = host[d]
        /\ host'[c].pc = "admitting" /\ host'[c].open = TRUE /\ host'[c].id = f.id
        /\ host'[c].sent = host[c].sent /\ host'[c].got = host[c].got
    <3>1. host' = [host EXCEPT ![c] = [host[c] EXCEPT !.pc = "admitting", !.open = TRUE, !.id = f.id]]
      BY <1>5, <1>c
    <3> QED
      BY <1>1, <3>1 DEF HostRec
  <2> DEFINE h == hosted[n]
             id == f.id
             g == With(h, id, c)
  <2>2. DOMAIN g = DOMAIN h \cup {id} /\ g[id] = c /\ \A j \in DOMAIN h : j # id => g[j] = h[j]
    <3>0. h \in Sessions /\ id \in Nat
      BY <1>1
    <3> HIDE DEF h, id
    <3>1. DOMAIN g = DOMAIN h \cup {id} /\ g[id] = c
      BY <3>0, WithSessions
    <3>2. \A j \in DOMAIN h : j # id => g[j] = h[j]
      BY <3>0, WithSessions
    <3> QED
      BY <3>1, <3>2
  <2>3. hosted'[n] = g /\ \A m \in Nodes : m # n => hosted'[m] = hosted[m]
    BY <1>1, <1>5, <1>c
  <2>4. \A m \in Nodes : \A i \in DOMAIN hosted[m] : hosted[m][i] \in Calls /\ hosted[m][i] # c
    <3>1. ~host[c].open
      BY <1>1, <1>2 DEF SessionOK, HostOK
    <3>2. \A m \in Nodes : \A i \in DOMAIN hosted[m] : hosted[m][i] \in Calls
      BY <1>1, SessionsType
    <3> QED
      BY <3>1, <3>2 DEF PipesInv, HostedOK
  <2>5. \A d \in Calls : Holder(d)' = Holder(d) /\ Holder(d) \in Nodes
    BY <1>1, OtherNode DEF Holder, RestType
  <2> HIDE DEF g, id
  <2>6. ASSUME NEW m \in Nodes PROVE HostedOK(m)'
    <3>1. HostedOK(m)
      BY DEF PipesInv
    <3>2. CASE m # n
      <4>1. hosted'[m] = hosted[m]
        BY <2>3, <3>2
      <4> QED
        BY <2>1, <2>4, <2>5, <3>1, <4>1 DEF HostedOK
    <3>3. CASE m = n
      <4>1. ASSUME NEW j \in DOMAIN hosted'[n]
            PROVE  \E d \in Calls : d = hosted'[n][j] /\ Holder(d) = n /\ host'[d].id = j /\ host'[d].open = TRUE
        <5>1. CASE j = id
          BY <1>2, <2>1, <2>2, <2>3, <2>5, <5>1 DEF id
        <5>2. CASE j # id
          <6>1. j \in DOMAIN hosted[n] /\ hosted'[n][j] = hosted[n][j]
            BY <2>2, <2>3, <4>1, <5>2
          <6>2. hosted[n][j] \in Calls /\ hosted[n][j] # c
            BY <2>4, <6>1
          <6>3. Holder(hosted[n][j]) = n /\ host[hosted[n][j]].id = j /\ host[hosted[n][j]].open = TRUE
            BY <3>1, <3>3, <6>1 DEF HostedOK
          <6> QED
            BY <2>1, <2>5, <6>1, <6>2, <6>3
        <5> QED
          BY <5>1, <5>2
      <4>2. ASSUME NEW j \in DOMAIN hosted'[n]
            PROVE  Other(at'[hosted'[n][j]]) = n /\ host'[hosted'[n][j]].id = j /\ host'[hosted'[n][j]].open = TRUE
        BY <4>1, <4>2 DEF Holder
      <4> QED
        BY <3>3, <4>2 DEF HostedOK, Holder
    <3> QED
      BY <3>2, <3>3
  <2>7. \A d \in Calls : d # c /\ host[d].open => host[d].id \in DOMAIN hosted'[Holder(d)]
    <3>1. \A d \in Calls : host[d].open => host[d].id \in DOMAIN hosted[Holder(d)]
      BY DEF PipesInv, SessionOK, HostOK
    <3>2. \A m \in Nodes : DOMAIN hosted[m] \subseteq DOMAIN hosted'[m]
      BY <2>2, <2>3
    <3> QED
      BY <2>5, <3>1, <3>2
  <2>8. WireOK'
    <3>1. ASSUME NEW m \in Nodes, NEW e \in Elements(wire'[m]) PROVE FrameOK(m, e)'
      <4>1. e \in Elements(wire[m])
        BY <1>0, <1>5, <3>1 DEF Part
      <4>2. e \in Frames /\ FrameOK(m, e) /\ e.call \in Calls
        <5>1. wire[m] \in Seq(Frames) /\ FrameOK(m, e)
          BY <1>1, <4>1 DEF WireOK
        <5>2. e \in Frames
          BY <4>1, <5>1, ElementsOf
        <5> QED
          BY <5>1, <5>2 DEF Frames
      <4>3. ~(e.op = "OPEN" /\ e.call = c)
        <5>1. e.op = "OPEN" /\ e.call = c => m = n
          BY <1>2, <4>2 DEF FrameOK
        <5> QED
          BY <1>0, <1>5, <1>c, <3>1, <5>1 DEF NoOpen
      <4> QED
        BY <1>2, <1>3, <2>1, <2>5, <4>2, <4>3 DEF FrameOK, Begun
    <3>2. \A m \in Nodes : OpensOnce(wire'[m])
      BY <1>0, <1>5 DEF Clean
    <3> QED
      BY <3>1, <3>2 DEF WireOK
  <2>9. HostOK(c)'
    <3>1. f.id \in DOMAIN hosted'[Holder(c)]
      BY <1>2, <2>2, <2>3 DEF id
    <3> QED
      BY <1>1, <1>2, <1>3, <2>1, <2>5, <3>1 DEF SessionOK, HostOK, Begun
  <2>10. CallOK(c)'
    BY <1>1, <1>2, <1>3, <2>1 DEF SessionOK, CallOK, Begun
  <2>11. QuietBut(wire, wire', c) /\ Quiet(wire, wire', Up(c)) /\ Quiet(wire, wire', Down(c))
    BY <1>0, <1>5, AllIsBut DEF QuietAll
  <2>12. Like(call'[c].queue, call[c].queue, Up(c)) /\ Like(call'[c].queue, call[c].queue, Down(c))
    BY <1>3, LikeItself
  <2>13. Upwards(c)'
    <3>1. Listens(c)' => Listens(c)
      BY <2>1 DEF Listens
    <3> QED
      BY <1>1, <1>3, <2>1, <2>11, <2>12, <3>1, UpStill DEF SessionOK
  <2>14. Downwards(c)'
    BY <1>1, <1>3, <2>1, <2>11, <2>12, DownStill DEF SessionOK
  <2> QED
    BY <1>3, <2>1, <2>6, <2>7, <2>8, <2>9, <2>10, <2>11, <2>13, <2>14, HostStep DEF SessionOK
<1> QED
  BY <1>4, <1>5, <1>w DEF Hosts

\* A frame for a session that the reader carries.
LEMMA ToClientPipes ==
  ASSUME RelayInv, PipesInv, NEW n \in Nodes, wire[n] # <<>>, NEW f, f = Head(wire[n]), f.op # "OPEN",
         f.id \in DOMAIN carried[n], UNCHANGED <<link, next, hosted, at, host>>,
         Becomes(ToClient([State EXCEPT !.wire[n] = Tail(@)], carried[n][f.id], f))
  PROVE  PipesInv'
<1>w. PICK w : w = [wire EXCEPT ![n] = Tail(@)]
  OBVIOUS
<1>0. /\ f \in Frames /\ f.call \in Calls /\ FrameOK(n, f) /\ f.msg \in Msgs
      /\ w \in [Nodes -> Seq(Frames)] /\ Clean(w) /\ Part(w, wire)
      /\ f.op # "DATA" => QuietAll(wire, w)
  BY <1>w, HeadIs
<1>1. /\ State \in Carrier /\ State.call = call /\ State.client = client /\ State.wire = wire /\ State.carried = carried
      /\ call \in [Calls -> CallRec] /\ client \in [Calls -> ClientRec] /\ wire \in [Nodes -> Seq(Frames)]
      /\ carried \in [Nodes -> Sessions] /\ WireOK /\ RestType /\ Carries(State)
  BY StateFields DEF RelayInv, PipesInv
<1>2. carried[n][f.id] \in Calls
  BY <1>1, SessionsType
<1>c. PICK c \in Calls : c = carried[n][f.id]
  BY <1>2
<1>3. /\ at[c] = n /\ call[c].id = f.id /\ call[c].closed = FALSE /\ call[c].pc \in {"opening", "attached"}
  <2>1. Slot(State, n, f.id)
    BY <1>1 DEF Carries
  <2> QED
    BY <1>1, <1>c, <2>1 DEF Slot
<1>4. /\ call[c] \in CallRec /\ client[c] \in ClientRec /\ host[c] \in HostRec /\ SessionOK(c) /\ Begun(c)
  <2>1. SessionOK(c)
    BY DEF PipesInv
  <2> QED
    BY <1>1, <1>3, <2>1 DEF RestType, SessionOK, CallOK
<1>5. f.call = c
  BY <1>0, <1>3, <1>4 DEF FrameOK, PipesInv, Numbers
<1> DEFINE s == [State EXCEPT !.wire = w]
<1>6. [State EXCEPT !.wire[n] = Tail(@)] = s
  BY <1>1, <1>w DEF State
<1>7. s \in Carrier /\ s.wire = w /\ s.call = call /\ s.client = client /\ s.carried = carried
  BY <1>0, <1>1 DEF State, Carrier
<1>8. Becomes(ToClient(s, c, f)) /\ Others(State, s, c)
  BY <1>1, <1>6, <1>7, <1>c DEF Others
<1> HIDE DEF s
<1>9. client[c].sent <= s.client[c].sent /\ (s.client[c].sent > 0 => call[c].pc = "attached")
  BY <1>4, <1>7 DEF ClientRec, SessionOK, CallOK
<1>10. call[c].pc = "attached" => call[c].answer = "accept"
  BY <1>4 DEF SessionOK, CallOK
<1>11. CASE f.op \in {"ACCEPT", "REFUSE"}
  <2> DEFINE a == IF call[c].answer # "none" \/ call[c].closed THEN call[c].answer
                  ELSE IF f.op = "ACCEPT" THEN "accept" ELSE "decline"
             r == [call[c] EXCEPT !.answer = a]
             t == [s EXCEPT !.call = [call EXCEPT ![c] = r]]
  <2>1. ToClient(s, c, f) = t
    BY <1>1, <1>7, <1>11 DEF ToClient, Carrier, CallRec
  <2>2. t.wire = w /\ t.carried = carried /\ t.client = client /\ t.call = [call EXCEPT ![c] = r]
    BY <1>7 DEF Carrier
  <2>3. /\ r.pc = call[c].pc /\ r.id = call[c].id /\ r.closed = call[c].closed /\ r.answer = a
        /\ r.queue = call[c].queue /\ r.inbox = call[c].inbox
    BY <1>4 DEF CallRec
  <2>4. /\ a = "accept" => call[c].answer = "accept" \/ f.op = "ACCEPT"
        /\ call[c].answer = "accept" => a = "accept"
    BY <1>3
  <2> HIDE DEF r, a
  <2>5. Becomes(t)
    BY <1>8, <2>1
  <2> HIDE DEF t
  <2>6. /\ wire' = w /\ carried' = carried /\ client' = client /\ call'[c] = r
        /\ \A d \in Calls : d # c => call'[d] = call[d]
    BY <1>1, <2>2, <2>5 DEF Becomes
  <2>7. a = "accept" => host[c].pc \in {"live", "over"}
    BY <1>0, <1>4, <1>5, <2>4 DEF FrameOK, SessionOK, CallOK
  <2>8. CallOK(c)'
    BY <1>4, <2>3, <2>4, <2>6, <2>7 DEF SessionOK, CallOK, Begun
  <2>9. QuietAll(wire, wire')
    BY <1>0, <1>11, <2>6
  <2>10. QuietBut(wire, wire', c) /\ Quiet(wire, wire', Up(c)) /\ Quiet(wire, wire', Down(c))
    BY <2>9, AllIsBut DEF QuietAll
  <2>11. WireOK'
    <3>1. \A d \in Calls : call'[d].id = call[d].id
      BY <2>3, <2>6
    <3>2. \A d \in Calls : Stays(d)
      BY <3>1, CarrierStays
    <3> QED
      BY <1>0, <1>1, <2>6, <3>2, WireStays
  <2>12. Like(call'[c].queue, call[c].queue, Up(c)) /\ Like(call'[c].queue, call[c].queue, Down(c))
    BY <2>3, <2>6, LikeItself
  <2>13. Upwards(c)'
    <3>1. Listens(c)' => Listens(c)
      BY DEF Listens
    <3> QED
      BY <1>4, <2>3, <2>6, <2>10, <2>12, <3>1, UpStill DEF SessionOK
  <2>14. Downwards(c)'
    BY <1>4, <2>3, <2>6, <2>10, <2>12, DownStill DEF SessionOK
  <2>15. Len(host[c].got) <= client'[c].sent
    BY <1>4, <2>6 DEF SessionOK, HostOK
  <2>16. \A d \in Calls : d # c => KeepsPlaces(d)
    BY <2>6, PlacesStay
  <2> QED
    BY <2>3, <2>6, <2>8, <2>10, <2>11, <2>13, <2>14, <2>15, <2>16, CarrierStep
<1>12. CASE f.op = "CLOSE"
  <2>1. Becomes(CloseCarried(s, c))
    BY <1>8, <1>12 DEF ToClient
  <2>2. QuietBut(wire, s.wire, c) /\ Quiet(wire, s.wire, Up(c))
    BY <1>0, <1>7, <1>12, AllIsBut DEF QuietAll
  <2> QED
    BY <1>0, <1>3, <1>4, <1>7, <1>8, <1>9, <1>10, <2>1, <2>2, ClosingStep
<1>13. CASE f.op \notin {"ACCEPT", "REFUSE", "CLOSE"}
  <2>1. f.op = "DATA"
    BY <1>0, <1>13 DEF Frames, Ops
  <2>2. PICK k \in Nat : f.msg = Message(Down(c), k)
    <3>1. n # Holder(c)
      BY <1>3, OtherNode DEF Holder
    <3> QED
      BY <1>0, <1>5, <2>1, <3>1 DEF FrameOK
  <2>3. Only(f, c) /\ Is(f, Up(c)) = {} /\ Carrying(f, Down(c), k)
    BY <2>2, DownOnly
  <2>4. QuietBut(wire, w, c) /\ Quiet(wire, w, Up(c))
    BY <1>1, <1>w, <2>3, TailOnly, TailQuiet
  <2>e. PICK e : e = Entry(Down(c), f.msg)
    OBVIOUS
  <2>5. e \in Entries /\ Carrying(e, Down(c), k) /\ Is(e, Up(c)) = {} /\ e = Entry(Down(c), Message(Down(c), k))
    <3>1. e.msg = Message(Down(c), k) /\ e \in Entries
      BY <1>0, <2>2, <2>e, EntryType DEF Entry
    <3> QED
      BY <2>2, <2>e, <3>1, DownOnly
  <2> DEFINE x == wire[n]
             i == call[c].inbox
             q == call[c].queue
             g == Len(client[c].got)
             p == Down(c)
  <2>6. /\ x \in Seq(Frames) /\ x # <<>> /\ w[n] = Tail(x) /\ i \in Seq(Entries) /\ q \in Seq(Entries)
        /\ Carrying(Head(x), p, k) /\ DownOK(p, x, i, q, g, host[c].sent)
    BY <1>1, <1>3, <1>4, <1>w, <2>3 DEF CallRec, SessionOK, Downwards
  <2> HIDE DEF x, i, q, g, p
  <2>7. CASE call[c].pc # "attached"
    <3> DEFINE r == [call[c] EXCEPT !.inbox = Append(call[c].inbox, e)]
               t == [s EXCEPT !.call = [call EXCEPT ![c] = r]]
    <3>1. ToClient(s, c, f) = t
      BY <1>1, <1>7, <1>13, <2>7, <2>e DEF ToClient, Carrier, CallRec
    <3>2. t.wire = w /\ t.carried = carried /\ t.client = client /\ t.call = [call EXCEPT ![c] = r]
      BY <1>7 DEF Carrier
    <3>3. /\ r.pc = call[c].pc /\ r.id = call[c].id /\ r.closed = call[c].closed /\ r.answer = call[c].answer
          /\ r.queue = call[c].queue /\ r.inbox = Append(i, e)
      BY <1>4 DEF CallRec, i
    <3> HIDE DEF r
    <3>4. Becomes(t)
      BY <1>8, <3>1
    <3> HIDE DEF t
    <3>5. /\ wire' = w /\ carried' = carried /\ client' = client /\ call'[c] = r
          /\ \A d \in Calls : d # c => call'[d] = call[d]
      BY <1>1, <3>2, <3>4 DEF Becomes
    <3>6. CallOK(c)'
      <4>1. Elements(Append(i, e)) = Elements(i) \cup {e}
        BY <2>5, <2>6, ElementsOf
      <4>2. \A m \in Elements(i) : \E j \in Nat : m = Entry(Down(c), Message(Down(c), j))
        BY <1>4 DEF SessionOK, CallOK, i
      <4>3. \A m \in Elements(call'[c].inbox) : \E j \in Nat : m = Entry(Down(c), Message(Down(c), j))
        BY <2>5, <3>3, <3>5, <4>1, <4>2
      <4> QED
        BY <1>4, <2>7, <3>3, <3>5, <4>3 DEF SessionOK, CallOK, Begun
    <3>7. WireOK'
      <4>1. \A d \in Calls : call'[d].id = call[d].id
        BY <3>3, <3>5
      <4>2. \A d \in Calls : Stays(d)
        BY <4>1, CarrierStays
      <4> QED
        BY <1>0, <1>1, <3>5, <4>2, WireStays
    <3>8. Upwards(c)'
      <4>1. Listens(c)' => Listens(c)
        BY DEF Listens
      <4>2. Like(call'[c].queue, call[c].queue, Up(c))
        BY <3>3, <3>5, LikeItself
      <4> QED
        BY <1>4, <2>4, <3>3, <3>5, <4>1, <4>2, UpStill DEF SessionOK
    <3>9. Downwards(c)'
      <4>1. DownOK(p, Tail(x), Append(i, e), q, g, host[c].sent)
        BY <2>5, <2>6, DownKept DEF p
      <4> QED
        BY <1>3, <2>6, <3>3, <3>5, <4>1 DEF Downwards, p, q, g
    <3>10. Len(host[c].got) <= client'[c].sent
      BY <1>4, <3>5 DEF SessionOK, HostOK
    <3>11. \A d \in Calls : d # c => KeepsPlaces(d)
      BY <3>5, PlacesStay
    <3>12. QuietBut(wire, wire', c)
      BY <2>4, <3>5
    <3> QED
      BY <3>3, <3>5, <3>6, <3>7, <3>8, <3>9, <3>10, <3>11, <3>12, CarrierStep
  <2>8. CASE call[c].pc = "attached"
    <3>1. Becomes(Forward(s, c, <<e>>)) /\ s.call[c].closed = FALSE /\ <<e>> \in Seq(Entries)
      <4>1. s.call[c].pc = "attached" /\ s.call[c].closed = FALSE
        BY <1>3, <1>7, <2>8
      <4>2. ToClient(s, c, f) = Forward(s, c, <<Entry(Down(c), f.msg)>>)
        BY <1>13, <4>1 DEF ToClient
      <4>3. <<e>> \in Seq(Entries)
        BY <2>5
      <4> QED
        BY <1>8, <2>e, <4>1, <4>2, <4>3
    <3>2. i = <<>> /\ client[c].sock = "open"
      BY <1>3, <1>4, <2>8 DEF SessionOK, CallOK, i
    <3>3. CASE Len(s.call[c].queue) + Len(<<e>>) > MaxBuffered
      <4>1. Becomes(CloseCarried(s, c))
        BY <3>1, <3>3 DEF Forward
      <4>2. QuietBut(wire, s.wire, c) /\ Quiet(wire, s.wire, Up(c))
        BY <1>7, <2>4
      <4> QED
        BY <1>0, <1>3, <1>4, <1>7, <1>8, <1>9, <1>10, <4>1, <4>2, ClosingStep
    <3>4. CASE ~(Len(s.call[c].queue) + Len(<<e>>) > MaxBuffered)
      <4> DEFINE t == Forward(s, c, <<e>>)
                 r == Append(q, e)
      <4> HIDE DEF t
      <4>1. /\ t.wire = s.wire /\ t.carried = s.carried /\ t.client = s.client
            /\ \A d \in Calls : d # c => t.call[d] = s.call[d]
            /\ Same(t.call[c], s.call[c]) /\ t.call[c].queue = s.call[c].queue \o <<e>>
        BY <1>7, <3>1, <3>4, ForwardIs DEF t
      <4>2. wire' = t.wire /\ carried' = t.carried /\ call' = t.call /\ client' = t.client
        BY <3>1 DEF Becomes, t
      <4>3. q \o <<e>> = r
        BY <2>5, <2>6, AppendOne
      <4>4. /\ wire' = w /\ carried' = carried /\ client' = client
            /\ \A d \in Calls : d # c => call'[d] = call[d]
            /\ call'[c].queue = r /\ call'[c].pc = "attached" /\ call'[c].id = call[c].id /\ call'[c].closed = FALSE
            /\ call'[c].answer = call[c].answer /\ call'[c].inbox = call[c].inbox
        BY <1>3, <1>7, <2>8, <4>1, <4>2, <4>3 DEF Same, q
      <4>5. CallOK(c)'
        <5>1. Elements(r) = Elements(q) \cup {e}
          BY <2>5, <2>6, ElementsOf
        <5>2. \A m \in Elements(q) : \E j \in Nat :
                m = Entry(Up(c), Message(Up(c), j)) \/ m = Entry(Down(c), Message(Down(c), j))
          BY <1>4 DEF SessionOK, CallOK, q
        <5>3. \A m \in Elements(call'[c].queue) : \E j \in Nat :
                m = Entry(Up(c), Message(Up(c), j)) \/ m = Entry(Down(c), Message(Down(c), j))
          BY <2>5, <4>4, <5>1, <5>2
        <5>4. /\ at[c] \in link /\ call[c].id \in DOMAIN carried[at[c]] /\ carried[at[c]][call[c].id] = c
              /\ host[c].pc \in {"live", "over"} /\ Len(client[c].got) <= host[c].sent
          BY <1>3, <1>4, <1>10, <2>8 DEF SessionOK, CallOK
        <5>5. Begun(c)' /\ Elements(call'[c].inbox) = {}
          BY <1>4, <3>2, <4>4, NoneElements DEF Begun, i
        <5> QED
          BY <1>10, <2>8, <3>2, <4>4, <5>3, <5>4, <5>5 DEF CallOK, i
      <4>6. WireOK'
        <5>1. \A d \in Calls : call'[d].id = call[d].id
          BY <4>4
        <5>2. \A d \in Calls : Stays(d)
          BY <5>1, CarrierStays
        <5> QED
          BY <1>0, <1>1, <4>4, <5>2, WireStays
      <4>7. Upwards(c)'
        <5>1. Listens(c)' => Listens(c)
          BY DEF Listens
        <5>2. Like(r, q, Up(c))
          BY <2>5, <2>6, AppendLike
        <5>3. Like(call'[c].queue, call[c].queue, Up(c))
          BY <4>4, <5>2 DEF q
        <5> QED
          BY <1>3, <1>4, <2>4, <4>4, <5>1, <5>3, UpStill DEF SessionOK
      <4>8. Downwards(c)'
        <5>1. DownOK(p, x, <<>>, q, g, host[c].sent)
          BY <2>6, <3>2
        <5>2. DownOK(p, Tail(x), <<>>, r, g, host[c].sent)
          BY <2>5, <2>6, <5>1, DownQueued DEF p
        <5> HIDE DEF r
        <5> QED
          BY <1>3, <2>6, <3>2, <4>4, <5>2 DEF Downwards, p, g, i
      <4>9. Len(host[c].got) <= client'[c].sent
        BY <1>4, <4>4 DEF SessionOK, HostOK
      <4>10. \A d \in Calls : d # c => KeepsPlaces(d)
        BY <4>4, PlacesStay
      <4>11. QuietBut(wire, wire', c)
        BY <2>4, <4>4
      <4> QED
        BY <4>4, <4>5, <4>6, <4>7, <4>8, <4>9, <4>10, <4>11, CarrierStep
    <3> QED
      BY <3>3, <3>4
  <2> QED
    BY <2>7, <2>8
<1> QED
  BY <1>11, <1>12, <1>13

\* What the holder is handed next is the next message of its session.
LEMMA NextUp ==
  ASSUME RelayInv, PipesInv, NEW n \in Nodes, wire[n] # <<>>, NEW c \in Calls, n = Holder(c), NEW k \in Nat,
         Head(wire[n]).msg = Message(Up(c), k)
  PROVE  /\ UpOK(Up(c), Tail(wire[n]), call[c].queue, client[c].sent)
         /\ Listens(c) => /\ k = Len(host[c].got) + 1 /\ k <= client[c].sent
                          /\ NoGap(Up(c), Tail(wire[n]), call[c].queue, Len(host[c].got) + 1)
                          /\ ~call[c].closed => NoLoss(Up(c), Tail(wire[n]), call[c].queue,
                                                       Len(host[c].got) + 1, client[c].sent)
<1> DEFINE p == Up(c)
           x == wire[n]
           q == call[c].queue
           g == Len(host[c].got)
           s == client[c].sent
<1>1. g \in Nat /\ s \in Nat /\ x \in Seq(Frames) /\ x # <<>>
  BY StateFields DEF RelayInv, RestType, ClientRec, HostRec
<1>2. Carrying(Head(x), p, k)
  BY IsOne
<1>3. /\ UpOK(p, x, q, s)
      /\ Listens(c) => NoGap(p, x, q, g) /\ (~call[c].closed => NoLoss(p, x, q, g, s))
  BY DEF PipesInv, SessionOK, Upwards
<1> HIDE DEF p, x, q, g, s
<1>4. /\ UpOK(p, Tail(x), q, s)
      /\ NoGap(p, x, q, g) => /\ k = g + 1 /\ k <= s /\ NoGap(p, Tail(x), q, g + 1)
                              /\ NoLoss(p, x, q, g, s) => NoLoss(p, Tail(x), q, g + 1, s)
  BY <1>1, <1>2, <1>3, UpReceives
<1> QED
  BY <1>3, <1>4 DEF p, x, q, g, s

\* Whom a number that the holder knows stands for.
LEMMA HostedIs ==
  ASSUME RelayInv, PipesInv, NEW n \in Nodes, NEW f, f \in Frames, FrameOK(n, f), f.id \in DOMAIN hosted[n]
  PROVE  /\ f.call = hosted[n][f.id] /\ f.call \in Calls /\ Holder(f.call) = n /\ at[f.call] # n
         /\ host[f.call].id = f.id /\ host[f.call].open = TRUE /\ host[f.call].pc \in {"admitting", "live"}
<1>c. PICK c \in Calls : c = hosted[n][f.id]
  BY SessionsType DEF RelayInv, RestType
<1>1. Holder(c) = n /\ host[c].id = f.id /\ host[c].open = TRUE
  BY <1>c DEF PipesInv, HostedOK
<1>2. host[c].pc \in {"admitting", "live"} /\ Begun(c) /\ host[c].id = call[c].id
  BY <1>1 DEF PipesInv, SessionOK, HostOK
<1>3. f.call \in Calls /\ Begun(f.call) /\ call[f.call].id = f.id
  BY DEF FrameOK, Frames
<1>4. f.call = c
  BY <1>1, <1>2, <1>3 DEF PipesInv, Numbers
<1>5. at[c] # n
  BY <1>1, OtherNode DEF Holder, RelayInv, RestType
<1> QED
  BY <1>c, <1>1, <1>2, <1>4, <1>5

LEMMA ToHostPipes ==
  ASSUME RelayInv, PipesInv, NEW n \in Nodes, wire[n] # <<>>, NEW f, f = Head(wire[n]), f.op # "OPEN",
         f.id \in DOMAIN hosted[n], ToHost(n, f), UNCHANGED <<link, next, at>>
  PROVE  PipesInv'
<1>w. PICK w : w = [wire EXCEPT ![n] = Tail(@)]
  OBVIOUS
<1>0. /\ f \in Frames /\ f.call \in Calls /\ FrameOK(n, f) /\ f.msg \in Msgs
      /\ w \in [Nodes -> Seq(Frames)] /\ Clean(w) /\ Part(w, wire)
      /\ f.op # "DATA" => QuietAll(wire, w)
  BY <1>w, HeadIs
<1>c. PICK c \in Calls : c = f.call
  BY <1>0
<1>1. /\ hosted[n][f.id] = c /\ Holder(c) = n /\ at[c] # n /\ host[c].id = f.id /\ host[c].open = TRUE
      /\ host[c].pc \in {"admitting", "live"}
  BY <1>0, <1>c, HostedIs
<1>2. /\ wire \in [Nodes -> Seq(Frames)] /\ host \in [Calls -> HostRec] /\ host[c] \in HostRec /\ SessionOK(c) /\ WireOK
      /\ RestType /\ call[c] \in CallRec /\ client[c] \in ClientRec
  BY StateFields DEF RelayInv, PipesInv, RestType
<1>3. wire' = w /\ UNCHANGED <<carried, call, client>>
  BY <1>w DEF ToHost
<1>4. CASE f.op = "CLOSE"
  <2>1. /\ hosted' = [hosted EXCEPT ![Holder(c)] = Without(hosted[Holder(c)], host[c].id)]
        /\ host' = [host EXCEPT ![c] = Dropped(host[c])]
    BY <1>1, <1>4 DEF ToHost
  <2>2. /\ \A d \in Calls : d # c => host'[d] = host[d]
        /\ host'[c] = Dropped(host[c])
    BY <1>2, <2>1
  <2>3. /\ host'[c].open = FALSE /\ host'[c].id = host[c].id /\ host'[c].sent = host[c].sent /\ host'[c].got = host[c].got
        /\ host'[c].pc = IF host[c].pc = "live" THEN "over" ELSE host[c].pc
    BY <1>2, <2>2 DEF Dropped, HostRec
  <2>4. \A d \in Calls : Stays(d)
    BY <1>1, <1>3, <2>2, <2>3 DEF Stays
  <2>5. QuietAll(wire, wire') /\ WireOK'
    BY <1>0, <1>2, <1>3, <1>4, <2>4, WireStays
  <2> QED
    BY <1>1, <1>3, <2>1, <2>2, <2>3, <2>5, HostEnds
<1>5. CASE f.op = "DATA"
  <2>1. PICK k \in Nat : f.msg = Message(Up(c), k)
    BY <1>0, <1>1, <1>5, <1>c DEF FrameOK
  <2>2. Only(f, c) /\ Is(f, Down(c)) = {}
    BY <2>1, UpOnly
  <2>3. QuietBut(wire, wire', c) /\ Quiet(wire, wire', Down(c))
    BY <1>2, <1>3, <1>w, <2>2, TailOnly, TailQuiet
  <2>4. /\ UpOK(Up(c), Tail(wire[n]), call[c].queue, client[c].sent)
        /\ Listens(c) => /\ k = Len(host[c].got) + 1 /\ k <= client[c].sent
                         /\ NoGap(Up(c), Tail(wire[n]), call[c].queue, Len(host[c].got) + 1)
                         /\ ~call[c].closed => NoLoss(Up(c), Tail(wire[n]), call[c].queue,
                                                      Len(host[c].got) + 1, client[c].sent)
    BY <1>1, <2>1, NextUp
  <2> DEFINE g == IF host[c].pc = "live" THEN Append(host[c].got, f.msg) ELSE host[c].got
  <2>5. hosted' = hosted /\ host' = [host EXCEPT ![c] = [host[c] EXCEPT !.got = g]]
    BY <1>1, <1>2, <1>5 DEF ToHost, HostRec
  <2>6. \A d \in Calls : d # c => host'[d] = host[d]
    BY <1>2, <2>5
  <2>7. /\ host'[c].got = g /\ host'[c].pc = host[c].pc /\ host'[c].open = host[c].open /\ host'[c].id = host[c].id
        /\ host'[c].sent = host[c].sent
    BY <1>2, <2>5 DEF HostRec
  <2>8. /\ host[c].pc = "live" => Len(g) = Len(host[c].got) + 1 /\ Listens(c)
        /\ host[c].pc # "live" => g = host[c].got /\ ~Listens(c)
    <3>1. host[c].got \in Seq(Msgs)
      BY <1>2 DEF HostRec
    <3> QED
      BY <1>0, <1>1, <3>1 DEF Listens
  <2> HIDE DEF g
  <2>9. \A m \in Nodes : HostedOK(m)'
    <3>1. \A d \in Calls : host'[d].id = host[d].id /\ host'[d].open = host[d].open
      BY <2>6, <2>7
    <3> QED
      BY <1>2, <2>5, <3>1, HostedStays DEF PipesInv
  <2>10. WireOK'
    <3>1. \A d \in Calls : Stays(d)
      BY <1>3, <2>6, <2>7 DEF Stays
    <3> QED
      BY <1>0, <1>2, <1>3, <3>1, WireStays
  <2>11. HostOK(c)'
    <3>1. Len(host'[c].got) <= client[c].sent
      BY <1>2, <2>4, <2>7, <2>8 DEF SessionOK, HostOK
    <3>2. host'[c].pc \in {"none", "admitting"} => host'[c].sent = 0 /\ host'[c].got = <<>>
      BY <1>2, <2>7, <2>8 DEF SessionOK, HostOK
    <3>3. Holder(c)' = Holder(c)
      BY DEF Holder
    <3> QED
      BY <1>2, <1>3, <2>5, <2>7, <3>1, <3>2, <3>3 DEF SessionOK, HostOK, Begun
  <2>12. CallOK(c)'
    BY <1>2, <1>3, <2>7 DEF SessionOK, CallOK, Begun
  <2>13. Upwards(c)'
    <3>1. Holder(c)' = n /\ wire'[n] = Tail(wire[n])
      BY <1>1, <1>2, <1>3, <1>w DEF Holder
    <3>2. Listens(c)' => Len(host'[c].got) = Len(host[c].got) + 1 /\ Listens(c)
      BY <2>7, <2>8 DEF Listens
    <3> QED
      BY <1>3, <2>4, <3>1, <3>2 DEF Upwards
  <2>14. Downwards(c)'
    <3>1. Like(call'[c].queue, call[c].queue, Down(c))
      BY <1>3, LikeItself
    <3> QED
      BY <1>2, <1>3, <2>3, <2>7, <3>1, DownStill DEF SessionOK
  <2>15. \A d \in Calls : d # c /\ host[d].open => host[d].id \in DOMAIN hosted'[Holder(d)]
    BY <2>5 DEF PipesInv, SessionOK, HostOK
  <2> QED
    BY <1>3, <2>3, <2>6, <2>9, <2>10, <2>11, <2>12, <2>13, <2>14, <2>15, HostStep DEF SessionOK
<1>6. CASE f.op \notin {"CLOSE", "DATA"}
  <2>1. UNCHANGED <<hosted, host>>
    BY <1>6 DEF ToHost
  <2>2. \A d \in Calls : Stays(d)
    BY <1>3, <2>1, CarrierStays
  <2>3. QuietAll(wire, wire') /\ WireOK'
    BY <1>0, <1>2, <1>3, <1>6, <2>2, WireStays
  <2> QED
    BY <1>3, <2>1, <2>3, SilentStep
<1> QED
  BY <1>4, <1>5, <1>6

\* A frame of a session that neither map has any more.
LEMMA StrayPipes ==
  ASSUME RelayInv, PipesInv, NEW n \in Nodes, wire[n] # <<>>, NEW f, f = Head(wire[n]),
         f.id \notin DOMAIN carried[n] \cup DOMAIN hosted[n], wire' = [wire EXCEPT ![n] = Tail(@)],
         UNCHANGED <<link, next, at, carried, hosted, call, client, host>>
  PROVE  PipesInv'
<1>w. PICK w : w = [wire EXCEPT ![n] = Tail(@)]
  OBVIOUS
<1>0. /\ f \in Frames /\ f.call \in Calls /\ FrameOK(n, f) /\ f.msg \in Msgs
      /\ w \in [Nodes -> Seq(Frames)] /\ Clean(w) /\ Part(w, wire)
      /\ f.op # "DATA" => QuietAll(wire, w)
  BY <1>w, HeadIs
<1>c. PICK c \in Calls : c = f.call
  BY <1>0
<1>1. wire \in [Nodes -> Seq(Frames)] /\ SessionOK(c) /\ WireOK /\ Begun(c) /\ call[c].id = f.id
  BY <1>0, <1>c, StateFields DEF RelayInv, PipesInv, FrameOK
<1>2. WireOK'
  <2>1. \A d \in Calls : Stays(d)
    BY CarrierStays
  <2> QED
    BY <1>0, <1>1, <1>w, <2>1, WireStays
<1>3. CASE f.op # "DATA"
  BY <1>0, <1>2, <1>3, <1>w, SilentStep
<1>4. CASE f.op = "DATA" /\ n = at[c]
  <2>1. n # Holder(c)
    BY <1>4, OtherNode DEF Holder
  <2>2. PICK k \in Nat : f.msg = Message(Down(c), k)
    BY <1>0, <1>4, <1>c, <2>1 DEF FrameOK
  <2>3. Only(f, c) /\ Is(f, Up(c)) = {}
    BY <2>2, DownOnly
  <2>4. QuietBut(wire, wire', c) /\ Quiet(wire, wire', Up(c))
    BY <1>1, <2>3, TailOnly, TailQuiet
  <2>5. call[c].closed
    BY <1>1, <1>4 DEF SessionOK, CallOK
  <2>6. Downwards(c)'
    BY <2>5 DEF Downwards
  <2>7. Upwards(c)'
    <3>1. Listens(c)' => Listens(c)
      BY DEF Listens
    <3>2. Like(call'[c].queue, call[c].queue, Up(c))
      BY LikeItself
    <3> QED
      BY <1>1, <2>4, <3>1, <3>2, UpStill DEF SessionOK
  <2> QED
    BY <1>2, <2>4, <2>6, <2>7, WireStep
<1>5. CASE f.op = "DATA" /\ n # at[c]
  <2>1. n = Holder(c)
    BY <1>0, <1>5, <1>c DEF FrameOK
  <2>2. PICK k \in Nat : f.msg = Message(Up(c), k)
    BY <1>0, <1>5, <1>c DEF FrameOK
  <2>3. Only(f, c) /\ Is(f, Down(c)) = {}
    BY <2>2, UpOnly
  <2>4. QuietBut(wire, wire', c) /\ Quiet(wire, wire', Down(c))
    BY <1>1, <2>3, TailOnly, TailQuiet
  <2>5. ~Listens(c)
    BY <1>1, <2>1 DEF SessionOK, HostOK, Listens
  <2>6. UpOK(Up(c), Tail(wire[n]), call[c].queue, client[c].sent)
    BY <2>1, <2>2, NextUp
  <2>7. Upwards(c)'
    <3>1. Holder(c)' = n /\ wire'[n] = Tail(wire[n])
      BY <1>1, <2>1 DEF Holder
    <3>2. ~Listens(c)'
      BY <2>5 DEF Listens
    <3> QED
      BY <2>6, <3>1, <3>2 DEF Upwards
  <2>8. Downwards(c)'
    <3>1. Like(call'[c].queue, call[c].queue, Down(c))
      BY LikeItself
    <3> QED
      BY <1>1, <2>4, <3>1, DownStill DEF SessionOK
  <2> QED
    BY <1>2, <2>4, <2>7, <2>8, WireStep
<1> QED
  BY <1>3, <1>4, <1>5

LEMMA DispatchPipes ==
  ASSUME RelayInv, PipesInv, NEW n \in Nodes, Dispatch(n)
  PROVE  PipesInv'
<1>f. PICK f : f = Head(wire[n])
  OBVIOUS
<1>1. n \in link /\ wire[n] # <<>> /\ UNCHANGED <<link, next, at>>
  BY DEF Dispatch
<1>2. CASE f.op = "OPEN" /\ Hosts(n, f)
  BY <1>f, <1>1, <1>2, HostsPipes
<1>3. CASE /\ f.op # "OPEN" /\ f.id \in DOMAIN carried[n]
           /\ Becomes(ToClient([State EXCEPT !.wire[n] = Tail(@)], carried[n][f.id], f))
           /\ UNCHANGED <<hosted, host>>
  BY <1>f, <1>1, <1>3, ToClientPipes
<1>4. CASE f.op # "OPEN" /\ f.id \in DOMAIN hosted[n] /\ ToHost(n, f)
  BY <1>f, <1>1, <1>4, ToHostPipes
<1>5. CASE /\ f.id \notin DOMAIN carried[n] \cup DOMAIN hosted[n] /\ wire' = [wire EXCEPT ![n] = Tail(@)]
           /\ UNCHANGED <<carried, hosted, call, client, host>>
  BY <1>f, <1>1, <1>5, StrayPipes
<1> QED
  BY <1>f, <1>2, <1>3, <1>4, <1>5 DEF Dispatch

-----------------------------------------------------------------------------
(* The link is lost.                                                       *)

\* What unregister does to the two ends of a session.
LEMMA LoseIs ==
  ASSUME RelayInv, PipesInv, NEW n \in Nodes, Lose(n), NEW c \in Calls
  PROVE  /\ at[c] = n /\ Begun(c) /\ ~call[c].closed =>
              /\ call'[c] = [call[c] EXCEPT !.closed = TRUE, !.queue = <<>>, !.inbox = <<>>]
              /\ client'[c].sent = client[c].sent /\ client'[c].got = client[c].got
              /\ client'[c].sock # "open" /\ (client[c].sock # "open" => client'[c].sock = client[c].sock)
         /\ ~(at[c] = n /\ Begun(c) /\ ~call[c].closed) => call'[c] = call[c] /\ client'[c] = client[c]
         /\ Holder(c) = n /\ host[c].open => host'[c] = Dropped(host[c])
         /\ ~(Holder(c) = n /\ host[c].open) => host'[c] = host[c]
<1>0. /\ call[c] \in CallRec /\ client[c] \in ClientRec /\ host[c] \in HostRec /\ SessionOK(c) /\ RestType
      /\ Carries(State) /\ State.carried = carried /\ State.call = call /\ carried \in [Nodes -> Sessions]
      /\ hosted \in [Nodes -> Sessions]
  BY StateFields DEF RelayInv, PipesInv, RestType
<1>1. c \in Held(carried[n]) /\ ~call[c].closed <=> at[c] = n /\ Begun(c) /\ ~call[c].closed
  <2>1. ASSUME c \in Held(carried[n]) PROVE at[c] = n /\ Begun(c)
    <3>1. PICK i \in DOMAIN carried[n] : carried[n][i] = c
      BY <2>1 DEF Held
    <3>2. Slot(State, n, i)
      BY <1>0 DEF Carries
    <3>3. at[c] = n /\ call[c].pc \in {"opening", "attached"}
      BY <1>0, <3>1, <3>2 DEF Slot
    <3> QED
      BY <1>0, <3>3 DEF SessionOK, CallOK
  <2>2. ASSUME at[c] = n, Begun(c), ~call[c].closed PROVE c \in Held(carried[n])
    <3>1. call[c].id \in DOMAIN carried[n] /\ carried[n][call[c].id] = c
      BY <1>0, <2>2 DEF SessionOK, CallOK
    <3> QED
      BY <3>1 DEF Held
  <2> QED
    BY <2>1, <2>2
<1>2. c \in Held(hosted[n]) <=> Holder(c) = n /\ host[c].open
  <2>1. ASSUME c \in Held(hosted[n]) PROVE Holder(c) = n /\ host[c].open
    <3>1. PICK i \in DOMAIN hosted[n] : hosted[n][i] = c
      BY <2>1 DEF Held
    <3> QED
      BY <3>1 DEF PipesInv, HostedOK
  <2>2. ASSUME Holder(c) = n, host[c].open PROVE c \in Held(hosted[n])
    <3>1. host[c].id \in DOMAIN hosted[n] /\ Begun(c) /\ host[c].id = call[c].id
      BY <1>0, <2>2 DEF SessionOK, HostOK
    <3>d. PICK d \in Calls : d = hosted[n][host[c].id]
      BY <1>0, <3>1, SessionsType
    <3>2. host[d].id = host[c].id /\ host[d].open = TRUE
      BY <3>1, <3>d DEF PipesInv, HostedOK
    <3>3. Begun(d) /\ host[d].id = call[d].id
      BY <3>2 DEF PipesInv, SessionOK, HostOK
    <3>4. d = c
      BY <3>1, <3>2, <3>3 DEF PipesInv, Numbers
    <3> QED
      BY <3>1, <3>d, <3>4 DEF Held
  <2> QED
    BY <2>1, <2>2
<1>3. /\ call'[c] = IF c \in Held(carried[n]) /\ ~call[c].closed
                    THEN [call[c] EXCEPT !.closed = TRUE, !.queue = <<>>, !.inbox = <<>>] ELSE call[c]
      /\ client'[c] = IF (c \in Held(carried[n]) /\ ~call[c].closed) /\ client[c].sock = "open"
                      THEN [client[c] EXCEPT !.sock = "gone"] ELSE client[c]
      /\ host'[c] = IF c \in Held(hosted[n]) THEN Dropped(host[c]) ELSE host[c]
  BY DEF Lose
<1>4. /\ [client[c] EXCEPT !.sock = "gone"].sent = client[c].sent
      /\ [client[c] EXCEPT !.sock = "gone"].got = client[c].got
      /\ [client[c] EXCEPT !.sock = "gone"].sock = "gone"
  BY <1>0 DEF ClientRec
<1> QED
  BY <1>1, <1>2, <1>3, <1>4

\* Nothing of a session that has not begun is on its way.
LEMMA NotBegunNotSent ==
  ASSUME RelayInv, PipesInv, NEW c \in Calls, ~Begun(c), NEW n \in Nodes
  PROVE  Nums(wire[n], Down(c)) = {}
<1> SUFFICES ASSUME NEW k \in Nat, NEW j \in 1..Len(wire[n]), wire[n][j].msg = Message(Down(c), k) PROVE FALSE
  BY DEF Nums
<1>f. PICK f : f = wire[n][j]
  OBVIOUS
<1>1. f \in Frames /\ FrameOK(n, f) /\ f.call \in Calls /\ f.msg = Message(Down(c), k)
  <2>1. wire[n] \in Seq(Frames) /\ f \in Elements(wire[n])
    BY <1>f, StateFields DEF RelayInv, Elements
  <2>2. f \in Frames
    BY <2>1, ElementsOf
  <2>3. FrameOK(n, f)
    BY <2>1 DEF PipesInv, WireOK
  <2> QED
    BY <1>f, <2>2, <2>3 DEF Frames
<1>2. CASE f.op # "DATA"
  BY <1>1, <1>2, MessagesDiffer DEF FrameOK
<1>3. CASE f.op = "DATA"
  <2>1. PICK l \in Nat : f.msg = Message(Down(f.call), l) \/ f.msg = Message(Up(f.call), l)
    BY <1>1, <1>3 DEF FrameOK
  <2>2. f.call = c
    BY <1>1, <2>1, MessagesDiffer
  <2> QED
    BY <1>1, <2>2 DEF FrameOK
<1> QED
  BY <1>2, <1>3

LEMMA LosePipes ==
  ASSUME RelayInv, PipesInv, NEW n \in Nodes, Lose(n)
  PROVE  PipesInv'
<1>0. /\ wire \in [Nodes -> Seq(Frames)] /\ carried \in [Nodes -> Sessions] /\ hosted \in [Nodes -> Sessions]
      /\ at \in [Calls -> Nodes] /\ call \in [Calls -> CallRec] /\ client \in [Calls -> ClientRec]
      /\ host \in [Calls -> HostRec] /\ WireOK /\ Clean(wire) /\ link \subseteq Nodes
  BY StateFields, WireIsClean DEF RelayInv, PipesInv, RestType
<1>1. /\ link' = link \ {n} /\ wire' = [wire EXCEPT ![n] = <<>>] /\ UNCHANGED <<next, at>>
      /\ carried' = [carried EXCEPT ![n] = Empty] /\ hosted' = [hosted EXCEPT ![n] = Empty]
  BY DEF Lose
<1>2. /\ wire'[n] = <<>> /\ \A m \in Nodes : m # n => wire'[m] = wire[m] /\ carried'[m] = carried[m] /\ hosted'[m] = hosted[m]
      /\ DOMAIN hosted'[n] = {}
  BY <1>0, <1>1, EmptySessions
<1>3. ASSUME NEW c \in Calls
      PROVE  /\ call'[c].id = call[c].id /\ call'[c].pc = call[c].pc /\ call'[c].answer = call[c].answer
             /\ host'[c].id = host[c].id /\ host'[c].sent = host[c].sent /\ host'[c].got = host[c].got
             /\ host'[c].pc = host[c].pc \/ (host[c].pc = "live" /\ host'[c].pc = "over")
             /\ client'[c].sent = client[c].sent /\ client'[c].got = client[c].got
             /\ Holder(c)' = Holder(c) /\ at'[c] = at[c] /\ Holder(c) \in Nodes /\ at[c] \in Nodes
             /\ Holder(c) = n <=> at[c] # n
  <2>1. call[c] \in CallRec /\ client[c] \in ClientRec /\ host[c] \in HostRec
    BY <1>0
  <2>2. /\ call'[c].id = call[c].id /\ call'[c].pc = call[c].pc /\ call'[c].answer = call[c].answer
        /\ client'[c].sent = client[c].sent /\ client'[c].got = client[c].got
    BY <2>1, LoseIs DEF CallRec
  <2>3. /\ host'[c].id = host[c].id /\ host'[c].sent = host[c].sent /\ host'[c].got = host[c].got
        /\ host'[c].pc = host[c].pc \/ (host[c].pc = "live" /\ host'[c].pc = "over")
    BY <2>1, LoseIs DEF HostRec, Dropped
  <2>4. /\ Holder(c)' = Holder(c) /\ at'[c] = at[c] /\ Holder(c) \in Nodes /\ at[c] \in Nodes
        /\ Holder(c) = n <=> at[c] # n
    BY <1>0, <1>1, OtherNode DEF Holder
  <2> QED
    BY <2>2, <2>3, <2>4
<1>4. Numbers'
  BY <1>1, <1>3, NumbersStay DEF PipesInv
<1>5. WireOK'
  <2>1. \A c \in Calls : Stays(c)
    BY <1>3 DEF Stays
  <2>2. wire' \in [Nodes -> Seq(Frames)]
    BY <1>0, <1>1
  <2>3. Clean(wire')
    <3>1. OpensOnce(<<>>)
      BY DEF OpensOnce
    <3> QED
      BY <1>0, <1>2, <3>1 DEF Clean
  <2>4. Part(wire', wire)
    BY <1>2, NoneElements DEF Part
  <2> QED
    BY <1>0, <2>1, <2>2, <2>3, <2>4, WireStays
<1>6. ASSUME NEW m \in Nodes PROVE HostedOK(m)'
  <2>1. CASE m = n
    BY <1>2, <2>1 DEF HostedOK
  <2>2. CASE m # n
    <3>1. hosted'[m] = hosted[m] /\ (m \in link => m \in link')
      BY <1>1, <1>2, <2>2
    <3>2. ASSUME NEW i \in DOMAIN hosted[m], NEW c \in Calls, c = hosted[m][i]
          PROVE  Holder(c)' = m /\ host'[c].id = i /\ host'[c].open = TRUE
      <4>1. Holder(c) = m /\ host[c].id = i /\ host[c].open = TRUE
        BY <3>2 DEF PipesInv, HostedOK
      <4>2. host'[c] = host[c]
        BY <2>2, <4>1, LoseIs
      <4> QED
        BY <1>3, <4>1, <4>2
    <3>3. \A i \in DOMAIN hosted[m] : hosted[m][i] \in Calls
      BY <1>0, SessionsType
    <3>4. \A i \in DOMAIN hosted[m] : /\ Other(at'[hosted'[m][i]]) = m /\ host'[hosted'[m][i]].id = i
                                      /\ host'[hosted'[m][i]].open = TRUE
      BY <3>1, <3>2, <3>3 DEF Holder
    <3>5. DOMAIN hosted[m] # {} => m \in link
      BY DEF PipesInv, HostedOK
    <3> QED
      BY <3>1, <3>4, <3>5 DEF HostedOK, Holder
  <2> QED
    BY <2>1, <2>2
<1>7. ASSUME NEW c \in Calls, at[c] = n PROVE SessionOK(c)'
  <2>0. SessionOK(c) /\ call[c] \in CallRec /\ client[c] \in ClientRec /\ host[c] \in HostRec /\ Holder(c) # n
    BY <1>0, <1>3, <1>7 DEF PipesInv
  <2>1. /\ host'[c] = host[c] /\ wire'[Holder(c)] = wire[Holder(c)] /\ hosted'[Holder(c)] = hosted[Holder(c)]
        /\ Holder(c)' = Holder(c) /\ client'[c].sent = client[c].sent /\ client'[c].got = client[c].got
        /\ call'[c].id = call[c].id
    BY <1>2, <1>3, <2>0, LoseIs
  <2>2. HostOK(c)'
    BY <2>0, <2>1 DEF SessionOK, HostOK, Begun
  <2>3. CASE Begun(c) /\ ~call[c].closed
    <3>1. /\ call'[c].closed = TRUE /\ call'[c].queue = <<>> /\ call'[c].inbox = <<>> /\ client'[c].sock # "open"
          /\ call'[c].pc = call[c].pc /\ call'[c].answer = call[c].answer
      <4>1. /\ call'[c] = [call[c] EXCEPT !.closed = TRUE, !.queue = <<>>, !.inbox = <<>>]
            /\ client'[c].sock # "open"
        BY <1>7, <2>3, LoseIs
      <4> QED
        BY <2>0, <4>1 DEF CallRec
    <3>2. CallOK(c)'
      BY <2>0, <2>1, <3>1, NoneElements DEF SessionOK, CallOK, Begun
    <3>3. Upwards(c)'
      <4> DEFINE p == Up(c)
                 x == wire[Holder(c)]
                 q == call[c].queue
                 g == Len(host[c].got)
                 s == client[c].sent
      <4>1. UpOK(p, x, q, s) /\ (Listens(c) => NoGap(p, x, q, g)) /\ s \in Nat /\ s <= s /\ g \in Nat /\ Like(x, x, p)
        BY <2>0, LikeItself DEF SessionOK, Upwards, ClientRec, HostRec
      <4> HIDE DEF p, x, q, g, s
      <4>2. UpOK(p, x, <<>>, s) /\ (NoGap(p, x, q, g) => NoGap(p, x, <<>>, g))
        BY <4>1, UpCloses
      <4>3. Listens(c)' => Listens(c)
        BY <2>1 DEF Listens
      <4> QED
        BY <2>1, <3>1, <4>1, <4>2, <4>3 DEF Upwards, p, x, q, g, s
    <3>4. Downwards(c)'
      BY <3>1 DEF Downwards
    <3> QED
      BY <2>2, <3>2, <3>3, <3>4 DEF SessionOK
  <2>4. CASE ~(Begun(c) /\ ~call[c].closed)
    <3>1. call'[c] = call[c] /\ client'[c] = client[c]
      BY <1>7, <2>4, LoseIs
    <3>2. CallOK(c)'
      BY <2>0, <2>1, <2>4, <3>1 DEF SessionOK, CallOK, Begun
    <3>3. Upwards(c)'
      <4>1. Listens(c)' => Listens(c)
        BY <2>1 DEF Listens
      <4> QED
        BY <2>0, <2>1, <3>1, <4>1 DEF SessionOK, Upwards
    <3>4. Downwards(c)'
      <4> SUFFICES ASSUME ~call[c].closed PROVE Downwards(c)'
        BY <3>1 DEF Downwards
      <4> DEFINE p == Down(c)
                 x == wire[at[c]]
                 q == call[c].queue
                 i == call[c].inbox
                 g == Len(client[c].got)
                 s == host[c].sent
      <4>1. Nums(x, p) = {}
        BY <1>7, <2>4, NotBegunNotSent
      <4>2. DownOK(p, x, i, q, g, s)
        BY <2>0 DEF SessionOK, Downwards
      <4> HIDE DEF p, x, q, g, s, i
      <4>3. Like(<<>>, x, p) /\ Like(q, q, p)
        BY <4>1, NoMessages, LikeItself DEF Like
      <4>4. DownOK(p, <<>>, i, q, g, s)
        BY <4>2, <4>3, DownSame
      <4> QED
        BY <1>2, <1>3, <1>7, <2>1, <3>1, <4>4 DEF Downwards, p, x, q, g, s, i
    <3> QED
      BY <2>2, <3>2, <3>3, <3>4 DEF SessionOK
  <2> QED
    BY <2>3, <2>4
<1>8. ASSUME NEW c \in Calls, at[c] # n PROVE SessionOK(c)'
  <2>0. SessionOK(c) /\ call[c] \in CallRec /\ client[c] \in ClientRec /\ host[c] \in HostRec /\ Holder(c) = n
    BY <1>0, <1>3, <1>8 DEF PipesInv
  <2>1. /\ call'[c] = call[c] /\ client'[c] = client[c] /\ wire'[at[c]] = wire[at[c]] /\ carried'[at[c]] = carried[at[c]]
        /\ wire'[n] = <<>> /\ (at[c] \in link => at[c] \in link') /\ at'[c] = at[c] /\ Holder(c)' = n
    BY <1>1, <1>2, <1>3, <1>8, <2>0, LoseIs
  <2>2. host'[c].open = FALSE /\ ~Listens(c)'
    <3>1. host'[c].open = FALSE
      <4>1. CASE host[c].open
        BY <2>0, <4>1, LoseIs DEF Dropped, HostRec
      <4>2. CASE ~host[c].open
        BY <2>0, <4>2, LoseIs DEF HostRec
      <4> QED
        BY <4>1, <4>2
    <3> QED
      BY <3>1 DEF Listens
  <2>3. /\ host'[c].id = host[c].id /\ host'[c].sent = host[c].sent /\ host'[c].got = host[c].got
        /\ host'[c].pc = host[c].pc \/ (host[c].pc = "live" /\ host'[c].pc = "over")
    BY <1>3
  <2>4. HostOK(c)'
    BY <2>0, <2>1, <2>2, <2>3 DEF SessionOK, HostOK, Begun
  <2>5. CallOK(c)'
    BY <2>0, <2>1, <2>3 DEF SessionOK, CallOK, Begun
  <2>6. Upwards(c)'
    <3>1. UpOK(Up(c), <<>>, call[c].queue, client[c].sent)
      BY <2>0, UpCut DEF SessionOK, Upwards
    <3> QED
      BY <2>1, <2>2, <3>1 DEF Upwards
  <2>7. Downwards(c)'
    BY <2>0, <2>1, <2>3 DEF SessionOK, Downwards
  <2> QED
    BY <2>4, <2>5, <2>6, <2>7 DEF SessionOK
<1> QED
  BY <1>4, <1>5, <1>6, <1>7, <1>8 DEF PipesInv

-----------------------------------------------------------------------------
(* The invariant.                                                          *)

LEMMA InitPipes == Init => PipesInv
<1> SUFFICES ASSUME Init PROVE PipesInv
  OBVIOUS
<1>1. /\ at \in [Calls -> Nodes] /\ \A n \in Nodes : wire[n] = <<>> /\ next[n] = FirstSession(n) /\ hosted[n] = Empty
      /\ \A c \in Calls : /\ call[c].pc = "idle" /\ call[c].id = 0 /\ call[c].answer = "none" /\ call[c].closed = FALSE
                          /\ call[c].inbox = <<>> /\ call[c].queue = <<>>
                          /\ client[c].sock = "none" /\ client[c].sent = 0 /\ client[c].got = <<>>
                          /\ host[c].pc = "none" /\ host[c].open = FALSE /\ host[c].sent = 0 /\ host[c].got = <<>>
  BY RelayConstants DEF Init
<1>2. \A c \in Calls : ~Begun(c)
  BY <1>1 DEF Begun
<1>3. Numbers
  BY <1>1, <1>2 DEF Numbers, FirstSession
<1>4. WireOK
  BY <1>1, NoneElements DEF WireOK, OpensOnce
<1>5. \A n \in Nodes : HostedOK(n)
  BY <1>1, EmptySessions DEF HostedOK
<1>6. ASSUME NEW c \in Calls PROVE SessionOK(c)
  <2>1. Holder(c) \in Nodes /\ at[c] \in Nodes
    BY <1>1, OtherNode DEF Holder
  <2>2. wire[Holder(c)] = <<>> /\ wire[at[c]] = <<>>
    BY <1>1, <2>1
  <2>3. HostOK(c) /\ CallOK(c)
    BY <1>1, <1>2, NoneElements DEF HostOK, CallOK
  <2>4. Upwards(c)
    <3>1. UpOK(Up(c), <<>>, <<>>, 0)
      BY NoMessages DEF UpOK, Below
    <3>2. ~Listens(c)
      BY <1>1 DEF Listens
    <3> QED
      BY <1>1, <2>2, <3>1, <3>2 DEF Upwards
  <2>5. Downwards(c)
    <3>1. 0 + 1..0 = {} /\ Len(<<>>) = 0
      OBVIOUS
    <3>2. DownOK(Down(c), <<>>, <<>>, <<>>, 0, 0)
      BY <3>1, NoMessages DEF DownOK, Below
    <3> QED
      BY <1>1, <2>2, <3>1, <3>2 DEF Downwards
  <2> QED
    BY <2>3, <2>4, <2>5 DEF SessionOK
<1> QED
  BY <1>3, <1>4, <1>5, <1>6 DEF PipesInv

LEMMA NextPipes == RelayInv /\ PipesInv /\ [Next]_vars => PipesInv'
<1> SUFFICES ASSUME RelayInv, PipesInv, [Next]_vars PROVE PipesInv'
  OBVIOUS
<1>1. ASSUME NEW c \in Calls, CallStep(c) PROVE PipesInv'
  <2>1. CASE Reserve(c)
    BY <2>1, ReservePipes
  <2>2. CASE OpenTimesOut(c)
    BY <2>2, OpenTimesOutPipes
  <2>3. CASE Settle(c)
    BY <2>3, SettlePipes
  <2>4. CASE Drain(c)
    BY <2>4, DrainPipes
  <2>5. CASE ClientSends(c)
    BY <2>5, ClientSendsPipes
  <2>6. CASE ClientLeaves(c)
    BY <2>6, ClientLeavesPipes
  <2>7. CASE Admit(c)
    BY <2>7, AdmitPipes
  <2>8. CASE HostSends(c)
    BY <2>8, HostSendsPipes
  <2>9. CASE HelloTimesOut(c) \/ HostLeaves(c)
    <3>1. HangsUp(c)
      BY <2>9 DEF HelloTimesOut, HostLeaves
    <3> QED
      BY <3>1, HangsUpPipes
  <2> QED
    BY <1>1, <2>1, <2>2, <2>3, <2>4, <2>5, <2>6, <2>7, <2>8, <2>9 DEF CallStep
<1>2. CASE UNCHANGED vars
  BY <1>2 DEF vars, linkvars, PipesInv, Numbers, WireOK, FrameOK, HostedOK, SessionOK, HostOK, CallOK,
              Upwards, Downwards, Listens, Begun, Holder
<1> QED
  BY <1>1, <1>2, DispatchPipes, LosePipes DEF Next

-----------------------------------------------------------------------------
(* The relay implements RelayedLink.                                       *)

Sent == [p \in Calls \X {"up", "down"} |-> IF p[2] = "up" THEN client[p[1]].sent ELSE host[p[1]].sent]
Received == [p \in Calls \X {"up", "down"} |-> IF p[2] = "up" THEN host[p[1]].got ELSE client[p[1]].got]
Over == {p \in Calls \X {"up", "down"} : IF p[2] = "up" THEN host[p[1]].pc = "over"
                                         ELSE client[p[1]].sock = "gone"}

\* What is over stays over.
Ends == \A d \in Calls : /\ host[d].pc = "over" => host'[d].pc = "over"
                         /\ client[d].sock = "gone" => client'[d].sock = "gone"
\* Nothing is handed to the relay, or by it.
UpIdle(d) == client'[d].sent = client[d].sent /\ host'[d].got = host[d].got
DownIdle(d) == host'[d].sent = host[d].sent /\ client'[d].got = client[d].got

LEMMA PipeIs ==
  ASSUME NEW p \in Calls \X {"up", "down"}
  PROVE  \E d \in Calls : p = Up(d) \/ p = Down(d)
  BY DEF Up, Down

LEMMA PlacesOf ==
  ASSUME NEW d \in Calls
  PROVE  /\ Up(d) \in Calls \X {"up", "down"} /\ Down(d) \in Calls \X {"up", "down"}
         /\ Sent[Up(d)] = client[d].sent /\ Sent[Down(d)] = host[d].sent
         /\ Received[Up(d)] = host[d].got /\ Received[Down(d)] = client[d].got
         /\ Up(d) \in Over <=> host[d].pc = "over"
         /\ Down(d) \in Over <=> client[d].sock = "gone"
  BY DEF Up, Down, Sent, Received, Over

LEMMA PlacesOfNext ==
  ASSUME NEW d \in Calls
  PROVE  /\ Sent'[Up(d)] = client'[d].sent /\ Sent'[Down(d)] = host'[d].sent
         /\ Received'[Up(d)] = host'[d].got /\ Received'[Down(d)] = client'[d].got
         /\ Up(d) \in Over' <=> host'[d].pc = "over"
         /\ Down(d) \in Over' <=> client'[d].sock = "gone"
  BY DEF Up, Down, Sent, Received, Over

LEMMA OverGrows ==
  ASSUME Ends
  PROVE  Over \subseteq Over'
<1> SUFFICES ASSUME NEW p \in Over PROVE p \in Over'
  OBVIOUS
<1>1. PICK d \in Calls : p = Up(d) \/ p = Down(d)
  BY PipeIs DEF Over
<1> QED
  BY <1>1, PlacesOf, PlacesOfNext DEF Ends

LEMMA EndStep ==
  ASSUME Ends, \A d \in Calls : UpIdle(d) /\ DownIdle(d)
  PROVE  Pipe!Next
<1>1. Over \subseteq Over'
  BY OverGrows
<1>2. Sent' = Sent /\ Received' = Received
  BY DEF UpIdle, DownIdle, Sent, Received
<1>3. Pipe!End
  BY <1>1, <1>2 DEF Pipe!End, Over, Sent, Received
<1> QED
  BY <1>3 DEF Pipe!Next

LEMMA SendUpStep ==
  ASSUME Ends, NEW c \in Calls, client'[c].sent = client[c].sent + 1, host'[c].got = host[c].got,
         \A d \in Calls : DownIdle(d) /\ (d # c => UpIdle(d))
  PROVE  Pipe!Next
<1>1. Over \subseteq Over'
  BY OverGrows
<1>2. Received' = Received
  BY DEF UpIdle, DownIdle, Received
<1>3. Sent' = [Sent EXCEPT ![Up(c)] = @ + 1]
  <2>1. ASSUME NEW p \in Calls \X {"up", "down"} PROVE Sent'[p] = [Sent EXCEPT ![Up(c)] = @ + 1][p]
    <3>1. PICK d \in Calls : p = Up(d) \/ p = Down(d)
      BY PipeIs
    <3>2. p = Up(c) <=> d = c /\ p = Up(d)
      BY <3>1 DEF Up, Down
    <3>3. [Sent EXCEPT ![Up(c)] = @ + 1][p] = IF p = Up(c) THEN Sent[p] + 1 ELSE Sent[p]
      BY <2>1 DEF Sent
    <3> QED
      BY <3>1, <3>2, <3>3, PlacesOf, PlacesOfNext DEF UpIdle, DownIdle
  <2> QED
    BY <2>1 DEF Sent
<1>4. Pipe!Send(Up(c))
  BY <1>1, <1>2, <1>3 DEF Pipe!Send, Over, Sent, Received
<1> QED
  BY <1>4, PlacesOf DEF Pipe!Next

LEMMA SendDownStep ==
  ASSUME Ends, NEW c \in Calls, host'[c].sent = host[c].sent + 1, client'[c].got = client[c].got,
         \A d \in Calls : UpIdle(d) /\ (d # c => DownIdle(d))
  PROVE  Pipe!Next
<1>1. Over \subseteq Over'
  BY OverGrows
<1>2. Received' = Received
  BY DEF UpIdle, DownIdle, Received
<1>3. Sent' = [Sent EXCEPT ![Down(c)] = @ + 1]
  <2>1. ASSUME NEW p \in Calls \X {"up", "down"} PROVE Sent'[p] = [Sent EXCEPT ![Down(c)] = @ + 1][p]
    <3>1. PICK d \in Calls : p = Up(d) \/ p = Down(d)
      BY PipeIs
    <3>2. p = Down(c) <=> d = c /\ p = Down(d)
      BY <3>1 DEF Up, Down
    <3>3. [Sent EXCEPT ![Down(c)] = @ + 1][p] = IF p = Down(c) THEN Sent[p] + 1 ELSE Sent[p]
      BY <2>1 DEF Sent
    <3> QED
      BY <3>1, <3>2, <3>3, PlacesOf, PlacesOfNext DEF UpIdle, DownIdle
  <2> QED
    BY <2>1 DEF Sent
<1>4. Pipe!Send(Down(c))
  BY <1>1, <1>2, <1>3 DEF Pipe!Send, Over, Sent, Received
<1> QED
  BY <1>4, PlacesOf DEF Pipe!Next

LEMMA ReceiveUpStep ==
  ASSUME NEW c \in Calls, NEW k, k = Len(host[c].got) + 1, Len(host[c].got) < client[c].sent,
         host[c].pc # "over", host'[c].got = Append(host[c].got, Message(Up(c), k)), client' = client,
         \A d \in Calls : host'[d].sent = host[d].sent /\ host'[d].pc = host[d].pc,
         \A d \in Calls : d # c => host'[d].got = host[d].got
  PROVE  Pipe!Next
<1>1. Over' = Over /\ Sent' = Sent
  BY DEF Over, Sent
<1>2. Received' = [Received EXCEPT ![Up(c)] = Append(@, <<Up(c), Len(@) + 1>>)]
  <2>1. ASSUME NEW p \in Calls \X {"up", "down"}
        PROVE  Received'[p] = [Received EXCEPT ![Up(c)] = Append(@, <<Up(c), Len(@) + 1>>)][p]
    <3>1. PICK d \in Calls : p = Up(d) \/ p = Down(d)
      BY PipeIs
    <3>2. p = Up(c) <=> d = c /\ p = Up(d)
      BY <3>1 DEF Up, Down
    <3>3. [Received EXCEPT ![Up(c)] = Append(@, <<Up(c), Len(@) + 1>>)][p] =
            IF p = Up(c) THEN Append(Received[p], <<Up(c), Len(Received[p]) + 1>>) ELSE Received[p]
      BY <2>1 DEF Received
    <3>4. Received'[Up(c)] = Append(Received[Up(c)], <<Up(c), Len(Received[Up(c)]) + 1>>)
      BY PlacesOf, PlacesOfNext DEF Message
    <3>5. p # Up(c) => Received'[p] = Received[p]
      BY <3>1, <3>2, PlacesOf, PlacesOfNext
    <3> QED
      BY <3>3, <3>4, <3>5
  <2> QED
    BY <2>1 DEF Received
<1>3. Up(c) \notin Over /\ Len(Received[Up(c)]) < Sent[Up(c)] /\ Up(c) \in Calls \X {"up", "down"}
  BY PlacesOf
<1>4. Pipe!Receive(Up(c))
  BY <1>1, <1>2, <1>3 DEF Pipe!Receive, Pipe!Message, Over, Sent, Received
<1> QED
  BY <1>3, <1>4 DEF Pipe!Next

LEMMA ReceiveDownStep ==
  ASSUME NEW c \in Calls, NEW k, k = Len(client[c].got) + 1, Len(client[c].got) < host[c].sent,
         client[c].sock # "gone", client'[c].got = Append(client[c].got, Message(Down(c), k)), host' = host,
         \A d \in Calls : client'[d].sent = client[d].sent /\ client'[d].sock = client[d].sock,
         \A d \in Calls : d # c => client'[d].got = client[d].got
  PROVE  Pipe!Next
<1>1. Over' = Over /\ Sent' = Sent
  BY DEF Over, Sent
<1>2. Received' = [Received EXCEPT ![Down(c)] = Append(@, <<Down(c), Len(@) + 1>>)]
  <2>1. ASSUME NEW p \in Calls \X {"up", "down"}
        PROVE  Received'[p] = [Received EXCEPT ![Down(c)] = Append(@, <<Down(c), Len(@) + 1>>)][p]
    <3>1. PICK d \in Calls : p = Up(d) \/ p = Down(d)
      BY PipeIs
    <3>2. p = Down(c) <=> d = c /\ p = Down(d)
      BY <3>1 DEF Up, Down
    <3>3. [Received EXCEPT ![Down(c)] = Append(@, <<Down(c), Len(@) + 1>>)][p] =
            IF p = Down(c) THEN Append(Received[p], <<Down(c), Len(Received[p]) + 1>>) ELSE Received[p]
      BY <2>1 DEF Received
    <3>4. Received'[Down(c)] = Append(Received[Down(c)], <<Down(c), Len(Received[Down(c)]) + 1>>)
      BY PlacesOf, PlacesOfNext DEF Message
    <3>5. p # Down(c) => Received'[p] = Received[p]
      BY <3>1, <3>2, PlacesOf, PlacesOfNext
    <3> QED
      BY <3>3, <3>4, <3>5
  <2> QED
    BY <2>1 DEF Received
<1>3. Down(c) \notin Over /\ Len(Received[Down(c)]) < Sent[Down(c)] /\ Down(c) \in Calls \X {"up", "down"}
  BY PlacesOf
<1>4. Pipe!Receive(Down(c))
  BY <1>1, <1>2, <1>3 DEF Pipe!Receive, Pipe!Message, Over, Sent, Received
<1> QED
  BY <1>3, <1>4 DEF Pipe!Next

\* A handler of the carrier hands nothing over, and does not open a socket again.
Ages(s, t) ==
  \A d \in Calls : /\ t.client[d].sent = s.client[d].sent /\ t.client[d].got = s.client[d].got
                   /\ s.client[d].sock = "gone" => t.client[d].sock = "gone"

LEMMA CloseAges ==
  ASSUME NEW s \in Carrier, NEW c \in Calls, at \in [Calls -> Nodes]
  PROVE  Ages(s, CloseCarried(s, c))
<1>0. s.client \in [Calls -> ClientRec] /\ s.client[c] \in ClientRec /\ s.call[c] \in CallRec
  BY CarrierFields
<1>1. CASE s.call[c].closed
  BY <1>1 DEF CloseCarried, Ages
<1>2. CASE s.call[c].closed = FALSE
  <2> DEFINE t == CloseCarried(s, c)
             k == IF s.client[c].sock = "open" THEN "gone" ELSE s.client[c].sock
  <2>1. t.client = [s.client EXCEPT ![c] = [s.client[c] EXCEPT !.sock = k]]
    BY <1>2, CloseCarriedIs
  <2> HIDE DEF t
  <2>2. /\ \A d \in Calls : d # c => t.client[d] = s.client[d]
        /\ t.client[c].sent = s.client[c].sent /\ t.client[c].got = s.client[c].got /\ t.client[c].sock = k
    BY <1>0, <2>1 DEF ClientRec
  <2>3. Ages(s, t)
    BY <2>2 DEF Ages
  <2> QED
    BY <2>3 DEF t
<1> QED
  BY <1>0, <1>1, <1>2 DEF CallRec

LEMMA ForwardAges ==
  ASSUME NEW s \in Carrier, NEW c \in Calls, NEW new \in Seq(Entries), at \in [Calls -> Nodes]
  PROVE  Ages(s, Forward(s, c, new))
<1>0. s.call[c] \in CallRec
  BY CarrierFields
<1>1. CASE s.call[c].closed
  BY <1>1 DEF Forward, Ages
<1>2. CASE s.call[c].closed = FALSE /\ Len(s.call[c].queue) + Len(new) > MaxBuffered
  BY <1>2, CloseAges DEF Forward
<1>3. CASE s.call[c].closed = FALSE /\ ~(Len(s.call[c].queue) + Len(new) > MaxBuffered)
  <2>1. Forward(s, c, new).client = s.client
    BY <1>3, ForwardIs
  <2> QED
    BY <2>1 DEF Ages
<1> QED
  BY <1>0, <1>1, <1>2, <1>3 DEF CallRec

LEMMA AgesStep ==
  ASSUME RelayInv, NEW s, NEW t, Ages(s, t), Becomes(t), UNCHANGED host,
         \A d \in Calls : /\ s.client[d].sent = client[d].sent /\ s.client[d].got = client[d].got
                          /\ client[d].sock = "gone" => s.client[d].sock = "gone"
  PROVE  Pipe!Next
<1>1. Ends /\ \A d \in Calls : UpIdle(d) /\ DownIdle(d)
  BY DEF Ages, Becomes, Ends, UpIdle, DownIdle
<1> QED
  BY <1>1, EndStep

LEMMA RefusedEnds ==
  ASSUME RelayInv, NEW c \in Calls, Refused(c), UNCHANGED host
  PROVE  Pipe!Next
<1>0. client \in [Calls -> ClientRec] /\ client[c] \in ClientRec
  BY StateFields DEF RelayInv
<1>1. client' = [client EXCEPT ![c] = [client[c] EXCEPT !.sock = "gone"]]
  BY <1>0 DEF Refused
<1>2. /\ \A d \in Calls : d # c => client'[d] = client[d]
      /\ client'[c].sent = client[c].sent /\ client'[c].got = client[c].got /\ client'[c].sock = "gone"
  BY <1>0, <1>1 DEF ClientRec
<1>3. Ends /\ \A d \in Calls : UpIdle(d) /\ DownIdle(d)
  BY <1>2 DEF Ends, UpIdle, DownIdle
<1> QED
  BY <1>3, EndStep

LEMMA ReserveRefines ==
  ASSUME RelayInv, NEW c \in Calls, Reserve(c)
  PROVE  Pipe!Next
<1>0. /\ client \in [Calls -> ClientRec] /\ client[c] \in ClientRec /\ call[c].pc = "idle" /\ client[c].sock = "none"
      /\ UNCHANGED host
  BY StateFields DEF RelayInv, Carries, Reserve, Unused
<1>1. CASE Refused(c)
  BY <1>0, <1>1, RefusedEnds
<1>2. CASE Opens(c)
  <2>1. client' = [client EXCEPT ![c] = [client[c] EXCEPT !.sock = "waiting"]]
    BY <1>0, <1>2 DEF Opens
  <2>2. /\ \A d \in Calls : d # c => client'[d] = client[d]
        /\ client'[c].sent = client[c].sent /\ client'[c].got = client[c].got
    BY <1>0, <2>1 DEF ClientRec
  <2>3. Ends /\ \A d \in Calls : UpIdle(d) /\ DownIdle(d)
    BY <1>0, <2>2 DEF Ends, UpIdle, DownIdle
  <2> QED
    BY <2>3, EndStep
<1> QED
  BY <1>1, <1>2 DEF Reserve

LEMMA SettleRefines ==
  ASSUME RelayInv, NEW c \in Calls, Settle(c)
  PROVE  Pipe!Next
<1>0. /\ State \in Carrier /\ State.call = call /\ State.client = client
      /\ client \in [Calls -> ClientRec] /\ client[c] \in ClientRec /\ call \in [Calls -> CallRec] /\ call[c] \in CallRec
      /\ at \in [Calls -> Nodes]
  BY StateFields DEF RelayInv, RestType
<1>1. UNCHANGED host
  BY DEF Settle
<1>2. CASE Refused(c)
  BY <1>1, <1>2, RefusedEnds
<1>3. CASE Becomes(Attaches(c))
  <2> DEFINE calls == [call EXCEPT ![c] = [call[c] EXCEPT !.pc = "attached"]]
             bare == [call EXCEPT ![c] = [call[c] EXCEPT !.pc = "attached", !.inbox = <<>>]]
             gone == [client EXCEPT ![c] = [client[c] EXCEPT !.sock = "gone"]]
             open == [client EXCEPT ![c] = [client[c] EXCEPT !.sock = "open"]]
             s == [State EXCEPT !.call = calls]
             t == [State EXCEPT !.call = calls, !.client = gone]
             u == [State EXCEPT !.call = bare, !.client = open]
  <2>1. /\ [State EXCEPT !.call[c].pc = "attached"] = s
        /\ [State EXCEPT !.call[c].pc = "attached", !.client[c].sock = "gone"] = t
        /\ [State EXCEPT !.call[c].pc = "attached", !.call[c].inbox = <<>>, !.client[c].sock = "open"] = u
    BY <1>0 DEF State
  <2>2. /\ calls \in [Calls -> CallRec] /\ bare \in [Calls -> CallRec] /\ open \in [Calls -> ClientRec]
    <3>1. /\ [call[c] EXCEPT !.pc = "attached"] \in CallRec /\ [client[c] EXCEPT !.sock = "open"] \in ClientRec
      BY <1>0 DEF CallRec, ClientRec
    <3>2. [call[c] EXCEPT !.pc = "attached", !.inbox = <<>>] \in CallRec
      BY <1>0, NoneWaiting DEF CallRec
    <3> QED
      BY <1>0, <3>1, <3>2
  <2>3. s \in Carrier /\ s.client = client /\ t.client = gone /\ u \in Carrier /\ u.client = open
    <3> HIDE DEF calls, bare, gone, open
    <3> QED
      BY <1>0, <2>2 DEF State, Carrier
  <2>4. /\ \A d \in Calls : d # c => gone[d] = client[d] /\ open[d] = client[d]
        /\ gone[c].sent = client[c].sent /\ gone[c].got = client[c].got /\ gone[c].sock = "gone"
        /\ open[c].sent = client[c].sent /\ open[c].got = client[c].got
    BY <1>0 DEF ClientRec
  <2>5. call[c].inbox \in Seq(Entries)
    BY <1>0 DEF CallRec
  <2> HIDE DEF s, t, u, gone, open
  <2>6. CASE client[c].sock = "gone"
    <3>1. Becomes(CloseCarried(s, c))
      BY <1>3, <2>1, <2>6 DEF Attaches
    <3>2. Ages(s, CloseCarried(s, c))
      BY <1>0, <2>3, CloseAges
    <3> QED
      BY <1>1, <2>3, <3>1, <3>2, AgesStep
  <2>7. CASE client[c].sock # "gone" /\ call[c].closed
    <3>1. Becomes(t)
      BY <1>3, <2>1, <2>7 DEF Attaches
    <3>2. Ages(t, t)
      BY DEF Ages
    <3> QED
      BY <1>1, <2>3, <2>4, <3>1, <3>2, AgesStep
  <2>8. CASE client[c].sock # "gone" /\ ~call[c].closed
    <3>1. Becomes(Forward(u, c, call[c].inbox))
      BY <1>3, <2>1, <2>8 DEF Attaches
    <3>2. Ages(u, Forward(u, c, call[c].inbox))
      BY <1>0, <2>3, <2>5, ForwardAges
    <3>3. \A d \in Calls : /\ u.client[d].sent = client[d].sent /\ u.client[d].got = client[d].got
                           /\ client[d].sock = "gone" => u.client[d].sock = "gone"
      BY <2>3, <2>4, <2>8
    <3> QED
      BY <1>1, <3>1, <3>2, <3>3, AgesStep
  <2> QED
    BY <2>6, <2>7, <2>8
<1> QED
  BY <1>2, <1>3 DEF Settle

\* The relay hands a dialler the next message of its session, or takes one for the wire.
LEMMA DrainRefines ==
  ASSUME RelayInv, PipesInv, NEW c \in Calls, Drain(c)
  PROVE  Pipe!Next
<1>0. client \in [Calls -> ClientRec] /\ client[c] \in ClientRec /\ host[c] \in HostRec
  BY StateFields DEF RelayInv, RestType
<1>1. call[c].queue # <<>> /\ UNCHANGED host
  BY DrainIs
<1>2. PICK k \in Nat :
        \/ Head(call[c].queue) = Entry(Up(c), Message(Up(c), k)) /\ client' = client
        \/ /\ Head(call[c].queue) = Entry(Down(c), Message(Down(c), k))
           /\ client' = [client EXCEPT ![c] = [client[c] EXCEPT !.got = Append(client[c].got, Message(Down(c), k))]]
  BY DrainIs
<1>3. CASE client' = client
  <2>1. Ends /\ \A d \in Calls : UpIdle(d) /\ DownIdle(d)
    BY <1>1, <1>3 DEF Ends, UpIdle, DownIdle
  <2> QED
    BY <2>1, EndStep
<1>4. CASE /\ Head(call[c].queue) = Entry(Down(c), Message(Down(c), k))
           /\ client' = [client EXCEPT ![c] = [client[c] EXCEPT !.got = Append(client[c].got, Message(Down(c), k))]]
  <2>1. k = Len(client[c].got) + 1 /\ k <= host[c].sent
    BY <1>1, <1>4, NextDown
  <2>2. Len(client[c].got) < host[c].sent
    BY <1>0, <2>1 DEF ClientRec, HostRec
  <2>3. client[c].sock # "gone"
    BY <1>1, QueueIs
  <2>4. client'[c].got = Append(client[c].got, Message(Down(c), k)) /\ client'[c].sent = client[c].sent /\ client'[c].sock = client[c].sock
    BY <1>0, <1>4 DEF ClientRec
  <2>5. \A d \in Calls : d # c => client'[d] = client[d]
    BY <1>0, <1>4
  <2>6. /\ \A d \in Calls : client'[d].sent = client[d].sent /\ client'[d].sock = client[d].sock
        /\ \A d \in Calls : d # c => client'[d].got = client[d].got
    BY <2>4, <2>5
  <2> QED
    BY <1>1, <2>1, <2>2, <2>3, <2>4, <2>6, ReceiveDownStep
<1> QED
  BY <1>2, <1>3, <1>4

LEMMA ClientSendsRefines ==
  ASSUME RelayInv, NEW c \in Calls, ClientSends(c)
  PROVE  Pipe!Next
<1>0. /\ State \in Carrier /\ State.client = client /\ client \in [Calls -> ClientRec] /\ client[c] \in ClientRec
      /\ at \in [Calls -> Nodes]
  BY StateFields DEF RelayInv, RestType
<1> DEFINE socks == [client EXCEPT ![c] = [client[c] EXCEPT !.sent = client[c].sent + 1]]
           s == [State EXCEPT !.client = socks]
           new == <<Entry(Up(c), Message(Up(c), client[c].sent + 1))>>
<1>1. [State EXCEPT !.client[c].sent = @ + 1] = s
  BY <1>0 DEF State
<1>2. socks \in [Calls -> ClientRec]
  <2>k. PICK k \in Nat : k = client[c].sent + 1
    <3>1. client[c].sent \in Nat
      BY <1>0 DEF ClientRec
    <3> QED
      BY <3>1
  <2>1. [client[c] EXCEPT !.sent = k] \in ClientRec
    BY <1>0 DEF ClientRec
  <2> QED
    BY <1>0, <2>k, <2>1
<1>3. s \in Carrier /\ s.client = socks
  <2> HIDE DEF socks
  <2> QED
    BY <1>0, <1>2 DEF State, Carrier
<1>4. /\ \A d \in Calls : d # c => socks[d] = client[d]
      /\ socks[c].sent = client[c].sent + 1 /\ socks[c].got = client[c].got /\ socks[c].sock = client[c].sock
  BY <1>0 DEF ClientRec
<1>5. new \in Seq(Entries)
  <2>1. client[c].sent + 1 \in Nat
    BY <1>0 DEF ClientRec
  <2>2. Entry(Up(c), Message(Up(c), client[c].sent + 1)) \in Entries
    BY <2>1, MessageType, EntryType
  <2> QED
    BY <2>2
<1>6. Becomes(Forward(s, c, new)) /\ UNCHANGED host
  BY <1>1 DEF ClientSends
<1> HIDE DEF s, new, socks
<1>7. Ages(s, Forward(s, c, new))
  BY <1>0, <1>3, <1>5, ForwardAges
<1>8. \A d \in Calls : /\ client'[d].sent = socks[d].sent /\ client'[d].got = socks[d].got
                       /\ socks[d].sock = "gone" => client'[d].sock = "gone"
  BY <1>3, <1>6, <1>7 DEF Ages, Becomes
<1>9. Ends /\ \A d \in Calls : DownIdle(d) /\ (d # c => UpIdle(d))
  BY <1>4, <1>6, <1>8 DEF Ends, UpIdle, DownIdle
<1> QED
  BY <1>4, <1>6, <1>8, <1>9, SendUpStep

LEMMA ClientLeavesRefines ==
  ASSUME RelayInv, NEW c \in Calls, ClientLeaves(c)
  PROVE  Pipe!Next
<1>0. /\ State \in Carrier /\ State.client = client /\ client \in [Calls -> ClientRec] /\ client[c] \in ClientRec
      /\ at \in [Calls -> Nodes]
  BY StateFields DEF RelayInv, RestType
<1> DEFINE socks == [client EXCEPT ![c] = [client[c] EXCEPT !.sock = "gone"]]
           s == [State EXCEPT !.client = socks]
<1>1. [State EXCEPT !.client[c].sock = "gone"] = s
  BY <1>0 DEF State
<1>2. socks \in [Calls -> ClientRec]
  <2>1. [client[c] EXCEPT !.sock = "gone"] \in ClientRec
    BY <1>0 DEF ClientRec
  <2> QED
    BY <1>0, <2>1
<1>3. s \in Carrier /\ s.client = socks
  <2> HIDE DEF socks
  <2> QED
    BY <1>0, <1>2 DEF State, Carrier
<1>4. /\ \A d \in Calls : d # c => socks[d] = client[d]
      /\ socks[c].sent = client[c].sent /\ socks[c].got = client[c].got /\ socks[c].sock = "gone"
  BY <1>0 DEF ClientRec
<1>5. Becomes(IF client[c].sock = "open" THEN CloseCarried(s, c) ELSE s) /\ UNCHANGED host
  BY <1>1 DEF ClientLeaves
<1> HIDE DEF s, socks
<1>6. Ages(s, CloseCarried(s, c)) /\ Ages(s, s)
  BY <1>0, <1>3, CloseAges DEF Ages
<1>7. \A d \in Calls : /\ s.client[d].sent = client[d].sent /\ s.client[d].got = client[d].got
                       /\ client[d].sock = "gone" => s.client[d].sock = "gone"
  BY <1>3, <1>4
<1> QED
  BY <1>5, <1>6, <1>7, AgesStep

\* A step of a holder: the other sessions it holds, and every dialler, stay as they are.
LEMMA HostEndsStep ==
  ASSUME NEW c \in Calls, UNCHANGED client, \A d \in Calls : d # c => host'[d] = host[d],
         host'[c].sent = host[c].sent, host'[c].got = host[c].got, host[c].pc = "over" => host'[c].pc = "over"
  PROVE  Pipe!Next
<1>1. Ends /\ \A d \in Calls : UpIdle(d) /\ DownIdle(d)
  BY DEF Ends, UpIdle, DownIdle
<1> QED
  BY <1>1, EndStep

LEMMA UnseenStep ==
  ASSUME UNCHANGED <<client, host>>
  PROVE  Pipe!Next
<1>1. Ends /\ \A d \in Calls : UpIdle(d) /\ DownIdle(d)
  BY DEF Ends, UpIdle, DownIdle
<1> QED
  BY <1>1, EndStep

LEMMA AdmitRefines ==
  ASSUME RelayInv, NEW c \in Calls, Admit(c)
  PROVE  Pipe!Next
<1>0. host \in [Calls -> HostRec] /\ host[c] \in HostRec /\ host[c].pc = "admitting" /\ UNCHANGED client
  BY DEF RelayInv, RestType, Admit
<1>1. PICK r \in {[host[c] EXCEPT !.pc = "live"], [host[c] EXCEPT !.pc = "over", !.open = FALSE]} :
        host' = [host EXCEPT ![c] = r]
  BY <1>0 DEF Admit
<1>2. r.sent = host[c].sent /\ r.got = host[c].got
  BY <1>0, <1>1 DEF HostRec
<1>3. host'[c] = r /\ \A d \in Calls : d # c => host'[d] = host[d]
  BY <1>0, <1>1
<1> QED
  BY <1>0, <1>2, <1>3, HostEndsStep

LEMMA HangsUpRefines ==
  ASSUME RelayInv, NEW c \in Calls, HangsUp(c)
  PROVE  Pipe!Next
<1>0. host \in [Calls -> HostRec] /\ host[c] \in HostRec /\ UNCHANGED client
  BY DEF RelayInv, RestType, HangsUp
<1>1. PICK r : r = [host[c] EXCEPT !.pc = "over", !.open = FALSE]
  OBVIOUS
<1>2. r.sent = host[c].sent /\ r.got = host[c].got /\ r.pc = "over"
  BY <1>0, <1>1 DEF HostRec
<1>3. host' = [host EXCEPT ![c] = r]
  BY <1>0, <1>1 DEF HangsUp
<1>4. host'[c] = r /\ \A d \in Calls : d # c => host'[d] = host[d]
  BY <1>0, <1>3
<1> QED
  BY <1>0, <1>2, <1>4, HostEndsStep

LEMMA HostSendsRefines ==
  ASSUME RelayInv, NEW c \in Calls, HostSends(c)
  PROVE  Pipe!Next
<1>0. host \in [Calls -> HostRec] /\ host[c] \in HostRec /\ UNCHANGED client
  BY DEF RelayInv, RestType, HostSends
<1>1. PICK r : r = [host[c] EXCEPT !.sent = host[c].sent + 1]
  OBVIOUS
<1>2. r.sent = host[c].sent + 1 /\ r.got = host[c].got /\ r.pc = host[c].pc
  BY <1>0, <1>1 DEF HostRec
<1>3. host' = [host EXCEPT ![c] = r]
  BY <1>0, <1>1 DEF HostSends
<1>4. host'[c] = r /\ \A d \in Calls : d # c => host'[d] = host[d]
  BY <1>0, <1>3
<1>5. Ends /\ \A d \in Calls : UpIdle(d) /\ (d # c => DownIdle(d))
  BY <1>0, <1>2, <1>4 DEF Ends, UpIdle, DownIdle
<1> QED
  BY <1>0, <1>2, <1>4, <1>5, SendDownStep

LEMMA HostsRefines ==
  ASSUME RelayInv, PipesInv, NEW n \in Nodes, wire[n] # <<>>, NEW f, f = Head(wire[n]), f.op = "OPEN", Hosts(n, f)
  PROVE  Pipe!Next
<1>w. PICK w : w = [wire EXCEPT ![n] = Tail(@)]
  OBVIOUS
<1>0. f.call \in Calls /\ FrameOK(n, f)
  BY <1>w, HeadIs
<1>c. PICK c \in Calls : c = f.call
  BY <1>0
<1>1. host \in [Calls -> HostRec] /\ host[c] \in HostRec /\ host[c].pc = "none" /\ UNCHANGED client
  BY <1>0, <1>c DEF RelayInv, RestType, FrameOK, Hosts
<1>2. CASE UNCHANGED host
  BY <1>1, <1>2, UnseenStep
<1>3. CASE host' = [host EXCEPT ![c] = [host[c] EXCEPT !.pc = "admitting", !.open = TRUE, !.id = f.id]]
  <2>1. PICK r : r = [host[c] EXCEPT !.pc = "admitting", !.open = TRUE, !.id = f.id]
    OBVIOUS
  <2>2. r.sent = host[c].sent /\ r.got = host[c].got
    BY <1>1, <2>1 DEF HostRec
  <2>3. host'[c] = r /\ \A d \in Calls : d # c => host'[d] = host[d]
    BY <1>1, <1>3, <2>1
  <2> QED
    BY <1>1, <2>2, <2>3, HostEndsStep
<1> QED
  BY <1>1, <1>2, <1>3, <1>c DEF Hosts

LEMMA ToClientRefines ==
  ASSUME RelayInv, PipesInv, NEW n \in Nodes, wire[n] # <<>>, NEW f, f = Head(wire[n]),
         f.id \in DOMAIN carried[n], UNCHANGED host,
         Becomes(ToClient([State EXCEPT !.wire[n] = Tail(@)], carried[n][f.id], f))
  PROVE  Pipe!Next
<1>w. PICK w : w = [wire EXCEPT ![n] = Tail(@)]
  OBVIOUS
<1>0. f \in Frames /\ f.msg \in Msgs /\ w \in [Nodes -> Seq(Frames)]
  BY <1>w, HeadIs
<1>1. /\ State \in Carrier /\ State.call = call /\ State.client = client /\ State.wire = wire /\ State.carried = carried
      /\ carried \in [Nodes -> Sessions] /\ at \in [Calls -> Nodes]
  BY StateFields DEF RelayInv, RestType
<1>c. PICK c \in Calls : c = carried[n][f.id]
  BY <1>1, SessionsType
<1> DEFINE s == [State EXCEPT !.wire = w]
<1>2. [State EXCEPT !.wire[n] = Tail(@)] = s
  BY <1>1, <1>w DEF State
<1>3. s \in Carrier /\ s.client = client
  BY <1>0, <1>1 DEF State, Carrier
<1>4. Becomes(ToClient(s, c, f))
  BY <1>2, <1>c
<1> HIDE DEF s
<1>5. Ages(s, ToClient(s, c, f))
  <2>1. CASE f.op \in {"ACCEPT", "REFUSE"}
    <3>1. ToClient(s, c, f).client = s.client
      BY <1>3, <2>1 DEF ToClient, Carrier
    <3> QED
      BY <3>1 DEF Ages
  <2>2. CASE f.op = "CLOSE"
    <3>1. ToClient(s, c, f) = CloseCarried(s, c)
      BY <2>2 DEF ToClient
    <3> QED
      BY <1>1, <1>3, <3>1, CloseAges
  <2>3. CASE f.op \notin {"ACCEPT", "REFUSE", "CLOSE"} /\ s.call[c].pc # "attached"
    <3>1. ToClient(s, c, f).client = s.client
      BY <1>3, <2>3 DEF ToClient, Carrier
    <3> QED
      BY <3>1 DEF Ages
  <2>4. CASE f.op \notin {"ACCEPT", "REFUSE", "CLOSE"} /\ s.call[c].pc = "attached"
    <3>e. PICK e : e = Entry(Down(c), f.msg)
      OBVIOUS
    <3>1. ToClient(s, c, f) = Forward(s, c, <<e>>)
      BY <2>4, <3>e DEF ToClient
    <3>2. <<e>> \in Seq(Entries)
      BY <1>0, <3>e, EntryType
    <3> QED
      BY <1>1, <1>3, <3>1, <3>2, ForwardAges
  <2> QED
    BY <2>1, <2>2, <2>3, <2>4
<1> QED
  BY <1>3, <1>4, <1>5, AgesStep

\* The holder is handed the next message of its session, or hears that it is over.
LEMMA ToHostRefines ==
  ASSUME RelayInv, PipesInv, NEW n \in Nodes, wire[n] # <<>>, NEW f, f = Head(wire[n]),
         f.id \in DOMAIN hosted[n], ToHost(n, f)
  PROVE  Pipe!Next
<1>w. PICK w : w = [wire EXCEPT ![n] = Tail(@)]
  OBVIOUS
<1>0. f \in Frames /\ f.call \in Calls /\ FrameOK(n, f)
  BY <1>w, HeadIs
<1>c. PICK c \in Calls : c = f.call
  BY <1>0
<1>1. hosted[n][f.id] = c /\ Holder(c) = n /\ at[c] # n /\ host[c].open = TRUE /\ host[c].pc \in {"admitting", "live"}
  BY <1>0, <1>c, HostedIs
<1>2. host \in [Calls -> HostRec] /\ host[c] \in HostRec /\ client[c] \in ClientRec /\ client' = client
  BY StateFields DEF RelayInv, RestType, ToHost
<1>3. CASE f.op = "CLOSE"
  <2>1. host' = [host EXCEPT ![c] = Dropped(host[c])]
    BY <1>1, <1>3 DEF ToHost
  <2>2. host'[c] = Dropped(host[c]) /\ \A d \in Calls : d # c => host'[d] = host[d]
    BY <1>2, <2>1
  <2>3. Dropped(host[c]).sent = host[c].sent /\ Dropped(host[c]).got = host[c].got
    BY <1>2 DEF Dropped, HostRec
  <2> QED
    BY <1>1, <1>2, <2>2, <2>3, HostEndsStep
<1>4. CASE f.op = "DATA"
  <2>1. PICK k \in Nat : f.msg = Message(Up(c), k)
    BY <1>0, <1>1, <1>4, <1>c DEF FrameOK
  <2>2. CASE host[c].pc # "live"
    <3>1. host' = [host EXCEPT ![c] = [host[c] EXCEPT !.got = host[c].got]]
      BY <1>1, <1>2, <1>4, <2>2 DEF ToHost
    <3>2. [host[c] EXCEPT !.got = host[c].got] = host[c]
      BY <1>2 DEF HostRec
    <3>3. host'[c] = host[c] /\ \A d \in Calls : d # c => host'[d] = host[d]
      BY <1>2, <3>1, <3>2
    <3> QED
      BY <1>2, <3>3, HostEndsStep
  <2>3. CASE host[c].pc = "live"
    <3>1. k = Len(host[c].got) + 1 /\ k <= client[c].sent
      BY <1>1, <2>1, <2>3, NextUp DEF Listens
    <3>2. Len(host[c].got) < client[c].sent
      BY <1>2, <3>1 DEF HostRec, ClientRec
    <3>r. PICK r : r = [host[c] EXCEPT !.got = Append(host[c].got, Message(Up(c), k))]
      OBVIOUS
    <3>3. host' = [host EXCEPT ![c] = r]
      BY <1>1, <1>2, <1>4, <2>1, <2>3, <3>r DEF ToHost
    <3>4. r.got = Append(host[c].got, Message(Up(c), k)) /\ r.sent = host[c].sent /\ r.pc = host[c].pc
      BY <1>2, <3>r DEF HostRec
    <3>5. host'[c] = r /\ \A d \in Calls : d # c => host'[d] = host[d]
      BY <1>2, <3>3
    <3>6. /\ \A d \in Calls : host'[d].sent = host[d].sent /\ host'[d].pc = host[d].pc
          /\ \A d \in Calls : d # c => host'[d].got = host[d].got
      BY <3>4, <3>5
    <3> QED
      BY <1>2, <2>3, <3>1, <3>2, <3>4, <3>5, <3>6, ReceiveUpStep
  <2> QED
    BY <2>2, <2>3
<1>5. CASE f.op \notin {"CLOSE", "DATA"}
  <2>1. UNCHANGED <<client, host>>
    BY <1>2, <1>5 DEF ToHost
  <2> QED
    BY <2>1, UnseenStep
<1> QED
  BY <1>3, <1>4, <1>5

LEMMA DispatchRefines ==
  ASSUME RelayInv, PipesInv, NEW n \in Nodes, Dispatch(n)
  PROVE  Pipe!Next
<1>f. PICK f : f = Head(wire[n])
  OBVIOUS
<1>1. wire[n] # <<>>
  BY DEF Dispatch
<1>2. CASE f.op = "OPEN" /\ Hosts(n, f)
  BY <1>f, <1>1, <1>2, HostsRefines
<1>3. CASE /\ f.id \in DOMAIN carried[n]
           /\ Becomes(ToClient([State EXCEPT !.wire[n] = Tail(@)], carried[n][f.id], f))
           /\ UNCHANGED <<hosted, host>>
  BY <1>f, <1>1, <1>3, ToClientRefines
<1>4. CASE f.id \in DOMAIN hosted[n] /\ ToHost(n, f)
  BY <1>f, <1>1, <1>4, ToHostRefines
<1>5. CASE UNCHANGED <<carried, hosted, call, client, host>>
  BY <1>5, UnseenStep
<1> QED
  BY <1>f, <1>2, <1>3, <1>4, <1>5 DEF Dispatch

LEMMA LoseRefines ==
  ASSUME RelayInv, PipesInv, NEW n \in Nodes, Lose(n)
  PROVE  Pipe!Next
<1>1. ASSUME NEW d \in Calls
      PROVE  /\ UpIdle(d) /\ DownIdle(d) /\ (host[d].pc = "over" => host'[d].pc = "over")
             /\ client[d].sock = "gone" => client'[d].sock = "gone"
  <2>1. host[d] \in HostRec
    BY DEF RelayInv, RestType
  <2>2. /\ host'[d].sent = host[d].sent /\ host'[d].got = host[d].got
        /\ host[d].pc = "over" => host'[d].pc = "over"
    BY <2>1, LoseIs DEF Dropped, HostRec
  <2>3. /\ client'[d].sent = client[d].sent /\ client'[d].got = client[d].got
        /\ client[d].sock = "gone" => client'[d].sock = "gone"
    BY LoseIs
  <2> QED
    BY <2>2, <2>3 DEF UpIdle, DownIdle
<1>2. Ends
  BY <1>1 DEF Ends
<1> QED
  BY <1>1, <1>2, EndStep

LEMMA NextRefines ==
  ASSUME RelayInv, PipesInv, [Next]_vars
  PROVE  [Pipe!Next]_<<Sent, Received, Over>>
<1>1. ASSUME NEW c \in Calls, CallStep(c) PROVE Pipe!Next
  <2>1. CASE Reserve(c)
    BY <2>1, ReserveRefines
  <2>2. CASE OpenTimesOut(c)
    BY <2>2, UnseenStep DEF OpenTimesOut
  <2>3. CASE Settle(c)
    BY <2>3, SettleRefines
  <2>4. CASE Drain(c)
    BY <2>4, DrainRefines
  <2>5. CASE ClientSends(c)
    BY <2>5, ClientSendsRefines
  <2>6. CASE ClientLeaves(c)
    BY <2>6, ClientLeavesRefines
  <2>7. CASE Admit(c)
    BY <2>7, AdmitRefines
  <2>8. CASE HostSends(c)
    BY <2>8, HostSendsRefines
  <2>9. CASE HelloTimesOut(c) \/ HostLeaves(c)
    <3>1. HangsUp(c)
      BY <2>9 DEF HelloTimesOut, HostLeaves
    <3> QED
      BY <3>1, HangsUpRefines
  <2> QED
    BY <1>1, <2>1, <2>2, <2>3, <2>4, <2>5, <2>6, <2>7, <2>8, <2>9 DEF CallStep
<1>2. CASE UNCHANGED vars
  BY <1>2 DEF vars, Sent, Received, Over
<1> QED
  BY <1>1, <1>2, DispatchRefines, LoseRefines DEF Next

LEMMA InitRefines == Init => Pipe!Init
  BY DEF Init, Pipe!Init

\* A relayed link is a link: for any diallers, limits and numbers of messages, whichever
\* ends carry for each other, however the sessions are numbered, queued, refused, closed
\* or cut, each end of each session is handed what the other end of that session gave,
\* in order and once, and nothing after it was told that the session is over
\* (peer-relay.service.ts, _dispatch, _forward, _toClient, _closeCarried, unregister).
THEOREM CarriesEachPipe == Spec => CarriesPipes
<1>1. Spec => [](RelayInv /\ PipesInv)
  BY InitRelay, NextKeeps, InitPipes, NextPipes, PTL DEF Spec
<1>2. RelayInv /\ PipesInv /\ [Next]_vars => [Pipe!Next]_<<Sent, Received, Over>>
  BY NextRefines
<1> QED
  BY <1>1, <1>2, InitRefines, PTL DEF Spec, CarriesPipes, Pipe!Spec, Sent, Received, Over
=============================================================================
