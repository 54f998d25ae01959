----------------------------- MODULE PeerRelay -----------------------------
(***************************************************************************)
(* services/peer-relay.service.ts and the calls of peer-gateway.service.ts *)
(* into it: two linked gateways, each of which may carry, over their one   *)
(* link, sessions of diallers that cannot reach the other.  A session is   *)
(* reserved with an OPEN frame, admitted or refused by the holder, and     *)
(* attached to the dialler's socket; then frames of every session share    *)
(* the link, under the numbers the two ends gave them.                     *)
(*                                                                         *)
(* A frame on the link is whole and in order, as WebSocket delivers them,  *)
(* until one end finds the link lost.  Messages have length 1.  What a     *)
(* credential proves is left out: an admission may succeed or not.         *)
(***************************************************************************)
EXTENDS Integers, Sequences, FiniteSets

CONSTANTS
  Calls,        \* diallers asking to be carried
  Placements,   \* which node each may ask: a set of functions from calls to nodes
  Dialler,      \* the node that opened the link between the two (transport.dialled)
  Answerer,     \* the other one
  MaxSessions,  \* RELAY_MAX_SESSIONS
  MaxBuffered,  \* RELAY_MAX_BUFFERED_BYTES, in messages
  MaxUp,        \* bound on the messages each dialler sends
  MaxDown       \* and on those its holder sends

Nodes == {Dialler, Answerer}

ASSUME RelayConstants ==
  /\ Dialler # Answerer /\ Placements \subseteq [Calls -> Nodes]
  /\ MaxSessions \in Nat \ {0} /\ MaxBuffered \in Nat \ {0}
  /\ MaxUp \in [Calls -> Nat] /\ MaxDown \in [Calls -> Nat]

VARIABLES
  link,      \* nodes that hold a registration for the link
  wire,      \* frames on their way to each node
  next,      \* _next of each registration
  carried,   \* registration.carried: the call of each session number
  hosted,    \* registration.hosted, likewise
  at,        \* the node each dialler asks to be carried by
  call,      \* CarriedSession, with the progress of _carry and reserve
  client,    \* the dialler's socket
  host       \* the session the holder opened for a call

linkvars == <<link, wire, next, carried, hosted>>
vars == <<linkvars, at, call, client, host>>

Other(n) == IF n = Dialler THEN Answerer ELSE Dialler
Holder(c) == Other(at[c])
Empty == [i \in {} |-> {}]

With(f, i, c) == [j \in DOMAIN f \cup {i} |-> IF j = i THEN c ELSE f[j]]
Without(f, i) == [j \in DOMAIN f \ {i} |-> f[j]]
Held(f) == {f[i] : i \in DOMAIN f}

Frame(op, id, c, msg) == [op |-> op, id |-> id, call |-> c, msg |-> msg]
NoMsg == <<>>
Up(c) == <<c, "up">>
Down(c) == <<c, "down">>
Message(pipe, k) == <<pipe, k>>
Entry(pipe, msg) == [pipe |-> pipe, msg |-> msg]

\* Mutant: both ends number their sessions from 1.
FirstSession_Same(n) == 1

\* Registration: the end that dialled takes even numbers, the other odd ones.
FirstSession(n) == IF n = Dialler THEN 2 ELSE 1

Init ==
  /\ link = Nodes /\ wire = [n \in Nodes |-> <<>>]
  /\ next = [n \in Nodes |-> FirstSession(n)]
  /\ carried = [n \in Nodes |-> Empty] /\ hosted = [n \in Nodes |-> Empty]
  /\ at \in Placements
  /\ call = [c \in Calls |-> [pc |-> "idle", id |-> 0, answer |-> "none", closed |-> FALSE,
                              inbox |-> <<>>, queue |-> <<>>]]
  /\ client = [c \in Calls |-> [sock |-> "none", sent |-> 0, got |-> <<>>]]
  /\ host = [c \in Calls |-> [pc |-> "none", open |-> FALSE, id |-> 0, sent |-> 0, got |-> <<>>]]

\* transport.send: a frame is lost when the other end no longer has the link.
Sends(w, n, frame) ==
  IF n \in link /\ Other(n) \in link THEN [w EXCEPT ![Other(n)] = Append(@, frame)] ELSE w

-----------------------------------------------------------------------------
(* The carrier: reserving a session.                                       *)

\* _refuse: the dialler gets a status and its socket is destroyed.
Refused(c) ==
  /\ call' = [call EXCEPT ![c].pc = "ended", ![c].closed = TRUE]
  /\ client' = [client EXCEPT ![c].sock = "gone"]

\* The session is in the map before the OPEN frame leaves.
Opens(c) ==
  LET n == at[c]
  IN  /\ carried' = [carried EXCEPT ![n] = With(@, next[n], c)]
      /\ next' = [next EXCEPT ![n] = @ + 2]
      /\ wire' = Sends(wire, n, Frame("OPEN", next[n], c, NoMsg))
      /\ call' = [call EXCEPT ![c].pc = "opening", ![c].id = next[n]]
      /\ client' = [client EXCEPT ![c].sock = "waiting"]

HasRoom(n) == Cardinality(DOMAIN carried[n]) < MaxSessions

\* Mutant: the sessions are not counted once the settings were read.
Reserve_Uncounted(c) ==
  /\ call[c].pc = "idle"
  /\ \/ Refused(c) /\ UNCHANGED <<wire, next, carried>>
     \/ at[c] \in link /\ Opens(c)
  /\ UNCHANGED <<link, hosted, at, host>>

\* A dialler has asked to be carried, the authority and the settings have been
\* read: no grant, not carrying, full or no route is a refusal.  From here to the
\* OPEN frame reserve does not wait.
Reserve(c) ==
  /\ call[c].pc = "idle"
  /\ \/ Refused(c) /\ UNCHANGED <<wire, next, carried>>
     \/ HasRoom(at[c]) /\ at[c] \in link /\ Opens(c)
  /\ UNCHANGED <<link, hosted, at, host>>

\* The timer of reserve answers for a holder that does not.
OpenTimesOut(c) ==
  /\ call[c].pc = "opening" /\ call[c].answer = "none" /\ ~call[c].closed
  /\ call' = [call EXCEPT ![c].answer = "decline"]
  /\ UNCHANGED <<linkvars, at, client, host>>

-----------------------------------------------------------------------------
(* The carrier: forwarding and closing.  The operators that follow map the *)
(* state s of the carrier to the next one, so that a handler can chain them. *)

State == [wire |-> wire, carried |-> carried, call |-> call, client |-> client]
Becomes(s) == wire' = s.wire /\ carried' = s.carried /\ call' = s.call /\ client' = s.client

\* _closeCarried: once, and both ends are told.  What waits for bandwidth is not
\* written any more.
CloseCarried(s, c) ==
  IF s.call[c].closed THEN s
  ELSE [s EXCEPT !.call[c] = [@ EXCEPT !.closed = TRUE, !.queue = <<>>, !.inbox = <<>>],
                 !.carried[at[c]] = Without(@, s.call[c].id),
                 !.wire = Sends(@, at[c], Frame("CLOSE", s.call[c].id, c, NoMsg)),
                 !.client[c].sock = IF @ = "open" THEN "gone" ELSE @]

\* _forward, called for several messages in a row: one queue for both directions,
\* closed by the first message it has no room for.
Forward(s, c, entries) ==
  IF s.call[c].closed THEN s
  ELSE IF Len(s.call[c].queue) + Len(entries) > MaxBuffered THEN CloseCarried(s, c)
  ELSE [s EXCEPT !.call[c].queue = @ \o entries]

\* _toClient: what comes before the socket is there waits in the inbox.
ToClient(s, c, frame) ==
  IF frame.op \in {"ACCEPT", "REFUSE"}
  THEN [s EXCEPT !.call[c].answer = IF @ # "none" \/ s.call[c].closed THEN @
                                    ELSE IF frame.op = "ACCEPT" THEN "accept" ELSE "decline"]
  ELSE IF frame.op = "CLOSE" THEN CloseCarried(s, c)
  ELSE IF s.call[c].pc # "attached" THEN [s EXCEPT !.call[c].inbox = Append(@, Entry(Down(c), frame.msg))]
  ELSE Forward(s, c, <<Entry(Down(c), frame.msg)>>)

\* Mutant: attach does not ask whether the session is still there.
Attaches_Unasked(c) ==
  LET s0 == [State EXCEPT !.call[c].pc = "attached", !.call[c].inbox = <<>>,
                          !.client[c].sock = "open"]
  IN  IF client[c].sock = "gone" THEN CloseCarried([State EXCEPT !.call[c].pc = "attached"], c)
      ELSE Forward(s0, c, call[c].inbox)

\* attach, or abandon when the dialler left meanwhile.  The inbox goes out first.
Attaches(c) ==
  LET s0 == [State EXCEPT !.call[c].pc = "attached", !.call[c].inbox = <<>>,
                          !.client[c].sock = "open"]
  IN  IF client[c].sock = "gone" THEN CloseCarried([State EXCEPT !.call[c].pc = "attached"], c)
      ELSE IF call[c].closed THEN [State EXCEPT !.call[c].pc = "attached", !.client[c].sock = "gone"]
      ELSE Forward(s0, c, call[c].inbox)

\* reserve goes on after the answer, and _carry after reserve.  A session that was
\* not granted is forgotten without a frame.
Settle(c) ==
  /\ call[c].pc = "opening" /\ call[c].answer # "none"
  /\ \/ /\ call[c].answer = "decline" /\ Refused(c)
        /\ carried' = [carried EXCEPT ![at[c]] = Without(@, call[c].id)]
        /\ UNCHANGED wire
     \/ call[c].answer = "accept" /\ Becomes(Attaches(c))
  /\ UNCHANGED <<link, next, hosted, at, host>>

\* The bandwidth service grants the next message of a session.
Drain(c) ==
  /\ call[c].queue # <<>>
  /\ LET m == Head(call[c].queue)
         s == [State EXCEPT !.call[c].queue = Tail(@)]
     IN  Becomes(IF m.pipe = Up(c)
                 THEN [s EXCEPT !.wire = Sends(@, at[c], Frame("DATA", call[c].id, c, m.msg))]
                 ELSE [s EXCEPT !.client[c].got = Append(@, m.msg)])
  /\ UNCHANGED <<link, next, hosted, at, host>>

-----------------------------------------------------------------------------
(* The dialler.                                                            *)

ClientSends(c) ==
  /\ client[c].sock = "open" /\ client[c].sent < MaxUp[c]
  /\ Becomes(Forward([State EXCEPT !.client[c].sent = @ + 1], c,
                     <<Entry(Up(c), Message(Up(c), client[c].sent + 1))>>))
  /\ UNCHANGED <<link, next, hosted, at, host>>

\* It hangs up; before it is attached nobody listens to its socket.
ClientLeaves(c) ==
  /\ client[c].sock \in {"waiting", "open"}
  /\ LET s == [State EXCEPT !.client[c].sock = "gone"]
     IN  Becomes(IF client[c].sock = "open" THEN CloseCarried(s, c) ELSE s)
  /\ UNCHANGED <<link, next, hosted, at, host>>

-----------------------------------------------------------------------------
(* The holder.                                                             *)

\* _host: the session is in the map while its credential is examined, so that a
\* CLOSE or a lost link meanwhile is not missed.
Hosts(n, frame) ==
  /\ IF Cardinality(DOMAIN hosted[n]) >= MaxSessions
     THEN /\ wire' = Sends([wire EXCEPT ![n] = Tail(@)], n, Frame("REFUSE", frame.id, frame.call, NoMsg))
          /\ UNCHANGED <<hosted, host>>
     ELSE /\ wire' = [wire EXCEPT ![n] = Tail(@)]
          /\ hosted' = [hosted EXCEPT ![n] = With(@, frame.id, frame.call)]
          /\ host' = [host EXCEPT ![frame.call] = [@ EXCEPT !.pc = "admitting", !.open = TRUE, !.id = frame.id]]
  /\ UNCHANGED <<carried, call, client>>

\* RelayedSocket.dropped: the session above it hears of it if it exists already.
Dropped(h) == [h EXCEPT !.open = FALSE, !.pc = IF @ = "live" THEN "over" ELSE @]

\* A CLOSE ends the session, data goes to it; other opcodes mean nothing here.
ToHost(n, frame) ==
  LET c == hosted[n][frame.id]
  IN  /\ wire' = [wire EXCEPT ![n] = Tail(@)]
      /\ \/ /\ frame.op = "CLOSE"
            /\ hosted' = [hosted EXCEPT ![n] = Without(@, frame.id)]
            /\ host' = [host EXCEPT ![c] = Dropped(@)]
         \/ /\ frame.op = "DATA"
            /\ host' = [host EXCEPT ![c].got = IF host[c].pc = "live" THEN Append(@, frame.msg) ELSE @]
            /\ UNCHANGED hosted
         \/ frame.op \notin {"CLOSE", "DATA"} /\ UNCHANGED <<hosted, host>>
      /\ UNCHANGED <<carried, call, client>>

\* _dispatch: a number is first one of the sessions carried, then one hosted.
Dispatch(n) ==
  /\ n \in link /\ wire[n] # <<>>
  /\ LET frame == Head(wire[n])
         id == frame.id
     IN  \/ frame.op = "OPEN" /\ Hosts(n, frame)
         \/ /\ frame.op # "OPEN" /\ id \in DOMAIN carried[n]
            /\ Becomes(ToClient([State EXCEPT !.wire[n] = Tail(@)], carried[n][id], frame))
            /\ UNCHANGED <<hosted, host>>
         \/ /\ frame.op # "OPEN" /\ id \notin DOMAIN carried[n] /\ id \in DOMAIN hosted[n]
            /\ ToHost(n, frame)
         \/ /\ frame.op # "OPEN" /\ id \notin DOMAIN carried[n] \cup DOMAIN hosted[n]
            /\ wire' = [wire EXCEPT ![n] = Tail(@)]
            /\ UNCHANGED <<carried, hosted, call, client, host>>
  /\ UNCHANGED <<link, next, at>>

\* The authority answers.  The session made of an admission listens to a socket
\* that may have been dropped already.
Admit(c) ==
  LET n == Holder(c)
      id == host[c].id
  IN  /\ host[c].pc = "admitting"
      /\ \/ /\ host' = [host EXCEPT ![c].pc = "live"]
            /\ wire' = Sends(wire, n, Frame("ACCEPT", id, c, NoMsg)) /\ UNCHANGED hosted
         \/ /\ host' = [host EXCEPT ![c].pc = "over", ![c].open = FALSE]
            /\ hosted' = [hosted EXCEPT ![n] = Without(@, id)]
            /\ wire' = Sends(wire, n, Frame("REFUSE", id, c, NoMsg))
      /\ UNCHANGED <<link, next, carried, at, call, client>>

HostSends(c) ==
  /\ host[c].pc = "live" /\ host[c].open /\ host[c].sent < MaxDown[c]
  /\ host' = [host EXCEPT ![c].sent = @ + 1]
  /\ wire' = Sends(wire, Holder(c), Frame("DATA", host[c].id, c, Message(Down(c), host[c].sent + 1)))
  /\ UNCHANGED <<link, next, carried, hosted, at, call, client>>

\* PeerSession.close over RelayedSocket.close: the carrier is told unless the
\* socket was dropped before.
HangsUp(c) ==
  LET n == Holder(c)
  IN  /\ host[c].pc = "live"
      /\ host' = [host EXCEPT ![c].pc = "over", ![c].open = FALSE]
      /\ IF host[c].open
         THEN /\ hosted' = [hosted EXCEPT ![n] = Without(@, host[c].id)]
              /\ wire' = Sends(wire, n, Frame("CLOSE", host[c].id, c, NoMsg))
         ELSE UNCHANGED <<hosted, wire>>
      /\ UNCHANGED <<link, next, carried, at, call, client>>

\* A session that is never greeted is closed by its timer.
HelloTimesOut(c) == host[c].got = <<>> /\ HangsUp(c)

\* A greeted one is closed by its own end for reasons of its own.
HostLeaves(c) == host[c].got # <<>> /\ HangsUp(c)

-----------------------------------------------------------------------------
(* The link.                                                               *)

\* One end finds the link gone (or shuts down): unregister closes every session.
Lose(n) ==
  LET ended(c) == c \in Held(carried[n]) /\ ~call[c].closed
      dropped(c) == c \in Held(hosted[n])
  IN  /\ n \in link /\ link' = link \ {n}
      /\ wire' = [wire EXCEPT ![n] = <<>>]
      /\ call' = [c \in Calls |-> IF ended(c)
                    THEN [call[c] EXCEPT !.closed = TRUE, !.queue = <<>>, !.inbox = <<>>]
                    ELSE call[c]]
      /\ client' = [c \in Calls |-> IF ended(c) /\ client[c].sock = "open"
                      THEN [client[c] EXCEPT !.sock = "gone"] ELSE client[c]]
      /\ carried' = [carried EXCEPT ![n] = Empty]
      /\ hosted' = [hosted EXCEPT ![n] = Empty]
      /\ host' = [c \in Calls |-> IF dropped(c) THEN Dropped(host[c]) ELSE host[c]]
      /\ UNCHANGED <<next, at>>

CallStep(c) ==
  \/ Reserve(c) \/ OpenTimesOut(c) \/ Settle(c) \/ Drain(c)
  \/ ClientSends(c) \/ ClientLeaves(c)
  \/ Admit(c) \/ HostSends(c) \/ HelloTimesOut(c) \/ HostLeaves(c)

Next ==
  \/ \E c \in Calls : CallStep(c)
  \/ \E n \in Nodes : Dispatch(n) \/ Lose(n)

Spec == Init /\ [][Next]_vars

\* What the event loop does by itself: frames on a link that stays are read, a
\* link lost at one end is noticed at the other, timers fire, awaited calls answer.
Progress ==
  \/ \E n \in Nodes : Dispatch(n) \/ (link # Nodes /\ Lose(n))
  \/ \E c \in Calls : OpenTimesOut(c) \/ Settle(c) \/ Drain(c) \/ Admit(c) \/ HelloTimesOut(c)

\* Nobody has to ask, to send or to leave.  Every step uses something up, so one
\* condition for all of them is enough.
FairSpec == Spec /\ WF_vars(Progress)

-----------------------------------------------------------------------------
(* Properties.                                                             *)

\* Shape of the state; the maps and the sessions agree on the numbers.
TypeOK ==
  /\ link \subseteq Nodes /\ at \in [Calls -> Nodes]
  /\ \A n \in Nodes :
       /\ DOMAIN carried[n] \cup DOMAIN hosted[n] \subseteq Nat
       /\ \A i \in DOMAIN carried[n] : carried[n][i] \in Calls /\ call[carried[n][i]].id = i
       /\ \A i \in DOMAIN hosted[n] : hosted[n][i] \in Calls
       /\ \A k \in 1..Len(wire[n]) :
            wire[n][k].op \in {"OPEN", "ACCEPT", "REFUSE", "CLOSE", "DATA"}
  /\ \A c \in Calls :
       /\ call[c].pc \in {"idle", "opening", "attached", "ended"}
       /\ call[c].answer \in {"none", "accept", "decline"}
       /\ client[c].sock \in {"none", "waiting", "open", "gone"}
       /\ host[c].pc \in {"none", "admitting", "live", "over"}

\* carriedCount: a gateway never carries more than its limit, whichever requests
\* were waiting for settings together, and a slot is held only by a session that
\* is not over; and what a slow receiver makes it hold is bounded (_forward).
CarryingIsBounded ==
  /\ \A n \in Nodes :
       /\ Cardinality(DOMAIN carried[n]) <= MaxSessions
       /\ \A i \in DOMAIN carried[n] : ~call[carried[n][i]].closed
  /\ \A c \in Calls : Len(call[c].queue) <= MaxBuffered

\* Through a carrier that serves both directions of its link at once, each
\* direction of each session is a pipe: its own messages, in order, once.
Pipe == INSTANCE RelayedLink WITH
  Pipes    <- Calls \X {"up", "down"},
  sent     <- [p \in Calls \X {"up", "down"} |-> IF p[2] = "up" THEN client[p[1]].sent ELSE host[p[1]].sent],
  received <- [p \in Calls \X {"up", "down"} |-> IF p[2] = "up" THEN host[p[1]].got ELSE client[p[1]].got],
  over     <- {p \in Calls \X {"up", "down"} : IF p[2] = "up" THEN host[p[1]].pc = "over"
                                               ELSE client[p[1]].sock = "gone"}
CarriesPipes == Pipe!Spec

\* A dialler that was connected is told when its session is over, at whatever
\* point of the reservation that happened.
ClientsAreTold ==
  \A c \in Calls : (call[c].answer = "accept" /\ call[c].closed) ~> client[c].sock = "gone"

\* And the holder keeps no session for a dialler that is gone, not even one it
\* admitted after the carrier gave up.
HostsAreReleased ==
  \A c \in Calls : (call[c].closed /\ host[c].pc = "live") ~> host[c].pc = "over"

\* Neither end of a session outlives the other for ever.
EndsAreReleased == ClientsAreTold /\ HostsAreReleased

-----------------------------------------------------------------------------
(* What a comment promises and the code does not keep.                     *)

\* unregister: "Both ends are told, so both redial": a dialler whose reservation
\* is ended by the loss of the link gets an answer.
EveryDiallerIsAnswered ==
  \A c \in Calls : (call[c].closed /\ client[c].sock = "waiting") ~> client[c].sock # "waiting"
=============================================================================
