------------------------------- MODULE Relay -------------------------------
(***************************************************************************)
(* One agent's connection to one server, as the gateway relays it.  What   *)
(* the agent posts goes to the server; a pump task reads what the server   *)
(* says and gives each message its place: an answer goes to the request it *)
(* answers, anything else to the stream the agent opened for it, else to   *)
(* the latest request still waiting, else into a backlog.                  *)
(*                                                                         *)
(* Source: crates/mcp-gateway/src/relay.rs, with the callers in server.rs. *)
(* A step is one hold of the relay's lock, or a stretch between two        *)
(* awaits.  External: the server, and the agent reading its streams.       *)
(*                                                                         *)
(* An agent's request ids are distinct while they are out, as JSON-RPC     *)
(* asks, so a post stands for its id here.                                 *)
(***************************************************************************)
EXTENDS Naturals, Sequences, FiniteSets

CONSTANTS
  Posts,       \* requests the agent posts, each once
  Streams,     \* attempts of the agent to open its stream, each once
  Notes,       \* messages the server says on its own, each once
  Capacity,    \* INCOMING: what a stream's channel holds
  Backlog,     \* BACKLOG: messages kept for a stream that is not open
  MaxTraffic,  \* bound: requests posted and messages said, in all
  Closers,     \* callers of close beside the pump: the front, the sweep, stop
  Pump,        \* the pump as a caller of close
  None

ASSUME RelayAssumption ==
  /\ Capacity \in Nat \ {0} /\ Backlog \in Nat \ {0} /\ Backlog <= Capacity
  /\ Posts \cap Streams = {} /\ Posts \cap Notes = {}
  /\ None \notin Posts \cup Streams \cup Notes
  /\ Pump \notin Closers

ASSUME TrafficAssumption == MaxTraffic \in Nat

Channels == Posts \cup Streams
Messages == Posts \cup Notes          \* a post stands for its answer

VARIABLES
  poster,      \* where each post is
  asked,       \* requests the server has and has not answered
  unsaid,      \* what the server has not said on its own yet
  incoming,    \* from the server to the pump
  serving,     \* the server's session is up
  order,       \* State::waiting and order: the requests waiting, oldest first
  listener,    \* State::listener: the agent's stream
  backlog,     \* State::backlog
  chan,        \* each channel's content
  rx,          \* the agent's end of each channel
  got,         \* what the agent has read from each
  pump,        \* where the pump is
  message,     \* what it carries
  target,      \* where it is sending it
  ended,       \* the connection's token
  closer,      \* where each caller of close is
  sweeping,    \* the front's sweep runs: until stop, when its closing is done
  lost         \* history: messages gone with an abandoned stream, pushed out
               \* of a full backlog, or left behind when the relay is dropped

vars == <<poster, asked, unsaid, incoming, serving, order, listener, backlog,
          chan, rx, got, pump, message, target, ended, closer, sweeping, lost>>

server   == <<asked, unsaid, incoming>>
state    == <<order, listener, backlog>>
channels == <<chan, rx, got>>
pumping  == <<pump, message, target>>
closing  == <<ended, closer, serving, sweeping>>

Elements(s) == {s[i] : i \in DOMAIN s}
Distinct(s) == \A i, j \in DOMAIN s : s[i] = s[j] => i = j

\* `retain` of the others, in a sequence that has x once at most.
Without(s, x) ==
  IF x \in Elements(s)
    THEN LET i == CHOOSE i \in DOMAIN s : s[i] = x
         IN SubSeq(s, 1, i - 1) \o SubSeq(s, i + 1, Len(s))
    ELSE s

Last(s) == s[Len(s)]

TypeOK ==
  /\ poster \in [Posts -> {"idle", "checked", "sending", "sent", "accepted",
                           "failed"}]
  /\ asked \subseteq Posts /\ unsaid \subseteq Notes
  /\ incoming \in Seq(Messages)
  /\ serving \in BOOLEAN /\ ended \in BOOLEAN
  /\ order \in Seq(Posts) /\ Distinct(order)
  /\ listener \in Streams \cup {None}
  /\ backlog \in Seq(Messages) /\ Len(backlog) <= Backlog
  /\ chan \in [Channels -> Seq(Messages)]
  /\ \A ch \in Channels : Len(chan[ch]) <= Capacity
  /\ rx \in [Channels -> {"none", "found", "open", "left"}]
  /\ got \in [Channels -> Seq(Messages)]
  /\ pump \in {"receiving", "routing", "answering", "telling", "keeping",
               "closing", "stopped"}
  /\ message \in Messages \cup {None}
  /\ target \in Channels \cup {None}
  /\ closer \in [Closers \cup {Pump} ->
                 {"no", "skipped", "checked", "cancelled", "down", "done"}]
  /\ sweeping \in BOOLEAN
  /\ lost \subseteq Messages

\* Relay::start: the pump runs, nothing is open.
Init ==
  /\ poster = [p \in Posts |-> "idle"]
  /\ asked = {} /\ unsaid = Notes /\ incoming = <<>> /\ serving = TRUE
  /\ order = <<>> /\ listener = None /\ backlog = <<>>
  /\ chan = [ch \in Channels |-> <<>>]
  /\ rx = [ch \in Channels |-> "none"]
  /\ got = [ch \in Channels |-> <<>>]
  /\ pump = "receiving" /\ message = None /\ target = None
  /\ ended = FALSE /\ closer = [k \in Closers \cup {Pump} |-> "no"]
  /\ sweeping = TRUE
  /\ lost = {}

-----------------------------------------------------------------------------
(* The agent: post, listen, and its ends of the streams.                   *)

Traffic == Cardinality({p \in Posts : poster[p] # "idle"}) + Cardinality(Notes \ unsaid)

\* Names are interchangeable, so new ones are taken in an order.
Fresh(S) == CHOOSE x \in S : TRUE
Unposted == {p \in Posts : poster[p] = "idle"}

\* `post` finds the connection open ...
PostChecks(p) ==
  /\ ~ended /\ Traffic < MaxTraffic
  /\ Unposted # {} /\ p = Fresh(Unposted)
  /\ poster' = [poster EXCEPT ![p] = "checked"]
  /\ UNCHANGED <<server, state, channels, pumping, closing, lost>>

\* ... and puts the request among those waiting, with a channel of its own.
PostWaits(p) ==
  /\ poster[p] = "checked"
  /\ poster' = [poster EXCEPT ![p] = "sending"]
  /\ order' = Append(Without(order, p), p)
  /\ rx' = [rx EXCEPT ![p] = "open"]
  /\ UNCHANGED <<server, listener, backlog, chan, got, pumping, closing, lost>>

\* upstream.send: a server that is up takes it; one that is not may too (an
\* HTTP server is only told of the end), or refuses.
PostSent(p) ==
  /\ poster[p] = "sending"
  /\ poster' = [poster EXCEPT ![p] = "sent"]
  /\ asked' = IF serving THEN asked \cup {p} ELSE asked
  /\ UNCHANGED <<unsaid, incoming, state, channels, pumping, closing, lost>>

\* The call returns, and the agent is given the request's stream; the answer
\* may be in it already.
PostReturns(p) ==
  /\ poster[p] = "sent"
  /\ poster' = [poster EXCEPT ![p] = "accepted"]
  /\ UNCHANGED <<server, state, channels, pumping, closing, lost>>

\* It fails: the request is forgotten, and the agent given an error.
PostFails(p) ==
  /\ poster[p] = "sending"
  /\ poster' = [poster EXCEPT ![p] = "failed"]
  /\ order' = Without(order, p)
  /\ rx' = [rx EXCEPT ![p] = "left"]
  /\ lost' = lost \cup Elements(chan[p])
  /\ chan' = [chan EXCEPT ![p] = <<>>]
  /\ UNCHANGED <<server, listener, backlog, got, pumping, closing>>

\* The front finds the connection open (Shared::relay) ...
ListenFinds(s) ==
  /\ rx[s] = "none" /\ ~ended
  /\ rx' = [rx EXCEPT ![s] = "found"]
  /\ UNCHANGED <<poster, server, state, chan, got, pumping, closing, lost>>

Listening == listener # None /\ rx[listener] = "open"

\* What of the backlog the new stream's channel takes: all it has room for.
Drained == SubSeq(backlog, 1, IF Len(backlog) <= Capacity THEN Len(backlog) ELSE Capacity)

\* ... and `listen` opens its stream, unless one is open, with the backlog.
Listen(s) ==
  /\ rx[s] = "found"
  /\ IF Listening
       THEN rx' = [rx EXCEPT ![s] = "left"] /\ UNCHANGED <<listener, backlog, chan>>
       ELSE /\ rx' = [rx EXCEPT ![s] = "open"]
            /\ listener' = s
            /\ chan' = [chan EXCEPT ![s] = Drained]
            /\ backlog' = SubSeq(backlog, Len(Drained) + 1, Len(backlog))
  /\ UNCHANGED <<poster, server, order, got, pumping, closing, lost>>

\* The agent reads a stream it has been given.
AgentReads(ch) ==
  /\ rx[ch] = "open" /\ chan[ch] # <<>>
  /\ ch \in Posts => poster[ch] = "accepted"
  /\ got' = [got EXCEPT ![ch] = Append(@, Head(chan[ch]))]
  /\ chan' = [chan EXCEPT ![ch] = Tail(@)]
  /\ UNCHANGED <<poster, server, state, rx, pumping, closing, lost>>

\* The agent leaves a stream, unread messages and all.
AgentLeaves(ch) ==
  /\ rx[ch] = "open"
  /\ ch \in Posts => poster[ch] = "accepted"
  /\ rx' = [rx EXCEPT ![ch] = "left"]
  /\ lost' = lost \cup Elements(chan[ch])
  /\ chan' = [chan EXCEPT ![ch] = <<>>]
  /\ UNCHANGED <<poster, server, state, got, pumping, closing>>

-----------------------------------------------------------------------------
(* The server.                                                             *)

ServerAnswers(p) ==
  /\ serving /\ p \in asked
  /\ asked' = asked \ {p}
  /\ incoming' = Append(incoming, p)
  /\ UNCHANGED <<poster, unsaid, state, channels, pumping, closing, lost>>

ServerSays(n) ==
  /\ serving /\ Traffic < MaxTraffic
  /\ unsaid # {} /\ n = Fresh(unsaid)
  /\ unsaid' = unsaid \ {n}
  /\ incoming' = Append(incoming, n)
  /\ UNCHANGED <<poster, asked, state, channels, pumping, closing, lost>>

ServerEnds ==
  /\ serving
  /\ serving' = FALSE
  /\ UNCHANGED <<poster, server, state, channels, pumping, ended, closer, sweeping, lost>>

-----------------------------------------------------------------------------
(* The pump: one message at a time.                                        *)

PumpTakes ==
  /\ pump = "receiving" /\ incoming # <<>>
  /\ message' = Head(incoming)
  /\ incoming' = Tail(incoming)
  /\ pump' = "routing"
  /\ UNCHANGED <<poster, asked, unsaid, state, channels, target, closing, lost>>

\* recv gives nothing more: the pump closes the connection and is done.
PumpCloses ==
  /\ pump = "receiving" /\ incoming = <<>> /\ ~serving
  /\ pump' = "closing"
  /\ UNCHANGED <<poster, server, state, channels, message, target, closing, lost>>

\* The connection has ended (select! may still prefer a message).
PumpStops ==
  /\ pump = "receiving" /\ ended
  /\ pump' = "stopped"
  /\ UNCHANGED <<poster, server, state, channels, message, target, closing, lost>>

\* Mutant of Answered: the request goes on waiting after its answer.
AnsweredStillWaiting(p) == order

Answered(p) == Without(order, p)

\* `route` of an answer to a request that waits.
RouteAnswer ==
  /\ pump = "routing" /\ message \in Elements(order)
  /\ order' = Answered(message)
  /\ target' = message
  /\ pump' = "answering"
  /\ UNCHANGED <<poster, server, listener, backlog, channels, message, closing, lost>>

\* `route` of anything else: the target is chosen under the lock ...
RouteOther ==
  /\ pump = "routing" /\ message \notin Elements(order)
  /\ target' = IF Listening THEN listener
               ELSE IF order # <<>> THEN Last(order) ELSE None
  /\ pump' = IF target' = None THEN "keeping" ELSE "telling"
  /\ UNCHANGED <<poster, server, state, channels, message, closing, lost>>

\* Mutant of HasRoom: a message to a full channel is let go.
HasRoomAlways(ch) == TRUE

HasRoom(ch) == Len(chan[ch]) < Capacity

Put(ch, m) == IF Len(chan[ch]) < Capacity THEN Append(chan[ch], m) ELSE chan[ch]

Carried == pump' = "receiving" /\ message' = None /\ target' = None

\* ... and sent to without it, once the channel has room.
PumpSends ==
  /\ pump \in {"answering", "telling"} /\ rx[target] = "open" /\ HasRoom(target)
  /\ chan' = [chan EXCEPT ![target] = Put(target, message)]
  /\ Carried
  /\ UNCHANGED <<poster, server, state, rx, got, closing, lost>>

\* Nobody reads an answer any more: it is dropped.
AnswerUnread ==
  /\ pump = "answering" /\ rx[target] # "open"
  /\ lost' = lost \cup {message}
  /\ Carried
  /\ UNCHANGED <<poster, server, state, channels, closing>>

\* Anything else comes back to be kept.
OtherUnread ==
  /\ pump = "telling" /\ rx[target] # "open"
  /\ pump' = "keeping"
  /\ UNCHANGED <<poster, server, state, channels, message, target, closing, lost>>

\* Mutant of PumpKeeps: the backlog has no limit.
PumpKeepsAll ==
  /\ pump = "keeping"
  /\ backlog' = Append(backlog, message)
  /\ Carried
  /\ UNCHANGED <<poster, server, order, listener, channels, closing, lost>>

\* The backlog takes it, its oldest message going when it is full.
PumpKeeps ==
  /\ pump = "keeping"
  /\ IF Len(backlog) >= Backlog
       THEN backlog' = Append(Tail(backlog), message) /\ lost' = lost \cup {Head(backlog)}
       ELSE backlog' = Append(backlog, message) /\ UNCHANGED lost
  /\ Carried
  /\ UNCHANGED <<poster, server, order, listener, channels, closing>>

-----------------------------------------------------------------------------
(* close, by any of its callers, two of which may pass its check together. *)

CloserAt(k, place, next) == closer[k] = place /\ closer' = [closer EXCEPT ![k] = next]

CloseChecks(k) ==
  /\ k = Pump => pump = "closing"
  /\ CloserAt(k, "no", IF ended THEN "skipped" ELSE "checked")
  /\ UNCHANGED <<poster, server, state, channels, pumping, ended, serving, sweeping, lost>>

CloseCancels(k) ==
  /\ CloserAt(k, "checked", "cancelled")
  /\ ended' = TRUE
  /\ UNCHANGED <<poster, server, state, channels, pumping, serving, sweeping, lost>>

\* upstream.close: the server's session is ended; what it said and the pump
\* has not taken is never read.
CloseUpstream(k) ==
  /\ CloserAt(k, "cancelled", "down")
  /\ serving' = FALSE
  /\ UNCHANGED <<poster, server, state, channels, pumping, ended, sweeping, lost>>

\* Every stream ends; the observer is told.
CloseClears(k) ==
  /\ CloserAt(k, "down", "done")
  /\ order' = <<>>
  /\ listener' = None
  /\ UNCHANGED <<poster, server, backlog, channels, pumping, ended, serving, sweeping, lost>>

\* The caller may be stop, which ends the sweep when no close is left to do.
SweepStops ==
  /\ sweeping /\ \E k \in Closers : closer[k] \in {"skipped", "done"}
  /\ sweeping' = FALSE
  /\ UNCHANGED <<poster, server, state, channels, pumping, ended, closer, serving, lost>>

\* Mutant of InUse: the relay is kept as long as anything waits on it.
InUseWaiting == order # <<>> \/ \E k \in DOMAIN closer : closer[k] \in {"cancelled", "down"}

\* A call into the relay holds it.
InUse ==
  \/ \E k \in DOMAIN closer : closer[k] \in {"checked", "cancelled", "down"}
  \/ \E p \in Posts : poster[p] \in {"checked", "sending", "sent"}
  \/ \E s \in Streams : rx[s] = "found"

\* The sweep forgets a connection that ended, or the gateway is let go with it;
\* with the pump and every call into it gone it is dropped, and with it what
\* still waits.
Dropped ==
  /\ ended /\ pump \in {"stopped", "closing"} /\ ~InUse
  /\ <<order, listener, backlog>> # <<<<>>, None, <<>>>>
  /\ order' = <<>> /\ listener' = None /\ backlog' = <<>>
  /\ lost' = lost \cup Elements(backlog)
  /\ UNCHANGED <<poster, server, channels, pumping, closing>>

-----------------------------------------------------------------------------
Agent(p) == PostChecks(p) \/ PostWaits(p) \/ PostSent(p) \/ PostReturns(p) \/ PostFails(p)
Pumping == \/ PumpTakes \/ PumpCloses \/ PumpStops \/ RouteAnswer \/ RouteOther
           \/ PumpSends \/ AnswerUnread \/ OtherUnread \/ PumpKeeps
Closing(k) == CloseCancels(k) \/ CloseUpstream(k) \/ CloseClears(k)

Next ==
  \/ \E p \in Posts : Agent(p) \/ ServerAnswers(p)
  \/ \E s \in Streams : ListenFinds(s) \/ Listen(s)
  \/ \E ch \in Channels : AgentReads(ch) \/ AgentLeaves(ch)
  \/ \E n \in Notes : ServerSays(n)
  \/ ServerEnds \/ Pumping \/ SweepStops \/ Dropped
  \/ \E k \in DOMAIN closer : CloseChecks(k) \/ Closing(k)

Safety == Init /\ [][Next]_vars

\* What goes on by itself: the pump, a request on its way in or a stream being
\* opened, a close in progress, the sweep while there is one, and the agent
\* reading the streams it keeps.  The server need not answer, and nobody has to
\* close.  upstream.send and upstream.close may wait on the server for good
\* (PostSent, PostReturns, PostFails, CloseUpstream).
Progress ==
  \/ Pumping \/ (sweeping /\ Dropped) \/ CloseChecks(Pump)
  \/ \E p \in Posts : PostWaits(p)
  \/ \E s \in Streams : Listen(s)
  \/ \E ch \in Channels : AgentReads(ch)
  \/ \E k \in Closers \cup {Pump} : CloseCancels(k) \/ CloseClears(k)

\* Each such step brings a message, a call or a close further, and there are
\* finitely many: that one of them is taken is all that need be assumed.
Fairness == WF_vars(Progress)

Spec == Safety /\ Fairness

-----------------------------------------------------------------------------
(* Properties.                                                             *)

\* All a channel's reader has been given or will be.
Delivered(ch) == got[ch] \o chan[ch]

\* Somebody still sends on this channel.
HasSender(ch) == ch \in Elements(order) \/ ch = listener \/ ch = target

\* What a request's stream bears.  An answer that finds its request cleared
\* away by the end of the connection is placed like any message.
Borne(p, m) ==
  IF m = p THEN "response" ELSE IF m \in Notes \/ ended THEN "message" ELSE "astray"
Bears(p, seq) == [i \in DOMAIN seq |-> Borne(p, seq[i])]

PhaseOf(p) ==
  CASE rx[p] = "none" -> "idle"
    [] rx[p] = "left" \/ (rx[p] = "open" /\ ~HasSender(p)) -> "over"
    [] OTHER -> IF p \in Elements(Delivered(p)) THEN "answered" ELSE "open"

Promise == INSTANCE AgentStreams WITH
  Requests <- Posts, MayFollow <- FALSE,
  phase <- [p \in Posts |-> PhaseOf(p)],
  stream <- [p \in Posts |-> Bears(p, Delivered(p))]

\* The relay keeps the promise made to agents of their streams: a response
\* goes to the request it answers, is the last there, and nothing is told on
\* a stream that is over, though the pump sends without the lock it chose
\* the stream under (route, close).
KeepsPromise == Promise!Spec

\* The places of a message in a sequence, and on the streams.
In(s, m) == {i \in DOMAIN s : s[i] = m}
Told(m) == UNION {{ch} \X In(Delivered(ch), m) : ch \in Channels}

\* How many times a message is anywhere: with the pump, kept, or on a stream.
Copies(m) ==
  Cardinality(In(incoming, m)) + (IF message = m THEN 1 ELSE 0)
  + Cardinality(In(backlog, m)) + Cardinality(Told(m)) + (IF m \in lost THEN 1 ELSE 0)

\* What the server says on its own is told once or kept once, through opening,
\* leaving and closing of streams, until the few ways a message may go.
NothingLostOrTwice == \A n \in Notes \ unsaid : Copies(n) = 1

\* Together with the bounds of the channels and the backlog, which hold
\* because the pump waits for room and the oldest message kept goes.
Conserved == TypeOK /\ NothingLostOrTwice

\* Calls into the relay that have not come back from the server: a request's
\* post, and a close.  Until a post is back, nobody reads its stream.
Sending(p) == poster[p] \in {"sending", "sent"}
ClosingServer == \E k \in DOMAIN closer : closer[k] = "cancelled"
Cleared == \E k \in DOMAIN closer : closer[k] = "done"

\* What keeps a stream open after the end: before the streams are cleared, a
\* server that does not let itself be closed; after, if the stream came in
\* late, a call that is not back, or that there is no sweep any more; and a
\* full stream that nobody reads yet keeps the pump.
HeldOpen(ch) ==
  IF ~Cleared THEN ClosingServer
  ELSE \/ \E p \in Posts : Sending(p)
       \/ (ch \in Elements(order) \/ ch = listener) /\ (ClosingServer \/ ~sweeping)

\* When the connection ends so does every stream of it, even one of a request
\* or a listen that passed its check before the end and came in after it, but
\* for those HeldOpen.
\* (`ended` stays, so it is enough to say it of infinitely many states.)
StreamsEnd ==
  []<>(\A ch \in Channels :
         ended /\ rx[ch] = "open" /\ HasSender(ch) => HeldOpen(ch))

\* An answer the server gave reaches an agent that waits for it, unless the
\* connection ends first, or the pump has another message for a stream that
\* nobody reads, its post not being back.
AnswerArrives ==
  []<>(\A p \in Posts : poster[p] = "accepted" /\ p \notin asked
         => \/ p \in Elements(got[p]) \/ rx[p] = "left" \/ ended
            \/ target \in Posts /\ Sending(target) /\ ~HasRoom(target))

\* Does not hold of the code: "it goes to the stream the agent opened for it
\* [...] else it is kept until a stream opens".
KeptUntilStream == pump = "receiving" /\ Listening => backlog = <<>>
=============================================================================
