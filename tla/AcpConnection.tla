---- MODULE AcpConnection ----
(***************************************************************************)
(* One connection of the Agent Client Protocol client (crates/zedb-acp):   *)
(* a child process spoken to over its standard streams.  A writer pump     *)
(* empties a bounded queue into the agent's input, a reader pump routes    *)
(* what the agent writes to the waiting requests or into a bounded queue   *)
(* of events, a stderr pump shares that queue.  Requests, notifications    *)
(* and answers to permission requests are tasks of their own.              *)
(*                                                                         *)
(* A step ends at an await or where a lock is released.  The pipes and the *)
(* queues lose nothing; the frame a pump holds in its hand counts to the   *)
(* pipe it is writing to.                                                  *)
(***************************************************************************)
EXTENDS Naturals, Sequences, FiniteSets

CONSTANTS
    Requests,          \* requests the client may make
    Asks,              \* permission requests the agent may make
    Calls,             \* other requests the agent may make
    PendingLimit,      \* MAX_PENDING_REQUESTS
    OutgoingCapacity,  \* OUTGOING_CAPACITY
    EventCapacity,     \* EVENT_CAPACITY
    PipeCapacity,      \* frames a pipe of the operating system holds
    MaxFrames,         \* bound: frames the agent writes
    MaxStderr          \* bound: lines on stderr

ASSUME BoundAssumption ==
    /\ {PendingLimit, OutgoingCapacity, EventCapacity, PipeCapacity} \subseteq Nat \ {0}
    /\ MaxFrames \in Nat /\ MaxStderr \in Nat

VARIABLES
    request,    \* per request: new, registered, sending, waiting, or how it ended
    pending,    \* keys of the pending map
    answer,     \* per request: what its oneshot holds
    closed,     \* the flag the reader raises
    outgoing,   \* queue of frames to the agent
    writing,    \* the writer pump lives
    stdin,      \* frames in the pipe to the agent
    stdout,     \* frames in the pipe from the agent
    reader,     \* the reader pump: where it is and the frame in its hand
    events,     \* queue of events to the pane
    listening,  \* the pane's pump takes events
    ask,        \* per permission request: none, queued, held, decided, answered
    cancelled,  \* session/cancel has been handed over
    agent,      \* the process: running, ended
    got,        \* frames the agent has read
    written,    \* frames the agent has written
    said,       \* lines on stderr
    unposted    \* auxiliary: session updates written and not yet in the event queue

channel == <<outgoing, writing, stdin>>
world   == <<agent, got, written, said>>
acpVars    == <<request, pending, answer, closed, channel, stdout, reader, events,
             listening, ask, cancelled, world, unposted>>

\* An RPC error of the agent is a reply; the other errors of AcpError are one.
Outcomes == {"reply", "failed"}
InFlight == {"registered", "sending", "waiting"}

Frame(kind, id) == [kind |-> kind, id |-> id]
Idle  == Frame("none", "none")
Event == {Frame("update", "none"), Frame("stderr", "none"), Frame("closed", "none")}
           \cup [kind : {"ask"}, id : Asks]
FromAgent == [kind : {"reply"}, id : Requests] \cup [kind : {"ask"}, id : Asks]
               \cup [kind : {"call"}, id : Calls]
               \cup {Frame("update", "none"), Frame("oversized", "none")}
ToAgent == [kind : {"request"}, id : Requests] \cup [kind : {"outcome"}, id : Asks]
             \cup [kind : {"refusal"}, id : Calls] \cup {Frame("cancel", "none")}

\* AgentConnection::spawn
AcpInit ==
    /\ request = [i \in Requests |-> "new"]
    /\ pending = {}
    /\ answer = [i \in Requests |-> "none"]
    /\ closed = FALSE
    /\ outgoing = <<>> /\ writing = TRUE
    /\ stdin = <<>> /\ stdout = <<>>
    /\ reader = [at |-> "reading", frame |-> Idle]
    /\ events = <<>>
    /\ listening = TRUE
    /\ ask = [a \in Asks |-> "none"]
    /\ cancelled = FALSE
    /\ agent = "running" /\ got = {} /\ written = 0 /\ said = 0
    /\ unposted = 0

----------------------------------------------------------------------------
\* The queues

OutgoingOpen == writing /\ Len(outgoing) < OutgoingCapacity
Enqueue(frame) == outgoing' = Append(outgoing, frame) /\ UNCHANGED <<writing, stdin>>

EventsOpen == listening /\ Len(events) < EventCapacity

Post(event) == events' = Append(events, event)

----------------------------------------------------------------------------
\* Requests

End(i, outcome) == request' = [request EXCEPT ![i] = outcome]
Forget(i) == pending' = pending \ {i}

\* request: take an id and a place in the pending map
Register(i) ==
    /\ request[i] = "new"
    /\ IF Cardinality(pending) >= PendingLimit
       THEN End(i, "failed") /\ UNCHANGED pending
       ELSE /\ request' = [request EXCEPT ![i] = "registered"]
            /\ pending' = pending \cup {i}
    /\ UNCHANGED <<answer, closed, channel, stdout, reader, events, listening, ask, cancelled,
                   world, unposted>>

\* Mutant of CheckClosed: the flag is not looked at.
CheckFrame(i) ==
    /\ request[i] = "registered"
    /\ request' = [request EXCEPT ![i] = "sending"]
    /\ UNCHANGED <<pending, answer, closed, channel, stdout, reader, events, listening, ask,
                   cancelled, world, unposted>>

\* request: the closed flag and the frame limit
CheckClosed(i) ==
    /\ request[i] = "registered"
    /\ \/ End(i, "failed") /\ Forget(i)   \* closed, or the frame is over the limit
       \/ /\ ~closed
          /\ request' = [request EXCEPT ![i] = "sending"]
          /\ UNCHANGED pending
    /\ UNCHANGED <<answer, closed, channel, stdout, reader, events, listening, ask, cancelled,
                   world, unposted>>

\* request: outgoing.send
SendRequest(i) ==
    /\ request[i] = "sending"
    /\ \/ /\ OutgoingOpen
          /\ Enqueue(Frame("request", i))
          /\ request' = [request EXCEPT ![i] = "waiting"]
          /\ UNCHANGED pending
       \/ ~writing /\ End(i, "failed") /\ Forget(i) /\ UNCHANGED channel
    /\ UNCHANGED <<answer, closed, stdout, reader, events, listening, ask, cancelled, world, unposted>>

\* Mutant of Receive: an error in the oneshot passes for a result.
ReceiveAny(i) ==
    /\ request[i] = "waiting" /\ answer[i] # "none"
    /\ End(i, "reply")
    /\ UNCHANGED <<pending, answer, closed, channel, stdout, reader, events, listening, ask,
                   cancelled, world, unposted>>

\* request: the oneshot has an outcome
Receive(i) ==
    /\ request[i] = "waiting" /\ answer[i] # "none"
    /\ End(i, answer[i])
    /\ UNCHANGED <<pending, answer, closed, channel, stdout, reader, events, listening, ask,
                   cancelled, world, unposted>>

\* Mutant of TimeOut: the place in the pending map is not given back.
TimeOutKeepsPlace(i) ==
    /\ request[i] = "waiting" /\ answer[i] = "none"
    /\ End(i, "failed")
    /\ UNCHANGED <<pending, answer, closed, channel, stdout, reader, events, listening, ask,
                   cancelled, world, unposted>>

\* request: either deadline; tokio::time::timeout looks at the awaited thing first
TimeOut(i) ==
    /\ \/ request[i] = "sending" /\ writing /\ ~OutgoingOpen
       \/ request[i] = "waiting" /\ answer[i] = "none"
    /\ End(i, "failed") /\ Forget(i)
    /\ UNCHANGED <<answer, closed, channel, stdout, reader, events, listening, ask, cancelled,
                   world, unposted>>

\* cancel, notify: outgoing.send, awaited without a deadline
Cancel ==
    /\ ~cancelled /\ cancelled' = TRUE
    /\ \/ OutgoingOpen /\ Enqueue(Frame("cancel", "none"))
       \/ ~writing /\ UNCHANGED channel
    /\ UNCHANGED <<request, pending, answer, closed, stdout, reader, events, listening, ask,
                   world, unposted>>

----------------------------------------------------------------------------
\* The pumps

\* The writer: a frame goes into the pipe, or the pipe is broken and the pump ends.
Write ==
    /\ writing /\ outgoing # <<>>
    /\ \/ /\ agent = "running" /\ Len(stdin) < PipeCapacity
          /\ stdin' = Append(stdin, Head(outgoing))
          /\ outgoing' = Tail(outgoing) /\ UNCHANGED writing
       \/ /\ agent = "ended"
          /\ writing' = FALSE /\ outgoing' = <<>> /\ UNCHANGED stdin
    /\ UNCHANGED <<request, pending, answer, closed, stdout, reader, events, listening, ask,
                   cancelled, world, unposted>>

\* The stderr pump
Stderr ==
    /\ said < MaxStderr /\ EventsOpen
    /\ said' = said + 1
    /\ Post(Frame("stderr", "none"))
    /\ UNCHANGED <<request, pending, answer, closed, channel, stdout, reader, listening, ask,
                   cancelled, agent, got, written, unposted>>

\* What becomes of a frame of the agent: route_message without its awaits
Reading == reader.at = "reading" /\ stdout # <<>>
Hold(at, frame) == reader' = [at |-> at, frame |-> frame]

\* The answer goes to the request that waits under its id; an unknown id is ignored.
Route(i) == IF i \in pending
            THEN Forget(i) /\ answer' = [answer EXCEPT ![i] = "reply"]
            ELSE UNCHANGED <<pending, answer>>

ReadReply ==
    /\ Reading /\ Head(stdout).kind = "reply"
    /\ Route(Head(stdout).id)
    /\ stdout' = Tail(stdout)
    /\ UNCHANGED <<request, closed, channel, reader, events, listening, ask, cancelled, world, unposted>>

\* A notification, a permission request (its task begins to wait for the
\* outcome), or a frame over the limit, reported like a line of stderr.
ReadEvent ==
    /\ Reading /\ Head(stdout).kind \in {"update", "ask", "oversized"}
    /\ Hold("offering", Head(stdout))
    /\ ask' = IF Head(stdout).kind = "ask"
              THEN [ask EXCEPT ![Head(stdout).id] = "queued"] ELSE ask
    /\ stdout' = Tail(stdout)
    /\ UNCHANGED <<request, pending, answer, closed, channel, events, listening, cancelled, world,
                   unposted>>

ReadCall ==
    /\ Reading /\ Head(stdout).kind = "call"
    /\ Hold("refusing", Head(stdout))
    /\ stdout' = Tail(stdout)
    /\ UNCHANGED <<request, pending, answer, closed, channel, events, listening, ask, cancelled,
                   world, unposted>>

\* Mutant of Offer: try_send, an event that finds the queue full is lost.
OfferOrDrop ==
    /\ reader.at = "offering" /\ listening
    /\ IF EventsOpen /\ reader.frame.kind # "oversized"
       THEN Post(reader.frame) /\ unposted' = unposted - (IF reader.frame.kind = "update" THEN 1 ELSE 0)
       ELSE UNCHANGED <<events, unposted>>
    /\ Hold("reading", Idle)
    /\ UNCHANGED <<request, pending, answer, closed, channel, stdout, listening, ask, cancelled,
                   world>>

\* events.send for the frame in hand
Offer ==
    /\ reader.at = "offering" /\ EventsOpen
    /\ Post(IF reader.frame.kind = "oversized" THEN Frame("stderr", "none") ELSE reader.frame)
    /\ unposted' = unposted - (IF reader.frame.kind = "update" THEN 1 ELSE 0)
    /\ Hold("reading", Idle)
    /\ UNCHANGED <<request, pending, answer, closed, channel, stdout, listening, ask, cancelled,
                   world>>

\* events.send finds the receiver gone; only an oversized frame does not end the loop
OfferInVain ==
    /\ reader.at = "offering" /\ ~listening
    /\ Hold(IF reader.frame.kind = "oversized" THEN "reading" ELSE "closing", Idle)
    /\ ask' = IF reader.frame.kind = "ask"
              THEN [ask EXCEPT ![reader.frame.id] = "decided"] ELSE ask
    /\ UNCHANGED <<request, pending, answer, closed, channel, stdout, events, listening, cancelled,
                   world, unposted>>

\* outgoing.send of "method not supported"
Refuse ==
    /\ reader.at = "refusing"
    /\ \/ /\ OutgoingOpen
          /\ Enqueue(Frame("refusal", reader.frame.id)) /\ Hold("reading", Idle)
       \/ ~writing /\ Hold("closing", Idle) /\ UNCHANGED channel
    /\ UNCHANGED <<request, pending, answer, closed, stdout, events, listening, ask, cancelled,
                   world, unposted>>

\* Mutant of EndOfOutput: a failing read is tried again.
EndOfOutputRetried ==
    /\ reader.at = "reading" /\ agent = "ended" /\ stdout = <<>>
    /\ UNCHANGED acpVars

EndOfOutput ==
    /\ reader.at = "reading" /\ agent = "ended" /\ stdout = <<>>
    /\ Hold("closing", Idle)
    /\ UNCHANGED <<request, pending, answer, closed, channel, stdout, events, listening, ask,
                   cancelled, world, unposted>>

RaiseFlag ==
    /\ reader.at = "closing"
    /\ closed' = TRUE /\ Hold("draining", Idle)
    /\ UNCHANGED <<request, pending, answer, channel, stdout, events, listening, ask, cancelled,
                   world, unposted>>

Drain ==
    /\ reader.at = "draining"
    /\ answer' = [i \in Requests |-> IF i \in pending THEN "failed" ELSE answer[i]]
    /\ pending' = {}
    /\ Hold("announcing", Idle)
    /\ UNCHANGED <<request, closed, channel, stdout, events, listening, ask, cancelled, world, unposted>>

\* Mutant of Announce: try_send of the terminal event.
AnnounceOrDrop ==
    /\ reader.at = "announcing"
    /\ IF EventsOpen THEN Post(Frame("closed", "none")) ELSE UNCHANGED events
    /\ Hold("stopped", Idle)
    /\ UNCHANGED <<request, pending, answer, closed, channel, stdout, listening, ask, cancelled,
                   world, unposted>>

Announce ==
    /\ reader.at = "announcing"
    /\ \/ EventsOpen /\ Post(Frame("closed", "none"))
       \/ ~listening /\ UNCHANGED events
    /\ Hold("stopped", Idle)
    /\ UNCHANGED <<request, pending, answer, closed, channel, stdout, listening, ask, cancelled,
                   world, unposted>>

----------------------------------------------------------------------------
\* The consumer and the tasks that answer permission requests

\* The event queue is dropped with what is in it, responders included.
DropQueue ==
    /\ listening' = FALSE
    /\ events' = <<>>
    /\ ask' = [a \in Asks |-> IF \E e \in 1..Len(events) : events[e] = Frame("ask", a)
                              THEN "decided" ELSE ask[a]]

\* The pane's pump takes an event; after Closed it stops.
Take ==
    /\ listening /\ events # <<>>
    /\ IF Head(events).kind = "closed"
       THEN DropQueue
       ELSE /\ events' = Tail(events)
            /\ ask' = IF Head(events).kind = "ask"
                      THEN [ask EXCEPT ![Head(events).id] = "held"] ELSE ask
            /\ UNCHANGED listening
    /\ UNCHANGED <<request, pending, answer, closed, channel, stdout, reader, cancelled, world,
                   unposted>>

\* The window is closed.
ConsumerStops ==
    /\ listening
    /\ DropQueue
    /\ UNCHANGED <<request, pending, answer, closed, channel, stdout, reader, cancelled, world,
                   unposted>>

\* The user answers or cancels, or the responder is dropped.
Decide(a) ==
    /\ ask[a] = "held"
    /\ ask' = [ask EXCEPT ![a] = "decided"]
    /\ UNCHANGED <<request, pending, answer, closed, channel, stdout, reader, events, listening,
                   cancelled, world, unposted>>

\* Mutant of Respond: try_send of the answer.
RespondOrDrop(a) ==
    /\ ask[a] = "decided"
    /\ IF OutgoingOpen THEN Enqueue(Frame("outcome", a)) ELSE UNCHANGED channel
    /\ ask' = [ask EXCEPT ![a] = "answered"]
    /\ UNCHANGED <<request, pending, answer, closed, stdout, reader, events, listening, cancelled,
                   world, unposted>>

\* The permission task: no outcome counts as cancelled; the response is sent.
Respond(a) ==
    /\ ask[a] = "decided"
    /\ \/ OutgoingOpen /\ Enqueue(Frame("outcome", a))
       \/ ~writing /\ UNCHANGED channel
    /\ ask' = [ask EXCEPT ![a] = "answered"]
    /\ UNCHANGED <<request, pending, answer, closed, stdout, reader, events, listening, cancelled,
                   world, unposted>>

----------------------------------------------------------------------------
\* The agent process

AgentReads ==
    /\ agent = "running" /\ stdin # <<>>
    /\ got' = got \cup {Head(stdin)} /\ stdin' = Tail(stdin)
    /\ UNCHANGED <<request, pending, answer, closed, outgoing, writing, stdout, reader, events,
                   listening, ask, cancelled, agent, written, said, unposted>>

\* What the agent may write: replies to what it has read, early, late or
\* twice, updates, its own requests (each once), frames over the limit.
Writable ==
    [kind : {"reply"}, id : {i \in Requests : Frame("request", i) \in got}]
      \cup {f \in FromAgent : f.kind \in {"update", "oversized"}}
      \cup [kind : {"ask"}, id : {a \in Asks : ask[a] = "none"
                                    /\ \A k \in 1..Len(stdout) : stdout[k] # Frame("ask", a)}]
      \cup [kind : {"call"}, id : {c \in Calls : Frame("refusal", c) \notin got}]

AgentWrites ==
    /\ agent = "running" /\ written < MaxFrames /\ Len(stdout) < PipeCapacity
    /\ \E frame \in Writable :
         /\ stdout' = Append(stdout, frame)
         /\ unposted' = unposted + (IF frame.kind = "update" THEN 1 ELSE 0)
    /\ written' = written + 1
    /\ UNCHANGED <<request, pending, answer, closed, channel, reader, events, listening, ask,
                   cancelled, agent, got, said>>

\* It exits, or shutdown or the drop of the connection kills it.  What it
\* wrote can still be read; what it has read or would have read is gone.
AgentEnds ==
    /\ agent = "running" /\ agent' = "ended"
    /\ stdin' = <<>> /\ got' = {} /\ written' = 0
    /\ UNCHANGED <<request, pending, answer, closed, outgoing, writing, stdout, reader, events,
                   listening, ask, cancelled, said, unposted>>

----------------------------------------------------------------------------
ReadFrame == ReadReply \/ ReadEvent \/ ReadCall
Reader == ReadFrame \/ Offer \/ OfferInVain \/ Refuse \/ EndOfOutput \/ RaiseFlag \/ Drain \/ Announce
Call(i) == CheckClosed(i) \/ SendRequest(i) \/ Receive(i)

AcpNext ==
    \/ \E i \in Requests : Register(i) \/ Call(i) \/ TimeOut(i)
    \/ Cancel
    \/ Write \/ Stderr \/ Reader
    \/ Take \/ ConsumerStops
    \/ \E a \in Asks : Decide(a) \/ Respond(a)
    \/ AgentReads \/ AgentWrites \/ AgentEnds

AcpSpec == AcpInit /\ [][AcpNext]_acpVars

\* Every task is polled, the pane takes its events, a running agent reads its
\* input.  Nothing is assumed of deadlines, users, or what the agent writes.
Fairness ==
    /\ WF_acpVars(Write) /\ WF_acpVars(Reader) /\ WF_acpVars(Take)
    /\ WF_acpVars(AgentReads)
    /\ \A i \in Requests : WF_acpVars(Call(i))
    /\ \A a \in Asks : WF_acpVars(Respond(a))

AcpFairSpec == AcpSpec /\ Fairness

----------------------------------------------------------------------------
\* The types of the state; the queues keep to their bounds.
AcpTypeOK ==
    /\ request \in [Requests -> {"new"} \cup InFlight \cup Outcomes]
    /\ pending \subseteq Requests
    /\ answer \in [Requests -> {"none"} \cup Outcomes]
    /\ closed \in BOOLEAN /\ writing \in BOOLEAN
    /\ outgoing \in Seq(ToAgent) /\ Len(outgoing) <= OutgoingCapacity
    /\ stdin \in Seq(ToAgent) /\ stdout \in Seq(FromAgent)
    /\ reader.at \in {"reading", "offering", "refusing", "closing", "draining", "announcing", "stopped"}
    /\ reader.frame \in FromAgent \cup {Idle}
    /\ events \in Seq(Event) /\ Len(events) <= EventCapacity
    /\ listening \in BOOLEAN /\ cancelled \in BOOLEAN
    /\ ask \in [Asks -> {"none", "queued", "held", "decided", "answered"}]
    /\ agent \in {"running", "ended"}
    /\ got \subseteq ToAgent /\ written \in Nat /\ said \in Nat
    /\ unposted \in Nat

\* A request that has ended holds no place in the pending map: deadlines, a
\* broken pipe and the frame limit all give it back, or 64 of them would
\* refuse every later request.
SlotsAreInFlight == \A i \in pending : request[i] \in InFlight

\* Once the reader has failed what was in flight, no request waits for an
\* answer that nobody will give: it has its outcome or will see the flag.
NobodyWaitsInVain ==
    reader.at \in {"announcing", "stopped"} =>
      \A i \in Requests :
        /\ request[i] \in {"sending", "waiting"} => answer[i] # "none"
        /\ request[i] = "registered" => closed

\* The pending map and the requests agree, whichever of answer, deadline,
\* broken queue and end of the agent comes first: no place without a request
\* in flight, no request that was forgotten (lib.rs:183-192, 217-263).
PendingMapIsSound == SlotsAreInFlight /\ NobodyWaitsInVain

\* Updates of a turn come before its end: when a request gets its reply,
\* every update the agent wrote before the reply is in the event queue, and
\* only those behind it in the pipe are not.
UpdatesInPipe == {k \in 1..Len(stdout) : stdout[k].kind = "update"}
UpdatesComeFirst ==
    [][(\E i \in Requests : answer[i] = "none" /\ answer'[i] = "reply") /\ listening
         => unposted' = Cardinality(UpdatesInPipe')]_acpVars

\* A dead agent is noticed: every request ends, at once and not at its deadline,
\* and the consumer learns of the end, however full its queue is.
DeadAgentIsNoticed ==
    /\ agent = "ended" ~> \A i \in Requests : request[i] \notin InFlight
    /\ agent = "ended" ~> ~listening

\* The agent never hangs on a permission request: an outcome, or the loss of
\* the responder, becomes an answer that reaches it.
DecisionsArrive ==
    \A a \in Asks : ask[a] = "decided" ~> Frame("outcome", a) \in got \/ agent = "ended"

----------------------------------------------------------------------------
\* What the connection promises: AgentChannel.

CallState(i) ==
    CASE request[i] = "new" -> "new"
      [] request[i] = "reply" -> "ok"
      [] request[i] = "failed" -> "failed"
      [] request[i] \in InFlight /\ answer[i] = "reply" -> "answered"
      [] OTHER -> "open"

Channel == INSTANCE AgentChannel WITH
    ch <- [call |-> [i \in Requests |-> CallState(i)], stream |-> events,
           over |-> reader.at = "stopped", listening |-> listening]

\* The connection implements the channel, with its promise that a closed
\* channel ends every call.
ChannelSpec == Channel!FairSpec
====
