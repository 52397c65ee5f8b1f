---- MODULE AgentChannel ----
(***************************************************************************)
(* What a connection to an agent promises to the pane.  A call is answered *)
(* or fails; events come in order; when the channel closes, the end is     *)
(* announced behind all events of the conversation, no call is answered    *)
(* any more, and those still open fail.  Lines of stderr may come at any   *)
(* time.  AcpConnection implements it; AgentPane is built on it.           *)
(*                                                                         *)
(* The operators take and return the record of one channel, so that a      *)
(* module can hold many.                                                   *)
(***************************************************************************)
EXTENDS Sequences

CONSTANTS Requests, Asks
VARIABLE ch   \* call: per request, stream: events not taken, over, listening

Update == [kind |-> "update", id |-> "none"]
Stderr == [kind |-> "stderr", id |-> "none"]
Closed == [kind |-> "closed", id |-> "none"]

Opened == [call |-> [i \in Requests |-> "new"], stream |-> <<>>, over |-> FALSE, listening |-> TRUE]

Moved(c, i, state) == [c EXCEPT !.call[i] = state]
Emitted(c, event)  == [c EXCEPT !.stream = IF c.listening THEN Append(@, event) ELSE @]

\* An event of the conversation precedes Closed; stderr may follow it.
CanEmit(c, event) == c.listening /\ (event = Stderr \/ ~c.over)
CanAnswer(c, i) == c.call[i] = "open" /\ ~c.over
CanFail(c, i)   == c.call[i] \in {"open", "answered"}
CanReturn(c, i) == c.call[i] = "answered"

Ended(c) == Emitted([c EXCEPT !.over = TRUE], Closed)
Left(c)  == [c EXCEPT !.listening = FALSE, !.stream = <<>>]
Taken(c) == IF Head(c.stream) = Closed THEN Left(c) ELSE [c EXCEPT !.stream = Tail(@)]

Begin(i)  == ch.call[i] = "new" /\ (ch' = Moved(ch, i, "open") \/ ch' = Moved(ch, i, "failed"))
Answer(i) == CanAnswer(ch, i) /\ ch' = Moved(ch, i, "answered")
Return(i) == CanReturn(ch, i) /\ ch' = Moved(ch, i, "ok")
Fail(i)   == CanFail(ch, i) /\ ch' = Moved(ch, i, "failed")
Emit(event) == CanEmit(ch, event) /\ ch' = Emitted(ch, event)
Close == ~ch.over /\ ch' = Ended(ch)
Take  == ch.listening /\ ch.stream # <<>> /\ ch' = Taken(ch)
Leave == ch.listening /\ ch' = Left(ch)

Init == ch = Opened
Next ==
    \/ \E i \in Requests : Begin(i) \/ Answer(i) \/ Return(i) \/ Fail(i)
    \/ \E event \in {Update, Stderr} \cup [kind : {"ask"}, id : Asks] : Emit(event)
    \/ Close \/ Take \/ Leave

Spec == Init /\ [][Next]_ch

\* A closed channel ends every call; an announced end is the last thing left to take.
FairSpec == Spec /\ \A i \in Requests : WF_ch(ch.over /\ (Return(i) \/ Fail(i)))
====
