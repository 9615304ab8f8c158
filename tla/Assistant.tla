----------------------------- MODULE Assistant -----------------------------
(***************************************************************************)
(* One chat with the shopping assistant: the agent's bounded loop of model *)
(* turns and tool calls, and the goroutine that pumps each turn of the     *)
(* provider's stream into a channel (internal/ai, internal/ai/tools).      *)
(*                                                                         *)
(* Agent and pump meet at an unbuffered channel: a delivery is a step of   *)
(* both.  The shopper may leave at any moment, which cancels the context   *)
(* both of them run under: a send may then bail out or still be received,  *)
(* and a read of the provider's stream may fail or still yield.            *)
(*                                                                         *)
(* Abstractions.  A text is told by its presence, a tool call by its       *)
(* place in the chat and its tool.  What a tool answers is one of the      *)
(* kinds of result it has; tools only read the shop.                       *)
(***************************************************************************)
EXTENDS Naturals, Sequences

CONSTANTS
  maxToolIters, \* turns of the model in one chat
  Asked,        \* names of tools the model asks for, registered or not
  MaxDeltas,    \* bound on the pieces of text of a turn
  MaxCalls      \* bound on the tool calls of a turn

ASSUME Bounds == {maxToolIters, MaxDeltas, MaxCalls} \subseteq Nat

VARIABLES
  pc,         \* what the agent does next
  iter,       \* turns answered so far
  transcript, \* the messages of the chat
  turn,       \* what the agent has received of the turn: [calls, stop]
  results,    \* what the tools of the turn have answered so far
  events,     \* what was emitted to the shopper
  pump,       \* the goroutine of the turn: read, send, flush or closed
  outbox,     \* what it has to send
  deltas,     \* pieces of text it has sent
  err,        \* whether it has recorded an error
  gone,       \* whether the context is cancelled
  meant       \* history: the calls of the turns the model has finished

vars == <<pc, iter, transcript, turn, results, events, pump, outbox, deltas,
          err, gone, meant>>

pumpSide == <<pump, outbox, deltas, err, meant>>
agentSide == <<pc, iter, transcript, turn, results, events>>

Stops == {"tool_use", "end_turn", "max_tokens", ""}

NoTurn == [calls |-> <<>>, stop |-> ""]

Assistant(calls) == [role |-> "assistant", blocks |-> calls]
User(blocks)     == [role |-> "user", blocks |-> blocks]

Text     == [kind |-> "text"]
ToolUse(call) == [kind |-> "tool_use", call |-> call]
EndOf(stop)   == [kind |-> "end", stop |-> stop]

Emit(e) == events' = events \o e

(***************************************************************************)
(* Tools                                                                   *)
(***************************************************************************)

searchCatalogTool     == {"ok", "error"}
checkVariantStockTool == {"ok", "error"}
\* A missing order and one of another shopper get one and the same answer.
getMyOrderStatusTool  == {"ok", "not found", "error"}

handlers == [search_catalog      |-> searchCatalogTool,
             check_variant_stock |-> checkVariantStockTool,
             get_my_order_status |-> getMyOrderStatusTool]

\* What running a tool by its name may answer.
Execute(name) == IF name \in DOMAIN handlers THEN handlers[name] ELSE {"error"}

(***************************************************************************)
(* The request                                                             *)
(***************************************************************************)

Init ==
  /\ pc = "arrive" /\ iter = 0
  /\ transcript = <<>> /\ turn = NoTurn /\ results = <<>> /\ events = <<>>
  /\ pump = "closed" /\ outbox = <<>> /\ deltas = 0 /\ err = FALSE
  /\ gone = FALSE /\ meant = <<>>

\* The gate, the identity, the body or the connection is not as it should be.
Refuse ==
  /\ pc = "arrive"
  /\ pc' = "done"
  /\ UNCHANGED <<iter, transcript, turn, results, events, gone>>
  /\ UNCHANGED pumpSide

ServeHTTP ==
  /\ pc = "arrive"
  /\ transcript' = <<User(<<>>)>>
  /\ pc' = "request"
  /\ UNCHANGED <<iter, turn, results, events, gone>>
  /\ UNCHANGED pumpSide

(***************************************************************************)
(* The pump                                                                *)
(***************************************************************************)

\* One piece of text.
SdkText ==
  /\ pump = "read" /\ deltas < MaxDeltas
  /\ outbox' = <<Text>>
  /\ deltas' = deltas + 1
  /\ pump' = "send"
  /\ UNCHANGED <<err, gone, meant>> /\ UNCHANGED agentSide

\* The calls of turn number i, one for each name asked for.
CallsNamed(i, names) ==
  [n \in DOMAIN names |-> [id |-> <<i, n>>, tool |-> names[n]]]

\* The turn is complete: its calls and the end are to be sent.
SdkEnds(names, stop) ==
  /\ pump = "read"
  /\ LET calls == CallsNamed(iter, names)
     IN  /\ outbox' = [n \in DOMAIN calls |-> ToolUse(calls[n])] \o <<EndOf(stop)>>
         /\ meant' = Append(meant, calls)
  /\ pump' = "flush"
  /\ UNCHANGED <<deltas, err, gone>> /\ UNCHANGED agentSide

\* The stream of the provider breaks.
SdkFails ==
  /\ pump = "read"
  /\ err' = TRUE
  /\ pump' = "closed"
  /\ UNCHANGED <<outbox, deltas, gone, meant>> /\ UNCHANGED agentSide

\* It returns without closing: a faulty variant of the next definition.
Abandon == pump' = "stopped" /\ outbox' = <<>>

\* The pump returns; its first defer closes the channel.
Close == pump' = "closed" /\ outbox' = <<>>

\* send gives up, and so does the pump, without an error.
Bail ==
  /\ pump \in {"send", "flush"} /\ gone
  /\ Close
  /\ UNCHANGED <<deltas, err, gone, meant>> /\ UNCHANGED agentSide

\* What the agent makes of an event.
Received(e) ==
  CASE e.kind = "text"     -> Emit(<<"text">>) /\ UNCHANGED turn
    [] e.kind = "tool_use" -> /\ turn' = [turn EXCEPT !.calls = Append(@, e.call)]
                              /\ UNCHANGED events
    [] e.kind = "end"      -> /\ turn' = [turn EXCEPT !.stop = e.stop]
                              /\ UNCHANGED events

\* An event passes through the channel.
Deliver ==
  /\ pump \in {"send", "flush"} /\ pc = "receive"
  /\ Received(Head(outbox))
  /\ outbox' = Tail(outbox)
  /\ pump' = IF pump = "send" THEN "read"
             ELSE IF Tail(outbox) = <<>> THEN "closed" ELSE "flush"
  /\ UNCHANGED <<pc, iter, transcript, results, deltas, err, gone, meant>>

(***************************************************************************)
(* The agent                                                               *)
(***************************************************************************)

\* Stream starts the pump of a new turn.
Stream ==
  /\ pc = "request" /\ iter < maxToolIters
  /\ pump' = "read" /\ outbox' = <<>> /\ deltas' = 0 /\ err' = FALSE
  /\ turn' = NoTurn
  /\ pc' = "receive"
  /\ UNCHANGED <<iter, transcript, results, events, gone, meant>>

\* The loop has reached its ceiling.
Fallback ==
  /\ pc = "request" /\ iter = maxToolIters
  /\ Emit(<<"text", "done">>)
  /\ pc' = "done"
  /\ UNCHANGED <<iter, transcript, turn, results, gone>> /\ UNCHANGED pumpSide

\* Any calls received are run: a faulty variant of the next definition.
WantsAny == turn.calls # <<>>

WantsTools == turn.stop = "tool_use" /\ turn.calls # <<>>

Drained == pc = "receive" /\ pump = "closed"

TurnFails ==
  /\ Drained /\ err
  /\ Emit(<<"error">>)
  /\ pc' = "done"
  /\ UNCHANGED <<iter, transcript, turn, results, gone>> /\ UNCHANGED pumpSide

\* The error is not asked for: a faulty variant of the next definition.
FinalWhateverHappened == ~WantsTools

Final == ~err /\ ~WantsTools

\* The model's last word.
Answer ==
  /\ Drained /\ Final
  /\ Emit(<<"done">>)
  /\ pc' = "done"
  /\ UNCHANGED <<iter, transcript, turn, results, gone>> /\ UNCHANGED pumpSide

\* assistantTurn
TakeTurn ==
  /\ Drained /\ ~err /\ WantsTools
  /\ transcript' = Append(transcript, Assistant(turn.calls))
  /\ results' = <<>>
  /\ pc' = "tools"
  /\ UNCHANGED <<iter, turn, events, gone>> /\ UNCHANGED pumpSide

\* executeTools, one call after the other.
RunTool ==
  /\ pc = "tools" /\ Len(results) < Len(turn.calls)
  /\ LET call == turn.calls[Len(results) + 1]
     IN  \E answer \in Execute(call.tool) :
           results' = Append(results, [id |-> call.id, answer |-> answer])
  /\ Emit(<<"tool_call">>)
  /\ UNCHANGED <<pc, iter, transcript, turn, gone>> /\ UNCHANGED pumpSide

\* All results go back in one message.
FeedBack ==
  /\ pc = "tools" /\ Len(results) = Len(turn.calls)
  /\ transcript' = Append(transcript, User(results))
  /\ iter' = iter + 1
  /\ pc' = "request"
  /\ UNCHANGED <<turn, results, events, gone>> /\ UNCHANGED pumpSide

\* The shopper closes the connection.
Disconnect ==
  /\ ~gone /\ pc # "done"
  /\ gone' = TRUE
  /\ UNCHANGED agentSide /\ UNCHANGED pumpSide

Agent ==
  \/ Refuse \/ ServeHTTP \/ Stream \/ Fallback
  \/ TurnFails \/ Answer \/ TakeTurn \/ RunTool \/ FeedBack

NamesAsked == UNION {[1..n -> Asked] : n \in 0..MaxCalls}

Sdk ==
  \/ SdkText \/ SdkFails
  \/ \E names \in NamesAsked, stop \in Stops : SdkEnds(names, stop)

Next == Agent \/ Sdk \/ Bail \/ Deliver \/ Disconnect

\* Both goroutines run, and the provider yields, ends or fails in the end.
Fairness == WF_vars(Agent) /\ WF_vars(Deliver) /\ WF_vars(Sdk)

Spec == Init /\ [][Next]_vars /\ Fairness

(***************************************************************************)
(* Properties                                                              *)
(***************************************************************************)

\* What the model is sent again is what it said: every assistant message holds
\* all calls of a turn the model finished, although the shopper may leave while
\* they are being sent, and the message after it answers each of them, in their
\* order, a tool that does not exist with an error.
TranscriptPairs ==
  \A i \in DOMAIN transcript :
    /\ transcript[i].role = IF i % 2 = 1 THEN "user" ELSE "assistant"
    /\ i % 2 = 0 => transcript[i].blocks = meant[i \div 2]
    /\ i % 2 = 1 /\ i > 1 =>
         LET calls   == transcript[i - 1].blocks
             answers == transcript[i].blocks
         IN  /\ DOMAIN answers = DOMAIN calls
             /\ \A n \in DOMAIN calls :
                  /\ answers[n].id = calls[n].id
                  /\ calls[n].tool \notin DOMAIN handlers
                       => answers[n].answer = "error"

\* "done" follows a turn that arrived whole, or the ceiling; only a shopper who
\* has left gets it for a turn that was cut off.  An error is never followed or
\* preceded by it.
DoneIsClean ==
  \A i \in DOMAIN events :
    /\ events[i] \in {"done", "error"} => i = Len(events)
    /\ events[i] = "done" =>
         \/ gone
         \/ iter = maxToolIters
         \/ Len(meant) = iter + 1 /\ turn.calls = meant[iter + 1]

\* Every chat ends, with the pump of its last turn gone: no goroutine waits for
\* another, whenever the shopper leaves.
ChatEnds == <>[](pc = "done" /\ pump = "closed")
=============================================================================
