-------------------------- MODULE AssistantProofs --------------------------
(***************************************************************************)
(* Proofs about Assistant, for any tools, ceiling and bounds.              *)
(*                                                                         *)
(* The invariant says what each side of the channel holds of a turn: while *)
(* the pump flushes, the calls received followed by those in the outbox    *)
(* are the calls the model meant, and the end comes last.  So a stop can   *)
(* only be received after the last call, and whoever leaves meanwhile      *)
(* leaves a turn without a stop, which is never taken over.                *)
(***************************************************************************)
EXTENDS Assistant, SequenceTheorems, TLAPS

(***************************************************************************)
(* The inductive invariant                                                 *)
(***************************************************************************)

\* The values the variables range over.
Calls   == [id : Nat \X Nat, tool : Asked]
Answers == [id : Nat \X Nat, answer : {"ok", "not found", "error"}]
Events  == {Text} \cup {ToolUse(c) : c \in Calls}
                  \cup {EndOf(s) : s \in Stops}
Messages == [role : {"user", "assistant"},
             blocks : Seq(Calls) \cup Seq(Answers)]

\* Every variable has values of its type.
TypeOK ==
  /\ pc \in {"arrive", "request", "receive", "tools", "done"}
  /\ iter \in 0 .. maxToolIters
  /\ transcript \in Seq(Messages)
  /\ turn \in [calls : Seq(Calls), stop : Stops]
  /\ results \in Seq(Answers)
  /\ events \in Seq({"text", "tool_call", "done", "error"})
  /\ pump \in {"read", "send", "flush", "closed"}
  /\ outbox \in Seq(Events)
  /\ deltas \in 0 .. MaxDeltas
  /\ err \in BOOLEAN
  /\ gone \in BOOLEAN
  /\ meant \in Seq(Seq(Calls))

\* The agent has received the whole turn.
Whole == Len(meant) = iter + 1 /\ turn.calls = meant[iter + 1]

\* The pump runs only while the agent receives, and what the model has finished
\* is counted once.
PumpInStep ==
  /\ pc # "receive" => pump = "closed"
  /\ pc \in {"arrive", "request"} => Len(meant) = iter
  /\ pc = "arrive" => iter = 0
  /\ pc = "receive" => iter < maxToolIters
  /\ pc = "tools" => Whole /\ iter < maxToolIters
  /\ pump \in {"read", "send"} => Len(meant) = iter /\ turn = NoTurn
  /\ pump = "send" => outbox = <<Text>>
  /\ pump = "flush" => Len(meant) = iter + 1

\* While a turn is flushed, the calls received and the calls in the outbox are
\* those of the turn, in order, and its end comes last.
Flushing ==
  pump = "flush" =>
    LET k     == Len(turn.calls)
        calls == meant[iter + 1]
    IN  /\ turn.stop = ""
        /\ Len(outbox) = Len(calls) - k + 1 /\ k <= Len(calls)
        /\ \A n \in 1 .. k : turn.calls[n] = calls[n]
        /\ \A n \in 1 .. Len(calls) - k : outbox[n] = ToolUse(calls[k + n])
        /\ outbox[Len(outbox)].kind = "end"

\* A turn that ended is whole; one that did not was cut off by an error or by
\* a shopper who left.
EndedWhole ==
  pc = "receive" /\ pump = "closed" =>
    /\ turn.stop # "" => Whole
    /\ err \/ gone \/ Whole

\* How far the transcript is.
TranscriptLength ==
  /\ pc = "arrive" => transcript = <<>>
  /\ pc \in {"request", "receive"} => Len(transcript) = 2 * iter + 1
  /\ pc = "tools" => /\ Len(transcript) = 2 * iter + 2
                     /\ transcript[2 * iter + 2] = Assistant(turn.calls)

\* Answers so far.
AnswersSoFar ==
  pc = "tools" =>
    /\ Len(results) <= Len(turn.calls)
    /\ \A n \in 1 .. Len(results) :
         /\ results[n].id = turn.calls[n].id
         /\ turn.calls[n].tool \notin DOMAIN handlers
              => results[n].answer = "error"

\* No end before the end.
NotOver ==
  pc # "done" => \A i \in DOMAIN events : events[i] \in {"text", "tool_call"}

IInv ==
  /\ TypeOK /\ PumpInStep /\ Flushing /\ EndedWhole
  /\ TranscriptLength /\ AnswersSoFar /\ NotOver
  /\ TranscriptPairs /\ DoneIsClean

(***************************************************************************)
(* The transcript, message by message                                      *)
(***************************************************************************)

\* What TranscriptPairs says of message i.
Fits(i) ==
  /\ transcript[i].role = IF i % 2 = 1 THEN "user" ELSE "assistant"
  /\ i % 2 = 0 => transcript[i].blocks = meant[i \div 2]
  /\ i % 2 = 1 /\ i > 1 =>
       LET calls   == transcript[i - 1].blocks
           answers == transcript[i].blocks
       IN  /\ DOMAIN answers = DOMAIN calls
           /\ \A n \in DOMAIN calls :
                /\ answers[n].id = calls[n].id
                /\ calls[n].tool \notin DOMAIN handlers
                     => answers[n].answer = "error"

\* TranscriptPairs is about each message.
LEMMA PairsFit == TranscriptPairs <=> \A i \in DOMAIN transcript : Fits(i)
  BY DEF TranscriptPairs, Fits

\* A message that stays, beside one that stays, fits as before.
LEMMA FitKept ==
  ASSUME NEW i \in Nat, Fits(i), transcript'[i] = transcript[i],
         i > 1 => transcript'[i - 1] = transcript[i - 1],
         i % 2 = 0 => meant'[i \div 2] = meant[i \div 2]
  PROVE  Fits(i)'
  BY DEF Fits

\* The transcript stays, or gets one message that fits.
LEMMA PairsKept ==
  ASSUME IInv, UNCHANGED meant,
         \/ UNCHANGED transcript
         \/ \E m \in Messages, i \in Nat :
              /\ transcript' = Append(transcript, m)
              /\ i = Len(transcript) + 1 /\ Fits(i)'
  PROVE  TranscriptPairs'
<1>1. CASE UNCHANGED transcript
  BY <1>1 DEF IInv, TranscriptPairs
<1>2. ASSUME NEW m \in Messages, transcript' = Append(transcript, m),
             NEW last \in Nat, last = Len(transcript) + 1, Fits(last)'
      PROVE  TranscriptPairs'
  <2>1. /\ DOMAIN transcript = 1 .. Len(transcript) /\ Len(transcript) \in Nat
        /\ DOMAIN transcript' = 1 .. Len(transcript) + 1
        /\ \A i \in 1 .. Len(transcript) : transcript'[i] = transcript[i]
    BY <1>2, AppendProperties, LenProperties DEF IInv, TypeOK
  <2>2. ASSUME NEW i \in 1 .. Len(transcript) PROVE Fits(i)'
    <3>1. Fits(i) /\ i \in Nat
      BY <2>1, PairsFit DEF IInv
    <3>. QED
      BY <2>1, <3>1, FitKept
  <2>3. \A i \in DOMAIN transcript' : Fits(i)'
    <3>. SUFFICES ASSUME NEW i \in 1 .. Len(transcript) + 1 PROVE Fits(i)'
      BY <2>1
    <3>1. CASE i \in 1 .. Len(transcript)
      BY <2>2, <3>1
    <3>2. CASE i = Len(transcript) + 1
      <4>1. i = last
        BY <1>2, <3>2
      <4>. QED
        BY <1>2, <4>1
    <3>. QED
      BY <2>1, <3>1, <3>2
  <2>. QED
    BY <2>3 DEF TranscriptPairs, Fits
<1>. QED
  BY <1>1, <1>2

\* Before the end the shopper has got neither "done" nor an error.
LEMMA CleanKept ==
  ASSUME NotOver', pc' # "done"
  PROVE  DoneIsClean'
  BY DEF NotOver, DoneIsClean

\* The events grow.
LEMMA EventsGrow ==
  ASSUME IInv, NEW e \in Seq({"text", "tool_call", "done", "error"}), Emit(e)
  PROVE  /\ events' \in Seq({"text", "tool_call", "done", "error"})
         /\ Len(events') = Len(events) + Len(e) /\ Len(events) \in Nat
         /\ DOMAIN events = 1 .. Len(events)
         /\ DOMAIN events' = 1 .. Len(events')
         /\ \A i \in 1 .. Len(events') :
              events'[i] = IF i <= Len(events) THEN events[i]
                                               ELSE e[i - Len(events)]
  BY ConcatProperties, LenProperties DEF IInv, TypeOK, Emit

\* One more event that ends nothing.
LEMMA NotOverKept ==
  ASSUME IInv, pc # "done", NEW w \in {"text", "tool_call"}, Emit(<<w>>)
  PROVE  /\ events' \in Seq({"text", "tool_call", "done", "error"})
         /\ \A i \in DOMAIN events' : events'[i] \in {"text", "tool_call"}
<1>1. <<w>> \in Seq({"text", "tool_call", "done", "error"}) /\ Len(<<w>>) = 1
      /\ <<w>>[1] = w
  OBVIOUS
<1>2. /\ events' \in Seq({"text", "tool_call", "done", "error"})
      /\ Len(events') = Len(events) + 1 /\ Len(events) \in Nat
      /\ DOMAIN events = 1 .. Len(events)
      /\ DOMAIN events' = 1 .. Len(events')
      /\ \A i \in 1 .. Len(events') :
           events'[i] = IF i <= Len(events) THEN events[i]
                                            ELSE <<w>>[i - Len(events)]
  BY <1>1, EventsGrow
<1>3. ASSUME NEW i \in 1 .. Len(events')
      PROVE  events'[i] \in {"text", "tool_call"}
  <2>1. CASE i <= Len(events)
    <3>1. i \in DOMAIN events /\ events'[i] = events[i]
      BY <1>2, <2>1
    <3>. QED
      BY <3>1 DEF IInv, NotOver
  <2>2. CASE i = Len(events) + 1
    <3>1. i - Len(events) = 1 /\ ~(i <= Len(events))
      BY <1>2, <2>2
    <3>2. events'[i] = <<w>>[1]
      BY <1>2, <3>1
    <3>. QED
      BY <1>1, <3>2
  <2>. QED
    BY <1>2, <2>1, <2>2
<1>. QED
  BY <1>2, <1>3

\* The last event, with or without a text before it.
LEMMA EndsClean ==
  ASSUME IInv, pc # "done", NEW last \in {"done", "error"},
         Emit(<<last>>) \/ Emit(<<"text", last>>),
         UNCHANGED <<iter, turn, meant, gone>>,
         last = "error" \/ gone \/ iter = maxToolIters \/ Whole
  PROVE  /\ events' \in Seq({"text", "tool_call", "done", "error"})
         /\ DoneIsClean'
<1>1. ASSUME NEW e \in Seq({"text", "tool_call", "done", "error"}), Emit(e),
             Len(e) \in {1, 2}, e[Len(e)] = last, Len(e) = 2 => e[1] = "text"
      PROVE  /\ events' \in Seq({"text", "tool_call", "done", "error"})
             /\ DoneIsClean'
  <2>1. /\ events' \in Seq({"text", "tool_call", "done", "error"})
        /\ Len(events') = Len(events) + Len(e) /\ Len(events) \in Nat
        /\ DOMAIN events = 1 .. Len(events)
        /\ DOMAIN events' = 1 .. Len(events')
        /\ \A i \in 1 .. Len(events') :
             events'[i] = IF i <= Len(events) THEN events[i]
                                              ELSE e[i - Len(events)]
    BY <1>1, EventsGrow
  <2>2. \A i \in 1 .. Len(events') :
          IF i = Len(events') THEN events'[i] = last
                              ELSE events'[i] \in {"text", "tool_call"}
    <3>. SUFFICES ASSUME NEW i \in 1 .. Len(events')
                  PROVE  IF i = Len(events')
                           THEN events'[i] = last
                           ELSE events'[i] \in {"text", "tool_call"}
      OBVIOUS
    <3>1. CASE i <= Len(events)
      <4>1. i \in DOMAIN events /\ events'[i] = events[i]
        BY <2>1, <3>1
      <4>2. events[i] \in {"text", "tool_call"}
        BY <4>1 DEF IInv, NotOver
      <4>3. i # Len(events')
        <5>1. Len(e) = 1 \/ Len(e) = 2
          BY <1>1
        <5>2. Len(events') = Len(events) + Len(e) /\ Len(events) \in Nat
          BY <2>1
        <5>3. i \in Int /\ i <= Len(events)
          BY <3>1
        <5>. QED
          BY ONLY <5>1, <5>2, <5>3
      <4>. QED
        BY <4>1, <4>2, <4>3
    <3>2. CASE i > Len(events)
      <4>1. i - Len(events) \in 1 .. Len(e) /\ events'[i] = e[i - Len(events)]
        BY <1>1, <2>1, <3>2
      <4>. QED
        BY <1>1, <2>1, <4>1
    <3>. QED
      BY <2>1, <3>1, <3>2
  <2>. QED
    BY <2>1, <2>2 DEF DoneIsClean, Whole
<1>2. /\ <<last>> \in Seq({"text", "tool_call", "done", "error"})
      /\ Len(<<last>>) = 1 /\ <<last>>[1] = last
      /\ <<"text", last>> \in Seq({"text", "tool_call", "done", "error"})
      /\ Len(<<"text", last>>) = 2
      /\ <<"text", last>>[1] = "text" /\ <<"text", last>>[2] = last
  OBVIOUS
<1>3. CASE Emit(<<last>>)
  BY <1>1, <1>2, <1>3
<1>4. CASE Emit(<<"text", last>>)
  BY <1>1, <1>2, <1>4
<1>. QED
  BY <1>3, <1>4

(***************************************************************************)
(* Every step keeps it                                                     *)
(***************************************************************************)

\* Nothing received yet.
LEMMA NoTurnIs ==
  /\ NoTurn \in [calls : Seq(Calls), stop : Stops]
  /\ NoTurn.calls = <<>> /\ NoTurn.stop = ""
<1>1. <<>> \in Seq(Calls) /\ "" \in Stops
  BY DEF Stops
<1>. QED
  BY <1>1 DEF NoTurn

\* It holds when the request arrives.
LEMMA InitInv == Init => IInv
<1>. SUFFICES ASSUME Init PROVE IInv
  OBVIOUS
<1>1. TypeOK
  <2>1. 0 \in 0 .. maxToolIters /\ 0 \in 0 .. MaxDeltas
    BY Bounds
  <2>2. /\ <<>> \in Seq(Events) /\ <<>> \in Seq(Messages)
        /\ <<>> \in Seq(Seq(Calls)) /\ <<>> \in Seq(Answers)
        /\ <<>> \in Seq({"text", "tool_call", "done", "error"})
    OBVIOUS
  <2>. QED
    BY <2>1, <2>2, NoTurnIs DEF Init, TypeOK
<1>2. /\ PumpInStep /\ Flushing /\ EndedWhole
      /\ TranscriptLength /\ AnswersSoFar
  BY DEF Init, PumpInStep, Flushing, EndedWhole, TranscriptLength, AnswersSoFar
<1>3. NotOver /\ TranscriptPairs /\ DoneIsClean
  BY DEF Init, NotOver, TranscriptPairs, DoneIsClean
<1>. QED
  BY <1>1, <1>2, <1>3 DEF IInv

\* A request that is refused leaves everything as it is.
LEMMA RefuseKeeps == IInv /\ Refuse => IInv'
<1>. SUFFICES ASSUME IInv, Refuse PROVE IInv'
  OBVIOUS
<1>1. TypeOK'
  BY DEF IInv, TypeOK, Refuse, pumpSide
<1>2. /\ PumpInStep' /\ Flushing' /\ EndedWhole'
      /\ TranscriptLength' /\ AnswersSoFar' /\ NotOver'
  BY DEF IInv, Refuse, pumpSide, PumpInStep, Flushing, EndedWhole,
         TranscriptLength, AnswersSoFar, NotOver
<1>3. TranscriptPairs'
  BY PairsKept DEF Refuse, pumpSide
<1>4. DoneIsClean'
  BY DEF IInv, DoneIsClean, Refuse, pumpSide
<1>. QED
  BY <1>1, <1>2, <1>3, <1>4 DEF IInv

\* The chat begins with what the shopper said.
LEMMA ServeKeeps == IInv /\ ServeHTTP => IInv'
<1>. SUFFICES ASSUME IInv, ServeHTTP PROVE IInv'
  OBVIOUS
<1>1. /\ transcript' = <<User(<<>>)>> /\ User(<<>>) \in Messages
      /\ User(<<>>).role = "user"
  BY DEF ServeHTTP, User, Messages
<1>2. /\ transcript' \in Seq(Messages) /\ Len(transcript') = 1
      /\ DOMAIN transcript' = {1} /\ transcript'[1].role = "user"
  BY <1>1
<1>3. TypeOK'
  BY <1>2 DEF IInv, TypeOK, ServeHTTP, pumpSide
<1>4. PumpInStep' /\ Flushing' /\ EndedWhole' /\ AnswersSoFar' /\ NotOver'
  BY DEF IInv, ServeHTTP, pumpSide, PumpInStep, Flushing, EndedWhole,
         AnswersSoFar, NotOver
<1>5. TranscriptLength'
  BY <1>2 DEF IInv, PumpInStep, ServeHTTP, TranscriptLength
<1>6. TranscriptPairs'
  BY <1>2 DEF TranscriptPairs
<1>7. DoneIsClean'
  BY <1>4, CleanKept DEF ServeHTTP
<1>. QED
  BY <1>3, <1>4, <1>5, <1>6, <1>7 DEF IInv

\* A piece of text is read.
LEMMA TextKeeps == IInv /\ SdkText => IInv'
<1>. SUFFICES ASSUME IInv, SdkText PROVE IInv'
  OBVIOUS
<1>1. pc = "receive" /\ pc' = "receive"
  BY DEF IInv, PumpInStep, SdkText, agentSide
<1>2. TypeOK'
  BY Bounds DEF IInv, TypeOK, SdkText, agentSide, Events, Text
<1>3. PumpInStep' /\ Flushing' /\ EndedWhole'
  BY <1>1 DEF IInv, SdkText, agentSide, PumpInStep, Flushing, EndedWhole
<1>4. TranscriptLength' /\ AnswersSoFar' /\ NotOver'
  BY <1>1 DEF IInv, SdkText, agentSide, TranscriptLength, AnswersSoFar, NotOver
<1>5. TranscriptPairs'
  BY PairsKept DEF SdkText, agentSide
<1>6. DoneIsClean'
  BY <1>1, <1>4, CleanKept
<1>. QED
  BY <1>2, <1>3, <1>4, <1>5, <1>6 DEF IInv

\* The stream breaks.
LEMMA FailsKeeps == IInv /\ SdkFails => IInv'
<1>. SUFFICES ASSUME IInv, SdkFails PROVE IInv'
  OBVIOUS
<1>1. pc = "receive" /\ pc' = "receive"
  BY DEF IInv, PumpInStep, SdkFails, agentSide
<1>2. TypeOK'
  BY DEF IInv, TypeOK, SdkFails, agentSide
<1>3. PumpInStep' /\ Flushing' /\ EndedWhole'
  BY <1>1, NoTurnIs DEF IInv, SdkFails, agentSide, PumpInStep, Flushing,
                        EndedWhole
<1>4. TranscriptLength' /\ AnswersSoFar' /\ NotOver'
  BY <1>1 DEF IInv, SdkFails, agentSide, TranscriptLength, AnswersSoFar, NotOver
<1>5. TranscriptPairs'
  BY PairsKept DEF SdkFails, agentSide
<1>6. DoneIsClean'
  BY <1>1, <1>4, CleanKept
<1>. QED
  BY <1>2, <1>3, <1>4, <1>5, <1>6 DEF IInv

\* The pump gives up on a shopper who has left.
LEMMA BailKeeps == IInv /\ Bail => IInv'
<1>. SUFFICES ASSUME IInv, Bail PROVE IInv'
  OBVIOUS
<1>1. pc = "receive" /\ pc' = "receive" /\ gone'
  BY DEF IInv, PumpInStep, Bail, Close, agentSide
<1>2. TypeOK'
  BY DEF IInv, TypeOK, Bail, Close, agentSide
<1>3. PumpInStep' /\ Flushing'
  BY <1>1 DEF IInv, Bail, Close, agentSide, PumpInStep, Flushing
<1>4. turn.stop = ""
  <2>1. CASE pump = "send"
    BY <2>1, NoTurnIs DEF IInv, PumpInStep
  <2>2. CASE pump = "flush"
    BY <2>2 DEF IInv, Flushing
  <2>. QED
    BY <2>1, <2>2 DEF Bail
<1>5. EndedWhole'
  BY <1>1, <1>4 DEF EndedWhole, Bail, agentSide
<1>6. TranscriptLength' /\ AnswersSoFar' /\ NotOver'
  BY <1>1 DEF IInv, Bail, agentSide, TranscriptLength, AnswersSoFar, NotOver
<1>7. TranscriptPairs'
  BY PairsKept DEF Bail, agentSide
<1>8. DoneIsClean'
  BY <1>1, <1>6, CleanKept
<1>. QED
  BY <1>2, <1>3, <1>5, <1>6, <1>7, <1>8 DEF IInv

\* A new turn begins.
LEMMA StreamKeeps == IInv /\ Stream => IInv'
<1>. SUFFICES ASSUME IInv, Stream PROVE IInv'
  OBVIOUS
<1>1. TypeOK'
  <2>1. 0 \in 0 .. MaxDeltas /\ <<>> \in Seq(Events)
    BY Bounds
  <2>. QED
    BY <2>1, NoTurnIs DEF IInv, TypeOK, Stream
<1>2. PumpInStep' /\ Flushing' /\ EndedWhole'
  BY DEF IInv, Stream, PumpInStep, Flushing, EndedWhole
<1>3. TranscriptLength' /\ AnswersSoFar' /\ NotOver'
  BY DEF IInv, Stream, TranscriptLength, AnswersSoFar, NotOver
<1>4. TranscriptPairs'
  BY PairsKept DEF Stream
<1>5. DoneIsClean'
  BY <1>3, CleanKept DEF Stream
<1>. QED
  BY <1>1, <1>2, <1>3, <1>4, <1>5 DEF IInv

\* The last step of the agent: the shopper gets the last event.
LEMMA EndKeeps ==
  ASSUME IInv, pc # "done", pump = "closed", NEW last \in {"done", "error"},
         Emit(<<last>>) \/ Emit(<<"text", last>>), pc' = "done",
         UNCHANGED <<iter, transcript, turn, results, gone>>,
         UNCHANGED pumpSide,
         last = "error" \/ gone \/ iter = maxToolIters \/ Whole
  PROVE  IInv'
<1>1. /\ events' \in Seq({"text", "tool_call", "done", "error"})
      /\ DoneIsClean'
  BY EndsClean DEF pumpSide
<1>2. TypeOK'
  BY <1>1 DEF IInv, TypeOK, pumpSide
<1>3. /\ PumpInStep' /\ Flushing' /\ EndedWhole'
      /\ TranscriptLength' /\ AnswersSoFar' /\ NotOver'
  BY DEF IInv, pumpSide, PumpInStep, Flushing, EndedWhole,
         TranscriptLength, AnswersSoFar, NotOver
<1>4. TranscriptPairs'
  BY PairsKept DEF pumpSide
<1>. QED
  BY <1>1, <1>2, <1>3, <1>4 DEF IInv

\* The ceiling, an error of the stream and a last word are such ends.
LEMMA FallbackKeeps == IInv /\ Fallback => IInv'
  BY EndKeeps DEF Fallback, IInv, PumpInStep

\* The stream has failed.
LEMMA TurnFailsKeeps == IInv /\ TurnFails => IInv'
  BY EndKeeps DEF TurnFails, Drained

\* The model has had its last word.
LEMMA AnswerKeeps == IInv /\ Answer => IInv'
  BY EndKeeps DEF Answer, Drained, Final, IInv, EndedWhole

\* The shopper leaves.
LEMMA DisconnectKeeps == IInv /\ Disconnect => IInv'
<1>. SUFFICES ASSUME IInv, Disconnect PROVE IInv'
  OBVIOUS
<1>1. TypeOK'
  BY DEF IInv, TypeOK, Disconnect, agentSide, pumpSide
<1>2. PumpInStep' /\ Flushing' /\ EndedWhole'
  BY DEF IInv, Disconnect, agentSide, pumpSide, PumpInStep, Flushing,
         EndedWhole, Whole
<1>3. TranscriptLength' /\ AnswersSoFar' /\ NotOver'
  BY DEF IInv, Disconnect, agentSide, pumpSide, TranscriptLength, AnswersSoFar,
         NotOver
<1>4. TranscriptPairs'
  BY PairsKept DEF Disconnect, agentSide, pumpSide
<1>5. DoneIsClean'
  BY <1>3, CleanKept DEF Disconnect, agentSide
<1>. QED
  BY <1>1, <1>2, <1>3, <1>4, <1>5 DEF IInv

\* The model has finished a turn: its calls and its end are in the outbox.
LEMMA EndsKeeps ==
  ASSUME IInv, NEW names \in NamesAsked, NEW stop \in Stops,
         SdkEnds(names, stop)
  PROVE  IInv'
<1>1. PICK n \in 0 .. MaxCalls : names \in [1 .. n -> Asked]
  BY DEF NamesAsked
<1>2. /\ pc = "receive" /\ pc' = "receive" /\ iter \in Nat /\ iter' = iter
      /\ Len(meant) = iter /\ turn = NoTurn /\ turn' = turn
  BY Bounds DEF IInv, TypeOK, PumpInStep, SdkEnds, agentSide
<1>3. n \in Nat
  BY <1>1, Bounds
<1>4. PICK calls : calls = CallsNamed(iter, names)
  OBVIOUS
<1>5. calls = [j \in 1 .. n |-> [id |-> <<iter, j>>, tool |-> names[j]]]
  BY <1>1, <1>4 DEF CallsNamed
<1>6. calls \in Seq(Calls) /\ Len(calls) = n /\ DOMAIN calls = 1 .. n
  <2>1. \A j \in 1 .. n : [id |-> <<iter, j>>, tool |-> names[j]] \in Calls
    BY <1>1, <1>2, <1>3 DEF Calls
  <2>. QED
    BY <1>3, <1>5, <2>1
<1>7. PICK sent : sent = [j \in DOMAIN calls |-> ToolUse(calls[j])]
  OBVIOUS
<1>8. /\ sent \in Seq(Events) /\ Len(sent) = n
      /\ \A j \in 1 .. n : sent[j] = ToolUse(calls[j])
  <2>1. \A j \in 1 .. n : calls[j] \in Calls
    BY <1>3, <1>6
  <2>2. \A j \in 1 .. n : ToolUse(calls[j]) \in Events
    BY <2>1 DEF Events
  <2>. QED
    BY <1>3, <1>6, <1>7, <2>2
<1>9. /\ outbox' = sent \o <<EndOf(stop)>> /\ meant' = Append(meant, calls)
      /\ pump' = "flush"
  BY <1>4, <1>7 DEF SdkEnds
<1>10. /\ outbox' \in Seq(Events) /\ Len(outbox') = n + 1
       /\ \A j \in 1 .. n : outbox'[j] = ToolUse(calls[j])
       /\ outbox'[n + 1].kind = "end"
  <2>1. EndOf(stop) \in Events /\ EndOf(stop).kind = "end"
    BY DEF Events, EndOf
  <2>2. outbox' = Append(sent, EndOf(stop))
    BY <1>8, <1>9, AppendIsConcat
  <2>. HIDE DEF Events
  <2>. QED
    BY <1>3, <1>8, <2>1, <2>2, AppendProperties
<1>11. /\ meant' \in Seq(Seq(Calls)) /\ Len(meant') = iter + 1
       /\ meant'[iter + 1] = calls
       /\ \A j \in 1 .. iter : meant'[j] = meant[j]
  <2>1. meant \in Seq(Seq(Calls))
    BY DEF IInv, TypeOK
  <2>. HIDE DEF Calls
  <2>. QED
    BY <1>2, <1>6, <1>9, <2>1, AppendProperties
<1>12. TypeOK'
  BY <1>9, <1>10, <1>11 DEF IInv, TypeOK, SdkEnds, agentSide
<1>13. PumpInStep' /\ EndedWhole'
  BY <1>2, <1>9, <1>11 DEF IInv, PumpInStep, EndedWhole
<1>14. Flushing'
  <2>1. /\ turn'.calls = <<>> /\ turn'.stop = "" /\ Len(turn'.calls) = 0
        /\ meant'[iter' + 1] = calls
    BY <1>2, <1>11, NoTurnIs
  <2>2. /\ Len(outbox') = Len(calls) - 0 + 1 /\ 0 <= Len(calls)
        /\ \A j \in 1 .. Len(calls) - 0 : outbox'[j] = ToolUse(calls[0 + j])
        /\ outbox'[Len(outbox')].kind = "end"
        /\ \A j \in 1 .. 0 : turn'.calls[j] = calls[j]
    BY <1>3, <1>6, <1>10
  <2>3. PICK k : k = Len(turn'.calls)
    OBVIOUS
  <2>4. k = 0
    BY <2>1, <2>3
  <2>5. /\ Len(outbox') = Len(calls) - k + 1 /\ k <= Len(calls)
        /\ \A j \in 1 .. k : turn'.calls[j] = calls[j]
        /\ \A j \in 1 .. Len(calls) - k : outbox'[j] = ToolUse(calls[k + j])
        /\ outbox'[Len(outbox')].kind = "end"
    BY <2>2, <2>4
  <2>. QED
    BY <2>1, <2>3, <2>5 DEF Flushing
<1>15. TranscriptLength' /\ AnswersSoFar' /\ NotOver'
  BY <1>2 DEF IInv, SdkEnds, agentSide, TranscriptLength, AnswersSoFar, NotOver
<1>16. TranscriptPairs'
  <2>1. /\ transcript' = transcript /\ Len(transcript) = 2 * iter + 1
        /\ DOMAIN transcript = 1 .. 2 * iter + 1
    BY <1>2, LenProperties DEF SdkEnds, agentSide, IInv, TypeOK,
                               TranscriptLength
  <2>2. ASSUME NEW i \in 1 .. 2 * iter + 1 PROVE Fits(i)'
    <3>1. Fits(i) /\ i \in Nat
      BY <1>2, <2>1, <2>2, PairsFit DEF IInv
    <3>2. i % 2 = 0 => i \div 2 \in 1 .. iter
      BY <1>2, <2>2
    <3>. QED
      BY <1>11, <2>1, <3>1, <3>2, FitKept
  <2>. QED
    BY <2>1, <2>2 DEF TranscriptPairs, Fits
<1>17. DoneIsClean'
  BY <1>2, <1>15, CleanKept
<1>. QED
  BY <1>12, <1>13, <1>14, <1>15, <1>16, <1>17 DEF IInv

\* The agent takes over a turn with calls to run.
LEMMA TakeTurnKeeps == IInv /\ TakeTurn => IInv'
<1>. SUFFICES ASSUME IInv, TakeTurn PROVE IInv'
  OBVIOUS
<1>1. /\ pc = "receive" /\ pc' = "tools" /\ Whole /\ iter \in Nat
      /\ iter' = iter /\ iter < maxToolIters /\ pump = "closed"
      /\ turn' = turn /\ meant' = meant /\ pump' = "closed" /\ results' = <<>>
      /\ transcript' = Append(transcript, Assistant(turn.calls))
  BY Bounds DEF IInv, TypeOK, TakeTurn, Drained, WantsTools, EndedWhole,
                PumpInStep, pumpSide
<1>2. /\ Assistant(turn.calls) \in Messages
      /\ Assistant(turn.calls).role = "assistant"
      /\ Assistant(turn.calls).blocks = turn.calls
  BY DEF IInv, TypeOK, Assistant, Messages
<1>3. /\ transcript \in Seq(Messages) /\ Len(transcript) = 2 * iter + 1
  BY <1>1 DEF IInv, TypeOK, TranscriptLength
<1>4. /\ transcript' \in Seq(Messages) /\ Len(transcript') = 2 * iter + 2
      /\ transcript'[2 * iter + 2] = Assistant(turn.calls)
  <2>1. transcript' = Append(transcript, Assistant(turn.calls))
    BY <1>1
  <2>2. Assistant(turn.calls) \in Messages
    BY <1>2
  <2>3. /\ transcript' \in Seq(Messages)
        /\ Len(transcript') = Len(transcript) + 1
        /\ transcript'[Len(transcript) + 1] = Assistant(turn.calls)
    BY ONLY <1>3, <2>1, <2>2, AppendProperties
  <2>. QED
    BY <1>1, <1>3, <2>3
<1>5. TypeOK'
  BY <1>1, <1>4 DEF IInv, TypeOK, TakeTurn, pumpSide
<1>6. Whole'
  BY <1>1 DEF Whole
<1>7. PumpInStep' /\ Flushing' /\ EndedWhole'
  BY <1>1, <1>6 DEF IInv, PumpInStep, Flushing, EndedWhole
<1>8. TranscriptLength' /\ AnswersSoFar'
  BY <1>1, <1>4 DEF TranscriptLength, AnswersSoFar
<1>9. NotOver'
  BY <1>1 DEF IInv, NotOver, TakeTurn
<1>10. TranscriptPairs'
  <2>1. PICK i \in Nat : i = 2 * iter + 2
    BY <1>1
  <2>2. i % 2 = 0 /\ i \div 2 = iter + 1 /\ i = Len(transcript) + 1
    BY <1>1, <1>3, <2>1
  <2>3. transcript'[i].role = "assistant" /\ transcript'[i].blocks = turn.calls
    BY <1>2, <1>4, <2>1
  <2>4. meant'[i \div 2] = turn.calls
    BY <1>1, <2>2 DEF Whole
  <2>5. Fits(i)'
    BY <2>2, <2>3, <2>4 DEF Fits
  <2>. QED
    BY <1>1, <1>2, <2>2, <2>5, PairsKept
<1>11. DoneIsClean'
  BY <1>1, <1>9, CleanKept
<1>. QED
  BY <1>5, <1>7, <1>8, <1>9, <1>10, <1>11 DEF IInv

\* What a tool answers, and what one that does not exist does.
LEMMA Answered ==
  ASSUME NEW name, NEW answer \in Execute(name)
  PROVE  /\ answer \in {"ok", "not found", "error"}
         /\ name \notin DOMAIN handlers => answer = "error"
<1>1. CASE name \notin DOMAIN handlers
  BY <1>1 DEF Execute
<1>2. CASE name \in DOMAIN handlers
  <2>1. name \in {"search_catalog", "check_variant_stock",
                  "get_my_order_status"}
    BY <1>2 DEF handlers
  <2>2. /\ handlers["search_catalog"] = searchCatalogTool
        /\ handlers["check_variant_stock"] = checkVariantStockTool
        /\ handlers["get_my_order_status"] = getMyOrderStatusTool
    BY DEF handlers
  <2>3. handlers[name] \in {{"ok", "error"}, {"ok", "not found", "error"}}
    BY <2>1, <2>2 DEF searchCatalogTool, checkVariantStockTool,
                      getMyOrderStatusTool
  <2>. QED
    BY <1>2, <2>3 DEF Execute
<1>. QED
  BY <1>1, <1>2

\* A tool is run.
LEMMA RunToolKeeps == IInv /\ RunTool => IInv'
<1>. SUFFICES ASSUME IInv, RunTool PROVE IInv'
  OBVIOUS
<1>1. /\ pc = "tools" /\ pc' = pc /\ iter' = iter /\ turn' = turn
      /\ pump' = pump /\ meant' = meant /\ transcript' = transcript
      /\ Emit(<<"tool_call">>)
  BY DEF RunTool, pumpSide
<1>2. PICK call, answer :
        /\ call = turn.calls[Len(results) + 1]
        /\ answer \in Execute(call.tool)
        /\ results' = Append(results, [id |-> call.id, answer |-> answer])
  BY DEF RunTool
<1>3. /\ results \in Seq(Answers) /\ turn.calls \in Seq(Calls)
      /\ Len(results) \in Nat /\ Len(turn.calls) \in Nat
      /\ Len(results) < Len(turn.calls)
  BY LenProperties DEF IInv, TypeOK, RunTool
<1>4. call \in Calls
  BY <1>2, <1>3, ElementOfSeq
<1>5. [id |-> call.id, answer |-> answer] \in Answers
  BY <1>2, <1>4, Answered DEF Calls, Answers
<1>6. /\ results' \in Seq(Answers) /\ Len(results') = Len(results) + 1
      /\ results'[Len(results) + 1] = [id |-> call.id, answer |-> answer]
      /\ \A n \in 1 .. Len(results) : results'[n] = results[n]
  <2>. HIDE DEF Answers
  <2>. QED
    BY <1>2, <1>3, <1>5, AppendProperties
<1>7. /\ events' \in Seq({"text", "tool_call", "done", "error"})
      /\ \A i \in DOMAIN events' : events'[i] \in {"text", "tool_call"}
  BY <1>1, NotOverKept
<1>8. TypeOK'
  BY <1>6, <1>7 DEF IInv, TypeOK, RunTool, pumpSide
<1>9. PumpInStep' /\ Flushing' /\ EndedWhole' /\ TranscriptLength'
  BY <1>1 DEF IInv, PumpInStep, Flushing, EndedWhole, TranscriptLength, Whole
<1>10. AnswersSoFar'
  <2>1. ASSUME NEW n \in 1 .. Len(results')
        PROVE  /\ results'[n].id = turn.calls[n].id
               /\ turn.calls[n].tool \notin DOMAIN handlers
                    => results'[n].answer = "error"
    <3>1. CASE n \in 1 .. Len(results)
      <4>1. results'[n] = results[n]
        BY <1>6, <3>1
      <4>. QED
        BY <1>1, <3>1, <4>1 DEF IInv, AnswersSoFar
    <3>2. CASE n = Len(results) + 1
      <4>1. /\ results'[n] = [id |-> call.id, answer |-> answer]
            /\ call = turn.calls[n]
        BY <1>2, <1>6, <3>2
      <4>2. call.tool \notin DOMAIN handlers => answer = "error"
        BY <1>2, Answered
      <4>. QED
        BY <4>1, <4>2
    <3>. QED
      BY <1>3, <1>6, <3>1, <3>2
  <2>2. Len(results') <= Len(turn'.calls)
    BY <1>1, <1>3, <1>6
  <2>. QED
    BY <1>1, <2>1, <2>2 DEF AnswersSoFar
<1>11. NotOver'
  BY <1>7 DEF NotOver
<1>12. TranscriptPairs'
  BY <1>1, PairsKept
<1>13. DoneIsClean'
  BY <1>1, <1>11, CleanKept
<1>. QED
  BY <1>8, <1>9, <1>10, <1>11, <1>12, <1>13 DEF IInv

\* The results go back to the model.
LEMMA FeedBackKeeps == IInv /\ FeedBack => IInv'
<1>. SUFFICES ASSUME IInv, FeedBack PROVE IInv'
  OBVIOUS
<1>1. /\ pc = "tools" /\ pc' = "request" /\ Whole /\ iter \in Nat
      /\ iter' = iter + 1 /\ iter < maxToolIters
      /\ pump = "closed" /\ pump' = "closed" /\ meant' = meant
      /\ transcript' = Append(transcript, User(results))
      /\ Len(meant) = iter + 1
  BY Bounds DEF IInv, TypeOK, FeedBack, PumpInStep, pumpSide, Whole
<1>2. /\ User(results) \in Messages /\ User(results).role = "user"
      /\ User(results).blocks = results
  BY DEF IInv, TypeOK, User, Messages
<1>3. /\ transcript \in Seq(Messages) /\ Len(transcript) = 2 * iter + 2
      /\ transcript[2 * iter + 2] = Assistant(turn.calls)
  BY <1>1 DEF IInv, TypeOK, TranscriptLength
<1>4. /\ transcript' \in Seq(Messages) /\ Len(transcript') = 2 * iter + 3
      /\ transcript'[2 * iter + 3] = User(results)
      /\ transcript'[2 * iter + 2] = Assistant(turn.calls)
  <2>1. 2 * iter + 2 \in 1 .. Len(transcript)
    BY <1>1, <1>3
  <2>2. transcript' = Append(transcript, User(results))
    BY <1>1
  <2>3. User(results) \in Messages
    BY <1>2
  <2>4. /\ transcript' \in Seq(Messages)
        /\ Len(transcript') = Len(transcript) + 1
        /\ transcript'[Len(transcript) + 1] = User(results)
        /\ \A i \in 1 .. Len(transcript) : transcript'[i] = transcript[i]
    BY ONLY <1>3, <2>2, <2>3, AppendProperties
  <2>5. transcript'[2 * iter + 2] = transcript[2 * iter + 2]
    BY ONLY <2>1, <2>4
  <2>6. Len(transcript) + 1 = 2 * iter + 3
    BY <1>1, <1>3
  <2>7. transcript'[2 * iter + 3] = User(results)
    BY <2>4, <2>6
  <2>. QED
    BY <1>3, <2>4, <2>5, <2>6, <2>7
<1>5. TypeOK'
  <2>1. iter + 1 \in 0 .. maxToolIters
    BY <1>1, Bounds
  <2>. QED
    BY <1>1, <1>4, <2>1 DEF IInv, TypeOK, FeedBack, pumpSide
<1>6. PumpInStep' /\ Flushing' /\ EndedWhole' /\ AnswersSoFar'
  BY <1>1 DEF PumpInStep, Flushing, EndedWhole, AnswersSoFar
<1>7. TranscriptLength'
  BY <1>1, <1>4 DEF TranscriptLength
<1>8. NotOver'
  BY <1>1 DEF IInv, NotOver, FeedBack
<1>9. TranscriptPairs'
  <2>1. PICK i \in Nat : i = 2 * iter + 3
    BY <1>1
  <2>2. i % 2 = 1 /\ i - 1 = 2 * iter + 2 /\ i = Len(transcript) + 1
    BY <1>1, <1>3, <2>1
  <2>3. /\ transcript'[i].role = "user" /\ transcript'[i].blocks = results
        /\ transcript'[i - 1].blocks = turn.calls
    <3>1. transcript'[i] = User(results)
      BY ONLY <1>4, <2>1
    <3>2. transcript'[i - 1] = Assistant(turn.calls)
      BY ONLY <1>4, <2>2
    <3>3. Assistant(turn.calls).blocks = turn.calls
      BY DEF Assistant
    <3>. QED
      BY <1>2, <3>1, <3>2, <3>3
  <2>4. /\ results \in Seq(Answers) /\ turn.calls \in Seq(Calls)
        /\ Len(results) = Len(turn.calls)
    BY DEF IInv, TypeOK, FeedBack
  <2>5. DOMAIN results = DOMAIN turn.calls /\ DOMAIN results = 1 .. Len(results)
    BY <2>4, LenProperties
  <2>6. \A n \in DOMAIN turn.calls :
          /\ results[n].id = turn.calls[n].id
          /\ turn.calls[n].tool \notin DOMAIN handlers
               => results[n].answer = "error"
    BY <1>1, <2>5 DEF IInv, AnswersSoFar
  <2>7. Fits(i)'
    BY <2>2, <2>3, <2>5, <2>6 DEF Fits
  <2>. QED
    BY <1>1, <1>2, <2>2, <2>7, PairsKept
<1>10. DoneIsClean'
  BY <1>1, <1>8, CleanKept
<1>. QED
  BY <1>5, <1>6, <1>7, <1>8, <1>9, <1>10 DEF IInv

\* An event passes through the channel.
LEMMA DeliverKeeps == IInv /\ Deliver => IInv'
<1>. SUFFICES ASSUME IInv, Deliver PROVE IInv'
  OBVIOUS
<1>1. /\ pc = "receive" /\ pc' = "receive" /\ iter' = iter /\ meant' = meant
      /\ transcript' = transcript /\ results' = results
      /\ outbox' = Tail(outbox) /\ Received(Head(outbox))
      /\ pump \in {"send", "flush"} /\ iter \in Nat
      /\ outbox \in Seq(Events) /\ turn \in [calls : Seq(Calls), stop : Stops]
      /\ meant \in Seq(Seq(Calls))
      /\ UNCHANGED <<deltas, err, gone>>
  BY Bounds DEF IInv, TypeOK, Deliver
<1>2. TranscriptPairs'
  BY <1>1, PairsKept
<1>3. CASE pump = "send"
  <2>1. /\ outbox = <<Text>> /\ Len(meant) = iter /\ turn = NoTurn
    BY <1>3 DEF IInv, PumpInStep
  <2>2. Head(outbox).kind = "text" /\ Tail(outbox) = <<>>
    BY <2>1 DEF Text
  <2>3. Emit(<<"text">>) /\ turn' = turn /\ outbox' = <<>> /\ pump' = "read"
    BY <1>1, <1>3, <2>2 DEF Received, Deliver
  <2>4. /\ events' \in Seq({"text", "tool_call", "done", "error"})
        /\ \A i \in DOMAIN events' : events'[i] \in {"text", "tool_call"}
    BY <1>1, <2>3, NotOverKept
  <2>5. <<>> \in Seq(Events)
    OBVIOUS
  <2>6. TypeOK'
    BY <1>1, <2>3, <2>4, <2>5 DEF IInv, TypeOK
  <2>7. PumpInStep' /\ Flushing' /\ EndedWhole'
    BY <1>1, <2>1, <2>3 DEF IInv, PumpInStep, Flushing, EndedWhole
  <2>8. TranscriptLength' /\ AnswersSoFar' /\ NotOver'
    BY <1>1, <2>4 DEF IInv, TranscriptLength, AnswersSoFar, NotOver
  <2>9. DoneIsClean'
    BY <1>1, <2>8, CleanKept
  <2>. QED
    BY <1>2, <2>6, <2>7, <2>8, <2>9 DEF IInv
<1>4. CASE pump = "flush"
  <2>1. PICK k, calls, c : /\ k = Len(turn.calls) /\ c = Len(calls)
                           /\ calls = meant[iter + 1]
    OBVIOUS
  <2>2. turn.stop = "" /\ Len(meant) = iter + 1
    BY <1>4 DEF IInv, Flushing, PumpInStep
  <2>lengths. Len(outbox) = c - k + 1 /\ k <= c
    BY <1>4, <2>1 DEF IInv, Flushing
  <2>received. \A n \in 1 .. k : turn.calls[n] = calls[n]
    BY <1>4, <2>1 DEF IInv, Flushing
  <2>unsent. /\ \A n \in 1 .. c - k : outbox[n] = ToolUse(calls[k + n])
        /\ outbox[Len(outbox)].kind = "end"
    BY <1>4, <2>1 DEF IInv, Flushing
  <2>3. calls \in Seq(Calls) /\ c \in Nat /\ k \in Nat
    <3>1. iter + 1 \in 1 .. Len(meant)
      <4>1. iter \in Nat /\ Len(meant) = iter + 1
        BY <1>1, <2>2
      <4>. QED
        BY ONLY <4>1
    <3>2. calls \in Seq(Calls)
      <4>1. meant \in Seq(Seq(Calls))
        BY <1>1
      <4>2. meant[iter + 1] \in Seq(Calls)
        BY ONLY <3>1, <4>1, ElementOfSeq
      <4>. QED
        BY <2>1, <4>2
    <3>3. turn.calls \in Seq(Calls)
      BY <1>1
    <3>4. Len(calls) \in Nat
      BY ONLY <3>2, LenProperties
    <3>5. Len(turn.calls) \in Nat
      BY ONLY <3>3, LenProperties
    <3>. QED
      BY <2>1, <3>2, <3>4, <3>5
  <2>4. outbox # <<>>
    BY <2>lengths, <2>3
  <2>5. /\ Tail(outbox) \in Seq(Events) /\ Len(Tail(outbox)) = c - k
        /\ \A n \in 1 .. c - k : Tail(outbox)[n] = outbox[n + 1]
    <3>1. /\ Tail(outbox) \in Seq(Events) /\ Len(Tail(outbox)) = Len(outbox) - 1
          /\ \A n \in 1 .. Len(Tail(outbox)) : Tail(outbox)[n] = outbox[n + 1]
      <4>. HIDE DEF Events
      <4>. QED
        BY <1>1, <2>4, HeadTailProperties
    <3>2. Len(outbox) - 1 = c - k
      BY <2>3, <2>lengths
    <3>. QED
      BY <3>1, <3>2
  <2>6. Head(outbox) = outbox[1]
    BY <1>1, <2>4
  <2>7. pump' = IF Tail(outbox) = <<>> THEN "closed" ELSE "flush"
    BY <1>4 DEF Deliver
  <2>8. CASE k < c
    <3>1. calls[k + 1] \in Calls
      <4>1. k + 1 \in 1 .. Len(calls)
        BY <2>1, <2>3, <2>8
      <4>. QED
        BY <2>3, <4>1, ElementOfSeq
    <3>2. outbox[1] = ToolUse(calls[k + 1])
      <4>1. 1 \in 1 .. c - k
        BY <2>3, <2>8
      <4>. QED
        BY <2>unsent, <4>1
    <3>3. /\ outbox[1].kind = "tool_use" /\ outbox[1].call = calls[k + 1]
      BY <3>2 DEF ToolUse
    <3>4. /\ turn' = [turn EXCEPT !.calls = Append(@, calls[k + 1])]
          /\ events' = events
      BY <1>1, <2>6, <3>3 DEF Received
    <3>5. /\ turn'.calls = Append(turn.calls, calls[k + 1])
          /\ turn'.stop = turn.stop
      BY <1>1, <3>4
    <3>6. /\ turn'.calls \in Seq(Calls) /\ Len(turn'.calls) = k + 1
          /\ turn'.calls[k + 1] = calls[k + 1]
          /\ \A n \in 1 .. k : turn'.calls[n] = turn.calls[n]
      <4>. HIDE DEF Calls
      <4>. QED
        BY <1>1, <2>1, <3>1, <3>5, AppendProperties
    <3>7. turn' \in [calls : Seq(Calls), stop : Stops]
      BY <1>1, <3>4, <3>5, <3>6
    <3>8. Tail(outbox) # <<>>
      <4>1. c - k > 0
        BY <2>3, <2>8
      <4>2. Len(Tail(outbox)) = c - k
        BY <2>5
      <4>. QED
        BY <4>1, <4>2
    <3>9. pump' = "flush"
      BY <2>7, <3>8
    <3>10. TypeOK'
      BY <1>1, <2>5, <3>4, <3>7, <3>9 DEF IInv, TypeOK
    <3>11. PumpInStep' /\ EndedWhole'
      BY <1>1, <2>2, <3>9 DEF IInv, PumpInStep, EndedWhole
    <3>12. Flushing'
      <4>1. ASSUME NEW n \in 1 .. k + 1 PROVE turn'.calls[n] = calls[n]
        <5>1. n \in 1 .. k \/ n = k + 1
          BY <2>3
        <5>. QED
          BY <2>received, <3>6, <5>1
      <4>2. ASSUME NEW n \in 1 .. c - (k + 1)
            PROVE  Tail(outbox)[n] = ToolUse(calls[k + 1 + n])
        <5>1. /\ n \in 1 .. c - k /\ n + 1 \in 1 .. c - k
              /\ k + (n + 1) = k + 1 + n
          BY <2>3
        <5>2. Tail(outbox)[n] = outbox[n + 1]
          BY <2>5, <5>1
        <5>3. outbox[n + 1] = ToolUse(calls[k + (n + 1)])
          BY <2>unsent, <5>1
        <5>. QED
          BY <5>1, <5>2, <5>3
      <4>3. Tail(outbox)[c - k].kind = "end"
        <5>1. c - k \in 1 .. c - k /\ Len(outbox) = (c - k) + 1
          BY <2>3, <2>8, <2>lengths
        <5>2. Tail(outbox)[c - k] = outbox[(c - k) + 1]
          BY <2>5, <5>1
        <5>. QED
          BY <2>unsent, <5>1, <5>2
      <4>4. PICK j : j = k + 1
        OBVIOUS
      <4>5. /\ j \in Nat /\ c - k = c - j + 1 /\ j <= c
        BY <2>3, <2>8, <4>4
      <4>6. /\ turn'.stop = "" /\ meant'[iter' + 1] = calls
            /\ Len(turn'.calls) = j /\ outbox' = Tail(outbox)
            /\ Len(outbox') = c - j + 1
        BY <1>1, <2>1, <2>2, <2>5, <3>5, <3>6, <4>4, <4>5
      <4>7. /\ \A n \in 1 .. j : turn'.calls[n] = calls[n]
            /\ \A n \in 1 .. c - j : outbox'[n] = ToolUse(calls[j + n])
            /\ outbox'[Len(outbox')].kind = "end"
        BY <4>1, <4>2, <4>3, <4>4, <4>5, <4>6
      <4>. QED
        BY <2>1, <4>5, <4>6, <4>7 DEF Flushing
    <3>13. TranscriptLength' /\ AnswersSoFar' /\ NotOver'
      BY <1>1, <3>4 DEF IInv, TranscriptLength, AnswersSoFar, NotOver
    <3>14. DoneIsClean'
      BY <1>1, <3>13, CleanKept
    <3>. QED
      BY <1>2, <3>10, <3>11, <3>12, <3>13, <3>14 DEF IInv
  <2>9. CASE k = c
    <3>1. Len(outbox) = 1 /\ outbox[1].kind = "end"
      <4>1. c - k + 1 = 1
        BY <2>3, <2>9
      <4>. QED
        BY <2>lengths, <2>unsent, <4>1
    <3>2. outbox[1].stop \in Stops
      <4>1. outbox[1] \in Events
        <5>1. 1 \in 1 .. Len(outbox)
          BY <3>1
        <5>. HIDE DEF Events
        <5>. QED
          BY <1>1, <5>1, ElementOfSeq
      <4>2. \A a \in Calls : ToolUse(a).kind = "tool_use"
        BY DEF ToolUse
      <4>3. Text.kind = "text" /\ \A s \in Stops : EndOf(s).stop = s
        BY DEF Text, EndOf
      <4>. QED
        BY <3>1, <4>1, <4>2, <4>3 DEF Events
    <3>3. turn' = [turn EXCEPT !.stop = outbox[1].stop] /\ events' = events
      BY <1>1, <2>6, <3>1 DEF Received
    <3>4. /\ turn'.calls = turn.calls
          /\ turn' \in [calls : Seq(Calls), stop : Stops]
      BY <1>1, <3>2, <3>3
    <3>5. Tail(outbox) = <<>> /\ pump' = "closed"
      <4>1. c - k = 0
        BY <2>3, <2>9
      <4>2. Tail(outbox) = <<>>
        BY <2>5, <4>1, EmptySeq
      <4>. QED
        BY <2>7, <4>2
    <3>6. turn.calls = calls
      <4>1. turn.calls \in Seq(Calls)
        BY <1>1
      <4>. HIDE DEF Calls
      <4>. QED
        BY <2>1, <2>3, <2>9, <2>received, <4>1, SeqEqual
    <3>7. Whole'
      BY <1>1, <2>1, <2>2, <3>4, <3>6 DEF Whole
    <3>8. TypeOK'
      BY <1>1, <2>5, <3>3, <3>4, <3>5 DEF IInv, TypeOK
    <3>9. PumpInStep' /\ Flushing' /\ EndedWhole'
      BY <1>1, <3>5, <3>7 DEF IInv, PumpInStep, Flushing, EndedWhole
    <3>10. TranscriptLength' /\ AnswersSoFar' /\ NotOver'
      BY <1>1, <3>3 DEF IInv, TranscriptLength, AnswersSoFar, NotOver
    <3>11. DoneIsClean'
      BY <1>1, <3>10, CleanKept
    <3>. QED
      BY <1>2, <3>8, <3>9, <3>10, <3>11 DEF IInv
  <2>. QED
    BY <2>3, <2>8, <2>9, <2>lengths
<1>. QED
  BY <1>1, <1>3, <1>4

\* Nothing happens.
LEMMA StutterKeeps == IInv /\ UNCHANGED vars => IInv'
<1>. SUFFICES ASSUME IInv, UNCHANGED vars PROVE IInv'
  OBVIOUS
<1>1. TypeOK' /\ PumpInStep' /\ Flushing' /\ EndedWhole'
  BY DEF IInv, vars, TypeOK, PumpInStep, Flushing, EndedWhole, Whole
<1>2. TranscriptLength' /\ AnswersSoFar' /\ NotOver'
  BY DEF IInv, vars, TranscriptLength, AnswersSoFar, NotOver
<1>3. TranscriptPairs'
  BY PairsKept DEF vars
<1>4. DoneIsClean'
  BY DEF IInv, vars, DoneIsClean
<1>. QED
  BY <1>1, <1>2, <1>3, <1>4 DEF IInv

\* Every step keeps the invariant.
THEOREM Invariance == Spec => []IInv
<1>1. IInv /\ [Next]_vars => IInv'
  <2>. SUFFICES ASSUME IInv, [Next]_vars PROVE IInv'
    OBVIOUS
  <2>1. CASE Agent
    BY <2>1, RefuseKeeps, ServeKeeps, StreamKeeps, FallbackKeeps,
       TurnFailsKeeps, AnswerKeeps, TakeTurnKeeps, RunToolKeeps, FeedBackKeeps
       DEF Agent
  <2>2. CASE Sdk
    BY <2>2, TextKeeps, FailsKeeps, EndsKeeps DEF Sdk
  <2>3. CASE Bail \/ Deliver \/ Disconnect
    BY <2>3, BailKeeps, DeliverKeeps, DisconnectKeeps
  <2>4. CASE UNCHANGED vars
    BY <2>4, StutterKeeps
  <2>. QED
    BY <2>1, <2>2, <2>3, <2>4 DEF Next
<1>. QED
  BY InitInv, <1>1, PTL DEF Spec

\* Every value has its type: the outbox holds events, the messages calls or
\* answers, and the turns answered stay below the ceiling of the loop
\* (internal/ai/agent.go, Run).
THEOREM Typed == Spec => []TypeOK
<1>1. IInv => TypeOK
  BY DEF IInv
<1>. QED
  BY Invariance, <1>1, PTL

\* What the model is sent again is what it said: each assistant message holds
\* all calls of a finished turn, and the message after it answers each of them
\* in order, an unknown tool with an error (executeTools, assistantTurn).
THEOREM EveryCallIsAnswered == Spec => []TranscriptPairs
<1>1. IInv => TranscriptPairs
  BY DEF IInv
<1>. QED
  BY Invariance, <1>1, PTL

\* "done" and "error" come last and never both, and a shopper who is still there
\* gets "done" only for a whole turn or at the ceiling (Run's ways out).
THEOREM DoneMeansWhole == Spec => []DoneIsClean
<1>1. IInv => DoneIsClean
  BY DEF IInv
<1>. QED
  BY Invariance, <1>1, PTL
=============================================================================
