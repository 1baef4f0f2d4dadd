--------------------------- MODULE StreamBuffers ---------------------------
(***************************************************************************)
(* Stream and message buffers of the FreeRTOS kernel                       *)
(* (src/examples/freertos/stream_buffer.c): rings of bytes for one reader  *)
(* and one writer, which move xTail and xHead outside of any critical      *)
(* section and wake each other by task notifications.  A byte is a cell of *)
(* the ring; the length that precedes every message is one cell too.       *)
(***************************************************************************)
EXTENDS TaskCalls

CONSTANTS
  Streams,       \* the buffers
  StreamLength,  \* xLength of every buffer: one more than it can hold
  IsMessages,    \* whether it is a message buffer
  FirstTrigger   \* xTriggerLevelBytes when it is created

ASSUME StreamsAssumption ==
  /\ StreamLength \in [Streams -> Nat \ {0, 1}]
  /\ IsMessages \in [Streams -> BOOLEAN]
  /\ \A b \in Streams : FirstTrigger[b] \in 1..(StreamLength[b] - 1)

VARIABLES
  stream,  \* the StreamBuffer_t of every buffer
  content  \* not in the code: what has been written to it and not been read

Unused == <<"unused", 0>>
Byte(v) == <<"byte", v>>
LengthCell(n) == <<"length", n>>

NoOne == "nobody"

NewStream(b, trigger) ==
  [storage |-> [i \in 0..(StreamLength[b] - 1) |-> Unused],
   head |-> 0, tail |-> 0, trigger |-> trigger, reader |-> NoOne, writer |-> NoOne]

StreamsInit ==
  /\ stream = [b \in Streams |-> NewStream(b, FirstTrigger[b])]
  /\ content = [b \in Streams |-> << >>]

HeaderCells(b) == IF IsMessages[b] THEN 1 ELSE 0

(* prvBytesInBuffer and xStreamBufferSpacesAvailable.                       *)
CellsFrom(b, tail) == (stream[b].head - tail) % StreamLength[b]
CellsInBuffer(b) == CellsFrom(b, stream[b].tail)
SpacesAvailable(b) == StreamLength[b] - 1 - CellsInBuffer(b)

Around(b, i) == i % StreamLength[b]

(* Mutant: the head is not brought back to the start of the ring in time.   *)
WrittenLate(b, cells) ==
  [stream[b] EXCEPT
     !.storage = [i \in DOMAIN @ |->
        LET n == Around(b, i - stream[b].head) + 1 IN IF n <= Len(cells) THEN cells[n] ELSE @[i]],
     !.head = IF @ + Len(cells) > StreamLength[b] THEN @ + Len(cells) - StreamLength[b]
              ELSE IF @ + Len(cells) = StreamLength[b] THEN 1 ELSE @ + Len(cells)]

(* prvWriteBytesToBuffer.                                                   *)
Written(b, cells) ==
  [stream[b] EXCEPT
     !.storage = [i \in DOMAIN @ |->
        LET n == Around(b, i - stream[b].head) + 1 IN IF n <= Len(cells) THEN cells[n] ELSE @[i]],
     !.head = Around(b, @ + Len(cells))]

(* prvReadBytesFromBuffer; what has been read stays in the ring.            *)
Past(b, n) == Around(b, stream[b].tail + n)

Least(m, n) == IF m < n THEN m ELSE n

----------------------------------------------------------------------------
(* What both sides do. *)

SeeIn(at, seen, s) ==
  /\ stack' = [stack EXCEPT ![me][1] = [@ EXCEPT !.at = at, !.arg.seen = seen]]
  /\ sched' = s /\ UNCHANGED scenario

StateCleared(s) == [s EXCEPT !.notify[me] = IF @ = "received" THEN "not waiting" ELSE @]

(* xTaskNotifyWait(0, 0, NULL, xTicksToWait), called from within.           *)
AwaitPeer ==
  /\ At("sendStream", "wait") \/ At("receiveStream", "wait")
  /\ LET wait == Frame([op |-> "notifyWait", obj |-> me, arg |-> <<0, 0>>, wait |-> Top.wait])
     IN  stack' = [stack EXCEPT ![me] = <<wait, [@[1] EXCEPT !.at = "notified"]>> \o Tail(@)]
  /\ UNCHANGED <<sched, scenario, stream, content>>

(* sbSEND_COMPLETED and sbRECEIVE_COMPLETED wake the other side.            *)
Peer(op) == IF op = "sendStream" THEN "reader" ELSE "writer"

AtStream(at) == At("sendStream", at) \/ At("receiveStream", at)

Completed ==
  /\ AtStream("completed")
  /\ GoTo("wake", SuspendAll(sched)) /\ UNCHANGED <<stream, content>>

WakePeer ==
  /\ AtStream("wake")
  /\ LET peer == stream[Top.obj][Peer(Top.op)]
     IN  GoTo("resume", IF peer = NoOne THEN sched ELSE GenericNotify(sched, peer, 0, "none"))
  /\ stream' = [stream EXCEPT ![Top.obj][Peer(Top.op)] = NoOne]
  /\ UNCHANGED content

StreamResume ==
  /\ AtStream("resume")
  /\ Return(ResumeAll(sched)) /\ UNCHANGED <<stream, content>>

----------------------------------------------------------------------------
(* xStreamBufferSend.  Top.arg.cells is what to send. *)

Required(b, cells) == Len(cells) + HeaderCells(b)

SendStream ==
  /\ At("sendStream", "start")
  /\ IF Top.wait = 0 THEN GoTo("measure", sched) ELSE GoTo("space", SetTimeOut(sched, Top.wait))
  /\ UNCHANGED <<stream, content>>

SendStreamSpace ==
  /\ At("sendStream", "space")
  /\ LET b == Top.obj
         space == SpacesAvailable(b)
         short == space < Required(b, Top.arg.cells)
     IN  /\ SeeIn(IF short THEN "wait" ELSE "measure", space,
                  IF short THEN StateCleared(sched) ELSE sched)
         /\ stream' = [stream EXCEPT ![b].writer = IF short THEN me ELSE @]
  /\ UNCHANGED content

SendStreamNotified ==
  /\ At("sendStream", "notified")
  /\ stream' = [stream EXCEPT ![Top.obj].writer = NoOne]
  /\ GoTo("check", sched) /\ UNCHANGED content

SendStreamCheck ==
  /\ At("sendStream", "check")
  /\ LET r == CheckForTimeOut(sched, Top.wait)
     IN  /\ sched' = r.s
         /\ stack' = [stack EXCEPT ![me][1] =
              [@ EXCEPT !.wait = r.left, !.at = IF r.yes THEN "measure" ELSE "space"]]
  /\ UNCHANGED <<scenario, stream, content>>

(* The space is measured again only if there was none.                      *)
SendStreamMeasure ==
  /\ At("sendStream", "measure")
  /\ SeeIn(IF IsMessages[Top.obj] THEN "header" ELSE "write",
           IF Top.arg.seen = 0 THEN SpacesAvailable(Top.obj) ELSE Top.arg.seen, ForgetTimeOut(sched))
  /\ UNCHANGED <<stream, content>>

Write(b, cells) ==
  /\ stream' = [stream EXCEPT ![b] = Written(b, cells)]
  /\ content' = [content EXCEPT ![b] = @ \o cells]

Fits(b, cells, space) == space >= Required(b, cells)

SendStreamHeader ==
  /\ At("sendStream", "header")
  /\ IF Fits(Top.obj, Top.arg.cells, Top.arg.seen)
     THEN GoTo("write", sched) /\ Write(Top.obj, <<LengthCell(Len(Top.arg.cells))>>)
     ELSE Return(sched) /\ UNCHANGED <<stream, content>>

(* What goes into the space that was seen.                                  *)
Truncated(b, cells, space) ==
  IF IsMessages[b] THEN cells ELSE SubSeq(cells, 1, Least(Len(cells), space))

SendStreamWrite ==
  /\ At("sendStream", "write")
  /\ LET cells == Truncated(Top.obj, Top.arg.cells, Top.arg.seen)
     IN  IF cells = << >> THEN Return(sched) /\ UNCHANGED <<stream, content>>
         ELSE GoTo("look", sched) /\ Write(Top.obj, cells)

(* Mutant: the trigger level must be exceeded.                              *)
TriggeredAbove(b, cells) == cells > stream[b].trigger

Triggered(b, cells) == cells >= stream[b].trigger

SendStreamLook ==
  /\ At("sendStream", "look")
  /\ IF Triggered(Top.obj, CellsInBuffer(Top.obj)) THEN GoTo("completed", sched) ELSE Return(sched)
  /\ UNCHANGED <<stream, content>>

----------------------------------------------------------------------------
(* xStreamBufferReceive.  Top.arg.max is the size of the reader's buffer. *)

ReceiveStream ==
  /\ At("receiveStream", "start")
  /\ LET b == Top.obj
         cells == CellsInBuffer(b)
         none == Top.wait > 0 /\ cells <= HeaderCells(b)
     IN  /\ SeeIn(IF none THEN "wait" ELSE "read", cells, IF none THEN StateCleared(sched) ELSE sched)
         /\ stream' = [stream EXCEPT ![b].reader = IF none THEN me ELSE @]
  /\ UNCHANGED content

ReceiveStreamNotified ==
  /\ At("receiveStream", "notified")
  /\ stream' = [stream EXCEPT ![Top.obj].reader = NoOne]
  /\ GoTo("measure", sched) /\ UNCHANGED content

ReceiveStreamMeasure ==
  /\ At("receiveStream", "measure")
  /\ SeeIn("read", CellsInBuffer(Top.obj), sched)
  /\ UNCHANGED <<stream, content>>

(* n cells have been read from `tail` on.                                   *)
MoveTail(b, tail, n) == stream' = [stream EXCEPT ![b].tail = Around(b, tail + n)]
DropContent(b, n) == content' = [content EXCEPT ![b] = SubSeq(@, n + 1, Len(@))]

ReceiveStreamRead ==
  /\ At("receiveStream", "read")
  /\ LET b == Top.obj
         n == Least(Top.arg.seen, Top.arg.max)
     IN  IF Top.arg.seen <= HeaderCells(b) THEN Return(sched) /\ UNCHANGED <<stream, content>>
         ELSE IF ~IsMessages[b]
         THEN GoTo("completed", sched) /\ MoveTail(b, stream[b].tail, n) /\ DropContent(b, n)
         ELSE /\ stack' = [stack EXCEPT ![me][1] =
                   [@ EXCEPT !.at = "message", !.arg.tail = stream[b].tail]]
              /\ MoveTail(b, stream[b].tail, 1)
              /\ UNCHANGED <<sched, scenario, content>>

(* The length is behind xTail already; a message that is too long for the   *)
(* reader's buffer stays, and xTail moves back.                             *)
ReceiveStreamMessage ==
  /\ At("receiveStream", "message")
  /\ LET b == Top.obj
         length == stream[b].storage[Top.arg.tail][2]
     IN  IF length > Top.arg.max
         THEN Return(sched) /\ MoveTail(b, Top.arg.tail, 0) /\ UNCHANGED content
         ELSE /\ GoTo("completed", sched)
              /\ MoveTail(b, stream[b].tail, length)
              /\ DropContent(b, length + 1)

(* xStreamBufferNextMessageLengthBytes reads the length in the same way.    *)
NextLength ==
  /\ At("nextLength", "start")
  /\ LET b == Top.obj
     IN  IF CellsInBuffer(b) <= HeaderCells(b) THEN Return(sched) /\ UNCHANGED stream
         ELSE /\ stack' = [stack EXCEPT ![me][1] =
                   [@ EXCEPT !.at = "restore", !.arg.tail = stream[b].tail]]
              /\ MoveTail(b, stream[b].tail, 1)
              /\ UNCHANGED <<sched, scenario>>
  /\ UNCHANGED content

NextLengthRestore ==
  /\ At("nextLength", "restore")
  /\ MoveTail(Top.obj, Top.arg.tail, 0)
  /\ Return(sched) /\ UNCHANGED content

----------------------------------------------------------------------------
(* xStreamBufferReset and xStreamBufferSetTriggerLevel. *)

ResetStream ==
  /\ At("resetStream", "start")
  /\ LET b == Top.obj
         free == stream[b].reader = NoOne /\ stream[b].writer = NoOne
     IN  /\ stream' = [stream EXCEPT ![b] = IF free THEN NewStream(b, @.trigger) ELSE @]
         /\ content' = [content EXCEPT ![b] = IF free THEN << >> ELSE @]
  /\ Return(sched)

SetTrigger ==
  /\ At("setTrigger", "start")
  /\ LET level == IF Top.arg.level = 0 THEN 1 ELSE Top.arg.level
     IN  stream' = [stream EXCEPT ![Top.obj].trigger =
                      IF level <= StreamLength[Top.obj] THEN level ELSE @]
  /\ Return(sched) /\ UNCHANGED content

----------------------------------------------------------------------------
(* The calls of interrupt handlers. *)

Notifying(peer) == IF peer = NoOne THEN sched ELSE NotifyFromISR(sched, peer, 0, "none")

SendStreamFromISR(call) ==
  /\ call.op = "sendStreamFromISR"
  /\ LET b == call.obj
         cells == Truncated(b, call.arg.cells, SpacesAvailable(b))
         all == IF IsMessages[b] THEN <<LengthCell(Len(cells))>> \o cells ELSE cells
         triggered == Triggered(b, CellsInBuffer(b) + Len(all))
     IN  /\ cells # << >>
         /\ IsMessages[b] => Fits(b, cells, SpacesAvailable(b))
         /\ stream' = [stream EXCEPT ![b] =
              [Written(b, all) EXCEPT !.reader = IF triggered THEN NoOne ELSE @]]
         /\ content' = [content EXCEPT ![b] = @ \o all]
         /\ sched' = IF triggered THEN Notifying(stream[b].reader) ELSE sched
  /\ UNCHANGED <<stack, scenario>>

ReceiveStreamFromISR(call) ==
  /\ call.op = "receiveStreamFromISR"
  /\ LET b == call.obj
         length == stream[b].storage[stream[b].tail][2]
         n == IF IsMessages[b] THEN length + 1 ELSE Least(CellsInBuffer(b), call.arg.max)
     IN  /\ CellsInBuffer(b) > HeaderCells(b)
         /\ IsMessages[b] => length <= call.arg.max
         /\ stream' = [stream EXCEPT ![b] = [@ EXCEPT !.tail = Past(b, n), !.writer = NoOne]]
         /\ DropContent(b, n)
         /\ sched' = Notifying(stream[b].writer)
  /\ UNCHANGED <<stack, scenario>>

----------------------------------------------------------------------------

StreamCalls == {"sendStream", "receiveStream", "nextLength", "resetStream"}

InStreamCall(t, b) == \E i \in DOMAIN stack[t] : stack[t][i].op \in StreamCalls /\ stack[t][i].obj = b

(* A buffer is reset, and its trigger level changed, when no other task uses *)
(* it.  A trigger level that the buffer can never reach is left out.        *)
LegalStreamCall(call) ==
  /\ call.op \in {"resetStream", "setTrigger"} =>
       \A t \in Tasks \ {me} : ~InStreamCall(t, call.obj)
  /\ call.op = "setTrigger" => call.arg.level < StreamLength[call.obj]

StreamStep ==
  \/ AwaitPeer \/ Completed \/ WakePeer \/ StreamResume
  \/ SendStream \/ SendStreamSpace \/ SendStreamNotified \/ SendStreamCheck
  \/ SendStreamMeasure \/ SendStreamHeader \/ SendStreamWrite \/ SendStreamLook
  \/ ReceiveStream \/ ReceiveStreamNotified \/ ReceiveStreamMeasure
  \/ ReceiveStreamRead \/ ReceiveStreamMessage
  \/ NextLength \/ NextLengthRestore \/ ResetStream \/ SetTrigger

StreamInterrupt(call) == SendStreamFromISR(call) \/ ReceiveStreamFromISR(call)

=============================================================================
