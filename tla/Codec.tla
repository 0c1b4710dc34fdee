------------------------------- MODULE Codec -------------------------------
(***************************************************************************)
(* How requests and responses become bytes and back: Frame's headers, the  *)
(* serializePayloadWoOwnership and fromPayload of every request and        *)
(* response, BufferSequenceSerializer and BufferDeserializer.              *)
(*                                                                         *)
(* A byte is a number below Base, a size_t is WordSize bytes, least        *)
(* significant first; EventType, OpCode and AddMessageStatus are one byte. *)
(* A string without a size prefix takes all that is left of the payload.   *)
(* Bad stands for the empty optional or null pointer of a failed parse.    *)
(***************************************************************************)
EXTENDS Naturals, Sequences

CONSTANTS Base,       \* values of a byte (256 in the code)
          WordSize,   \* sizeof(size_t) (8 in the code)
          Words,      \* ids, counters and timestamps to try
          Strings,    \* messages and names to try: sequences of bytes
          MaxChunk,   \* bound: messages in one getMessages response
          Bad

\* Base ^ k, as a recursive function.
Power[k \in Nat] == IF k = 0 THEN 1 ELSE Base * Power[k - 1]

Bytes    == 0 .. (Base - 1)
AllWords == 0 .. (Power[WordSize] - 1)

EventType        == [REQUEST |-> 0, RESPONSE |-> 1]
OpCode           == [ADD_MESSAGE |-> 0, GET_MESSAGES |-> 1,
                     SECONDARY_NODE_READY |-> 2, PING_PONG |-> 3]
AddMessageStatus == [OK |-> 0, NOT_ALLOWED |-> 1]

\* A size_t holds the size of every string and of every chunk.
ASSUME CodecAssumption ==
    /\ Base \in Nat /\ Base >= 4
    /\ WordSize \in Nat \ {0}
    /\ Words \subseteq AllWords
    /\ Strings \subseteq Seq(Bytes)
    /\ \A s \in Strings : Len(s) \in AllWords
    /\ MaxChunk \in AllWords

\* The empty optional is none of the values an optional can hold.
ASSUME BadAssumption ==
    /\ Bad \notin AllWords
    /\ Bad \notin DOMAIN EventType \cup DOMAIN OpCode \cup DOMAIN AddMessageStatus
    /\ Bad \notin [taken : Seq(Bytes), leftover : Seq(Bytes)]
    /\ Bad \notin [messages : Seq(Seq(Bytes)), leftover : Seq(Bytes)]
    /\ Bad \notin [id : AllWords, payload : Seq(Bytes)]
    /\ Bad \notin [id : AllWords, op : DOMAIN OpCode, payload : Seq(Bytes)]
    /\ Bad \notin Seq(Seq(Bytes))

Chunks == UNION {[1 .. n -> Strings] : n \in 0 .. MaxChunk}

\* What the four send_* functions send, and what answers them.
Requests ==
    [op : {"ADD_MESSAGE"}, id : Words, messageId : Words, message : Strings]
        \cup [op : {"GET_MESSAGES"}, id : Words, startMessageId : Words]
        \cup [op : {"SECONDARY_NODE_READY"}, id : Words, name : Strings]
        \cup [op : {"PING_PONG"}, id : Words, timestamp : Words]

Responses ==
    [op : {"ADD_MESSAGE"}, id : Words, status : DOMAIN AddMessageStatus]
        \cup [op : {"GET_MESSAGES"}, id : Words, messages : Chunks]
        \cup [op : {"SECONDARY_NODE_READY"}, id : Words]
        \cup [op : {"PING_PONG"}, id : Words, timestamp : Words]

-----------------------------------------------------------------------------
(* Writing.                                                                *)

Word(n) == [i \in 1 .. WordSize |-> (n \div Power[i - 1]) % Base]

RequestHeader(id, op) == <<EventType.REQUEST>> \o Word(id) \o <<OpCode[op]>>
ResponseHeader(id)    == <<EventType.RESPONSE>> \o Word(id)

AddMessageRequestPayload(r)    == Word(r.messageId) \o r.message
GetMessagesRequestPayload(r)   == Word(r.startMessageId)
SecondaryNodeReadyPayload(r)   == r.name
PingPayload(r)                 == Word(r.timestamp)

RequestPayload(r) ==
    CASE r.op = "ADD_MESSAGE"          -> AddMessageRequestPayload(r)
      [] r.op = "GET_MESSAGES"         -> GetMessagesRequestPayload(r)
      [] r.op = "SECONDARY_NODE_READY" -> SecondaryNodeReadyPayload(r)
      [] r.op = "PING_PONG"            -> PingPayload(r)

\* Mutant: an empty message is skipped.
SkipEmptyMessages(messages) ==
    LET written[i \in 0 .. Len(messages)] ==
            IF i = 0 THEN Word(Len(messages))
            ELSE IF messages[i] = << >> THEN written[i - 1]
            ELSE written[i - 1] \o Word(Len(messages[i])) \o messages[i]
    IN  written[Len(messages)]

\* The number of messages, then the size and the bytes of each.
ChunkPayload(messages) ==
    LET written[i \in 0 .. Len(messages)] ==
            IF i = 0 THEN Word(Len(messages))
            ELSE written[i - 1] \o Word(Len(messages[i])) \o messages[i]
    IN  written[Len(messages)]

AddMessageResponsePayload(r) == <<AddMessageStatus[r.status]>>
PongPayload(r)               == Word(r.timestamp)

ResponsePayload(r) ==
    CASE r.op = "ADD_MESSAGE"          -> AddMessageResponsePayload(r)
      [] r.op = "GET_MESSAGES"         -> ChunkPayload(r.messages)
      [] r.op = "SECONDARY_NODE_READY" -> << >>
      [] r.op = "PING_PONG"            -> PongPayload(r)

RequestFrame(r)  == RequestHeader(r.id, r.op) \o RequestPayload(r)
ResponseFrame(r) == ResponseHeader(r.id) \o ResponsePayload(r)

-----------------------------------------------------------------------------
(* Reading.                                                                *)

\* BufferDeserializer::getMemoryAndAdvance: n bytes and the leftover, or Bad.
Take(bytes, n) ==
    IF Len(bytes) < n THEN Bad
    ELSE [taken |-> SubSeq(bytes, 1, n), leftover |-> SubSeq(bytes, n + 1, Len(bytes))]

Value(bytes) == CHOOSE n \in AllWords : Word(n) = bytes

\* A payload that is exactly one size_t.
OnlyWord(payload) ==
    IF Len(payload) = WordSize THEN Value(payload) ELSE Bad

\* The name of an enumerator, if the byte is one.
Enumerator(enum, byte) ==
    IF \E name \in DOMAIN enum : enum[name] = byte
    THEN CHOOSE name \in DOMAIN enum : enum[name] = byte
    ELSE Bad

ParseEventType(frame) ==
    IF frame = << >> THEN Bad ELSE Enumerator(EventType, frame[1])

ParseRequestFrame(frame) ==
    LET event == Take(frame, 1)
        id    == Take(event.leftover, WordSize)
        op    == Take(id.leftover, 1)
    IN  IF ParseEventType(frame) # "REQUEST" \/ Len(frame) < WordSize + 2 THEN Bad
        ELSE IF Enumerator(OpCode, op.taken[1]) = Bad THEN Bad
        ELSE [id |-> Value(id.taken), op |-> Enumerator(OpCode, op.taken[1]),
              payload |-> op.leftover]

ParseResponseFrame(frame) ==
    LET event == Take(frame, 1)
        id    == Take(event.leftover, WordSize)
    IN  IF ParseEventType(frame) # "RESPONSE" \/ Len(frame) < WordSize + 1 THEN Bad
        ELSE [id |-> Value(id.taken), payload |-> id.leftover]

\* fromPayload of the four requests.
AddMessageRequestFrom(f) ==
    LET id == Take(f.payload, WordSize) IN
    IF id = Bad THEN Bad
    ELSE [op |-> f.op, id |-> f.id, messageId |-> Value(id.taken),
          message |-> id.leftover]

GetMessagesRequestFrom(f) ==
    IF OnlyWord(f.payload) = Bad THEN Bad
    ELSE [op |-> f.op, id |-> f.id, startMessageId |-> OnlyWord(f.payload)]

SecondaryNodeReadyFrom(f) == [op |-> f.op, id |-> f.id, name |-> f.payload]

PingFrom(f) ==
    IF OnlyWord(f.payload) = Bad THEN Bad
    ELSE [op |-> f.op, id |-> f.id, timestamp |-> OnlyWord(f.payload)]

\* The request a frame of the four op codes holds.
RequestFromPayload(f) ==
    CASE f.op = "ADD_MESSAGE"          -> AddMessageRequestFrom(f)
      [] f.op = "GET_MESSAGES"         -> GetMessagesRequestFrom(f)
      [] f.op = "SECONDARY_NODE_READY" -> SecondaryNodeReadyFrom(f)
      [] f.op = "PING_PONG"            -> PingFrom(f)

\* One turn of the loop of Response::GetMessages::fromPayload.
ReadMessage(acc) ==
    LET size    == Take(acc.leftover, WordSize)
        message == Take(size.leftover, Value(size.taken))
    IN  IF acc = Bad THEN Bad
        ELSE IF size = Bad THEN Bad
        ELSE IF message = Bad THEN Bad
        ELSE [messages |-> Append(acc.messages, message.taken),
              leftover |-> message.leftover]

\* The loop, and the check that it used the whole payload.
ChunkFromPayload(payload) ==
    LET count == Take(payload, WordSize)
        read[i \in 0 .. Value(count.taken)] ==
            IF i = 0 THEN [messages |-> << >>, leftover |-> count.leftover]
            ELSE ReadMessage(read[i - 1])
        all == read[Value(count.taken)]
    IN  IF count = Bad THEN Bad
        ELSE IF all = Bad THEN Bad
        ELSE IF all.leftover # << >> THEN Bad
        ELSE all.messages

\* fromPayload of the four responses.
AddMessageResponseFrom(f) ==
    IF Len(f.payload) # 1 THEN Bad
    ELSE IF Enumerator(AddMessageStatus, f.payload[1]) = Bad THEN Bad
    ELSE [op |-> "ADD_MESSAGE", id |-> f.id,
          status |-> Enumerator(AddMessageStatus, f.payload[1])]

GetMessagesResponseFrom(f) ==
    IF ChunkFromPayload(f.payload) = Bad THEN Bad
    ELSE [op |-> "GET_MESSAGES", id |-> f.id, messages |-> ChunkFromPayload(f.payload)]

SecondaryNodeReadyResponseFrom(f) ==
    IF f.payload # << >> THEN Bad ELSE [op |-> "SECONDARY_NODE_READY", id |-> f.id]

PongFrom(f) ==
    IF OnlyWord(f.payload) = Bad THEN Bad
    ELSE [op |-> "PING_PONG", id |-> f.id, timestamp |-> OnlyWord(f.payload)]

\* A response carries no op code: the caller's context knows which to expect.
ResponseFromPayload(f, op) ==
    CASE op = "ADD_MESSAGE"          -> AddMessageResponseFrom(f)
      [] op = "GET_MESSAGES"         -> GetMessagesResponseFrom(f)
      [] op = "SECONDARY_NODE_READY" -> SecondaryNodeReadyResponseFrom(f)
      [] op = "PING_PONG"            -> PongFrom(f)

-----------------------------------------------------------------------------
(* One frame, from the sender's object to the receiver's.                  *)

VARIABLES event,     \* which manager sends the frame
          sent,      \* the request or response object
          frame,     \* its bytes
          received   \* the object the peer makes of them

vars == <<event, sent, frame, received>>

Init ==
    /\ \/ event = "REQUEST" /\ sent \in Requests /\ frame = RequestFrame(sent)
       \/ event = "RESPONSE" /\ sent \in Responses /\ frame = ResponseFrame(sent)
    /\ received = << >>

\* IncomingRequestsManager::onIncomingFrame and the dispatch of Endpoint.
ReceiveRequest ==
    /\ received = << >>
    /\ ParseEventType(frame) = "REQUEST"
    /\ received' = IF ParseRequestFrame(frame) = Bad THEN Bad
                   ELSE RequestFromPayload(ParseRequestFrame(frame))
    /\ UNCHANGED <<event, sent, frame>>

\* OutcomingRequestsManager::onIncomingFrame and the context of the call.
ReceiveResponse ==
    /\ received = << >>
    /\ ParseEventType(frame) = "RESPONSE"
    /\ received' = IF ParseResponseFrame(frame) = Bad THEN Bad
                   ELSE ResponseFromPayload(ParseResponseFrame(frame), sent.op)
    /\ UNCHANGED <<event, sent, frame>>

Next == ReceiveRequest \/ ReceiveResponse

Spec == Init /\ [][Next]_vars

\* What arrives is what was sent, for empty strings, empty chunks and the
\* largest words too, and no bytes of one kind of frame pass for another.
RoundTrip ==
    received # << >> =>
        /\ received = sent
        /\ event = ParseEventType(frame)
=============================================================================
