----------------------------- MODULE PeerParser -----------------------------
(***************************************************************************)
(* The stream parser of src/protocol-parser.ts: a Transform that takes the *)
(* bytes of one connection in chunks of any size and pushes one message    *)
(* per frame, against state it carries from frame to frame.                *)
(*                                                                         *)
(* The remote peer appends frames to `sent'; the network delivers their    *)
(* bytes in order, cut anywhere.  Bytes are counted, not spelled: a frame  *)
(* is its class, its sizes and the fields that parsing it reads or leaves  *)
(* behind.  The buffer always starts at a frame boundary, so the number of *)
(* bytes in it and the frame it starts with say all that it holds.  A      *)
(* frame that fails half way may have filled a dictionary line; the stream *)
(* is over then, and nothing can tell.                                     *)
(*                                                                         *)
(* _transform loops without suspending; an iteration of its loop is a step *)
(* here because each may run the application's 'data' listener, which may  *)
(* throw into the loop.                                                    *)
(***************************************************************************)
EXTENDS PeerStream

CONSTANTS
  Frames,       \* the frames a peer may send
  MaxFrames     \* bound on the frames sent

ASSUME FramesAssumption ==
  /\ MaxFrames \in Nat
  /\ \A f \in Frames :
       /\ f \in Frame
       /\ f.head > 0 <=> f.class \in {"definition", "update"}
       /\ f.head = 0 => f.body = 0 /\ f.valid

VARIABLES
  sent,                 \* frames the peer has sent, in order
  ends,                 \* offset in the stream at which each of them ends
  received,             \* bytes of the stream handed to _transform so far
  consumed,             \* bytes of it that parsed messages have taken
  inTransform,          \* _transform is running
  parsed,               \* frames consumed so far
  lastTableDefinition,  \* this.lastTableDefinition
  lastUpdateId,         \* this.lastUpdateId
  dictionaryCache,      \* this.dictionaryCache, a word or None per key
  pushed,               \* messages pushed to the application, in order
  failed                \* "no", or what ended the stream: "parse", "listener"

state == <<lastTableDefinition, lastUpdateId, dictionaryCache>>
vars  == <<sent, ends, received, consumed, inTransform, parsed, state, pushed,
           failed>>

\* The offset at which the i-th frame ends, the bytes that are under way, and
\* those in this.buffer past the loop's pointer.
EndOf(i) == IF i = 0 THEN 0 ELSE ends[i]
inFlight == EndOf(Len(sent)) - received
buffered == received - consumed

Init ==
  /\ sent = <<>>
  /\ ends = <<>>
  /\ received = 0
  /\ consumed = 0
  /\ inTransform = FALSE
  /\ parsed = 0
  /\ lastTableDefinition = None
  /\ lastUpdateId = 0
  /\ dictionaryCache = [key \in Keys |-> None]
  /\ pushed = <<>>
  /\ failed = "no"

PeerSend(f) ==
  /\ Len(sent) < MaxFrames
  /\ sent' = Append(sent, f)
  /\ ends' = Append(ends, EndOf(Len(sent)) + Size(f))
  /\ UNCHANGED <<received, consumed, inTransform, parsed, state, pushed,
                 failed>>

\* _transform gets a chunk and appends it to the buffer.
Transform(bytes) ==
  /\ failed = "no" /\ ~inTransform
  /\ received' = received + bytes
  /\ inTransform' = TRUE
  /\ UNCHANGED <<sent, ends, consumed, parsed, state, pushed, failed>>

-----------------------------------------------------------------------------
\* parseMessage on the buffer, whose bytes begin the next frame: an exception,
\* a message, or else null.
NextFrame == sent[parsed + 1]

\* Operators named <definition>_<fault> are faulty variants of a definition:
\* each breaks one property, which shows that the property can fail.
Complete_Unchecked(f) == TRUE
Complete_OffByOne(f)  == buffered > Size(f)

Complete(f) == buffered >= Size(f)

\* The length is decoded from whatever bytes follow the type: a varint that
\* the chunk cuts short is an exception there, not null.
LengthCutShort(f) == buffered < HeaderSize(f) + f.head

\* The fields of a body fill its length exactly and have known types; what
\* they are is abstracted to that.
DefinitionParses(f) == f.class = "definition" => f.valid
UpdateParses(f)     == f.class = "update" => f.valid

\* A dictionary reference finds its line.
Resolvable(f) ==
  f.class = "update" /\ f.dict = "reference" => dictionaryCache[f.key] # None

Rejected(f) ==
  \/ f.class = "unknown"
  \/ /\ buffered > 1
     /\ \/ f.class = "unhandled"
        \/ f.class = "update" /\ lastTableDefinition = None
        \/ LengthCutShort(f)
        \/ Complete(f) /\ ~(DefinitionParses(f) /\ UpdateParses(f) /\ Resolvable(f))

Throws    == buffered > 0 /\ Rejected(NextFrame)
Completes == buffered > 0 /\ Complete(NextFrame) /\ ~Rejected(NextFrame)

-----------------------------------------------------------------------------
\* What parsing a frame leaves in the parser and pushes.

NextUpdateId_OnlyExplicit(f) ==
  IF f.class = "update" /\ ~f.incremental THEN f.id ELSE lastUpdateId
CacheAfter_Cleared(f) ==
  IF f.class = "definition" THEN [key \in Keys |-> None]
  ELSE IF f.class = "update" /\ f.dict = "line"
  THEN [dictionaryCache EXCEPT ![f.key] = f.word]
  ELSE dictionaryCache

\* parseEntryUpdate: an incremental update counts from the last one, of
\* whichever table.  Ids are not reduced to 32 bits.
UpdateId(f) == IF f.incremental THEN lastUpdateId + 1 ELSE f.id

NextUpdateId(f) == IF f.class = "update" THEN UpdateId(f) ELSE lastUpdateId

CacheAfter(f) ==
  IF f.class = "update" /\ f.dict = "line"
  THEN [dictionaryCache EXCEPT ![f.key] = f.word]
  ELSE dictionaryCache

\* The dictionary value of an update; None for an explicit null.
DictValue(f) ==
  CASE f.dict = "none"      -> None
    [] f.dict = "line"      -> f.word
    [] f.dict = "reference" -> dictionaryCache[f.key]

Message(f) ==
  CASE f.class = "definition" -> [class |-> "definition", table |-> f.table]
    [] f.class = "update"     -> [class |-> "update",
                                  table |-> lastTableDefinition,
                                  id    |-> UpdateId(f),
                                  dict  |-> DictValue(f)]
    [] OTHER                  -> [class |-> "control"]

Accept(f) ==
  /\ lastTableDefinition' = IF f.class = "definition" THEN f.table
                                                      ELSE lastTableDefinition
  /\ lastUpdateId' = NextUpdateId(f)
  /\ dictionaryCache' = CacheAfter(f)
  /\ pushed' = Append(pushed, Message(f))

\* An iteration of the loop that consumes a message.
ParseMessage ==
  /\ inTransform
  /\ Completes
  /\ Accept(NextFrame)
  /\ parsed' = parsed + 1
  /\ consumed' = consumed + Size(NextFrame)
  /\ UNCHANGED <<sent, ends, received, inTransform, failed>>

\* The same, but a listener of the message throws into push(): the exception
\* ends the stream like a parse error.
ListenerThrows ==
  /\ inTransform
  /\ Completes
  /\ Accept(NextFrame)
  /\ failed' = "listener"
  /\ inTransform' = FALSE
  /\ UNCHANGED <<sent, ends, received, consumed, parsed>>

\* The loop's last iteration: no complete message, the rest is kept.
Exhausted ==
  /\ inTransform
  /\ ~Throws /\ ~Completes
  /\ inTransform' = FALSE
  /\ UNCHANGED <<sent, ends, received, consumed, parsed, state, pushed,
                 failed>>

\* parseMessage throws: callback(error), which destroys the stream.
ParseError ==
  /\ inTransform
  /\ Throws
  /\ failed' = "parse"
  /\ inTransform' = FALSE
  /\ UNCHANGED <<sent, ends, received, consumed, parsed, state, pushed>>

Next ==
  \/ \E f \in Frames : PeerSend(f)
  \/ \E bytes \in 1..inFlight : Transform(bytes)
  \/ ParseMessage \/ ListenerThrows \/ Exhausted \/ ParseError

Spec == Init /\ [][Next]_vars

\* The network delivers what was sent, and _transform runs to its end; that
\* listeners throw or that peers send is not assumed.
FairSpec ==
  /\ Spec
  /\ WF_vars(\E bytes \in 1..inFlight : Transform(bytes))
  /\ WF_vars(ParseMessage) /\ WF_vars(Exhausted) /\ WF_vars(ParseError)

-----------------------------------------------------------------------------
\* Type invariant of the parser's fields and of the stream around it.
TypeOK ==
  /\ sent \in Seq(Frames)
  /\ ends \in Seq(Nat) /\ Len(ends) = Len(sent)
  /\ consumed \in Nat /\ received \in consumed..EndOf(Len(sent))
  /\ inTransform \in BOOLEAN
  /\ parsed \in 0..Len(sent)
  /\ lastTableDefinition \in Tables \cup {None}
  /\ lastUpdateId \in Nat
  /\ dictionaryCache \in [Keys -> Words \cup {None}]
  /\ pushed \in Seq(Messages)
  /\ failed \in {"no", "parse", "listener"}

\* The application sees the stream's meaning, message for message and in
\* order, however the network cuts it: the table an update belongs to, the
\* id it counts to and the word a dictionary reference stands for.
PushedAsSent ==
  /\ Len(pushed) = IF failed = "listener" THEN parsed + 1 ELSE parsed
  /\ \A i \in 1..Len(pushed) : Means(sent, pushed[i], i)

\* The buffer ends inside a length varint.
LengthCut == buffered > 1 /\ LengthCutShort(NextFrame)

\* The parser gives a stream up only for a frame that cannot be understood
\* after the ones before it, or because a chunk ends inside a length: it
\* forgets nothing that later frames refer to.
FailureExplained == failed = "parse" => ~Understandable(sent, parsed + 1) \/ LengthCut

\* Between chunks no whole frame waits in the buffer, of however many frames a
\* chunk completed some: what a stream leaves unparsed when it ends, where
\* there is no _flush, is less than a frame.
NothingHeldBack ==
  failed = "no" /\ ~inTransform /\ parsed < Len(sent) => received < ends[parsed + 1]

\* What the comments of parseMessage and of the two update parsers say: an
\* incomplete message is null.  Where chunks end never ends the stream.
IncompleteIsNull == failed = "parse" => ~Understandable(sent, parsed + 1)

\* Every frame is parsed in the end, unless the stream fails: a complete
\* message never waits in the buffer for bytes that follow it.
AllParsed ==
  \A n \in 1..MaxFrames : Len(sent) >= n ~> (parsed >= n \/ failed # "no")
=============================================================================
