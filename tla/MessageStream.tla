--------------------------- MODULE MessageStream ---------------------------
(***************************************************************************)
(* One direction of a connection: DefaultCodeC over the two RingBuffers at *)
(* its ends.  The sender is TcpClient::SendAll or the answering half of    *)
(* TcpConnection::ProcessMag, the receiver TcpClient::Receive or the other *)
(* half: they use buffers and codec alike, one Decode after every readv.   *)
(*                                                                         *)
(* Cells are numbered, so that any that is lost, repeated or moved shows.  *)
(* The first HeaderLen cells of a frame are its length.                    *)
(***************************************************************************)
EXTENDS RingBuffer, SequencesExt

CONSTANTS HeaderLen,        \* sizeof(PackageLengthType)
          Payloads,         \* lengths of messages
          MaxFrames         \* bound: messages sent

ASSUME StreamConstants ==
    /\ HeaderLen \in Nat \ {0} /\ MaxFrames \in Nat
    /\ Payloads \subseteq Nat

VARIABLES
    pipelined,              \* a sender does not wait until its last message was
                            \* taken; never changes
    frames,                 \* the lengths of the messages sent
    output, pipe, input,    \* m_output_buffer_, the socket, m_input_buffer_
    receiver,               \* before a readv or before the Decode that follows it
    received,               \* the messages that Decode has returned
    mishap                  \* "none", or what has spoilt the stream

streamVars == <<pipelined, frames, output, pipe, input, receiver, received, mishap>>

(* The k-th cell of message f. *)
Cell(f, k) == [frame |-> f, nth |-> k]
Header(f)  == [k \in 1..HeaderLen |-> Cell(f, k)]
Payload(f, len) == [k \in 1..len |-> Cell(f, HeaderLen + k)]

StreamInit ==
    /\ pipelined \in BOOLEAN
    /\ frames = <<>>
    /\ output = NewRing(Cell(0, 0)) /\ input = NewRing(Cell(0, 0))
    /\ pipe = <<>> /\ receiver = "fetch" /\ received = <<>>
    /\ mishap = "none"

(* The length that the first cells of a buffer say. *)
PackageSize(r) == frames[Peek(r, HeaderLen)[1].frame]

-----------------------------------------------------------------------------
(* Broken variants, no part of the system: see RingBuffer.                       *)

DecodableWithMore(r) == r.size >= HeaderLen /\ r.size > HeaderLen + PackageSize(r)

DecodeNothingReadsLength ==
    /\ receiver = "decode"
    /\ input.size >= HeaderLen /\ input.size < HeaderLen + PackageSize(input)
    /\ input' = AfterReading(input, HeaderLen)
    /\ receiver' = "fetch"
    /\ UNCHANGED <<pipelined, frames, output, pipe, received, mishap>>

-----------------------------------------------------------------------------
(* The sender.                                                                  *)

(* Encode: the length and then the message. *)
Encode(r, f, len) == Write(Write(r, Header(f)), Payload(f, len))

(* TcpClient sends nothing for an empty message; a server's answer may be empty. *)
MaySend ==
    /\ Len(frames) < MaxFrames
    /\ pipelined \/ (pipe = <<>> /\ input.size = 0 /\ receiver = "fetch")

(* The hooked writev, when the socket takes everything at once, or part of it and in
   the following write the rest. *)
Send(len) ==
    LET encoded == Encode(output, Len(frames) + 1, len)
    IN  /\ MaySend
        /\ frames' = Append(frames, len)
        /\ pipe' = pipe \o Flushed(encoded)
        /\ output' = AfterRead(encoded, Len(Flushed(encoded)))
        /\ UNCHANGED <<pipelined, input, receiver, received, mishap>>

(* That write, when it is interrupted in its turn, starts over with its first byte:
   what it had written already goes out again, and writev, which counts too much,
   fails. *)
SendInThree(len) ==
    LET encoded == Encode(output, Len(frames) + 1, len)
        all     == Flushed(encoded)
    IN  /\ MaySend /\ mishap = "none"
        /\ frames' = Append(frames, len)
        /\ \E n \in 1..(Len(all) - 1), m \in 1..(Len(all) - 1) :
              /\ n + m < Len(all)
              /\ pipe' = pipe \o SubSeq(all, 1, n + m) \o SubSeq(all, n + 1, Len(all))
        /\ output' = encoded
        /\ mishap' = "repeated"
        /\ UNCHANGED <<pipelined, input, receiver, received>>

-----------------------------------------------------------------------------
(* The receiver.                                                                *)

(* readv takes what has arrived; the rest of the pipe is still under way. *)
FetchSome ==
    /\ receiver = "fetch"
    /\ \E n \in 1..Least(Len(pipe), FetchLimit(input)) :
          LET s == SubSeq(pipe, 1, n)
          IN  /\ pipe' = SubSeq(pipe, n + 1, Len(pipe))
              /\ input' = Fetch(input, s)
              /\ mishap' = IF Overruns(input, s) THEN "overrun" ELSE mishap
    /\ receiver' = "decode"
    /\ UNCHANGED <<pipelined, frames, output, received>>

Decodable(r) == r.size >= HeaderLen /\ r.size >= HeaderLen + PackageSize(r)

DecodeNothing ==
    /\ receiver = "decode" /\ ~Decodable(input)
    /\ receiver' = "fetch"
    /\ UNCHANGED <<pipelined, frames, output, pipe, input, received, mishap>>

(* An empty message looks to the caller like an incomplete one. *)
DecodeOne ==
    LET len     == PackageSize(input)
        headed  == AfterReading(input, HeaderLen)
        message == Peek(headed, len)
    IN  /\ receiver = "decode" /\ Decodable(input)
        /\ input' = AfterReading(headed, len)
        /\ received' = IF message = <<>> THEN received ELSE Append(received, message)
        /\ receiver' = "fetch"
        /\ UNCHANGED <<pipelined, frames, output, pipe, mishap>>

-----------------------------------------------------------------------------

Receive == FetchSome \/ DecodeNothing \/ DecodeOne

(* A stream that is spoilt is not followed any further. *)
StreamNext ==
    /\ mishap = "none"
    /\ \/ \E len \in Payloads : Send(len) \/ SendInThree(len)
       \/ Receive

(* The receiver goes on as long as there is something to read; each of its steps, and
   no other, turns it from the one place to the other.  Nobody has to send. *)
ReceiverTurns ==
    \/ receiver = "fetch" /\ pipe # <<>> /\ receiver' = "decode"
    \/ receiver = "decode" /\ receiver' = "fetch"

StreamFairness == WF_receiver(mishap = "none" /\ ReceiverTurns)

-----------------------------------------------------------------------------
(* What is checked.                                                             *)

(* Every variable holds a value of its type, and m_size_ is what m_begin_ and m_end_
   say it is. *)
StreamTypeOK ==
    /\ pipelined \in BOOLEAN /\ frames \in Seq(Payloads)
    /\ RingOK(output) /\ (mishap # "overrun" => RingOK(input))
    /\ receiver \in {"fetch", "decode"}
    /\ Len(received) <= Len(frames)
    /\ mishap \in {"none", "repeated", "overrun"}

(* The messages that a receiver is to see: an empty one is not seen. *)
ToReceive ==
    LET all == [f \in DOMAIN frames |-> Payload(f, frames[f])]
    IN  SelectSeq(all, LAMBDA m : m # <<>>)

(* The cells of frame f when messages of these lengths were sent. *)
FrameLen(lens, f) == HeaderLen + lens[f]

(* Frame f of s takes the cells from..to. *)
FrameAt(s, lens, f, from, to) ==
    /\ from >= 1 /\ to = from + FrameLen(lens, f) - 1 /\ to <= Len(s)
    /\ \A k \in 1..FrameLen(lens, f) : s[from + k - 1] = Cell(f, k)

(* s consists of whole frames, each with the next one behind it, up to the last sent. *)
WholeFrames(s, lens) ==
    \A i \in DOMAIN s :
        LET f    == s[i].frame
            from == i - s[i].nth + 1
            to   == i - s[i].nth + FrameLen(lens, f)
        IN  /\ f \in DOMAIN lens /\ s[i].nth \in 1..FrameLen(lens, f)
            /\ FrameAt(s, lens, f, from, to)
            /\ IF to = Len(s) THEN f = Len(lens) ELSE s[to + 1] = Cell(f + 1, 1)

FirstFrame(s, lens) == IF s = <<>> THEN Len(lens) + 1 ELSE s[1].frame

(* What was returned are the messages before f, in order; empty ones are not seen. *)
ReturnedBefore(f) ==
    /\ Range(received) = {Payload(g, frames[g]) : g \in {h \in 1..(f - 1) : frames[h] > 0}}
    /\ \A i, j \in DOMAIN received : i < j => received[i][1].frame < received[j][1].frame

(* The buffers and the codec are a FIFO, through every wrap and growth: what is in
   m_input_buffer_ and under way are the last frames sent, whole, in order and each
   once, and what Decode returned are the messages before them, in order and whole
   (RingBuffer.cpp:14-187, Codec.h:45-67; test_buffer.cpp and test_codeC.cpp for a
   writer and a reader in turn). *)
StreamInOrder ==
    mishap = "none" =>
        LET coming == Content(input) \o pipe
        IN  /\ WholeFrames(coming, frames)
            /\ ReturnedBefore(FirstFrame(coming, frames))

(* readv is never given space behind the array (RingBuffer.cpp:165-168) as long as a
   peer waits until its message was taken, as TcpClient does. *)
OverrunOnlyWhenPipelined == mishap = "overrun" => pipelined

(* Every message that is not empty is received, however it is cut into pieces, if its
   sender waits each time; with a second message behind the first, one Decode after
   each readv leaves the second in the buffer. *)
EveryMessageReceived ==
    \A k \in 1..MaxFrames :
        ~pipelined /\ Len(ToReceive) >= k ~> Len(received) >= k \/ mishap # "none"

=============================================================================
