------------------------------ MODULE Framing ------------------------------
(***************************************************************************)
(* The wire codec (internal/protocol/codec.go): envelopes written as a     *)
(* length prefix and a body on a byte stream, by several goroutines that   *)
(* share one Encoder, and read back by a Decoder whose reads may be cut    *)
(* short by a deadline at any byte.                                        *)
(*                                                                         *)
(* The stream is a sequence of cells.  A frame is two prefix cells and as  *)
(* many body cells as its size says; a cell names the write that put it    *)
(* there and its place in that frame.  Sizes are classes: 0, within the    *)
(* control budget, within the data budget only, above both.                *)
(***************************************************************************)
EXTENDS Naturals, Sequences, SequencesExt

CONSTANTS Frames,       \* envelopes that callers may encode, each once
          MaxControl,   \* MaxControlMessageSize, in cells
          MaxMessage,   \* DefaultMaxMessageSize, in cells
          MaxCuts       \* deadline expiries and broken writes, together

ASSUME FramingAssumption ==
    /\ MaxControl \in Nat \ {0} /\ MaxMessage \in Nat /\ MaxControl < MaxMessage
    /\ MaxCuts \in Nat

VARIABLES shape,     \* what each envelope is: its size, kind and version
          coder,     \* each Encode call: not made, writing, done, broken, refused
          written,   \* cells of the call's frame already on the stream
          writer,    \* the holder of the Encoder's mutex, if any
          stream,    \* cells written and not yet read
          reader,    \* the Decoder's current call: idle, prefix or body
          taken,     \* cells the current call has consumed
          terminal,  \* the Decoder is latched on its first error
          delivered, \* envelopes Decode has returned
          cuts       \* expiries and broken writes so far

frameVars == <<shape, coder, written, writer, stream, reader, taken, terminal,
               delivered, cuts>>

Prefix == 2

\* A frame as the peer may have made it: this release's Encoder refuses some
\* of these itself, a peer of another release or a broken one need not.
Shapes == [size : 0..(MaxMessage + 1), bulk : BOOLEAN, newer : BOOLEAN, ours : BOOLEAN]

FramingInit ==
    /\ shape \in [Frames -> {x \in Shapes : ~ (x.ours /\ x.newer)}]
    /\ coder = [f \in Frames |-> "new"]
    /\ written = [f \in Frames |-> 0]
    /\ writer = {}
    /\ stream = <<>> /\ reader = "idle" /\ taken = <<>>
    /\ terminal = FALSE /\ delivered = <<>> /\ cuts = 0

----------------------------------------------------------------------------
(* Encoder                                                                 *)

\* An empty payload, an envelope past the message limit, and a control frame
\* past the control limit are refused before a byte is written.
EncodeRefuses(f) ==
    /\ coder[f] = "new" /\ shape[f].ours
    /\ \/ shape[f].size = 0 \/ shape[f].size > MaxMessage
       \/ ~ shape[f].bulk /\ shape[f].size > MaxControl
    /\ coder' = [coder EXCEPT ![f] = "refused"]
    /\ UNCHANGED <<shape, written, writer, stream, reader, taken, terminal, delivered, cuts>>

Encodable(f) ==
    ~ shape[f].ours \/ /\ shape[f].size \in 1..MaxMessage
                       /\ shape[f].bulk \/ shape[f].size <= MaxControl

EncodeBegins_NoMutex(f) ==
    /\ coder[f] = "new" /\ Encodable(f)
    /\ coder' = [coder EXCEPT ![f] = "writing"]
    /\ UNCHANGED <<shape, written, writer, stream, reader, taken, terminal, delivered, cuts>>

EncodeBegins(f) ==
    /\ coder[f] = "new" /\ Encodable(f) /\ writer = {}
    /\ coder' = [coder EXCEPT ![f] = "writing"]
    /\ writer' = {f}
    /\ UNCHANGED <<shape, written, stream, reader, taken, terminal, delivered, cuts>>

\* One cell more of the buffer; the last one returns the mutex.
EncodeWrites(f) ==
    /\ coder[f] = "writing"
    /\ stream' = Append(stream, [of |-> f, place |-> written[f] + 1])
    /\ written' = [written EXCEPT ![f] = @ + 1]
    /\ LET last == written[f] + 1 = Prefix + shape[f].size IN
        /\ coder' = [coder EXCEPT ![f] = IF last THEN "sent" ELSE @]
        /\ writer' = IF last THEN writer \ {f} ELSE writer
    /\ UNCHANGED <<shape, reader, taken, terminal, delivered, cuts>>

\* A write error or a short write: the call fails where it is.  The Encoder
\* has no latch; the next call writes behind the partial frame.
EncodeBreaks(f) ==
    /\ coder[f] = "writing" /\ cuts < MaxCuts
    /\ cuts' = cuts + 1
    /\ coder' = [coder EXCEPT ![f] = "broken"]
    /\ writer' = writer \ {f}
    /\ UNCHANGED <<shape, written, stream, reader, taken, terminal, delivered>>

----------------------------------------------------------------------------
(* Decoder                                                                 *)

Result(latched) ==
    /\ reader' = "idle" /\ taken' = <<>>
    /\ terminal' = (terminal \/ latched)

DecodeBegins ==
    /\ reader = "idle" /\ ~ terminal
    /\ reader' = "prefix"
    /\ UNCHANGED <<shape, coder, written, writer, stream, taken, terminal, delivered, cuts>>

\* io.ReadFull takes what the stream has, a cell at a time.
DecodeReads ==
    /\ \/ reader = "prefix" /\ Len(taken) < Prefix
       \/ reader = "body" /\ Len(taken) < Prefix + shape[taken[1].of].size
    /\ stream # <<>>
    /\ taken' = Append(taken, Head(stream))
    /\ stream' = Tail(stream)
    /\ UNCHANGED <<shape, coder, written, writer, reader, terminal, delivered, cuts>>

\* A deadline expires inside ReadFull: fatal once a byte has been consumed,
\* harmless at a frame boundary.
DecodeCut ==
    /\ cuts < MaxCuts /\ cuts' = cuts + 1
    /\ reader \in {"prefix", "body"}
    /\ Result(taken # <<>>)
    /\ UNCHANGED <<shape, coder, written, writer, stream, delivered>>

\* The prefix is whole: a length of zero or above the limit is fatal.  A
\* prefix that mixes two writes is a number nobody chose: the body it asks
\* for does not parse, which ends the same way.
PrefixRead ==
    /\ reader = "prefix" /\ Len(taken) = Prefix
    /\ LET whole == taken[1].of = taken[2].of
           size  == shape[taken[1].of].size IN
       IF whole /\ size \in 1..MaxMessage
       THEN reader' = "body" /\ UNCHANGED <<taken, terminal>>
       ELSE Result(TRUE)
    /\ UNCHANGED <<shape, coder, written, writer, stream, delivered, cuts>>

OneFrame == \A i \in DOMAIN taken : taken[i] = [of |-> taken[1].of, place |-> i]

\* The body is whole: it must parse, carry a version this release knows and
\* respect the control budget.  Bytes of two frames do not parse.
BodyRead ==
    /\ reader = "body" /\ Len(taken) = Prefix + shape[taken[1].of].size
    /\ LET f == taken[1].of IN
       IF OneFrame /\ ~ shape[f].newer /\ (shape[f].bulk \/ shape[f].size <= MaxControl)
       THEN delivered' = Append(delivered, f) /\ Result(FALSE)
       ELSE delivered' = delivered /\ Result(TRUE)
    /\ UNCHANGED <<shape, coder, written, writer, stream, cuts>>

FramingNext ==
    \/ \E f \in Frames : \/ EncodeRefuses(f) \/ EncodeBegins(f)
                         \/ EncodeWrites(f) \/ EncodeBreaks(f)
    \/ DecodeBegins \/ DecodeReads \/ DecodeCut \/ PrefixRead \/ BodyRead

FramingSpec == FramingInit /\ [][FramingNext]_frameVars

----------------------------------------------------------------------------
FramingTypeOK ==
    /\ shape \in [Frames -> Shapes]
    /\ coder \in [Frames -> {"new", "writing", "sent", "broken", "refused"}]
    /\ written \in [Frames -> 0..(Prefix + MaxMessage + 1)]
    /\ writer \subseteq Frames
    /\ reader \in {"idle", "prefix", "body"} /\ terminal \in BOOLEAN
    /\ cuts \in 0..MaxCuts

\* A Decoder that may still be called stands at the first byte of a frame:
\* whatever deadline cut whatever read, and however writers broke off, body
\* bytes are never taken for the next length.  With writers that share an
\* Encoder this needs both its mutex and the Decoder's latch.
NeverResumesInsideAFrame ==
    (reader = "idle" /\ ~ terminal /\ stream # <<>>) => Head(stream).place = 1

\* What Decode returns was written whole, is within its budget and is not
\* returned twice; a frame this release sends always passes the peer's check.
DeliversWhatWasSent ==
    /\ \A i \in DOMAIN delivered :
          LET f == delivered[i] IN
            /\ coder[f] = "sent"
            /\ shape[f].bulk \/ shape[f].size <= MaxControl
    /\ IsInjective(delivered)
    /\ (cuts = 0 /\ \A f \in Frames : shape[f].ours) => ~ terminal

\* The codec keeps both ends on frame boundaries and delivers sent envelopes.
FramesSound == FramingTypeOK /\ NeverResumesInsideAFrame /\ DeliversWhatWasSent
=============================================================================
