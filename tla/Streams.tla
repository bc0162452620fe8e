------------------------------- MODULE Streams -------------------------------
(***************************************************************************)
(* What mininasm writes: the output file through emit_buf, the listing and *)
(* stderr through message_buf, which they share.  The operators take the   *)
(* state of all streams and return it changed.  A unit stands for a piece  *)
(* of text, or for a byte of code.                                         *)
(***************************************************************************)
EXTENDS Integers, Sequences

CONSTANTS EmitSize, MessageSize     \* units that fit in emit_buf and message_buf

\* A text is one or two units, and the buffer holds each.
ASSUME BuffersAssumption == EmitSize \in Nat \ {0} /\ MessageSize \in Nat \ {0, 1}

\* The contents of a file before mininasm runs, and of one that was removed.
Stale == <<<<"stale">>>>
Absent == <<<<"absent">>>>

NewStreams ==
    [emit |-> <<>>, message |-> <<>>,   \* the buffers
     data |-> FALSE,                    \* message_bbb.data: is it for stderr, too?
     output |-> Stale, listing |-> Stale, stderr |-> <<>>,
     listing_fd |-> "none",             \* or "open", or "closed" but kept
     full |-> {},                       \* the files that cannot be written any more
     failed |-> FALSE]                  \* has exit(3) been called?

\* Both parts of a message begin and end in the buffer.
TextOf(where, what) == <<<<"message", where, what>>, <<"end">>>>

\* message_flush() has given up the listing: a last message, and exit(3).  The
\* place in the source that such messages name is left out.
GiveUp(io, what) ==
    [io EXCEPT !.stderr = @ \o TextOf(<<>>, what), !.message = <<>>, !.failed = TRUE]

MessageFlush(io) ==
    LET shown == [io EXCEPT !.message = <<>>,
                            !.stderr = IF io.data THEN @ \o io.message ELSE @]
    IN  IF io.failed \/ io.message = <<>> THEN io
        ELSE IF io.listing_fd = "none" THEN shown
        ELSE IF io.listing_fd = "closed" \/ "listing" \in io.full
        THEN GiveUp([shown EXCEPT !.listing_fd = "none"], "error_writing_listing")
        ELSE [shown EXCEPT !.listing = @ \o io.message]

\* Op(io), where io is computed only once.
Then(io, Op(_)) == CHOOSE after \in {Op(now) : now \in {io}} : TRUE

\* bbwrite1() for each unit, with message_flush() as the callback.  No text is
\* longer than the buffer.
BBPrintf(io, units) ==
    LET all == io.message \o units
        Rest(flushed) == IF flushed.failed THEN flushed
                         ELSE [flushed EXCEPT !.message = SubSeq(all, MessageSize + 1, Len(all))]
    IN  IF io.failed THEN io
        ELSE IF Len(all) <= MessageSize THEN [io EXCEPT !.message = all]
        ELSE Then(MessageFlush([io EXCEPT !.message = SubSeq(all, 1, MessageSize)]), Rest)

\* Faulty variant: what is meant for the listing is not flushed before.
MessageStartAtOnce(io) == [io EXCEPT !.data = TRUE]

MessageStart(io) ==
    IF io.data THEN io ELSE [MessageFlush(io) EXCEPT !.data = TRUE]

MessageEnd(io) == [MessageFlush(io) EXCEPT !.data = FALSE]

Message(io, where, what) ==
    Then(Then(MessageStart(io), LAMBDA started : BBPrintf(started, TextOf(where, what))),
         MessageEnd)

EmitFlush(io) ==
    IF io.failed \/ io.emit = <<>> THEN io
    ELSE IF "output" \in io.full
    THEN [Message(io, <<>>, "error_writing_output") EXCEPT !.failed = TRUE]
    ELSE [io EXCEPT !.output = @ \o io.emit, !.emit = <<>>]

\* emit_write() leaves no buffer full.
EmitWrite(io, units) ==
    LET all == io.emit \o units
        flushed == (Len(all) \div EmitSize) * EmitSize
    IN  IF io.failed THEN io
        ELSE IF flushed = 0 THEN [io EXCEPT !.emit = all]
        ELSE Then(EmitFlush([io EXCEPT !.emit = SubSeq(all, 1, flushed)]),
                  LAMBDA written : IF written.failed THEN written
                                   ELSE [written EXCEPT !.emit = SubSeq(all, flushed + 1, Len(all))])

\* read() into message_buf, whatever is in it.
ReadOver(io, data) ==
    [io EXCEPT !.message =
        [i \in DOMAIN io.message |-> IF i \in DOMAIN data THEN data[i] ELSE io.message[i]]]

\* Faulty variant: message_buf is used while it holds a part of the listing.
EmitFileUnflushed(io, data) == EmitWrite(ReadOver(io, data), data)

\* INCBIN: message_buf takes the contents of the file.
EmitFile(io, data) ==
    Then(MessageFlush(io), LAMBDA flushed : EmitWrite(ReadOver(flushed, data), data))

CreateListing(io) == [io EXCEPT !.listing = <<>>, !.listing_fd = "open"]
CreateOutput(io) == [io EXCEPT !.output = <<>>]

CloseListing(io) == [MessageFlush(io) EXCEPT !.listing_fd = "closed"]

=============================================================================
