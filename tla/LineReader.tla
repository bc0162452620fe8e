----------------------------- MODULE LineReader -----------------------------
(***************************************************************************)
(* How do_assembly() finds the lines of a source file: read() fills a      *)
(* buffer, comments and white space are made shorter in place, and an      *)
(* %INCLUDE gives up the buffer and resumes at a file offset later.        *)
(***************************************************************************)
EXTENDS Integers, Sequences, FiniteSetsExt

CONSTANTS
    Files,          \* the source files considered
    BufferSize,     \* sizeof(line_buf)
    MaxSize,        \* MAX_SIZE
    ShortReads,     \* may read() return less than it could?
    Includes        \* may a line be an %INCLUDE?

\* "x" ordinary, "q" a quote, ";" the start of a comment, "s" white space other
\* than newline, "n" newline, "0" NUL.
Bytes == {"x", "q", ";", "s", "n", "0"}

ASSUME FilesAssumption == Files \subseteq Seq(Bytes)
ASSUME SizesAssumption ==
    /\ MaxSize \in Nat \ {0, 1} /\ BufferSize \in Nat /\ BufferSize >= 2 * MaxSize
    /\ ShortReads \in BOOLEAN /\ Includes \in BOOLEAN

VARIABLES
    file,
    offset,                 \* of input_fd
    line_buf,               \* up to line_rend
    line, linep, p,         \* indexes into line_buf
    discarded_after_read,
    line_number,
    pc,                     \* "find_eol", "read", "scan", "line" or "closed"
    errors,
    delivered               \* history: the lines found, with their numbers

bufferVars == <<line_buf, line, linep, p, discarded_after_read>>
vars == <<file, offset, bufferVars, line_number, pc, errors, delivered>>

line_rend == Len(line_buf) + 1

\* The first index from i on whose byte is one of bytes, or line_rend.
Find(bytes, i) ==
    Min({j \in i..Len(line_buf) : line_buf[j] \in bytes} \cup {line_rend})

\* The first index from low on such that only white space follows it before i.
SpacesBefore(buffer, low, i) ==
    Min({j \in low..i : \A k \in j..i - 1 : buffer[k] = "s"})

Cut(buffer, end) == SubSeq(buffer, 1, end - 1)

Blank(from, to) == [i \in DOMAIN line_buf |-> IF i \in from..to THEN "s" ELSE line_buf[i]]

Close(error) == pc' = "closed" /\ errors' = errors \cup error

-----------------------------------------------------------------------------

\* Faulty variant: the check of the moved bytes is missing by one.
TooLongToMoveOffByOne == line # 1 /\ line_rend - line >= MaxSize - 1

TooLongToMove == line # 1 /\ line_rend - line >= MaxSize

\* There is no newline: move the bytes that remain to the start, to read more.
MoreIsNeeded ==
    /\ pc = "find_eol"
    /\ Find({"n"}, line) = line_rend
    /\ IF TooLongToMove
       THEN /\ Close({"assembly line too long"})
            /\ UNCHANGED bufferVars
       ELSE /\ line_buf' = SubSeq(line_buf, line, Len(line_buf))
            /\ line' = 1
            /\ p' = line_rend - line + 1
            /\ pc' = "read"
            /\ UNCHANGED <<errors, linep, discarded_after_read>>
    /\ UNCHANGED <<file, offset, line_number, delivered>>

FindLine ==
    /\ pc = "find_eol"
    /\ LET newline == Find({"n"}, line)
           end == SpacesBefore(line_buf, line, newline)
       IN  /\ newline # line_rend
           /\ linep' = newline + 1
           /\ IF end - line >= MaxSize
              THEN /\ Close({"assembly line too long"})
                   /\ UNCHANGED delivered
              ELSE /\ pc' = "line"
                   /\ delivered' = Append(delivered,
                          [text |-> SubSeq(line_buf, line, end - 1), number |-> line_number])
                   /\ UNCHANGED errors
    /\ UNCHANGED <<file, offset, line_buf, line, p, discarded_after_read, line_number>>

StartScan == pc' = "scan" /\ p' = line /\ linep' = line

\* Faulty variant: room for the newline is counted.
RoomForNewline == BufferSize + 1 - Len(line_buf)

Room == BufferSize - Len(line_buf)

NoRoom ==
    /\ pc = "read"
    /\ Room <= 0
    /\ Close({"assembly line too long"})
    /\ discarded_after_read' = 0
    /\ UNCHANGED <<file, offset, line_buf, line, linep, p, line_number, delivered>>

ReadFails ==
    /\ pc = "read"
    /\ Room > 0
    /\ Close({"error reading assembly file"})
    /\ discarded_after_read' = 0
    /\ UNCHANGED <<file, offset, line_buf, line, linep, p, line_number, delivered>>

ReadBytes ==
    /\ pc = "read"
    /\ Room > 0 /\ offset < Len(file)
    /\ LET most == Min({Room, Len(file) - offset})
       IN  \E got \in IF ShortReads THEN 1..most ELSE {most} :
              /\ line_buf' = line_buf \o SubSeq(file, offset + 1, offset + got)
              /\ offset' = offset + got
              /\ IF got = Room THEN StartScan ELSE UNCHANGED <<pc, p, linep>>
    /\ discarded_after_read' = 0
    /\ UNCHANGED <<file, line, line_number, errors, delivered>>

\* Faulty variant: the end of the file ends the reading at once.
ReadEndAtOnce ==
    /\ pc = "read"
    /\ Room > 0 /\ offset >= Len(file)
    /\ Close({})
    /\ UNCHANGED <<file, offset, bufferVars, line_number, delivered>>

\* Faulty variant: at the end there is always one more line.
ReadEndAgain ==
    /\ pc = "read"
    /\ Room > 0 /\ offset >= Len(file)
    /\ pc' = "find_eol"
    /\ UNCHANGED <<file, offset, bufferVars, line_number, errors, delivered>>

\* The end of the file: either of the whole, or a newline is put behind what was
\* read before.
ReadEnd ==
    /\ pc = "read"
    /\ Room > 0 /\ offset >= Len(file)
    /\ discarded_after_read' = 0
    /\ IF p = line_rend
       THEN /\ Close({})
            /\ UNCHANGED <<line_buf, linep, p>>
       ELSE /\ line_buf' = Append(line_buf, "n")
            /\ StartScan
            /\ UNCHANGED errors
    /\ UNCHANGED <<file, offset, line, line_number, delivered>>

-----------------------------------------------------------------------------
(* The scan of the buffer. *)

unchangedByScan == <<file, offset, line, line_number, delivered>>

AtByte(b) == pc = "scan" /\ p # line_rend /\ line_buf[p] = b

ScanQuote ==
    /\ AtByte("q")
    /\ LET end == Find({"q", "n"}, p + 1)
           nuls == {i \in p + 1..end - 1 : line_buf[i] = "0"}
       IN  /\ p' = IF end = line_rend THEN end ELSE end + 1
           /\ linep' = IF end # line_rend /\ line_buf[end] = "n" THEN end + 1 ELSE linep
           /\ line_buf' = [i \in DOMAIN line_buf |-> IF i \in nuls THEN "s" ELSE line_buf[i]]
           /\ errors' = IF nuls = {} THEN errors ELSE errors \cup {"quoted NUL found"}
    /\ UNCHANGED <<pc, discarded_after_read, unchangedByScan>>

\* Up to the newline, a comment is white space.
ScanComment ==
    /\ AtByte(";")
    /\ LET end == Find({"n"}, p)
       IN  /\ end # line_rend
           /\ line_buf' = Blank(p, end - 1)
           /\ p' = end + 1 /\ linep' = end + 1
    /\ UNCHANGED <<pc, errors, discarded_after_read, unchangedByScan>>

\* Faulty variant: the cut comment does not begin again.
CutCommentEnds(start) == Cut(line_buf, start)

CutComment(start) == Append(Cut(line_buf, start), ";")

\* A comment that goes on behind the buffer is cut to its first byte.
ScanOpenComment ==
    /\ AtByte(";")
    /\ Find({"n"}, p) = line_rend
    /\ line_buf' = CutComment(SpacesBefore(line_buf, line, p))
    /\ p' = Len(line_buf') + 1
    /\ discarded_after_read' = Len(line_buf) - Len(line_buf')
    /\ IF linep # line
       THEN pc' = "find_eol" /\ UNCHANGED errors
       ELSE IF p' - linep >= MaxSize
       THEN Close({"assembly line too long"})
       ELSE pc' = "read" /\ UNCHANGED errors
    /\ UNCHANGED <<linep, unchangedByScan>>

ScanNewline ==
    /\ AtByte("n")
    /\ p' = p + 1 /\ linep' = p + 1
    /\ UNCHANGED <<pc, errors, line_buf, discarded_after_read, unchangedByScan>>

\* White space at the end of the buffer is cut to one byte.
ScanSpace ==
    /\ AtByte("s") \/ AtByte("0")
    /\ LET end == Min({i \in p + 1..line_rend :
                          i = line_rend \/ line_buf[i] \notin {"s", "0"}})
       IN  IF end = line_rend
           THEN /\ line_buf' = Cut(Blank(p, p), p + 1)
                /\ discarded_after_read' = line_rend - (p + 1)
                /\ pc' = "find_eol"
           ELSE /\ line_buf' = Blank(p, end - 1)
                /\ UNCHANGED <<discarded_after_read, pc>>
    /\ p' = p + 1
    /\ UNCHANGED <<errors, linep, unchangedByScan>>

ScanOther ==
    /\ AtByte("x")
    /\ p' = p + 1
    /\ UNCHANGED <<pc, errors, linep, line_buf, discarded_after_read, unchangedByScan>>

EndScan ==
    /\ pc = "scan" /\ p = line_rend
    /\ pc' = "find_eol"
    /\ UNCHANGED <<errors, bufferVars, unchangedByScan>>

-----------------------------------------------------------------------------
(* The line has been processed. *)

NextLine ==
    /\ pc = "line"
    /\ line' = linep
    /\ line_number' = line_number + 1
    /\ pc' = "find_eol"
    /\ UNCHANGED <<file, offset, line_buf, linep, p, discarded_after_read, errors, delivered>>

\* Faulty variant: what was cut off is forgotten.
ResumeOffsetWithoutDiscarded == offset + (linep - line_rend)

\* Where the file goes on behind an %INCLUDE.
ResumeOffset == offset + (linep - line_rend) - discarded_after_read

\* The included file has its own reader; then this file is opened again.
IncludeLine ==
    /\ pc = "line"
    /\ Includes
    /\ "x" \in {delivered[Len(delivered)].text[i] : i \in DOMAIN delivered[Len(delivered)].text}
    /\ offset' = ResumeOffset
    /\ line_buf' = <<>>
    /\ line' = 1 /\ linep' = 1 /\ discarded_after_read' = 0
    /\ p' = 1
    /\ line_number' = line_number + 1
    /\ pc' = "find_eol"
    /\ UNCHANGED <<file, errors, delivered>>

Done == pc = "closed" /\ UNCHANGED vars

Init ==
    /\ file \in Files
    /\ offset = 0
    /\ line_buf = <<>> /\ line = 1 /\ linep = 1 /\ p = 1
    /\ discarded_after_read = 0
    /\ line_number = 1
    /\ pc = "find_eol"
    /\ errors = {}
    /\ delivered = <<>>

FindEol == FindLine \/ MoreIsNeeded
ReadMore == NoRoom \/ ReadBytes \/ ReadEnd
Scan == \/ ScanQuote \/ ScanComment \/ ScanOpenComment \/ ScanNewline
        \/ ScanSpace \/ ScanOther \/ EndScan

Reader == FindEol \/ ReadMore \/ Scan \/ NextLine \/ IncludeLine

Next == Reader \/ ReadFails \/ Done

Spec == Init /\ [][Next]_vars /\ WF_vars(Reader)

=============================================================================
