------------------------ MODULE LineReaderProperties ------------------------
(***************************************************************************)
(* Properties of the line reader, against the lines of the whole file.     *)
(***************************************************************************)
EXTENDS LineReader, SequencesExt

\* Every variable has a value of its kind.
TypeOK ==
    /\ file \in Seq(Bytes) /\ offset \in 0..Len(file)
    /\ line_buf \in Seq(Bytes) /\ Len(line_buf) <= BufferSize
    /\ line \in 1..line_rend /\ p \in 1..line_rend + 1
    /\ linep \in 1..BufferSize + 1
    /\ discarded_after_read \in 0..BufferSize
    /\ line_number \in Nat \ {0}
    /\ pc \in {"find_eol", "read", "scan", "line", "closed"}
    /\ errors \subseteq {"assembly line too long", "error reading assembly file",
                         "quoted NUL found"}

-----------------------------------------------------------------------------
(* What the lines of a file are. *)

Newlines == {i \in 1..Len(file) : file[i] = "n"}

\* The lines, by the indexes of their first bytes; behind the last newline there is
\* one more if any bytes are left.
Starts == {i \in 1..Len(file) : i = 1 \/ file[i - 1] = "n"}

EndOf(start) == Min({i \in Newlines : i >= start} \cup {Len(file) + 1}) - 1

InQuotes(start, i) == Cardinality({j \in start..i - 1 : file[j] = "q"}) % 2 = 1

\* Where the comment begins; a semicolon in quotes is none.  A quote in a comment
\* can only come behind its start.
CodeEnd(start) ==
    LET end == EndOf(start)
        comment == Min({i \in start..end : file[i] = ";" /\ ~InQuotes(start, i)} \cup {end + 1})
    IN  Min({j \in start..comment : \A k \in j..comment - 1 : file[k] \in {"s", "0"}}) - 1

\* White space behind a quote that is not closed belongs to the line.
Width(start) ==
    (IF InQuotes(start, CodeEnd(start) + 1) THEN EndOf(start) ELSE CodeEnd(start)) - start + 1

\* The bytes of the line; white space outside of quotes is one space.
Collapsed(text) ==
    LET quoted(i) == Cardinality({j \in 1..i - 1 : text[j] = "q"}) % 2 = 1
        kept == {i \in DOMAIN text : text[i] # "s" \/ quoted(i) \/ i = 1 \/ text[i - 1] # "s"}
    IN  [k \in 1..Cardinality(kept) |->
            text[CHOOSE i \in kept : Cardinality({j \in kept : j < i}) = k - 1]]

WithoutNul(text) == [i \in DOMAIN text |-> IF text[i] = "0" THEN "s" ELSE text[i]]

Text(start) == Collapsed(WithoutNul(SubSeq(file, start, CodeEnd(start))))

StartsInOrder == SetToSortSeq(Starts, <)

Texts == [k \in DOMAIN StartsInOrder |-> Text(StartsInOrder[k])]

NotEmpty(texts) == SelectSeq(texts, LAMBDA t : t # <<>>)

Delivered == [k \in DOMAIN delivered |-> Collapsed(delivered[k].text)]

-----------------------------------------------------------------------------

\* A reader that has reached the end of the file without an error has found all
\* lines: ReadEnd puts a newline behind a last line without one.
LastLineIsFound ==
    pc = "closed" /\ errors \subseteq {"quoted NUL found"} =>
        NotEmpty(Delivered) = NotEmpty(Texts)

\* Wherever the reads end, the lines found are the lines of the file, without
\* comments: none is split, joined, lost in the middle or taken twice; nor is one
\* lost at the end, if the last one ends in a newline.
LinesAreRight ==
    /\ IsPrefix(NotEmpty(Delivered), NotEmpty(Texts))
    /\ file # <<>> /\ Last(file) = "n" => LastLineIsFound

\* Messages and the listing give each line its number in the file.
NumbersAreRight ==
    \A k \in DOMAIN delivered :
        Delivered[k] # <<>> => /\ delivered[k].number \in DOMAIN Texts
                               /\ Delivered[k] = Texts[delivered[k].number]

\* Behind an %INCLUDE the file goes on at the next line; or, because a newline that
\* was put behind the file counts as one of its bytes, at the newline before it.
ResumesBetweenLines ==
    pc = "line" => \/ ResumeOffset = Len(file)
                   \/ ResumeOffset \in {start - 1 : start \in Starts}
                   \/ file[ResumeOffset + 1] = "n"

\* A line is too long when its code is; white space and comments behind it do not
\* count (src/README:285), save for the byte that stands for what was cut.
TooLongIsNearlyTrue ==
    "assembly line too long" \in errors => \E start \in Starts : Width(start) >= MaxSize - 1

\* The reader gets to the end of every file, whatever it cuts off and reads again.
Ends == <>(pc = "closed")

=============================================================================
