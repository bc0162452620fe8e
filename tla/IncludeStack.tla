----------------------------- MODULE IncludeStack -----------------------------
(***************************************************************************)
(* The stack of files being read: entries of different lengths, one behind *)
(* the other in a fixed memory.  There are no links between them: the      *)
(* entry below is found by walking back over its file name.  A cell stands *)
(* for a field of an entry, or for a character of its file name.           *)
(***************************************************************************)
EXTENDS Integers, Sequences, FiniteSetsExt

CONSTANT StackSize     \* cells of assembly_stack

\* An entry begins with file_offset, level, avoid_level, line_number and zero.
NewFields == <<0, 1, 0, 0, 0>>
NameAt == Len(NewFields)       \* where input_filename begins

\* Entries are aligned, by NULs behind the file name, where the CPU demands it.
Padding(alignment, name) == -(NameAt + Len(name) + 1) % alignment
Entry(alignment, name) ==
    NewFields \o name \o <<0>> \o [i \in 1..Padding(alignment, name) |-> 0]

\* Faulty variant: assembly_p is left alone.
AboveStill(p, entry) == p

\* Where the entry above one at p begins.
Above(p, entry) == p + Len(entry)

\* Faulty variant: one character too many.
OverflowsLate(p, name) == p - 1 + NameAt + Len(name) > StackSize

\* assembly_push() at p finds no room for the file name.
Overflows(p, name) == p - 1 + NameAt + Len(name) >= StackSize

Stored(cells, p, values) ==
    [a \in DOMAIN cells |-> IF a - p + 1 \in DOMAIN values THEN values[a - p + 1] ELSE cells[a]]

NameIn(cells, aip) ==
    LET start == aip + NameAt
        end == Min({a \in DOMAIN cells : a >= start /\ cells[a] = 0})
    IN  SubSeq(cells, start, end - 1)

\* Faulty variant: the padding is taken for the end of the name.
NameEndBelowUnpadded(alignment, cells, aip) == aip - 2

\* The last character of the name below aip.
NameEndBelow(alignment, cells, aip) ==
    IF alignment = 1 THEN aip - 2 ELSE Max({a \in 1..aip - 1 : cells[a] # 0})

\* assembly_pop(): the field zero precedes the name.
EntryBelow(alignment, cells, aip) ==
    Max({a \in 1..NameEndBelow(alignment, cells, aip) : cells[a] = 0}) - (NameAt - 1)

=============================================================================
