--------------------------- MODULE LineReaderProofs ---------------------------
(***************************************************************************)
(* Proofs about the line reader, for files of every length and every size  *)
(* of the buffer: the file offset where the reader resumes behind an       *)
(* %INCLUDE is a place between two lines, whatever was cut from the buffer *)
(* before.                                                                 *)
(***************************************************************************)
EXTENDS LineReaderProperties, Induction

(* The inductive invariant; end is 1 from when a newline has been put behind the
   file until the buffer is given up, and 0 otherwise. *)

Scanned ==
    pc = "scan" => /\ line <= p /\ p <= line_rend /\ line <= linep
                   /\ discarded_after_read = 0
                   /\ linep = line => \A i \in line..p - 1 : line_buf[i] # "n"

Found ==
    pc = "line" => linep \in line + 1..line_rend /\ line_buf[linep - 1] = "n"

\* Once bytes have been cut, nothing is read behind a newline that waits.
Waiting ==
    pc = "read" /\ discarded_after_read # 0 =>
        \A i \in line..Len(line_buf) : line_buf[i] # "n"

Ended(end) ==
    end = 1 => /\ offset = Len(file) /\ discarded_after_read = 0
               /\ line_buf = <<>> \/ line_buf[Len(line_buf)] = "n"
               /\ pc = "read" => p = line_rend

\* The buffer has bytes of the file before the offset.
Fits(end) == Len(line_buf) - end <= offset - discarded_after_read

\* A newline in the buffer is that of the file, as far from the offset.
Aligned(end) ==
    \A i \in line..Len(line_buf) :
        line_buf[i] = "n" =>
            \/ end = 1 /\ i = Len(line_buf)
            \/ file[offset - discarded_after_read - (Len(line_buf) - i) + end] = "n"

ReaderInv ==
    /\ TypeOK
    /\ Scanned /\ Found /\ Waiting
    /\ \E end \in {0, 1} : Ended(end) /\ Fits(end) /\ Aligned(end)

-----------------------------------------------------------------------------
(* What the searches in the buffer find. *)

LEMMA MinIs ==
    ASSUME NEW S, S \subseteq Nat, S # {}
    PROVE  Min(S) \in S /\ \A x \in S : Min(S) <= x
<1>1. PICK x \in S : \A y \in S : x <= y
  BY Smallest
<1>2. QED
  BY <1>1 DEF Min

\* The first byte of a kind, or the end of the buffer.
LEMMA FindIs ==
    ASSUME line_buf \in Seq(Bytes), NEW bytes, NEW i \in 1..line_rend
    PROVE  /\ Find(bytes, i) \in i..line_rend
           /\ Find(bytes, i) # line_rend => line_buf[Find(bytes, i)] \in bytes
           /\ \A j \in i..Find(bytes, i) - 1 : line_buf[j] \notin bytes
<1> DEFINE S == {j \in i..Len(line_buf) : line_buf[j] \in bytes} \cup {line_rend}
<1>1. Len(line_buf) \in Nat /\ line_rend = Len(line_buf) + 1
  BY DEF line_rend
<1>2. S \subseteq i..line_rend /\ S \subseteq Nat /\ S # {}
  BY <1>1
<1>3. Min(S) \in S /\ \A x \in S : Min(S) <= x
  <2> HIDE DEF S
  <2> QED
    BY <1>2, MinIs
<1>4. Find(bytes, i) = Min(S)
  BY DEF Find
<1> DEFINE m == Find(bytes, i)
<1>5. m \in S /\ \A x \in S : m <= x
  BY <1>3, <1>4
<1>6. m \in i..line_rend
  BY <1>2, <1>5
<1>7. m # line_rend => line_buf[m] \in bytes
  <2> HIDE DEF m
  <2> QED
    BY <1>5
<1>8. ASSUME NEW j \in i..m - 1
      PROVE  line_buf[j] \notin bytes
  <2>1. j \notin S
    <3> HIDE DEF S, m
    <3> QED
      BY <1>5, <1>2, <1>6, <1>1
  <2>2. j \in i..Len(line_buf)
    <3> HIDE DEF m
    <3> QED
      BY <1>6, <1>1
  <2> HIDE DEF m
  <2> QED
    BY <2>1, <2>2
<1> QED
  BY <1>6, <1>7, <1>8

\* White space is looked for between low and i only.
LEMMA SpacesBeforeIs ==
    ASSUME NEW buffer, NEW low \in Nat, NEW i \in Nat, low <= i
    PROVE  SpacesBefore(buffer, low, i) \in low..i
<1> DEFINE S == {j \in low..i : \A k \in j..i - 1 : buffer[k] = "s"}
<1>1. S \subseteq Nat /\ i \in S /\ S \subseteq low..i
  OBVIOUS
<1>2. Min(S) \in S
  <2> HIDE DEF S
  <2> QED
    BY <1>1, MinIs
<1> QED
  BY <1>1, <1>2 DEF SpacesBefore

-----------------------------------------------------------------------------
(* The bounds of the variables. *)

ErrorTexts == {"assembly line too long", "error reading assembly file", "quoted NUL found"}

LEMMA InitIsTyped == Init => TypeOK
<1> SUFFICES ASSUME Init PROVE TypeOK
  OBVIOUS
<1>1. file \in Seq(Bytes) /\ BufferSize \in Nat
  BY FilesAssumption, SizesAssumption DEF Init
<1>2. line_buf \in Seq(Bytes) /\ Len(line_buf) = 0 /\ line_rend = 1
  BY DEF Init, line_rend
<1> QED
  BY <1>1, <1>2 DEF Init, TypeOK

Bounds ==
    /\ BufferSize \in Nat /\ BufferSize >= 4
    /\ line_buf \in Seq(Bytes) /\ Len(line_buf) \in Nat
    /\ line_rend = Len(line_buf) + 1
    /\ file \in Seq(Bytes) /\ Len(file) \in Nat
    /\ DOMAIN line_buf = 1..Len(line_buf)
    /\ offset \in 0..Len(file) /\ discarded_after_read \in 0..BufferSize
    /\ line \in 1..line_rend /\ p \in 1..line_rend + 1
    /\ linep \in 1..BufferSize + 1 /\ Len(line_buf) <= BufferSize

LEMMA Sizes == ASSUME TypeOK PROVE Bounds
<1>1. BufferSize \in Nat /\ BufferSize >= 4
  BY SizesAssumption
<1>2. line_buf \in Seq(Bytes) /\ file \in Seq(Bytes)
  BY DEF TypeOK
<1>3. /\ Len(line_buf) \in Nat /\ Len(file) \in Nat
      /\ DOMAIN line_buf = 1..Len(line_buf)
  BY <1>2
<1>4. /\ offset \in 0..Len(file) /\ discarded_after_read \in 0..BufferSize
      /\ line \in 1..line_rend /\ p \in 1..line_rend + 1
      /\ linep \in 1..BufferSize + 1 /\ Len(line_buf) <= BufferSize
  BY DEF TypeOK
<1>5. line_rend = Len(line_buf) + 1
  BY DEF line_rend
<1> QED
  BY <1>1, <1>2, <1>3, <1>4, <1>5 DEF Bounds

\* Only some bytes of a buffer change.
Spaced(old, N) == [i \in DOMAIN old |-> IF i \in N THEN "s" ELSE old[i]]

LEMMA SameLength ==
    ASSUME NEW old \in Seq(Bytes), NEW N
    PROVE  /\ Spaced(old, N) \in Seq(Bytes) /\ Len(Spaced(old, N)) = Len(old)
           /\ \A i \in 1..Len(old) : Spaced(old, N)[i] = IF i \in N THEN "s" ELSE old[i]
<1> DEFINE new == [i \in DOMAIN old |-> IF i \in N THEN "s" ELSE old[i]]
<1>1. DOMAIN old = 1..Len(old) /\ Len(old) \in Nat
  OBVIOUS
<1>2. \A i \in 1..Len(old) : new[i] \in Bytes
  <2>1. "s" \in Bytes
    BY DEF Bytes
  <2>2. \A i \in 1..Len(old) : old[i] \in Bytes
    OBVIOUS
  <2>3. \A i \in 1..Len(old) : new[i] = IF i \in N THEN "s" ELSE old[i]
    BY <1>1
  <2> QED
    BY <2>1, <2>2, <2>3
<1>3. DOMAIN new = 1..Len(old)
  BY <1>1
<1>4. new \in [1..Len(old) -> Bytes]
  BY <1>1, <1>2, <1>3
<1>5. new \in Seq(Bytes)
  BY <1>1, <1>4
<1>6. DOMAIN new = 1..Len(new) /\ Len(new) \in Nat
  BY <1>5
<1>7. Len(new) = Len(old)
  BY <1>1, <1>3, <1>6
<1> QED
  BY <1>1, <1>5, <1>7 DEF Spaced

\* The moved rest of a buffer.
LEMMA RestOf ==
    ASSUME NEW old \in Seq(Bytes), NEW i \in 1..Len(old) + 1, NEW new,
           new = SubSeq(old, i, Len(old))
    PROVE  /\ new \in Seq(Bytes) /\ Len(new) = Len(old) - i + 1
           /\ \A j \in 1..Len(new) : new[j] = old[j + i - 1]
<1>1. \A j \in i..Len(old) : old[j] \in Bytes
  OBVIOUS
<1>2. new = [j \in 1..Len(old) - i + 1 |-> old[j + i - 1]]
  OBVIOUS
<1>3. \A j \in 1..Len(old) - i + 1 : old[j + i - 1] \in Bytes
  BY <1>1
<1> QED
  BY <1>2, <1>3

LEMMA StartOf ==
    ASSUME NEW old \in Seq(Bytes), NEW i \in 1..Len(old) + 1, NEW new, new = Cut(old, i)
    PROVE  /\ new \in Seq(Bytes) /\ Len(new) = i - 1
           /\ \A j \in 1..i - 1 : new[j] = old[j]
<1>1. new = [j \in 1..i - 1 |-> old[j]]
  BY DEF Cut
<1>2. \A j \in 1..i - 1 : old[j] \in Bytes
  OBVIOUS
<1> QED
  BY <1>1, <1>2

\* The bytes read come behind those of the buffer.
Filled(old, f, o, got) == old \o SubSeq(f, o + 1, o + got)

LEMMA FilledIs ==
    ASSUME NEW old \in Seq(Bytes), NEW f \in Seq(Bytes), NEW o \in 0..Len(f),
           NEW got \in 0..Len(f) - o
    PROVE  LET new == Filled(old, f, o, got)
           IN  /\ new \in Seq(Bytes) /\ Len(new) = Len(old) + got
               /\ \A j \in 1..Len(old) : new[j] = old[j]
               /\ \A j \in Len(old) + 1..Len(new) : new[j] = f[o + j - Len(old)]
<1>1. PICK read \in Seq(Bytes) :
          /\ read = SubSeq(f, o + 1, o + got) /\ Len(read) = got
          /\ \A j \in 1..got : read[j] = f[j + o]
  <2>1. SubSeq(f, o + 1, o + got) = [j \in 1..got |-> f[j + o]]
    OBVIOUS
  <2>2. \A j \in 1..got : f[j + o] \in Bytes
    OBVIOUS
  <2> DEFINE r == SubSeq(f, o + 1, o + got)
  <2>3. r \in Seq(Bytes) /\ Len(r) = got /\ \A j \in 1..got : r[j] = f[j + o]
    BY <2>1, <2>2
  <2> QED
    BY <2>3, Zenon
<1>2. PICK new \in Seq(Bytes) : new = old \o read
  <2>1. old \o read \in Seq(Bytes)
    OBVIOUS
  <2> QED
    BY <2>1, Zenon
<1>3. Len(new) = Len(old) + got /\ \A j \in 1..Len(old) : new[j] = old[j]
  BY <1>1, <1>2
<1>4. ASSUME NEW j \in Len(old) + 1..Len(new)
      PROVE  new[j] = f[o + j - Len(old)]
  <2>1. new[j] = read[j - Len(old)]
    BY <1>1, <1>2, <1>3
  <2>2. read[j - Len(old)] = f[j - Len(old) + o]
    BY <1>1, <1>3
  <2> QED
    BY <2>1, <2>2
<1>5. new = Filled(old, f, o, got)
  BY <1>1, <1>2, Zenon DEF Filled
<1> QED
  BY <1>3, <1>4, <1>5

-----------------------------------------------------------------------------
(* One lemma for each action. *)

\* What a step has to keep of the types.
LEMMA TypedStep ==
    ASSUME TypeOK, file' = file,
           line_buf' \in Seq(Bytes), Len(line_buf') <= BufferSize,
           offset' \in 0..Len(file), line' \in 1..Len(line_buf') + 1,
           p' \in 1..Len(line_buf') + 2, linep' \in 1..BufferSize + 1,
           discarded_after_read' \in 0..BufferSize,
           line_number' \in {line_number, line_number + 1},
           pc' \in {"find_eol", "read", "scan", "line", "closed"},
           errors' \subseteq errors \cup ErrorTexts
    PROVE  TypeOK' /\ line_rend' = Len(line_buf') + 1
<1>1. line_rend' = Len(line_buf') + 1
  BY DEF line_rend
<1>2. errors' \subseteq ErrorTexts
  BY DEF TypeOK, ErrorTexts
<1>3. line_number' \in Nat \ {0}
  <2>1. line_number \in Nat \ {0}
    BY DEF TypeOK
  <2> QED
    BY <2>1
<1>4. Len(line_buf') \in Nat
  OBVIOUS
<1>5. line' \in 1..line_rend' /\ p' \in 1..line_rend' + 1
  BY <1>1, <1>4
<1>6. file' \in Seq(Bytes) /\ offset' \in 0..Len(file')
  BY DEF TypeOK
<1> QED
  BY <1>1, <1>2, <1>3, <1>5, <1>6, Zenon DEF TypeOK, ErrorTexts

LEMMA InitIsInv == Init => ReaderInv
<1> SUFFICES ASSUME Init PROVE ReaderInv
  OBVIOUS
<1>1. TypeOK
  BY InitIsTyped
<1>2. Scanned /\ Found /\ Waiting
  BY DEF Init, Scanned, Found, Waiting
<1>3. Len(line_buf) = 0
  BY DEF Init
<1>4. Ended(0) /\ Fits(0) /\ Aligned(0)
  BY <1>3 DEF Init, Ended, Fits, Aligned
<1> QED
  BY <1>1, <1>2, <1>4 DEF ReaderInv

\* A step after which the buffer is not searched.
LEMMA ClosingKeeps ==
    ASSUME ReaderInv, pc' = "closed", file' = file, offset' = offset, line_buf' = line_buf,
           line' = line, linep' = linep, p' = p,
           \/ discarded_after_read' = discarded_after_read
           \/ pc = "read" /\ discarded_after_read' = 0,
           line_number' = line_number,
           errors' \subseteq errors \cup ErrorTexts
    PROVE  ReaderInv'
<1>b. Bounds
  BY Sizes DEF ReaderInv
<1>1. TypeOK' /\ line_rend' = line_rend
  <2>1. TypeOK
    BY DEF ReaderInv
  <2>2. discarded_after_read' \in 0..BufferSize
    BY <2>1, <1>b DEF Bounds
  <2>4. p' \in 1..Len(line_buf') + 2
    BY <2>1, <1>b DEF Bounds
  <2>5. TypeOK' /\ line_rend' = Len(line_buf') + 1
    BY <2>1, <2>2, <2>4, <1>b, TypedStep DEF Bounds
  <2> QED
    BY <2>5 DEF line_rend
<1>2. Scanned' /\ Found' /\ Waiting'
  BY DEF Scanned, Found, Waiting
<1>3. PICK end \in {0, 1} : Ended(end) /\ Fits(end) /\ Aligned(end)
  BY DEF ReaderInv
<1>4. Ended(end)'
  BY <1>3 DEF Ended
<1>5. Fits(end)'
  <2>1. discarded_after_read' <= discarded_after_read /\ discarded_after_read \in Nat
    BY <1>b DEF Bounds, ReaderInv
  <2>2. Len(line_buf) \in Nat /\ offset \in Nat /\ discarded_after_read' \in Nat
    BY <1>b DEF Bounds, ReaderInv
  <2> QED
    BY <1>3, <2>1, <2>2 DEF Fits
<1>6. Aligned(end)'
  <2>1. CASE discarded_after_read' = discarded_after_read
    BY <1>3, <2>1 DEF Aligned
  <2>2. CASE discarded_after_read' # discarded_after_read
    <3>1. \A i \in line..Len(line_buf) : line_buf[i] # "n"
      BY <2>2 DEF Waiting, ReaderInv
    <3> QED
      BY <3>1 DEF Aligned
  <2> QED
    BY <2>1, <2>2
<1> QED
  BY <1>1, <1>2, <1>4, <1>5, <1>6 DEF ReaderInv

LEMMA MoreIsNeededKeeps == ASSUME ReaderInv, MoreIsNeeded PROVE ReaderInv'
<1>1. TypeOK
  BY DEF ReaderInv
<1>b. Bounds
  BY Sizes DEF ReaderInv
<1>2. CASE TooLongToMove
  <2>1. errors' \subseteq errors \cup ErrorTexts
    BY <1>2, Zenon DEF MoreIsNeeded, Close, ErrorTexts
  <2>2. /\ pc' = "closed" /\ file' = file /\ offset' = offset
        /\ line_buf' = line_buf /\ line' = line /\ linep' = linep /\ p' = p
        /\ discarded_after_read' = discarded_after_read /\ line_number' = line_number
    BY <1>2, Zenon DEF MoreIsNeeded, Close, bufferVars
  <2> QED
    BY <2>1, <2>2, ClosingKeeps
<1>3. CASE ~TooLongToMove
  <2>1. /\ pc' = "read" /\ line' = 1 /\ p' = line_rend - line + 1
        /\ line_buf' = SubSeq(line_buf, line, Len(line_buf))
        /\ UNCHANGED <<file, offset, linep, discarded_after_read, errors, line_number>>
    BY <1>3 DEF MoreIsNeeded
  <2>2. \A i \in line..Len(line_buf) : line_buf[i] # "n"
    <3>1. Find({"n"}, line) = line_rend
      BY DEF MoreIsNeeded
    <3>2. \A i \in line..line_rend - 1 : line_buf[i] \notin {"n"}
      BY <3>1, <1>b, FindIs DEF Bounds
    <3> QED
      BY <3>2, <1>b DEF Bounds
  <2>3. /\ line_buf' \in Seq(Bytes) /\ Len(line_buf') = Len(line_buf) - line + 1
        /\ \A j \in 1..Len(line_buf') : line_buf'[j] = line_buf[j + line - 1]
    <3>1. line \in 1..Len(line_buf) + 1 /\ line_buf \in Seq(Bytes)
      BY <1>b DEF Bounds
    <3>2. line_buf' = SubSeq(line_buf, line, Len(line_buf))
      BY <2>1
    <3> QED
      BY ONLY <3>1, <3>2, RestOf
  <2>4. line_rend' = line_rend - line + 1 /\ Len(line_buf') <= Len(line_buf)
    BY <2>3, <1>b DEF Bounds, line_rend
  <2>5. TypeOK'
    <3>1. line' \in 1..Len(line_buf') + 1 /\ p' \in 1..Len(line_buf') + 2
      BY <2>1, <2>3, <2>4, <1>b DEF Bounds
    <3>2. Len(line_buf') <= BufferSize
      BY <2>3, <2>4, <1>b DEF Bounds
    <3>3. offset' \in 0..Len(file) /\ linep' \in 1..BufferSize + 1
          /\ discarded_after_read' \in 0..BufferSize
      BY <2>1, <1>b DEF Bounds
    <3> QED
      BY <1>1, <2>1, <2>3, <3>1, <3>2, <3>3, TypedStep
  <2>6. \A i \in 1..Len(line_buf') : line_buf'[i] # "n"
    <3>1. SUFFICES ASSUME NEW i \in 1..Len(line_buf') PROVE line_buf'[i] # "n"
      OBVIOUS
    <3>2. i + line - 1 \in line..Len(line_buf)
      BY <2>3, <1>b DEF Bounds
    <3> QED
      BY <2>2, <2>3, <3>2
  <2>7. Scanned' /\ Found' /\ Waiting'
    BY <2>1, <2>6 DEF Scanned, Found, Waiting
  <2>8. PICK end \in {0, 1} : Ended(end) /\ Fits(end) /\ Aligned(end)
    BY DEF ReaderInv
  <2>9. Ended(end)'
    <3>1. SUFFICES ASSUME end = 1
                   PROVE  /\ offset' = Len(file') /\ discarded_after_read' = 0
                          /\ line_buf' = <<>> /\ p' = line_rend'
      BY DEF Ended
    <3>2. line = line_rend
      <4>1. CASE line_buf = <<>>
        BY <4>1, <1>b DEF Bounds
      <4>2. CASE line_buf[Len(line_buf)] = "n"
        BY <4>2, <2>2, <1>b DEF Bounds
      <4> QED
        BY <2>8, <3>1, <4>1, <4>2 DEF Ended
    <3>3. Len(line_buf') = 0
      BY <2>3, <3>2, <1>b DEF Bounds
    <3> QED
      BY <2>1, <2>3, <2>4, <2>8, <3>1, <3>3 DEF Ended
  <2>10. Fits(end)'
    BY <2>1, <2>4, <2>3, <2>8, <1>b DEF Bounds, Fits
  <2>11. Aligned(end)'
    BY <2>1, <2>6 DEF Aligned
  <2> QED
    BY <2>5, <2>7, <2>9, <2>10, <2>11 DEF ReaderInv
<1> QED
  BY <1>2, <1>3

LEMMA FindLineKeeps == ASSUME ReaderInv, FindLine PROVE ReaderInv'
<1>1. TypeOK /\ pc = "find_eol"
  BY DEF ReaderInv, FindLine
<1>b. Bounds
  BY Sizes DEF ReaderInv
<1> DEFINE newline == Find({"n"}, line)
<1>2. newline \in line..Len(line_buf) /\ line_buf[newline] = "n"
  <2>1. newline \in line..line_rend /\ (newline # line_rend => line_buf[newline] \in {"n"})
    BY <1>b, FindIs DEF Bounds
  <2>2. newline # line_rend
    BY DEF FindLine
  <2> HIDE DEF newline
  <2> QED
    BY <2>1, <2>2, <1>b DEF Bounds
<1>3. /\ linep' = newline + 1 /\ pc' \in {"line", "closed"}
      /\ errors' \subseteq errors \cup ErrorTexts
      /\ file' = file /\ offset' = offset /\ line_buf' = line_buf /\ line' = line /\ p' = p
      /\ discarded_after_read' = discarded_after_read /\ line_number' = line_number
  BY DEF FindLine, Close, ErrorTexts
<1> HIDE DEF newline
<1>4. /\ linep' \in line + 1..line_rend /\ linep' \in 1..BufferSize + 1
      /\ line_buf[linep' - 1] = "n"
  <2>1. linep' - 1 = newline
    BY <1>2, <1>3, <1>b DEF Bounds
  <2> QED
    BY <1>2, <1>3, <2>1, <1>b DEF Bounds
<1>5. TypeOK' /\ line_rend' = line_rend
  <2>1. p' \in 1..Len(line_buf') + 2
    BY <1>3, <1>b DEF Bounds
  <2>2. pc' \in {"find_eol", "read", "scan", "line", "closed"}
    BY <1>3
  <2>3. TypeOK' /\ line_rend' = Len(line_buf') + 1
    BY <1>1, <1>3, <1>4, <2>1, <2>2, <1>b, TypedStep DEF Bounds
  <2> QED
    BY <1>3, <2>3 DEF line_rend
<1>6. Scanned' /\ Found' /\ Waiting'
  BY <1>3, <1>4, <1>5 DEF Scanned, Found, Waiting
<1>7. PICK end \in {0, 1} : Ended(end) /\ Fits(end) /\ Aligned(end)
  BY DEF ReaderInv
<1>8. Ended(end)' /\ Fits(end)' /\ Aligned(end)'
  BY <1>3, <1>7 DEF Ended, Fits, Aligned
<1> QED
  BY <1>5, <1>6, <1>8 DEF ReaderInv


LEMMA ReadingClosesKeeps == ASSUME ReaderInv, NoRoom \/ ReadFails PROVE ReaderInv'
<1>1. errors' \subseteq errors \cup ErrorTexts
  BY Zenon DEF NoRoom, ReadFails, Close, ErrorTexts
<1>2. /\ pc = "read" /\ pc' = "closed" /\ file' = file /\ offset' = offset
      /\ line_buf' = line_buf /\ line' = line /\ linep' = linep /\ p' = p
      /\ discarded_after_read' = 0 /\ line_number' = line_number
  BY Zenon DEF NoRoom, ReadFails, Close
<1> QED
  BY <1>1, <1>2, ClosingKeeps

LEMMA ReadBytesKeeps == ASSUME ReaderInv, ReadBytes PROVE ReaderInv'
<1>1. TypeOK
  BY DEF ReaderInv
<1>b. Bounds
  BY Sizes DEF ReaderInv
<1>2. /\ pc = "read" /\ Room > 0 /\ offset < Len(file)
      /\ file' = file /\ line' = line /\ line_number' = line_number /\ errors' = errors
      /\ discarded_after_read' = 0
  BY Zenon DEF ReadBytes
<1>3. PICK got \in 1..Len(file) - offset :
          /\ got <= Room
          /\ line_buf' = line_buf \o SubSeq(file, offset + 1, offset + got)
          /\ offset' = offset + got
          /\ IF got = Room THEN StartScan ELSE UNCHANGED <<pc, p, linep>>
  <2> DEFINE most == Min({Room, Len(file) - offset})
  <2>1. most \in 1..Len(file) - offset /\ most <= Room
    <3> DEFINE S == {Room, Len(file) - offset}
    <3>1. Room \in Nat /\ Len(file) - offset \in Nat /\ Room >= 1 /\ Len(file) - offset >= 1
      BY <1>2, <1>b DEF Bounds, Room
    <3>2. S \subseteq Nat /\ S # {}
      BY <3>1
    <3>3. Min(S) \in S /\ \A x \in S : Min(S) <= x
      <4> HIDE DEF S
      <4> QED
        BY <3>2, MinIs
    <3>4. Min(S) <= Room /\ Min(S) <= Len(file) - offset
      BY <3>3
    <3>5. Min(S) \in Nat /\ Min(S) >= 1
      BY <3>1, <3>3
    <3> HIDE DEF S
    <3>6. Min(S) \in 1..Len(file) - offset
      BY <3>1, <3>4, <3>5
    <3> QED
      BY <3>4, <3>6 DEF S
  <2>2. PICK got \in IF ShortReads THEN 1..most ELSE {most} :
            /\ line_buf' = line_buf \o SubSeq(file, offset + 1, offset + got)
            /\ offset' = offset + got
            /\ IF got = Room THEN StartScan ELSE UNCHANGED <<pc, p, linep>>
    BY Zenon DEF ReadBytes
  <2> HIDE DEF most
  <2>3. got \in 1..most
    BY <2>1, <2>2
  <2>4. got \in 1..Len(file) - offset /\ got <= Room
    BY <2>1, <2>3, <1>b DEF Bounds, Room
  <2> QED
    BY <2>2, <2>4, Zenon
<1>4. /\ line_buf' \in Seq(Bytes) /\ Len(line_buf') = Len(line_buf) + got
      /\ \A j \in 1..Len(line_buf) : line_buf'[j] = line_buf[j]
      /\ \A j \in Len(line_buf) + 1..Len(line_buf') :
             line_buf'[j] = file[offset + j - Len(line_buf)]
  <2>1. line_buf \in Seq(Bytes) /\ file \in Seq(Bytes) /\ offset \in 0..Len(file)
    BY <1>b DEF Bounds
  <2>3. got \in 0..Len(file) - offset
    BY <1>3, <1>b DEF Bounds
  <2>2. line_buf' = Filled(line_buf, file, offset, got)
    BY <1>3, Zenon DEF Filled
  <2> QED
    BY ONLY <2>1, <2>2, <2>3, FilledIs
<1>5. \/ pc' = "scan" /\ p' = line /\ linep' = line
      \/ pc' = "read" /\ p' = p /\ linep' = linep
  BY <1>2, <1>3 DEF StartScan
<1>6. Len(line_buf') <= BufferSize
  BY <1>3, <1>4, <1>b DEF Bounds, Room
<1>7. TypeOK' /\ line_rend' = Len(line_buf') + 1
  <2>1. line' \in 1..Len(line_buf') + 1 /\ p' \in 1..Len(line_buf') + 2
        /\ linep' \in 1..BufferSize + 1
    <3>1. /\ Len(line_buf) \in Nat /\ Len(line_buf') = Len(line_buf) + got /\ got \in Nat
          /\ Len(line_buf') <= BufferSize /\ BufferSize \in Nat
      BY <1>3, <1>4, <1>6, <1>b DEF Bounds
    <3>2. /\ line \in 1..Len(line_buf) + 1 /\ p \in 1..Len(line_buf) + 2
          /\ linep \in 1..BufferSize + 1
      BY <1>b DEF Bounds
    <3>3. line' = line
      BY <1>2
    <3> QED
      BY ONLY <1>5, <3>1, <3>2, <3>3
  <2>2. offset' \in 0..Len(file) /\ discarded_after_read' \in 0..BufferSize
    BY <1>2, <1>3, <1>b DEF Bounds
  <2>3. pc' \in {"find_eol", "read", "scan", "line", "closed"}
    BY <1>5
  <2> QED
    BY <1>1, <1>2, <1>4, <1>6, <2>1, <2>2, <2>3, TypedStep
<1>8. Scanned' /\ Found' /\ Waiting'
  <2>1. line' <= line_rend' /\ line' \in Nat
    BY <1>2, <1>3, <1>4, <1>7, <1>b DEF Bounds
  <2>2. Scanned'
    BY <1>2, <1>5, <2>1 DEF Scanned
  <2>3. Found' /\ Waiting'
    BY <1>2, <1>5 DEF Found, Waiting
  <2> QED
    BY <2>2, <2>3
<1>9. Ended(0) /\ Fits(0) /\ Aligned(0)
  <2>1. PICK end \in {0, 1} : Ended(end) /\ Fits(end) /\ Aligned(end)
    BY DEF ReaderInv
  <2>2. end # 1
    BY <1>2, <2>1, <1>b DEF Ended, Bounds
  <2> QED
    BY <2>1, <2>2
<1>10. Ended(0)'
  BY DEF Ended
<1>11. Fits(0)'
  BY <1>2, <1>3, <1>4, <1>9, <1>b DEF Fits, Bounds
<1>12. Aligned(0)'
  <2>1. SUFFICES ASSUME NEW i \in line..Len(line_buf'), line_buf'[i] = "n"
                 PROVE  file[offset' - 0 - (Len(line_buf') - i) + 0] = "n"
    BY <1>2 DEF Aligned
  <2>2. offset' - 0 - (Len(line_buf') - i) + 0 = offset + i - Len(line_buf)
    BY <1>3, <1>4, <1>b DEF Bounds
  <2>3. CASE i <= Len(line_buf)
    <3>1. i \in line..Len(line_buf) /\ i \in 1..Len(line_buf)
      BY <2>3, <1>b DEF Bounds
    <3>2. line_buf[i] = "n"
      BY <1>4, <2>1, <3>1
    <3>3. discarded_after_read = 0
      BY <1>2, <3>1, <3>2 DEF ReaderInv, Waiting
    <3>4. file[offset - discarded_after_read - (Len(line_buf) - i) + 0] = "n"
      BY <1>9, <3>1, <3>2 DEF Aligned
    <3>5. offset - discarded_after_read - (Len(line_buf) - i) + 0 = offset + i - Len(line_buf)
      BY <3>3, <1>b DEF Bounds
    <3> QED
      BY <2>2, <3>4, <3>5
  <2>4. CASE i > Len(line_buf)
    <3>1. i \in Len(line_buf) + 1..Len(line_buf')
      BY <2>4, <1>3, <1>4, <1>b DEF Bounds
    <3> QED
      BY <1>4, <2>1, <2>2, <3>1
  <2> QED
    BY <2>3, <2>4, <1>b DEF Bounds
<1> QED
  BY <1>7, <1>8, <1>10, <1>11, <1>12 DEF ReaderInv

LEMMA ReadEndKeeps == ASSUME ReaderInv, ReadEnd PROVE ReaderInv'
<1>1. TypeOK
  BY DEF ReaderInv
<1>b. Bounds
  BY Sizes DEF ReaderInv
<1>2. /\ pc = "read" /\ Room > 0 /\ offset >= Len(file)
      /\ file' = file /\ offset' = offset /\ line' = line /\ line_number' = line_number
      /\ discarded_after_read' = 0
  BY Zenon DEF ReadEnd
<1>3. CASE p = line_rend
  <2>1. /\ pc' = "closed" /\ errors' \subseteq errors \cup ErrorTexts
        /\ line_buf' = line_buf /\ linep' = linep /\ p' = p
    BY <1>3, Zenon DEF ReadEnd, Close
  <2> QED
    BY <1>2, <2>1, ClosingKeeps
<1>4. CASE p # line_rend
  <2>1. /\ line_buf' = Append(line_buf, "n") /\ errors' = errors
        /\ pc' = "scan" /\ p' = line /\ linep' = line
    BY <1>4 DEF ReadEnd, StartScan
  <2>2. /\ line_buf' \in Seq(Bytes) /\ Len(line_buf') = Len(line_buf) + 1
        /\ \A i \in 1..Len(line_buf) : line_buf'[i] = line_buf[i]
        /\ line_buf'[Len(line_buf')] = "n"
    <3>1. "n" \in Bytes
      BY DEF Bytes
    <3>2. line_buf \in Seq(Bytes)
      BY <1>b DEF Bounds
    <3> QED
      BY <2>1, <3>1, <3>2
  <2>3. TypeOK' /\ line_rend' = Len(line_buf') + 1
    <3>1. Len(line_buf') <= BufferSize
      BY <1>2, <2>2, <1>b DEF Bounds, Room
    <3>2. line' \in 1..Len(line_buf') + 1 /\ p' \in 1..Len(line_buf') + 2
          /\ linep' \in 1..BufferSize + 1
      BY <1>2, <2>1, <2>2, <3>1, <1>b DEF Bounds
    <3>3. offset' \in 0..Len(file) /\ discarded_after_read' \in 0..BufferSize
      BY <1>2, <1>b DEF Bounds
    <3> QED
      BY <1>1, <1>2, <2>1, <2>2, <3>1, <3>2, <3>3, TypedStep
  <2>4. Scanned' /\ Found' /\ Waiting'
    <3>1. line' <= line_rend' /\ line' \in Nat
      BY <1>2, <2>2, <2>3, <1>b DEF Bounds
    <3> QED
      BY <1>2, <2>1, <3>1 DEF Scanned, Found, Waiting
  <2>5. Ended(0) /\ Fits(0) /\ Aligned(0)
    <3>1. PICK end \in {0, 1} : Ended(end) /\ Fits(end) /\ Aligned(end)
      BY DEF ReaderInv
    <3>2. end # 1
      BY <1>2, <1>4, <3>1 DEF Ended
    <3> QED
      BY <3>1, <3>2
  <2>6. Ended(1)'
    BY <1>2, <2>1, <2>2, <1>b DEF Ended, Bounds
  <2>7. Fits(1)'
    BY <1>2, <2>2, <2>5, <1>b DEF Fits, Bounds
  <2>8. Aligned(1)'
    <3>1. SUFFICES ASSUME NEW i \in line..Len(line_buf'), line_buf'[i] = "n",
                          i # Len(line_buf')
                   PROVE  file[offset - 0 - (Len(line_buf') - i) + 1] = "n"
      BY <1>2 DEF Aligned
    <3>2. i \in line..Len(line_buf) /\ i \in 1..Len(line_buf)
      BY <2>2, <3>1, <1>b DEF Bounds
    <3>3. line_buf[i] = "n"
      BY <2>2, <3>1, <3>2
    <3>4. discarded_after_read = 0
      BY <1>2, <3>2, <3>3 DEF ReaderInv, Waiting
    <3>5. file[offset - discarded_after_read - (Len(line_buf) - i) + 0] = "n"
      BY <2>5, <3>2, <3>3 DEF Aligned
    <3>6. offset - discarded_after_read - (Len(line_buf) - i) + 0
              = offset - 0 - (Len(line_buf') - i) + 1
      BY <2>2, <3>4, <1>b DEF Bounds
    <3> QED
      BY <3>5, <3>6
  <2> QED
    BY <2>3, <2>4, <2>6, <2>7, <2>8 DEF ReaderInv
<1> QED
  BY <1>3, <1>4


LEMMA Between ==
    ASSUME NEW a \in Nat, NEW b \in Nat, NEW c \in Nat, NEW n \in Nat,
           1 <= a, a <= b, b <= c, c <= n + 1
    PROVE  \A i \in a..c - 1 : i \in 1..n /\ (i \in a..b - 1 \/ i \in b..c - 1)
  OBVIOUS

\* A step of the scan that leaves the newlines where they are.
LEMMA BlankingKeeps ==
    ASSUME ReaderInv, pc = "scan", pc' \in {"scan", "find_eol"},
           file' = file, offset' = offset, line' = line, line_number' = line_number,
           discarded_after_read' = discarded_after_read,
           errors' \subseteq errors \cup ErrorTexts,
           line_buf' \in Seq(Bytes), Len(line_buf') = Len(line_buf),
           \A i \in 1..Len(line_buf) : line_buf'[i] = "n" <=> line_buf[i] = "n",
           p' \in p..line_rend,
           \/ linep' = linep /\ \A i \in p..p' - 1 : line_buf[i] # "n"
           \/ linep' \in line + 1..line_rend
    PROVE  ReaderInv'
<1>1. TypeOK
  BY DEF ReaderInv
<1>b. Bounds
  BY Sizes DEF ReaderInv
<1>2. /\ line <= p /\ p <= line_rend /\ line <= linep /\ discarded_after_read = 0
      /\ linep = line => \A i \in line..p - 1 : line_buf[i] # "n"
  BY DEF ReaderInv, Scanned
<1>l. p' \in p..line_rend /\ line' = line /\ Len(line_buf') = Len(line_buf)
  OBVIOUS
<1>n. line \in Nat /\ line >= 1 /\ p \in Nat /\ p' \in Nat /\ line <= p /\ p <= p'
      /\ p' <= Len(line_buf) + 1 /\ Len(line_buf) \in Nat
  BY ONLY <1>2, <1>l, <1>b DEF Bounds
<1>m. linep' = linep \/ linep' \in line + 1..line_rend
  OBVIOUS
<1>3. TypeOK' /\ line_rend' = line_rend
  <2>1. line' \in 1..Len(line_buf') + 1 /\ p' \in 1..Len(line_buf') + 2
        /\ linep' \in 1..BufferSize + 1 /\ Len(line_buf') <= BufferSize
    BY ONLY <1>2, <1>l, <1>m, <1>b DEF Bounds
  <2>2. pc' \in {"find_eol", "read", "scan", "line", "closed"}
    OBVIOUS
  <2>3. offset' \in 0..Len(file) /\ discarded_after_read' \in 0..BufferSize
    BY <1>b DEF Bounds
  <2>4. TypeOK' /\ line_rend' = Len(line_buf') + 1
    BY <1>1, <2>1, <2>2, <2>3, TypedStep
  <2> QED
    BY <2>4, <1>b DEF Bounds
<1>4. Scanned'
  <2>1. line' <= p' /\ p' <= line_rend' /\ line' <= linep'
    BY ONLY <1>2, <1>3, <1>l, <1>m, <1>b DEF Bounds
  <2>0. \A i \in line..p' - 1 : i \in 1..Len(line_buf) /\ (i \in line..p - 1 \/ i \in p..p' - 1)
    BY ONLY <1>n, Between
  <2>2. ASSUME linep' = line, NEW i \in line..p' - 1
        PROVE  line_buf'[i] # "n"
    <3>1. i \in 1..Len(line_buf) /\ (i \in line..p - 1 \/ i \in p..p' - 1)
      BY <2>0, Zenon
    <3>2. linep = line /\ \A j \in p..p' - 1 : line_buf[j] # "n"
      <4>1. linep' \notin line + 1..line_rend
        BY ONLY <2>2, <1>b DEF Bounds
      <4> QED
        BY <2>2, <4>1, Zenon
    <3>3. line_buf[i] # "n"
      BY <1>2, <3>1, <3>2, Zenon
    <3> QED
      BY <3>1, <3>3
  <2> QED
    BY <1>2, <2>1, <2>2, Zenon DEF Scanned
<1>5. Found' /\ Waiting'
  BY <1>2 DEF Found, Waiting
<1>6. PICK end \in {0, 1} : Ended(end) /\ Fits(end) /\ Aligned(end)
  BY DEF ReaderInv
<1>7. Ended(end)'
  <2>1. SUFFICES ASSUME end = 1
                 PROVE  /\ offset = Len(file) /\ discarded_after_read = 0
                        /\ line_buf' = <<>> \/ line_buf'[Len(line_buf')] = "n"
    BY DEF Ended
  <2>2. /\ offset = Len(file)
        /\ line_buf = <<>> \/ line_buf[Len(line_buf)] = "n"
    BY <1>6, <2>1 DEF Ended
  <2>3. CASE Len(line_buf) = 0
    <3>1. Len(line_buf') = 0
      BY <2>3
    <3>2. line_buf' = <<>>
      BY <3>1
    <3> QED
      BY <1>2, <2>2, <3>2
  <2>4. CASE Len(line_buf) # 0
    <3>1. Len(line_buf) \in 1..Len(line_buf) /\ line_buf # <<>>
      BY <2>4, <1>b DEF Bounds
    <3> QED
      BY <1>2, <2>2, <3>1
  <2> QED
    BY <2>3, <2>4
<1>8. Fits(end)'
  BY <1>6 DEF Fits
<1>9. Aligned(end)'
  <2>1. SUFFICES ASSUME NEW i \in line..Len(line_buf), line_buf'[i] = "n"
                 PROVE  \/ end = 1 /\ i = Len(line_buf)
                        \/ file[offset - discarded_after_read - (Len(line_buf) - i) + end] = "n"
    BY DEF Aligned
  <2>2. i \in 1..Len(line_buf)
    BY <1>b DEF Bounds
  <2> QED
    BY <1>6, <2>1, <2>2 DEF Aligned
<1> QED
  BY <1>3, <1>4, <1>5, <1>7, <1>8, <1>9 DEF ReaderInv

\* A step of the scan that cuts the end of the buffer off.
LEMMA CuttingKeeps ==
    ASSUME ReaderInv, pc = "scan", pc' \in {"find_eol", "read", "closed"},
           file' = file, offset' = offset, line' = line, line_number' = line_number,
           linep' = linep, errors' \subseteq errors \cup ErrorTexts,
           line_buf' \in Seq(Bytes), Len(line_buf') \in line..Len(line_buf),
           discarded_after_read' = Len(line_buf) - Len(line_buf'),
           \A i \in 1..Len(line_buf') : line_buf'[i] = "n" => line_buf[i] = "n",
           p' = Len(line_buf') + 1,
           line_buf # <<>>, line_buf[Len(line_buf)] # "n",
           pc' = "read" => \A i \in line..Len(line_buf') : line_buf'[i] # "n"
    PROVE  ReaderInv'
<1>1. TypeOK
  BY DEF ReaderInv
<1>b. Bounds
  BY Sizes DEF ReaderInv
<1>2. discarded_after_read = 0
  BY DEF ReaderInv, Scanned
<1>3. TypeOK'
  <2>1. line' \in 1..Len(line_buf') + 1 /\ p' \in 1..Len(line_buf') + 2
        /\ linep' \in 1..BufferSize + 1 /\ Len(line_buf') <= BufferSize
    BY <1>b DEF Bounds
  <2>2. pc' \in {"find_eol", "read", "scan", "line", "closed"}
    OBVIOUS
  <2>3. offset' \in 0..Len(file) /\ discarded_after_read' \in 0..BufferSize
    BY <1>b DEF Bounds
  <2> QED
    BY <1>1, <2>1, <2>2, <2>3, TypedStep
<1>4. Scanned' /\ Found' /\ Waiting'
  BY DEF Scanned, Found, Waiting
<1>5. Ended(0) /\ Fits(0) /\ Aligned(0)
  <2>1. PICK end \in {0, 1} : Ended(end) /\ Fits(end) /\ Aligned(end)
    BY DEF ReaderInv
  <2>2. end # 1
    BY <2>1 DEF Ended
  <2> QED
    BY <2>1, <2>2
<1>6. Ended(0)'
  BY DEF Ended
<1>7. Fits(0)'
  BY <1>2, <1>5, <1>b DEF Fits, Bounds
<1>8. Aligned(0)'
  <2>1. SUFFICES ASSUME NEW i \in line..Len(line_buf'), line_buf'[i] = "n"
                 PROVE  file[offset - discarded_after_read' - (Len(line_buf') - i) + 0] = "n"
    BY DEF Aligned
  <2>2. i \in 1..Len(line_buf') /\ i \in line..Len(line_buf)
    BY <1>b DEF Bounds
  <2>3. file[offset - discarded_after_read - (Len(line_buf) - i) + 0] = "n"
    BY <1>5, <2>1, <2>2 DEF Aligned
  <2>4. offset - discarded_after_read' - (Len(line_buf') - i) + 0
            = offset - discarded_after_read - (Len(line_buf) - i) + 0
    BY <1>2, <1>b DEF Bounds
  <2> QED
    BY <2>3, <2>4
<1> QED
  BY <1>3, <1>4, <1>6, <1>7, <1>8 DEF ReaderInv


\* In a scan the byte looked at is in the buffer.
LEMMA ByteLookedAt ==
    ASSUME ReaderInv, NEW b, AtByte(b)
    PROVE  /\ pc = "scan" /\ p \in line..Len(line_buf) /\ line_buf[p] = b
           /\ p \in 1..line_rend /\ p + 1 \in 1..line_rend
<1>1. Bounds
  BY Sizes DEF ReaderInv
<1>2. pc = "scan" /\ p # line_rend /\ line_buf[p] = b
  BY DEF AtByte
<1>3. line <= p /\ p <= line_rend
  BY <1>2 DEF ReaderInv, Scanned
<1>4. p \in line..Len(line_buf) /\ p \in 1..line_rend /\ p + 1 \in 1..line_rend
  BY <1>1, <1>2, <1>3 DEF Bounds
<1> QED
  BY <1>2, <1>4

LEMMA ScanQuoteKeeps == ASSUME ReaderInv, ScanQuote PROVE ReaderInv'
<1>b. Bounds
  BY Sizes DEF ReaderInv
<1>1. /\ pc = "scan" /\ p \in line..Len(line_buf) /\ line_buf[p] = "q"
      /\ p + 1 \in 1..line_rend
  BY ByteLookedAt DEF ScanQuote
<1> DEFINE end == Find({"q", "n"}, p + 1)
           nuls == {i \in p + 1..end - 1 : line_buf[i] = "0"}
<1>2. /\ p' = IF end = line_rend THEN end ELSE end + 1
      /\ linep' = IF end # line_rend /\ line_buf[end] = "n" THEN end + 1 ELSE linep
      /\ line_buf' = [i \in DOMAIN line_buf |-> IF i \in nuls THEN "s" ELSE line_buf[i]]
      /\ errors' \subseteq errors \cup ErrorTexts
      /\ pc' = "scan" /\ discarded_after_read' = discarded_after_read
      /\ file' = file /\ offset' = offset /\ line' = line /\ line_number' = line_number
  BY <1>1 DEF ScanQuote, unchangedByScan, ErrorTexts
<1>3. /\ end \in p + 1..line_rend
      /\ end # line_rend => line_buf[end] \in {"q", "n"}
      /\ \A j \in p + 1..end - 1 : line_buf[j] \notin {"q", "n"}
  BY <1>1, <1>b, FindIs DEF Bounds
<1>4. /\ line_buf' \in Seq(Bytes) /\ Len(line_buf') = Len(line_buf)
      /\ \A i \in 1..Len(line_buf) :
             line_buf'[i] = IF i \in nuls THEN "s" ELSE line_buf[i]
  <2>1. line_buf \in Seq(Bytes)
    BY <1>b DEF Bounds
  <2>2. line_buf' = Spaced(line_buf, nuls)
    BY <1>2, Zenon DEF Spaced
  <2> HIDE DEF nuls
  <2> QED
    BY ONLY <2>1, <2>2, SameLength
<1>5. \A i \in 1..Len(line_buf) : line_buf'[i] = "n" <=> line_buf[i] = "n"
  <2>1. \A i \in nuls : line_buf[i] = "0"
    OBVIOUS
  <2> HIDE DEF nuls
  <2> QED
    BY <1>4, <2>1
<1> HIDE DEF end, nuls
<1>6. p' \in p..line_rend
  BY <1>1, <1>2, <1>3, <1>b DEF Bounds
<1>7. \/ linep' = linep /\ \A i \in p..p' - 1 : line_buf[i] # "n"
      \/ linep' \in line + 1..line_rend
  <2>1. CASE end = line_rend \/ line_buf[end] # "n"
    <3>1. linep' = linep
      BY <1>2, <2>1
    <3>2. PICK last \in Nat : last = p'
      BY <1>6, <1>b DEF Bounds
    <3>3. ASSUME NEW i \in p..last - 1
          PROVE  i = p \/ i \in p + 1..end - 1 \/ (i = end /\ end # line_rend)
      <4>1. last = IF end = line_rend THEN end ELSE end + 1
        BY <1>2, <3>2
      <4> QED
        BY <1>1, <1>3, <4>1, <1>b DEF Bounds
    <3>4. \A i \in p..last - 1 : line_buf[i] # "n"
      BY <1>1, <1>3, <2>1, <3>3
    <3> QED
      BY <3>1, <3>2, <3>4
  <2>2. CASE end # line_rend /\ line_buf[end] = "n"
    <3>1. linep' = end + 1
      BY <1>2, <2>2
    <3> QED
      BY <1>1, <1>3, <2>2, <3>1, <1>b DEF Bounds
  <2> QED
    BY <2>1, <2>2
<1> QED
  BY <1>1, <1>2, <1>4, <1>5, <1>6, <1>7, BlankingKeeps

LEMMA ScanCommentKeeps == ASSUME ReaderInv, ScanComment PROVE ReaderInv'
<1>b. Bounds
  BY Sizes DEF ReaderInv
<1>1. /\ pc = "scan" /\ p \in line..Len(line_buf) /\ p \in 1..line_rend
  BY ByteLookedAt DEF ScanComment
<1> DEFINE end == Find({"n"}, p)
<1>2. /\ end # line_rend /\ line_buf' = Blank(p, end - 1)
      /\ p' = end + 1 /\ linep' = end + 1
      /\ pc' = "scan" /\ errors' = errors /\ discarded_after_read' = discarded_after_read
      /\ file' = file /\ offset' = offset /\ line' = line /\ line_number' = line_number
  BY <1>1 DEF ScanComment, unchangedByScan
<1>3. /\ end \in p..line_rend
      /\ \A j \in p..end - 1 : line_buf[j] \notin {"n"}
  BY <1>1, <1>b, FindIs DEF Bounds
<1> HIDE DEF end
<1>4. /\ line_buf' \in Seq(Bytes) /\ Len(line_buf') = Len(line_buf)
      /\ \A i \in 1..Len(line_buf) :
             line_buf'[i] = IF i \in p..end - 1 THEN "s" ELSE line_buf[i]
  <2>1. line_buf \in Seq(Bytes)
    BY <1>b DEF Bounds
  <2>2. PICK N : N = p..end - 1
    OBVIOUS
  <2>3. line_buf' = Spaced(line_buf, N)
    BY <1>2, <2>2, Zenon DEF Blank, Spaced
  <2>4. /\ line_buf' \in Seq(Bytes) /\ Len(line_buf') = Len(line_buf)
        /\ \A i \in 1..Len(line_buf) : line_buf'[i] = IF i \in N THEN "s" ELSE line_buf[i]
    BY ONLY <2>1, <2>3, SameLength
  <2> QED
    BY <2>2, <2>4, Zenon
<1>5. \A i \in 1..Len(line_buf) : line_buf'[i] = "n" <=> line_buf[i] = "n"
  BY <1>3, <1>4
<1>6. p' \in p..line_rend /\ linep' \in line + 1..line_rend
  BY <1>1, <1>2, <1>3, <1>b DEF Bounds
<1> QED
  BY <1>1, <1>2, <1>4, <1>5, <1>6, BlankingKeeps

LEMMA CutCommentIs ==
    ASSUME line_buf \in Seq(Bytes), NEW start \in 1..Len(line_buf) + 1
    PROVE  /\ CutComment(start) \in Seq(Bytes) /\ Len(CutComment(start)) = start
           /\ \A i \in 1..start - 1 : CutComment(start)[i] = line_buf[i]
           /\ CutComment(start)[start] = ";"
<1>1. PICK cut \in Seq(Bytes) :
          /\ cut = Cut(line_buf, start) /\ Len(cut) = start - 1
          /\ \A j \in 1..start - 1 : cut[j] = line_buf[j]
  <2>1. PICK cut : cut = Cut(line_buf, start)
    OBVIOUS
  <2>2. /\ cut \in Seq(Bytes) /\ Len(cut) = start - 1
        /\ \A j \in 1..start - 1 : cut[j] = line_buf[j]
    BY <2>1, StartOf
  <2> QED
    BY <2>1, <2>2, Zenon
<1>2. PICK semicolon \in Bytes : semicolon = ";"
  BY Zenon DEF Bytes
<1>3. CutComment(start) = Append(cut, semicolon)
  BY <1>1, <1>2, Zenon DEF CutComment
<1>4. /\ Append(cut, semicolon) \in Seq(Bytes)
      /\ Len(Append(cut, semicolon)) = start
      /\ \A i \in 1..start - 1 : Append(cut, semicolon)[i] = line_buf[i]
      /\ Append(cut, semicolon)[start] = semicolon
  BY ONLY <1>1, semicolon \in Bytes, start \in 1..Len(line_buf) + 1, line_buf \in Seq(Bytes)
<1> QED
  BY ONLY <1>2, <1>3, <1>4, Zenon

LEMMA ScanOpenCommentKeeps == ASSUME ReaderInv, ScanOpenComment PROVE ReaderInv'
<1>b. Bounds
  BY Sizes DEF ReaderInv
<1>1. /\ pc = "scan" /\ p \in line..Len(line_buf) /\ p \in 1..line_rend
  BY ByteLookedAt DEF ScanOpenComment
<1> DEFINE start == SpacesBefore(line_buf, line, p)
<1>2. start \in line..p
  BY <1>1, <1>b, SpacesBeforeIs DEF Bounds
<1>3. \A j \in p..Len(line_buf) : line_buf[j] # "n"
  <2>1. \A j \in p..line_rend - 1 : line_buf[j] \notin {"n"}
    BY <1>1, <1>b, FindIs DEF ScanOpenComment, Bounds
  <2> QED
    BY <1>1, <2>1, <1>b DEF Bounds
<1>4. /\ line_buf' = CutComment(start) /\ p' = Len(line_buf') + 1
      /\ discarded_after_read' = Len(line_buf) - Len(line_buf')
      /\ linep' = linep
      /\ file' = file /\ offset' = offset /\ line' = line /\ line_number' = line_number
  BY DEF ScanOpenComment, unchangedByScan
<1>5. /\ pc' \in {"find_eol", "read", "closed"}
      /\ errors' \subseteq errors \cup ErrorTexts
      /\ pc' = "read" => linep = line
  BY Zenon DEF ScanOpenComment, Close, ErrorTexts
<1> HIDE DEF start
<1>6. /\ line_buf' \in Seq(Bytes) /\ Len(line_buf') = start
      /\ \A i \in 1..start - 1 : line_buf'[i] = line_buf[i]
      /\ line_buf'[start] = ";"
  <2>1. start \in 1..Len(line_buf) + 1 /\ line_buf \in Seq(Bytes) /\ start \in Nat
    BY <1>1, <1>2, <1>b DEF Bounds
  <2>2. line_buf' = CutComment(start)
    BY <1>4
  <2> QED
    BY ONLY <2>1, <2>2, CutCommentIs, Zenon
<1>7. Len(line_buf') \in line..Len(line_buf)
  <2>1. start \in line..Len(line_buf)
    BY <1>1, <1>2, <1>b DEF Bounds
  <2> QED
    BY <1>6, <2>1, Zenon
<1>8. \A i \in 1..Len(line_buf') : line_buf'[i] = "n" => line_buf[i] = "n" /\ i # start
  <2>1. \A i \in 1..start : i \in 1..start - 1 \/ i = start
    BY <1>1, <1>2, <1>b DEF Bounds
  <2>2. start \notin 1..start - 1
    BY <1>1, <1>2, <1>b DEF Bounds
  <2> QED
    BY <1>6, <2>1, <2>2, Zenon
<1>9. line_buf # <<>> /\ line_buf[Len(line_buf)] # "n"
  <2>1. Len(line_buf) \in p..Len(line_buf) /\ Len(line_buf) # 0
    BY <1>1, <1>b DEF Bounds
  <2> QED
    BY <1>3, <2>1
<1>10. ASSUME pc' = "read", NEW i \in line..Len(line_buf')
       PROVE  line_buf'[i] # "n"
  <2>1. \A j \in line..p - 1 : line_buf[j] # "n"
    BY <1>1, <1>5, <1>10 DEF ReaderInv, Scanned
  <2>2. \A j \in line..start : j \in 1..start /\ (j \in line..p - 1 \/ j = start)
    BY <1>1, <1>2, <1>b DEF Bounds
  <2>3. i \in line..start
    BY <1>6
  <2> QED
    BY <1>6, <1>8, <2>1, <2>2, <2>3
<1> QED
  BY <1>1, <1>4, <1>5, <1>6, <1>7, <1>8, <1>9, <1>10, CuttingKeeps


LEMMA ScanNewlineKeeps == ASSUME ReaderInv, ScanNewline PROVE ReaderInv'
<1>b. Bounds
  BY Sizes DEF ReaderInv
<1>1. pc = "scan" /\ p \in line..Len(line_buf)
  BY ByteLookedAt DEF ScanNewline
<1>2. /\ pc' = "scan" /\ p' = p + 1 /\ linep' = p + 1
      /\ errors' = errors /\ line_buf' = line_buf
      /\ discarded_after_read' = discarded_after_read
      /\ file' = file /\ offset' = offset /\ line' = line /\ line_number' = line_number
  BY <1>1 DEF ScanNewline, unchangedByScan
<1>3. p' \in p..line_rend /\ linep' \in line + 1..line_rend
  BY <1>1, <1>2, <1>b DEF Bounds
<1>4. line_buf' \in Seq(Bytes) /\ Len(line_buf') = Len(line_buf)
  BY <1>2, <1>b DEF Bounds
<1> QED
  BY <1>1, <1>2, <1>3, <1>4, BlankingKeeps

LEMMA ScanOtherKeeps == ASSUME ReaderInv, ScanOther PROVE ReaderInv'
<1>b. Bounds
  BY Sizes DEF ReaderInv
<1>1. pc = "scan" /\ p \in line..Len(line_buf) /\ line_buf[p] = "x"
  BY ByteLookedAt DEF ScanOther
<1>2. /\ pc' = "scan" /\ p' = p + 1 /\ linep' = linep
      /\ errors' = errors /\ line_buf' = line_buf
      /\ discarded_after_read' = discarded_after_read
      /\ file' = file /\ offset' = offset /\ line' = line /\ line_number' = line_number
  BY <1>1 DEF ScanOther, unchangedByScan
<1>3. p' \in p..line_rend /\ p' - 1 = p
  BY <1>1, <1>2, <1>b DEF Bounds
<1>4. \A i \in p..p' - 1 : line_buf[i] # "n"
  <2>1. \A i \in p..p : i = p
    BY <1>1, <1>b DEF Bounds
  <2> QED
    BY <1>1, <1>3, <2>1, Zenon
<1>5. line_buf' \in Seq(Bytes) /\ Len(line_buf') = Len(line_buf)
  BY <1>2, <1>b DEF Bounds
<1> QED
  BY <1>1, <1>2, <1>3, <1>4, <1>5, BlankingKeeps

LEMMA EndScanKeeps == ASSUME ReaderInv, EndScan PROVE ReaderInv'
<1>b. Bounds
  BY Sizes DEF ReaderInv
<1>1. /\ pc = "scan" /\ p = line_rend
      /\ pc' = "find_eol" /\ p' = p /\ linep' = linep
      /\ errors' = errors /\ line_buf' = line_buf
      /\ discarded_after_read' = discarded_after_read
      /\ file' = file /\ offset' = offset /\ line' = line /\ line_number' = line_number
  BY DEF EndScan, bufferVars, unchangedByScan
<1>2. p' \in p..line_rend
  BY <1>1, <1>b DEF Bounds
<1>3. \A i \in p..p' - 1 : line_buf[i] # "n"
  <2>1. \A i \in p..p - 1 : FALSE
    BY <1>1, <1>b DEF Bounds
  <2>2. p' = p
    BY <1>1
  <2> QED
    BY ONLY <2>1, <2>2
<1>4. line_buf' \in Seq(Bytes) /\ Len(line_buf') = Len(line_buf)
  BY <1>1, <1>b DEF Bounds
<1> QED
  BY <1>1, <1>2, <1>3, <1>4, BlankingKeeps

LEMMA ScanSpaceKeeps == ASSUME ReaderInv, ScanSpace PROVE ReaderInv'
<1>b. Bounds
  BY Sizes DEF ReaderInv
<1>1. /\ pc = "scan" /\ p \in line..Len(line_buf) /\ line_buf[p] \in {"s", "0"}
      /\ p \in 1..line_rend
  BY ByteLookedAt DEF ScanSpace
<1> DEFINE S == {i \in p + 1..line_rend : i = line_rend \/ line_buf[i] \notin {"s", "0"}}
           end == Min(S)
<1>2. /\ end \in p + 1..line_rend
      /\ \A i \in p + 1..end - 1 : line_buf[i] \in {"s", "0"}
  <2>1. S \subseteq Nat /\ line_rend \in S /\ S \subseteq p + 1..line_rend
    BY <1>1, <1>b DEF Bounds
  <2>2. end \in S /\ \A i \in S : end <= i
    <3> HIDE DEF S
    <3> QED
      BY <2>1, MinIs
  <2>3. end \in p + 1..line_rend
    BY <2>1, <2>2
  <2>4. ASSUME NEW i \in p + 1..end - 1
        PROVE  line_buf[i] \in {"s", "0"}
    <3>1. i \in p + 1..line_rend /\ ~(end <= i)
      <4> HIDE DEF end
      <4> QED
        BY <1>1, <2>3, <1>b DEF Bounds
    <3>2. i \notin S
      <4> HIDE DEF S, end
      <4> QED
        BY <2>2, <3>1
    <3> HIDE DEF end
    <3> QED
      BY <3>1, <3>2
  <2> HIDE DEF S, end
  <2> QED
    BY <2>3, <2>4
<1>3. /\ p' = p + 1 /\ linep' = linep /\ errors' = errors
      /\ file' = file /\ offset' = offset /\ line' = line /\ line_number' = line_number
  BY DEF ScanSpace, unchangedByScan
<1>4. IF end = line_rend
      THEN /\ line_buf' = Cut(Blank(p, p), p + 1)
           /\ discarded_after_read' = line_rend - (p + 1)
           /\ pc' = "find_eol"
      ELSE /\ line_buf' = Blank(p, end - 1)
           /\ discarded_after_read' = discarded_after_read /\ pc' = pc
  BY DEF ScanSpace
<1> HIDE DEF S, end
<1>5. \A i \in p..end - 1 : line_buf[i] # "n"
  <2>1. \A i \in p..end - 1 : i = p \/ i \in p + 1..end - 1
    BY <1>1, <1>2, <1>b DEF Bounds
  <2> QED
    BY <1>1, <1>2, <2>1
<1>6. \A N : /\ Spaced(line_buf, N) \in Seq(Bytes)
             /\ Len(Spaced(line_buf, N)) = Len(line_buf)
             /\ \A i \in 1..Len(line_buf) :
                    Spaced(line_buf, N)[i] = IF i \in N THEN "s" ELSE line_buf[i]
  BY <1>b, SameLength DEF Bounds
<1>7. CASE end = line_rend
  <2>1. line_buf' = Cut(Blank(p, p), p + 1) /\ discarded_after_read' = line_rend - (p + 1)
        /\ pc' = "find_eol"
    BY <1>4, <1>7
  <2>2. PICK N : N = p..p
    OBVIOUS
  <2>3. PICK blank \in Seq(Bytes) :
            /\ blank = Blank(p, p) /\ Len(blank) = Len(line_buf)
            /\ \A i \in 1..Len(line_buf) : blank[i] = IF i \in N THEN "s" ELSE line_buf[i]
    <3>1. Spaced(line_buf, N) = Blank(p, p)
      BY <2>2, Zenon DEF Blank, Spaced
    <3> QED
      BY <1>6, <3>1
  <2>4. /\ Cut(blank, p + 1) \in Seq(Bytes) /\ Len(Cut(blank, p + 1)) = p
        /\ \A i \in 1..p : Cut(blank, p + 1)[i] = blank[i]
    <3>1. p + 1 \in 1..Len(blank) + 1 /\ p + 1 - 1 = p
      BY <1>1, <2>3, <1>b DEF Bounds
    <3>2. PICK i \in 1..Len(blank) + 1 : i = p + 1
      BY <3>1
    <3>3. /\ Cut(blank, i) \in Seq(Bytes) /\ Len(Cut(blank, i)) = i - 1
          /\ \A j \in 1..i - 1 : Cut(blank, i)[j] = blank[j]
      BY StartOf
    <3>4. i - 1 = p
      BY <1>1, <3>2, <1>b DEF Bounds
    <3> QED
      BY <3>2, <3>3, <3>4, Zenon
  <2>5. /\ line_buf' \in Seq(Bytes) /\ Len(line_buf') = p
        /\ \A i \in 1..p : line_buf'[i] = blank[i]
    BY <2>1, <2>3, <2>4, Zenon
  <2>6. \A i \in 1..p : i \in 1..Len(line_buf)
    BY <1>1, <1>b DEF Bounds
  <2>7. \A i \in 1..Len(line_buf') : line_buf'[i] = "n" => line_buf[i] = "n"
    BY <2>3, <2>5, <2>6
  <2>8. p \in line..Len(line_buf) /\ discarded_after_read' = Len(line_buf) - p
    BY <1>1, <2>1, <1>b DEF Bounds
  <2>9. line_buf # <<>> /\ line_buf[Len(line_buf)] # "n"
    <3>1. Len(line_buf) \in p..end - 1 /\ Len(line_buf) # 0
      BY <1>1, <1>7, <1>b DEF Bounds
    <3> QED
      BY <1>5, <3>1
  <2>10. p' = Len(line_buf') + 1
    BY <1>3, <2>5
  <2> QED
    BY <1>1, <1>3, <2>1, <2>5, <2>7, <2>8, <2>9, <2>10, CuttingKeeps
<1>8. CASE end # line_rend
  <2>1. /\ line_buf' = Blank(p, end - 1) /\ pc' = "scan"
        /\ discarded_after_read' = discarded_after_read
    BY <1>1, <1>4, <1>8
  <2>2. PICK N : N = p..end - 1
    OBVIOUS
  <2>3. /\ line_buf' \in Seq(Bytes) /\ Len(line_buf') = Len(line_buf)
        /\ \A i \in 1..Len(line_buf) : line_buf'[i] = IF i \in N THEN "s" ELSE line_buf[i]
    <3>1. line_buf' = Spaced(line_buf, N)
      BY <2>1, <2>2, Zenon DEF Blank, Spaced
    <3> QED
      BY <1>6, <3>1
  <2>4. \A i \in 1..Len(line_buf) : line_buf'[i] = "n" <=> line_buf[i] = "n"
    BY <1>5, <2>2, <2>3
  <2>5. p' \in p..line_rend
    BY <1>1, <1>3, <1>b DEF Bounds
  <2>6. \A i \in p..p' - 1 : line_buf[i] # "n"
    <3>1. p' - 1 = p /\ p \in p..end - 1
      BY <1>1, <1>2, <1>3, <1>b DEF Bounds
    <3> QED
      BY <1>1, <1>5, <3>1, <1>b DEF Bounds
  <2> QED
    BY <1>1, <1>3, <2>1, <2>3, <2>4, <2>5, <2>6, BlankingKeeps
<1> QED
  BY <1>7, <1>8


LEMMA NextLineKeeps == ASSUME ReaderInv, NextLine PROVE ReaderInv'
<1>1. TypeOK
  BY DEF ReaderInv
<1>b. Bounds
  BY Sizes DEF ReaderInv
<1>2. /\ pc = "line" /\ pc' = "find_eol" /\ line' = linep
      /\ line_number' = line_number + 1
      /\ file' = file /\ offset' = offset /\ line_buf' = line_buf /\ linep' = linep /\ p' = p
      /\ discarded_after_read' = discarded_after_read /\ errors' = errors
  BY DEF NextLine
<1>3. linep \in line + 1..line_rend
  BY <1>2 DEF ReaderInv, Found
<1>4. TypeOK'
  <2>1. /\ line' \in 1..Len(line_buf') + 1 /\ p' \in 1..Len(line_buf') + 2
        /\ line_buf' \in Seq(Bytes) /\ Len(line_buf') <= BufferSize
    BY <1>2, <1>3, <1>b DEF Bounds
  <2>2. /\ offset' \in 0..Len(file) /\ linep' \in 1..BufferSize + 1
        /\ discarded_after_read' \in 0..BufferSize
    BY <1>2, <1>b DEF Bounds
  <2>3. pc' \in {"find_eol", "read", "scan", "line", "closed"}
    BY <1>2
  <2> QED
    BY <1>1, <1>2, <2>1, <2>2, <2>3, TypedStep
<1>5. Scanned' /\ Found' /\ Waiting'
  BY <1>2 DEF Scanned, Found, Waiting
<1>6. PICK end \in {0, 1} : Ended(end) /\ Fits(end) /\ Aligned(end)
  BY DEF ReaderInv
<1>7. Ended(end)' /\ Fits(end)'
  BY <1>2, <1>6 DEF Ended, Fits
<1>8. Aligned(end)'
  <2>1. \A i \in linep..Len(line_buf) : i \in line..Len(line_buf)
    BY <1>3, <1>b DEF Bounds
  <2> QED
    BY <1>2, <1>6, <2>1, Zenon DEF Aligned
<1> QED
  BY <1>4, <1>5, <1>6, <1>7, <1>8 DEF ReaderInv

\* A line is found: the reader resumes at an offset of the file.
LEMMA ResumesInFile ==
    ASSUME ReaderInv, pc = "line"
    PROVE  /\ ResumeOffset \in 0..Len(file)
           /\ \/ ResumeOffset = Len(file)
              \/ ResumeOffset >= 1 /\ file[ResumeOffset] = "n"
              \/ file[ResumeOffset + 1] = "n"
<1>b. Bounds
  BY Sizes DEF ReaderInv
<1>1. linep \in line + 1..line_rend /\ line_buf[linep - 1] = "n"
  BY DEF ReaderInv, Found
<1>2. PICK end \in {0, 1} : Ended(end) /\ Fits(end) /\ Aligned(end)
  BY DEF ReaderInv
<1>3. PICK i \in line..Len(line_buf) : i = linep - 1
  BY <1>1, <1>b DEF Bounds
<1>4. /\ ResumeOffset = offset - discarded_after_read - (Len(line_buf) - i)
      /\ ResumeOffset \in Int
  BY <1>1, <1>3, <1>b DEF Bounds, ResumeOffset
<1>5. Len(line_buf) - end <= offset - discarded_after_read
  BY <1>2 DEF Fits
<1>6. ResumeOffset >= i - end /\ i >= 1 /\ ResumeOffset <= offset
  BY <1>3, <1>4, <1>5, <1>b DEF Bounds
<1>7. ResumeOffset \in 0..Len(file)
  BY <1>3, <1>4, <1>6, <1>b DEF Bounds
<1>8. CASE end = 1 /\ i = Len(line_buf)
  <2>1. offset = Len(file) /\ discarded_after_read = 0
    BY <1>2, <1>8 DEF Ended
  <2>2. ResumeOffset = Len(file)
    BY <1>4, <1>8, <2>1, <1>b DEF Bounds
  <2> QED
    BY <1>7, <2>2
<1>9. CASE file[offset - discarded_after_read - (Len(line_buf) - i) + end] = "n"
  <2>1. file[ResumeOffset + end] = "n"
    BY <1>4, <1>9
  <2>2. CASE end = 0
    <3>1. ResumeOffset >= 1 /\ ResumeOffset + 0 = ResumeOffset
      BY <1>3, <1>4, <1>6, <2>2
    <3> QED
      BY <1>7, <2>1, <2>2, <3>1
  <2>3. CASE end = 1
    BY <1>7, <2>1, <2>3
  <2> QED
    BY <2>2, <2>3
<1> QED
  BY <1>1, <1>2, <1>3, <1>8, <1>9 DEF Aligned

LEMMA IncludeLineKeeps == ASSUME ReaderInv, IncludeLine PROVE ReaderInv'
<1>1. TypeOK
  BY DEF ReaderInv
<1>b. Bounds
  BY Sizes DEF ReaderInv
<1>2. /\ pc = "line" /\ pc' = "find_eol" /\ offset' = ResumeOffset
      /\ line_buf' = <<>> /\ line' = 1 /\ linep' = 1 /\ p' = 1
      /\ discarded_after_read' = 0 /\ line_number' = line_number + 1
      /\ file' = file /\ errors' = errors
  BY DEF IncludeLine
<1>3. ResumeOffset \in 0..Len(file)
  BY <1>2, ResumesInFile
<1>4. Len(line_buf') = 0 /\ line_buf' \in Seq(Bytes)
  BY <1>2
<1>5. TypeOK'
  <2>1. /\ line' \in 1..Len(line_buf') + 1 /\ p' \in 1..Len(line_buf') + 2
        /\ Len(line_buf') <= BufferSize /\ linep' \in 1..BufferSize + 1
        /\ discarded_after_read' \in 0..BufferSize
    BY <1>2, <1>4, <1>b DEF Bounds
  <2>2. offset' \in 0..Len(file)
    BY <1>2, <1>3
  <2>3. pc' \in {"find_eol", "read", "scan", "line", "closed"}
    BY <1>2
  <2> QED
    BY <1>1, <1>2, <1>4, <2>1, <2>2, <2>3, TypedStep
<1>6. Scanned' /\ Found' /\ Waiting'
  BY <1>2 DEF Scanned, Found, Waiting
<1>7. Ended(0)'
  BY DEF Ended
<1>8. Fits(0)'
  BY <1>2, <1>3, <1>4, <1>b DEF Fits, Bounds
<1>9. Aligned(0)'
  BY <1>2, <1>4 DEF Aligned
<1> QED
  BY <1>5, <1>6, <1>7, <1>8, <1>9 DEF ReaderInv

-----------------------------------------------------------------------------
(* The invariant and the theorems. *)

LEMMA StutteringKeeps == ASSUME ReaderInv, UNCHANGED vars PROVE ReaderInv'
<1>1. /\ file' = file /\ offset' = offset /\ line_buf' = line_buf /\ line' = line
      /\ linep' = linep /\ p' = p /\ discarded_after_read' = discarded_after_read
      /\ line_number' = line_number /\ pc' = pc /\ errors' = errors
  BY DEF vars, bufferVars
<1> QED
  BY <1>1, ZenonT(60) DEF ReaderInv, TypeOK, line_rend, Scanned, Found, Waiting, Ended, Fits,
                     Aligned

LEMMA StepsKeep == ReaderInv /\ [Next]_vars => ReaderInv'
<1> SUFFICES ASSUME ReaderInv, [Next]_vars PROVE ReaderInv'
  OBVIOUS
<1>1. CASE UNCHANGED vars
  BY <1>1, StutteringKeeps
<1>2. CASE Done
  BY <1>2, StutteringKeeps DEF Done
<1>3. CASE ReadFails
  BY <1>3, ReadingClosesKeeps
<1>4. CASE FindEol
  BY <1>4, FindLineKeeps, MoreIsNeededKeeps DEF FindEol
<1>5. CASE ReadMore
  BY <1>5, ReadingClosesKeeps, ReadBytesKeeps, ReadEndKeeps DEF ReadMore
<1>6. CASE Scan
  BY <1>6, ScanQuoteKeeps, ScanCommentKeeps, ScanOpenCommentKeeps, ScanNewlineKeeps,
     ScanSpaceKeeps, ScanOtherKeeps, EndScanKeeps DEF Scan
<1>7. CASE NextLine
  BY <1>7, NextLineKeeps
<1>8. CASE IncludeLine
  BY <1>8, IncludeLineKeeps
<1> QED
  BY <1>1, <1>2, <1>3, <1>4, <1>5, <1>6, <1>7, <1>8 DEF Next, Reader

LEMMA InvariantHolds == Spec => []ReaderInv
<1>1. Init => ReaderInv
  BY InitIsInv
<1>2. ReaderInv /\ [Next]_vars => ReaderInv'
  BY StepsKeep
<1> QED
  BY <1>1, <1>2, PTL DEF Spec

\* The indexes into line_buf stay in it, and the offset of the next read stays in
\* the file, whatever do_assembly() cuts off and however little read() returns.
THEOREM ReaderTyped == Spec => []TypeOK
<1>1. ReaderInv => TypeOK
  BY DEF ReaderInv
<1> QED
  BY <1>1, InvariantHolds, PTL

\* The offset that do_assembly() keeps for the file of an %INCLUDE is one between
\* two lines of it (or before a newline, or its end).
THEOREM ReaderResumes == Spec => []ResumesBetweenLines
<1>1. ASSUME ReaderInv
      PROVE  ResumesBetweenLines
  <2>1. SUFFICES ASSUME pc = "line", ResumeOffset # Len(file), file[ResumeOffset + 1] # "n"
                 PROVE  ResumeOffset \in {start - 1 : start \in Starts}
    BY DEF ResumesBetweenLines
  <2>2. /\ ResumeOffset \in 0..Len(file)
        /\ ResumeOffset >= 1 /\ file[ResumeOffset] = "n"
    BY <1>1, <2>1, ResumesInFile
  <2>3. PICK at \in 1..Len(file) : at = ResumeOffset + 1 /\ at - 1 = ResumeOffset
    <3>1. PICK resume \in 0..Len(file) : resume = ResumeOffset
      BY <2>2
    <3>2. Len(file) \in Nat /\ resume # Len(file)
      <4>1. Bounds
        BY <1>1, Sizes DEF ReaderInv
      <4> QED
        BY <2>1, <3>1, <4>1 DEF Bounds
    <3>3. resume + 1 \in 1..Len(file) /\ resume + 1 - 1 = resume
      BY <3>2
    <3> QED
      BY <3>1, <3>3
  <2>4. at \in Starts
    BY <2>2, <2>3 DEF Starts
  <2> QED
    BY <2>3, <2>4
<1> QED
  BY <1>1, InvariantHolds, PTL

=============================================================================
