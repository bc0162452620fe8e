---------------------------- MODULE AssemblerProofs ----------------------------
(***************************************************************************)
(* Passes implements Assembler: the proof that the output of a successful  *)
(* run, read once with the final label table, is a correct assembly of the *)
(* source.                                                                 *)
(***************************************************************************)
EXTENDS PassesProofs, Induction

ReadState == [addr : Int, start : Int, depth : Int, hidden : Int, bss : BOOLEAN,
              next : Nat \ {0}, ok : BOOLEAN]

\* t[0] to t[n] are the states of a reading of the source up to line n.
IsReading(t, src, n, origin, V, lines) ==
    /\ t \in [0..n -> ReadState]
    /\ t[0] = Abs!Start(origin)
    /\ \A i \in 1..n : t[i] = Abs!ReadLine(i, src[i], t[i - 1], origin, V, lines)
    /\ \A i \in 0..n : t[i].ok

\* Such a reading is the one that Assembler computes.
LEMMA ReadingComputed ==
    ASSUME NEW src \in Seq(Line), NEW t, NEW origin, NEW V, NEW lines,
           IsReading(t, src, Len(src), origin, V, lines)
    PROVE  Abs!Reading(src, origin, V, lines) = t[Len(src)]
<1> DEFINE n == Len(src)
           F(g) == [i \in 0..n |->
                      IF i = 0 THEN Abs!Start(origin)
                      ELSE IF g[i - 1].ok
                      THEN Abs!ReadLine(i, src[i], g[i - 1], origin, V, lines)
                      ELSE g[i - 1]]
           read == CHOOSE g : g = F(g)
<1>1. Abs!Reading(src, origin, V, lines) = read[n]
  BY DEF Abs!Reading
<1>2. n \in Nat
  OBVIOUS
<1>3. ASSUME NEW g, g = F(g)
      PROVE  g[n] = t[n]
  <2>1. /\ g[0] = Abs!Start(origin)
        /\ \A i \in 1..n : g[i - 1].ok =>
              g[i] = Abs!ReadLine(i, src[i], g[i - 1], origin, V, lines)
    BY <1>2, <1>3
  <2> DEFINE S == {i \in 0..n : g[i] = t[i]}
  <2>2. 0 \in S
    BY <1>2, <2>1 DEF IsReading
  <2>3. ASSUME NEW i \in 0..n-1, i \in S
        PROVE  i + 1 \in S
    <3>1. i + 1 \in 1..n /\ i + 1 - 1 = i /\ i \in 0..n
      BY <1>2
    <3>2. g[i + 1] = Abs!ReadLine(i + 1, src[i + 1], g[i], origin, V, lines)
      BY <2>1, <2>3, <3>1 DEF IsReading
    <3>3. t[i + 1] = Abs!ReadLine(i + 1, src[i + 1], t[i], origin, V, lines)
      BY <1>2, <3>1 DEF IsReading
    <3>4. QED
      BY <2>3, <3>1, <3>2, <3>3
  <2>4. 0..n \subseteq S
    <3> HIDE DEF S
    <3> QED
      BY <1>2, <2>2, <2>3, UpTo
  <2>5. QED
    BY <1>2, <2>4
<1>4. t = F(t)
  BY DEF IsReading
<1>5. read = F(read)
  BY <1>4
<1>6. read[n] = t[n]
  <2> HIDE DEF read, F
  <2> QED
    BY <1>3, <1>5
<1>7. QED
  BY <1>1, <1>6

\* A longer table and a longer list of lines read like the ones they extend, as
\* far as those could be read.
LEMMA ReadLineStable ==
    ASSUME NEW i, NEW item \in Line, NEW r \in ReadState, NEW origin,
           NEW V, NEW W, NEW lines \in Seq(EntrySet), NEW more \in Seq(EntrySet),
           DOMAIN V \subseteq DOMAIN W, \A l \in DOMAIN V : W[l] = V[l],
           Len(lines) <= Len(more), \A j \in 1..Len(lines) : more[j] = lines[j],
           Abs!ReadLine(i, item, r, origin, V, lines).ok
    PROVE  Abs!ReadLine(i, item, r, origin, W, more)
              = Abs!ReadLine(i, item, r, origin, V, lines)
<1>1. CASE /\ item.op \notin {"if", "else", "endif"}
           /\ Abs!Visible(r) /\ Abs!Produces(item)
  <2> DEFINE e == lines[r.next]
             allowed == item.op \in {"label", "equ", "incbin"} \/ ~r.bss
             Fits(U) == /\ Abs!RefersTo(item) => Abs!Defined(U, item.l)
                        /\ Abs!Encodes(item, e.at, e.size, U, r.start)
  <2>1. /\ Abs!ReadLine(i, item, r, origin, V, lines) = Abs!ReadProduct(i, item, r, V, lines)
        /\ Abs!ReadLine(i, item, r, origin, W, more) = Abs!ReadProduct(i, item, r, W, more)
    BY <1>1 DEF Abs!ReadLine
  <2>2. /\ allowed /\ r.next <= Len(lines) /\ e.line = i /\ e.at = r.addr
        /\ Fits(V)
    BY <2>1 DEF Abs!ReadProduct, ReadState
  <2>3. r.next <= Len(more) /\ more[r.next] = e
    BY <2>2 DEF ReadState
  <2>4. Fits(W)
    <3>1. Abs!RefersTo(item) => Abs!Defined(W, item.l) /\ W[item.l] = V[item.l]
      BY <2>2 DEF Abs!Defined
    <3>2. item.op = "equ" => /\ Abs!RefersTo(item)
                             /\ Abs!Defined(W, item.m) /\ W[item.m] = V[item.m]
      BY <2>2 DEF Abs!Encodes, Abs!Defined, Abs!RefersTo
    <3>3. Abs!Encodes(item, e.at, e.size, W, r.start)
      BY <2>2, <3>1, <3>2, <1>1 DEF Abs!Encodes, Abs!RefersTo, Abs!Produces
    <3>4. QED
      BY <3>1, <3>3
  <2>5. QED
    BY <2>1, <2>2, <2>3, <2>4 DEF Abs!ReadProduct
<1>2. CASE ~ /\ item.op \notin {"if", "else", "endif"}
             /\ Abs!Visible(r) /\ Abs!Produces(item)
  BY <1>2 DEF Abs!ReadLine
<1>3. QED
  BY <1>1, <1>2

LEMMA ReadingExtended ==
    ASSUME NEW src \in Seq(Line), NEW n \in 0..Len(src), NEW t, NEW origin,
           NEW V, NEW W, NEW lines \in Seq(EntrySet), NEW more \in Seq(EntrySet),
           DOMAIN V \subseteq DOMAIN W, \A l \in DOMAIN V : W[l] = V[l],
           Len(lines) <= Len(more), \A j \in 1..Len(lines) : more[j] = lines[j],
           IsReading(t, src, n, origin, V, lines)
    PROVE  IsReading(t, src, n, origin, W, more)
<1>1. ASSUME NEW i \in 1..n
      PROVE  t[i] = Abs!ReadLine(i, src[i], t[i - 1], origin, W, more)
  <2>1. /\ i \in 0..n /\ i - 1 \in 0..n /\ i \in DOMAIN src
        /\ t[i - 1] \in ReadState /\ src[i] \in Line
    BY DEF IsReading
  <2>2. /\ t[i] = Abs!ReadLine(i, src[i], t[i - 1], origin, V, lines)
        /\ t[i].ok
    BY <2>1 DEF IsReading
  <2>3. QED
    BY <2>1, <2>2, ReadLineStable
<1>2. QED
  BY <1>1 DEF IsReading

\* One more line is read.
LEMMA ReadingContinued ==
    ASSUME NEW src, NEW n \in Nat, NEW t, NEW origin, NEW V, NEW lines,
           IsReading(t, src, n, origin, V, lines), NEW r \in ReadState, r.ok,
           r = Abs!ReadLine(n + 1, src[n + 1], t[n], origin, V, lines)
    PROVE  \E u : IsReading(u, src, n + 1, origin, V, lines) /\ u[n + 1] = r
<1> DEFINE u == [i \in 0..n+1 |-> IF i = n + 1 THEN r ELSE t[i]]
<1>1. /\ u[n + 1] = r /\ \A i \in 0..n : u[i] = t[i]
      /\ u \in [0..n+1 -> ReadState]
  BY DEF IsReading
<1> HIDE DEF u
<1>2. u[0] = Abs!Start(origin)
  BY <1>1 DEF IsReading
<1>3. ASSUME NEW i \in 1..n+1
      PROVE  u[i] = Abs!ReadLine(i, src[i], u[i - 1], origin, V, lines)
  <2>1. CASE i = n + 1
    <3>1. i - 1 = n /\ u[i - 1] = t[n]
      BY <1>1, <2>1
    <3>2. QED
      BY <1>1, <2>1, <3>1
  <2>2. CASE i # n + 1
    <3>1. i \in 1..n /\ i \in 0..n /\ i - 1 \in 0..n
      BY <2>2
    <3>2. u[i] = t[i] /\ u[i - 1] = t[i - 1]
      BY <1>1, <3>1
    <3>3. QED
      BY <3>1, <3>2 DEF IsReading
  <2>3. QED
    BY <2>1, <2>2
<1>4. \A i \in 0..n+1 : u[i].ok
  BY <1>1 DEF IsReading
<1>5. QED
  BY <1>1, <1>2, <1>3, <1>4 DEF IsReading

-----------------------------------------------------------------------------
(* The state of Passes is a state of the reading. *)

Table == [l \in {k \in Labels : labels[k].state = "live"} |-> labels[l].value]

Now == [addr |-> current_address, start |-> start_address, depth |-> level - 1,
        hidden |-> IF avoid_level = 0 THEN 0 ELSE avoid_level - 1,
        bss |-> is_bss, next |-> Len(emitted) + 1, ok |-> TRUE]

\* The pass has found nothing yet that makes it fail, or makes one more pass
\* necessary.
Clean == errors = {} /\ ~have_labels_changed /\ 1 \notin jump_range_bits

NestingKept == avoid_level = 0 \/ avoid_level \in 2..level

LEMMA NowTyped ==
    ASSUME TInv
    PROVE  Now \in ReadState
<1>1. /\ current_address \in Int /\ start_address \in Int /\ level \in Nat
      /\ avoid_level \in Nat /\ Len(emitted) + 1 \in Nat \ {0}
  BY DEF TInv, TypeOK, AddressTyped, NestingTyped, EmittedTyped
<1>2. is_bss \in BOOLEAN
  BY DEF TInv, TypeOK, NestingTyped
<1>3. (IF avoid_level = 0 THEN 0 ELSE avoid_level - 1) \in Int
  BY <1>1
<1>4. QED
  BY <1>1, <1>2, <1>3 DEF Now, ReadState

LEMMA NextNowTyped ==
    ASSUME TInv'
    PROVE  Now' \in ReadState
<1>1. /\ current_address' \in Int /\ start_address' \in Int /\ level' \in Nat
      /\ avoid_level' \in Nat /\ Len(emitted') + 1 \in Nat \ {0}
  BY DEF TInv, TypeOK, AddressTyped, NestingTyped, EmittedTyped
<1>2. is_bss' \in BOOLEAN
  BY DEF TInv, TypeOK, NestingTyped
<1>3. (IF avoid_level' = 0 THEN 0 ELSE avoid_level' - 1) \in Int
  BY <1>1
<1>4. QED
  BY <1>1, <1>2, <1>3 DEF Now, ReadState

LEMMA TableHolds ==
    ASSUME TypeOK, NEW l \in Labels, NEW v, Holds(l, v)
    PROVE  Abs!Defined(Table, l) /\ Table[l] = v
BY DEF Holds, Table, Abs!Defined

LEMMA VisibleNow ==
    ASSUME TInv, NestingKept
    PROVE  Abs!Visible(Now) <=> ~Skipping
<1>1. level \in Nat /\ avoid_level \in Nat
  BY DEF TInv, TypeOK, NestingTyped
<1>2. QED
  BY <1>1 DEF Abs!Visible, Now, Skipping, NestingKept

-----------------------------------------------------------------------------
(* The line that an action emits can encode its source line. *)

EncodesLine(size) == Abs!Encodes(source[line], current_address, size, Table, start_address)

\* A clean line of code.
CleanLine == assembler_pass > 1 /\ errors' = {} /\ 1 \notin jump_range_bits'

EmitsEncoded ==
    \E size \in Nat, to \in Int :
        /\ Emit(size, to) /\ EncodesLine(size)
        /\ Abs!RefersTo(source[line]) => Abs!Defined(Table, source[line].l)

LEMMA TableValue ==
    ASSUME TypeOK, NEW l \in Labels, assembler_pass > 1, UndefinedErrors(l) = {}
    PROVE  /\ Abs!Defined(Table, l) /\ Table[l] = Value(l)
           /\ JumpTarget(l) = Value(l) /\ Value(l) \in Int
<1>1. Holds(l, Value(l)) /\ JumpTarget(l) = Value(l)
  BY Referenced
<1>2. QED
  BY <1>1, TableHolds, ValueInt DEF TypeOK

LEMMA JmpEncoded ==
    ASSUME TypeOK, Jmp, CleanLine
    PROVE  EmitsEncoded
<1> DEFINE l == source[line].l
           guess == Guess(l, 1)
           short == ~guess.wide /\ IsInt8(Displacement(JumpTarget(l), 2))
<1>1. l \in Labels /\ source[line].op = "jmp"
  BY LineInSource, LineFields DEF Jmp, OnCode, OnLine, AtLine, RefOps
<1>2. /\ UndefinedErrors(l) \subseteq errors'
      /\ short => Emit(2, JumpTarget(l))
      /\ ~short => Emit(3, Value(l))
  BY DEF Jmp, Report
<1>3. /\ Abs!Defined(Table, l) /\ Table[l] = Value(l)
      /\ JumpTarget(l) = Value(l) /\ Value(l) \in Int
  BY <1>1, <1>2, TableValue DEF CleanLine
<1>4. short => EncodesLine(2)
  BY <1>1, <1>3 DEF EncodesLine, Abs!Encodes, Abs!IsInt8, IsInt8, Displacement
<1>5. EncodesLine(3)
  BY <1>1, <1>3 DEF EncodesLine, Abs!Encodes
<1>6. QED
  BY <1>2, <1>3, <1>4, <1>5 DEF EmitsEncoded

LEMMA JccEncoded ==
    ASSUME TypeOK, Jcc, CleanLine
    PROVE  EmitsEncoded
<1> DEFINE l == source[line].l
           to == JumpTarget(l)
           short == IsInt8(Displacement(to, 2))
<1>1. l \in Labels /\ source[line].op = "jcc"
  BY LineInSource, LineFields DEF Jcc, OnCode, OnLine, AtLine, RefOps
<1>2. /\ short => Emit(2, to) /\ UndefinedErrors(l) \subseteq errors'
      /\ ~short => Emit(5, to)
  BY DEF Jcc, Report
<1>3. /\ Abs!Defined(Table, l) /\ Table[l] = to /\ to \in Int
  <2>1. CASE short
    BY <1>1, <1>2, <2>1, TableValue DEF CleanLine
  <2>2. CASE ~short
    <3>1. ~Undefined(l)
      BY <2>2 DEF JumpTarget, Displacement, IsInt8, TypeOK, AddressTyped
    <3>2. UndefinedErrors(l) = {}
      BY <3>1 DEF UndefinedErrors
    <3>3. QED
      BY <1>1, <3>2, TableValue DEF CleanLine
  <2>3. QED
    BY <2>1, <2>2
<1>4. short => EncodesLine(2)
  BY <1>1, <1>3 DEF EncodesLine, Abs!Encodes, Abs!IsInt8, IsInt8, Displacement
<1>5. EncodesLine(5)
  BY <1>1, <1>3 DEF EncodesLine, Abs!Encodes
<1>6. QED
  BY <1>2, <1>3, <1>4, <1>5 DEF EmitsEncoded

LEMMA ShortJumpEncoded ==
    ASSUME TypeOK, ShortJump, CleanLine
    PROVE  EmitsEncoded
<1> DEFINE l == source[line].l
           to == JumpTarget(l)
<1>1. l \in Labels /\ source[line].op = "short"
  BY LineInSource, LineFields DEF ShortJump, OnCode, OnLine, AtLine, RefOps
<1>2. Emit(2, to) /\ UndefinedErrors(l) \subseteq errors' /\ ~OutOfReach(to)
  BY DEF ShortJump, Report, CleanLine
<1>3. Abs!Defined(Table, l) /\ Table[l] = to /\ to \in Int
  BY <1>1, <1>2, TableValue DEF CleanLine
<1>4. EncodesLine(2)
  BY <1>1, <1>2, <1>3 DEF EncodesLine, Abs!Encodes, Abs!IsInt8, IsInt8, Displacement,
                          OutOfReach, CleanLine
<1>5. QED
  BY <1>2, <1>3, <1>4 DEF EmitsEncoded

LEMMA NearOrWordEncoded ==
    ASSUME TypeOK, NearJump \/ DefineWord, CleanLine
    PROVE  EmitsEncoded
<1> DEFINE l == source[line].l
           size == IF source[line].op = "near" THEN 3 ELSE 2
<1>1. l \in Labels /\ source[line].op \in {"near", "dw"}
  BY LineInSource, LineFields DEF NearJump, DefineWord, OnCode, OnLine, AtLine, RefOps
<1>2. Emit(size, Value(l)) /\ UndefinedErrors(l) \subseteq errors'
  BY DEF NearJump, DefineWord, OnCode, OnLine, AtLine, Report
<1>3. Abs!Defined(Table, l) /\ Value(l) \in Int
  BY <1>1, <1>2, TableValue DEF CleanLine
<1>4. EncodesLine(size) /\ size \in Nat
  BY <1>1, <1>3 DEF EncodesLine, Abs!Encodes
<1>5. QED
  BY <1>2, <1>3, <1>4 DEF EmitsEncoded

LEMMA OperandEncoded ==
    ASSUME TypeOK, EffectiveAddress \/ Immediate, CleanLine
    PROVE  EmitsEncoded
<1> DEFINE l == source[line].l
<1>1. l \in Labels /\ UndefinedErrors(l) \subseteq errors'
  BY LineInSource, LineFields DEF EffectiveAddress, Immediate, OnCode, OnLine, AtLine,
                                  RefOps, Report
<1>2. Abs!Defined(Table, l) /\ Table[l] = Value(l) /\ Value(l) \in Int
  BY <1>1, TableValue DEF CleanLine
<1>3. CASE EffectiveAddress
  <2> DEFINE guess == Guess(l, 0)
             width == IF guess.wide THEN 2 ELSE OffsetWidth(Value(l))
  <2>1. Emit(2 + width, Value(l)) /\ source[line].op = "ea"
    BY <1>3 DEF EffectiveAddress, OnCode, OnLine, AtLine
  <2>2. width \in 0..2 /\ EncodesLine(2 + width)
    BY <1>2, <2>1 DEF OffsetWidth, EncodesLine, Abs!Encodes, IsInt8In16, Abs!IsInt8In16
  <2>3. QED
    BY <1>2, <2>1, <2>2 DEF EmitsEncoded
<1>4. CASE Immediate
  <2> DEFINE guess == IF opt_level = 0 THEN NoGuess ELSE Guess(l, 1)
             byte == opt_level # 0 /\ ~guess.wide /\ IsInt8In16(Value(l))
             size == IF byte THEN 3 ELSE 4
  <2>1. Emit(size, Value(l)) /\ source[line].op = "imm"
    BY <1>4 DEF Immediate, OnCode, OnLine, AtLine
  <2>2. size \in Nat /\ EncodesLine(size)
    BY <1>2, <2>1 DEF EncodesLine, Abs!Encodes, IsInt8In16, Abs!IsInt8In16
  <2>3. QED
    BY <1>2, <2>1, <2>2 DEF EmitsEncoded
<1>5. QED
  BY <1>3, <1>4

LEMMA FillEncoded ==
    ASSUME TypeOK, Fill \/ Incbin
    PROVE  EmitsEncoded
<1> DEFINE n == source[line].n
<1>1. n \in Nat /\ source[line].op \in {"fill", "incbin"} /\ Emit(n, 0)
  BY LineInSource, LineFields DEF Fill, Incbin, OnCode, OnLine, AtLine, NumOps
<1>2. EncodesLine(n) /\ ~Abs!RefersTo(source[line])
  BY <1>1 DEF EncodesLine, Abs!Encodes, Abs!RefersTo
<1>3. QED
  BY <1>1, <1>2 DEF EmitsEncoded

LEMMA PadEncoded ==
    ASSUME TypeOK, Pad, CleanLine
    PROVE  EmitsEncoded
<1> DEFINE times == source[line].n - (current_address - start_address)
<1>1. source[line].n \in Nat /\ source[line].op = "pad"
  BY LineInSource, LineFields DEF Pad, OnCode, OnLine, AtLine, NumOps
<1>2. ~(times < 0) /\ Emit(times, 0)
  BY DEF Pad, Report, CleanLine
<1>3. current_address \in Int /\ start_address \in Int
  BY DEF TypeOK, AddressTyped
<1>4. times \in Nat /\ EncodesLine(times) /\ ~Abs!RefersTo(source[line])
  BY <1>1, <1>2, <1>3 DEF EncodesLine, Abs!Encodes, Abs!RefersTo
<1>5. QED
  BY <1>2, <1>4 DEF EmitsEncoded

\* The filler up to the next multiple of n.
LEMMA AlignFills ==
    ASSUME NEW a \in Int, NEW n \in Nat \ {0}
    PROVE  /\ (n - (a % n)) % n \in Nat
           /\ (n - (a % n)) % n < n
           /\ (a + ((n - (a % n)) % n)) % n = 0
OBVIOUS

LEMMA AlignEncoded ==
    ASSUME TypeOK, Align, CleanLine
    PROVE  EmitsEncoded
<1> DEFINE n == source[line].n
           size == AlignTimes(n)
<1>1. n \in Nat /\ source[line].op = "align"
  BY LineInSource, LineFields DEF Align, OnCode, OnLine, AtLine, NumOps
<1>2. n # 0 /\ Emit(size, 0)
  BY DEF Align, Report, CleanLine
<1>3. current_address \in Int
  BY DEF TypeOK, AddressTyped
<1>4. size \in Nat /\ size < n /\ (current_address + size) % n = 0
  BY <1>1, <1>2, <1>3, AlignFills DEF AlignTimes
<1>5. EncodesLine(size) /\ ~Abs!RefersTo(source[line])
  BY <1>1, <1>4 DEF EncodesLine, Abs!Encodes, Abs!RefersTo
<1>6. QED
  BY <1>2, <1>4, <1>5 DEF EmitsEncoded

-----------------------------------------------------------------------------
(* Each line moves the reading on. *)

ReadsLine ==
    Now' = Abs!ReadLine(line, source[line], Now, default_start_address, Table', emitted')

\* A record of which two fields are changed.
LEMMA MovedOn ==
    ASSUME NEW r \in ReadState, NEW a \in Int, NEW b \in Nat \ {0}
    PROVE  [r EXCEPT !.addr = a, !.next = b]
              = [addr |-> a, start |-> r.start, depth |-> r.depth,
                 hidden |-> r.hidden, bss |-> r.bss, next |-> b, ok |-> r.ok]
<1> DEFINE s == [r EXCEPT !.addr = a]
<1>1. /\ s = [addr |-> a, start |-> r.start, depth |-> r.depth,
              hidden |-> r.hidden, bss |-> r.bss, next |-> r.next, ok |-> r.ok]
      /\ s \in ReadState
  BY DEF ReadState
<1>2. [r EXCEPT !.addr = a, !.next = b] = [s EXCEPT !.next = b]
  BY Zenon
<1> HIDE DEF s
<1>3. [s EXCEPT !.next = b]
         = [addr |-> s.addr, start |-> s.start, depth |-> s.depth,
            hidden |-> s.hidden, bss |-> s.bss, next |-> b, ok |-> s.ok]
  BY <1>1 DEF ReadState
<1>4. /\ s.addr = a /\ s.start = r.start /\ s.depth = r.depth
      /\ s.hidden = r.hidden /\ s.bss = r.bss /\ s.ok = r.ok
  BY <1>1
<1>5. QED
  BY <1>2, <1>3, <1>4

\* The same of a line of the preprocessor.
LEMMA Nested ==
    ASSUME NEW r \in ReadState, NEW d \in Int, NEW h \in Int, NEW o \in BOOLEAN
    PROVE  [r EXCEPT !.depth = d, !.hidden = h, !.ok = o]
              = [addr |-> r.addr, start |-> r.start, depth |-> d,
                 hidden |-> h, bss |-> r.bss, next |-> r.next, ok |-> o]
<1> DEFINE s == [r EXCEPT !.depth = d]
           u == [s EXCEPT !.hidden = h]
<1>1. /\ s = [addr |-> r.addr, start |-> r.start, depth |-> d,
              hidden |-> r.hidden, bss |-> r.bss, next |-> r.next, ok |-> r.ok]
      /\ s \in ReadState
  BY DEF ReadState
<1>2. [r EXCEPT !.depth = d, !.hidden = h, !.ok = o] = [u EXCEPT !.ok = o]
  BY Zenon
<1> HIDE DEF s
<1>3. /\ u = [addr |-> r.addr, start |-> r.start, depth |-> d,
              hidden |-> h, bss |-> r.bss, next |-> r.next, ok |-> r.ok]
      /\ u \in ReadState
  <2>1. u = [addr |-> s.addr, start |-> s.start, depth |-> s.depth,
             hidden |-> h, bss |-> s.bss, next |-> s.next, ok |-> s.ok]
    BY <1>1 DEF ReadState
  <2>2. QED
    BY <1>1, <2>1 DEF ReadState
<1> HIDE DEF u
<1>4. [u EXCEPT !.ok = o]
         = [addr |-> u.addr, start |-> u.start, depth |-> u.depth,
            hidden |-> u.hidden, bss |-> u.bss, next |-> u.next, ok |-> o]
  BY <1>3 DEF ReadState
<1>5. QED
  BY <1>2, <1>3, <1>4

\* A line that emits, or gives a label its value.
LEMMA ProductRead ==
    ASSUME TInv, NestingKept, ~Skipping, NEW size \in Nat, NEW to \in Int,
           Abs!Produces(source[line]),
           source[line].op \notin {"if", "else", "endif"},
           source[line].op \in {"label", "equ", "incbin"} \/ ~is_bss,
           Abs!RefersTo(source[line]) => Abs!Defined(Table', source[line].l),
           Abs!Encodes(source[line], current_address, size, Table', start_address),
           emitted' = Append(emitted, Entry(size, to)),
           current_address' = current_address + size,
           UNCHANGED <<start_address, level, avoid_level, is_bss>>
    PROVE  ReadsLine
<1> DEFINE item == source[line]
           n == Len(emitted)
           e == emitted'[n + 1]
<1>1. emitted \in Seq(EntrySet) /\ Entry(size, to) \in EntrySet
  BY DEF TInv, TypeOK, EmittedTyped, Entry, EntrySet, AddressTyped, MainTyped
<1>2. Len(emitted') = n + 1 /\ e = Entry(size, to) /\ n \in Nat
  BY <1>1
<1>3. e.line = line /\ e.at = current_address /\ e.size = size
  BY <1>2 DEF Entry
<1>4. Abs!Visible(Now)
  BY VisibleNow
<1>5. Abs!ReadLine(line, item, Now, default_start_address, Table', emitted')
         = Abs!ReadProduct(line, item, Now, Table', emitted')
  BY <1>4 DEF Abs!ReadLine
<1>6. Now.next = n + 1 /\ Now.addr = current_address /\ Now.start = start_address
      /\ Now.bss = is_bss
  BY DEF Now
<1>7. Abs!ReadProduct(line, item, Now, Table', emitted')
         = [Now EXCEPT !.addr = @ + size, !.next = @ + 1]
  <2>1. Now.next <= Len(emitted') /\ emitted'[Now.next] = e
    BY <1>2, <1>6
  <2>2. Abs!ReadProduct(line, item, Now, Table', emitted')
           = [Now EXCEPT !.addr = @ + e.size, !.next = @ + 1]
    <3> HIDE DEF e
    <3> QED
      BY <1>3, <1>6, <2>1, Zenon DEF Abs!ReadProduct
  <2>3. QED
    BY <1>3, <2>2, Zenon
<1>8. Now' = [Now EXCEPT !.addr = @ + size, !.next = @ + 1]
  <2>1. [Now EXCEPT !.addr = @ + size, !.next = @ + 1]
           = [addr |-> Now.addr + size, start |-> Now.start, depth |-> Now.depth,
              hidden |-> Now.hidden, bss |-> Now.bss, next |-> Now.next + 1, ok |-> Now.ok]
    <3>1. Now \in ReadState
      BY NowTyped
    <3>2. Now.addr + size \in Int /\ Now.next + 1 \in Nat \ {0}
      BY <3>1 DEF ReadState
    <3>3. QED
      BY <3>1, <3>2, MovedOn
  <2>2. QED
    BY <1>2, <2>1 DEF Now
<1>9. QED
  BY <1>5, <1>7, <1>8 DEF ReadsLine

LEMMA CodeRead ==
    ASSUME TInv, NestingKept, Code, CleanLine
    PROVE  ReadsLine
<1>1. CASE Resb
  <2>1. /\ source[line].op = "resb" /\ source[line].n \in Nat /\ ~Skipping /\ is_bss
        /\ current_address' = current_address + source[line].n
        /\ UNCHANGED <<start_address, level, avoid_level, is_bss, emitted>>
    BY <1>1, LineInSource, LineFields DEF Resb, OnLine, AtLine, NumOps, TInv,
                                          unchangedByCode, lineVars
  <2>2. Abs!Visible(Now)
    BY <2>1, VisibleNow
  <2>3. Abs!ReadLine(line, source[line], Now, default_start_address, Table', emitted')
           = Abs!ReadDirective(source[line], Now, default_start_address)
    BY <2>1, <2>2 DEF Abs!ReadLine, Abs!Produces, Abs!RefersTo
  <2>4. QED
    BY <2>1, <2>3 DEF Abs!ReadDirective, ReadsLine, Now
<1>2. CASE ~Resb
  <2>1. ~MisplacedLine
    BY DEF MisplacedLine, Report, CleanLine
  <2>2. /\ source[line].op \in RefOps \cup {"fill", "pad", "align", "incbin"}
        /\ ~Skipping /\ (source[line].op = "incbin" \/ ~is_bss)
        /\ UNCHANGED <<start_address, level, avoid_level, is_bss, labels>>
    BY <1>2, <2>1
       DEF Code, Jmp, Jcc, ShortJump, NearJump, DefineWord, EffectiveAddress, Immediate,
           Fill, Pad, Align, Incbin, OnCode, OnLine, AtLine, RefOps, unchangedByCode,
           lineVars
  <2>3. EmitsEncoded
    BY <1>2, <2>1, JmpEncoded, JccEncoded, ShortJumpEncoded, NearOrWordEncoded,
       OperandEncoded, FillEncoded, PadEncoded, AlignEncoded, Zenon DEF Code, TInv
  <2>4. PICK size \in Nat, to \in Int :
           /\ Emit(size, to) /\ EncodesLine(size)
           /\ Abs!RefersTo(source[line]) => Abs!Defined(Table, source[line].l)
    BY <2>3 DEF EmitsEncoded
  <2>5. Table' = Table
    BY <2>2 DEF Table
  <2>6. emitted' = Append(emitted, Entry(size, to)) /\ current_address' = current_address + size
    BY <2>4 DEF Emit, CleanLine
  <2>7. Abs!Produces(source[line]) /\ source[line].op \notin {"if", "else", "endif"}
    BY <2>2 DEF Abs!Produces, Abs!RefersTo, RefOps
  <2>8. Abs!Encodes(source[line], current_address, size, Table', start_address)
    BY <2>4, <2>5 DEF EncodesLine
  <2>9. QED
    BY <2>2, <2>4, <2>5, <2>6, <2>7, <2>8, ProductRead
<1>3. QED
  BY <1>1, <1>2

LEMMA DefinitionRead ==
    ASSUME IInv, NestingKept, ~Skipping, LabelFrame, CleanLine, ~have_labels_changed',
           NEW l \in Labels, NEW v \in Int, NEW errs, Defines(l, v, errs),
           source[line].op \in {"label", "equ"}, source[line].l = l,
           source[line].op = "label" => v = current_address,
           source[line].op = "equ" => /\ source[line].m \in Labels
                                      /\ v = Value(source[line].m)
                                      /\ errs = UndefinedErrors(source[line].m)
    PROVE  /\ ReadsLine
           /\ \A k \in Labels, w \in Int : Holds(k, w) => Holds(k, w)'
<1>1. /\ Holds(l, v)'
      /\ \A k \in Labels, w \in Int : Holds(k, w) => Holds(k, w)'
  BY DefinesHolds DEF CleanLine, IInv
<1>2. ASSUME NEW m \in Labels, Holds(m, v)'
      PROVE  Abs!Defined(Table', m) /\ Table'[m] = v
  BY <1>2 DEF Holds, Table, Abs!Defined
<1>3. source[line].op = "equ" =>
         Abs!Defined(Table', source[line].m) /\ Table'[source[line].m] = v
  <2>1. SUFFICES ASSUME NEW m \in Labels, source[line].op = "equ", m = source[line].m
                 PROVE  Abs!Defined(Table', m) /\ Table'[m] = v
    OBVIOUS
  <2>2. UndefinedErrors(m) = {} /\ v = Value(m)
    BY <2>1 DEF Defines, CleanLine
  <2>3. Holds(m, v)
    BY <2>2, Referenced DEF CleanLine
  <2>4. QED
    BY <1>1, <1>2, <2>3
<1>4. Abs!Defined(Table', l) /\ Table'[l] = v
  BY <1>1, <1>2
<1>5. Abs!Encodes(source[line], current_address, 0, Table', start_address)
  BY <1>3, <1>4 DEF Abs!Encodes
<1>6. emitted' = Append(emitted, Entry(0, v)) /\ current_address' = current_address + 0
  <2>1. EmitDefinition(v)
    BY DEF Defines
  <2>2. current_address \in Int
    BY DEF IInv, TInv, TypeOK, AddressTyped
  <2>3. QED
    BY <2>1, <2>2 DEF EmitDefinition, CleanLine
<1>7. UNCHANGED <<start_address, level, avoid_level, is_bss>>
  BY DEF LabelFrame
<1>8. Abs!Produces(source[line]) /\ source[line].op \notin {"if", "else", "endif"}
  BY DEF Abs!Produces, Abs!RefersTo
<1>9. ReadsLine
  BY <1>4, <1>5, <1>6, <1>7, <1>8, ProductRead DEF IInv
<1>10. QED
  BY <1>1, <1>9

LEMMA LabelRead ==
    ASSUME IInv, NestingKept, LabelLine \/ EquLine, CleanLine, ~have_labels_changed'
    PROVE  /\ ReadsLine
           /\ \A k \in Labels, w \in Int : Holds(k, w) => Holds(k, w)'
<1>1. TypeOK /\ current_address \in Int /\ ~Skipping
  BY DEF LabelLine, EquLine, OnLine, IInv, TInv, TypeOK, AddressTyped
<1>2. CASE LabelLine
  BY <1>1, <1>2, LabelLineStep, DefinitionRead
<1>3. CASE EquLine
  <2>1. /\ LabelFrame
        /\ source[line].op = "equ"
        /\ source[line].l \in Labels /\ source[line].m \in Labels
        /\ Defines(source[line].l, Value(source[line].m),
                   UndefinedErrors(source[line].m))
    BY <1>1, <1>3, EquLineStep
  <2>2. Value(source[line].m) \in Int
    BY <1>1, <2>1, ValueInt DEF TypeOK
  <2>3. QED
    BY <1>1, <2>1, <2>2, DefinitionRead
<1>4. QED
  BY <1>2, <1>3

\* The directives, of which the first org is out of question here.
DirectiveLine == OrgAgain \/ SectionBss \/ If \/ Else \/ Endif \/ SkipLine

LEMMA DirectiveRead ==
    ASSUME TInv, NestingKept, DirectiveLine, CleanLine
    PROVE  ReadsLine /\ NestingKept' /\ line' = line + 1 /\ phase' = "assemble"
<1> DEFINE item == source[line]
<1>1. /\ level \in Nat /\ avoid_level \in Nat /\ level > 0 /\ phase = "assemble"
      /\ line \in DOMAIN source /\ item \in Line /\ errors' = {}
  BY LineInSource
     DEF TInv, TypeOK, NestingTyped, Control, DirectiveLine, OrgAgain, SectionBss, If,
         Else, Endif, SkipLine, OnLine, AtLine, CleanLine
<1>2. UNCHANGED emitted
  BY DEF DirectiveLine, OrgAgain, SectionBss, If, Else, Endif, SkipLine,
         unchangedByCondition, unchangedByDirective
<1>3. Abs!Visible(Now) <=> ~Skipping
  BY VisibleNow
<1>4. CASE OrgAgain
  <2>1. /\ item.op = "org" /\ ~Skipping /\ item.n = default_start_address /\ NextLine
        /\ UNCHANGED <<current_address, start_address, level, avoid_level, is_bss>>
    BY <1>1, <1>4 DEF OrgAgain, OnLine, AtLine, Report, lineVars
  <2>2. Now' = Now
    BY <1>2, <2>1 DEF Now
  <2>3. Abs!ReadLine(line, item, Now, default_start_address, Table', emitted')
           = Abs!ReadDirective(item, Now, default_start_address)
    BY <1>3, <2>1 DEF Abs!ReadLine, Abs!Produces, Abs!RefersTo
  <2>4. Abs!ReadDirective(item, Now, default_start_address) = Now
    BY <2>1 DEF Abs!ReadDirective, Now
  <2>5. QED
    BY <1>1, <2>1, <2>2, <2>3, <2>4 DEF ReadsLine, NestingKept, NextLine
<1>5. CASE SectionBss
  <2>1. /\ item.op = "bss" /\ ~Skipping /\ NextLine /\ is_bss' = TRUE
        /\ start_address' = IF is_bss THEN start_address ELSE current_address
        /\ UNCHANGED <<current_address, level, avoid_level>>
    BY <1>5 DEF SectionBss, OnLine, AtLine
  <2>2. Abs!ReadLine(line, item, Now, default_start_address, Table', emitted')
           = Abs!ReadDirective(item, Now, default_start_address)
    BY <1>3, <2>1 DEF Abs!ReadLine, Abs!Produces, Abs!RefersTo
  <2>3. Abs!ReadDirective(item, Now, default_start_address) = Now'
    BY <1>2, <2>1 DEF Abs!ReadDirective, Now
  <2>4. QED
    BY <1>1, <2>1, <2>2, <2>3 DEF ReadsLine, NestingKept, NextLine
<1>6. CASE SkipLine
  <2>1. /\ item.op \notin PreprocOps /\ Skipping /\ NextLine
        /\ UNCHANGED <<current_address, start_address, level, avoid_level, is_bss>>
    BY <1>6 DEF SkipLine, lineVars, addressVars
  <2>2. Now' = Now
    BY <1>2, <2>1 DEF Now
  <2>3. Abs!ReadLine(line, item, Now, default_start_address, Table', emitted') = Now
    BY <1>3, <2>1 DEF Abs!ReadLine, PreprocOps
  <2>4. QED
    BY <1>1, <2>1, <2>2, <2>3 DEF ReadsLine, NestingKept, NextLine
<1>7. CASE If \/ Else \/ Endif
  <2>1. /\ NextLine /\ item.op \in {"if", "else", "endif"}
        /\ UNCHANGED <<current_address, start_address, is_bss>>
    BY <1>1, <1>7 DEF If, Else, Endif, AtLine, Report, unchangedByCondition
  <2>2. Abs!ReadLine(line, item, Now, default_start_address, Table', emitted')
           = Abs!ReadCondition(item, Now)
    BY <2>1 DEF Abs!ReadLine
  <2> DEFINE d == Abs!DepthAfter(item, Now)
             h == Abs!HiddenAfter(item, Now)
  <2>3. /\ NestingKept' /\ (item.op = "if" \/ level > 1)
        /\ level' - 1 = d /\ d \in Int
        /\ (IF avoid_level' = 0 THEN 0 ELSE avoid_level' - 1) = h /\ h \in Int
    <3>1. CASE If
      <4>1. /\ item.op = "if" /\ level' = level + 1
            /\ avoid_level' = IF ~Skipping /\ current_address - start_address < item.n
                              THEN level + 1 ELSE avoid_level
        <5>1. current_address \in Int /\ start_address \in Int /\ item.n \in Int
          BY <1>1, <3>1, LineFields DEF If, AtLine, NumOps, TInv, TypeOK, AddressTyped
        <5>2. QED
          BY <1>1, <3>1, <5>1 DEF If, AtLine, Skipping, NestingKept
      <4>2. QED
        BY <1>1, <1>3, <4>1 DEF Abs!DepthAfter, Abs!HiddenAfter, Now, NestingKept
    <3>2. CASE Else
      <4>1. /\ item.op = "else" /\ level' = level /\ level # 1
            /\ avoid_level' = IF avoid_level = level THEN 0
                              ELSE IF avoid_level = 0 THEN level ELSE avoid_level
        BY <1>1, <3>2 DEF Else, AtLine, Report
      <4>2. QED
        BY <1>1, <4>1 DEF Abs!DepthAfter, Abs!HiddenAfter, Now, NestingKept
    <3>3. CASE Endif
      <4>1. /\ item.op = "endif" /\ level' = level - 1 /\ level # 1
            /\ avoid_level' = IF avoid_level = level THEN 0 ELSE avoid_level
        BY <1>1, <3>3 DEF Endif, AtLine, Report
      <4>2. QED
        BY <1>1, <4>1 DEF Abs!DepthAfter, Abs!HiddenAfter, Now, NestingKept
    <3>4. QED
      BY <1>7, <3>1, <3>2, <3>3
  <2>4. Abs!ReadCondition(item, Now) = Now'
    <3>1. Now.depth > 0 <=> level > 1
      BY <1>1 DEF Now
    <3>2. Abs!ReadCondition(item, Now) = [Now EXCEPT !.depth = d, !.hidden = h, !.ok = TRUE]
      <4>1. (Now.ok /\ (item.op = "if" \/ Now.depth > 0)) = TRUE
        BY <2>3, <3>1 DEF Now
      <4>2. Abs!ReadCondition(item, Now)
              = [Now EXCEPT !.depth = d, !.hidden = h,
                            !.ok = Now.ok /\ (item.op = "if" \/ Now.depth > 0)]
        BY Zenon DEF Abs!ReadCondition
      <4>3. QED
        BY <4>1, <4>2, Zenon
    <3>3. Now \in ReadState
      BY NowTyped
    <3> HIDE DEF d, h
    <3>4. [Now EXCEPT !.depth = d, !.hidden = h, !.ok = TRUE]
             = [addr |-> Now.addr, start |-> Now.start, depth |-> d,
                hidden |-> h, bss |-> Now.bss, next |-> Now.next, ok |-> TRUE]
      <4>1. d \in Int /\ h \in Int /\ TRUE \in BOOLEAN
        BY <2>3
      <4>2. QED
        BY <3>3, <4>1, Nested, Zenon
    <3>5. QED
      BY <1>2, <2>1, <2>3, <3>2, <3>4 DEF Now
  <2>5. QED
    BY <1>1, <2>1, <2>2, <2>3, <2>4 DEF ReadsLine, NextLine
<1>8. QED
  BY <1>4, <1>5, <1>6, <1>7 DEF DirectiveLine

-----------------------------------------------------------------------------
(* While a pass that generates code finds nothing wrong, what it has emitted   *)
(* reads like the lines it has read.                                           *)

ReadUpTo(n) ==
    \E t : /\ IsReading(t, source, n, default_start_address, Table, emitted)
           /\ t[n] = Now

ReadSoFar ==
    InPass /\ assembler_pass > 1 /\ Clean =>
        /\ ReadUpTo(line - 1) /\ NestingKept /\ line <= Len(source) + 1
        /\ phase = "assembled" => line = Len(source) + 1 /\ level = 1

\* The origin is one that Assembler allows; after pass 0 (OriginKnown, of
\* PassesProofs) no org line changes it.
OriginPossible == default_start_address \in Abs!PossibleOrigins(source)

RInv == IInv /\ ReadSoFar /\ OriginKnown /\ OriginPossible

\* The label table of a clean pass only gains labels.
TableGrows == \A k \in Labels, w \in Int : Holds(k, w) => Holds(k, w)'

LEMMA TableExtended ==
    ASSUME TypeOK, TableGrows
    PROVE  /\ DOMAIN Table \subseteq DOMAIN Table'
           /\ \A l \in DOMAIN Table : Table'[l] = Table[l]
<1>1. ASSUME NEW l \in DOMAIN Table
      PROVE  l \in DOMAIN Table' /\ Table'[l] = Table[l]
  <2>1. PICK w \in Int : l \in Labels /\ Table[l] = w /\ Holds(l, w)
    BY DEF Table, TypeOK, LabelsTyped, LabelSet, Holds
  <2>2. Holds(l, w)'
    BY <2>1 DEF TableGrows
  <2>3. QED
    BY <2>1, <2>2 DEF Holds, Table
<1>2. QED
  BY <1>1

LEMMA ReadOn ==
    ASSUME IInv, IInv', ReadUpTo(line - 1), ReadsLine, TableGrows, Extends,
           UNCHANGED <<source, default_start_address>>,
           line \in DOMAIN source, line' = line + 1
    PROVE  ReadUpTo(line - 1)'
<1>1. PICK t : /\ IsReading(t, source, line - 1, default_start_address, Table, emitted)
               /\ t[line - 1] = Now
  BY DEF ReadUpTo
<1>2. /\ source \in Seq(Line) /\ line \in Nat \ {0} /\ line - 1 \in 0..Len(source)
      /\ line - 1 \in Nat /\ (line - 1) + 1 = line
  BY DEF IInv, TInv, TypeOK, SourceTyped, MainTyped
<1>3. /\ emitted \in Seq(EntrySet) /\ emitted' \in Seq(EntrySet)
      /\ Len(emitted) <= Len(emitted')
      /\ \A j \in 1..Len(emitted) : emitted'[j] = emitted[j]
  <2>1. emitted \in Seq(EntrySet) /\ emitted' \in Seq(EntrySet)
    BY DEF IInv, TInv, TypeOK, EmittedTyped
  <2>2. QED
    BY <2>1 DEF Extends
<1>4. /\ DOMAIN Table \subseteq DOMAIN Table'
      /\ \A l \in DOMAIN Table : Table'[l] = Table[l]
  BY TableExtended DEF IInv, TInv
<1>5. IsReading(t, source, line - 1, default_start_address, Table', emitted')
  BY <1>1, <1>2, <1>3, <1>4, ReadingExtended
<1>6. Now' \in ReadState /\ Now'.ok
  <2>1. Now' \in ReadState
    BY NextNowTyped DEF IInv
  <2>2. Now'.ok = TRUE
    BY DEF Now
  <2>3. QED
    BY <2>1, <2>2
<1>7. Now' = Abs!ReadLine(line - 1 + 1, source[line - 1 + 1], t[line - 1],
                          default_start_address, Table', emitted')
  BY <1>1, <1>2 DEF ReadsLine
<1>8. \E u : /\ IsReading(u, source, line - 1 + 1, default_start_address, Table', emitted')
             /\ u[line - 1 + 1] = Now'
  BY <1>2, <1>5, <1>6, <1>7, ReadingContinued
<1>9. line' - 1 = line - 1 + 1
  BY <1>2
<1>10. QED
  BY <1>8, <1>9 DEF ReadUpTo

\* Nothing found wrong after a line means nothing found wrong before it.
LEMMA CleanBefore ==
    ASSUME IInv, AssembleLine, InPass', (assembler_pass > 1)', Clean'
    PROVE  /\ InPass /\ Clean /\ CleanLine /\ ~have_labels_changed'
           /\ phase = "assemble" /\ UNCHANGED source
<1>1. SameLineState
  BY AssembleLineKeeps DEF IInv
<1>2. /\ phase = "assemble" /\ errors = {} /\ errors' = {} /\ assembler_pass > 1
      /\ UNCHANGED source
  BY <1>1 DEF SameLineState, Clean
<1>3. CASE LabelLine \/ EquLine
  <2>1. UNCHANGED jump_range_bits
    BY <1>3, LabelLineStep, EquLineStep DEF IInv, TInv, LabelFrame
  <2>2. \E l \in Labels, v \in Int : \E errs : Defines(l, v, errs)
    <3>1. current_address \in Int
      BY DEF IInv, TInv, TypeOK, AddressTyped
    <3>2. CASE LabelLine
      BY <3>1, <3>2, LabelLineStep DEF IInv, TInv
    <3>3. CASE EquLine
      <4>1. /\ source[line].l \in Labels /\ source[line].m \in Labels
            /\ Defines(source[line].l, Value(source[line].m),
                       UndefinedErrors(source[line].m))
        BY <3>3, EquLineStep DEF IInv, TInv
      <4>2. Value(source[line].m) \in Int
        BY <4>1, ValueInt DEF IInv, TInv, TypeOK
      <4>3. QED
        BY <4>1, <4>2
    <3>4. QED
      BY <1>3, <3>2, <3>3
  <2>3. ~have_labels_changed' /\ ~have_labels_changed
    BY <1>2, <2>2, DefinesHolds DEF Clean, IInv
  <2>4. QED
    BY <1>2, <2>1, <2>3 DEF Clean, CleanLine, InPass
<1>4. CASE Code
  BY <1>2, <1>4, CodeStep DEF Clean, CleanLine, InPass, CodeFrame, IInv, TInv
<1>5. CASE OrgAgain \/ OrgFirst \/ SectionBss \/ If \/ Else \/ Endif \/ SkipLine \/ EndOfFile
  <2>1. DirectiveFrame
    BY <1>5, OrgAgainStep, OrgFirstStep, SectionBssStep, IfStep, ElseStep, EndifStep,
       SkipOrEndStep DEF IInv
  <2>2. UNCHANGED <<jump_range_bits, have_labels_changed>>
    BY <2>1 DEF DirectiveFrame
  <2>3. QED
    BY <1>2, <2>2 DEF Clean, CleanLine, InPass
<1>6. QED
  BY <1>3, <1>4, <1>5 DEF AssembleLine, Directive

LEMMA LineReads ==
    ASSUME RInv, AssembleLine, IInv'
    PROVE  ReadSoFar'
<1> SUFFICES ASSUME InPass', (assembler_pass > 1)', Clean'
             PROVE  /\ ReadUpTo(line - 1)' /\ NestingKept' /\ (line <= Len(source) + 1)'
                    /\ phase' = "assembled" => line' = Len(source') + 1 /\ level' = 1
  BY DEF ReadSoFar
<1>1. /\ InPass /\ Clean /\ CleanLine /\ ~have_labels_changed' /\ UNCHANGED source
      /\ phase = "assemble"
  BY CleanBefore DEF RInv
<1>2. ReadUpTo(line - 1) /\ NestingKept /\ line <= Len(source) + 1
  BY <1>1 DEF RInv, ReadSoFar, CleanLine
<1>3. line \in Nat \ {0} /\ Len(source) \in Nat /\ IInv /\ TInv
  BY DEF RInv, IInv, TInv, TypeOK, MainTyped, SourceTyped
<1>4. ASSUME ReadsLine, TableGrows, Extends, UNCHANGED default_start_address,
             line \in DOMAIN source, line' = line + 1, phase' = "assemble", NestingKept'
      PROVE  /\ ReadUpTo(line - 1)' /\ NestingKept' /\ (line <= Len(source) + 1)'
             /\ phase' = "assembled" => line' = Len(source') + 1 /\ level' = 1
  <2>1. ReadUpTo(line - 1)'
    BY <1>1, <1>2, <1>3, <1>4, ReadOn
  <2>2. line' <= Len(source') + 1
    BY <1>1, <1>3, <1>4
  <2>3. QED
    BY <1>4, <2>1, <2>2
<1>5. CASE Code
  <2>1. CodeFrame /\ (EmitsLine \/ EmitsNothing)
    BY <1>3, <1>5, CodeStep DEF TInv
  <2>2. ReadsLine
    BY <1>1, <1>2, <1>3, <1>5, CodeRead
  <2>3. TableGrows /\ NestingKept'
    BY <1>2, <2>1 DEF TableGrows, CodeFrame, Holds, NestingKept
  <2>4. Extends
    BY <2>1 DEF Extends, EmitsLine, EmitsNothing, Emit
  <2>5. QED
    BY <1>1, <1>4, <2>1, <2>2, <2>3, <2>4 DEF CodeFrame
<1>6. CASE LabelLine \/ EquLine
  <2>1. LabelFrame
    BY <1>3, <1>6, LabelLineStep, EquLineStep DEF TInv
  <2>2. ReadsLine /\ TableGrows
    BY <1>1, <1>2, <1>3, <1>6, LabelRead DEF TableGrows
  <2>3. NestingKept'
    BY <1>2, <2>1 DEF LabelFrame, NestingKept
  <2>4. Extends
    <3>1. \E v \in Int : EmitDefinition(v)
      <4>1. CASE LabelLine
        BY <1>3, <4>1 DEF LabelLine, TInv, TypeOK, AddressTyped
      <4>2. CASE EquLine
        <5>1. source[line].m \in Labels
          BY <1>3, <4>2, EquLineStep DEF TInv
        <5>2. Value(source[line].m) \in Int
          BY <1>3, <5>1, ValueInt DEF TInv, TypeOK
        <5>3. QED
          BY <4>2, <5>2 DEF EquLine
      <4>3. QED
        BY <1>6, <4>1, <4>2
    <3>2. QED
      BY <3>1 DEF EmitDefinition, Extends
  <2>5. QED
    BY <1>1, <1>4, <2>1, <2>2, <2>3, <2>4 DEF LabelFrame
<1>7. CASE DirectiveLine
  <2>1. ReadsLine /\ NestingKept' /\ line' = line + 1 /\ phase' = "assemble"
    BY <1>1, <1>2, <1>3, <1>7, DirectiveRead
  <2>2. DirectiveFrame
    BY <1>3, <1>7, OrgAgainStep, SectionBssStep, IfStep, ElseStep, EndifStep, SkipOrEndStep
       DEF DirectiveLine
  <2>3. TableGrows /\ Extends
    BY <2>2 DEF DirectiveFrame, TableGrows, Holds, Extends
  <2>4. UNCHANGED default_start_address /\ line \in DOMAIN source
    BY <1>3, <1>7, LineInSource
       DEF DirectiveLine, OrgAgain, SectionBss, If, Else, Endif, SkipLine, OnLine, AtLine,
           unchangedByCondition, addressVars
  <2>5. QED
    BY <1>4, <2>1, <2>3, <2>4
<1>8. CASE OrgFirst
  <2>1. is_start_address_set = 0 /\ assembler_pass > 1
    BY <1>1, <1>8 DEF OrgFirst, CleanLine
  <2>2. QED
    BY <2>1, <1>3 DEF RInv, OriginKnown, TInv, TypeOK, MainTyped
<1>9. CASE EndOfFile
  <2>1. line' = line /\ line > Len(source) /\ phase' = "assembled" /\ level = 1
        /\ UNCHANGED <<level, avoid_level, is_bss, current_address, start_address,
                       default_start_address, labels, emitted>>
    BY <1>1, <1>9 DEF EndOfFile, AbandonFile, Report, CleanLine, lineVars, addressVars,
                      unchangedByDirective
  <2>2. UNCHANGED <<Now, Table>>
    BY <2>1 DEF Now, Table
  <2>3. ReadUpTo(line - 1)'
    BY <1>1, <1>2, <2>1, <2>2 DEF ReadUpTo
  <2>4. NestingKept'
    BY <1>2, <2>1 DEF NestingKept
  <2>5. QED
    BY <1>1, <1>2, <1>3, <2>1, <2>3, <2>4
<1>10. QED
  BY <1>5, <1>6, <1>7, <1>8, <1>9 DEF AssembleLine, Directive, DirectiveLine

LEMMA OriginsKept ==
    ASSUME RInv, [Next]_vars
    PROVE  OriginKnown' /\ OriginPossible'
<1>1. TypeOK
  BY DEF RInv, IInv, TInv
<1>2. CASE Code \/ LabelLine \/ EquLine
  <2>1. UNCHANGED <<source, assembler_pass, default_start_address, is_start_address_set>>
    BY <1>1, <1>2, CodeStep, LabelLineStep, EquLineStep
       DEF CodeFrame, LabelFrame, SameLineState
  <2>2. QED
    BY <2>1 DEF RInv, OriginKnown, OriginPossible
<1>3. CASE OrgFirst
  <2>1. /\ source' = source /\ line \in DOMAIN source /\ source[line].op = "org"
        /\ is_start_address_set' = 1 /\ default_start_address' = source[line].n
    BY <1>1, <1>3, LineInSource
       DEF OrgFirst, OnLine, AtLine, unchangedByDirective, unchangedByLine
  <2>2. default_start_address' \in Abs!PossibleOrigins(source)
    BY <2>1 DEF Abs!PossibleOrigins
  <2>3. QED
    BY <2>1, <2>2 DEF OriginKnown, OriginPossible
<1>4. CASE DirectiveLine \/ EndOfFile
  <2>1. UNCHANGED <<source, assembler_pass, default_start_address>>
    BY <1>4 DEF DirectiveLine, OrgAgain, SectionBss, If, Else, Endif, SkipLine, EndOfFile,
                unchangedByCondition, unchangedByDirective, unchangedByLine, addressVars
  <2>2. /\ is_start_address_set \in 0..2
        /\ \/ is_start_address_set' = is_start_address_set
           \/ is_start_address_set' = 2
    BY <1>1, <1>4
       DEF DirectiveLine, OrgAgain, SectionBss, If, Else, Endif, SkipLine, EndOfFile,
           unchangedByCondition, addressVars, TypeOK, AddressTyped
  <2>3. QED
    BY <2>1, <2>2 DEF RInv, OriginKnown, OriginPossible
<1>5. CASE MainStep \/ Failure \/ UNCHANGED vars
  <2>1. UNCHANGED <<source, default_start_address>>
    BY <1>5 DEF MainStep, FailEarly, StartSpecialPass, EndOffsetPasses, StartPass, EndPass,
                Failure, OpenFails, WriteFails, addressVars, unchangedByMain, vars
  <2>2. \/ is_start_address_set' = 1
        \/ /\ is_start_address_set' = is_start_address_set
           /\ assembler_pass' = assembler_pass \/ assembler_pass > 0
    BY <1>1, <1>5
       DEF MainStep, FailEarly, StartSpecialPass, EndOffsetPasses, StartPass, EndPass,
           Failure, OpenFails, WriteFails, addressVars, vars, RInv, IInv, TInv,
           Control, TypeOK, MainTyped
  <2>3. QED
    BY <2>1, <2>2 DEF RInv, OriginKnown, OriginPossible
<1>6. QED
  BY <1>2, <1>3, <1>4, <1>5 DEF Next, AssembleLine, Directive, DirectiveLine, Done

\* A pass starts where a reading starts.
LEMMA StartPassReads ==
    ASSUME RInv, StartPass, IInv'
    PROVE  ReadSoFar'
<1> DEFINE origin == default_start_address
           t == [i \in 0..0 |-> Abs!Start(origin)]
<1>1. /\ line' = 1 /\ level' = 1 /\ avoid_level' = 0 /\ is_bss' = FALSE /\ emitted' = <<>>
      /\ phase' = "assemble" /\ UNCHANGED <<source, default_start_address>>
      /\ current_address' = origin /\ start_address' = origin
  BY DEF StartPass, BeginAssembly, ResetAddress, unchangedByMain
<1>2. Now' = Abs!Start(origin)
  <2>1. /\ level' - 1 = 0 /\ (IF avoid_level' = 0 THEN 0 ELSE avoid_level' - 1) = 0
        /\ Len(emitted') + 1 = 1
    BY <1>1
  <2>2. QED
    BY <1>1, <2>1, Zenon DEF Now, Abs!Start
<1>3. IsReading(t, source', 0, origin, Table', emitted') /\ t[0] = Now'
  <2>1. Now' \in ReadState
    BY NextNowTyped DEF IInv
  <2>2. t \in [0..0 -> ReadState] /\ t[0] = Abs!Start(origin)
    BY <1>2, <2>1
  <2>3. \A i \in 0..0 : t[i].ok
    BY DEF Abs!Start
  <2>4. QED
    BY <1>2, <2>2, <2>3 DEF IsReading
<1>4. ReadUpTo(line - 1)'
  <2> HIDE DEF t
  <2>1. \E u : IsReading(u, source', 0, origin, Table', emitted') /\ u[0] = Now'
    BY <1>3
  <2>2. line' - 1 = 0
    BY <1>1
  <2>3. QED
    BY <1>1, <2>1, <2>2 DEF ReadUpTo
<1>5. NestingKept' /\ line' <= Len(source') + 1
  BY <1>1 DEF NestingKept, RInv, IInv, TInv, TypeOK, SourceTyped
<1>6. QED
  BY <1>1, <1>4, <1>5 DEF ReadSoFar

LEMMA NextReads ==
    ASSUME RInv, [Next]_vars
    PROVE  RInv'
<1>1. IInv'
  BY NextResolving DEF RInv
<1>2. CASE AssembleLine
  BY <1>1, <1>2, LineReads, OriginsKept DEF RInv
<1>3. CASE StartPass
  BY <1>1, <1>3, StartPassReads, OriginsKept DEF RInv
<1>4. CASE FailEarly \/ StartSpecialPass \/ EndOffsetPasses \/ EndPass \/ Failure
  <2>1. phase' \in {"done", "reassemble"} \/ assembler_pass' = 1
    BY <1>4 DEF FailEarly, RemoveOutput, StartSpecialPass, BeginAssembly, EndOffsetPasses,
                EndPass, Failure, OpenFails, WriteFails
  <2>2. ReadSoFar'
    BY <2>1 DEF ReadSoFar, InPass
  <2>3. QED
    BY <1>1, <2>2, OriginsKept DEF RInv
<1>5. CASE UNCHANGED vars
  <2>1. UNCHANGED <<source, phase, line, assembler_pass, level, avoid_level, is_bss, labels,
                    current_address, start_address, default_start_address, errors,
                    have_labels_changed, jump_range_bits, emitted>>
    BY <1>5 DEF vars, lineVars, addressVars
  <2>2. UNCHANGED <<Now, Table, Clean, InPass, NestingKept>>
    BY <2>1 DEF Now, Table, Clean, InPass, NestingKept
  <2>3. ReadUpTo(line - 1)' <=> ReadUpTo(line - 1)
    BY <2>1, <2>2 DEF ReadUpTo
  <2>4. ReadSoFar'
    BY <2>1, <2>2, <2>3 DEF RInv, ReadSoFar
  <2>5. QED
    BY <1>1, <2>4, OriginsKept DEF RInv
<1>6. QED
  BY <1>2, <1>3, <1>4, <1>5 DEF Next, MainStep, Done

LEMMA InitReads ==
    ASSUME Init
    PROVE  RInv
<1>1. IInv
  BY InitResolving
<1>2. assembler_pass = 0
  BY DEF Init
<1>3. default_start_address \in {0, 256}
  BY InvocationsAssumption DEF Init, Invocation
<1>4. QED
  BY <1>1, <1>2, <1>3 DEF RInv, ReadSoFar, OriginKnown, OriginPossible, Abs!PossibleOrigins

-----------------------------------------------------------------------------
(* Every step is one of Assembler's or leaves its state alone. *)

\* The last pass is a correct assembly.
LEMMA ProducesCorrect ==
    ASSUME RInv, EndPass, exit' = "0"
    PROVE  Abs!Correct(source, default_start_address, Table, emitted)
<1>1. phase = "assembled" /\ assembler_pass > 1 /\ exit = "running"
  BY DEF EndPass, RInv, IInv, TInv, Control
<1>2. errors = {} /\ ~have_labels_changed /\ jump_range_bits # {1}
  BY <1>1 DEF EndPass, RangeReportDue, RemoveOutput
<1>3. Clean /\ InPass
  <2>1. jump_range_bits \subseteq {1, 2}
    BY DEF RInv, IInv, TInv, TypeOK, MainTyped
  <2>2. ~({1, 2} \subseteq jump_range_bits)
    BY <1>2 DEF RInv, IInv, Resolving, RangeReported
  <2>3. QED
    BY <1>1, <1>2, <2>1, <2>2 DEF Clean, InPass
<1>4. ReadUpTo(line - 1) /\ line = Len(source) + 1 /\ level = 1
  BY <1>1, <1>3 DEF RInv, ReadSoFar
<1>5. /\ source \in Seq(Line) /\ Len(source) \in Nat /\ line - 1 = Len(source)
      /\ Len(emitted) \in Nat
  BY <1>4 DEF RInv, IInv, TInv, TypeOK, SourceTyped, EmittedTyped
<1>6. PICK t : /\ IsReading(t, source, Len(source), default_start_address, Table, emitted)
               /\ t[Len(source)] = Now
  BY <1>4, <1>5 DEF ReadUpTo
<1>7. Abs!Reading(source, default_start_address, Table, emitted) = Now
  BY <1>5, <1>6, ReadingComputed
<1>8. Now.ok /\ Now.depth = 0 /\ Now.next = Len(emitted) + 1
  BY <1>4 DEF Now
<1>9. QED
  BY <1>7, <1>8 DEF Abs!Correct

\* A run that ends with an error.
LEMMA ErrorMaps ==
    ASSUME exit = "running", UNCHANGED source, exit' \in {"1", "3"},
           \/ exit' = "1" /\ output' = "absent"
           \/ exit' = "1" /\ "could_not_open_output" \in errors'
           \/ exit' = "3"
    PROVE  Abs!Next
<1>1. CASE exit' = "1" /\ "could_not_open_output" \notin errors'
  <2>1. Abs!Reject
    BY <1>1 DEF Abs!Reject
  <2>2. QED
    BY <2>1 DEF Abs!Next
<1>2. CASE ~(exit' = "1" /\ "could_not_open_output" \notin errors')
  <2>1. Abs!GiveUp
    BY <1>2 DEF Abs!GiveUp
  <2>2. QED
    BY <2>1 DEF Abs!Next
<1>3. QED
  BY <1>1, <1>2

\* The end of a pass, which may be the end of the run.
LEMMA EndPassMaps ==
    ASSUME RInv, EndPass, exit' # "running"
    PROVE  Abs!Next
<1>1. /\ exit = "running" /\ UNCHANGED <<source, labels, emitted, default_start_address>>
  BY DEF EndPass, RInv, IInv, TInv, Control, unchangedByMain
<1>2. CASE exit' = "0"
  <2>1. output' = "complete"
    BY <1>1, <1>2 DEF EndPass, RemoveOutput
  <2>2. Table' = Table
    BY <1>1 DEF Table
  <2>3. Abs!Correct(source, default_start_address, Table', emitted')
    BY <1>1, <1>2, <2>2, ProducesCorrect
  <2>4. Abs!Produce
    BY <1>1, <1>2, <2>1, <2>3 DEF Abs!Produce, RInv, OriginPossible, Table
  <2>5. QED
    BY <1>1, <2>4 DEF Abs!Next
<1>3. CASE exit' # "0"
  <2>1. exit' = "1" /\ output' = "absent"
    BY <1>1, <1>3 DEF EndPass, RemoveOutput
  <2>2. QED
    BY <1>1, <2>1, ErrorMaps
<1>4. QED
  BY <1>2, <1>3

LEMMA StepMaps ==
    ASSUME RInv, [Next]_vars
    PROVE  [Abs!Next]_(Abs!vars)
<1>1. TInv /\ (phase = "done" <=> exit # "running")
  BY DEF RInv, IInv, TInv, Control
<1>2. CASE UNCHANGED <<source, exit>> /\ exit = "running"
  BY <1>2 DEF Abs!vars
<1>3. CASE AssembleLine
  <2>1. SameLineState
    BY <1>1, <1>3, AssembleLineKeeps
  <2>2. QED
    BY <1>1, <1>2, <2>1 DEF SameLineState
<1>4. CASE StartSpecialPass \/ EndOffsetPasses \/ StartPass
  <2>1. UNCHANGED <<source, exit>> /\ phase # "done"
    BY <1>4 DEF StartSpecialPass, EndOffsetPasses, StartPass, unchangedByMain, fileVars
  <2>2. QED
    BY <1>1, <1>2, <2>1
<1>5. CASE EndPass
  <2>1. UNCHANGED source /\ exit = "running"
    BY <1>1, <1>5 DEF EndPass, unchangedByMain
  <2>2. QED
    BY <1>2, <1>5, <2>1, EndPassMaps
<1>6. CASE FailEarly \/ Failure
  <2>1. /\ UNCHANGED source /\ exit = "running"
        /\ \/ exit' = "1" /\ output' = "absent"
           \/ exit' = "1" /\ "could_not_open_output" \in errors'
           \/ exit' = "3"
    BY <1>1, <1>6 DEF FailEarly, RemoveOutput, Failure, OpenFails, WriteFails, Report
  <2>2. QED
    BY <2>1, ErrorMaps
<1>7. CASE UNCHANGED vars
  <2>1. UNCHANGED <<source, exit, output, errors, labels, emitted>>
    BY <1>7 DEF vars, fileVars
  <2>2. QED
    BY <2>1 DEF Abs!vars
<1>8. QED
  BY <1>3, <1>4, <1>5, <1>6, <1>7 DEF Next, MainStep, Done

\* Every behaviour of the passes is one of an assembler: if the run ends with
\* exit code 0, the output file is a correct assembly of the whole source, each
\* line at the address the lines before it lead to and each operand encoded from
\* the final value of its label; otherwise no output file is left, unless a file
\* operation failed.
THEOREM PassesImplementAssembler == Spec => ImplementsAssembler
<1>1. Init => RInv
  BY InitReads
<1>2. RInv /\ [Next]_vars => RInv'
  BY NextReads
<1>3. Init => Abs!Init
  <2> SUFFICES ASSUME Init PROVE Abs!Init
    OBVIOUS
  <2>1. exit = "running"
    BY DEF Init
  <2>2. QED
    BY <2>1 DEF Abs!Init, Abs!NoTable, Abs!NoAssembly
<1>4. RInv /\ [Next]_vars => [Abs!Next]_(Abs!vars)
  BY StepMaps
<1>5. QED
  BY <1>1, <1>2, <1>3, <1>4, PTL DEF Spec, ImplementsAssembler, Abs!Spec

=============================================================================
