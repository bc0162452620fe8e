---------------------------- MODULE SessionProofs ----------------------------
(***************************************************************************)
(* Proofs about a run of mininasm, for all files, arguments and sizes of   *)
(* the buffers and of the include stack: what reaches stderr, and the exit *)
(* code; that buffers and stack hold what is put into them; and that an    *)
(* included file returns to the one that includes it.                      *)
(***************************************************************************)
EXTENDS SessionProperties, Induction, SequenceTheorems, TLAPS

-----------------------------------------------------------------------------
(* The streams.  A step sets some fields of io and leaves the others, so a    *)
(* state of the streams is a record of nine fields, whatever they hold.       *)

Record(emit, message, data, output, listing, stderr, listing_fd, full, failed) ==
    [emit |-> emit, message |-> message, data |-> data, output |-> output,
     listing |-> listing, stderr |-> stderr, listing_fd |-> listing_fd, full |-> full,
     failed |-> failed]

IsRecord(r) ==
    r = Record(r.emit, r.message, r.data, r.output, r.listing, r.stderr, r.listing_fd, r.full,
               r.failed)

LEMMA RecordIs ==
    ASSUME NEW a, NEW b, NEW c, NEW d, NEW e, NEW f, NEW g, NEW h, NEW i
    PROVE  LET r == Record(a, b, c, d, e, f, g, h, i)
           IN  /\ IsRecord(r)
               /\ r.emit = a /\ r.message = b /\ r.data = c /\ r.output = d /\ r.listing = e
               /\ r.stderr = f /\ r.listing_fd = g /\ r.full = h /\ r.failed = i
  BY DEF IsRecord, Record

LEMMA EditIs ==
    ASSUME NEW r, IsRecord(r), NEW x
    PROVE  /\ [r EXCEPT !.emit = x] = Record(x, r.message, r.data, r.output, r.listing,
                  r.stderr, r.listing_fd, r.full, r.failed)
           /\ [r EXCEPT !.message = x] = Record(r.emit, x, r.data, r.output, r.listing,
                  r.stderr, r.listing_fd, r.full, r.failed)
           /\ [r EXCEPT !.data = x] = Record(r.emit, r.message, x, r.output, r.listing,
                  r.stderr, r.listing_fd, r.full, r.failed)
           /\ [r EXCEPT !.output = x] = Record(r.emit, r.message, r.data, x, r.listing,
                  r.stderr, r.listing_fd, r.full, r.failed)
           /\ [r EXCEPT !.listing = x] = Record(r.emit, r.message, r.data, r.output, x,
                  r.stderr, r.listing_fd, r.full, r.failed)
           /\ [r EXCEPT !.stderr = x] = Record(r.emit, r.message, r.data, r.output, r.listing,
                  x, r.listing_fd, r.full, r.failed)
           /\ [r EXCEPT !.listing_fd = x] = Record(r.emit, r.message, r.data, r.output, r.listing,
                  r.stderr, x, r.full, r.failed)
           /\ [r EXCEPT !.full = x] = Record(r.emit, r.message, r.data, r.output, r.listing,
                  r.stderr, r.listing_fd, x, r.failed)
           /\ [r EXCEPT !.failed = x] = Record(r.emit, r.message, r.data, r.output, r.listing,
                  r.stderr, r.listing_fd, r.full, x)
  BY DEF IsRecord, Record

LEMMA EditBoth ==
    ASSUME NEW r, IsRecord(r), NEW x, NEW y
    PROVE  [r EXCEPT !.message = x, !.stderr = y] =
              Record(r.emit, x, r.data, r.output, r.listing, y, r.listing_fd, r.full, r.failed)
<1>1. [r EXCEPT !.message = x] = Record(r.emit, x, r.data, r.output, r.listing, r.stderr,
                                        r.listing_fd, r.full, r.failed)
  BY EditIs
<1>2. [r EXCEPT !.message = x, !.stderr = y] = [[r EXCEPT !.message = x] EXCEPT !.stderr = y]
  OBVIOUS
<1> DEFINE q == [r EXCEPT !.message = x]
<1>3. /\ q.emit = r.emit /\ q.message = x /\ q.data = r.data /\ q.output = r.output
      /\ q.listing = r.listing /\ q.listing_fd = r.listing_fd /\ q.full = r.full
      /\ q.failed = r.failed /\ IsRecord(q)
  BY <1>1 DEF Record, IsRecord
<1> HIDE DEF q
<1>4. [q EXCEPT !.stderr = y] =
          Record(q.emit, q.message, q.data, q.output, q.listing, y, q.listing_fd, q.full, q.failed)
  BY <1>3, EditIs, Zenon
<1> QED
  BY <1>2, <1>3, <1>4 DEF q

LEMMA PairBehind ==
    ASSUME NEW S, NEW s \in Seq(S), NEW t \in Seq(S), Len(t) = 2
    PROVE  /\ s \o t \in Seq(S) /\ Len(s \o t) = Len(s) + 2 /\ Len(s) \in Nat
           /\ \A i \in 1..Len(s) : (s \o t)[i] = s[i]
           /\ (s \o t)[Len(s) + 1] = t[1] /\ (s \o t)[Len(s) + 2] = t[2]
<1>1. /\ s \o t \in Seq(S) /\ Len(s \o t) = Len(s) + Len(t)
      /\ \A i \in 1 .. Len(s) + Len(t) : (s \o t)[i] = IF i <= Len(s) THEN s[i] ELSE t[i - Len(s)]
  BY ConcatProperties, Zenon
<1>2. PICK n \in Nat : n = Len(s)
  OBVIOUS
<1>3. n + 1 \in 1..n + 2 /\ n + 2 \in 1..n + 2 /\ n + 1 - n = 1 /\ n + 2 - n = 2
      /\ ~(n + 1 <= n) /\ ~(n + 2 <= n) /\ \A i \in 1..n : i <= n /\ i \in 1..n + 2
  OBVIOUS
<1> QED
  BY <1>1, <1>2, <1>3

\* The texts of stderr: each message has its end.
Whole(s) ==
    /\ \E M : s \in Seq(M)
    /\ Len(s) % 2 = 0
    /\ \A i \in 1..Len(s) : s[i][1] = IF i % 2 = 1 THEN "message" ELSE "end"

LEMMA TextIs ==
    ASSUME NEW where, NEW what
    PROVE  /\ Len(TextOf(where, what)) = 2
           /\ TextOf(where, what)[1][1] = "message" /\ TextOf(where, what)[2][1] = "end"
           /\ \E M : TextOf(where, what) \in Seq(M)
<1> DEFINE M == {<<"message", where, what>>, <<"end">>}
<1>1. TextOf(where, what) \in Seq(M)
  BY DEF TextOf
<1> QED
  BY <1>1 DEF TextOf

LEMMA WholeGrows ==
    ASSUME NEW s, Whole(s), NEW where, NEW what
    PROVE  Whole(s \o TextOf(where, what)) /\ s \o TextOf(where, what) # <<>>
<1> DEFINE t == TextOf(where, what)
           more == s \o t
<1>1. PICK M : s \in Seq(M)
  BY DEF Whole
<1>2. PICK N : t \in Seq(N)
  BY TextIs
<1>3. s \in Seq(M \cup N) /\ t \in Seq(M \cup N) /\ Len(t) = 2
  BY <1>1, <1>2, TextIs
<1>4. t[1][1] = "message" /\ t[2][1] = "end"
  BY TextIs
<1> HIDE DEF t
<1>5. /\ more \in Seq(M \cup N) /\ Len(more) = Len(s) + 2 /\ Len(s) \in Nat
      /\ \A i \in 1..Len(s) : more[i] = s[i]
      /\ more[Len(s) + 1] = t[1] /\ more[Len(s) + 2] = t[2]
  BY <1>3, PairBehind
<1> HIDE DEF more
<1>6. Len(s) % 2 = 0 /\ Len(more) % 2 = 0 /\ (Len(s) + 1) % 2 = 1 /\ (Len(s) + 2) % 2 = 0
  BY <1>5 DEF Whole
<1>7. ASSUME NEW i \in 1..Len(more)
      PROVE  more[i][1] = IF i % 2 = 1 THEN "message" ELSE "end"
  <2>1. CASE i \in 1..Len(s)
    BY <1>5, <2>1 DEF Whole
  <2>2. CASE i = Len(s) + 1
    BY <1>4, <1>5, <1>6, <2>2
  <2>3. CASE i = Len(s) + 2
    BY <1>4, <1>5, <1>6, <2>3
  <2> QED
    BY <1>5, <2>1, <2>2, <2>3
<1>8. Whole(more) /\ more # <<>>
  BY <1>5, <1>6, <1>7 DEF Whole
<1> QED
  BY <1>8 DEF more, t

-----------------------------------------------------------------------------
(* message_flush(): it does nothing, or empties the buffer, or gives up.      *)

Seen(r) == IF r.data THEN r.stderr \o r.message ELSE r.stderr

LEMMA FlushIs ==
    ASSUME NEW r, IsRecord(r)
    PROVE  LET f == MessageFlush(r)
           IN  /\ IsRecord(f) /\ f.emit = r.emit /\ f.data = r.data /\ f.full = r.full
               /\ f.listing_fd \in {r.listing_fd, "none"}
               /\ \/ f = r /\ (r.failed \/ r.message = <<>>)
                  \/ ~r.failed /\ ~f.failed /\ f.message = <<>> /\ f.stderr = Seen(r)
                  \/ /\ ~r.failed /\ f.failed /\ f.message = <<>>
                     /\ f.stderr = Seen(r) \o TextOf(<<>>, "error_writing_listing")
                     /\ r.listing_fd = "closed" \/ "listing" \in r.full
<1>1. CASE r.failed \/ r.message = <<>>
  BY <1>1 DEF MessageFlush
<1> DEFINE shown == [r EXCEPT !.message = <<>>,
                              !.stderr = IF r.data THEN @ \o r.message ELSE @]
<1>2. shown = Record(r.emit, <<>>, r.data, r.output, r.listing, Seen(r), r.listing_fd, r.full,
                     r.failed)
  BY EditBoth DEF Seen
<1>3. CASE ~(r.failed \/ r.message = <<>>) /\ r.listing_fd = "none"
  <2>1. MessageFlush(r) = shown
    BY <1>3, Zenon DEF MessageFlush
  <2> QED
    <3> HIDE DEF shown
    <3>1. /\ IsRecord(shown) /\ shown.data = r.data /\ shown.full = r.full
          /\ shown.listing_fd = r.listing_fd /\ shown.message = <<>> /\ shown.emit = r.emit
          /\ shown.stderr = Seen(r) /\ shown.failed = r.failed
      BY <1>2 DEF Record, IsRecord
    <3> QED
      BY <1>3, <2>1, <3>1
<1>4. CASE ~(r.failed \/ r.message = <<>>) /\ r.listing_fd # "none"
           /\ (r.listing_fd = "closed" \/ "listing" \in r.full)
  <2>1. MessageFlush(r) = GiveUp([shown EXCEPT !.listing_fd = "none"], "error_writing_listing")
    BY <1>4, Zenon DEF MessageFlush
  <2> DEFINE without == [shown EXCEPT !.listing_fd = "none"]
  <2> HIDE DEF shown
  <2>2. without = Record(r.emit, <<>>, r.data, r.output, r.listing, Seen(r), "none", r.full,
                         r.failed)
    BY <1>2 DEF Record
  <2>3. MessageFlush(r) = Record(r.emit, <<>>, r.data, r.output, r.listing,
            Seen(r) \o TextOf(<<>>, "error_writing_listing"), "none", r.full, TRUE)
    <3> HIDE DEF without
    <3>1. MessageFlush(r) = [without EXCEPT
              !.stderr = without.stderr \o TextOf(<<>>, "error_writing_listing"),
              !.message = <<>>, !.failed = TRUE]
      BY <2>1, Zenon DEF GiveUp, without
    <3> QED
      BY <2>2, <3>1 DEF Record
  <2> QED
    BY <1>4, <2>3 DEF Record, IsRecord
<1>5. CASE ~(r.failed \/ r.message = <<>>) /\ r.listing_fd # "none"
           /\ ~(r.listing_fd = "closed" \/ "listing" \in r.full)
  <2>1. MessageFlush(r) = [shown EXCEPT !.listing = @ \o r.message]
    BY <1>5, Zenon DEF MessageFlush
  <2> HIDE DEF shown
  <2>2. MessageFlush(r) = Record(r.emit, <<>>, r.data, r.output, r.listing \o r.message, Seen(r),
                                 r.listing_fd, r.full, r.failed)
    BY <1>2, <2>1 DEF Record
  <2> QED
    BY <1>5, <2>2 DEF Record, IsRecord
<1> QED
  BY <1>1, <1>3, <1>4, <1>5

-----------------------------------------------------------------------------
(* Between two calls no message is begun.  An operation on the streams keeps  *)
(* that; if it is silent, stderr stays as it was, unless exit(3) is called.   *)

Quiet(r) ==
    /\ IsRecord(r) /\ ~r.data /\ Whole(r.stderr)
    /\ r.failed => r.message = <<>> /\ r.stderr # <<>> /\ r.full # {}

Keeps(r, after) ==
    /\ Quiet(after) /\ after.full = r.full /\ after.listing_fd \in {r.listing_fd, "none"}
    /\ r.failed => after.failed

Silent(r, after) == Keeps(r, after) /\ (~after.failed => after.stderr = r.stderr)

LEMMA SilentIsTransitive ==
    ASSUME NEW a, NEW b, NEW c, Silent(a, b), Silent(b, c)
    PROVE  Silent(a, c)
  BY DEF Silent, Keeps

LEMMA SilentIsReflexive ==
    ASSUME NEW a, Quiet(a)
    PROVE  Silent(a, a)
  BY DEF Silent, Keeps

\* The fields that stderr does not depend on may change.
LEMMA SilentChanges ==
    ASSUME NEW r, Quiet(r), NEW x
    PROVE  /\ Silent(r, [r EXCEPT !.emit = x])
           /\ Silent(r, [r EXCEPT !.output = x])
           /\ ~r.failed => Silent(r, [r EXCEPT !.message = x])
<1>1. Silent(r, [r EXCEPT !.emit = x])
  <2>1. [r EXCEPT !.emit = x] = Record(x, r.message, r.data, r.output, r.listing, r.stderr,
                                       r.listing_fd, r.full, r.failed)
    BY EditIs DEF Quiet
  <2> QED
    BY <2>1, RecordIs DEF Silent, Keeps, Quiet
<1>2. Silent(r, [r EXCEPT !.output = x])
  <2>1. [r EXCEPT !.output = x] = Record(r.emit, r.message, r.data, x, r.listing, r.stderr,
                                         r.listing_fd, r.full, r.failed)
    BY EditIs DEF Quiet
  <2> QED
    BY <2>1, RecordIs DEF Silent, Keeps, Quiet
<1>3. ~r.failed => Silent(r, [r EXCEPT !.message = x])
  <2>1. [r EXCEPT !.message = x] = Record(r.emit, x, r.data, r.output, r.listing, r.stderr,
                                          r.listing_fd, r.full, r.failed)
    BY EditIs DEF Quiet
  <2> QED
    BY <2>1, RecordIs DEF Silent, Keeps, Quiet
<1> QED
  BY <1>1, <1>2, <1>3

LEMMA FlushIsSilent ==
    ASSUME NEW r, Quiet(r), r.listing_fd # "closed"
    PROVE  Silent(r, MessageFlush(r)) /\ MessageFlush(r).message = <<>>
<1> DEFINE f == MessageFlush(r)
<1>1. /\ IsRecord(f) /\ f.data = r.data /\ f.full = r.full
      /\ f.listing_fd \in {r.listing_fd, "none"}
      /\ \/ f = r /\ (r.failed \/ r.message = <<>>)
         \/ ~r.failed /\ ~f.failed /\ f.message = <<>> /\ f.stderr = Seen(r)
         \/ /\ ~r.failed /\ f.failed /\ f.message = <<>>
            /\ f.stderr = Seen(r) \o TextOf(<<>>, "error_writing_listing")
            /\ r.listing_fd = "closed" \/ "listing" \in r.full
  BY FlushIs, Zenon DEF Quiet
<1>2. Seen(r) = r.stderr
  BY DEF Seen, Quiet
<1> HIDE DEF f
<1>3. ASSUME f = r /\ (r.failed \/ r.message = <<>>)
      PROVE  Silent(r, f) /\ f.message = <<>>
  BY <1>3, SilentIsReflexive DEF Quiet
<1>4. ASSUME ~r.failed /\ ~f.failed /\ f.message = <<>> /\ f.stderr = Seen(r)
      PROVE  Silent(r, f)
  BY <1>1, <1>2, <1>4 DEF Silent, Keeps, Quiet
<1>5. ASSUME /\ ~r.failed /\ f.failed /\ f.message = <<>>
             /\ f.stderr = Seen(r) \o TextOf(<<>>, "error_writing_listing")
             /\ r.listing_fd = "closed" \/ "listing" \in r.full
      PROVE  Silent(r, f)
  <2>1. Whole(f.stderr) /\ f.stderr # <<>>
    BY <1>2, <1>5, WholeGrows DEF Quiet
  <2> QED
    BY <1>1, <1>5, <2>1 DEF Silent, Keeps, Quiet
<1>6. Silent(r, f) /\ f.message = <<>>
  BY <1>1, <1>3, <1>4, <1>5, Zenon
<1> QED
  BY <1>6 DEF f

\* What bbprintf() makes of the buffer: it fits, or is flushed once.
LEMMA PrintIs ==
    ASSUME NEW r, NEW units
    PROVE  LET all == r.message \o units
               f == MessageFlush([r EXCEPT !.message = SubSeq(all, 1, MessageSize)])
           IN  BBPrintf(r, units) =
                  IF r.failed THEN r
                  ELSE IF Len(all) <= MessageSize THEN [r EXCEPT !.message = all]
                  ELSE IF f.failed THEN f
                  ELSE [f EXCEPT !.message = SubSeq(all, MessageSize + 1, Len(all))]
<1> DEFINE all == r.message \o units
           f == MessageFlush([r EXCEPT !.message = SubSeq(all, 1, MessageSize)])
           last == IF f.failed THEN f
                   ELSE [f EXCEPT !.message = SubSeq(all, MessageSize + 1, Len(all))]
<1>1. CASE r.failed
  BY <1>1, Zenon DEF BBPrintf
<1>2. CASE ~r.failed /\ Len(all) <= MessageSize
  BY <1>2, Zenon DEF BBPrintf
<1>3. CASE ~r.failed /\ ~(Len(all) <= MessageSize)
  <2>1. BBPrintf(r, units) =
           Then(f, LAMBDA flushed : IF flushed.failed THEN flushed
                    ELSE [flushed EXCEPT !.message = SubSeq(all, MessageSize + 1, Len(all))])
    BY <1>3, Zenon DEF BBPrintf
  <2>2. BBPrintf(r, units) = last
    <3> HIDE DEF f, all
    <3> QED
      BY <2>1, Zenon DEF Then
  <2> QED
    BY <1>3, <2>2, Zenon
<1> QED
  BY <1>1, <1>2, <1>3, Zenon

LEMMA PrintIsSilent ==
    ASSUME NEW r, Quiet(r), r.listing_fd # "closed", NEW units
    PROVE  Silent(r, BBPrintf(r, units))
<1> DEFINE all == r.message \o units
           a == [r EXCEPT !.message = SubSeq(all, 1, MessageSize)]
           f == MessageFlush(a)
           last == IF f.failed THEN f
                   ELSE [f EXCEPT !.message = SubSeq(all, MessageSize + 1, Len(all))]
<1>1. CASE r.failed
  <2>1. BBPrintf(r, units) = r
    BY <1>1, Zenon DEF BBPrintf
  <2> QED
    BY <2>1, SilentIsReflexive
<1>2. CASE ~r.failed /\ Len(all) <= MessageSize
  <2>1. BBPrintf(r, units) = [r EXCEPT !.message = all]
    BY <1>2, Zenon DEF BBPrintf
  <2> HIDE DEF all
  <2>2. Silent(r, [r EXCEPT !.message = all])
    BY <1>2, SilentChanges
  <2> QED
    BY <2>1, <2>2
<1>3. CASE ~r.failed /\ ~(Len(all) <= MessageSize)
  <2>2. BBPrintf(r, units) = last
    BY <1>3, PrintIs, Zenon
  <2>3. Silent(r, a)
    BY <1>3, SilentChanges, Zenon
  <2>4. Quiet(a) /\ a.listing_fd # "closed"
    <3> HIDE DEF a
    <3> QED
      BY <2>3 DEF Silent, Keeps
  <2>5. Silent(a, f)
    BY <2>4, FlushIsSilent, Zenon
  <2>6. Quiet(f)
    BY <2>5, Zenon DEF Silent, Keeps
  <2>7. Silent(f, last)
    <3> HIDE DEF f, all
    <3>1. CASE f.failed
      BY <2>6, <3>1, SilentIsReflexive
    <3>2. CASE ~f.failed
      BY <2>6, <3>2, SilentChanges, Zenon
    <3> QED
      BY <3>1, <3>2
  <2> HIDE DEF a, f, last
  <2>8. Silent(r, f) /\ Silent(f, BBPrintf(r, units))
    BY <2>2, <2>3, <2>5, <2>7, SilentIsTransitive
  <2> QED
    BY <2>8, SilentIsTransitive
<1> QED
  BY <1>1, <1>2, <1>3

\* A message is told: stderr has one.
Told(r, after) == Keeps(r, after) /\ after.stderr # <<>> /\ after.message = <<>>

\* The steps of a message.
LEMMA MessageIs ==
    ASSUME NEW r, ~r.data, NEW where, NEW what
    PROVE  LET s == [MessageFlush(r) EXCEPT !.data = TRUE]
               b == BBPrintf(s, TextOf(where, what))
           IN  Message(r, where, what) = [MessageFlush(b) EXCEPT !.data = FALSE]
<1> DEFINE f == MessageFlush(r)
           s == [f EXCEPT !.data = TRUE]
           b == BBPrintf(s, TextOf(where, what))
           g == MessageFlush(b)
           after == [g EXCEPT !.data = FALSE]
<1>1. Message(r, where, what) = after
  <2>1. MessageStart(r) = s
    BY Zenon DEF MessageStart
  <2>2. Message(r, where, what) =
           Then(Then(s, LAMBDA started : BBPrintf(started, TextOf(where, what))), MessageEnd)
    BY <2>1, Zenon DEF Message
  <2>3. Then(s, LAMBDA started : BBPrintf(started, TextOf(where, what))) = b
    <3> HIDE DEF s
    <3> QED
      BY Zenon DEF Then
  <2>4. Then(b, MessageEnd) = after
    <3> HIDE DEF b
    <3> QED
      BY Zenon DEF Then, MessageEnd
  <2> QED
    BY <2>2, <2>3, <2>4
<1> QED
  BY <1>1, Zenon

LEMMA MessageIsTold ==
    ASSUME NEW r, Quiet(r), r.listing_fd # "closed", NEW where, NEW what
    PROVE  Told(r, Message(r, where, what))
<1> DEFINE f == MessageFlush(r)
           s == [f EXCEPT !.data = TRUE]
           b == BBPrintf(s, TextOf(where, what))
           g == MessageFlush(b)
           after == [g EXCEPT !.data = FALSE]
<1>1. Message(r, where, what) = after
  <2>1. ~r.data
    BY DEF Quiet
  <2>2. Message(r, where, what) =
           [MessageFlush(BBPrintf([MessageFlush(r) EXCEPT !.data = TRUE], TextOf(where, what)))
               EXCEPT !.data = FALSE]
    BY <2>1, MessageIs
  <2> QED
    BY <2>2
<1>2. Silent(r, f) /\ f.message = <<>>
  BY FlushIsSilent
<1>3. IsRecord(f) /\ Quiet(f) /\ f.listing_fd # "closed"
  <2> HIDE DEF f
  <2> QED
    BY <1>2 DEF Silent, Keeps, Quiet
<1>4. s = Record(f.emit, f.message, TRUE, f.output, f.listing, f.stderr, f.listing_fd, f.full,
                 f.failed)
  <2> HIDE DEF f
  <2> QED
    BY <1>3, EditIs, Zenon
<1>5. CASE f.failed
  <2> HIDE DEF f
  <2>1. s.failed /\ s.message = <<>>
    BY <1>2, <1>4, <1>5 DEF Record
  <2>2. b = s
    BY <2>1, Zenon DEF BBPrintf
  <2>3. g = s
    BY <2>1, <2>2, Zenon DEF MessageFlush
  <2>4. after = Record(f.emit, f.message, FALSE, f.output, f.listing, f.stderr, f.listing_fd,
                       f.full, f.failed)
    <3>1. IsRecord(s)
      <4> HIDE DEF s
      <4> QED
        BY <1>4 DEF Record, IsRecord
    <3>2. after = [s EXCEPT !.data = FALSE]
      BY <2>3
    <3> HIDE DEF s, after
    <3>3. after = Record(s.emit, s.message, FALSE, s.output, s.listing, s.stderr, s.listing_fd,
                         s.full, s.failed)
      BY <3>1, <3>2, EditIs
    <3> QED
      BY <1>4, <3>3 DEF Record
  <2>5. Quiet(after) /\ after.full = f.full /\ after.listing_fd = f.listing_fd /\ after.failed
        /\ after.stderr # <<>> /\ after.message = <<>>
    <3> HIDE DEF after
    <3> QED
      BY <1>2, <1>3, <1>5, <2>4 DEF Quiet, Record, IsRecord
  <2> HIDE DEF after
  <2> QED
    BY <1>1, <1>2, <2>5 DEF Told, Keeps, Silent
<1>6. CASE ~f.failed
  <2> HIDE DEF f
  <2> DEFINE t == TextOf(where, what)
  <2>1. ~s.failed /\ s.message = <<>> /\ IsRecord(s) /\ s.data /\ s.stderr = f.stderr
        /\ s.full = f.full /\ s.listing_fd = f.listing_fd
    <3> HIDE DEF s
    <3> QED
      BY <1>2, <1>4, <1>6 DEF Record, IsRecord
  <2> HIDE DEF s
  <2>2. b = [s EXCEPT !.message = t]
    <3>1. s.message \o t = t /\ Len(t) <= MessageSize
      <4>1. PICK M : t \in Seq(M)
        BY TextIs
      <4>2. <<>> \o t = t
        BY <4>1, ConcatEmptySeq, Zenon
      <4>3. Len(t) = 2
        BY TextIs
      <4> QED
        BY <2>1, <4>2, <4>3, BuffersAssumption
    <3> HIDE DEF t
    <3>2. BBPrintf(s, t) = [s EXCEPT !.message = t]
      BY <2>1, <3>1, Zenon DEF BBPrintf
    <3> QED
      BY <3>2 DEF t
  <2>3. IsRecord(b) /\ b.data /\ ~b.failed /\ b.message = t /\ b.stderr = f.stderr
        /\ b.full = f.full /\ b.listing_fd = f.listing_fd
    <3> HIDE DEF b, t
    <3>1. b = Record(s.emit, t, s.data, s.output, s.listing, s.stderr, s.listing_fd, s.full,
                     s.failed)
      <4>1. IsRecord(s)
        BY <2>1
      <4> QED
        BY <2>2, <4>1, EditIs
    <3> QED
      BY <2>1, <3>1 DEF Record, IsRecord
  <2> HIDE DEF b
  <2>4. t # <<>>
    <3>1. Len(t) = 2
      BY TextIs
    <3> HIDE DEF t
    <3> QED
      BY <3>1
  <2>5. Seen(b) = f.stderr \o t
    BY <2>3 DEF Seen
  <2>6. Whole(Seen(b)) /\ Seen(b) # <<>>
    BY <1>3, <2>5, WholeGrows, Zenon DEF Quiet
  <2>7. /\ IsRecord(g) /\ g.data = b.data /\ g.full = b.full /\ g.message = <<>>
        /\ g.listing_fd \in {b.listing_fd, "none"}
        /\ \/ ~g.failed /\ g.stderr = Seen(b)
           \/ /\ g.failed /\ g.stderr = Seen(b) \o TextOf(<<>>, "error_writing_listing")
              /\ b.listing_fd = "closed" \/ "listing" \in b.full
    <3> HIDE DEF t
    <3> QED
      BY <2>3, <2>4, FlushIs
  <2>8. Whole(g.stderr) /\ g.stderr # <<>> /\ (g.failed => g.full # {})
    <3>1. CASE ~g.failed /\ g.stderr = Seen(b)
      BY <2>6, <3>1
    <3>2. CASE g.failed /\ g.stderr = Seen(b) \o TextOf(<<>>, "error_writing_listing")
               /\ (b.listing_fd = "closed" \/ "listing" \in b.full)
      <4>1. Whole(g.stderr) /\ g.stderr # <<>>
        BY <2>6, <3>2, WholeGrows, Zenon
      <4>2. g.full # {}
        BY <1>3, <2>3, <2>7, <3>2
      <4> QED
        BY <4>1, <4>2
    <3> HIDE DEF g
    <3> QED
      BY <2>7, <3>1, <3>2
  <2> HIDE DEF g
  <2>9. after = Record(g.emit, g.message, FALSE, g.output, g.listing, g.stderr, g.listing_fd,
                       g.full, g.failed)
    <3>1. after = [g EXCEPT !.data = FALSE]
      OBVIOUS
    <3> HIDE DEF after
    <3>2. IsRecord(g)
      BY <2>7
    <3> QED
      BY <3>1, <3>2, EditIs
  <2> HIDE DEF after
  <2>10. Quiet(after) /\ after.full = f.full /\ after.listing_fd \in {f.listing_fd, "none"}
         /\ after.stderr # <<>> /\ after.message = <<>>
    BY <2>3, <2>7, <2>8, <2>9 DEF Quiet, Record, IsRecord
  <2> QED
    BY <1>1, <1>2, <1>6, <2>10 DEF Told, Keeps, Silent
<1> QED
  BY <1>5, <1>6

\* The output file: a write that fails ends the run, and says so.
LEMMA EmitFlushIsSilent ==
    ASSUME NEW r, Quiet(r), r.listing_fd # "closed"
    PROVE  Silent(r, EmitFlush(r))
<1>1. CASE r.failed \/ r.emit = <<>>
  <2>1. EmitFlush(r) = r
    BY <1>1, Zenon DEF EmitFlush
  <2> QED
    BY <2>1, SilentIsReflexive
<1>2. CASE ~(r.failed \/ r.emit = <<>>) /\ "output" \in r.full
  <2> DEFINE m == Message(r, <<>>, "error_writing_output")
             after == [m EXCEPT !.failed = TRUE]
  <2>1. EmitFlush(r) = after
    BY <1>2, Zenon DEF EmitFlush
  <2>2. Told(r, m)
    BY MessageIsTold
  <2> HIDE DEF m
  <2>3. after = Record(m.emit, m.message, m.data, m.output, m.listing, m.stderr, m.listing_fd,
                       m.full, TRUE)
    BY <2>2, EditIs, Zenon DEF Told, Keeps, Quiet
  <2> HIDE DEF after
  <2>4. Quiet(after) /\ after.full = r.full /\ after.listing_fd \in {r.listing_fd, "none"}
        /\ after.failed
    BY <1>2, <2>2, <2>3 DEF Told, Keeps, Quiet, Record, IsRecord
  <2> QED
    BY <2>1, <2>4 DEF Silent, Keeps
<1>3. CASE ~(r.failed \/ r.emit = <<>>) /\ "output" \notin r.full
  <2> DEFINE a == [r EXCEPT !.output = @ \o r.emit]
  <2>1. EmitFlush(r) = [r EXCEPT !.output = @ \o r.emit, !.emit = <<>>]
    BY <1>3, Zenon DEF EmitFlush
  <2>2. EmitFlush(r) = [a EXCEPT !.emit = <<>>]
    BY <2>1
  <2>3. Silent(r, a)
    BY SilentChanges
  <2> HIDE DEF a
  <2>4. Silent(a, [a EXCEPT !.emit = <<>>])
    BY <2>3, SilentChanges DEF Silent, Keeps
  <2> QED
    BY <2>2, <2>3, <2>4, SilentIsTransitive
<1> QED
  BY <1>1, <1>2, <1>3

\* What emit_write() makes of the buffer: the parts that fill it are written.
LEMMA EmitIs ==
    ASSUME NEW r, NEW units
    PROVE  LET all == r.emit \o units
               n == (Len(all) \div EmitSize) * EmitSize
               f == EmitFlush([r EXCEPT !.emit = SubSeq(all, 1, n)])
           IN  EmitWrite(r, units) =
                  IF r.failed THEN r
                  ELSE IF n = 0 THEN [r EXCEPT !.emit = all]
                  ELSE IF f.failed THEN f
                  ELSE [f EXCEPT !.emit = SubSeq(all, n + 1, Len(all))]
<1> DEFINE all == r.emit \o units
           n == (Len(all) \div EmitSize) * EmitSize
           f == EmitFlush([r EXCEPT !.emit = SubSeq(all, 1, n)])
           last == IF f.failed THEN f ELSE [f EXCEPT !.emit = SubSeq(all, n + 1, Len(all))]
<1>1. CASE r.failed
  BY <1>1, Zenon DEF EmitWrite
<1>2. CASE ~r.failed /\ n = 0
  BY <1>2, Zenon DEF EmitWrite
<1>3. CASE ~r.failed /\ n # 0
  <2>1. EmitWrite(r, units) =
           Then(f, LAMBDA written : IF written.failed THEN written
                    ELSE [written EXCEPT !.emit = SubSeq(all, n + 1, Len(all))])
    BY <1>3, Zenon DEF EmitWrite
  <2>2. EmitWrite(r, units) = last
    <3> HIDE DEF f, all, n
    <3> QED
      BY <2>1, Zenon DEF Then
  <2> QED
    BY <1>3, <2>2, Zenon
<1> QED
  BY <1>1, <1>2, <1>3, Zenon

LEMMA EmitIsSilent ==
    ASSUME NEW r, Quiet(r), r.listing_fd # "closed", NEW units
    PROVE  Silent(r, EmitWrite(r, units))
<1> DEFINE all == r.emit \o units
           n == (Len(all) \div EmitSize) * EmitSize
           a == [r EXCEPT !.emit = SubSeq(all, 1, n)]
           f == EmitFlush(a)
           last == IF f.failed THEN f ELSE [f EXCEPT !.emit = SubSeq(all, n + 1, Len(all))]
<1>1. CASE r.failed
  <2>1. EmitWrite(r, units) = r
    BY <1>1, Zenon DEF EmitWrite
  <2> QED
    BY <2>1, SilentIsReflexive
<1>2. CASE ~r.failed /\ n = 0
  <2>1. EmitWrite(r, units) = [r EXCEPT !.emit = all]
    BY <1>2, Zenon DEF EmitWrite
  <2> HIDE DEF all
  <2>2. Silent(r, [r EXCEPT !.emit = all])
    BY SilentChanges
  <2> QED
    BY <2>1, <2>2
<1>3. CASE ~r.failed /\ n # 0
  <2>2. EmitWrite(r, units) = last
    BY <1>3, EmitIs, Zenon
  <2>3. Silent(r, a)
    BY SilentChanges
  <2> HIDE DEF a
  <2>4. Silent(a, f)
    BY <2>3, EmitFlushIsSilent DEF Silent, Keeps
  <2> HIDE DEF f
  <2>5. Silent(f, last)
    <3>1. CASE f.failed
      BY <2>4, <3>1, SilentIsReflexive DEF Silent, Keeps
    <3>2. CASE ~f.failed
      <4>1. last = [f EXCEPT !.emit = SubSeq(all, n + 1, Len(all))]
        BY <3>2
      <4> HIDE DEF last, all, n
      <4> QED
        BY <2>4, <4>1, SilentChanges DEF Silent, Keeps
    <3> QED
      BY <3>1, <3>2
  <2> HIDE DEF last
  <2>6. Silent(a, last)
    BY <2>4, <2>5, SilentIsTransitive
  <2> QED
    BY <2>2, <2>3, <2>6, SilentIsTransitive
<1> QED
  BY <1>1, <1>2, <1>3

\* INCBIN does not touch the messages: the buffer is empty when it is read into.
LEMMA EmitFileIs ==
    ASSUME NEW r, NEW data, IsRecord(MessageFlush(r)), MessageFlush(r).message = <<>>
    PROVE  EmitFile(r, data) = EmitWrite(MessageFlush(r), data)
<1> DEFINE f == MessageFlush(r)
           a == ReadOver(f, data)
<1>1. EmitFile(r, data) = EmitWrite(a, data)
  <2> HIDE DEF f
  <2>1. EmitFile(r, data) = Then(f, LAMBDA flushed : EmitWrite(ReadOver(flushed, data), data))
    BY Zenon DEF EmitFile, f
  <2> QED
    BY <2>1, Zenon DEF Then
<1>2. f.message = <<>> /\ IsRecord(f)
  OBVIOUS
<1> HIDE DEF f
<1>4. a = f
  <2>1. a = [f EXCEPT !.message = [i \in DOMAIN f.message |->
                IF i \in DOMAIN data THEN data[i] ELSE f.message[i]]]
    BY DEF ReadOver
  <2>2. [i \in DOMAIN f.message |-> IF i \in DOMAIN data THEN data[i] ELSE f.message[i]] = <<>>
    BY <1>2
  <2>3. a = [f EXCEPT !.message = <<>>]
    BY <2>1, <2>2, Zenon
  <2> HIDE DEF a
  <2>4. a = Record(f.emit, <<>>, f.data, f.output, f.listing, f.stderr, f.listing_fd, f.full,
                   f.failed)
    BY <1>2, <2>3, EditIs
  <2> QED
    BY <1>2, <2>4, Zenon DEF IsRecord
<1> HIDE DEF a
<1> QED
  BY <1>1, <1>4, Zenon DEF f

LEMMA EmitFileIsSilent ==
    ASSUME NEW r, Quiet(r), r.listing_fd # "closed", NEW data
    PROVE  Silent(r, EmitFile(r, data))
<1> DEFINE f == MessageFlush(r)
<1>1. Silent(r, f) /\ f.message = <<>>
  BY FlushIsSilent
<1>2. EmitFile(r, data) = EmitWrite(f, data)
  BY <1>1, EmitFileIs DEF Silent, Keeps, Quiet
<1> HIDE DEF f
<1>3. Silent(f, EmitWrite(f, data))
  BY <1>1, EmitIsSilent DEF Silent, Keeps
<1> QED
  BY <1>1, <1>2, <1>3, SilentIsTransitive

\* Closing the listing.
Closes(r, after) ==
    /\ Quiet(after) /\ after.full = r.full /\ after.listing_fd = "closed"
    /\ r.failed => after.failed
    /\ ~after.failed => after.stderr = r.stderr

LEMMA CloseIs ==
    ASSUME NEW r, Quiet(r), r.listing_fd # "closed"
    PROVE  Closes(r, CloseListing(r))
<1> DEFINE f == MessageFlush(r)
           after == [f EXCEPT !.listing_fd = "closed"]
<1>1. Silent(r, f)
  BY FlushIsSilent
<1>2. CloseListing(r) = after
  BY DEF CloseListing
<1> HIDE DEF f
<1>3. after = Record(f.emit, f.message, f.data, f.output, f.listing, f.stderr, "closed", f.full,
                     f.failed)
  BY ZenonT(60), <1>1, EditIs DEF Silent, Keeps, Quiet
<1> HIDE DEF after
<1>4. Closes(r, after)
  BY <1>1, <1>3 DEF Silent, Keeps, Closes, Quiet, Record, IsRecord
<1> QED
  BY <1>2, <1>4

-----------------------------------------------------------------------------
(* What the actions do with the streams.                                      *)

LEMMA RowIs ==
    ASSUME NEW r, NEW text
    PROVE  Row(r, text) = IF assembler_pass > 1 /\ r.listing_fd # "none"
                          THEN BBPrintf(r, <<<<"row", ThisNumber>>, text>>) ELSE r
<1> DEFINE units == <<<<"row", ThisNumber>>, text>>
           last == IF assembler_pass > 1 /\ r.listing_fd # "none" THEN BBPrintf(r, units) ELSE r
<1>1. Row(r, text) = last
  <2>1. Row(r, text) = CHOOSE after \in {IF assembler_pass > 1 /\ now.listing_fd # "none"
                                         THEN BBPrintf(now, units) ELSE now : now \in {r}} : TRUE
    BY DEF Row, Then
  <2> HIDE DEF units
  <2>2. {IF assembler_pass > 1 /\ now.listing_fd # "none" THEN BBPrintf(now, units) ELSE now :
            now \in {r}} = {last}
    OBVIOUS
  <2> HIDE DEF last
  <2> QED
    BY <2>1, <2>2
<1> QED
  BY <1>1, Zenon

LEMMA RowIsSilent ==
    ASSUME NEW r, Quiet(r), r.listing_fd # "closed", NEW text
    PROVE  Silent(r, Row(r, text))
<1> DEFINE units == <<<<"row", ThisNumber>>, text>>
<1> HIDE DEF units
<1>1. Silent(r, BBPrintf(r, units)) /\ Silent(r, r)
  BY PrintIsSilent, SilentIsReflexive
<1> QED
  BY <1>1, RowIs DEF units

LEMMA EmittedIsSilent ==
    ASSUME NEW r, Quiet(r), r.listing_fd # "closed", NEW n
    PROVE  Silent(r, Emitted(r, n))
  BY EmitIsSilent, SilentIsReflexive DEF Emitted

LEMMA OpenStays ==
    ASSUME NEW a, NEW b, Keeps(a, b), a.listing_fd # "closed"
    PROVE  Quiet(b) /\ b.listing_fd # "closed"
  BY DEF Keeps

\* A row behind something else.
LEMMA RowBehind ==
    ASSUME NEW a, NEW b, Silent(a, b), a.listing_fd # "closed"
    PROVE  Silent(a, RowOfLine(b))
<1>1. Quiet(b) /\ b.listing_fd # "closed"
  BY OpenStays DEF Silent
<1>2. Silent(b, RowOfLine(b))
  BY <1>1, RowIsSilent DEF RowOfLine
<1> QED
  BY <1>2, SilentIsTransitive

-----------------------------------------------------------------------------
(* The invariant: the flag errors is set if and only if something has been    *)
(* told; and the listing is closed only between two passes.                   *)

Reads == {"arguments", "push", "open", "lines", "assembled"}

TellInv ==
    /\ Quiet(io)
    /\ phase \in Reads \cup {"create", "done"}
    /\ io.listing_fd # "none" => options.listing # None
    /\ phase \in Reads => io.listing_fd # "closed"
    /\ phase = "arguments" => io.listing_fd = "none"
    /\ phase # "done" => ~io.failed /\ exit = "running"
    /\ ~io.failed => (errors <=> io.stderr # <<>>)
    /\ phase = "done" => exit \in {"0", "1", "3"} /\ (exit = "0" <=> io.stderr = <<>>)
    /\ exit = "3" => io.failed

\* On to another phase, silently or with a message.
LEMMA GoesOn ==
    ASSUME TellInv, phase \in Reads, UNCHANGED options, NEW where \in Reads \ {"arguments"},
           GoOn(where),
           \/ Silent(io, io') /\ UNCHANGED errors
           \/ Keeps(io, io') /\ io'.stderr # <<>> /\ errors'
    PROVE  TellInv'
<1>1. Keeps(io, io')
  BY DEF Silent
<1>2. CASE io'.failed
  <2>1. phase' = "done" /\ exit' = "3"
    BY <1>2 DEF GoOn, Exit
  <2>2. io'.stderr # <<>>
    BY <1>1, <1>2 DEF Keeps, Quiet
  <2> QED
    BY <1>1, <1>2, <2>1, <2>2 DEF TellInv, Keeps, Reads
<1>3. CASE ~io'.failed
  <2>1. phase' = where /\ UNCHANGED exit
    BY <1>3 DEF GoOn
  <2>2. phase # "done" /\ exit = "running" /\ ~io.failed
    BY DEF TellInv, Reads
  <2>3. errors' <=> io'.stderr # <<>>
    BY <1>3, <2>2 DEF TellInv, Silent
  <2> QED
    BY <1>1, <1>3, <2>1, <2>2, <2>3 DEF TellInv, Keeps, Reads
<1> QED
  BY <1>2, <1>3

\* A message, and the end with exit code 1.
LEMMA GivesUp ==
    ASSUME TellInv, Keeps(io, io') \/ (Quiet(io') /\ io'.listing_fd \in {"none", "open"}),
           io'.stderr # <<>>, errors', Exit("1"), UNCHANGED options,
           io'.listing_fd # "none" => options.listing # None
    PROVE  TellInv'
<1>1. phase' = "done" /\ exit' = "1" /\ Quiet(io')
  BY DEF Exit, Keeps
<1> QED
  BY <1>1 DEF TellInv, Reads

LEMMA ReportIs ==
    ASSUME NEW r, Quiet(r), r.listing_fd # "closed", NEW number, NEW what,
           Report(r, number, what)
    PROVE  Keeps(r, io') /\ io'.stderr # <<>> /\ errors'
<1>1. errors' = TRUE /\ io' = Message(r, At(number), what)
  BY DEF Report
<1>2. Told(r, Message(r, At(number), what))
  BY MessageIsTold
<1> QED
  BY <1>1, <1>2 DEF Told

LEMMA ArgumentsKeep ==
    ASSUME TellInv, Arguments
    PROVE  TellInv'
<1>1. phase = "arguments"
  BY Zenon DEF Arguments, InputArgument, PlainFlag, FlagWithValue, NoInput, Reading, AllRead
<1>2. Quiet(io) /\ io.listing_fd = "none"
  BY <1>1 DEF TellInv
<1>3. ASSUME NEW n, NEW changed, Accept(n, changed)
      PROVE  TellInv'
  <2>1. UNCHANGED <<io, errors, phase, exit>>
    BY <1>3 DEF Accept, Silently
  <2> QED
    BY <1>1, <1>2, <2>1 DEF TellInv
<1>4. ASSUME NEW what, Reject(what)
      PROVE  TellInv'
  <2>1. Report(io, line_number, what) /\ Exit("1") /\ UNCHANGED options
    BY <1>4 DEF Reject
  <2>2. Keeps(io, io') /\ io'.stderr # <<>> /\ errors'
    BY <1>2, <2>1, ReportIs
  <2>3. io'.listing_fd = "none"
    BY <1>2, <2>2 DEF Keeps
  <2> QED
    BY <2>1, <2>2, <2>3, GivesUp
<1>5. CASE InputArgument
  BY <1>3, <1>4, <1>5, Zenon DEF InputArgument
<1>6. CASE PlainFlag
  BY <1>3, <1>4, <1>6, Zenon DEF PlainFlag
<1>7. CASE FlagWithValue
  BY <1>3, <1>4, <1>7, Zenon DEF FlagWithValue
<1>8. CASE NoInput
  BY <1>4, <1>8, Zenon DEF NoInput
<1> QED
  BY <1>5, <1>6, <1>7, <1>8 DEF Arguments

\* Lines that have a row in the listing, and nothing else to tell.
LEMMA SilentLine ==
    ASSUME TellInv, phase = "lines", UNCHANGED <<options, errors>>, NEW where \in {"lines", "push"},
           Silent(io, io'), GoOn(where)
    PROVE  TellInv'
<1>1. phase \in Reads /\ where \in Reads \ {"arguments"}
  BY DEF Reads
<1> QED
  BY <1>1, GoesOn

\* The lines that do more than a row.
LEMMA IncbinIs ==
    ASSUME IncbinLine
    PROVE  io' = IF assembler_pass > 1 THEN EmitFile(RowOfLine(io), Code(Text.n))
                 ELSE MessageFlush(RowOfLine(io))
<1> DEFINE l == RowOfLine(io)
           last == IF assembler_pass > 1 THEN EmitFile(l, Code(Text.n)) ELSE MessageFlush(l)
<1>1. io' = Then(l, LAMBDA listed : IF assembler_pass > 1 THEN EmitFile(listed, Code(Text.n))
                                    ELSE MessageFlush(listed))
  BY Zenon DEF IncbinLine
<1> HIDE DEF l
<1>2. io' = CHOOSE after \in {IF assembler_pass > 1 THEN EmitFile(listed, Code(Text.n))
                              ELSE MessageFlush(listed) : listed \in {l}} : TRUE
  BY <1>1 DEF Then
<1>3. {IF assembler_pass > 1 THEN EmitFile(listed, Code(Text.n)) ELSE MessageFlush(listed) :
          listed \in {l}} = {last}
  OBVIOUS
<1>4. io' = last
  <2> HIDE DEF last
  <2> QED
    BY <1>2, <1>3
<1> QED
  BY <1>4 DEF l

LEMMA WrongIs ==
    ASSUME WrongLine
    PROVE  LET wrong == Text.op = "bad" \/ assembler_pass > 1
               told == IF wrong THEN Message(io, At(ThisNumber), Text.op) ELSE io
           IN  /\ io' = RowOfLine(IF Text.op = "bad" THEN told ELSE Emitted(told, 1))
               /\ errors' = (errors \/ wrong)
<1> DEFINE wrong == Text.op = "bad" \/ assembler_pass > 1
           told == IF wrong THEN Message(io, At(ThisNumber), Text.op) ELSE io
           done == IF Text.op = "bad" THEN told ELSE Emitted(told, 1)
<1>2. /\ io' = RowOfLine(Then(told, LAMBDA now : IF Text.op = "bad" THEN now ELSE Emitted(now, 1)))
      /\ errors' = (errors \/ wrong)
  BY Zenon DEF WrongLine
<1>3. Then(told, LAMBDA now : IF Text.op = "bad" THEN now ELSE Emitted(now, 1)) = done
  <2> HIDE DEF told
  <2>1. Then(told, LAMBDA now : IF Text.op = "bad" THEN now ELSE Emitted(now, 1)) =
            CHOOSE after \in {IF Text.op = "bad" THEN now ELSE Emitted(now, 1) : now \in {told}} : TRUE
    BY DEF Then
  <2>2. {IF Text.op = "bad" THEN now ELSE Emitted(now, 1) : now \in {told}} = {done}
    OBVIOUS
  <2> HIDE DEF done
  <2> QED
    BY <2>1, <2>2
<1> QED
  BY <1>2, <1>3, Zenon

LEMMA LinesKeep ==
    ASSUME TellInv,
           CodeLine \/ GlobalLine \/ IncbinLine \/ SkipLine \/ EmptyLine \/ If \/ Else \/ Endif
              \/ IncludeLine
    PROVE  TellInv'
<1>1. phase = "lines"
  BY Zenon DEF CodeLine, GlobalLine, IncbinLine, SkipLine, EmptyLine, If, Else, Endif,
               IncludeLine, OnLine, AtLine
<1>2. Quiet(io) /\ io.listing_fd # "closed"
  BY <1>1 DEF TellInv, Reads
<1>3. Silent(io, RowOfLine(io))
  BY <1>2, RowBehind, SilentIsReflexive
<1>4. CASE CodeLine
  <2>1. /\ io' = RowOfLine(Emitted(io, Text.n)) /\ GoOn("lines") /\ UNCHANGED <<options, errors>>
    BY <1>4, Zenon DEF CodeLine, AfterLine, unchangedByCode, unchangedByLine, unchangedInFile
  <2>2. Silent(io, Emitted(io, Text.n))
    BY <1>2, EmittedIsSilent
  <2>3. Silent(io, io')
    BY <1>2, <2>1, <2>2, RowBehind
  <2> QED
    BY <1>1, <2>1, <2>3, SilentLine
<1>5. CASE GlobalLine \/ SkipLine
  <2>1. io' = RowOfLine(io) /\ GoOn("lines") /\ UNCHANGED <<options, errors>>
    BY <1>5, Zenon DEF GlobalLine, SkipLine, AfterLine, unchangedByCode, unchangedByLine,
                       unchangedInFile
  <2> QED
    BY <1>1, <1>3, <2>1, SilentLine
<1>6. CASE IncbinLine
  <2> DEFINE l == RowOfLine(io)
             last == IF assembler_pass > 1 THEN EmitFile(l, Code(Text.n)) ELSE MessageFlush(l)
  <2>1. GoOn("lines") /\ UNCHANGED <<options, errors>>
    BY <1>6, Zenon DEF IncbinLine, AfterLine, unchangedByCode, unchangedByLine, unchangedInFile
  <2>2. io' = last
    BY <1>6, IncbinIs, Zenon
  <2> HIDE DEF l
  <2>3. Silent(io, l)
    BY <1>3 DEF l
  <2>4. Quiet(l) /\ l.listing_fd # "closed"
    BY <1>2, <2>3, OpenStays DEF Silent
  <2>5. Silent(l, last)
    BY <2>4, EmitFileIsSilent, FlushIsSilent
  <2>6. Silent(io, io')
    BY <2>2, <2>3, <2>5, SilentIsTransitive
  <2> QED
    BY <1>1, <2>1, <2>6, SilentLine
<1>7. CASE EmptyLine
  <2>1. io' = Row(io, <<"empty">>) /\ GoOn("lines") /\ UNCHANGED <<options, errors>>
    BY <1>7, Zenon DEF EmptyLine, unchangedByCode, unchangedByLine, unchangedInFile
  <2>2. Silent(io, io')
    BY <1>2, <2>1, RowIsSilent
  <2> QED
    BY <1>1, <2>1, <2>2, SilentLine
<1>8. CASE If \/ Else \/ Endif
  <2>1. io' = RowOfLine(io) /\ GoOn("lines") /\ UNCHANGED <<options, errors>>
    BY <1>8, Zenon DEF If, Else, Endif, AfterLine, unchangedByLine, unchangedInFile
  <2> QED
    BY <1>1, <1>3, <2>1, SilentLine
<1>9. CASE IncludeLine
  <2>1. io' = RowOfLine(io) /\ GoOn("push") /\ UNCHANGED <<options, errors>>
    BY <1>9, Zenon DEF IncludeLine, unchangedInFile
  <2> QED
    BY <1>1, <1>3, <2>1, SilentLine
<1> QED
  BY <1>4, <1>5, <1>6, <1>7, <1>8, <1>9

LEMMA WrongKeeps ==
    ASSUME TellInv, WrongLine
    PROVE  TellInv'
<1> DEFINE wrong == Text.op = "bad" \/ assembler_pass > 1
           told == IF wrong THEN Message(io, At(ThisNumber), Text.op) ELSE io
           done == IF Text.op = "bad" THEN told ELSE Emitted(told, 1)
<1>1. phase = "lines"
  BY Zenon DEF WrongLine, OnLine, AtLine
<1>2. /\ io' = RowOfLine(done) /\ errors' = (errors \/ wrong)
      /\ GoOn("lines") /\ UNCHANGED options
  <2>1. GoOn("lines") /\ UNCHANGED options
    BY Zenon DEF WrongLine, AfterLine, unchangedByCode, unchangedByLine, unchangedInFile
  <2> QED
    BY <2>1, WrongIs, Zenon
<1>4. Quiet(io) /\ io.listing_fd # "closed"
  BY <1>1 DEF TellInv, Reads
<1>5. Keeps(io, told) /\ (wrong => told.stderr # <<>>) /\ (~wrong => told = io)
  <2>1. CASE wrong
    <3>1. Told(io, Message(io, At(ThisNumber), Text.op))
      BY <1>4, MessageIsTold
    <3> QED
      BY <2>1, <3>1 DEF Told
  <2>2. CASE ~wrong
    <3>1. Silent(io, io)
      BY <1>4, SilentIsReflexive
    <3> QED
      BY <2>2, <3>1 DEF Silent
  <2> QED
    BY <2>1, <2>2
<1> HIDE DEF told
<1>6. Quiet(told) /\ told.listing_fd # "closed"
  BY <1>4, <1>5, OpenStays
<1>7. Silent(told, done)
  BY <1>6, EmittedIsSilent, SilentIsReflexive
<1> HIDE DEF done
<1>8. Silent(told, io')
  BY <1>2, <1>6, <1>7, RowBehind
<1>9. Keeps(io, io')
  BY <1>5, <1>8 DEF Keeps, Silent
<1>10. phase \in Reads /\ "lines" \in Reads \ {"arguments"}
  BY <1>1 DEF Reads
<1>11. CASE wrong
  <2>1. io'.stderr # <<>> /\ errors'
    <3>1. io'.failed => io'.stderr # <<>>
      BY <1>9 DEF Keeps, Quiet
    <3>2. ~io'.failed => io'.stderr # <<>>
      BY <1>5, <1>8, <1>11 DEF Silent
    <3> QED
      BY <1>2, <1>11, <3>1, <3>2
  <2> QED
    BY <1>2, <1>9, <1>10, <2>1, GoesOn
<1>12. CASE ~wrong
  <2>1. Silent(io, io')
    BY <1>5, <1>8, <1>12
  <2>2. CASE errors
    <3>1. errors' /\ Keeps(io, io')
      BY <1>2, <1>9, <2>2
    <3>2. io'.stderr # <<>>
      <4>1. ~io.failed /\ io.stderr # <<>>
        BY <1>1, <2>2 DEF TellInv
      <4> QED
        BY <2>1, <4>1 DEF Silent, Keeps, Quiet
    <3> QED
      BY <1>2, <1>10, <3>1, <3>2, GoesOn
  <2>3. CASE ~errors
    <3>1. ~errors'
      BY <1>2, <1>12, <2>3
    <3> DEFINE S == Silent(io, io')
    <3>2. CASE io'.failed
      <4>1. phase' = "done" /\ exit' = "3" /\ io'.stderr # <<>>
        BY <1>2, <1>9, <3>2 DEF GoOn, Exit, Keeps, Quiet
      <4> QED
        BY <1>2, <1>9, <3>2, <4>1 DEF TellInv, Keeps, Reads
    <3>3. CASE ~io'.failed
      <4>1. phase' = "lines" /\ UNCHANGED exit /\ exit = "running"
        BY <1>1, <1>2, <3>3 DEF GoOn, TellInv
      <4>2. io'.stderr = <<>>
        BY <1>1, <2>1, <2>3, <3>3 DEF Silent, TellInv
      <4> QED
        BY <1>2, <1>4, <1>9, <3>1, <3>3, <4>1, <4>2 DEF TellInv, Keeps, Reads
    <3> QED
      BY <3>2, <3>3
  <2> QED
    BY <2>2, <2>3
<1> QED
  BY <1>11, <1>12

LEMMA FilesKeep ==
    ASSUME TellInv, Push \/ Open \/ Unmatched \/ EndOfFile
    PROVE  TellInv'
<1>1. phase \in {"push", "open", "lines"}
  BY Zenon DEF Push, Open, Unmatched, EndOfFile, AtLine
<1>2. Quiet(io) /\ io.listing_fd # "closed" /\ phase \in Reads
  BY <1>1 DEF TellInv, Reads
<1>3. UNCHANGED options
  BY Zenon DEF Push, Open, Unmatched, EndOfFile, unchangedInFile
<1>4. ASSUME NEW number, NEW what, Report(io, number, what), NEW where \in {"assembled", "open"},
             GoOn(where)
      PROVE  TellInv'
  <2>1. where \in Reads \ {"arguments"}
    BY DEF Reads
  <2>2. Keeps(io, io') /\ io'.stderr # <<>> /\ errors'
    BY <1>2, <1>4, ReportIs
  <2> QED
    BY <1>2, <1>3, <1>4, <2>1, <2>2, GoesOn
<1>5. ASSUME Silently, NEW where \in {"open", "lines", "assembled"}, GoOn(where)
      PROVE  TellInv'
  <2>1. where \in Reads \ {"arguments"}
    BY DEF Reads
  <2>2. Silent(io, io') /\ UNCHANGED errors
    BY <1>2, <1>5, SilentIsReflexive DEF Silently
  <2> QED
    BY <1>2, <1>3, <1>5, <2>1, <2>2, GoesOn
<1>6. CASE Push
  BY <1>4, <1>5, <1>6, Zenon DEF Push
<1>7. CASE Open
  BY <1>4, <1>5, <1>7, Zenon DEF Open
<1>8. CloseReturn => GoOn("assembled") \/ GoOn("open")
  BY Zenon DEF CloseReturn
<1>9. CASE Unmatched
  BY <1>4, <1>8, <1>9, Zenon DEF Unmatched
<1>10. CASE EndOfFile
  BY <1>4, <1>5, <1>8, <1>10, Zenon DEF EndOfFile
<1> QED
  BY <1>6, <1>7, <1>9, <1>10

LEMMA PassZeroKeeps ==
    ASSUME TellInv, StartPass0 \/ EndPass0
    PROVE  TellInv'
<1>1. CASE StartPass0
  <2>1. /\ phase = "arguments" /\ phase' = "push" /\ UNCHANGED <<options, exit, errors, io>>
    BY <1>1, Zenon DEF StartPass0, AllRead, unchangedByMain
  <2> QED
    BY <2>1 DEF TellInv, Reads
<1>2. CASE EndPass0
  <2> DEFINE f == MessageFlush(io)
             x == IF options.output = None THEN f.output ELSE Absent
             removed == [f EXCEPT !.output = x]
  <2>1. /\ phase = "assembled" /\ UNCHANGED options
        /\ \/ errors /\ io' = removed /\ Exit("1") /\ UNCHANGED errors
           \/ Report(io, line_number, "no_output") /\ Exit("1")
           \/ phase' = "create" /\ UNCHANGED <<exit, errors, io>>
    BY <1>2, Zenon DEF EndPass0, unchangedByMain
  <2>2. Quiet(io) /\ io.listing_fd # "closed" /\ ~io.failed
        /\ (io.listing_fd # "none" => options.listing # None)
    BY <2>1 DEF TellInv, Reads
  <2>3. CASE errors /\ io' = removed /\ Exit("1") /\ UNCHANGED errors
    <3>1. Silent(io, f)
      BY <2>2, FlushIsSilent
    <3> HIDE DEF f, x
    <3>2. Silent(f, removed)
      BY <3>1, SilentChanges DEF Silent, Keeps
    <3> HIDE DEF removed
    <3>3. Silent(io, io')
      BY <2>3, <3>1, <3>2, SilentIsTransitive
    <3>4. io'.stderr # <<>>
      BY <2>2, <2>3, <3>3 DEF TellInv, Silent, Keeps, Quiet
    <3>5. Keeps(io, io') /\ errors' /\ (io'.listing_fd # "none" => options.listing # None)
      BY <2>2, <2>3, <3>3 DEF Silent, Keeps
    <3> QED
      BY <2>1, <2>3, <3>4, <3>5, GivesUp
  <2>4. CASE Report(io, line_number, "no_output") /\ Exit("1")
    <3>1. Keeps(io, io') /\ io'.stderr # <<>> /\ errors'
      BY <2>2, <2>4, ReportIs
    <3>2. io'.listing_fd # "none" => options.listing # None
      BY <2>2, <3>1 DEF Keeps
    <3> QED
      BY <2>1, <2>4, <3>1, <3>2, GivesUp
  <2>5. CASE phase' = "create" /\ UNCHANGED <<exit, errors, io>>
    BY <2>1, <2>5 DEF TellInv, Reads
  <2> QED
    BY <2>1, <2>3, <2>4, <2>5
<1> QED
  BY <1>1, <1>2

\* The files are created again for each pass.
LEMMA CreateIs ==
    ASSUME NEW r, Quiet(r)
    PROVE  /\ Quiet(CreateListing(r)) /\ CreateListing(r).listing_fd = "open"
           /\ CreateListing(r).stderr = r.stderr /\ (CreateListing(r).failed <=> r.failed)
           /\ Quiet(CreateOutput(r)) /\ CreateOutput(r).listing_fd = r.listing_fd
           /\ CreateOutput(r).stderr = r.stderr /\ (CreateOutput(r).failed <=> r.failed)
           /\ Quiet([r EXCEPT !.listing_fd = "none"])
           /\ [r EXCEPT !.listing_fd = "none"].listing_fd = "none"
<1>1. IsRecord(r)
  BY DEF Quiet
<1>2. /\ Quiet(CreateListing(r)) /\ CreateListing(r).listing_fd = "open"
      /\ CreateListing(r).stderr = r.stderr /\ (CreateListing(r).failed <=> r.failed)
  <2> DEFINE a == [r EXCEPT !.listing = <<>>]
             b == CreateListing(r)
  <2>1. b = [a EXCEPT !.listing_fd = "open"]
    BY DEF CreateListing
  <2>2. a = Record(r.emit, r.message, r.data, r.output, <<>>, r.stderr, r.listing_fd, r.full,
                   r.failed)
    BY <1>1, EditIs
  <2> HIDE DEF a, b
  <2>3. b = Record(r.emit, r.message, r.data, r.output, <<>>, r.stderr, "open", r.full, r.failed)
    BY <2>1, <2>2 DEF Record
  <2>4. Quiet(b) /\ b.listing_fd = "open" /\ b.stderr = r.stderr /\ (b.failed <=> r.failed)
    BY <2>3 DEF Quiet, Record, IsRecord
  <2> QED
    BY <2>4 DEF b
<1>3. /\ Quiet(CreateOutput(r)) /\ CreateOutput(r).listing_fd = r.listing_fd
      /\ CreateOutput(r).stderr = r.stderr /\ (CreateOutput(r).failed <=> r.failed)
  <2> DEFINE b == CreateOutput(r)
  <2>1. b = Record(r.emit, r.message, r.data, <<>>, r.listing, r.stderr, r.listing_fd, r.full,
                   r.failed)
    BY <1>1, EditIs DEF CreateOutput
  <2> HIDE DEF b
  <2>2. Quiet(b) /\ b.listing_fd = r.listing_fd /\ b.stderr = r.stderr /\ (b.failed <=> r.failed)
    BY <2>1 DEF Quiet, Record, IsRecord
  <2> QED
    BY <2>2 DEF b
<1>4. /\ Quiet([r EXCEPT !.listing_fd = "none"])
      /\ [r EXCEPT !.listing_fd = "none"].listing_fd = "none"
  <2> DEFINE b == [r EXCEPT !.listing_fd = "none"]
  <2>1. b = Record(r.emit, r.message, r.data, r.output, r.listing, r.stderr, "none", r.full,
                   r.failed)
    BY <1>1, EditIs
  <2> HIDE DEF b
  <2>2. Quiet(b) /\ b.listing_fd = "none"
    BY <2>1 DEF Quiet, Record, IsRecord
  <2> QED
    BY <2>2 DEF b
<1> QED
  BY <1>2, <1>3, <1>4

LEMMA CreationKeeps ==
    ASSUME TellInv, StartPass \/ CreateFails
    PROVE  TellInv'
<1>1. phase = "create"
  BY Zenon DEF StartPass, CreateFails
<1>2. Quiet(io) /\ ~io.failed /\ exit = "running" /\ (errors <=> io.stderr # <<>>)
      /\ (io.listing_fd # "none" => options.listing # None)
  BY <1>1 DEF TellInv
<1> DEFINE l == IF options.listing = None THEN io ELSE CreateListing(io)
<1>3. /\ Quiet(l) /\ l.listing_fd # "closed" /\ (l.listing_fd # "none" => options.listing # None)
      /\ l.stderr = io.stderr /\ ~l.failed
  BY <1>2, CreateIs
<1>4. CASE StartPass
  <2>1. io' = CreateOutput(l) /\ phase' = "push" /\ UNCHANGED <<options, exit, errors>>
    BY <1>4, Zenon DEF StartPass, unchangedByMain
  <2> HIDE DEF l
  <2>2. /\ Quiet(io') /\ io'.listing_fd = l.listing_fd /\ io'.stderr = io.stderr /\ ~io'.failed
    BY <1>3, <2>1, CreateIs
  <2> QED
    BY <1>2, <1>3, <2>1, <2>2 DEF TellInv, Reads
<1>5. CASE CreateFails
  <2> DEFINE n == [io EXCEPT !.listing_fd = "none"]
  <2>1. /\ Exit("1") /\ UNCHANGED options
        /\ \/ Report(n, line_number, "could_not_open_listing")
           \/ Report(l, line_number, "could_not_open_output")
    BY <1>5, Zenon DEF CreateFails, unchangedByMain
  <2>2. Quiet(n) /\ n.listing_fd = "none"
    BY <1>2, CreateIs
  <2> HIDE DEF l, n
  <2>3. CASE Report(n, line_number, "could_not_open_listing")
    <3>1. Keeps(n, io') /\ io'.stderr # <<>> /\ errors'
      BY <2>2, <2>3, ReportIs
    <3>2. Quiet(io') /\ io'.listing_fd = "none"
      BY <2>2, <3>1 DEF Keeps
    <3> QED
      BY <2>1, <3>1, <3>2, GivesUp
  <2>4. CASE Report(l, line_number, "could_not_open_output")
    <3>1. Keeps(l, io') /\ io'.stderr # <<>> /\ errors'
      BY <1>3, <2>4, ReportIs
    <3>2. /\ Quiet(io') /\ io'.listing_fd \in {"none", "open"}
          /\ (io'.listing_fd # "none" => options.listing # None)
      <4>1. l.listing_fd \in {"none", "open"}
        BY <1>1, <1>2, CreateIs DEF l, TellInv
      <4> QED
        BY <1>3, <3>1, <4>1 DEF Keeps
    <3> QED
      BY <2>1, <3>1, <3>2, GivesUp
  <2> QED
    BY <2>1, <2>3, <2>4
<1> QED
  BY <1>4, <1>5

\* The trailer closes the listing, if there is one.
Finishes(r, after) ==
    /\ Quiet(after) /\ after.listing_fd \in {"none", "closed"}
    /\ r.listing_fd = "none" => after.listing_fd = "none"
    /\ r.failed => after.failed
    /\ ~after.failed => after.stderr = r.stderr

LEMMA TrailerIs ==
    ASSUME NEW r, Quiet(r), r.listing_fd # "closed"
    PROVE  Finishes(r, Trailer(r))
<1>1. CASE r.listing_fd = "none"
  <2>1. Trailer(r) = r
    BY <1>1 DEF Trailer
  <2> QED
    BY <1>1, <2>1 DEF Finishes
<1>2. CASE r.listing_fd # "none"
  <2> DEFINE b == BBPrintf(r, <<<<"totals">>, <<"labels">>>>)
  <2>1. Trailer(r) = CloseListing(b)
    BY <1>2 DEF Trailer
  <2>2. Silent(r, b)
    BY PrintIsSilent
  <2> HIDE DEF b
  <2>3. Quiet(b) /\ b.listing_fd # "closed"
    BY <2>2, OpenStays DEF Silent
  <2>4. Closes(b, CloseListing(b))
    BY <2>3, CloseIs
  <2> QED
    BY <1>2, <2>1, <2>2, <2>4 DEF Closes, Finishes, Silent, Keeps
<1> QED
  BY <1>1, <1>2

LEMMA EndPassIs ==
    ASSUME EndPass
    PROVE  \E again \in BOOLEAN :
              LET failing == again /\ options.opt_level <= 1
                  wrong == errors \/ failing
                  e == EmitFlush(io)
                  t == IF failing THEN Message(e, At(line_number), "labels_changed") ELSE e
                  listed == Trailer(t)
              IN  /\ again => assembler_pass < MaxPass
                  /\ errors' = wrong
                  /\ IF listed.failed THEN io' = listed /\ Exit("3")
                     ELSE IF wrong THEN io' = [listed EXCEPT !.output = Absent] /\ Exit("1")
                     ELSE /\ io' = listed
                          /\ IF again THEN phase' = "create" /\ UNCHANGED exit ELSE Exit("0")
<1>1. PICK again \in BOOLEAN :
          LET failing == again /\ options.opt_level <= 1
              Tell(flushed) ==
                  IF failing THEN Message(flushed, At(line_number), "labels_changed") ELSE flushed
              wrong == errors \/ failing
          IN  \E listed \in {Then(Then(EmitFlush(io), Tell), Trailer)} :
              /\ again => assembler_pass < MaxPass
              /\ errors' = wrong
              /\ IF listed.failed THEN io' = listed /\ Exit("3")
                 ELSE IF wrong THEN io' = [listed EXCEPT !.output = Absent] /\ Exit("1")
                 ELSE /\ io' = listed
                      /\ IF again THEN phase' = "create" /\ UNCHANGED exit ELSE Exit("0")
  BY Zenon DEF EndPass
<1> DEFINE failing == again /\ options.opt_level <= 1
           wrong == errors \/ failing
           e == EmitFlush(io)
           t == IF failing THEN Message(e, At(line_number), "labels_changed") ELSE e
           listed == Trailer(t)
           Tell(flushed) ==
               IF failing THEN Message(flushed, At(line_number), "labels_changed") ELSE flushed
<1>2. /\ again => assembler_pass < MaxPass
      /\ errors' = wrong
      /\ IF listed.failed THEN io' = listed /\ Exit("3")
         ELSE IF wrong THEN io' = [listed EXCEPT !.output = Absent] /\ Exit("1")
         ELSE /\ io' = listed
              /\ IF again THEN phase' = "create" /\ UNCHANGED exit ELSE Exit("0")
  <2> HIDE DEF failing, e
  <2>1. Then(e, Tell) = t
    <3>1. Then(e, Tell) = CHOOSE after \in {IF failing
                THEN Message(flushed, At(line_number), "labels_changed") ELSE flushed :
                flushed \in {e}} : TRUE
      BY DEF Then
    <3>2. {IF failing THEN Message(flushed, At(line_number), "labels_changed") ELSE flushed :
              flushed \in {e}} = {t}
      OBVIOUS
    <3> HIDE DEF t
    <3> QED
      BY <3>1, <3>2
  <2>2. Then(t, Trailer) = listed
    <3> HIDE DEF t
    <3>1. Then(t, Trailer) = CHOOSE after \in {Trailer(now) : now \in {t}} : TRUE
      BY DEF Then
    <3>2. {Trailer(now) : now \in {t}} = {listed}
      OBVIOUS
    <3> HIDE DEF listed
    <3> QED
      BY <3>1, <3>2
  <2>3. Then(Then(EmitFlush(io), Tell), Trailer) = listed
    BY <2>1, <2>2 DEF e
  <2> QED
    BY <1>1, <2>3, Zenon DEF failing
<1> QED
  BY <1>2, Zenon

LEMMA EndPassKeeps ==
    ASSUME TellInv, EndPass
    PROVE  TellInv'
<1>1. phase = "assembled"
  BY Zenon DEF EndPass
<1>2. Quiet(io) /\ io.listing_fd # "closed" /\ ~io.failed /\ exit = "running"
      /\ (errors <=> io.stderr # <<>>) /\ (io.listing_fd # "none" => options.listing # None)
  BY <1>1 DEF TellInv, Reads
<1>3. UNCHANGED options
  BY Zenon DEF EndPass, unchangedByMain
<1>4. PICK again \in BOOLEAN :
          LET failing == again /\ options.opt_level <= 1
              wrong == errors \/ failing
              e == EmitFlush(io)
              t == IF failing THEN Message(e, At(line_number), "labels_changed") ELSE e
              listed == Trailer(t)
          IN  /\ again => assembler_pass < MaxPass
              /\ errors' = wrong
              /\ IF listed.failed THEN io' = listed /\ Exit("3")
                 ELSE IF wrong THEN io' = [listed EXCEPT !.output = Absent] /\ Exit("1")
                 ELSE /\ io' = listed
                      /\ IF again THEN phase' = "create" /\ UNCHANGED exit ELSE Exit("0")
  BY EndPassIs, Zenon
<1> DEFINE failing == again /\ options.opt_level <= 1
           wrong == errors \/ failing
           e == EmitFlush(io)
           t == IF failing THEN Message(e, At(line_number), "labels_changed") ELSE e
           listed == Trailer(t)
<1>5. /\ errors' = wrong
      /\ IF listed.failed THEN io' = listed /\ Exit("3")
         ELSE IF wrong THEN io' = [listed EXCEPT !.output = Absent] /\ Exit("1")
         ELSE /\ io' = listed
              /\ IF again THEN phase' = "create" /\ UNCHANGED exit ELSE Exit("0")
  BY <1>4, Zenon
<1>6. Silent(io, e)
  BY <1>2, EmitFlushIsSilent
<1> HIDE DEF e, failing
<1>7. Quiet(e) /\ e.listing_fd # "closed" /\ e.listing_fd \in {io.listing_fd, "none"}
  BY <1>2, <1>6, OpenStays DEF Silent, Keeps
<1>8. Keeps(e, t) /\ (failing => t.stderr # <<>>) /\ (~failing => t = e)
  <2>1. CASE failing
    <3>1. Told(e, Message(e, At(line_number), "labels_changed"))
      BY <1>7, MessageIsTold
    <3> QED
      BY <2>1, <3>1 DEF Told
  <2>2. CASE ~failing
    <3>1. Silent(e, e)
      BY <1>7, SilentIsReflexive
    <3> QED
      BY <2>2, <3>1 DEF Silent
  <2> QED
    BY <2>1, <2>2
<1> HIDE DEF t
<1>9. Quiet(t) /\ t.listing_fd # "closed" /\ t.listing_fd \in {io.listing_fd, "none"}
  BY <1>7, <1>8 DEF Keeps
<1>10. Finishes(t, listed)
  BY <1>9, TrailerIs
<1> HIDE DEF listed
<1>11. /\ Quiet(listed) /\ listed.listing_fd \in {"none", "closed"}
       /\ (listed.listing_fd # "none" => options.listing # None)
  BY <1>2, <1>9, <1>10 DEF Finishes
<1>12. ~listed.failed => (wrong <=> listed.stderr # <<>>)
  <2>1. ~listed.failed => ~t.failed /\ listed.stderr = t.stderr
    BY <1>10 DEF Finishes
  <2>2. ~t.failed => ~e.failed
    BY <1>8 DEF Keeps
  <2>3. ~e.failed => e.stderr = io.stderr
    BY <1>6 DEF Silent
  <2>4. CASE failing
    BY <1>8, <2>1, <2>4
  <2>5. CASE ~failing
    BY <1>2, <1>8, <2>1, <2>2, <2>3, <2>5
  <2> QED
    BY <2>4, <2>5
<1>13. CASE listed.failed
  <2>1. io' = listed /\ phase' = "done" /\ exit' = "3"
    BY <1>5, <1>13 DEF Exit
  <2>2. io'.stderr # <<>>
    BY <1>11, <1>13, <2>1 DEF Quiet
  <2> QED
    BY <1>3, <1>11, <1>13, <2>1, <2>2 DEF TellInv, Reads
<1>14. CASE ~listed.failed /\ wrong
  <2>1. io' = [listed EXCEPT !.output = Absent] /\ phase' = "done" /\ exit' = "1" /\ errors'
    BY <1>5, <1>14 DEF Exit
  <2>2. Silent(listed, io')
    BY <1>11, <2>1, SilentChanges
  <2>3. io'.stderr # <<>>
    <3>1. listed.stderr # <<>>
      BY <1>12, <1>14
    <3> QED
      BY <2>2, <3>1 DEF Silent, Keeps, Quiet
  <2>4. Quiet(io') /\ (io'.listing_fd # "none" => options.listing # None)
    BY <1>11, <2>2 DEF Silent, Keeps
  <2> QED
    BY <1>3, <2>1, <2>3, <2>4 DEF TellInv, Reads
<1>15. CASE ~listed.failed /\ ~wrong
  <2>1. /\ io' = listed /\ ~errors'
        /\ \/ phase' = "create" /\ exit' = "running"
           \/ phase' = "done" /\ exit' = "0"
    BY <1>2, <1>5, <1>15 DEF Exit
  <2>2. io'.stderr = <<>>
    BY <1>12, <1>15, <2>1
  <2> QED
    BY <1>3, <1>11, <1>15, <2>1, <2>2 DEF TellInv, Reads
<1> QED
  BY <1>13, <1>14, <1>15

LEMMA FullKeeps ==
    ASSUME TellInv, DiskFull
    PROVE  TellInv'
<1>1. /\ phase = "lines" /\ UNCHANGED <<options, phase, exit, errors>>
      /\ \E file : io' = [io EXCEPT !.full = @ \cup {file}]
  BY Zenon DEF DiskFull
<1>2. PICK file : io' = [io EXCEPT !.full = @ \cup {file}]
  BY <1>1
<1>3. io' = Record(io.emit, io.message, io.data, io.output, io.listing, io.stderr, io.listing_fd,
                   io.full \cup {file}, io.failed)
  BY <1>2, EditIs DEF TellInv, Quiet
<1>4. /\ Quiet(io') /\ io'.listing_fd = io.listing_fd /\ io'.stderr = io.stderr
      /\ (io'.failed <=> io.failed)
  BY <1>3 DEF TellInv, Quiet, Record, IsRecord
<1> QED
  BY <1>1, <1>4 DEF TellInv, Reads

LEMMA TellStep ==
    ASSUME TellInv, [Next]_vars
    PROVE  TellInv'
<1>1. CASE UNCHANGED vars
  BY <1>1 DEF vars, TellInv
<1>2. CASE Done
  BY <1>1, <1>2 DEF Done
<1> QED
  BY <1>1, <1>2, ArgumentsKeep, LinesKeep, WrongKeeps, FilesKeep, PassZeroKeeps, CreationKeeps,
     EndPassKeeps, FullKeeps DEF Next, Assemble, MainPasses

LEMMA TellInit == Init => TellInv
<1> SUFFICES ASSUME Init PROVE TellInv
  OBVIOUS
<1>1. io = Record(<<>>, <<>>, FALSE, Stale, Stale, <<>>, "none", {}, FALSE)
  BY DEF Init, NewStreams, Record
<1>2. Whole(<<>>)
  <2>1. <<>> \in Seq({}) /\ Len(<<>>) = 0
    OBVIOUS
  <2> QED
    BY <2>1 DEF Whole
<1>3. Quiet(io) /\ io.listing_fd = "none" /\ ~io.failed /\ io.stderr = <<>>
  BY <1>1, <1>2 DEF Quiet, Record, IsRecord
<1>4. phase = "arguments" /\ exit = "running" /\ ~errors
  BY DEF Init
<1> QED
  BY <1>3, <1>4 DEF TellInv, Reads

\* stderr has whole messages and nothing of the listing, at every moment; the exit
\* code is 0 if and only if it has none, and 3 only if a disk was full: for all
\* files and arguments, whatever the sizes of the buffers are.
THEOREM ErrorsAreAlwaysTold == Spec => []ErrorsAreTold
<1>1. TellInv => ErrorsAreTold
  <2> SUFFICES ASSUME TellInv PROVE ErrorsAreTold
    OBVIOUS
  <2>1. Whole(io.stderr)
    BY DEF TellInv, Quiet
  <2>2. ASSUME NEW i \in DOMAIN io.stderr
        PROVE  io.stderr[i][1] = IF i % 2 = 1 THEN "message" ELSE "end"
    <3>1. i \in 1..Len(io.stderr)
      BY <2>1 DEF Whole
    <3> QED
      BY <2>1, <3>1 DEF Whole
  <2>3. phase = "done" => (exit = "0" <=> io.stderr = <<>>)
    BY DEF TellInv
  <2>4. exit = "3" => io.full # {}
    BY DEF TellInv, Quiet
  <2> QED
    BY <2>2, <2>3, <2>4 DEF ErrorsAreTold, MessageKinds
<1> QED
  BY <1>1, TellInit, TellStep, PTL DEF Spec

-----------------------------------------------------------------------------
(* The buffers: no text is longer than message_buf, and emit_buf is written   *)
(* before it is full.                                                         *)

IsSeq(s) == \E M : s \in Seq(M)

LEMMA Joined ==
    ASSUME NEW s, NEW t, IsSeq(s), IsSeq(t)
    PROVE  IsSeq(s \o t) /\ Len(s \o t) = Len(s) + Len(t) /\ Len(s) \in Nat /\ Len(t) \in Nat
<1>1. PICK M : s \in Seq(M)
  BY DEF IsSeq
<1>2. PICK N : t \in Seq(N)
  BY DEF IsSeq
<1>3. s \in Seq(M \cup N) /\ t \in Seq(M \cup N)
  BY <1>1, <1>2
<1>4. s \o t \in Seq(M \cup N) /\ Len(s \o t) = Len(s) + Len(t)
  BY <1>3, ConcatProperties, Zenon
<1> QED
  BY <1>1, <1>2, <1>4 DEF IsSeq

LEMMA Part ==
    ASSUME NEW s, IsSeq(s), NEW m \in Nat \ {0}, NEW n \in Nat, n <= Len(s)
    PROVE  IsSeq(SubSeq(s, m, n)) /\ Len(SubSeq(s, m, n)) = IF m <= n THEN n - m + 1 ELSE 0
<1>1. PICK M : s \in Seq(M)
  BY DEF IsSeq
<1>2. m \in Int /\ n \in Int /\ \A i \in m..n : s[i] \in M
  BY <1>1
<1>3. SubSeq(s, m, n) \in Seq(M) /\ Len(SubSeq(s, m, n)) = IF m <= n THEN n - m + 1 ELSE 0
  BY <1>2, SubSeqProperties
<1> QED
  BY <1>3 DEF IsSeq

\* The streams between two operations, the output buffer apart.
Held(r) ==
    /\ IsRecord(r) /\ IsSeq(r.emit) /\ IsSeq(r.message) /\ Len(r.message) <= MessageSize
    /\ r.listing_fd \in {"none", "open", "closed"}

Fits(r) == Held(r) /\ (Len(r.emit) < EmitSize \/ r.failed)

\* What an operation on messages does.
Holds(r, after) == Held(after) /\ after.emit = r.emit /\ (r.failed => after.failed)

LEMMA HoldsIsTransitive ==
    ASSUME NEW a, NEW b, NEW c, Holds(a, b), Holds(b, c)
    PROVE  Holds(a, c)
  BY DEF Holds

LEMMA HoldsFits ==
    ASSUME NEW a, NEW b, Fits(a), Holds(a, b)
    PROVE  Fits(b)
  BY DEF Holds, Fits

LEMMA EmptyIsSeq == IsSeq(<<>>) /\ Len(<<>>) = 0
<1>1. <<>> \in Seq({})
  OBVIOUS
<1> QED
  BY <1>1 DEF IsSeq

\* The other fields may change.
LEMMA HeldChanges ==
    ASSUME NEW r, Held(r), NEW x
    PROVE  /\ Holds(r, [r EXCEPT !.data = x])
           /\ Holds(r, [r EXCEPT !.output = x]) /\ Holds(r, [r EXCEPT !.listing = x])
           /\ Holds(r, [r EXCEPT !.full = x])
           /\ x \in {"none", "open", "closed"} => Holds(r, [r EXCEPT !.listing_fd = x])
           /\ IsSeq(x) /\ Len(x) <= MessageSize => Holds(r, [r EXCEPT !.message = x])
           /\ [r EXCEPT !.message = x].failed = r.failed
           /\ IsSeq(x) => Held([r EXCEPT !.emit = x])
           /\ [r EXCEPT !.emit = x].emit = x /\ [r EXCEPT !.emit = x].failed = r.failed
           /\ Held([r EXCEPT !.failed = TRUE]) /\ [r EXCEPT !.failed = TRUE].failed
<1>1. IsRecord(r)
  BY DEF Held
<1>2. Holds(r, [r EXCEPT !.data = x])
  <2> DEFINE b == [r EXCEPT !.data = x]
  <2>1. b = Record(r.emit, r.message, x, r.output, r.listing, r.stderr, r.listing_fd, r.full,
                   r.failed)
    BY <1>1, EditIs
  <2> QED
    BY <2>1, RecordIs DEF Holds, Held
<1>3. Holds(r, [r EXCEPT !.output = x])
  <2> DEFINE b == [r EXCEPT !.output = x]
  <2>1. b = Record(r.emit, r.message, r.data, x, r.listing, r.stderr, r.listing_fd, r.full,
                   r.failed)
    BY <1>1, EditIs
  <2> QED
    BY <2>1, RecordIs DEF Holds, Held
<1>4. Holds(r, [r EXCEPT !.listing = x])
  <2> DEFINE b == [r EXCEPT !.listing = x]
  <2>1. b = Record(r.emit, r.message, r.data, r.output, x, r.stderr, r.listing_fd, r.full,
                   r.failed)
    BY <1>1, EditIs
  <2> QED
    BY <2>1, RecordIs DEF Holds, Held
<1>5. Holds(r, [r EXCEPT !.full = x])
  <2> DEFINE b == [r EXCEPT !.full = x]
  <2>1. b = Record(r.emit, r.message, r.data, r.output, r.listing, r.stderr, r.listing_fd, x,
                   r.failed)
    BY <1>1, EditIs
  <2> QED
    BY <2>1, RecordIs DEF Holds, Held
<1>6. x \in {"none", "open", "closed"} => Holds(r, [r EXCEPT !.listing_fd = x])
  <2> DEFINE b == [r EXCEPT !.listing_fd = x]
  <2>1. b = Record(r.emit, r.message, r.data, r.output, r.listing, r.stderr, x, r.full,
                   r.failed)
    BY <1>1, EditIs
  <2> QED
    BY <2>1, RecordIs DEF Holds, Held
<1>7. /\ IsSeq(x) /\ Len(x) <= MessageSize => Holds(r, [r EXCEPT !.message = x])
      /\ [r EXCEPT !.message = x].failed = r.failed
  <2> DEFINE b == [r EXCEPT !.message = x]
  <2>1. b = Record(r.emit, x, r.data, r.output, r.listing, r.stderr, r.listing_fd, r.full,
                   r.failed)
    BY <1>1, EditIs
  <2> QED
    BY <2>1, RecordIs DEF Holds, Held
<1>8. /\ IsSeq(x) => Held([r EXCEPT !.emit = x])
      /\ [r EXCEPT !.emit = x].emit = x /\ [r EXCEPT !.emit = x].failed = r.failed
  <2> DEFINE b == [r EXCEPT !.emit = x]
  <2>1. b = Record(x, r.message, r.data, r.output, r.listing, r.stderr, r.listing_fd, r.full,
                   r.failed)
    BY <1>1, EditIs
  <2> QED
    BY <2>1, RecordIs DEF Held
<1>9. Held([r EXCEPT !.failed = TRUE]) /\ [r EXCEPT !.failed = TRUE].failed
  <2> DEFINE b == [r EXCEPT !.failed = TRUE]
  <2>1. b = Record(r.emit, r.message, r.data, r.output, r.listing, r.stderr, r.listing_fd,
                   r.full, TRUE)
    BY <1>1, EditIs
  <2> HIDE DEF b
  <2>2. Held(b) /\ b.failed
    BY <2>1 DEF Held, Record, IsRecord
  <2> QED
    BY <2>2 DEF b
<1> QED
  BY <1>2, <1>3, <1>4, <1>5, <1>6, <1>7, <1>8, <1>9

LEMMA FlushHolds ==
    ASSUME NEW r, Held(r)
    PROVE  Holds(r, MessageFlush(r)) /\ (~r.failed => MessageFlush(r).message = <<>>)
<1> DEFINE f == MessageFlush(r)
<1>1. /\ IsRecord(f) /\ f.emit = r.emit /\ f.listing_fd \in {r.listing_fd, "none"}
      /\ \/ f = r /\ (r.failed \/ r.message = <<>>)
         \/ ~r.failed /\ ~f.failed /\ f.message = <<>>
         \/ ~r.failed /\ f.failed /\ f.message = <<>>
  BY FlushIs, Zenon DEF Held
<1>2. MessageSize \in Nat
  BY BuffersAssumption
<1> HIDE DEF f
<1>3. IsSeq(f.message) /\ Len(f.message) <= MessageSize
  BY <1>1, <1>2, EmptyIsSeq DEF Held
<1>4. Holds(r, f) /\ (~r.failed => f.message = <<>>)
  BY <1>1, <1>3 DEF Held, Holds
<1> QED
  BY <1>4 DEF f

LEMMA PrintHolds ==
    ASSUME NEW r, Held(r), NEW units, IsSeq(units), Len(units) <= MessageSize
    PROVE  Holds(r, BBPrintf(r, units))
<1> DEFINE all == r.message \o units
           a == [r EXCEPT !.message = SubSeq(all, 1, MessageSize)]
           f == MessageFlush(a)
           rest == SubSeq(all, MessageSize + 1, Len(all))
<1>1. /\ IsSeq(all) /\ Len(all) = Len(r.message) + Len(units) /\ Len(r.message) \in Nat
      /\ Len(units) \in Nat /\ MessageSize \in Nat
  BY Joined, BuffersAssumption DEF Held
<1>2. BBPrintf(r, units) =
         IF r.failed THEN r
         ELSE IF Len(all) <= MessageSize THEN [r EXCEPT !.message = all]
         ELSE IF f.failed THEN f ELSE [f EXCEPT !.message = rest]
  BY PrintIs, Zenon
<1>3. Holds(r, r)
  BY DEF Holds
<1>4. ASSUME Len(all) <= MessageSize
      PROVE  Holds(r, [r EXCEPT !.message = all])
  BY <1>1, <1>4, HeldChanges
<1>5. ASSUME ~(Len(all) <= MessageSize)
      PROVE  Holds(r, f) /\ Holds(r, [f EXCEPT !.message = rest])
  <2> HIDE DEF all
  <2>1. Len(all) \in Nat /\ MessageSize <= Len(all) /\ 1 \in Nat \ {0}
        /\ MessageSize + 1 \in Nat \ {0}
    BY <1>1, <1>5
  <2>2. /\ IsSeq(SubSeq(all, 1, MessageSize)) /\ Len(SubSeq(all, 1, MessageSize)) <= MessageSize
    BY <1>1, <2>1, Part
  <2>3. IsSeq(rest) /\ Len(rest) <= MessageSize
    <3>1. IsSeq(rest) /\ Len(rest) = IF MessageSize + 1 <= Len(all)
                                     THEN Len(all) - (MessageSize + 1) + 1 ELSE 0
      BY <1>1, <2>1, Part
    <3> HIDE DEF rest
    <3> QED
      BY <1>1, <2>1, <3>1 DEF Held
  <2>4. Holds(r, a)
    BY <2>2, HeldChanges
  <2> HIDE DEF a
  <2>5. Holds(a, f)
    BY <2>4, FlushHolds DEF Holds
  <2> HIDE DEF f, rest
  <2>6. Holds(f, [f EXCEPT !.message = rest])
    BY <2>3, <2>5, HeldChanges DEF Holds
  <2> QED
    BY <2>4, <2>5, <2>6, HoldsIsTransitive
<1> HIDE DEF all, f, rest
<1> QED
  BY <1>2, <1>3, <1>4, <1>5

LEMMA TextFits ==
    ASSUME NEW where, NEW what
    PROVE  IsSeq(TextOf(where, what)) /\ Len(TextOf(where, what)) <= MessageSize
<1>1. Len(TextOf(where, what)) = 2 /\ IsSeq(TextOf(where, what))
  BY TextIs DEF IsSeq
<1> QED
  BY <1>1, BuffersAssumption

LEMMA MessageHolds ==
    ASSUME NEW r, Held(r), ~r.data, NEW where, NEW what
    PROVE  Holds(r, Message(r, where, what))
<1> DEFINE f == MessageFlush(r)
           s == [f EXCEPT !.data = TRUE]
           b == BBPrintf(s, TextOf(where, what))
           g == MessageFlush(b)
           after == [g EXCEPT !.data = FALSE]
<1>1. Message(r, where, what) = after
  BY MessageIs
<1>2. Holds(r, f)
  BY FlushHolds
<1> HIDE DEF f
<1>3. Holds(f, s)
  <2>1. Held(f)
    BY <1>2 DEF Holds
  <2> QED
    BY <2>1, HeldChanges
<1> HIDE DEF s
<1>4. Holds(s, b)
  BY <1>3, TextFits, PrintHolds DEF Holds
<1> HIDE DEF b
<1>5. Holds(b, g)
  BY <1>4, FlushHolds DEF Holds
<1> HIDE DEF g
<1>6. Holds(g, after)
  <2>1. Held(g)
    BY <1>5 DEF Holds
  <2> QED
    BY <2>1, HeldChanges
<1> HIDE DEF after
<1> QED
  BY <1>1, <1>2, <1>3, <1>4, <1>5, <1>6, HoldsIsTransitive

\* The output buffer is empty after it was written.
LEMMA EmitFlushHolds ==
    ASSUME NEW r, Held(r), ~r.data
    PROVE  LET f == EmitFlush(r)
           IN  Held(f) /\ (r.failed => f.failed) /\ (f.failed \/ f.emit = <<>>)
<1>1. CASE r.failed \/ r.emit = <<>>
  <2>1. EmitFlush(r) = r
    BY <1>1, Zenon DEF EmitFlush
  <2> QED
    BY <1>1, <2>1
<1>2. CASE ~(r.failed \/ r.emit = <<>>) /\ "output" \in r.full
  <2> DEFINE m == Message(r, <<>>, "error_writing_output")
  <2>1. EmitFlush(r) = [m EXCEPT !.failed = TRUE]
    BY <1>2, Zenon DEF EmitFlush
  <2>2. Held(m)
    BY MessageHolds DEF Holds
  <2> HIDE DEF m
  <2> QED
    BY <2>1, <2>2, HeldChanges
<1>3. CASE ~(r.failed \/ r.emit = <<>>) /\ "output" \notin r.full
  <2> DEFINE a == [r EXCEPT !.output = @ \o r.emit]
  <2>1. EmitFlush(r) = [r EXCEPT !.output = @ \o r.emit, !.emit = <<>>]
    BY <1>3, Zenon DEF EmitFlush
  <2>2. EmitFlush(r) = [a EXCEPT !.emit = <<>>]
    BY <2>1
  <2>3. Held(a) /\ (r.failed => a.failed)
    BY HeldChanges DEF Holds
  <2> HIDE DEF a
  <2>4. Held([a EXCEPT !.emit = <<>>]) /\ [a EXCEPT !.emit = <<>>].emit = <<>>
    BY <2>3, EmptyIsSeq, HeldChanges
  <2> QED
    BY <1>3, <2>2, <2>4
<1> QED
  BY <1>1, <1>2, <1>3

LEMMA EmitFits ==
    ASSUME NEW r, Fits(r), ~r.data, NEW units, IsSeq(units)
    PROVE  Fits(EmitWrite(r, units)) /\ (r.failed => EmitWrite(r, units).failed)
<1> DEFINE all == r.emit \o units
           n == (Len(all) \div EmitSize) * EmitSize
           a == [r EXCEPT !.emit = SubSeq(all, 1, n)]
           f == EmitFlush(a)
           rest == SubSeq(all, n + 1, Len(all))
<1>1. EmitWrite(r, units) =
         IF r.failed THEN r
         ELSE IF n = 0 THEN [r EXCEPT !.emit = all]
         ELSE IF f.failed THEN f ELSE [f EXCEPT !.emit = rest]
  BY EmitIs, Zenon
<1>2. IsSeq(all) /\ Len(all) \in Nat /\ EmitSize \in Nat \ {0}
  BY Joined, BuffersAssumption DEF Fits, Held
<1>3. n \in Nat /\ n <= Len(all) /\ Len(all) - n < EmitSize
  <2> HIDE DEF all
  <2> DEFINE q == Len(all) \div EmitSize
  <2>1. q \in Nat /\ q * EmitSize \in Nat /\ q * EmitSize <= Len(all)
        /\ Len(all) < q * EmitSize + EmitSize
    BY <1>2
  <2> QED
    BY <1>2, <2>1
<1> HIDE DEF n
<1>4. ASSUME n = 0
      PROVE  Fits([r EXCEPT !.emit = all])
  <2>1. Len(all) < EmitSize
    BY <1>2, <1>3, <1>4
  <2> HIDE DEF all
  <2> QED
    BY <1>2, <2>1, HeldChanges DEF Fits
<1> HIDE DEF all
<1>5. n + 1 \in Nat \ {0} /\ 1 \in Nat \ {0} /\ Len(all) <= Len(all)
  BY <1>2, <1>3
<1>6. Held(a) /\ ~a.data /\ (r.failed => a.failed)
  <2>1. IsSeq(SubSeq(all, 1, n))
    BY <1>2, <1>3, <1>5, Part
  <2>2. a.data = r.data
    <3>1. a = Record(SubSeq(all, 1, n), r.message, r.data, r.output, r.listing, r.stderr,
                     r.listing_fd, r.full, r.failed)
      BY ZenonT(60), EditIs DEF Fits, Held
    <3> HIDE DEF a
    <3> QED
      BY <3>1, RecordIs
  <2> QED
    BY ZenonT(60), <2>1, <2>2, HeldChanges DEF Fits
<1> HIDE DEF a
<1>7. Held(f) /\ (a.failed => f.failed) /\ (f.failed \/ f.emit = <<>>)
  BY <1>6, EmitFlushHolds
<1>8. IsSeq(rest) /\ Len(rest) < EmitSize
  <2>1. IsSeq(rest) /\ Len(rest) = IF n + 1 <= Len(all) THEN Len(all) - (n + 1) + 1 ELSE 0
    BY <1>2, <1>5, Part
  <2> HIDE DEF rest
  <2> QED
    BY <1>2, <1>3, <2>1
<1> HIDE DEF f, rest
<1>9. (f.failed => Fits(f)) /\ Fits([f EXCEPT !.emit = rest])
  BY <1>7, <1>8, HeldChanges DEF Fits
<1> QED
  BY <1>1, <1>4, <1>6, <1>7, <1>9

-----------------------------------------------------------------------------
(* The include stack.                                                         *)

LEMMA LargestIs ==
    ASSUME NEW S, S \subseteq Int, NEW m \in S, \A y \in S : y <= m
    PROVE  Max(S) = m
<1>1. \A x \in S : (\A y \in S : x >= y) => x = m
  <2>1. SUFFICES ASSUME NEW x \in S, \A y \in S : x >= y
                 PROVE  x = m
    OBVIOUS
  <2>2. x >= m /\ x <= m /\ x \in Int /\ m \in Int
    BY <2>1
  <2> QED
    BY <2>2
<1>2. \A y \in S : m >= y
  <2>1. SUFFICES ASSUME NEW y \in S
                 PROVE  m >= y
    OBVIOUS
  <2>2. y <= m /\ y \in Int /\ m \in Int
    OBVIOUS
  <2> QED
    BY <2>2
<1> QED
  BY <1>1, <1>2, Zenon DEF Max

LEMMA SmallestIs ==
    ASSUME NEW S, S \subseteq Int, NEW m \in S, \A y \in S : m <= y
    PROVE  Min(S) = m
<1>1. \A x \in S : (\A y \in S : x <= y) => x = m
  <2>1. SUFFICES ASSUME NEW x \in S, \A y \in S : x <= y
                 PROVE  x = m
    OBVIOUS
  <2>2. x <= m /\ m <= x /\ x \in Int /\ m \in Int
    BY <2>1
  <2> QED
    BY <2>2
<1> QED
  BY <1>1, Zenon DEF Min

\* An entry whose file name has n characters.
SizeOf(al, n) == NameAt + n + 1 + (-(NameAt + n + 1) % al)

\* May an entry begin at p?
Even(al, p) == (p - 1) % al = 0

Aligned(al) == al \in {1, 2, 4, 8} /\ StackSize % al = 0 /\ StackSize \in Nat \ {0}

LEMMA SizeIs ==
    ASSUME NEW al, Aligned(al), NEW n \in Nat
    PROVE  /\ SizeOf(al, n) \in Nat /\ NameAt = 5 /\ SizeOf(al, n) >= 6 + n
           /\ al = 1 => SizeOf(al, n) = 6 + n
           /\ \A p \in Nat \ {0} :
                 /\ Even(al, p) <=> Even(al, p + SizeOf(al, n))
                 /\ Even(al, p) /\ p + 5 + n <= StackSize => p + SizeOf(al, n) <= StackSize + 1
<1>1. NameAt = 5
  BY DEF NameAt, NewFields
<1>2. StackSize \in Nat
  BY StackAssumption
<1>3. CASE al = 1
  BY <1>1, <1>2, <1>3 DEF SizeOf, Even
<1>4. CASE al = 2
  BY <1>1, <1>2, <1>4 DEF SizeOf, Aligned, Even
<1>5. CASE al = 4
  BY <1>1, <1>2, <1>5 DEF SizeOf, Aligned, Even
<1>6. CASE al = 8
  BY <1>1, <1>2, <1>6 DEF SizeOf, Aligned, Even
<1> QED
  BY <1>3, <1>4, <1>5, <1>6 DEF Aligned

LEMMA Behind ==
    ASSUME NEW s \in Seq(Nat), NEW t \in Seq(Nat), NEW m \in Nat, NEW n \in Nat,
           Len(s) = m, Len(t) = n
    PROVE  /\ s \o t \in Seq(Nat) /\ Len(s \o t) = m + n
           /\ \A i \in 1..m : (s \o t)[i] = s[i]
           /\ \A i \in 1..n : (s \o t)[m + i] = t[i]
<1>1. /\ s \o t \in Seq(Nat) /\ Len(s \o t) = Len(s) + Len(t)
      /\ \A i \in 1 .. Len(s) + Len(t) : (s \o t)[i] = IF i <= Len(s) THEN s[i] ELSE t[i - Len(s)]
  BY ConcatProperties, Zenon
<1>2. \A i \in 1..m + n : (s \o t)[i] = IF i <= m THEN s[i] ELSE t[i - m]
  BY <1>1
<1>3. \A i \in 1..m : i \in 1..m + n /\ i <= m
  OBVIOUS
<1>4. \A i \in 1..n : m + i \in 1..m + n /\ ~(m + i <= m) /\ m + i - m = i
  OBVIOUS
<1> QED
  BY <1>1, <1>2, <1>3, <1>4

LEMMA EntryIs ==
    ASSUME NEW al, Aligned(al), NEW name \in Name, NEW n \in Nat, Len(name) = n
    PROVE  LET e == Entry(al, name)
           IN  /\ DOMAIN e = 1..SizeOf(al, n) /\ Len(e) = SizeOf(al, n)
               /\ e[1] = 0 /\ e[2] = 1 /\ e[3] = 0 /\ e[4] = 0 /\ e[5] = 0
               /\ \A i \in 1..n : e[5 + i] = name[i] /\ name[i] \in Nat \ {0}
               /\ \A i \in 6 + n .. SizeOf(al, n) : e[i] = 0
<1> DEFINE k == SizeOf(al, n) - (6 + n)
           pad == [i \in 1..k |-> 0]
           a == NewFields \o name
           b == a \o <<0>>
           e == b \o pad
<1> HIDE DEF pad, a, b, e
<1>1. k \in Nat /\ SizeOf(al, n) = 6 + n + k /\ SizeOf(al, n) \in Nat
  <2>1. SizeOf(al, n) \in Nat /\ SizeOf(al, n) >= 6 + n
    BY SizeIs, Zenon
  <2> QED
    BY <2>1
<1>2. Entry(al, name) = e
  <2>1. Padding(al, name) = k
    <3>1. NameAt = 5
      BY SizeIs
    <3>2. -(NameAt + n + 1) % al \in Int
      BY <3>1 DEF Aligned
    <3> QED
      BY <3>1, <3>2 DEF Padding, SizeOf
  <2> QED
    BY <2>1 DEF Entry, e, b, a, pad
<1>3. /\ NewFields \in Seq(Nat) /\ Len(NewFields) = 5
      /\ NewFields[1] = 0 /\ NewFields[2] = 1 /\ NewFields[3] = 0 /\ NewFields[4] = 0
      /\ NewFields[5] = 0
  BY DEF NewFields
<1>4. name \in Seq(Nat) /\ \A i \in 1..n : name[i] \in Nat \ {0}
  BY DEF Name
<1>5. <<0>> \in Seq(Nat) /\ Len(<<0>>) = 1 /\ <<0>>[1] = 0
  OBVIOUS
<1> HIDE DEF k
<1>6. pad \in Seq(Nat) /\ Len(pad) = k /\ \A i \in 1..k : pad[i] = 0
  BY <1>1 DEF pad
<1>7. /\ a \in Seq(Nat) /\ Len(a) = 5 + n
      /\ \A i \in 1..5 : a[i] = NewFields[i]
      /\ \A i \in 1..n : a[5 + i] = name[i]
  <2> DEFINE f == NewFields
  <2>1. f \in Seq(Nat) /\ name \in Seq(Nat) /\ 5 \in Nat /\ Len(f) = 5 /\ Len(name) = n
    BY <1>3, <1>4
  <2> HIDE DEF f
  <2>2. /\ f \o name \in Seq(Nat) /\ Len(f \o name) = 5 + n
        /\ \A i \in 1..5 : (f \o name)[i] = f[i]
        /\ \A i \in 1..n : (f \o name)[5 + i] = name[i]
    <3>1. /\ f \o name \in Seq(Nat) /\ Len(f \o name) = Len(f) + Len(name)
          /\ \A i \in 1 .. Len(f) + Len(name) :
                (f \o name)[i] = IF i <= Len(f) THEN f[i] ELSE name[i - Len(f)]
      BY <2>1, ConcatProperties, Zenon
    <3>2. \A i \in 1..5 : i \in 1 .. Len(f) + Len(name) /\ i <= Len(f)
      BY <2>1
    <3>3. \A i \in 1..n : /\ 5 + i \in 1 .. Len(f) + Len(name) /\ ~(5 + i <= Len(f))
                          /\ 5 + i - Len(f) = i
      BY <2>1
    <3> QED
      BY <2>1, <3>1, <3>2, <3>3
  <2> QED
    BY <2>2 DEF a, f
<1>8. /\ b \in Seq(Nat) /\ Len(b) = 5 + n + 1
      /\ \A i \in 1..5 + n : b[i] = a[i]
      /\ \A i \in 1..1 : b[5 + n + i] = <<0>>[i]
  <2>1. 5 + n \in Nat /\ 1 \in Nat
    OBVIOUS
  <2> QED
    BY <1>5, <1>7, <2>1, Behind DEF b
<1>9. /\ e \in Seq(Nat) /\ Len(e) = 5 + n + 1 + k
      /\ \A i \in 1..5 + n + 1 : e[i] = b[i]
      /\ \A i \in 1..k : e[5 + n + 1 + i] = pad[i]
  <2>1. 5 + n + 1 \in Nat
    OBVIOUS
  <2> QED
    BY <1>1, <1>6, <1>8, <2>1, Behind DEF e
<1>10. DOMAIN e = 1..SizeOf(al, n) /\ Len(e) = SizeOf(al, n)
  <2>1. Len(e) = SizeOf(al, n)
    BY <1>1, <1>9
  <2>2. DOMAIN e = 1..Len(e)
    BY <1>9
  <2> QED
    BY <2>1, <2>2
<1>11. e[1] = 0 /\ e[2] = 1 /\ e[3] = 0 /\ e[4] = 0 /\ e[5] = 0
  <2>1. ASSUME NEW i \in 1..5
        PROVE  e[i] = NewFields[i]
    <3>1. i \in 1..5 + n + 1 /\ i \in 1..5 + n
      OBVIOUS
    <3> QED
      BY <1>7, <1>8, <1>9, <3>1
  <2> QED
    BY <1>3, <2>1
<1>12. ASSUME NEW i \in 1..n
       PROVE  e[5 + i] = name[i] /\ name[i] \in Nat \ {0}
  <2>1. 5 + i \in 1..5 + n + 1 /\ 5 + i \in 1..5 + n
    OBVIOUS
  <2> QED
    BY <1>4, <1>7, <1>8, <1>9, <2>1
<1>13. ASSUME NEW i \in 6 + n .. SizeOf(al, n)
       PROVE  e[i] = 0
  <2>1. CASE i = 6 + n
    <3>1. i \in 1..5 + n + 1 /\ i = 5 + n + 1 /\ 1 \in 1..1
      BY <2>1
    <3> QED
      BY <1>5, <1>8, <1>9, <3>1
  <2>2. CASE i # 6 + n
    <3>1. i - (5 + n + 1) \in 1..k /\ i = 5 + n + 1 + (i - (5 + n + 1))
      BY <1>1, <2>2
    <3> QED
      BY <1>6, <1>9, <3>1
  <2> QED
    BY <2>1, <2>2
<1> QED
  BY <1>2, <1>10, <1>11, <1>12, <1>13

\* What is on the stack at b: the fields, then a file name of n characters, then
\* NULs up to the next entry.
EntryAt(al, c, b, n) ==
    /\ c[b] \in Nat /\ c[b + 1] \in Nat \ {0} /\ c[b + 2] \in 0..c[b + 1]
    /\ c[b + 3] \in Nat /\ c[b + 4] = 0
    /\ \A a \in b + 5 .. b + 4 + n : c[a] \in Nat \ {0}
    /\ \A a \in b + 5 + n .. b + SizeOf(al, n) - 1 : c[a] = 0

\* The entries B, whose names have the lengths len, lie one behind the other from
\* the beginning of the stack to end.
IsStack(al, B, len, c, end) ==
    /\ end \in 1..StackSize + 1 /\ Even(al, end)
    /\ B \subseteq 1..end - 1 /\ len \in [1..StackSize -> Nat]
    /\ \A b \in B : EntryAt(al, c, b, len[b]) /\ b + SizeOf(al, len[b]) <= end
    /\ \A b \in B, d \in B : b < d => b + SizeOf(al, len[b]) <= d
    /\ \A d \in B \cup {end} : d = 1 \/ \E b \in B : b + SizeOf(al, len[b]) = d

LEMMA EmptyStack ==
    ASSUME NEW al, Aligned(al), NEW c
    PROVE  IsStack(al, {}, [b \in 1..StackSize |-> 0], c, 1)
<1>1. 1 \in 1..StackSize + 1 /\ Even(al, 1)
  BY DEF Aligned, Even
<1> QED
  BY <1>1 DEF IsStack

LEMMA StoredIs ==
    ASSUME NEW c, DOMAIN c = 1..StackSize, StackSize \in Nat, NEW p \in Nat, NEW values,
           NEW n \in Nat, DOMAIN values = 1..n
    PROVE  /\ DOMAIN Stored(c, p, values) = 1..StackSize
           /\ \A a \in 1..StackSize : a < p \/ a >= p + n => Stored(c, p, values)[a] = c[a]
           /\ \A i \in 1..n : p + i - 1 \in 1..StackSize =>
                 Stored(c, p, values)[p + i - 1] = values[i]
<1>1. \A a \in 1..StackSize :
         Stored(c, p, values)[a] = IF a - p + 1 \in 1..n THEN values[a - p + 1] ELSE c[a]
  BY DEF Stored
<1>2. ASSUME NEW i \in 1..n, p + i - 1 \in 1..StackSize
      PROVE  Stored(c, p, values)[p + i - 1] = values[i]
  <2>1. p + i - 1 - p + 1 = i
    OBVIOUS
  <2> QED
    BY <1>1, <1>2, <2>1
<1> QED
  BY <1>1, <1>2 DEF Stored

\* Only the cells of an entry matter for it.
LEMMA EntryStays ==
    ASSUME NEW al, Aligned(al), NEW c, NEW d, NEW b \in Nat, NEW n \in Nat, EntryAt(al, c, b, n),
           \A a \in b .. b + SizeOf(al, n) - 1 : d[a] = c[a]
    PROVE  EntryAt(al, d, b, n)
<1>1. SizeOf(al, n) \in Nat /\ SizeOf(al, n) >= 6 + n
  BY SizeIs
<1>2. {b, b + 1, b + 2, b + 3, b + 4} \subseteq b .. b + SizeOf(al, n) - 1
  BY <1>1
<1>3. \A a \in b + 5 .. b + 4 + n : a \in b .. b + SizeOf(al, n) - 1
  BY <1>1
<1>4. \A a \in b + 5 + n .. b + SizeOf(al, n) - 1 : a \in b .. b + SizeOf(al, n) - 1
  BY <1>1
<1> QED
  BY <1>2, <1>3, <1>4 DEF EntryAt

LEMMA Pushed ==
    ASSUME NEW al, Aligned(al), NEW B, NEW len, NEW c, DOMAIN c = 1..StackSize,
           NEW p, IsStack(al, B, len, c, p),
           NEW name \in Name, ~Overflows(p, name)
    PROVE  LET e == Entry(al, name)
           IN  /\ p \in 1..StackSize /\ Above(p, e) = p + SizeOf(al, Len(name))
               /\ IsStack(al, B \cup {p}, [len EXCEPT ![p] = Len(name)], Stored(c, p, e),
                           Above(p, e))
<1> DEFINE e == Entry(al, name)
           n == Len(name)
           d == Stored(c, p, e)
           q == p + SizeOf(al, n)
           more == [len EXCEPT ![p] = n]
<1>1. n \in Nat /\ p \in Nat \ {0} /\ p \in 1..StackSize + 1
      /\ B \subseteq 1..p - 1 /\ len \in [1..StackSize -> Nat] /\ StackSize \in Nat
  BY DEF Name, IsStack, Aligned
<1>0. Even(al, p)
  BY DEF IsStack
<1>2. /\ DOMAIN e = 1..SizeOf(al, n) /\ Len(e) = SizeOf(al, n)
      /\ e[1] = 0 /\ e[2] = 1 /\ e[3] = 0 /\ e[4] = 0 /\ e[5] = 0
      /\ \A i \in 1..n : e[5 + i] = name[i] /\ name[i] \in Nat \ {0}
      /\ \A i \in 6 + n .. SizeOf(al, n) : e[i] = 0
  BY <1>1, EntryIs
<1>3. /\ SizeOf(al, n) \in Nat /\ SizeOf(al, n) >= 6 + n /\ NameAt = 5 /\ Even(al, q)
      /\ p + 5 + n <= StackSize => q <= StackSize + 1
  BY <1>0, <1>1, SizeIs
<1> HIDE DEF n, e
<1>4. p - 1 + 5 + n < StackSize
  BY <1>1, <1>3 DEF Overflows, n
<1>5. q <= StackSize + 1 /\ p \in 1..StackSize /\ q \in 1..StackSize + 1
  BY <1>1, <1>3, <1>4
<1>6. Above(p, e) = q
  BY <1>2 DEF Above
<1>7. /\ DOMAIN d = 1..StackSize
      /\ \A a \in 1..StackSize : a < p => d[a] = c[a]
      /\ \A i \in 1..SizeOf(al, n) : d[p + i - 1] = e[i]
  <2>1. /\ DOMAIN d = 1..StackSize
        /\ \A a \in 1..StackSize : a < p \/ a >= p + SizeOf(al, n) => d[a] = c[a]
        /\ \A i \in 1..SizeOf(al, n) : p + i - 1 \in 1..StackSize => d[p + i - 1] = e[i]
    BY SMTT(30), <1>1, <1>2, <1>3, StoredIs
  <2>2. \A i \in 1..SizeOf(al, n) : p + i - 1 \in 1..StackSize
    BY <1>1, <1>3, <1>5
  <2> QED
    BY <2>1, <2>2
<1> HIDE DEF d
<1>8. EntryAt(al, d, p, n)
  <2>1. ASSUME NEW i \in 1..5
        PROVE  d[p + i - 1] = e[i]
    <3>1. i \in 1..SizeOf(al, n)
      BY <1>1, <1>3
    <3> QED
      BY <1>7, <3>1
  <2>2. d[p] = 0 /\ d[p + 1] = 1 /\ d[p + 2] = 0 /\ d[p + 3] = 0 /\ d[p + 4] = 0
    <3>1. p + 1 - 1 = p /\ p + 2 - 1 = p + 1 /\ p + 3 - 1 = p + 2 /\ p + 4 - 1 = p + 3
          /\ p + 5 - 1 = p + 4
      BY <1>1
    <3>2. d[p + 1 - 1] = e[1] /\ d[p + 2 - 1] = e[2] /\ d[p + 3 - 1] = e[3]
          /\ d[p + 4 - 1] = e[4] /\ d[p + 5 - 1] = e[5]
      BY <2>1
    <3> QED
      BY <1>2, <3>1, <3>2
  <2>3. ASSUME NEW a \in p + 5 .. p + 4 + n
        PROVE  d[a] \in Nat \ {0}
    <3>1. /\ a - p + 1 \in 1..SizeOf(al, n) /\ a = p + (a - p + 1) - 1
          /\ a - p - 4 \in 1..n /\ a - p + 1 = 5 + (a - p - 4)
      BY <1>1, <1>3
    <3>2. d[a] = e[a - p + 1]
      BY <1>7, <3>1
    <3> QED
      BY <1>2, <3>1, <3>2
  <2>4. ASSUME NEW a \in p + 5 + n .. p + SizeOf(al, n) - 1
        PROVE  d[a] = 0
    <3>1. /\ a - p + 1 \in 1..SizeOf(al, n) /\ a = p + (a - p + 1) - 1
          /\ a - p + 1 \in 6 + n .. SizeOf(al, n)
      BY <1>1, <1>3
    <3>2. d[a] = e[a - p + 1]
      BY <1>7, <3>1
    <3> QED
      BY <1>2, <3>1, <3>2
  <2> QED
    BY <2>2, <2>3, <2>4 DEF EntryAt
<1>9. more \in [1..StackSize -> Nat] /\ more[p] = n /\ \A b \in B : more[b] = len[b]
  BY <1>1, <1>5
<1> HIDE DEF more
<1>10. ASSUME NEW b \in B
       PROVE  EntryAt(al, d, b, len[b]) /\ b + SizeOf(al, len[b]) <= p /\ b < p /\ len[b] \in Nat
              /\ b \in Nat
  <2>1. EntryAt(al, c, b, len[b]) /\ b + SizeOf(al, len[b]) <= p /\ b \in 1..p - 1
    BY <1>1 DEF IsStack
  <2>2. b \in 1..StackSize /\ len[b] \in Nat
    BY <1>1, <1>5, <2>1
  <2>3. SizeOf(al, len[b]) \in Nat /\ SizeOf(al, len[b]) >= 6 + len[b]
    BY <2>2, SizeIs
  <2>4. \A a \in b .. b + SizeOf(al, len[b]) - 1 : d[a] = c[a]
    <3> DEFINE s == SizeOf(al, len[b])
    <3> HIDE DEF s
    <3>1. s \in Nat /\ b + s <= p
      BY <2>1, <2>3 DEF s
    <3>2. \A a \in b .. b + s - 1 : a \in 1..StackSize /\ a < p
      BY <1>1, <1>5, <2>1, <2>2, <3>1
    <3> QED
      BY <1>7, <3>2 DEF s
  <2>5. b \in Nat /\ b < p
    BY <1>1, <2>1
  <2>6. EntryAt(al, d, b, len[b])
    BY <2>1, <2>2, <2>4, <2>5, EntryStays, Zenon
  <2> QED
    BY <2>1, <2>2, <2>5, <2>6
<1>11. \A b \in B \cup {p} : EntryAt(al, d, b, more[b]) /\ b + SizeOf(al, more[b]) <= q
  <2>1. EntryAt(al, d, p, more[p]) /\ p + SizeOf(al, more[p]) <= q
    BY <1>1, <1>3, <1>8, <1>9
  <2>2. ASSUME NEW b \in B
        PROVE  EntryAt(al, d, b, more[b]) /\ b + SizeOf(al, more[b]) <= q
    <3>1. more[b] = len[b] /\ SizeOf(al, len[b]) \in Nat
      BY <1>9, <1>10, SizeIs
    <3> QED
      BY <1>1, <1>3, <1>10, <3>1
  <2> QED
    BY <2>1, <2>2
<1>12. ASSUME NEW b \in B \cup {p}, NEW x \in B \cup {p}, b < x
       PROVE  b + SizeOf(al, more[b]) <= x
  <2>1. CASE b = p
    BY <1>1, <1>10, <1>12, <2>1
  <2>2. CASE b \in B /\ x = p
    BY <1>9, <1>10, <2>2
  <2>3. CASE b \in B /\ x \in B
    BY <1>9, <1>12, <2>3 DEF IsStack
  <2> QED
    BY <2>1, <2>2, <2>3
<1>13. ASSUME NEW x \in (B \cup {p}) \cup {q}
       PROVE  x = 1 \/ \E b \in B \cup {p} : b + SizeOf(al, more[b]) = x
  <2>1. CASE x = q
    BY <1>9, <2>1
  <2>2. CASE x \in B \cup {p}
    BY <1>9, <2>2 DEF IsStack
  <2> QED
    BY <2>1, <2>2
<1>14. B \cup {p} \subseteq 1..q - 1
  BY <1>1, <1>3
<1>15. IsStack(al, B \cup {p}, more, d, q)
  BY <1>3, <1>5, <1>9, <1>11, <1>12, <1>13, <1>14 DEF IsStack
<1> QED
  BY <1>5, <1>6, <1>15 DEF n, d, more, e

\* %include keeps its place in the entry on top.
LEMMA Kept ==
    ASSUME NEW al, Aligned(al), NEW B, NEW len, NEW c, DOMAIN c = 1..StackSize, NEW end,
           IsStack(al, B, len, c, end), NEW top \in B,
           NEW w \in Nat, NEW x \in Nat \ {0}, NEW y \in 0..x, NEW z \in Nat
    PROVE  IsStack(al, B, len, Stored(c, top, <<w, x, y, z>>), end)
<1> DEFINE values == <<w, x, y, z>>
           d == Stored(c, top, values)
<1>1. /\ end \in 1..StackSize + 1 /\ B \subseteq 1..end - 1 /\ len \in [1..StackSize -> Nat]
      /\ StackSize \in Nat /\ top \in 1..StackSize
  BY DEF IsStack, Aligned
<1>2. DOMAIN values = 1..4 /\ values[1] = w /\ values[2] = x /\ values[3] = y /\ values[4] = z
  OBVIOUS
<1> HIDE DEF values
<1>3. /\ DOMAIN d = 1..StackSize
      /\ \A a \in 1..StackSize : a < top \/ a >= top + 4 => d[a] = c[a]
      /\ \A i \in 1..4 : top + i - 1 \in 1..StackSize => d[top + i - 1] = values[i]
  <2>1. /\ DOMAIN d = 1..StackSize
        /\ \A a \in 1..StackSize :
              d[a] = IF a - top + 1 \in 1..4 THEN values[a - top + 1] ELSE c[a]
    BY <1>2 DEF d, Stored
  <2> HIDE DEF d
  <2>2. ASSUME NEW a \in 1..StackSize, a < top \/ a >= top + 4
        PROVE  d[a] = c[a]
    <3>1. a - top + 1 \notin 1..4
      BY <1>1, <2>2
    <3> QED
      BY <2>1, <3>1
  <2>3. ASSUME NEW i \in 1..4, top + i - 1 \in 1..StackSize
        PROVE  d[top + i - 1] = values[i]
    <3> DEFINE a == top + i - 1
    <3>1. a - top + 1 = i /\ a \in 1..StackSize
      BY <1>1, <2>3
    <3> HIDE DEF a
    <3>2. d[a] = values[i]
      BY <2>1, <3>1
    <3> QED
      BY <3>2 DEF a
  <2> QED
    BY <2>1, <2>2, <2>3
<1> HIDE DEF d
<1>4. ASSUME NEW b \in B
      PROVE  EntryAt(al, d, b, len[b])
  <2>1. /\ EntryAt(al, c, b, len[b]) /\ b + SizeOf(al, len[b]) <= end /\ b \in 1..StackSize
        /\ len[b] \in Nat
    BY <1>1 DEF IsStack
  <2>2. SizeOf(al, len[b]) \in Nat /\ SizeOf(al, len[b]) >= 6 + len[b]
    BY <2>1, SizeIs
  <2> DEFINE s == SizeOf(al, len[b])
  <2> HIDE DEF s
  <2>0. /\ s \in Nat /\ s >= 6 + len[b] /\ b + s <= StackSize + 1 /\ s = SizeOf(al, len[b])
    BY <1>1, <2>1, <2>2 DEF s
  <2>3. CASE b < top
    <3>1. b + SizeOf(al, len[b]) <= top
      BY <2>3 DEF IsStack
    <3>2. \A a \in b .. b + s - 1 : d[a] = c[a]
      <4>1. b + s <= top /\ b \in Nat /\ b > 0 /\ top \in Nat
        BY <1>1, <2>1, <2>0, <3>1
      <4>2. \A i \in b .. b + s - 1 : i \in 1..StackSize /\ (i < top \/ i >= top + 4)
        BY <1>1, <2>0, <4>1
      <4> QED
        BY <1>3, <4>2
    <3>3. b \in Nat /\ \A a \in b .. b + SizeOf(al, len[b]) - 1 : d[a] = c[a]
      BY <2>1, <2>0, <3>2
    <3> QED
      BY <2>1, <3>3, EntryStays, Zenon
  <2>4. CASE b > top
    <3>1. top + SizeOf(al, len[top]) <= b
      BY <2>4 DEF IsStack
    <3>2. SizeOf(al, len[top]) \in Nat /\ SizeOf(al, len[top]) >= 6 + len[top] /\ len[top] \in Nat
      <4>1. len[top] \in Nat
        BY <1>1
      <4> QED
        BY <4>1, SizeIs
    <3>3. \A a \in b .. b + s - 1 : d[a] = c[a]
      <4>1. top + 4 <= b /\ b \in Nat /\ b > 0 /\ top \in Nat
        BY <1>1, <2>1, <3>1, <3>2
      <4>2. \A i \in b .. b + s - 1 : i \in 1..StackSize /\ (i < top \/ i >= top + 4)
        BY <1>1, <2>0, <4>1
      <4> QED
        BY <1>3, <4>2
    <3>4. b \in Nat /\ \A a \in b .. b + SizeOf(al, len[b]) - 1 : d[a] = c[a]
      BY <2>1, <2>0, <3>3
    <3> QED
      BY <2>1, <3>4, EntryStays, Zenon
  <2>5. CASE b = top
    <3>1. b + 4 \in 1..StackSize /\ b + 3 \in 1..StackSize /\ b + 2 \in 1..StackSize
          /\ b + 1 \in 1..StackSize
      BY <1>1, <2>1, <2>2
    <3>2. d[b] = w /\ d[b + 1] = x /\ d[b + 2] = y /\ d[b + 3] = z
      <4>1. top + 1 - 1 = b /\ top + 2 - 1 = b + 1 /\ top + 3 - 1 = b + 2 /\ top + 4 - 1 = b + 3
        BY <2>1, <2>5
      <4>2. 1 \in 1..4 /\ 2 \in 1..4 /\ 3 \in 1..4 /\ 4 \in 1..4
        OBVIOUS
      <4> QED
        BY <1>2, <1>3, <2>1, <3>1, <4>1, <4>2
    <3>3. \A a \in b + 4 .. b + s - 1 : d[a] = c[a]
      <4>1. \A a \in b + 4 .. b + s - 1 : a \in 1..StackSize /\ a >= top + 4
        BY <1>1, <2>1, <2>0, <2>5
      <4> QED
        BY <1>3, <4>1
    <3>4. c[b + 4] = 0 /\ d[b + 4] = c[b + 4]
      <4>1. b + 4 \in b + 4 .. b + s - 1
        BY <2>1, <2>0
      <4> QED
        BY <2>1, <3>3, <4>1 DEF EntryAt
    <3>5. ASSUME NEW a \in b + 5 .. b + 4 + len[b]
          PROVE  d[a] \in Nat \ {0}
      <4>1. a \in b + 4 .. b + s - 1
        BY <2>1, <2>0
      <4> QED
        BY <2>1, <3>3, <4>1 DEF EntryAt
    <3>6. ASSUME NEW a \in b + 5 + len[b] .. b + s - 1
          PROVE  d[a] = 0
      <4>1. a \in b + 4 .. b + s - 1
        BY <2>1, <2>0
      <4>2. \A i \in b + 5 + len[b] .. b + s - 1 : c[i] = 0
        BY <2>1, <2>0 DEF EntryAt
      <4> QED
        BY <3>3, <4>1, <4>2
    <3> QED
      BY <2>0, <3>2, <3>4, <3>5, <3>6 DEF EntryAt
  <2> QED
    BY <1>1, <2>1, <2>3, <2>4, <2>5
<1>5. IsStack(al, B, len, d, end)
  BY <1>4 DEF IsStack
<1> QED
  BY <1>5 DEF d, values

\* An entry of B ends where the one at top begins.
EndsAt(al, B, len, b, top) == b \in B /\ b # top /\ b + SizeOf(al, len[b]) = top

\* assembly_pop() finds the entry below: there is one, unless the top is the only
\* one, and its file name, with the NULs behind it, ends where the top begins.
LEMMA Popped ==
    ASSUME NEW al, Aligned(al), NEW B, NEW len, NEW c, DOMAIN c = 1..StackSize, NEW end,
           IsStack(al, B, len, c, end), NEW top \in B, top + SizeOf(al, len[top]) = end, top # 1,
           \A b \in B : b # top => len[b] > 0
    PROVE  /\ IsStack(al, B \ {top}, len, c, top)
           /\ EndsAt(al, B, len, EntryBelow(al, c, top), top)
<1>1. /\ end \in 1..StackSize + 1 /\ B \subseteq 1..end - 1 /\ len \in [1..StackSize -> Nat]
      /\ StackSize \in Nat /\ top \in 1..StackSize
  BY DEF IsStack, Aligned
<1>2. PICK b \in B : b + SizeOf(al, len[b]) = top
  BY DEF IsStack
<1> DEFINE n == len[b]
<1>3. /\ EntryAt(al, c, b, n) /\ b \in 1..StackSize /\ n \in Nat
      /\ SizeOf(al, n) \in Nat /\ SizeOf(al, n) >= 6 + n /\ (al = 1 => SizeOf(al, n) = 6 + n)
  <2>1. EntryAt(al, c, b, n) /\ b \in 1..StackSize /\ n \in Nat
    BY <1>1 DEF IsStack
  <2> QED
    BY <2>1, SizeIs
<1>4. b # top /\ n > 0 /\ b < top
  BY <1>1, <1>2, <1>3
<1>5. IsStack(al, B \ {top}, len, c, top)
  <2>1. top \in 1..StackSize + 1
    BY <1>1
  <2>2. \A x \in B \ {top} : x < top /\ x + SizeOf(al, len[x]) <= top
    <3>1. SUFFICES ASSUME NEW x \in B \ {top}
                   PROVE  x < top /\ x + SizeOf(al, len[x]) <= top
      OBVIOUS
    <3>2. x \in 1..StackSize /\ len[x] \in Nat /\ x + SizeOf(al, len[x]) <= end /\ len[top] \in Nat
      BY <1>1 DEF IsStack
    <3>3. SizeOf(al, len[x]) \in Nat /\ SizeOf(al, len[x]) >= 6 + len[x]
          /\ SizeOf(al, len[top]) \in Nat /\ SizeOf(al, len[top]) >= 6 + len[top]
      BY <3>2, SizeIs
    <3>4. ~(top < x)
      <4>1. top < x => top + SizeOf(al, len[top]) <= x
        BY DEF IsStack
      <4> QED
        BY <1>1, <3>2, <3>3, <4>1
    <3>5. x < top
      BY <1>1, <3>2, <3>4
    <3> QED
      BY <3>5 DEF IsStack
  <2>3. Even(al, top)
    <3>1. Even(al, top + SizeOf(al, len[top]))
      BY DEF IsStack
    <3>2. len[top] \in Nat /\ top \in Nat \ {0}
      BY <1>1
    <3> QED
      BY <3>1, <3>2, SizeIs
  <2>4. ASSUME NEW x \in (B \ {top}) \cup {top}
        PROVE  x = 1 \/ \E y \in B \ {top} : y + SizeOf(al, len[y]) = x
    <3>1. CASE x = top
      BY <1>2, <1>4, <3>1
    <3>2. CASE x \in B \ {top}
      <4>1. x = 1 \/ \E y \in B : y + SizeOf(al, len[y]) = x
        BY <3>2 DEF IsStack
      <4>2. top + SizeOf(al, len[top]) # x
        BY <1>1, <2>2, <3>2
      <4> QED
        BY <4>1, <4>2
    <3> QED
      BY <3>1, <3>2
  <2>5. B \ {top} \subseteq 1..top - 1
    BY <1>1, <2>2
  <2> QED
    BY <1>1, <2>1, <2>2, <2>3, <2>4, <2>5 DEF IsStack
<1>6. /\ c[b + 4] = 0
      /\ \A a \in b + 5 .. b + 4 + n : c[a] # 0
      /\ \A a \in b + 5 + n .. top - 1 : c[a] = 0
  BY SMTT(30), <1>2, <1>3 DEF EntryAt
<1> DEFINE s == SizeOf(al, n)
<1> HIDE DEF n, s
<1>9. n \in Nat /\ b + 6 + n <= top /\ (al = 1 => b + 6 + n = top)
  <2>1. /\ b + s = top /\ b \in 1..StackSize /\ n \in Nat /\ s \in Nat /\ s >= 6 + n
        /\ (al = 1 => s = 6 + n)
    BY <1>2, <1>3 DEF s, n
  <2> QED
    BY <2>1
<1>7. NameEndBelow(al, c, top) = b + 4 + n
  <2>1. CASE al = 1
    BY <1>1, <1>3, <1>9, <2>1 DEF NameEndBelow
  <2>2. CASE al # 1
    <3> DEFINE S == {a \in 1..top - 1 : c[a] # 0}
    <3>1. S \subseteq Int /\ b + 4 + n \in S
      <4>1. b + 4 + n \in 1..top - 1 /\ b + 4 + n \in b + 5 .. b + 4 + n
        <5>1. b \in Nat /\ n \in Nat /\ n > 0 /\ top \in Nat /\ b >= 1 /\ b + 6 + n <= top
          BY <1>1, <1>3, <1>4, <1>9 DEF n
        <5> QED
          BY <5>1
      <4> QED
        BY <1>6, <4>1
    <3>2. \A a \in S : a <= b + 4 + n
      BY <1>1, <1>3, <1>6, <1>9
    <3>3. Max(S) = b + 4 + n
      <4> HIDE DEF S
      <4> QED
        BY <3>1, <3>2, LargestIs
    <3> QED
      BY <2>2, <3>3 DEF NameEndBelow
  <2> QED
    BY <2>1, <2>2
<1>8. EntryBelow(al, c, top) = b
  <2> DEFINE S == {a \in 1..b + 4 + n : c[a] = 0}
  <2>1. S \subseteq Int /\ b + 4 \in S
    BY <1>3, <1>6, <1>9
  <2>2. \A a \in S : a <= b + 4
    BY <1>3, <1>6, <1>9
  <2>3. Max(S) = b + 4
    <3> HIDE DEF S
    <3> QED
      BY <2>1, <2>2, LargestIs
  <2>4. NameAt = 5
    BY SizeIs
  <2>5. EntryBelow(al, c, top) = Max(S) - (NameAt - 1)
    BY <1>7 DEF EntryBelow
  <2> HIDE DEF S
  <2> QED
    BY <1>3, <2>3, <2>4, <2>5
<1> QED
  BY <1>2, <1>4, <1>5, <1>8 DEF EndsAt

\* The file name of the entry on top is not empty if it can be opened.
LEMMA NameIsThere ==
    ASSUME NEW al, Aligned(al), NEW c, DOMAIN c = 1..StackSize, NEW b \in 1..StackSize,
           EntryAt(al, c, b, 0),
           b + SizeOf(al, 0) <= StackSize + 1
    PROVE  NameIn(c, b) = <<>>
<1>1. SizeOf(al, 0) \in Nat /\ SizeOf(al, 0) >= 6 /\ NameAt = 5
  BY SizeIs
<1>2. c[b + 5] = 0 /\ b + 5 \in 1..StackSize
  BY <1>1 DEF EntryAt, Aligned
<1> DEFINE S == {a \in DOMAIN c : a >= b + 5 /\ c[a] = 0}
<1>3. Min(S) = b + 5
  <2>1. S \subseteq Int /\ b + 5 \in S /\ \A a \in S : b + 5 <= a
    BY <1>2
  <2> HIDE DEF S
  <2> QED
    BY <2>1, SmallestIs
<1>4. NameIn(c, b) = SubSeq(c, b + 5, Min(S) - 1)
  BY <1>1 DEF NameIn
<1> HIDE DEF S
<1>5. SubSeq(c, b + 5, b + 4) = <<>>
  BY <1>2, SubSeqEmpty
<1> QED
  BY <1>3, <1>4, <1>5

-----------------------------------------------------------------------------
(* What the actions do with the buffers.                                      *)

LEMMA CodeIsSeq ==
    ASSUME NEW n \in Nat
    PROVE  IsSeq(Code(n))
<1> DEFINE M == {<<"code", input_fd, Here, global_label, k>> : k \in 1..n}
<1>1. Code(n) \in Seq(M)
  BY DEF Code
<1> QED
  BY <1>1 DEF IsSeq

\* Buffers that fit, and no message begun.
Ready(r) == Fits(r) /\ Quiet(r)

LEMMA ReportFits ==
    ASSUME NEW r, Ready(r), NEW number, NEW what, Report(r, number, what)
    PROVE  Fits(io')
<1>1. Held(r) /\ ~r.data /\ io' = Message(r, At(number), what)
  BY DEF Report, Ready, Fits, Quiet
<1>2. Holds(r, Message(r, At(number), what))
  BY <1>1, MessageHolds
<1> QED
  BY <1>1, <1>2, HoldsFits DEF Ready

LEMMA PairFits ==
    ASSUME NEW a, NEW b
    PROVE  IsSeq(<<a, b>>) /\ Len(<<a, b>>) <= MessageSize
<1>1. <<a, b>> \in Seq({a, b}) /\ Len(<<a, b>>) = 2
  OBVIOUS
<1>2. IsSeq(<<a, b>>)
  BY <1>1 DEF IsSeq
<1> QED
  BY <1>1, <1>2, BuffersAssumption

LEMMA EmittedFits ==
    ASSUME NEW r, Ready(r), NEW n \in Nat
    PROVE  Fits(Emitted(r, n))
<1>1. IsSeq(Code(n)) /\ Fits(r) /\ ~r.data
  BY CodeIsSeq DEF Ready, Quiet
<1>2. Fits(EmitWrite(r, Code(n)))
  BY <1>1, EmitFits
<1> QED
  BY <1>1, <1>2 DEF Emitted

LEMMA RowFits ==
    ASSUME NEW r, Fits(r), NEW text
    PROVE  Fits(Row(r, text))
<1> DEFINE units == <<<<"row", ThisNumber>>, text>>
<1>1. IsSeq(units) /\ Len(units) <= MessageSize
  BY PairFits
<1> HIDE DEF units
<1>2. Fits(BBPrintf(r, units))
  <2>1. Holds(r, BBPrintf(r, units))
    BY <1>1, PrintHolds DEF Fits
  <2> QED
    BY <2>1, HoldsFits
<1> QED
  BY <1>2, RowIs DEF units

LEMMA RowOfLineFits ==
    ASSUME NEW r, Fits(r)
    PROVE  Fits(RowOfLine(r))
  BY RowFits DEF RowOfLine

LEMMA FlushFits ==
    ASSUME NEW r, Fits(r)
    PROVE  Fits(MessageFlush(r))
<1>1. Holds(r, MessageFlush(r))
  BY FlushHolds DEF Fits
<1> QED
  BY <1>1, HoldsFits

LEMMA EmitFileFits ==
    ASSUME NEW r, Ready(r), r.listing_fd # "closed", NEW data, IsSeq(data)
    PROVE  Fits(EmitFile(r, data))
<1> DEFINE f == MessageFlush(r)
<1>1. Fits(f) /\ Quiet(f) /\ f.message = <<>>
  BY FlushFits, FlushIsSilent DEF Ready, Silent, Keeps
<1>2. EmitFile(r, data) = EmitWrite(f, data)
  BY <1>1, EmitFileIs, Zenon DEF Quiet
<1> HIDE DEF f
<1> QED
  BY <1>1, <1>2, EmitFits DEF Quiet

LEMMA TrailerFits ==
    ASSUME NEW r, Held(r)
    PROVE  LET t == Trailer(r)
           IN  Holds(r, t)
<1>1. CASE r.listing_fd = "none"
  <2>1. Trailer(r) = r
    BY <1>1 DEF Trailer
  <2> QED
    BY <2>1 DEF Holds
<1>2. CASE r.listing_fd # "none"
  <2> DEFINE units == <<<<"totals">>, <<"labels">>>>
             b == BBPrintf(r, units)
             f == MessageFlush(b)
  <2>1. Trailer(r) = [f EXCEPT !.listing_fd = "closed"]
    BY <1>2, Zenon DEF Trailer, CloseListing
  <2>2. IsSeq(units) /\ Len(units) <= MessageSize
    BY PairFits
  <2> HIDE DEF units
  <2>3. Holds(r, b)
    BY <2>2, PrintHolds
  <2> HIDE DEF b
  <2>4. Holds(b, f)
    BY <2>3, FlushHolds DEF Holds
  <2> HIDE DEF f
  <2>5. Holds(f, [f EXCEPT !.listing_fd = "closed"])
    BY <2>4, HeldChanges DEF Holds
  <2> QED
    BY <2>1, <2>3, <2>4, <2>5, HoldsIsTransitive
<1> QED
  BY <1>1, <1>2

LEMMA CreateFits ==
    ASSUME NEW r, Fits(r)
    PROVE  Fits(CreateListing(r)) /\ Fits(CreateOutput(r)) /\ Fits([r EXCEPT !.listing_fd = "none"])
<1>1. Held(r)
  BY DEF Fits
<1>2. Fits(CreateOutput(r)) /\ Fits([r EXCEPT !.listing_fd = "none"])
  <2>1. Holds(r, [r EXCEPT !.output = <<>>]) /\ Holds(r, [r EXCEPT !.listing_fd = "none"])
    BY <1>1, HeldChanges
  <2> QED
    BY <2>1, HoldsFits DEF CreateOutput
<1>3. Fits(CreateListing(r))
  <2> DEFINE a == [r EXCEPT !.listing = <<>>]
             b == [a EXCEPT !.listing_fd = "open"]
  <2>1. CreateListing(r) = b
    BY DEF CreateListing
  <2>2. Holds(r, a)
    BY <1>1, HeldChanges
  <2> HIDE DEF a
  <2>3. Holds(a, b)
    BY <2>2, HeldChanges DEF Holds
  <2> HIDE DEF b
  <2> QED
    BY <2>1, <2>2, <2>3, HoldsFits
<1> QED
  BY <1>2, <1>3

-----------------------------------------------------------------------------
(* The invariant: what the session was given, the file and the place in it,   *)
(* and the entries of the include stack.                                      *)

Settings ==
    /\ alignment \in Alignments /\ argv \in Seq(Argument)
    /\ DOMAIN files \subseteq Name \ {<<>>}
    /\ \A name \in DOMAIN files : files[name] \in Seq(Line)

InputKnown ==
    /\ "input" \in DOMAIN options
    /\ options.input \in {None} \cup [word : Name \ {<<>>}]
    /\ phase \notin {"arguments", "done"} => options.input # None
    /\ input_filename \in Name

Numbers ==
    /\ assembler_pass \in {0} \cup 2..MaxPass
    /\ phase = "create" => assembler_pass < MaxPass
    /\ level \in Nat \ {0} /\ avoid_level \in 0..level
    /\ line_number \in Nat /\ next \in Nat

\* Entries stand one behind the other, and between %include and open() aip is the
\* last of them.  All but the last have a file name: their files have been opened.
StackInv ==
    /\ DOMAIN cells = 1..StackSize
    /\ aip \in 1..StackSize /\ assembly_p \in 1..StackSize + 1
    /\ phase \in {"push", "open", "lines"} =>
         \E B, len :
            /\ IsStack(alignment, B, len, cells, assembly_p)
            /\ phase = "push" => \A b \in B : len[b] > 0
            /\ phase # "push" =>
                  /\ aip \in B /\ aip + SizeOf(alignment, len[aip]) = assembly_p
                  /\ \A b \in B : b # aip \/ phase = "lines" => len[b] > 0

FileKnown == phase = "lines" => input_fd \in DOMAIN files

PlaceInv == InputKnown /\ Numbers /\ StackInv /\ FileKnown

LEMMA AlignedIs ==
    ASSUME Settings
    PROVE  Aligned(alignment)
  BY StackAssumption DEF Settings, Aligned

LEMMA TextIsLine ==
    ASSUME Settings, FileKnown, Numbers, phase = "lines", ~AtEnd
    PROVE  Text \in Line
<1>1. files[input_fd] \in Seq(Line)
  BY DEF Settings, FileKnown
<1>2. Here \in Nat \ {0} /\ ~(Here > Len(files[input_fd]))
  BY DEF Numbers, Here, AtEnd
<1>3. Len(files[input_fd]) \in Nat
  BY <1>1
<1>4. Here \in 1..Len(files[input_fd])
  BY <1>2, <1>3
<1>5. files[input_fd][Here] \in Line
  <2> DEFINE h == Here
  <2> HIDE DEF h
  <2>1. h \in 1..Len(files[input_fd])
    BY <1>4 DEF h
  <2>2. files[input_fd][h] \in Line
    BY <1>1, <2>1
  <2> QED
    BY <2>2 DEF h
<1> QED
  BY <1>5 DEF Text

LEMMA CodeHasLength ==
    ASSUME NEW line \in Line, line.op \in {"code", "incbin"}
    PROVE  line.n \in Nat
  BY DEF Line

LEMMA IncludeHasName ==
    ASSUME NEW line \in Line, line.op = "include"
    PROVE  line.file \in Name
  BY DEF Line

LEMMA SettingsStay ==
    ASSUME [Next]_vars
    PROVE  UNCHANGED sessionVars
<1>1. CASE UNCHANGED vars
  BY <1>1 DEF vars
<1>2. CASE Arguments
  <2>1. ASSUME NEW n, NEW changed, Accept(n, changed)
        PROVE  UNCHANGED sessionVars
    BY <2>1, Zenon DEF Accept, unchangedByArgument
  <2>2. ASSUME NEW what, Reject(what)
        PROVE  UNCHANGED sessionVars
    BY <2>2, Zenon DEF Reject, unchangedByArgument
  <2>3. CASE InputArgument
    BY <2>1, <2>2, <2>3, Zenon DEF InputArgument
  <2>4. CASE PlainFlag
    BY <2>1, <2>2, <2>4, Zenon DEF PlainFlag
  <2>5. CASE FlagWithValue
    BY <2>1, <2>2, <2>5, Zenon DEF FlagWithValue
  <2>6. CASE NoInput
    BY <2>2, <2>6, Zenon DEF NoInput
  <2> QED
    BY <1>2, <2>3, <2>4, <2>5, <2>6 DEF Arguments
<1>3. CASE Push \/ Open \/ Unmatched \/ EndOfFile \/ IncludeLine
  BY <1>3, Zenon DEF Push, Open, Unmatched, EndOfFile, IncludeLine, unchangedInFile
<1>4. CASE CodeLine \/ WrongLine \/ GlobalLine \/ IncbinLine \/ SkipLine \/ EmptyLine
  BY <1>4, Zenon DEF CodeLine, WrongLine, GlobalLine, IncbinLine, SkipLine, EmptyLine,
                     unchangedByCode, unchangedByLine, unchangedInFile
<1>5. CASE If \/ Else \/ Endif
  BY <1>5, Zenon DEF If, Else, Endif, unchangedByLine, unchangedInFile
<1>6. CASE MainPasses \/ CreateFails \/ DiskFull
  BY <1>6, Zenon DEF MainPasses, StartPass0, EndPass0, StartPass, EndPass, CreateFails, DiskFull,
                     unchangedByMain
<1>7. CASE Done
  BY <1>7 DEF Done, vars
<1> QED
  BY <1>1, <1>2, <1>3, <1>4, <1>5, <1>6, <1>7 DEF Next, Assemble

LEMMA SettingsStep ==
    ASSUME Settings, UNCHANGED sessionVars
    PROVE  Settings'
  BY DEF Settings, sessionVars

-----------------------------------------------------------------------------
(* Each action keeps the buffers in their sizes.                              *)

LEMMA FitsKept ==
    ASSUME TellInv, Settings, Numbers, FileKnown, Fits(io), Next
    PROVE  Fits(io')
<1>1. Ready(io)
  BY DEF Ready, TellInv
<1>2. CASE Arguments
  <2>1. ASSUME NEW n, NEW changed, Accept(n, changed)
        PROVE  Fits(io')
    BY <2>1 DEF Accept, Silently
  <2>2. ASSUME NEW what, Reject(what)
        PROVE  Fits(io')
    BY <1>1, <2>2, ReportFits DEF Reject
  <2>3. CASE InputArgument
    BY <2>1, <2>2, <2>3, Zenon DEF InputArgument
  <2>4. CASE PlainFlag
    BY <2>1, <2>2, <2>4, Zenon DEF PlainFlag
  <2>5. CASE FlagWithValue
    BY <2>1, <2>2, <2>5, Zenon DEF FlagWithValue
  <2>6. CASE NoInput
    BY <2>2, <2>6, Zenon DEF NoInput
  <2> QED
    BY <1>2, <2>3, <2>4, <2>5, <2>6 DEF Arguments
<1>3. CASE Push \/ Open \/ Unmatched \/ EndOfFile
  <2>1. ASSUME Silently
        PROVE  Fits(io')
    BY <2>1 DEF Silently
  <2>2. ASSUME NEW number, NEW what, Report(io, number, what)
        PROVE  Fits(io')
    BY <1>1, <2>2, ReportFits
  <2> QED
    BY <1>3, <2>1, <2>2, Zenon DEF Push, Open, Unmatched, EndOfFile
<1>4. CASE GlobalLine \/ SkipLine \/ If \/ Else \/ Endif \/ IncludeLine
  <2>1. io' = RowOfLine(io)
    BY <1>4, Zenon DEF GlobalLine, SkipLine, If, Else, Endif, IncludeLine
  <2> QED
    BY <2>1, RowOfLineFits
<1>5. CASE EmptyLine
  <2>1. io' = Row(io, <<"empty">>)
    BY <1>5, Zenon DEF EmptyLine
  <2> QED
    BY <2>1, RowFits
<1>6. CASE CodeLine
  <2>1. io' = RowOfLine(Emitted(io, Text.n)) /\ AtLine("code")
    BY <1>6, Zenon DEF CodeLine, OnLine
  <2>2. Text.n \in Nat
    BY <2>1, TextIsLine, CodeHasLength DEF AtLine
  <2>3. Fits(Emitted(io, Text.n))
    BY <1>1, <2>2, EmittedFits
  <2> QED
    BY <2>1, <2>3, RowOfLineFits
<1>7. CASE IncbinLine
  <2> DEFINE l == RowOfLine(io)
             last == IF assembler_pass > 1 THEN EmitFile(l, Code(Text.n)) ELSE MessageFlush(l)
  <2>1. io' = last
    BY <1>7, IncbinIs, Zenon
  <2>2. AtLine("incbin")
    BY <1>7, Zenon DEF IncbinLine, OnLine
  <2>3. IsSeq(Code(Text.n))
    <3>1. Text.n \in Nat
      BY <2>2, TextIsLine, CodeHasLength DEF AtLine
    <3> QED
      BY <3>1, CodeIsSeq
  <2>4. Ready(l) /\ l.listing_fd # "closed"
    <3>1. io.listing_fd # "closed"
      BY <2>2 DEF AtLine, TellInv, Reads
    <3>2. Silent(io, l)
      BY <1>1, <3>1, RowIsSilent DEF RowOfLine, Ready
    <3>3. Quiet(l) /\ l.listing_fd # "closed"
      BY <3>1, <3>2, OpenStays DEF Silent
    <3> QED
      BY <3>3, RowOfLineFits DEF Ready
  <2> HIDE DEF l
  <2>5. Fits(last)
    BY <2>3, <2>4, EmitFileFits, FlushFits DEF Ready
  <2> QED
    BY <2>1, <2>5
<1>8. CASE WrongLine
  <2> DEFINE wrong == Text.op = "bad" \/ assembler_pass > 1
             told == IF wrong THEN Message(io, At(ThisNumber), Text.op) ELSE io
             done == IF Text.op = "bad" THEN told ELSE Emitted(told, 1)
  <2>1. io' = RowOfLine(done)
    BY <1>8, WrongIs, Zenon
  <2>2. io.listing_fd # "closed"
    BY <1>8 DEF WrongLine, OnLine, AtLine, TellInv, Reads
  <2>3. Ready(told)
    <3>1. Told(io, Message(io, At(ThisNumber), Text.op))
      BY <1>1, <2>2, MessageIsTold DEF Ready
    <3>2. Holds(io, Message(io, At(ThisNumber), Text.op))
      BY <1>1, MessageHolds DEF Ready, Fits, Quiet
    <3>3. Ready(Message(io, At(ThisNumber), Text.op))
      BY <3>1, <3>2, HoldsFits DEF Ready, Told, Keeps
    <3> QED
      BY <1>1, <3>3
  <2> HIDE DEF told
  <2>4. Fits(done)
    <3>1. 1 \in Nat
      OBVIOUS
    <3>2. Fits(Emitted(told, 1))
      BY <2>3, <3>1, EmittedFits
    <3> QED
      BY <2>3, <3>2 DEF Ready
  <2> HIDE DEF done
  <2> QED
    BY <2>1, <2>4, RowOfLineFits
<1>9. CASE StartPass0
  BY <1>9 DEF StartPass0
<1>10. CASE EndPass0
  <2> DEFINE f == MessageFlush(io)
             x == IF options.output = None THEN f.output ELSE Absent
             removed == [f EXCEPT !.output = x]
  <2>1. \/ io' = removed
        \/ Report(io, line_number, "no_output")
        \/ io' = io
    BY <1>10, Zenon DEF EndPass0
  <2>2. Fits(removed)
    <3>1. Fits(f)
      BY FlushFits
    <3> HIDE DEF f, x
    <3>2. Holds(f, removed)
      BY <3>1, HeldChanges DEF Fits
    <3> QED
      BY <3>1, <3>2, HoldsFits
  <2> HIDE DEF removed
  <2> QED
    BY <1>1, <2>1, <2>2, ReportFits
<1>11. CASE StartPass \/ CreateFails
  <2> DEFINE l == IF options.listing = None THEN io ELSE CreateListing(io)
             n == [io EXCEPT !.listing_fd = "none"]
  <2>1. \/ io' = CreateOutput(l)
        \/ Report(n, line_number, "could_not_open_listing")
        \/ Report(l, line_number, "could_not_open_output")
    BY <1>11, Zenon DEF StartPass, CreateFails
  <2>2. Ready(l)
    BY <1>1, CreateFits, CreateIs DEF Ready
  <2>3. Ready(n)
    BY <1>1, CreateFits, CreateIs DEF Ready
  <2> HIDE DEF l, n
  <2>4. Fits(CreateOutput(l))
    BY <2>2, CreateFits DEF Ready
  <2> QED
    BY <2>1, <2>2, <2>3, <2>4, ReportFits
<1>12. CASE EndPass
  <2>1. PICK again \in BOOLEAN :
           LET failing == again /\ options.opt_level <= 1
               wrong == errors \/ failing
               e == EmitFlush(io)
               t == IF failing THEN Message(e, At(line_number), "labels_changed") ELSE e
               listed == Trailer(t)
           IN  /\ again => assembler_pass < MaxPass
               /\ errors' = wrong
               /\ IF listed.failed THEN io' = listed /\ Exit("3")
                  ELSE IF wrong THEN io' = [listed EXCEPT !.output = Absent] /\ Exit("1")
                  ELSE /\ io' = listed
                       /\ IF again THEN phase' = "create" /\ UNCHANGED exit ELSE Exit("0")
    BY <1>12, EndPassIs, Zenon
  <2> DEFINE failing == again /\ options.opt_level <= 1
             e == EmitFlush(io)
             t == IF failing THEN Message(e, At(line_number), "labels_changed") ELSE e
             listed == Trailer(t)
  <2>2. io' = listed \/ io' = [listed EXCEPT !.output = Absent]
    BY <2>1, Zenon
  <2>3. Fits(e) /\ Quiet(e)
    <3>1. Held(e) /\ (e.failed \/ e.emit = <<>>)
      BY <1>1, EmitFlushHolds DEF Ready, Fits, Quiet
    <3>2. Quiet(e)
      <4>1. io.listing_fd # "closed"
        BY <1>12 DEF EndPass, TellInv, Reads
      <4>2. Silent(io, e)
        BY <1>1, <4>1, EmitFlushIsSilent DEF Ready
      <4> QED
        BY <4>2 DEF Silent, Keeps
    <3> QED
      BY <3>1, <3>2, BuffersAssumption, EmptyIsSeq DEF Fits
  <2> HIDE DEF e, failing
  <2>4. Fits(t)
    <3>1. Holds(e, Message(e, At(line_number), "labels_changed"))
      BY <2>3, MessageHolds DEF Fits, Quiet
    <3> QED
      BY <2>3, <3>1, HoldsFits
  <2> HIDE DEF t
  <2>5. Fits(listed)
    <3>1. Holds(t, listed)
      BY <2>4, TrailerFits DEF Fits
    <3> QED
      BY <2>4, <3>1, HoldsFits
  <2> HIDE DEF listed
  <2>6. Fits([listed EXCEPT !.output = Absent])
    <3>1. Holds(listed, [listed EXCEPT !.output = Absent])
      BY <2>5, HeldChanges DEF Fits
    <3> QED
      BY <2>5, <3>1, HoldsFits
  <2> QED
    BY <2>2, <2>5, <2>6
<1>13. CASE DiskFull
  <2>1. PICK file : io' = [io EXCEPT !.full = @ \cup {file}]
    BY <1>13, Zenon DEF DiskFull
  <2>2. Holds(io, io')
    BY <2>1, HeldChanges DEF Fits
  <2> QED
    BY <2>2, HoldsFits
<1>14. CASE Done
  BY <1>14 DEF Done, vars
<1> QED
  BY <1>2, <1>3, <1>4, <1>5, <1>6, <1>7, <1>8, <1>9, <1>10, <1>11, <1>12, <1>13, <1>14
     DEF Next, Assemble, MainPasses

-----------------------------------------------------------------------------
(* Each action keeps the place in the files, and the stack.                   *)

LEMMA ArgumentTyped ==
    ASSUME Settings, phase = "arguments", argument \in Nat \ {0}, argument <= Len(argv)
    PROVE  ThisArgument \in Argument
  BY DEF Settings, ThisArgument

\* Phases without a stack.
LEMMA NoStack ==
    ASSUME PlaceInv, UNCHANGED stackVars, phase' \notin {"push", "open", "lines"}
    PROVE  StackInv' /\ FileKnown'
  BY DEF PlaceInv, StackInv, FileKnown, stackVars

LEMMA GoOnIs ==
    ASSUME NEW p, GoOn(p)
    PROVE  phase' \in {p, "done"}
  BY DEF GoOn, Exit

\* An ordinary line: the stack is left alone.
LEMMA LineKeepsPlace ==
    ASSUME PlaceInv, phase = "lines", phase' \in {"lines", "done"},
           UNCHANGED <<alignment, files, options, assembler_pass, stackVars, input_filename,
                       input_fd>>,
           level' \in Nat \ {0}, avoid_level' \in 0..level', line_number' \in Nat, next' \in Nat
    PROVE  PlaceInv'
<1>1. InputKnown' /\ Numbers' /\ FileKnown'
  BY DEF PlaceInv, InputKnown, Numbers, FileKnown
<1>2. StackInv'
  <2>1. CASE phase' = "done"
    BY <2>1, NoStack DEF stackVars
  <2>2. CASE phase' = "lines"
    <3>1. UNCHANGED <<phase, alignment, cells, assembly_p, aip>>
      BY <2>2 DEF stackVars
    <3> QED
      BY <3>1 DEF PlaceInv, StackInv
  <2> QED
    BY <2>1, <2>2
<1> QED
  BY <1>1, <1>2 DEF PlaceInv

LEMMA AfterLineIs ==
    ASSUME Numbers, AfterLine
    PROVE  next' \in Nat /\ line_number' \in Nat /\ phase' \in {"lines", "done"}
  BY GoOnIs DEF Numbers, AfterLine, ThisNumber

LEMMA LinesKeepPlace ==
    ASSUME PlaceInv,
           CodeLine \/ WrongLine \/ GlobalLine \/ IncbinLine \/ SkipLine \/ EmptyLine \/ If \/ Else
              \/ Endif
    PROVE  PlaceInv'
<1>1. Numbers /\ level \in Nat \ {0} /\ avoid_level \in 0..level /\ next \in Nat
      /\ line_number \in Nat
  BY DEF PlaceInv, Numbers
<1>2. CASE CodeLine \/ WrongLine \/ GlobalLine \/ IncbinLine \/ SkipLine
  <2>1. /\ phase = "lines" /\ AfterLine
        /\ UNCHANGED <<alignment, files, options, assembler_pass, stackVars, input_filename,
                       input_fd, level, avoid_level>>
    BY <1>2, Zenon DEF CodeLine, WrongLine, GlobalLine, IncbinLine, SkipLine, OnLine, AtLine,
                       unchangedByCode, unchangedByLine, unchangedInFile, sessionVars
  <2>2. next' \in Nat /\ line_number' \in Nat /\ phase' \in {"lines", "done"}
    BY <1>1, <2>1, AfterLineIs
  <2>3. level' \in Nat \ {0} /\ avoid_level' \in 0..level'
    BY <1>1, <2>1
  <2> QED
    BY <2>1, <2>2, <2>3, LineKeepsPlace
<1>3. CASE EmptyLine
  <2>1. /\ phase = "lines" /\ next' = next + 1 /\ line_number' = ThisNumber /\ GoOn("lines")
        /\ UNCHANGED <<alignment, files, options, assembler_pass, stackVars, input_filename,
                       input_fd, level, avoid_level>>
    BY <1>3, Zenon DEF EmptyLine, unchangedByCode, unchangedByLine, unchangedInFile, sessionVars
  <2>2. /\ next' \in Nat /\ line_number' \in Nat /\ phase' \in {"lines", "done"}
        /\ level' \in Nat \ {0} /\ avoid_level' \in 0..level'
    BY <1>1, <2>1, GoOnIs DEF ThisNumber
  <2> QED
    BY <2>1, <2>2, LineKeepsPlace
<1>4. CASE If \/ Else \/ Endif
  <2>1. /\ phase = "lines" /\ AfterLine
        /\ UNCHANGED <<alignment, files, options, assembler_pass, stackVars, input_filename,
                       input_fd>>
    BY <1>4, Zenon DEF If, Else, Endif, AtLine, unchangedByLine, unchangedInFile, sessionVars
  <2>2. next' \in Nat /\ line_number' \in Nat /\ phase' \in {"lines", "done"}
    BY <1>1, <2>1, AfterLineIs
  <2>3. level' \in Nat \ {0} /\ avoid_level' \in 0..level'
    <3>1. CASE If
      BY <1>1, <3>1 DEF If
    <3>2. CASE Else
      <4>1. level' = level /\ avoid_level' \in {0, level, avoid_level}
        BY <3>2 DEF Else
      <4> QED
        BY <1>1, <4>1
    <3>3. CASE Endif
      <4>1. level > 1 /\ level' = level - 1
            /\ avoid_level' = IF avoid_level = level THEN 0 ELSE avoid_level
        BY <3>3 DEF Endif
      <4> QED
        BY <1>1, <4>1
    <3> QED
      BY <1>4, <3>1, <3>2, <3>3
  <2> QED
    BY <2>1, <2>2, <2>3, LineKeepsPlace
<1> QED
  BY <1>2, <1>3, <1>4

LEMMA PushKeepsPlace ==
    ASSUME Settings, PlaceInv, Push
    PROVE  PlaceInv'
<1>1. /\ phase = "push" /\ line_number' = 0
      /\ UNCHANGED <<alignment, files, options, assembler_pass, input_filename, input_fd, next,
                     level, avoid_level>>
  BY Zenon DEF Push, unchangedInFile, sessionVars
<1>2. \/ Overflows(assembly_p, input_filename) /\ GoOn("assembled") /\ UNCHANGED stackVars
      \/ /\ ~Overflows(assembly_p, input_filename)
         /\ cells' = Stored(cells, assembly_p, Entry(alignment, input_filename))
         /\ assembly_p' = Above(assembly_p, Entry(alignment, input_filename))
         /\ aip' = assembly_p /\ GoOn("open")
  BY Zenon DEF Push
<1>3. phase' \in {"assembled", "open", "done"}
  BY <1>2, GoOnIs
<1>4. InputKnown' /\ Numbers' /\ FileKnown'
  <2>1. InputKnown'
    BY <1>1, <1>3 DEF PlaceInv, InputKnown
  <2>2. Numbers'
    BY <1>1, <1>3 DEF PlaceInv, Numbers
  <2>3. FileKnown'
    BY <1>3 DEF FileKnown
  <2> QED
    BY <2>1, <2>2, <2>3
<1>5. CASE GoOn("assembled") /\ UNCHANGED stackVars
  <2>1. phase' \notin {"push", "open", "lines"}
    BY <1>5, GoOnIs
  <2> QED
    BY <1>4, <1>5, <2>1, NoStack DEF PlaceInv
<1>6. CASE /\ ~Overflows(assembly_p, input_filename)
           /\ cells' = Stored(cells, assembly_p, Entry(alignment, input_filename))
           /\ assembly_p' = Above(assembly_p, Entry(alignment, input_filename))
           /\ aip' = assembly_p /\ GoOn("open")
  <2> DEFINE n == Len(input_filename)
  <2>1. PICK B, len :
           /\ IsStack(alignment, B, len, cells, assembly_p)
           /\ \A b \in B : len[b] > 0
    BY <1>1 DEF PlaceInv, StackInv
  <2>2. Aligned(alignment) /\ DOMAIN cells = 1..StackSize /\ input_filename \in Name
    BY AlignedIs DEF PlaceInv, StackInv, InputKnown
  <2> DEFINE more == [len EXCEPT ![assembly_p] = n]
  <2>3. /\ assembly_p \in 1..StackSize
        /\ assembly_p' = assembly_p + SizeOf(alignment, n)
        /\ IsStack(alignment, B \cup {assembly_p}, more, cells', assembly_p')
    BY <1>6, <2>1, <2>2, Pushed, Zenon
  <2>4. more[assembly_p] = n /\ \A b \in B : b # assembly_p => more[b] = len[b]
    <3>1. len \in [1..StackSize -> Nat]
      BY <2>1 DEF IsStack
    <3>2. B \subseteq 1..StackSize
      <4>1. B \subseteq 1..assembly_p - 1
        BY <2>1 DEF IsStack
      <4>2. assembly_p \in 1..StackSize /\ StackSize \in Nat
        BY <2>3, StackAssumption
      <4> QED
        BY <4>1, <4>2
    <3> QED
      BY <2>3, <3>1, <3>2
  <2> HIDE DEF more, n
  <2>5. DOMAIN cells' = 1..StackSize
    BY <1>6, <2>2 DEF Stored
  <2>6. assembly_p' \in 1..StackSize + 1
    BY <2>3 DEF IsStack
  <2>7. aip' \in 1..StackSize /\ aip' = assembly_p
    BY <1>6, <2>3
  <2>8. phase' \in {"open", "done"}
    BY <1>6, GoOnIs
  <2>9. \A b \in B \cup {assembly_p} : b # assembly_p => more[b] > 0
    BY <2>1, <2>4
  <2>10. StackInv'
    <3>1. /\ IsStack(alignment', B \cup {assembly_p}, more, cells', assembly_p')
          /\ aip' \in B \cup {assembly_p} /\ aip' + SizeOf(alignment', more[aip']) = assembly_p'
          /\ \A b \in B \cup {assembly_p} : b # aip' => more[b] > 0
      BY <1>1, <2>3, <2>4, <2>7, <2>9
    <3>2. \E C, size :
             /\ IsStack(alignment', C, size, cells', assembly_p')
             /\ aip' \in C /\ aip' + SizeOf(alignment', size[aip']) = assembly_p'
             /\ \A b \in C : b # aip' => size[b] > 0
      BY <3>1
    <3> QED
      BY <2>5, <2>6, <2>7, <2>8, <3>2 DEF StackInv
  <2> QED
    BY <1>4, <2>10 DEF PlaceInv
<1> QED
  BY <1>2, <1>5, <1>6

\* An entry without a file name is not opened.
LEMMA OpenKeepsPlace ==
    ASSUME Settings, PlaceInv, Open
    PROVE  PlaceInv'
<1>1. /\ phase = "open"
      /\ UNCHANGED <<alignment, files, options, assembler_pass, stackVars, input_filename>>
  BY Zenon DEF Open, unchangedInFile, sessionVars
<1>2. \/ /\ NameIn(cells, aip) \in DOMAIN files /\ input_fd' = NameIn(cells, aip)
         /\ next' = cells[aip] /\ level' = cells[aip + 1] /\ avoid_level' = cells[aip + 2]
         /\ line_number' = cells[aip + 3] /\ GoOn("lines")
      \/ line_number' = 0 /\ GoOn("assembled") /\ UNCHANGED <<input_fd, next, level, avoid_level>>
  BY Zenon DEF Open
<1>3. phase' \in {"lines", "assembled", "done"}
  BY <1>2, GoOnIs
<1>4. InputKnown'
  BY <1>1, <1>3 DEF PlaceInv, InputKnown
<1>5. CASE line_number' = 0 /\ GoOn("assembled") /\ UNCHANGED <<input_fd, next, level, avoid_level>>
  <2>1. phase' \in {"assembled", "done"}
    BY <1>5, GoOnIs
  <2>2. Numbers'
    BY <1>1, <1>5, <2>1 DEF PlaceInv, Numbers
  <2>3. StackInv' /\ FileKnown'
    BY <1>1, <2>1, NoStack
  <2> QED
    BY <1>4, <2>2, <2>3 DEF PlaceInv
<1>6. CASE /\ NameIn(cells, aip) \in DOMAIN files /\ input_fd' = NameIn(cells, aip)
           /\ next' = cells[aip] /\ level' = cells[aip + 1] /\ avoid_level' = cells[aip + 2]
           /\ line_number' = cells[aip + 3] /\ GoOn("lines")
  <2>1. PICK B, len :
           /\ IsStack(alignment, B, len, cells, assembly_p)
           /\ aip \in B /\ aip + SizeOf(alignment, len[aip]) = assembly_p
           /\ \A b \in B : b # aip => len[b] > 0
    BY <1>1 DEF PlaceInv, StackInv
  <2>2. EntryAt(alignment, cells, aip, len[aip]) /\ len[aip] \in Nat
    <3>1. aip \in 1..StackSize /\ len \in [1..StackSize -> Nat]
      BY <2>1 DEF PlaceInv, StackInv, IsStack
    <3> QED
      BY <2>1, <3>1 DEF IsStack
  <2>3. len[aip] > 0
    <3>1. SUFFICES ASSUME len[aip] = 0
                   PROVE  FALSE
      BY <2>2
    <3>2. aip \in 1..StackSize /\ DOMAIN cells = 1..StackSize /\ Aligned(alignment)
      BY AlignedIs DEF PlaceInv, StackInv
    <3>3. EntryAt(alignment, cells, aip, 0) /\ aip + SizeOf(alignment, 0) <= StackSize + 1
      <4>1. assembly_p \in 1..StackSize + 1
        BY DEF PlaceInv, StackInv
      <4>2. aip + SizeOf(alignment, 0) = assembly_p
        BY <2>1, <3>1
      <4> QED
        BY <2>2, <3>1, <4>1, <4>2, StackAssumption
    <3>4. NameIn(cells, aip) = <<>>
      BY <3>2, <3>3, NameIsThere
    <3> QED
      BY <1>6, <3>4 DEF Settings
  <2>4. phase' \in {"lines", "done"}
    BY <1>6, GoOnIs
  <2>5. Numbers'
    <3>1. /\ next' \in Nat /\ level' \in Nat \ {0} /\ avoid_level' \in 0..level'
          /\ line_number' \in Nat
      BY <1>6, <2>2 DEF EntryAt
    <3> QED
      BY <1>1, <2>4, <3>1 DEF PlaceInv, Numbers
  <2>6. FileKnown'
    BY <1>1, <1>6 DEF FileKnown
  <2>7. StackInv'
    <3>1. \A b \in B : len[b] > 0
      BY <2>1, <2>3
    <3>2. UNCHANGED <<alignment, cells, assembly_p, aip>>
      BY <1>1 DEF stackVars
    <3>3. /\ DOMAIN cells' = 1..StackSize /\ aip' \in 1..StackSize
          /\ assembly_p' \in 1..StackSize + 1
      BY <3>2 DEF PlaceInv, StackInv
    <3>4. \E C, size :
             /\ IsStack(alignment', C, size, cells', assembly_p')
             /\ aip' \in C /\ aip' + SizeOf(alignment', size[aip']) = assembly_p'
             /\ \A b \in C : size[b] > 0
      BY <2>1, <3>1, <3>2
    <3> QED
      BY <2>4, <3>3, <3>4 DEF StackInv
  <2> QED
    BY <1>4, <2>5, <2>6, <2>7 DEF PlaceInv
<1> QED
  BY <1>2, <1>5, <1>6

\* The file that includes this one is in the entry below.
LEMMA IncluderIsBelow ==
    ASSUME Settings, PlaceInv, phase = "lines", aip # 1
    PROVE  \E B, len :
              /\ IsStack(alignment, B \ {aip}, len, cells, aip) /\ \A b \in B : len[b] > 0
              /\ EndsAt(alignment, B, len, EntryBelow(alignment, cells, aip), aip)
<1>1. PICK B, len :
         /\ IsStack(alignment, B, len, cells, assembly_p)
         /\ aip \in B /\ aip + SizeOf(alignment, len[aip]) = assembly_p
         /\ \A b \in B : len[b] > 0
  BY DEF PlaceInv, StackInv
<1>2. Aligned(alignment) /\ DOMAIN cells = 1..StackSize
  BY AlignedIs DEF PlaceInv, StackInv
<1>3. \A b \in B : b # aip => len[b] > 0
  BY <1>1
<1>4. IsStack(alignment, B \ {aip}, len, cells, aip)
  BY <1>1, <1>2, <1>3, Popped, Zenon
<1>5. EndsAt(alignment, B, len, EntryBelow(alignment, cells, aip), aip)
  BY <1>1, <1>2, <1>3, Popped, Zenon
<1> QED
  BY <1>1, <1>4, <1>5

LEMMA ReturnKeepsPlace ==
    ASSUME Settings, PlaceInv, Unmatched \/ EndOfFile
    PROVE  PlaceInv'
<1>1. /\ phase = "lines" /\ CloseReturn
      /\ UNCHANGED <<alignment, files, options, assembler_pass, input_filename, input_fd, next,
                     level, avoid_level>>
  BY Zenon DEF Unmatched, EndOfFile, AtLine, unchangedInFile, sessionVars
<1>2. \/ line_number' = 0 /\ GoOn("assembled") /\ UNCHANGED stackVars
      \/ /\ aip # 1 /\ line_number' = line_number + 1
         /\ aip' = EntryBelow(alignment, cells, aip) /\ assembly_p' = aip /\ GoOn("open")
         /\ UNCHANGED cells
  BY <1>1, Zenon DEF CloseReturn
<1>3. phase' \in {"assembled", "open", "done"}
  BY <1>2, GoOnIs
<1>4. InputKnown' /\ Numbers' /\ FileKnown'
  <2>1. InputKnown'
    BY <1>1, <1>3 DEF PlaceInv, InputKnown
  <2>2. line_number' \in Nat
    BY <1>2 DEF PlaceInv, Numbers
  <2>3. Numbers'
    BY <1>1, <1>3, <2>2 DEF PlaceInv, Numbers
  <2>4. FileKnown'
    BY <1>3 DEF FileKnown
  <2> QED
    BY <2>1, <2>3, <2>4
<1>5. CASE line_number' = 0 /\ GoOn("assembled") /\ UNCHANGED stackVars
  <2>1. phase' \notin {"push", "open", "lines"}
    BY <1>5, GoOnIs
  <2> QED
    BY <1>4, <1>5, <2>1, NoStack DEF PlaceInv
<1>6. CASE /\ aip # 1 /\ aip' = EntryBelow(alignment, cells, aip) /\ assembly_p' = aip
           /\ GoOn("open") /\ UNCHANGED cells
  <2>1. PICK B, len :
           /\ IsStack(alignment, B \ {aip}, len, cells, aip) /\ \A b \in B : len[b] > 0
           /\ EndsAt(alignment, B, len, EntryBelow(alignment, cells, aip), aip)
    BY <1>1, <1>6, IncluderIsBelow
  <2>2. aip \in 1..StackSize /\ DOMAIN cells = 1..StackSize
    BY DEF PlaceInv, StackInv
  <2>3. /\ IsStack(alignment, B \ {aip}, len, cells, aip)
        /\ aip' \in B \ {aip} /\ aip' + SizeOf(alignment, len[aip']) = aip
    BY <1>6, <2>1 DEF EndsAt
  <2>4. aip' \in 1..StackSize /\ assembly_p' \in 1..StackSize + 1 /\ DOMAIN cells' = 1..StackSize
    <3>1. B \ {aip} \subseteq 1..aip - 1
      BY <2>3 DEF IsStack
    <3> QED
      BY <1>6, <2>2, <2>3, <3>1, StackAssumption
  <2>5. phase' \in {"open", "done"}
    BY <1>6, GoOnIs
  <2>6. \E C, size :
           /\ IsStack(alignment', C, size, cells', assembly_p')
           /\ aip' \in C /\ aip' + SizeOf(alignment', size[aip']) = assembly_p'
           /\ \A b \in C : size[b] > 0
    BY <1>1, <1>6, <2>1, <2>3
  <2>7. StackInv'
    BY <2>4, <2>5, <2>6 DEF StackInv
  <2> QED
    BY <1>4, <2>7 DEF PlaceInv
<1> QED
  BY <1>2, <1>5, <1>6

LEMMA IncludeKeepsPlace ==
    ASSUME Settings, PlaceInv, IncludeLine
    PROVE  PlaceInv'
<1>1. /\ phase = "lines" /\ ~AtEnd /\ Text.op = "include" /\ GoOn("push")
      /\ cells' = Stored(cells, aip, <<Resume, level, avoid_level, ThisNumber>>)
      /\ input_filename' = Text.file /\ line_number' = ThisNumber
      /\ UNCHANGED <<alignment, files, options, assembler_pass, assembly_p, aip, input_fd, next,
                     level, avoid_level>>
  BY Zenon DEF IncludeLine, OnLine, AtLine, unchangedInFile, sessionVars
<1>2. phase' \in {"push", "done"}
  BY <1>1, GoOnIs
<1>3. Text.file \in Name
  BY <1>1, TextIsLine, IncludeHasName DEF PlaceInv
<1>4. /\ ThisNumber \in Nat /\ level \in Nat \ {0} /\ avoid_level \in 0..level
  BY DEF PlaceInv, Numbers, ThisNumber
<1>5. Resume \in Nat
  <2>1. Here \in Nat \ {0}
    BY DEF PlaceInv, Numbers, Here
  <2> DEFINE h == Here
  <2> HIDE DEF h
  <2>2. h \in Nat \ {0} /\ Resume \in {2 * h - 1, 2 * h}
    BY <2>1 DEF h, Resume
  <2> QED
    BY <2>2
<1>6. InputKnown' /\ Numbers' /\ FileKnown'
  <2>1. InputKnown'
    BY <1>1, <1>2, <1>3 DEF PlaceInv, InputKnown
  <2>2. Numbers'
    BY <1>1, <1>2, <1>4 DEF PlaceInv, Numbers
  <2>3. FileKnown'
    BY <1>2 DEF FileKnown
  <2> QED
    BY <2>1, <2>2, <2>3
<1>7. StackInv'
  <2>1. PICK B, len :
           /\ IsStack(alignment, B, len, cells, assembly_p)
           /\ aip \in B /\ \A b \in B : len[b] > 0
    BY <1>1 DEF PlaceInv, StackInv
  <2>2. Aligned(alignment) /\ DOMAIN cells = 1..StackSize
    BY AlignedIs DEF PlaceInv, StackInv
  <2>3. IsStack(alignment, B, len, cells', assembly_p)
    BY <1>1, <1>4, <1>5, <2>1, <2>2, Kept
  <2>4. DOMAIN cells' = 1..StackSize
    BY <1>1, <2>2 DEF Stored
  <2>5. aip' \in 1..StackSize /\ assembly_p' \in 1..StackSize + 1
    BY <1>1 DEF PlaceInv, StackInv
  <2>6. \E C, size :
           IsStack(alignment', C, size, cells', assembly_p') /\ \A b \in C : size[b] > 0
    BY <1>1, <2>1, <2>3
  <2> QED
    BY <1>2, <2>4, <2>5, <2>6 DEF StackInv
<1> QED
  BY <1>6, <1>7 DEF PlaceInv

\* A pass begins with an empty stack.
LEMMA BeginKeepsPlace ==
    ASSUME Settings, PlaceInv, NEW p, BeginAssembly(p), p \in {0} \cup 2..MaxPass,
           options.input # None, phase' = "push", UNCHANGED <<sessionVars, options>>
    PROVE  PlaceInv'
<1>1. /\ assembler_pass' = p /\ assembly_p' = 1 /\ input_filename' = options.input.word
      /\ UNCHANGED <<alignment, cells, aip, level, avoid_level, line_number, next>>
  BY Zenon DEF BeginAssembly, sessionVars
<1>2. options.input.word \in Name
  BY DEF PlaceInv, InputKnown
<1>3. InputKnown'
  BY <1>1, <1>2 DEF PlaceInv, InputKnown
<1>4. Numbers'
  BY <1>1 DEF PlaceInv, Numbers
<1>5. FileKnown'
  BY DEF FileKnown
<1>6. IsStack(alignment', {}, [b \in 1..StackSize |-> 0], cells', assembly_p')
  BY <1>1, AlignedIs, EmptyStack
<1>7. \E B, len : IsStack(alignment', B, len, cells', assembly_p') /\ \A b \in B : len[b] > 0
  BY <1>6
<1>8. DOMAIN cells' = 1..StackSize /\ aip' \in 1..StackSize /\ assembly_p' \in 1..StackSize + 1
  BY <1>1, StackAssumption DEF PlaceInv, StackInv
<1>9. StackInv'
  BY <1>7, <1>8 DEF StackInv
<1> QED
  BY <1>3, <1>4, <1>5, <1>9 DEF PlaceInv

LEMMA PlaceStays ==
    ASSUME PlaceInv, UNCHANGED <<assembler_pass, stackVars, readVars, options>>,
           phase' \in {phase, "done"} \/ (phase' = "create" /\ assembler_pass < MaxPass
                                          /\ phase = "assembled"),
           UNCHANGED sessionVars
    PROVE  PlaceInv'
<1>1. UNCHANGED <<alignment, files, options, assembler_pass, cells, assembly_p, aip,
                  input_filename, input_fd, next, level, avoid_level, line_number>>
  BY Zenon DEF sessionVars, stackVars, readVars
<1>2. InputKnown'
  BY <1>1 DEF PlaceInv, InputKnown
<1>3. Numbers'
  BY <1>1 DEF PlaceInv, Numbers
<1>4. CASE phase' = phase
  <2>1. StackInv' /\ FileKnown'
    BY <1>1, <1>4 DEF PlaceInv, StackInv, FileKnown
  <2> QED
    BY <1>2, <1>3, <2>1 DEF PlaceInv
<1>5. CASE phase' \in {"create", "done"}
  <2>1. phase' \notin {"push", "open", "lines"}
    BY <1>5
  <2> QED
    BY <1>2, <1>3, <2>1, NoStack DEF PlaceInv
<1> QED
  BY <1>4, <1>5

\* The arguments: the first word is the input file.
ArgumentsKnown == argument \in Nat \ {0}

LEMMA ArgumentsKeepPlace ==
    ASSUME Settings, PlaceInv, ArgumentsKnown, Arguments
    PROVE  PlaceInv'
<1>1. phase = "arguments"
  BY Zenon DEF Arguments, InputArgument, PlainFlag, FlagWithValue, NoInput, Reading, AllRead
<1>2. "input" \in DOMAIN options /\ options.input \in {None} \cup [word : Name \ {<<>>}]
  BY DEF PlaceInv, InputKnown
<1>3. ASSUME NEW n, NEW changed, Accept(n, changed), "input" \in DOMAIN changed,
             changed.input \in {None} \cup [word : Name \ {<<>>}]
      PROVE  PlaceInv'
  <2>1. /\ options' = changed
        /\ UNCHANGED <<phase, alignment, files, assembler_pass, cells, assembly_p, aip,
                       input_filename, input_fd, next, level, avoid_level, line_number>>
    BY <1>3, Zenon DEF Accept, unchangedByArgument, sessionVars, stackVars, readVars
  <2>2. InputKnown'
    BY <1>1, <1>3, <2>1 DEF PlaceInv, InputKnown
  <2>3. Numbers' /\ StackInv' /\ FileKnown'
    BY <2>1 DEF PlaceInv, Numbers, StackInv, FileKnown
  <2> QED
    BY <2>2, <2>3 DEF PlaceInv
<1>4. ASSUME NEW what, Reject(what)
      PROVE  PlaceInv'
  <2>1. /\ phase' = "done" /\ UNCHANGED sessionVars
        /\ UNCHANGED <<assembler_pass, stackVars, readVars, options>>
    BY <1>4, Zenon DEF Reject, Exit, unchangedByArgument
  <2> QED
    BY <2>1, PlaceStays
<1>5. CASE InputArgument
  <2> DEFINE changed == [options EXCEPT !.input = ThisArgument]
  <2>1. \/ \E what : Reject(what)
        \/ Accept(1, changed)
    BY <1>5, Zenon DEF InputArgument
  <2>2. "input" \in DOMAIN changed /\ changed.input = ThisArgument
    BY <1>2
  <2>3. ThisArgument \in [word : Name \ {<<>>}]
    <3>1. ThisArgument \in Argument
      BY <1>5, ArgumentTyped DEF InputArgument, Reading, ArgumentsKnown
    <3>2. IsWord(ThisArgument)
      BY <1>5 DEF InputArgument, Reading, IsWord
    <3>3. \A arg \in [letter : {"d", "w", "o", "f", "l", "z"}, rest : Name] : ~IsWord(arg)
      BY DEF IsWord
    <3> QED
      BY <3>1, <3>2, <3>3 DEF Argument
  <2> HIDE DEF changed
  <2> QED
    BY <1>3, <1>4, <2>1, <2>2, <2>3
<1>6. CASE PlainFlag
  <2>1. \/ \E what : Reject(what)
        \/ Accept(1, options)
        \/ \E text : Accept(1, Optimized(text))
    BY <1>6, Zenon DEF PlainFlag
  <2>2. ASSUME NEW text
        PROVE  "input" \in DOMAIN Optimized(text) /\ Optimized(text).input = options.input
    BY <1>2 DEF Optimized
  <2> QED
    BY <1>2, <1>3, <1>4, <2>1, <2>2
<1>7. CASE FlagWithValue
  <2>1. \/ \E what : Reject(what)
        \/ \E com : Accept(2, [options EXCEPT !.com = com])
        \/ \E kind \in {"output", "listing"} :
              \E value : Accept(2, [options EXCEPT ![kind] = value])
    BY <1>7 DEF FlagWithValue
  <2>2. ASSUME NEW com
        PROVE  LET changed == [options EXCEPT !.com = com]
               IN  "input" \in DOMAIN changed /\ changed.input = options.input
    BY <1>2
  <2>3. ASSUME NEW kind \in {"output", "listing"}, NEW value
        PROVE  LET changed == [options EXCEPT ![kind] = value]
               IN  "input" \in DOMAIN changed /\ changed.input = options.input
    BY <1>2
  <2> QED
    BY <1>2, <1>3, <1>4, <2>1, <2>2, <2>3
<1>8. CASE NoInput
  BY <1>4, <1>8, Zenon DEF NoInput
<1> QED
  BY <1>5, <1>6, <1>7, <1>8 DEF Arguments

LEMMA MainKeepsPlace ==
    ASSUME TellInv, Settings, PlaceInv, MainPasses \/ CreateFails \/ DiskFull
    PROVE  PlaceInv'
<1>1. CASE StartPass0
  <2>1. /\ BeginAssembly(0) /\ options.input # None /\ phase' = "push"
        /\ UNCHANGED <<sessionVars, options>>
    BY <1>1, Zenon DEF StartPass0, unchangedByMain
  <2>2. 0 \in {0} \cup 2..MaxPass
    OBVIOUS
  <2> QED
    BY <2>1, <2>2, BeginKeepsPlace
<1>2. CASE StartPass
  <2> DEFINE p == IF assembler_pass = 0 THEN 2 ELSE assembler_pass + 1
  <2>1. /\ phase = "create" /\ BeginAssembly(p) /\ phase' = "push"
        /\ UNCHANGED <<sessionVars, options>>
    BY <1>2, Zenon DEF StartPass, unchangedByMain
  <2>2. options.input # None
    BY <2>1 DEF PlaceInv, InputKnown
  <2>3. p \in {0} \cup 2..MaxPass
    <3>1. assembler_pass \in {0} \cup 2..MaxPass /\ assembler_pass < MaxPass
      BY <2>1 DEF PlaceInv, Numbers
    <3> QED
      BY <3>1, PassAssumption
  <2> HIDE DEF p
  <2> QED
    BY <2>1, <2>2, <2>3, BeginKeepsPlace
<1>3. CASE EndPass0
  <2>1. /\ phase = "assembled" /\ assembler_pass = 0 /\ phase' \in {"create", "done"}
        /\ UNCHANGED <<assembler_pass, stackVars, readVars, options>> /\ UNCHANGED sessionVars
    BY <1>3 DEF EndPass0, unchangedByMain, Exit
  <2>2. 0 < MaxPass
    BY PassAssumption
  <2> QED
    BY <2>1, <2>2, PlaceStays
<1>4. CASE EndPass
  <2>1. /\ phase = "assembled"
        /\ UNCHANGED <<assembler_pass, stackVars, readVars, options>> /\ UNCHANGED sessionVars
    BY <1>4, Zenon DEF EndPass, unchangedByMain
  <2>2. phase' = "done" \/ (phase' = "create" /\ assembler_pass < MaxPass)
    BY <1>4, EndPassIs, Zenon DEF Exit
  <2> QED
    BY <2>1, <2>2, PlaceStays
<1>5. CASE CreateFails
  <2>1. /\ phase' = "done" /\ UNCHANGED <<assembler_pass, stackVars, readVars, options>>
        /\ UNCHANGED sessionVars
    BY <1>5, Zenon DEF CreateFails, unchangedByMain, Exit
  <2> QED
    BY <2>1, PlaceStays
<1>6. CASE DiskFull
  <2>1. /\ UNCHANGED phase /\ UNCHANGED <<assembler_pass, stackVars, readVars, options>>
        /\ UNCHANGED sessionVars
    BY <1>6, Zenon DEF DiskFull
  <2> QED
    BY <2>1, PlaceStays
<1> QED
  BY <1>1, <1>2, <1>3, <1>4, <1>5, <1>6 DEF MainPasses

LEMMA ArgumentsKnownStep ==
    ASSUME ArgumentsKnown, [Next]_vars
    PROVE  ArgumentsKnown'
<1>1. argument' = argument \/ \E n \in {1, 2} : argument' = argument + n
  <2>1. CASE UNCHANGED vars \/ Done
    BY <2>1 DEF vars, Done
  <2>2. CASE Arguments
    <3>1. ASSUME NEW n \in {1, 2}, NEW changed, Accept(n, changed)
          PROVE  \E k \in {1, 2} : argument' = argument + k
      BY <3>1, Zenon DEF Accept
    <3>2. ASSUME NEW what, Reject(what)
          PROVE  argument' = argument
      BY <3>2, Zenon DEF Reject
    <3>3. 1 \in {1, 2} /\ 2 \in {1, 2}
      OBVIOUS
    <3>4. CASE InputArgument
      BY <3>1, <3>2, <3>3, <3>4, Zenon DEF InputArgument
    <3>5. CASE PlainFlag
      BY <3>1, <3>2, <3>3, <3>5, Zenon DEF PlainFlag
    <3>6. CASE FlagWithValue
      BY <3>1, <3>2, <3>3, <3>6, Zenon DEF FlagWithValue
    <3>7. CASE NoInput
      BY <3>2, <3>7, Zenon DEF NoInput
    <3> QED
      BY <2>2, <3>4, <3>5, <3>6, <3>7 DEF Arguments
  <2>3. CASE Push \/ Open \/ Unmatched \/ EndOfFile \/ IncludeLine
    BY <2>3, Zenon DEF Push, Open, Unmatched, EndOfFile, IncludeLine, unchangedInFile
  <2>4. CASE CodeLine \/ WrongLine \/ GlobalLine \/ IncbinLine \/ SkipLine \/ EmptyLine
    BY <2>4, Zenon DEF CodeLine, WrongLine, GlobalLine, IncbinLine, SkipLine, EmptyLine,
                       unchangedByCode, unchangedByLine, unchangedInFile
  <2>5. CASE If \/ Else \/ Endif
    BY <2>5, Zenon DEF If, Else, Endif, unchangedByLine, unchangedInFile
  <2>6. CASE MainPasses \/ CreateFails \/ DiskFull
    BY <2>6, Zenon DEF MainPasses, StartPass0, EndPass0, StartPass, EndPass, CreateFails, DiskFull,
                       unchangedByMain
  <2> QED
    BY <2>1, <2>2, <2>3, <2>4, <2>5, <2>6 DEF Next, Assemble
<1> QED
  BY <1>1 DEF ArgumentsKnown

LEMMA PlaceStep ==
    ASSUME TellInv, Settings, PlaceInv, ArgumentsKnown, [Next]_vars
    PROVE  PlaceInv'
<1>1. CASE UNCHANGED vars
  <2>1. /\ UNCHANGED <<assembler_pass, stackVars, readVars, options>> /\ UNCHANGED phase
        /\ UNCHANGED sessionVars
    BY <1>1 DEF vars
  <2> QED
    BY <2>1, PlaceStays
<1>2. CASE Done
  BY <1>1, <1>2 DEF Done
<1> QED
  BY <1>1, <1>2, ArgumentsKeepPlace, LinesKeepPlace, PushKeepsPlace, OpenKeepsPlace,
     ReturnKeepsPlace, IncludeKeepsPlace, MainKeepsPlace DEF Next, Assemble, MainPasses

Inv == TellInv /\ Settings /\ PlaceInv /\ ArgumentsKnown /\ Fits(io)

LEMMA InvInit == Init => Inv
<1> SUFFICES ASSUME Init PROVE Inv
  OBVIOUS
<1>1. TellInv
  BY TellInit
<1>2. Settings
  <2>1. PICK s \in Sessions : argv = s.argv /\ files = s.files
    BY DEF Init
  <2> QED
    BY <2>1, SessionsAssumption DEF Init, Settings
<1>3. InputKnown
  <2>1. /\ phase = "arguments" /\ input_filename = <<>> /\ options.input = None
        /\ "input" \in DOMAIN options
    BY DEF Init
  <2>2. <<>> \in Name
    BY DEF Name
  <2> QED
    BY <2>1, <2>2 DEF InputKnown
<1>4. Numbers /\ FileKnown /\ ArgumentsKnown
  BY DEF Init, Numbers, FileKnown, ArgumentsKnown
<1>5. StackInv
  BY StackAssumption DEF Init, StackInv
<1>6. Fits(io)
  <2>1. io = Record(<<>>, <<>>, FALSE, Stale, Stale, <<>>, "none", {}, FALSE)
    BY DEF Init, NewStreams, Record
  <2> QED
    BY <2>1, EmptyIsSeq, BuffersAssumption DEF Fits, Held, Record, IsRecord
<1> QED
  BY <1>1, <1>2, <1>3, <1>4, <1>5, <1>6 DEF Inv, PlaceInv

LEMMA InvStep ==
    ASSUME Inv, [Next]_vars
    PROVE  Inv'
<1>1. TellInv' /\ ArgumentsKnown'
  BY TellStep, ArgumentsKnownStep DEF Inv
<1>2. Settings'
  BY SettingsStay, SettingsStep DEF Inv
<1>3. PlaceInv'
  BY PlaceStep DEF Inv
<1>4. Fits(io')
  <2>1. CASE Next
    BY <2>1, FitsKept DEF Inv, PlaceInv
  <2>2. CASE UNCHANGED vars
    BY <2>2 DEF vars, Inv
  <2> QED
    BY <2>1, <2>2
<1>5. Fits(io)'
  BY <1>4 DEF Fits, Held, IsRecord, Record, IsSeq
<1> QED
  BY <1>1, <1>2, <1>3, <1>5 DEF Inv

\* The entries of the include stack stay in its memory, and message_buf and
\* emit_buf in theirs, for all files that include each other in any way, whatever
\* the sizes are; the %if levels, the pass and the exit code are of their kinds.
THEOREM SessionTyped == Spec => []TypeOK
<1>1. Inv => TypeOK
  <2> SUFFICES ASSUME Inv PROVE TypeOK
    OBVIOUS
  <2>1. /\ phase \in {"arguments", "push", "open", "lines", "assembled", "create", "done"}
        /\ exit \in {"running", "0", "1", "3"} /\ (phase = "done" <=> exit # "running")
    BY DEF Inv, TellInv, Reads
  <2>2. /\ assembler_pass \in {0} \cup 2..MaxPass /\ level > 0 /\ avoid_level \in 0..level
    BY DEF Inv, PlaceInv, Numbers
  <2>3. /\ DOMAIN cells = 1..StackSize
        /\ aip \in 1..StackSize /\ assembly_p \in 1..StackSize + 1
    BY DEF Inv, PlaceInv, StackInv
  <2>4. /\ io.listing_fd \in {"none", "open", "closed"}
        /\ Len(io.emit) < EmitSize \/ io.failed
        /\ Len(io.message) <= MessageSize
    BY DEF Inv, Fits, Held
  <2> QED
    BY <2>1, <2>2, <2>3, <2>4 DEF TypeOK
<1> QED
  BY <1>1, InvInit, InvStep, PTL DEF Spec

-----------------------------------------------------------------------------
(* Where reading goes on behind an included file.                             *)

LEMMA NameIs ==
    ASSUME NEW al, Aligned(al), NEW c, DOMAIN c = 1..StackSize, NEW b \in 1..StackSize,
           NEW n \in Nat, EntryAt(al, c, b, n), b + SizeOf(al, n) <= StackSize + 1
    PROVE  NameIn(c, b) \in Name /\ Len(NameIn(c, b)) = n
<1>1. SizeOf(al, n) \in Nat /\ SizeOf(al, n) >= 6 + n /\ NameAt = 5
  BY SizeIs
<1>2. StackSize \in Nat /\ b \in Nat
  BY StackAssumption
<1> DEFINE e == b + 5 + n
           S == {a \in DOMAIN c : a >= b + 5 /\ c[a] = 0}
<1>3. e \in 1..StackSize /\ c[e] = 0
  <2> DEFINE s == SizeOf(al, n)
  <2>1. \A a \in b + 5 + n .. b + s - 1 : c[a] = 0
    BY DEF EntryAt
  <2> HIDE DEF s
  <2>2. s \in Nat /\ s >= 6 + n /\ b + s <= StackSize + 1
    BY <1>1 DEF s
  <2>3. e \in 1..StackSize /\ e \in b + 5 + n .. b + s - 1
    BY <1>2, <2>2
  <2> QED
    BY <2>1, <2>3
<1>4. \A a \in b + 5 .. b + 4 + n : c[a] \in Nat \ {0}
  BY DEF EntryAt
<1>5. Min(S) = e
  <2>1. S \subseteq Int /\ e \in S
    BY <1>2, <1>3
  <2>2. \A a \in S : e <= a
    <3>1. SUFFICES ASSUME NEW a \in 1..StackSize, a >= b + 5, c[a] = 0
                   PROVE  e <= a
      OBVIOUS
    <3>2. ~(a \in b + 5 .. b + 4 + n)
      BY <1>4, <3>1
    <3> QED
      BY <1>2, <3>1, <3>2
  <2> HIDE DEF S, e
  <2> QED
    BY <2>1, <2>2, SmallestIs
<1>6. NameIn(c, b) = SubSeq(c, b + 5, b + 4 + n)
  <2>1. NameIn(c, b) = SubSeq(c, b + 5, Min(S) - 1)
    BY <1>1 DEF NameIn
  <2> HIDE DEF S
  <2>2. e - 1 = b + 4 + n
    BY <1>2
  <2> HIDE DEF e
  <2> QED
    BY <1>5, <2>1, <2>2
<1> DEFINE m == b + 5
           k == b + 4 + n
           T == Nat \ {0}
<1>7. m \in Int /\ k \in Int /\ (\A i \in m..k : c[i] \in T)
      /\ (m <= k => k - m + 1 = n) /\ (~(m <= k) => n = 0)
  BY <1>2, <1>4
<1> HIDE DEF m, k, T
<1>8. SubSeq(c, m, k) \in Seq(T) /\ Len(SubSeq(c, m, k)) = IF m <= k THEN k - m + 1 ELSE 0
  BY <1>7, SubSeqProperties
<1> QED
  BY <1>6, <1>7, <1>8 DEF m, k, T, Name

LEMMA EntryHasSize ==
    ASSUME NEW al, Aligned(al), NEW name \in Name, NEW n \in Nat, Len(name) = n
    PROVE  Len(Entry(al, name)) = SizeOf(al, n)
<1> DEFINE e == Entry(al, name)
<1>1. DOMAIN e = 1..SizeOf(al, n) /\ Len(e) = SizeOf(al, n)
  BY EntryIs
<1> QED
  BY <1>1

\* Only the end of a file leads back to another.
LEMMA ReturnIs ==
    ASSUME Next, phase = "lines", phase' = "open"
    PROVE  CloseReturn /\ UNCHANGED alignment
<1>1. ASSUME NEW p \in {"lines", "push"}, GoOn(p)
      PROVE  FALSE
  <2>1. phase' \in {"lines", "push", "done"}
    BY <1>1, GoOnIs
  <2> QED
    BY <2>1
<1>2. ~(\/ CodeLine \/ WrongLine \/ GlobalLine \/ IncbinLine \/ SkipLine \/ EmptyLine
        \/ If \/ Else \/ Endif \/ IncludeLine)
  <2>1. "lines" \in {"lines", "push"} /\ "push" \in {"lines", "push"}
    OBVIOUS
  <2> QED
    BY <1>1, <2>1, Zenon DEF CodeLine, WrongLine, GlobalLine, IncbinLine, SkipLine, EmptyLine, If,
       Else, Endif, IncludeLine, AfterLine
<1>3. ~(Arguments \/ Push \/ Open \/ MainPasses \/ CreateFails \/ Done \/ DiskFull)
  <2>1. ~Arguments
    BY DEF Arguments, InputArgument, PlainFlag, FlagWithValue, NoInput, Reading, AllRead
  <2>2. ~(Push \/ Open \/ CreateFails \/ Done)
    BY DEF Push, Open, CreateFails, Done
  <2>3. ~MainPasses
    BY DEF MainPasses, StartPass0, EndPass0, StartPass, EndPass, AllRead
  <2>4. ~DiskFull
    <3>1. DiskFull => phase' = phase
      BY Zenon DEF DiskFull
    <3> QED
      BY <3>1
  <2> QED
    BY <2>1, <2>2, <2>3, <2>4
<1>4. Unmatched \/ EndOfFile
  BY <1>2, <1>3 DEF Next, Assemble
<1> QED
  BY <1>4, Zenon DEF Unmatched, EndOfFile, unchangedInFile, sessionVars

ReturnsToIncluder ==
    phase = "lines" /\ phase' = "open" =>
        aip' + Len(Entry(alignment, NameIn(cells, aip'))) = aip

\* assembly_pop() always finds the entry of the file that has the %include, though
\* there is no link to it, by walking back over NULs and a file name: the entry that
\* it finds, with its own file name, ends where the one that it leaves begins.
THEOREM IncluderIsFound == Spec => [][ReturnsToIncluder]_vars
<1>1. ASSUME Inv, Next, phase = "lines", phase' = "open"
      PROVE  aip' + Len(Entry(alignment, NameIn(cells, aip'))) = aip
  <2>1. aip # 1 /\ aip' = EntryBelow(alignment, cells, aip)
    <3>1. CloseReturn
      BY <1>1, ReturnIs
    <3>2. aip = 1 => phase' \in {"assembled", "done"}
      BY <3>1, GoOnIs DEF CloseReturn
    <3> QED
      BY <1>1, <3>1, <3>2 DEF CloseReturn
  <2>2. Settings /\ PlaceInv
    BY <1>1 DEF Inv
  <2>3. PICK B, len :
           /\ IsStack(alignment, B \ {aip}, len, cells, aip) /\ \A b \in B : len[b] > 0
           /\ EndsAt(alignment, B, len, EntryBelow(alignment, cells, aip), aip)
    BY <1>1, <2>1, <2>2, IncluderIsBelow
  <2> DEFINE b == EntryBelow(alignment, cells, aip)
             n == len[b]
  <2>4. /\ Aligned(alignment) /\ DOMAIN cells = 1..StackSize /\ aip \in 1..StackSize
        /\ StackSize \in Nat
    BY <2>2, AlignedIs, StackAssumption DEF PlaceInv, StackInv
  <2> HIDE DEF b
  <2>5. /\ b \in B \ {aip} /\ b + SizeOf(alignment, n) = aip
        /\ B \ {aip} \subseteq 1..aip - 1 /\ len \in [1..StackSize -> Nat]
        /\ EntryAt(alignment, cells, b, n)
    BY <2>3 DEF EndsAt, IsStack, b
  <2>6. b \in 1..StackSize /\ n \in Nat
    BY <2>4, <2>5
  <2> HIDE DEF n
  <2>7. b + SizeOf(alignment, n) <= StackSize + 1
    BY <2>4, <2>5
  <2>8. NameIn(cells, b) \in Name /\ Len(NameIn(cells, b)) = n
    BY <2>4, <2>5, <2>6, <2>7, NameIs, Zenon
  <2>9. Len(Entry(alignment, NameIn(cells, b))) = SizeOf(alignment, n)
    BY <2>4, <2>6, <2>8, EntryHasSize, Zenon
  <2>10. aip' = b
    BY <2>1 DEF b
  <2> QED
    BY <2>5, <2>9, <2>10
<1>2. Inv /\ [Next]_vars => [ReturnsToIncluder]_vars
  BY <1>1 DEF ReturnsToIncluder
<1> QED
  BY <1>2, InvInit, InvStep, PTL DEF Spec

-----------------------------------------------------------------------------
(* The arguments.                                                             *)

\* An argument behind a flag that takes it is a value, any other is not.
LEMMA ValuesFollowFlags ==
    ASSUME NEW args, NEW i \in Nat \ {0}
    PROVE  /\ ~IsValue(args, 1)
           /\ IsValue(args, i + 1) <=> TakesNext(args, i) /\ ~IsValue(args, i)
<1> DEFINE F(n) == {j \in 1..n : \A k \in j..n - 1 : TakesNext(args, k)}
<1>1. \A n \in Nat \ {0} : F(n) \subseteq Nat /\ n \in F(n)
  OBVIOUS
<1>2. ASSUME NEW n \in Nat \ {0}, NEW m \in F(n), \A j \in F(n) : m <= j
      PROVE  IsValue(args, n) <=> (n - m) % 2 = 1
  <2>1. Min(F(n)) = m
    <3> HIDE DEF F
    <3>1. F(n) \subseteq Int
      BY <1>1
    <3> QED
      BY <1>2, <3>1, SmallestIs
  <2> QED
    BY <2>1 DEF IsValue
<1>3. ~IsValue(args, 1)
  <2>1. 1 \in F(1) /\ \A j \in F(1) : 1 <= j
    OBVIOUS
  <2>2. IsValue(args, 1) <=> (1 - 1) % 2 = 1
    <3> HIDE DEF F
    <3> QED
      BY <1>2, <2>1
  <2> QED
    BY <2>2
<1>4. CASE TakesNext(args, i)
  <2>1. F(i + 1) = {i + 1} \cup F(i)
    BY <1>4
  <2>2. F(i) \subseteq 1..i
    OBVIOUS
  <2>3. PICK m \in F(i) : \A j \in F(i) : m <= j
    <3> HIDE DEF F
    <3>1. F(i) \subseteq Nat /\ F(i) # {}
      BY <1>1
    <3> QED
      BY <3>1, Smallest
  <2>4. m \in F(i + 1) /\ \A j \in F(i + 1) : m <= j
    <3> HIDE DEF F
    <3> QED
      BY <2>1, <2>2, <2>3
  <2>5. m \in 1..i
    BY <2>2, <2>3
  <2>6. /\ IsValue(args, i) <=> (i - m) % 2 = 1
        /\ IsValue(args, i + 1) <=> ((i + 1) - m) % 2 = 1
    <3> HIDE DEF F
    <3>1. i \in Nat \ {0} /\ i + 1 \in Nat \ {0}
      OBVIOUS
    <3>2. IsValue(args, i) <=> (i - m) % 2 = 1
      BY <1>2, <2>3, <3>1, Zenon
    <3>3. IsValue(args, i + 1) <=> ((i + 1) - m) % 2 = 1
      <4> DEFINE n == i + 1
      <4>1. n \in Nat \ {0} /\ m \in F(n) /\ \A j \in F(n) : m <= j
        BY <2>4, <3>1
      <4> HIDE DEF n
      <4>2. IsValue(args, n) <=> (n - m) % 2 = 1
        BY <1>2, <4>1, Zenon
      <4> QED
        BY <4>2 DEF n
    <3> QED
      BY <3>2, <3>3
  <2>7. ((i + 1) - m) % 2 = 1 <=> (i - m) % 2 # 1
    BY <2>5
  <2> QED
    BY <1>3, <1>4, <2>6, <2>7
<1>5. CASE ~TakesNext(args, i)
  <2>1. F(i + 1) = {i + 1}
    <3>1. \A j \in 1..i : i \in j..i + 1 - 1
      OBVIOUS
    <3> QED
      BY <1>5, <3>1
  <2>2. i + 1 \in F(i + 1) /\ \A j \in F(i + 1) : i + 1 <= j
    <3> HIDE DEF F
    <3> QED
      BY <2>1
  <2>3. IsValue(args, i + 1) <=> ((i + 1) - (i + 1)) % 2 = 1
    <3> HIDE DEF F
    <3> QED
      BY <1>2, <2>2
  <2> QED
    BY <1>3, <1>5, <2>3
<1> QED
  BY <1>4, <1>5

\* What of the set S has been read before the argument a.
Until(S, a) == S \cap 1..a - 1

LEMMA NextUntil ==
    ASSUME NEW S, NEW a \in Nat \ {0}
    PROVE  /\ a \notin S => Until(S, a + 1) = Until(S, a)
           /\ a \in S => /\ Until(S, a + 1) = Until(S, a) \cup {a}
                         /\ Until(S, a + 1) # {} /\ Max(Until(S, a + 1)) = a
<1>1. ASSUME a \in S
      PROVE  Max(Until(S, a + 1)) = a
  <2> DEFINE U == Until(S, a + 1)
  <2>1. U \subseteq Int /\ a \in U /\ \A y \in U : y <= a
    BY <1>1 DEF Until
  <2> QED
    BY <2>1, LargestIs
<1> QED
  BY <1>1 DEF Until

\* What the arguments before a say.
InputAt(args, a) ==
    LET inputs == Until(Inputs(args), a)
    IN  IF inputs = {} THEN None ELSE args[Max(inputs)]
FlagValue(args, a, letter) ==
    LET flags == Until(Flags(args, letter), a)
    IN  IF flags = {} THEN None ELSE args[Max(flags) + 1]
OptimizationAt(args, a) ==
    LET levels == Until(LevelArgs(args, {"O0", "O1", "O9", "A"}), a)
    IN  IF levels = {} THEN 0
        ELSE CASE args[Max(levels)].rest = Levels.O0 -> 0
               [] args[Max(levels)].rest = Levels.O1 -> 1
               [] OTHER -> 9
HasLevel(args, a, texts) == Until(LevelArgs(args, texts), a) # {}

\* The options as the arguments before a give them.
OptionsTo(args, a) ==
    [input |-> InputAt(args, a),
     output |-> FlagValue(args, a, "o"), listing |-> FlagValue(args, a, "l"),
     com |-> FlagValue(args, a, "f") = [word |-> Com],
     opt_level |-> OptimizationAt(args, a),
     opt_int |-> HasLevel(args, a, {"O1", "I", "A"}),
     opt_lea |-> HasLevel(args, a, {"L", "A"}),
     opt_segreg |-> HasLevel(args, a, {"G", "A"})]

\* At the end, these are the options of all arguments.
LEMMA OptionsAtEnd ==
    ASSUME NEW args \in Seq(Argument), Inputs(args) # {}
    PROVE  OptionsTo(args, Len(args) + 1) = OptionsOf(args)
<1> DEFINE a == Len(args) + 1
<1>1. 1..a - 1 = DOMAIN args
  OBVIOUS
<1>2. ASSUME NEW letter
      PROVE  Until(Flags(args, letter), a) = Flags(args, letter)
  BY <1>1 DEF Until, Flags
<1>3. ASSUME NEW texts
      PROVE  Until(LevelArgs(args, texts), a) = LevelArgs(args, texts)
  BY <1>1 DEF Until, LevelArgs
<1>4. Until(Inputs(args), a) = Inputs(args)
  BY <1>1 DEF Until, Inputs
<1> HIDE DEF a
<1>5. /\ Until(Flags(args, "o"), a) = Flags(args, "o")
      /\ Until(Flags(args, "l"), a) = Flags(args, "l")
      /\ Until(Flags(args, "f"), a) = Flags(args, "f")
  BY <1>2
<1>6. /\ Until(LevelArgs(args, {"O0", "O1", "O9", "A"}), a) = LevelArgs(args, {"O0", "O1", "O9", "A"})
      /\ Until(LevelArgs(args, {"O1", "I", "A"}), a) = LevelArgs(args, {"O1", "I", "A"})
      /\ Until(LevelArgs(args, {"L", "A"}), a) = LevelArgs(args, {"L", "A"})
      /\ Until(LevelArgs(args, {"G", "A"}), a) = LevelArgs(args, {"G", "A"})
  BY <1>3
<1>7. OptionsTo(args, a) = OptionsOf(args)
  BY <1>4, <1>5, <1>6
     DEF OptionsTo, OptionsOf, InputAt, FlagValue, OptimizationAt, HasLevel
<1> QED
  BY <1>7 DEF a

\* What a word, or a flag, is.
LEMMA ArgumentIs ==
    ASSUME NEW arg \in Argument
    PROVE  /\ IsWord(arg) => arg \in [word : Name \ {<<>>}]
           /\ ~IsWord(arg) => arg \in [letter : {"d", "w", "o", "f", "l", "z"}, rest : Name]
           /\ arg # None
<1>1. CASE arg \in [letter : {"d", "w", "o", "f", "l", "z"}, rest : Name]
  <2>1. DOMAIN arg = {"letter", "rest"}
    BY <1>1
  <2>2. DOMAIN None = {"word"}
    BY DEF None
  <2> QED
    BY <1>1, <2>1, <2>2 DEF IsWord
<1>2. CASE arg \in [word : Name \ {<<>>}]
  <2>1. DOMAIN arg = {"word"}
    BY <1>2
  <2>2. arg.word # <<>>
    BY <1>2
  <2>3. None.word = <<>>
    BY DEF None
  <2> QED
    BY <1>2, <2>1, <2>2, <2>3 DEF IsWord
<1> QED
  BY <1>1, <1>2 DEF Argument

\* The kind of an argument that is not a value, and of one that is.
LEMMA KindIs ==
    ASSUME NEW args \in Seq(Argument), NEW i \in Nat
    PROVE  /\ i \in DOMAIN args /\ ~IsValue(args, i) =>
                /\ i \in Inputs(args) <=> IsWord(args[i])
                /\ \A letter :
                     i \in Flags(args, letter) <=> TakesNext(args, i) /\ args[i].letter = letter
                /\ \A texts :
                     i \in LevelArgs(args, texts) <=>
                        /\ ~IsWord(args[i]) /\ args[i].letter = "o"
                        /\ \E t \in texts : args[i].rest = Levels[t]
           /\ i \notin DOMAIN args \/ IsValue(args, i) =>
                /\ i \notin Inputs(args)
                /\ \A letter : i \notin Flags(args, letter)
                /\ \A texts : i \notin LevelArgs(args, texts)
<1>1. ASSUME NEW letter, TakesNext(args, i)
      PROVE  Arg(args, i, {letter}) <=> args[i].letter = letter
  BY <1>1 DEF TakesNext, Arg
<1> QED
  BY <1>1 DEF Inputs, Flags, LevelArgs, Arg
\* The argument i is one that main() accepts.
Formed(args, i) ==
    /\ ~IsValue(args, i) /\ ~IsWord(args[i]) =>
          \/ args[i].letter = "w"
          \/ args[i].letter = "d" /\ args[i].rest # BadMacro
          \/ i \in LevelArgs(args, DOMAIN Levels)
          \/ TakesNext(args, i) /\ i < Len(args)
    /\ i \in Flags(args, "f") => args[i + 1] \in {[word |-> Bin], [word |-> Com]}

AtMostOne(S) == \A x \in S, y \in S : x = y

\* The arguments before a are right, and a is not the value of one of them.
Right(args, a) ==
    /\ a \in 1..Len(args) + 1
    /\ ~IsValue(args, a)
    /\ \A i \in 1..a - 1 : Formed(args, i)
    /\ \A letter : \A i \in Until(Flags(args, letter), a) : i + 1 < a
    /\ AtMostOne(Until(Inputs(args), a))
    /\ AtMostOne(Until(Flags(args, "o"), a)) /\ AtMostOne(Until(Flags(args, "l"), a))

\* The step from one argument to the next.
After(args, a) == IF TakesNext(args, a) THEN a + 2 ELSE a + 1

\* What has been read is what was read before, and perhaps the argument a.
LEMMA UntilBehind ==
    ASSUME NEW args \in Seq(Argument), NEW a \in DOMAIN args, ~IsValue(args, a), NEW S,
           IsValue(args, a + 1) => a + 1 \notin S
    PROVE  Until(S, After(args, a)) = Until(S, a + 1)
<1>1. a \in Nat \ {0} /\ a + 1 \in Nat \ {0}
  OBVIOUS
<1>2. IsValue(args, a + 1) <=> TakesNext(args, a)
  BY <1>1, ValuesFollowFlags
<1>3. TakesNext(args, a) => Until(S, (a + 1) + 1) = Until(S, a + 1)
  <2> DEFINE b == a + 1
  <2>1. b \in Nat \ {0} /\ (TakesNext(args, a) => b \notin S)
    BY <1>1, <1>2
  <2> HIDE DEF b
  <2>2. TakesNext(args, a) => Until(S, b + 1) = Until(S, b)
    BY <2>1, NextUntil
  <2> QED
    BY <2>2 DEF b
<1>4. a + 2 = (a + 1) + 1
  BY <1>1
<1> QED
  BY <1>3, <1>4 DEF After

LEMMA SetsBehind ==
    ASSUME NEW args \in Seq(Argument), NEW a \in DOMAIN args, ~IsValue(args, a)
    PROVE  LET b == After(args, a)
           IN  /\ Until(Inputs(args), b) = Until(Inputs(args), a + 1)
               /\ \A letter : Until(Flags(args, letter), b) = Until(Flags(args, letter), a + 1)
               /\ \A texts : Until(LevelArgs(args, texts), b) = Until(LevelArgs(args, texts), a + 1)
<1>1. a + 1 \in Nat
  OBVIOUS
<1>2. IsValue(args, a + 1) =>
         /\ a + 1 \notin Inputs(args)
         /\ \A letter : a + 1 \notin Flags(args, letter)
         /\ \A texts : a + 1 \notin LevelArgs(args, texts)
  <2> DEFINE b == a + 1
  <2>1. b \in Nat
    BY <1>1
  <2> HIDE DEF b
  <2>2. IsValue(args, b) =>
         /\ b \notin Inputs(args)
         /\ \A letter : b \notin Flags(args, letter)
         /\ \A texts : b \notin LevelArgs(args, texts)
    BY <2>1, KindIs
  <2> QED
    BY <2>2 DEF b
<1> QED
  BY <1>2, UntilBehind

LEMMA RightStep ==
    ASSUME NEW args \in Seq(Argument), NEW a \in DOMAIN args, Right(args, a), Formed(args, a),
           IsWord(args[a]) => Until(Inputs(args), a) = {},
           TakesNext(args, a) =>
              /\ a < Len(args)
              /\ args[a].letter \in {"o", "l"} => Until(Flags(args, args[a].letter), a) = {}
    PROVE  Right(args, After(args, a))
<1> DEFINE b == After(args, a)
<1>1. a \in Nat \ {0} /\ Len(args) \in Nat /\ a <= Len(args) /\ ~IsValue(args, a)
  BY DEF Right
<1>2. b = (IF TakesNext(args, a) THEN a + 2 ELSE a + 1) /\ b \in 1..Len(args) + 1 /\ a < b
  BY <1>1 DEF After
<1>3. ~IsValue(args, b)
  <2>1. CASE TakesNext(args, a)
    <3> DEFINE c == a + 1
    <3>1. c \in Nat \ {0} /\ c \in DOMAIN args /\ IsValue(args, c)
      BY <1>1, <2>1, ValuesFollowFlags
    <3> HIDE DEF c
    <3>2. ~IsValue(args, c + 1)
      BY <3>1, ValuesFollowFlags
    <3>3. c + 1 = b
      BY <1>1, <1>2, <2>1 DEF c
    <3> QED
      BY <3>2, <3>3
  <2>2. CASE ~TakesNext(args, a)
    BY <1>1, <1>2, <2>2, ValuesFollowFlags
  <2> QED
    BY <2>1, <2>2
<1>4. ASSUME NEW i \in 1..b - 1
      PROVE  Formed(args, i)
  <2>1. CASE i < a
    BY <1>1, <2>1 DEF Right
  <2>2. CASE i = a
    BY <2>2
  <2>3. CASE i > a
    <3>1. TakesNext(args, a) /\ i = a + 1
      BY <1>1, <1>2, <2>3
    <3>2. IsValue(args, i)
      BY <1>1, <3>1, ValuesFollowFlags
    <3>3. i \notin Flags(args, "f")
      BY <3>2, KindIs
    <3> QED
      BY <3>2, <3>3 DEF Formed
  <2> QED
    BY <1>1, <2>1, <2>2, <2>3
<1> HIDE DEF b
<1>5. /\ Until(Inputs(args), b) = Until(Inputs(args), a + 1)
      /\ \A letter : Until(Flags(args, letter), b) = Until(Flags(args, letter), a + 1)
  BY <1>1, SetsBehind DEF b
<1>6. /\ a \in Inputs(args) <=> IsWord(args[a])
      /\ \A letter : a \in Flags(args, letter) <=> TakesNext(args, a) /\ args[a].letter = letter
  BY <1>1, KindIs
<1>7. ASSUME NEW S
      PROVE  /\ Until(S, a + 1) \subseteq Until(S, a) \cup {a}
             /\ a \in Until(S, a + 1) => a \in S
  BY <1>1 DEF Until
<1>8. ASSUME NEW letter, NEW i \in Until(Flags(args, letter), b)
      PROVE  i + 1 < b
  <2>1. i \in Until(Flags(args, letter), a) \/ (i = a /\ a \in Flags(args, letter))
    BY <1>5, <1>7
  <2>2. CASE i \in Until(Flags(args, letter), a)
    <3>1. i + 1 < a /\ i \in Nat
      BY <1>1, <2>2 DEF Right, Until
    <3> QED
      BY <1>1, <1>2, <3>1
  <2>3. CASE i = a /\ a \in Flags(args, letter)
    BY <1>1, <1>2, <1>6, <2>3
  <2> QED
    BY <2>1, <2>2, <2>3
<1>9. AtMostOne(Until(Inputs(args), b))
  <2>1. CASE IsWord(args[a])
    <3>1. Until(Inputs(args), b) \subseteq {a}
      BY <1>5, <1>7, <2>1
    <3> QED
      BY <3>1 DEF AtMostOne
  <2>2. CASE ~IsWord(args[a])
    <3>1. Until(Inputs(args), b) \subseteq Until(Inputs(args), a)
      BY <1>5, <1>6, <1>7, <2>2
    <3> QED
      BY <3>1 DEF AtMostOne, Right
  <2> QED
    BY <2>1, <2>2
<1>10. ASSUME NEW letter \in {"o", "l"}
       PROVE  AtMostOne(Until(Flags(args, letter), b))
  <2>1. CASE TakesNext(args, a) /\ args[a].letter = letter
    <3>1. Until(Flags(args, letter), b) \subseteq {a}
      BY <1>5, <1>7, <2>1
    <3> QED
      BY <3>1 DEF AtMostOne
  <2>2. CASE ~(TakesNext(args, a) /\ args[a].letter = letter)
    <3>1. Until(Flags(args, letter), b) \subseteq Until(Flags(args, letter), a)
      BY <1>5, <1>6, <1>7, <2>2
    <3> QED
      BY <3>1 DEF AtMostOne, Right
  <2> QED
    BY <2>1, <2>2
<1>11. Right(args, b)
  BY <1>2, <1>3, <1>4, <1>8, <1>9, <1>10 DEF Right
<1> QED
  BY <1>11 DEF b
\* Each kind of argument changes one kind of option.
LEMMA OptionsBehindWord ==
    ASSUME NEW args \in Seq(Argument), NEW a \in DOMAIN args, ~IsValue(args, a),
           IsWord(args[a])
    PROVE  OptionsTo(args, After(args, a)) = [OptionsTo(args, a) EXCEPT !.input = args[a]]
<1> DEFINE b == After(args, a)
<1>1. a \in Nat \ {0}
  OBVIOUS
<1>2. /\ a \in Inputs(args)
      /\ \A letter : a \notin Flags(args, letter)
      /\ \A texts : a \notin LevelArgs(args, texts)
  BY <1>1, KindIs DEF TakesNext, Arg
<1>3. Until(Inputs(args), b) # {} /\ Max(Until(Inputs(args), b)) = a
  BY <1>1, <1>2, SetsBehind, NextUntil
<1>4. /\ \A letter : Until(Flags(args, letter), b) = Until(Flags(args, letter), a)
      /\ \A texts : Until(LevelArgs(args, texts), b) = Until(LevelArgs(args, texts), a)
  BY <1>1, <1>2, SetsBehind, NextUntil
<1> HIDE DEF b
<1>5. /\ InputAt(args, b) = args[a]
      /\ \A letter : FlagValue(args, b, letter) = FlagValue(args, a, letter)
      /\ \A texts : HasLevel(args, b, texts) = HasLevel(args, a, texts)
      /\ OptimizationAt(args, b) = OptimizationAt(args, a)
  BY <1>3, <1>4 DEF InputAt, FlagValue, HasLevel, OptimizationAt
<1>6. OptionsTo(args, b) = [OptionsTo(args, a) EXCEPT !.input = args[a]]
  BY <1>5 DEF OptionsTo
<1> QED
  BY <1>6 DEF b

LEMMA OptionsBehindFlag ==
    ASSUME NEW args \in Seq(Argument), NEW a \in DOMAIN args, ~IsValue(args, a),
           TakesNext(args, a)
    PROVE  OptionsTo(args, After(args, a)) =
              IF args[a].letter = "f"
              THEN [OptionsTo(args, a) EXCEPT !.com = (args[a + 1] = [word |-> Com])]
              ELSE IF args[a].letter = "o"
              THEN [OptionsTo(args, a) EXCEPT !.output = args[a + 1]]
              ELSE [OptionsTo(args, a) EXCEPT !.listing = args[a + 1]]
<1> DEFINE b == After(args, a)
<1>1. a \in Nat \ {0} /\ args[a] \in Argument
  OBVIOUS
<1>2. args[a].letter \in {"f", "o", "l"} /\ ~IsWord(args[a]) /\ args[a].rest = <<>>
  BY DEF TakesNext, Arg
<1>3. /\ a \notin Inputs(args)
      /\ \A letter : a \in Flags(args, letter) <=> args[a].letter = letter
      /\ \A texts : a \in LevelArgs(args, texts) =>
            \E t \in texts : args[a].rest = Levels[t]
  BY <1>1, <1>2, KindIs
<1>4. ASSUME NEW t \in DOMAIN Levels
      PROVE  Levels[t] # <<>>
  BY DEF Levels
<1>5. ASSUME NEW texts, texts \subseteq DOMAIN Levels
      PROVE  Until(LevelArgs(args, texts), b) = Until(LevelArgs(args, texts), a)
  <2>1. a \notin LevelArgs(args, texts)
    BY <1>2, <1>3, <1>4, <1>5
  <2> QED
    BY <1>1, <2>1, SetsBehind, NextUntil
<1>6. InputAt(args, b) = InputAt(args, a)
  BY <1>1, <1>3, SetsBehind, NextUntil DEF InputAt
<1>7. ASSUME NEW letter
      PROVE  FlagValue(args, b, letter) =
                IF args[a].letter = letter THEN args[a + 1] ELSE FlagValue(args, a, letter)
  <2>1. Until(Flags(args, letter), b) = Until(Flags(args, letter), a + 1)
    BY <1>1, SetsBehind
  <2>2. CASE args[a].letter = letter
    <3>1. Until(Flags(args, letter), a + 1) # {} /\ Max(Until(Flags(args, letter), a + 1)) = a
      BY <1>1, <1>3, <2>2, NextUntil
    <3> QED
      BY <2>1, <2>2, <3>1 DEF FlagValue
  <2>3. CASE args[a].letter # letter
    <3>1. Until(Flags(args, letter), a + 1) = Until(Flags(args, letter), a)
      BY <1>1, <1>3, <2>3, NextUntil
    <3> QED
      BY <2>1, <2>3, <3>1 DEF FlagValue
  <2> QED
    BY <2>2, <2>3
<1>8. /\ {"O0", "O1", "O9", "A"} \subseteq DOMAIN Levels /\ {"O1", "I", "A"} \subseteq DOMAIN Levels
      /\ {"L", "A"} \subseteq DOMAIN Levels /\ {"G", "A"} \subseteq DOMAIN Levels
  BY DEF Levels
<1> HIDE DEF b
<1>9. /\ OptimizationAt(args, b) = OptimizationAt(args, a)
      /\ HasLevel(args, b, {"O1", "I", "A"}) = HasLevel(args, a, {"O1", "I", "A"})
      /\ HasLevel(args, b, {"L", "A"}) = HasLevel(args, a, {"L", "A"})
      /\ HasLevel(args, b, {"G", "A"}) = HasLevel(args, a, {"G", "A"})
  BY <1>5, <1>8 DEF OptimizationAt, HasLevel
<1>10. OptionsTo(args, b) =
              IF args[a].letter = "f"
              THEN [OptionsTo(args, a) EXCEPT !.com = (args[a + 1] = [word |-> Com])]
              ELSE IF args[a].letter = "o"
              THEN [OptionsTo(args, a) EXCEPT !.output = args[a + 1]]
              ELSE [OptionsTo(args, a) EXCEPT !.listing = args[a + 1]]
  <2>1. CASE args[a].letter = "f"
    <3>1. /\ FlagValue(args, b, "f") = args[a + 1]
          /\ FlagValue(args, b, "o") = FlagValue(args, a, "o")
          /\ FlagValue(args, b, "l") = FlagValue(args, a, "l")
      BY <1>7, <2>1
    <3> QED
      BY <1>6, <1>9, <2>1, <3>1 DEF OptionsTo
  <2>2. CASE args[a].letter = "o"
    <3>1. /\ FlagValue(args, b, "f") = FlagValue(args, a, "f")
          /\ FlagValue(args, b, "o") = args[a + 1]
          /\ FlagValue(args, b, "l") = FlagValue(args, a, "l")
      BY <1>7, <2>2
    <3> QED
      BY <1>6, <1>9, <2>2, <3>1 DEF OptionsTo
  <2>3. CASE args[a].letter = "l"
    <3>1. /\ FlagValue(args, b, "f") = FlagValue(args, a, "f")
          /\ FlagValue(args, b, "o") = FlagValue(args, a, "o")
          /\ FlagValue(args, b, "l") = args[a + 1]
      BY <1>7, <2>3
    <3> QED
      BY <1>6, <1>9, <2>3, <3>1 DEF OptionsTo
  <2> QED
    BY <1>2, <2>1, <2>2, <2>3
<1> QED
  BY <1>10 DEF b

\* -D and -w change none.
LEMMA OptionsBehindPlain ==
    ASSUME NEW args \in Seq(Argument), NEW a \in DOMAIN args, ~IsValue(args, a),
           ~IsWord(args[a]), args[a].letter \notin {"o", "f", "l"}
    PROVE  OptionsTo(args, After(args, a)) = OptionsTo(args, a)
<1> DEFINE b == After(args, a)
<1>1. a \in Nat \ {0}
  OBVIOUS
<1>2. /\ a \notin Inputs(args)
      /\ \A letter : a \notin Flags(args, letter)
      /\ \A texts : a \notin LevelArgs(args, texts)
  BY <1>1, KindIs DEF TakesNext, Arg
<1>3. /\ Until(Inputs(args), b) = Until(Inputs(args), a)
      /\ \A letter : Until(Flags(args, letter), b) = Until(Flags(args, letter), a)
      /\ \A texts : Until(LevelArgs(args, texts), b) = Until(LevelArgs(args, texts), a)
  BY <1>1, <1>2, SetsBehind, NextUntil
<1> HIDE DEF b
<1>4. OptionsTo(args, b) = OptionsTo(args, a)
  BY <1>3 DEF OptionsTo, InputAt, FlagValue, OptimizationAt, HasLevel
<1> QED
  BY <1>4 DEF b

\* The texts behind -O differ.
LEMMA LevelsDiffer ==
    /\ DOMAIN Levels = {"O0", "O1", "O9", "L", "G", "I", "A"}
    /\ \A s \in DOMAIN Levels, t \in DOMAIN Levels : Levels[s] = Levels[t] => s = t
<1>1. DOMAIN Levels = {"O0", "O1", "O9", "L", "G", "I", "A"}
  BY DEF Levels
<1>2. \A t \in DOMAIN Levels :
         Levels[t][1] = CASE t = "O0" -> 10 [] t = "O1" -> 11 [] t = "O9" -> 12 [] t = "L" -> 13
                          [] t = "G" -> 14 [] t = "I" -> 15 [] t = "A" -> 16
  BY <1>1 DEF Levels
<1>3. ASSUME NEW s \in DOMAIN Levels, NEW t \in DOMAIN Levels, Levels[s] = Levels[t]
      PROVE  s = t
  <2>1. Levels[s][1] = Levels[t][1]
    BY <1>3
  <2> QED
    BY <1>1, <1>2, <2>1
<1> QED
  BY <1>1, <1>3

LEMMA OptionsBehindLevel ==
    ASSUME NEW args \in Seq(Argument), NEW a \in DOMAIN args, ~IsValue(args, a),
           ~IsWord(args[a]), args[a].letter = "o",
           NEW t \in DOMAIN Levels, args[a].rest = Levels[t],
           options = OptionsTo(args, a)
    PROVE  OptionsTo(args, After(args, a)) = Optimized(args[a].rest)
<1> DEFINE b == After(args, a)
           text == args[a].rest
<1>1. a \in Nat \ {0}
  OBVIOUS
<1>2. ~TakesNext(args, a)
  <2>1. Levels[t] # <<>>
    BY DEF Levels
  <2> QED
    BY <2>1 DEF TakesNext
<1>3. /\ a \notin Inputs(args)
      /\ \A letter : a \notin Flags(args, letter)
  BY <1>1, <1>2, KindIs
<1>4. ASSUME NEW texts, texts \subseteq DOMAIN Levels
      PROVE  a \in LevelArgs(args, texts) <=> t \in texts
  <2>1. a \in LevelArgs(args, texts) <=> \E s \in texts : Levels[t] = Levels[s]
    BY <1>1, KindIs
  <2> QED
    BY <1>4, <2>1, LevelsDiffer
<1>5. ASSUME NEW texts, texts \subseteq DOMAIN Levels
      PROVE  /\ t \notin texts => Until(LevelArgs(args, texts), b) = Until(LevelArgs(args, texts), a)
             /\ t \in texts => /\ Until(LevelArgs(args, texts), b) # {}
                               /\ Max(Until(LevelArgs(args, texts), b)) = a
  BY <1>1, <1>4, <1>5, SetsBehind, NextUntil
<1>6. /\ InputAt(args, b) = InputAt(args, a)
      /\ \A letter : FlagValue(args, b, letter) = FlagValue(args, a, letter)
  BY <1>1, <1>3, SetsBehind, NextUntil DEF InputAt, FlagValue
<1>7. ASSUME NEW texts, texts \subseteq DOMAIN Levels
      PROVE  HasLevel(args, b, texts) <=> HasLevel(args, a, texts) \/ t \in texts
  BY <1>5, <1>7 DEF HasLevel
<1>8. ASSUME NEW s \in DOMAIN Levels
      PROVE  text = Levels[s] <=> t = s
  BY <1>8, LevelsDiffer
<1>9. /\ text = Levels.O0 <=> t = "O0"
      /\ text = Levels.O1 <=> t = "O1"
      /\ text = Levels.O9 <=> t = "O9"
      /\ text = Levels.L <=> t = "L"
      /\ text = Levels.G <=> t = "G"
      /\ text = Levels.I <=> t = "I"
      /\ text = Levels.A <=> t = "A"
  BY <1>8, LevelsDiffer
<1> DEFINE K == {"O0", "O1", "O9", "A"}
<1>10. /\ K \subseteq DOMAIN Levels /\ {"O1", "I", "A"} \subseteq DOMAIN Levels
       /\ {"L", "A"} \subseteq DOMAIN Levels /\ {"G", "A"} \subseteq DOMAIN Levels
  BY LevelsDiffer
<1> HIDE DEF b
<1>11. OptionsTo(args, b) = Optimized(text)
  <2>1. /\ HasLevel(args, b, {"O1", "I", "A"}) <=>
              HasLevel(args, a, {"O1", "I", "A"}) \/ t \in {"O1", "I", "A"}
        /\ HasLevel(args, b, {"L", "A"}) <=> HasLevel(args, a, {"L", "A"}) \/ t \in {"L", "A"}
        /\ HasLevel(args, b, {"G", "A"}) <=> HasLevel(args, a, {"G", "A"}) \/ t \in {"G", "A"}
    BY <1>7, <1>10
  <2>2. /\ text \in {Levels.O1, Levels.I, Levels.A} <=> t \in {"O1", "I", "A"}
        /\ text \in {Levels.L, Levels.A} <=> t \in {"L", "A"}
        /\ text \in {Levels.G, Levels.A} <=> t \in {"G", "A"}
        /\ text \in {Levels.O9, Levels.A} <=> t \in {"O9", "A"}
    BY <1>9
  <2>3. OptimizationAt(args, b) =
           CASE text = Levels.O0 -> 0 [] text = Levels.O1 -> 1
             [] text \in {Levels.O9, Levels.A} -> 9 [] OTHER -> OptimizationAt(args, a)
    <3>1. CASE t \in K
      <4>1. OptimizationAt(args, b) =
               CASE text = Levels.O0 -> 0 [] text = Levels.O1 -> 1 [] OTHER -> 9
        BY <1>5, <1>10, <3>1 DEF OptimizationAt
      <4> QED
        BY <1>9, <2>2, <3>1, <4>1
    <3>2. CASE t \notin K
      <4>1. OptimizationAt(args, b) = OptimizationAt(args, a)
        BY <1>5, <1>10, <3>2 DEF OptimizationAt
      <4> QED
        BY <1>9, <2>2, <3>2, <4>1
    <3> QED
      BY <3>1, <3>2
  <2>4. /\ options.opt_level = OptimizationAt(args, a)
        /\ options.opt_int = HasLevel(args, a, {"O1", "I", "A"})
        /\ options.opt_lea = HasLevel(args, a, {"L", "A"})
        /\ options.opt_segreg = HasLevel(args, a, {"G", "A"})
    BY DEF OptionsTo
  <2> HIDE DEF text, K
  <2>5. /\ HasLevel(args, b, {"O1", "I", "A"}) =
              (options.opt_int \/ text \in {Levels.O1, Levels.I, Levels.A})
        /\ HasLevel(args, b, {"L", "A"}) = (options.opt_lea \/ text \in {Levels.L, Levels.A})
        /\ HasLevel(args, b, {"G", "A"}) = (options.opt_segreg \/ text \in {Levels.G, Levels.A})
    BY <2>1, <2>2, <2>4 DEF HasLevel
  <2>6. OptimizationAt(args, b) =
           CASE text = Levels.O0 -> 0 [] text = Levels.O1 -> 1
             [] text \in {Levels.O9, Levels.A} -> 9 [] OTHER -> options.opt_level
    BY <2>3, <2>4
  <2>7. Optimized(text) =
           [options EXCEPT !.opt_level = OptimizationAt(args, b),
                           !.opt_int = HasLevel(args, b, {"O1", "I", "A"}),
                           !.opt_lea = HasLevel(args, b, {"L", "A"}),
                           !.opt_segreg = HasLevel(args, b, {"G", "A"})]
    BY <2>5, <2>6, Zenon DEF Optimized
  <2> QED
    BY <1>6, <2>7 DEF OptionsTo
<1> QED
  BY <1>11 DEF b

-----------------------------------------------------------------------------
(* Acceptable arguments.                                                      *)

LEMMA FewAre ==
    ASSUME NEW n \in Nat, NEW S, S \subseteq 1..n
    PROVE  /\ Cardinality(S) <= 1 <=> AtMostOne(S)
           /\ Cardinality(S) = 1 <=> S # {} /\ AtMostOne(S)
<1>1. IsFiniteSet(S)
  <2>1. IsFiniteSet(1..n)
    BY FS_Interval
  <2> QED
    BY <2>1, FS_Subset
<1>2. Cardinality(S) \in Nat
  BY <1>1, FS_CardinalityType
<1>3. Cardinality(S) = 0 <=> S = {}
  BY <1>1, FS_EmptySet
<1>4. Cardinality(S) = 1 <=> \E x : S = {x}
  BY <1>1, FS_Singleton
<1>5. AtMostOne(S) <=> S = {} \/ \E x : S = {x}
  <2>1. ASSUME AtMostOne(S), S # {}
        PROVE  \E x : S = {x}
    <3>1. PICK x \in S : TRUE
      BY <2>1
    <3>2. S = {x}
      BY <2>1 DEF AtMostOne
    <3> QED
      BY <3>2
  <2>2. ASSUME S = {} \/ \E x : S = {x}
        PROVE  AtMostOne(S)
    BY <2>2 DEF AtMostOne
  <2> QED
    BY <2>1, <2>2
<1>6. Cardinality(S) = 1 => S # {}
  BY <1>4
<1>7. Cardinality(S) <= 1 <=> Cardinality(S) = 0 \/ Cardinality(S) = 1
  BY <1>2
<1> QED
  BY <1>3, <1>4, <1>5, <1>6, <1>7

LEMMA AcceptableIs ==
    ASSUME NEW args \in Seq(Argument)
    PROVE  Acceptable(args) <=>
              /\ \A i \in DOMAIN args : Formed(args, i)
              /\ Inputs(args) # {} /\ AtMostOne(Inputs(args))
              /\ AtMostOne(Flags(args, "o")) /\ AtMostOne(Flags(args, "l"))
<1>1. /\ Len(args) \in Nat /\ Inputs(args) \subseteq 1..Len(args)
      /\ \A letter : Flags(args, letter) \subseteq 1..Len(args)
  BY DEF Inputs, Flags
<1>2. /\ Cardinality(Inputs(args)) = 1 <=> Inputs(args) # {} /\ AtMostOne(Inputs(args))
      /\ Cardinality(Flags(args, "o")) <= 1 <=> AtMostOne(Flags(args, "o"))
      /\ Cardinality(Flags(args, "l")) <= 1 <=> AtMostOne(Flags(args, "l"))
  BY <1>1, FewAre
<1>3. (\A i \in DOMAIN args : Formed(args, i)) <=>
         /\ \A i \in DOMAIN args : ~IsValue(args, i) /\ ~IsWord(args[i]) =>
               \/ args[i].letter = "w"
               \/ args[i].letter = "d" /\ args[i].rest # BadMacro
               \/ i \in LevelArgs(args, DOMAIN Levels)
               \/ TakesNext(args, i) /\ i < Len(args)
         /\ \A i \in Flags(args, "f") : args[i + 1] \in {[word |-> Bin], [word |-> Com]}
  <2>1. Flags(args, "f") \subseteq DOMAIN args
    BY DEF Flags
  <2> QED
    BY <2>1, Zenon DEF Formed
<1> QED
  BY <1>2, <1>3, Zenon DEF Acceptable

\* All arguments have been read.
LEMMA RightAtEnd ==
    ASSUME NEW args \in Seq(Argument), NEW a, Right(args, a), a > Len(args)
    PROVE  /\ a = Len(args) + 1
           /\ Until(Inputs(args), a) = Inputs(args)
           /\ Inputs(args) # {} => Acceptable(args)
<1>1. a = Len(args) + 1 /\ 1..a - 1 = DOMAIN args
  BY DEF Right
<1>2. Until(Inputs(args), a) = Inputs(args)
  BY <1>1 DEF Until, Inputs
<1>3. \A letter : Until(Flags(args, letter), a) = Flags(args, letter)
  BY <1>1 DEF Until, Flags
<1>4. \A i \in DOMAIN args : Formed(args, i)
  BY <1>1 DEF Right
<1>5. /\ AtMostOne(Inputs(args)) /\ AtMostOne(Flags(args, "o")) /\ AtMostOne(Flags(args, "l"))
  BY <1>2, <1>3 DEF Right
<1> QED
  BY <1>1, <1>2, <1>4, <1>5, AcceptableIs

LEMMA LargestBelow ==
    ASSUME NEW n \in Nat, NEW S, S \subseteq 1..n, S # {}
    PROVE  \E m \in S : \A y \in S : y <= m
<1> DEFINE T == {k \in 0..n : n - k \in S}
<1>1. PICK x \in S : TRUE
  OBVIOUS
<1>2. n - x \in T
  <2>1. n - x \in 0..n /\ n - (n - x) = x
    BY <1>1
  <2> QED
    BY <1>1, <2>1
<1>3. PICK k \in T : \A j \in T : k <= j
  <2>1. T \subseteq Nat
    OBVIOUS
  <2> HIDE DEF T
  <2>2. T # {}
    BY <1>2
  <2> QED
    BY <2>1, <2>2, Smallest
<1>4. n - k \in S /\ k \in Nat
  BY <1>3
<1>5. ASSUME NEW y \in S
      PROVE  y <= n - k
  <2>1. n - y \in 0..n /\ n - (n - y) = y
    OBVIOUS
  <2>2. n - y \in T
    BY <2>1
  <2>3. k <= n - y
    BY <1>3, <2>2
  <2> QED
    BY <1>4, <2>1, <2>3
<1> QED
  BY <1>4, <1>5

\* What has been given so far.
LEMMA GivenIs ==
    ASSUME NEW args \in Seq(Argument), NEW a, Right(args, a)
    PROVE  /\ InputAt(args, a) # None <=> Until(Inputs(args), a) # {}
           /\ \A letter : FlagValue(args, a, letter) # None <=> Until(Flags(args, letter), a) # {}
<1>1. a \in Nat /\ a <= Len(args) + 1 /\ Len(args) \in Nat
  BY DEF Right
<1>2. ASSUME NEW S, Until(S, a) # {}
      PROVE  Max(Until(S, a)) \in Until(S, a)
  <2>1. a - 1 \in Nat /\ Until(S, a) \subseteq 1..a - 1
    BY <1>1, <1>2 DEF Until
  <2>2. \E m \in Until(S, a) : \A y \in Until(S, a) : y <= m
    BY <1>2, <2>1, LargestBelow
  <2>3. PICK m \in Until(S, a) : \A y \in Until(S, a) : y <= m
    BY <2>2
  <2>4. Until(S, a) \subseteq Int
    BY <1>1 DEF Until
  <2> QED
    BY <2>3, <2>4, LargestIs
<1>3. ASSUME Until(Inputs(args), a) # {}
      PROVE  InputAt(args, a) # None
  <2>1. Max(Until(Inputs(args), a)) \in DOMAIN args
    BY <1>2, <1>3 DEF Until, Inputs
  <2> QED
    BY <1>3, <2>1, ArgumentIs DEF InputAt
<1>4. ASSUME NEW letter, Until(Flags(args, letter), a) # {}
      PROVE  FlagValue(args, a, letter) # None
  <2> DEFINE m == Max(Until(Flags(args, letter), a))
  <2>1. m \in Until(Flags(args, letter), a)
    BY <1>2, <1>4
  <2>2. m + 1 < a /\ m \in Nat
    BY <1>1, <2>1 DEF Right, Until
  <2>3. m + 1 \in DOMAIN args
    BY <1>1, <2>2
  <2>4. args[m + 1] # None
    BY <2>3, ArgumentIs
  <2> QED
    BY <1>4, <2>4 DEF FlagValue
<1> QED
  BY <1>3, <1>4 DEF InputAt, FlagValue

\* What each argument and each option was read from, and that nothing refused is right.
ArgumentsRead ==
    /\ Right(argv, argument) /\ options = OptionsTo(argv, argument)
    /\ phase \notin {"arguments", "done"} => argument > Len(argv) /\ options.input # None
    /\ Refused => ~Acceptable(argv)

LEMMA AcceptReads ==
    ASSUME Settings, ArgumentsRead, NEW n, NEW changed, Accept(n, changed),
           phase = "arguments", argument <= Len(argv), Formed(argv, argument),
           n = (IF TakesNext(argv, argument) THEN 2 ELSE 1),
           changed = OptionsTo(argv, After(argv, argument)),
           IsWord(ThisArgument) => options.input = None,
           TakesNext(argv, argument) =>
              /\ argument < Len(argv)
              /\ ThisArgument.letter = "o" => options.output = None
              /\ ThisArgument.letter = "l" => options.listing = None
    PROVE  ArgumentsRead'
<1>1. /\ options' = changed /\ argument' = argument + n
      /\ UNCHANGED <<phase, argv>>
  BY Zenon DEF Accept, unchangedByArgument, sessionVars
<1>2. /\ argv \in Seq(Argument) /\ Right(argv, argument)
      /\ options = OptionsTo(argv, argument)
  BY DEF Settings, ArgumentsRead
<1>3. argument \in DOMAIN argv /\ argument' = After(argv, argument)
  BY <1>1, <1>2 DEF After, Right
<1>4. /\ options.input = InputAt(argv, argument)
      /\ options.output = FlagValue(argv, argument, "o")
      /\ options.listing = FlagValue(argv, argument, "l")
  BY <1>2 DEF OptionsTo
<1>5. /\ IsWord(ThisArgument) => Until(Inputs(argv), argument) = {}
      /\ TakesNext(argv, argument) =>
           /\ ThisArgument.letter = "o" => Until(Flags(argv, "o"), argument) = {}
           /\ ThisArgument.letter = "l" => Until(Flags(argv, "l"), argument) = {}
  BY <1>2, <1>4, GivenIs
<1>6. Right(argv, After(argv, argument))
  BY <1>2, <1>3, <1>5, RightStep DEF ThisArgument
<1>7. phase' = "arguments"
  BY <1>1
<1> QED
  BY <1>1, <1>3, <1>6, <1>7 DEF ArgumentsRead, Refused

LEMMA RejectReads ==
    ASSUME ArgumentsRead, NEW what, Reject(what), ~Acceptable(argv)
    PROVE  ArgumentsRead'
<1>1. UNCHANGED <<argv, argument, options>> /\ phase' = "done"
  BY Zenon DEF Reject, Exit, unchangedByArgument, sessionVars
<1> QED
  BY <1>1 DEF ArgumentsRead

LEMMA Misformed ==
    ASSUME Settings, argument \in DOMAIN argv, ~Formed(argv, argument)
    PROVE  ~Acceptable(argv)
  BY AcceptableIs DEF Settings

LEMMA InputReads ==
    ASSUME Settings, ArgumentsRead, InputArgument
    PROVE  ArgumentsRead'
<1>1. /\ argv \in Seq(Argument) /\ Right(argv, argument) /\ phase = "arguments"
      /\ argument <= Len(argv) /\ IsWord(ThisArgument) /\ options = OptionsTo(argv, argument)
  BY DEF Settings, ArgumentsRead, InputArgument, Reading
<1>2. argument \in DOMAIN argv /\ ~IsValue(argv, argument) /\ argument \in Nat
  BY <1>1 DEF Right
<1>3. ~TakesNext(argv, argument) /\ argument \in Inputs(argv)
      /\ \A letter : argument \notin Flags(argv, letter)
  BY <1>1, <1>2, KindIs DEF ThisArgument, TakesNext, Arg
<1>4. options.input = InputAt(argv, argument)
  BY <1>1 DEF OptionsTo
<1>5. CASE options.input # None
  <2>1. PICK i \in Until(Inputs(argv), argument) : TRUE
    BY <1>1, <1>4, <1>5, GivenIs
  <2>2. i \in Inputs(argv) /\ i # argument
    BY <1>2, <2>1 DEF Until
  <2>3. ~Acceptable(argv)
    BY <1>1, <1>3, <2>2, AcceptableIs DEF AtMostOne
  <2> QED
    BY <1>5, <2>3, RejectReads DEF InputArgument
<1>6. CASE options.input = None
  <2>1. Formed(argv, argument)
    BY <1>1, <1>3 DEF Formed, ThisArgument
  <2>2. [options EXCEPT !.input = ThisArgument] = OptionsTo(argv, After(argv, argument))
    BY <1>1, <1>2, OptionsBehindWord DEF ThisArgument
  <2>3. Accept(1, [options EXCEPT !.input = ThisArgument])
    BY <1>6 DEF InputArgument
  <2> QED
    BY <1>1, <1>3, <1>6, <2>1, <2>2, <2>3, AcceptReads
<1> QED
  BY <1>5, <1>6

LEMMA PlainReads ==
    ASSUME Settings, ArgumentsRead, PlainFlag
    PROVE  ArgumentsRead'
<1> DEFINE letter == ThisArgument.letter
           rest == ThisArgument.rest
<1>1. /\ argv \in Seq(Argument) /\ Right(argv, argument) /\ phase = "arguments"
      /\ argument <= Len(argv) /\ ~IsWord(ThisArgument) /\ options = OptionsTo(argv, argument)
  BY DEF Settings, ArgumentsRead, PlainFlag, Reading
<1>2. argument \in DOMAIN argv /\ ~IsValue(argv, argument) /\ argument \in Nat
  BY <1>1 DEF Right
<1>3. /\ \A l : argument \in Flags(argv, l) <=>
                   TakesNext(argv, argument) /\ ThisArgument.letter = l
      /\ argument \in LevelArgs(argv, DOMAIN Levels) <=>
            letter = "o" /\ \E t \in DOMAIN Levels : rest = Levels[t]
  BY <1>1, <1>2, KindIs DEF ThisArgument
<1>4. TakesNext(argv, argument) <=> letter \in {"f", "o", "l"} /\ rest = <<>>
  BY <1>1 DEF TakesNext, Arg, ThisArgument
<1>5. Formed(argv, argument) <=>
         /\ \/ letter = "w"
            \/ letter = "d" /\ rest # BadMacro
            \/ argument \in LevelArgs(argv, DOMAIN Levels)
            \/ TakesNext(argv, argument) /\ argument < Len(argv)
         /\ argument \in Flags(argv, "f") =>
               argv[argument + 1] \in {[word |-> Bin], [word |-> Com]}
  BY <1>1, <1>2, Zenon DEF Formed, ThisArgument
<1>6. \/ letter = "d" /\ rest = BadMacro /\ Reject("bad_macro")
      \/ letter = "d" /\ rest # BadMacro /\ Accept(1, options)
      \/ letter = "w" /\ Accept(1, options)
      \/ /\ letter = "o" /\ rest # <<>> /\ \E t \in DOMAIN Levels : Levels[t] = rest
         /\ Accept(1, Optimized(rest))
      \/ /\ letter = "o" /\ rest # <<>> /\ ~\E t \in DOMAIN Levels : Levels[t] = rest
         /\ Reject("bad_optimization")
      \/ letter \in {"f", "l"} /\ rest # <<>> /\ Reject("flag_too_long")
      \/ letter = "z" /\ Reject("unknown_argument")
  BY Zenon DEF PlainFlag
<1>7. ASSUME NEW what, Reject(what), ~Formed(argv, argument)
      PROVE  ArgumentsRead'
  BY <1>2, <1>7, Misformed, RejectReads
<1>8. CASE letter = "d" /\ rest = BadMacro /\ Reject("bad_macro")
  BY <1>3, <1>4, <1>5, <1>7, <1>8
<1>9. CASE letter \in {"d", "w"} /\ (letter = "d" => rest # BadMacro) /\ Accept(1, options)
  <2>1. OptionsTo(argv, After(argv, argument)) = options
    BY <1>1, <1>2, <1>9, OptionsBehindPlain DEF ThisArgument
  <2>2. ~TakesNext(argv, argument) /\ Formed(argv, argument)
    BY <1>3, <1>4, <1>5, <1>9
  <2> QED
    BY <1>1, <1>9, <2>1, <2>2, AcceptReads
<1>10. CASE /\ letter = "o" /\ rest # <<>> /\ \E t \in DOMAIN Levels : Levels[t] = rest
            /\ Accept(1, Optimized(rest))
  <2>1. OptionsTo(argv, After(argv, argument)) = Optimized(rest)
    BY <1>1, <1>2, <1>10, OptionsBehindLevel DEF ThisArgument
  <2>2. ~TakesNext(argv, argument) /\ Formed(argv, argument)
    BY <1>3, <1>4, <1>5, <1>10
  <2> QED
    BY <1>1, <1>10, <2>1, <2>2, AcceptReads
<1>11. CASE /\ letter = "o" /\ rest # <<>> /\ ~\E t \in DOMAIN Levels : Levels[t] = rest
            /\ Reject("bad_optimization")
  BY <1>3, <1>4, <1>5, <1>7, <1>11
<1>12. CASE letter \in {"f", "l"} /\ rest # <<>> /\ Reject("flag_too_long")
  BY <1>3, <1>4, <1>5, <1>7, <1>12
<1>13. CASE letter = "z" /\ Reject("unknown_argument")
  BY <1>3, <1>4, <1>5, <1>7, <1>13
<1> QED
  BY <1>6, <1>8, <1>9, <1>10, <1>11, <1>12, <1>13

LEMMA ValueReads ==
    ASSUME Settings, ArgumentsRead, FlagWithValue
    PROVE  ArgumentsRead'
<1> DEFINE letter == ThisArgument.letter
           value == argv[argument + 1]
           kind == IF letter = "o" THEN "output" ELSE "listing"
<1>1. /\ argv \in Seq(Argument) /\ Right(argv, argument) /\ phase = "arguments"
      /\ argument <= Len(argv) /\ ~IsWord(ThisArgument) /\ options = OptionsTo(argv, argument)
      /\ ThisArgument.rest = <<>> /\ letter \in {"f", "o", "l"}
  BY DEF Settings, ArgumentsRead, FlagWithValue, Reading
<1>2. argument \in DOMAIN argv /\ ~IsValue(argv, argument) /\ argument \in Nat
  BY <1>1 DEF Right
<1>3. TakesNext(argv, argument)
  BY <1>1 DEF TakesNext, Arg, ThisArgument
<1>4. \A l : argument \in Flags(argv, l) <=> letter = l
  BY <1>1, <1>2, <1>3, KindIs DEF ThisArgument
<1>5. Formed(argv, argument) <=>
         /\ \/ argument \in LevelArgs(argv, DOMAIN Levels)
            \/ argument < Len(argv)
         /\ letter = "f" => value \in {[word |-> Bin], [word |-> Com]}
  <2>1. letter \notin {"w", "d"}
    BY <1>1
  <2> QED
    BY <1>1, <1>2, <1>3, <1>4, <2>1, Zenon DEF Formed, ThisArgument
<1>6. argument \notin LevelArgs(argv, DOMAIN Levels)
  <2>1. \A t \in DOMAIN Levels : Levels[t] # <<>>
    BY DEF Levels
  <2> QED
    BY <1>1, <1>2, <2>1, KindIs DEF ThisArgument
<1>7. argument = Len(argv) \/ argument < Len(argv)
  BY <1>1, <1>2
<1>8. \/ argument = Len(argv) /\ Reject("no_argument")
      \/ /\ argument # Len(argv) /\ letter = "f"
         /\ \/ /\ value \in {[word |-> Bin], [word |-> Com]}
               /\ Accept(2, [options EXCEPT !.com = (value = [word |-> Com])])
            \/ /\ value \notin {[word |-> Bin], [word |-> Com]}
               /\ Reject("bad_format")
      \/ /\ argument # Len(argv) /\ letter # "f"
         /\ \/ Given(kind) /\ Reject("argument_present")
            \/ ~Given(kind) /\ Accept(2, [options EXCEPT ![kind] = value])
  BY Zenon DEF FlagWithValue
<1>9. ASSUME NEW what, Reject(what), ~Formed(argv, argument)
      PROVE  ArgumentsRead'
  BY <1>2, <1>9, Misformed, RejectReads
<1>10. CASE argument = Len(argv) /\ Reject("no_argument")
  <2>1. ~(argument < Len(argv))
    BY <1>2, <1>10
  <2> QED
    BY <1>5, <1>6, <1>9, <1>10, <2>1
<1>11. CASE letter = "f" /\ value \notin {[word |-> Bin], [word |-> Com]} /\ Reject("bad_format")
  BY <1>5, <1>9, <1>11
<1>12. CASE /\ argument # Len(argv) /\ letter = "f" /\ value \in {[word |-> Bin], [word |-> Com]}
            /\ Accept(2, [options EXCEPT !.com = (value = [word |-> Com])])
  <2>1. OptionsTo(argv, After(argv, argument)) = [options EXCEPT !.com = (value = [word |-> Com])]
    BY <1>1, <1>2, <1>3, <1>12, OptionsBehindFlag DEF ThisArgument
  <2>2. Formed(argv, argument)
    BY <1>5, <1>7, <1>12
  <2> HIDE DEF value
  <2> QED
    BY <1>1, <1>3, <1>7, <1>12, <2>1, <2>2, AcceptReads
<1>13. CASE letter \in {"o", "l"} /\ Given(kind) /\ Reject("argument_present")
  <2>1. options[kind] = FlagValue(argv, argument, letter)
    BY <1>1, <1>13 DEF OptionsTo
  <2>2. PICK i \in Until(Flags(argv, letter), argument) : TRUE
    BY <1>1, <1>13, <2>1, GivenIs DEF Given
  <2>3. i \in Flags(argv, letter) /\ i # argument /\ argument \in Flags(argv, letter)
    BY <1>2, <1>4, <2>2 DEF Until
  <2>4. ~AtMostOne(Flags(argv, letter))
    BY <2>3 DEF AtMostOne
  <2>5. ~Acceptable(argv)
    BY <1>1, <1>13, <2>4, AcceptableIs
  <2> QED
    BY <1>13, <2>5, RejectReads
<1>14. CASE /\ argument # Len(argv) /\ letter \in {"o", "l"} /\ ~Given(kind)
            /\ Accept(2, [options EXCEPT ![kind] = value])
  <2>1. OptionsTo(argv, After(argv, argument)) = [options EXCEPT ![kind] = value]
    BY <1>1, <1>2, <1>3, <1>14, OptionsBehindFlag DEF ThisArgument
  <2>2. Formed(argv, argument)
    BY <1>5, <1>7, <1>14
  <2>3. /\ letter = "o" => options.output = None
        /\ letter = "l" => options.listing = None
    BY <1>14 DEF Given
  <2> HIDE DEF value
  <2> QED
    BY <1>1, <1>3, <1>7, <1>14, <2>1, <2>2, <2>3, AcceptReads
<1> QED
  BY <1>1, <1>8, <1>10, <1>11, <1>12, <1>13, <1>14

LEMMA NoInputReads ==
    ASSUME Settings, ArgumentsRead, NoInput
    PROVE  ArgumentsRead'
<1>1. /\ argv \in Seq(Argument) /\ Right(argv, argument) /\ argument > Len(argv)
      /\ options = OptionsTo(argv, argument) /\ options.input = None
      /\ Reject("no_input")
  BY DEF Settings, ArgumentsRead, NoInput, AllRead
<1>2. InputAt(argv, argument) = None
  BY <1>1 DEF OptionsTo
<1>3. Until(Inputs(argv), argument) = {}
  BY <1>1, <1>2, GivenIs
<1>4. ~Acceptable(argv)
  BY <1>1, <1>3, RightAtEnd, AcceptableIs
<1> QED
  BY <1>1, <1>4, RejectReads

\* Behind the arguments nothing changes them.
LEMMA OthersKeepRead ==
    ASSUME Settings, ArgumentsRead, [Next]_vars, ~Arguments
    PROVE  ArgumentsRead'
<1>1. CASE UNCHANGED vars \/ Done
  BY <1>1 DEF vars, sessionVars, Done, ArgumentsRead, Refused
<1>2. ASSUME UNCHANGED <<argv, argument, options>>, phase \notin {"arguments", "done"},
             phase' # "arguments"
      PROVE  ArgumentsRead'
  <2>1. argument \in Nat /\ Len(argv) \in Nat
    BY DEF Settings, ArgumentsRead, Right
  <2>2. argument > Len(argv) /\ options.input # None
    BY <1>2 DEF ArgumentsRead
  <2>3. ~Refused'
    BY <1>2, <2>1, <2>2 DEF Refused
  <2> QED
    BY <1>2, <2>2, <2>3 DEF ArgumentsRead
<1>3. ASSUME NEW p, GoOn(p), p # "arguments"
      PROVE  phase' # "arguments"
  <2>1. phase' \in {"done", p}
    BY <1>3, GoOnIs
  <2> QED
    BY <1>3, <2>1
<1>4. CASE Assemble \/ EndPass0 \/ StartPass \/ EndPass \/ CreateFails \/ DiskFull
  <2>1. UNCHANGED <<argv, argument, options>>
    BY <1>4, Zenon DEF Assemble, Push, Open, CodeLine, WrongLine, GlobalLine, IncbinLine,
       SkipLine, EmptyLine, If, Else, Endif, Unmatched, IncludeLine, EndOfFile, EndPass0,
       StartPass, EndPass, CreateFails, DiskFull, unchangedByMain, unchangedInFile,
       unchangedByLine, unchangedByCode, sessionVars
  <2>2. phase \in {"push", "open", "lines", "assembled", "create"}
    BY <1>4 DEF Assemble, Push, Open, CodeLine, WrongLine, GlobalLine, IncbinLine,
       SkipLine, EmptyLine, If, Else, Endif, Unmatched, IncludeLine, EndOfFile, EndPass0,
       StartPass, EndPass, CreateFails, DiskFull, OnLine, AtLine
  <2>3. ASSUME Push \/ Open
        PROVE  phase' # "arguments"
    BY <1>3, <2>3 DEF Push, Open
  <2>4. ASSUME Unmatched \/ EndOfFile
        PROVE  phase' # "arguments"
    BY <1>3, <2>4 DEF Unmatched, EndOfFile, CloseReturn
  <2>5. ASSUME \/ CodeLine \/ WrongLine \/ GlobalLine \/ IncbinLine \/ SkipLine \/ If \/ Else \/ Endif
                   \/ EmptyLine \/ IncludeLine
        PROVE  phase' # "arguments"
    BY <1>3, <2>5 DEF CodeLine, WrongLine, GlobalLine, IncbinLine, SkipLine, If, Else, Endif,
       EmptyLine, IncludeLine, AfterLine
  <2>6. ASSUME EndPass0 \/ StartPass \/ EndPass \/ CreateFails
        PROVE  phase' # "arguments"
    BY <2>6 DEF EndPass0, StartPass, EndPass, CreateFails, Exit
  <2>7. ASSUME DiskFull
        PROVE  phase' # "arguments"
    BY <2>7 DEF DiskFull
  <2>8. phase' # "arguments"
    BY <1>4, <2>3, <2>4, <2>5, <2>6, <2>7 DEF Assemble
  <2> QED
    BY <1>2, <2>1, <2>2, <2>8
<1>5. CASE StartPass0
  <2>1. /\ UNCHANGED <<argv, argument, options>> /\ argument > Len(argv)
        /\ options.input # None /\ phase' = "push"
    BY <1>5, Zenon DEF StartPass0, AllRead, unchangedByMain, sessionVars
  <2> QED
    BY <2>1 DEF ArgumentsRead, Refused
<1> QED
  BY <1>1, <1>4, <1>5 DEF Next, MainPasses

LEMMA ArgumentsReadStep ==
    ASSUME Settings, ArgumentsRead, [Next]_vars
    PROVE  ArgumentsRead'
  BY InputReads, PlainReads, ValueReads, NoInputReads, OthersKeepRead DEF Arguments

LEMMA NothingRead ==
    ASSUME Init
    PROVE  ArgumentsRead
<1>1. /\ argument = 1 /\ phase = "arguments" /\ argv \in Seq(Argument)
      /\ options = [input |-> None, output |-> None, listing |-> None, com |-> FALSE,
                    opt_level |-> 0, opt_int |-> FALSE, opt_lea |-> FALSE, opt_segreg |-> FALSE]
  BY SessionsAssumption DEF Init
<1>2. \A S : Until(S, 1) = {}
  BY DEF Until
<1>3. Right(argv, 1)
  <2>1. ~IsValue(argv, 1)
    BY ValuesFollowFlags
  <2> QED
    BY <1>1, <1>2, <2>1 DEF Right, AtMostOne
<1>4. None # [word |-> Com]
  BY DEF None, Com
<1>5. options = OptionsTo(argv, 1)
  BY <1>1, <1>2, <1>4 DEF OptionsTo, InputAt, FlagValue, OptimizationAt, HasLevel
<1> QED
  BY <1>1, <1>3, <1>5 DEF ArgumentsRead, Refused

\* main() accepts the arguments if and only if they are well-formed as a whole, and
\* then each option is what its last argument says, however flags take values that
\* look like flags.
THEOREM ArgumentsAreUnderstood == Spec => []ArgumentsAreRight
<1>1. Settings /\ ArgumentsRead => ArgumentsAreRight
  <2>1. ASSUME Settings, ArgumentsRead, phase = "push"
        PROVE  Acceptable(argv) /\ options = OptionsOf(argv)
    <3>1. /\ argv \in Seq(Argument) /\ Right(argv, argument) /\ argument > Len(argv)
          /\ options = OptionsTo(argv, argument) /\ options.input # None
      BY <2>1 DEF Settings, ArgumentsRead
    <3>2. Until(Inputs(argv), argument) # {}
      <4>1. options.input = InputAt(argv, argument)
        BY <3>1 DEF OptionsTo
      <4> QED
        BY <3>1, <4>1, GivenIs
    <3>3. argument = Len(argv) + 1 /\ Inputs(argv) # {} /\ Acceptable(argv)
      BY <3>1, <3>2, RightAtEnd
    <3> QED
      BY <3>1, <3>3, OptionsAtEnd
  <2> QED
    BY <2>1 DEF ArgumentsAreRight, ArgumentsRead
<1>2. Inv /\ ArgumentsRead /\ [Next]_vars => (Inv /\ ArgumentsRead)'
  BY InvStep, ArgumentsReadStep DEF Inv
<1>3. Inv => Settings
  BY DEF Inv
<1> QED
  BY <1>1, <1>2, <1>3, InvInit, NothingRead, PTL DEF Spec

=============================================================================
