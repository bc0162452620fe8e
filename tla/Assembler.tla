------------------------------ MODULE Assembler ------------------------------
(***************************************************************************)
(* What an assembler promises, whatever its passes: it either produces an  *)
(* assembly of the source, or rejects it and leaves no output file behind, *)
(* or stops on an I/O failure.  An assembly is a table of label values     *)
(* together with the lines that define them or emit bytes, and it is       *)
(* correct if reading the source once, with that table, yields exactly     *)
(* those lines: at these addresses, each operand encoded in a form that    *)
(* can hold the label's final value.                                       *)
(***************************************************************************)
EXTENDS Integers, Sequences

VARIABLES source, result, file, table, assembly

vars == <<source, result, file, table, assembly>>

NoAssembly == <<>>
NoTable == [l \in {} |-> 0]

IsInt8(v) == v \in -128..127
IsInt8In16(v) == (v + 128) % 65536 < 256

-----------------------------------------------------------------------------
(* Correct assemblies. *)

Defined(V, l) == l \in DOMAIN V

\* Can `size' bytes at address `at' encode this line, with the table V?
\* `start' is the start of the section the line is in.
Encodes(item, at, size, V, start) ==
    LET disp == V[item.l] - (at + size) IN
    \/ item.op = "label" /\ size = 0 /\ V[item.l] = at
    \/ item.op = "equ" /\ size = 0 /\ Defined(V, item.m) /\ V[item.l] = V[item.m]
    \/ item.op = "jmp" /\ (size = 3 \/ (size = 2 /\ IsInt8(disp)))
    \/ item.op = "jcc" /\ (size = 5 \/ (size = 2 /\ IsInt8(disp)))
    \/ item.op = "short" /\ size = 2 /\ IsInt8(disp)
    \/ item.op = "near" /\ size = 3
    \/ item.op = "dw" /\ size = 2
    \/ item.op = "ea" /\ \/ size = 2 /\ V[item.l] % 65536 = 0
                         \/ size = 3 /\ IsInt8In16(V[item.l])
                         \/ size = 4
    \/ item.op = "imm" /\ (size = 4 \/ (size = 3 /\ IsInt8In16(V[item.l])))
    \/ item.op \in {"fill", "incbin"} /\ size = item.n
    \/ item.op = "pad" /\ at + size = start + item.n
    \/ item.op = "align" /\ size < item.n /\ (at + size) % item.n = 0

RefersTo(item) ==
    item.op \in {"label", "equ", "jmp", "jcc", "short", "near", "dw", "ea", "imm"}

Produces(item) == RefersTo(item) \/ item.op \in {"fill", "incbin", "pad", "align"}

\* Reading the source once.  r.addr is the address of the next line, r.depth
\* the %if nesting, r.hidden the nesting at which a false branch began (0 if
\* none), r.next the next line of the assembly to be matched.
Visible(r) == r.hidden = 0 \/ r.depth < r.hidden

DepthAfter(item, r) ==
    IF item.op = "if" THEN r.depth + 1
    ELSE IF item.op = "else" THEN r.depth
    ELSE r.depth - 1

HiddenAfter(item, r) ==
    IF item.op = "if"
    THEN IF Visible(r) /\ r.addr - r.start < item.n THEN r.depth + 1 ELSE r.hidden
    ELSE IF r.hidden = r.depth THEN 0
    ELSE IF item.op = "else" /\ r.hidden = 0 THEN r.depth
    ELSE r.hidden

ReadCondition(item, r) ==
    [r EXCEPT !.depth = DepthAfter(item, r), !.hidden = HiddenAfter(item, r),
              !.ok = @ /\ (item.op = "if" \/ r.depth > 0)]

ReadDirective(item, r, origin) ==
    CASE item.op = "org" -> [r EXCEPT !.ok = @ /\ item.n = origin]
      [] item.op = "bss" -> [r EXCEPT !.bss = TRUE,
                                      !.start = IF r.bss THEN @ ELSE r.addr]
      [] item.op = "resb" -> [r EXCEPT !.addr = @ + item.n, !.ok = @ /\ r.bss]

ReadProduct(i, item, r, V, lines) ==
    LET e == lines[r.next]
        allowed == item.op \in {"label", "equ", "incbin"} \/ ~r.bss
    IN  IF allowed /\ r.next <= Len(lines) /\ e.line = i /\ e.at = r.addr
              /\ (RefersTo(item) => Defined(V, item.l))
              /\ Encodes(item, e.at, e.size, V, r.start)
        THEN [r EXCEPT !.addr = @ + e.size, !.next = @ + 1]
        ELSE [r EXCEPT !.ok = FALSE]

Start(origin) == [addr |-> origin, start |-> origin, depth |-> 0, hidden |-> 0,
                  bss |-> FALSE, next |-> 1, ok |-> TRUE]

ReadLine(i, item, r, origin, V, lines) ==
    IF item.op \in {"if", "else", "endif"} THEN ReadCondition(item, r)
    ELSE IF ~Visible(r) THEN r
    ELSE IF Produces(item) THEN ReadProduct(i, item, r, V, lines)
    ELSE ReadDirective(item, r, origin)

\* The state after the last line; nothing is read after a line that is wrong.
Reading(src, origin, V, lines) ==
    LET read[i \in 0..Len(src)] ==
            IF i = 0 THEN Start(origin)
            ELSE IF read[i - 1].ok
            THEN ReadLine(i, src[i], read[i - 1], origin, V, lines)
            ELSE read[i - 1]
    IN  read[Len(src)]

Correct(src, origin, V, lines) ==
    LET r == Reading(src, origin, V, lines)
    IN  r.ok /\ r.depth = 0 /\ r.next = Len(lines) + 1

\* The origin may come from the command line (0 or 256) or from an org line.
PossibleOrigins(src) ==
    {0, 256} \cup {src[i].n : i \in {j \in DOMAIN src : src[j].op = "org"}}

-----------------------------------------------------------------------------

Init ==
    /\ result = "working"
    /\ file = "any"
    /\ table = NoTable
    /\ assembly = NoAssembly

Produce ==
    /\ result = "working" /\ result' = "assembled"
    /\ file' = "complete"
    /\ \E origin \in PossibleOrigins(source) :
          Correct(source, origin, table', assembly')

Reject ==
    /\ result = "working" /\ result' = "rejected"
    /\ file' = "absent"
    /\ UNCHANGED <<table, assembly>>

GiveUp ==
    /\ result = "working" /\ result' = "io_failure"
    /\ file' = "any"
    /\ UNCHANGED <<table, assembly>>

Next == UNCHANGED source /\ (Produce \/ Reject \/ GiveUp)

Spec == Init /\ [][Next]_vars

\* It always answers.
Answers == <>(result # "working")

=============================================================================
