------------------------------- MODULE Decoder -------------------------------
(***************************************************************************)
(* The opcode map of the 8086 and 186, read from the code to the           *)
(* instruction: what a processor does with the bytes.  It is the reference *)
(* for InstructionSet, and is laid out by opcode as in the manual of the   *)
(* processor.  Values are modulo 2^16, or 2^8 in imm8.                     *)
(***************************************************************************)
EXTENDS Integers, Sequences, FiniteSets, TLC

ArithmeticNames == <<"ADD", "OR", "ADC", "SBB", "AND", "SUB", "XOR", "CMP">>
ShiftNames == <<"ROL", "ROR", "RCL", "RCR", "SHL", "SHR", "invalid", "SAR">>
UnaryNames == <<"TEST", "invalid", "NOT", "NEG", "MUL", "IMUL", "DIV", "IDIV">>
BranchNames == <<"INC", "DEC", "CALL", "CALL FAR", "JMP", "JMP FAR", "PUSH", "invalid">>
RegisterNames == <<"INC", "DEC", "PUSH", "POP">>
ConditionNames == <<"JO", "JNO", "JB", "JAE", "JZ", "JNZ", "JBE", "JA",
                    "JS", "JNS", "JP", "JNP", "JL", "JGE", "JLE", "JG">>
LoopNames == <<"LOOPNE", "LOOPE", "LOOP", "JCXZ">>

SegmentBytes == {38, 46, 54, 62}
PrefixNames == 155 :> "WAIT" @@ 240 :> "LOCK" @@ 242 :> "REPNE" @@ 243 :> "REP"
OneByteNames ==
    39 :> "DAA" @@ 47 :> "DAS" @@ 55 :> "AAA" @@ 63 :> "AAS" @@ 96 :> "PUSHA" @@ 97 :> "POPA"
    @@ 108 :> "INSB" @@ 109 :> "INSW" @@ 110 :> "OUTSB" @@ 111 :> "OUTSW" @@ 144 :> "NOP"
    @@ 152 :> "CBW" @@ 153 :> "CWD" @@ 156 :> "PUSHF" @@ 157 :> "POPF" @@ 158 :> "SAHF"
    @@ 159 :> "LAHF" @@ 164 :> "MOVSB" @@ 165 :> "MOVSW" @@ 166 :> "CMPSB" @@ 167 :> "CMPSW"
    @@ 170 :> "STOSB" @@ 171 :> "STOSW" @@ 172 :> "LODSB" @@ 173 :> "LODSW" @@ 174 :> "SCASB"
    @@ 175 :> "SCASW" @@ 195 :> "RET" @@ 201 :> "LEAVE" @@ 203 :> "RETF" @@ 204 :> "INT3"
    @@ 206 :> "INTO" @@ 207 :> "IRET" @@ 214 :> "SALC" @@ 215 :> "XLAT" @@ 244 :> "HLT"
    @@ 245 :> "CMC" @@ 248 :> "CLC" @@ 249 :> "STC" @@ 250 :> "CLI" @@ 251 :> "STI"
    @@ 252 :> "CLD" @@ 253 :> "STD"

\* BX is 3, BP 5, SI 6 and DI 7.
AddressRegisters == <<{3, 6}, {3, 7}, {5, 6}, {5, 7}, {6}, {7}, {5}, {3}>>

Reg(size, n) == [t |-> IF size = 8 THEN "reg8" ELSE "reg16", n |-> n]
Segment(n) == [t |-> "sreg", n |-> n]
Expr(v) == [t |-> "expr", value |-> v % 65536]
Imm8(v) == [t |-> "imm8", value |-> v % 256]
Mem(size, regs, v) == [t |-> "mem", size |-> size, regs |-> regs, value |-> v % 65536]

ByteAt(b, i) == IF i \in DOMAIN b THEN b[i] ELSE 0
WordAt(b, i) == ByteAt(b, i) + 256 * ByteAt(b, i + 1)
SignedAt(b, i) == IF ByteAt(b, i) < 128 THEN ByteAt(b, i) ELSE ByteAt(b, i) - 256

\* The modrm byte at i: its register, its operand, and where the code goes on.
Field(b, i) == (ByteAt(b, i) \div 8) % 8
Mode(b, i) == ByteAt(b, i) \div 64
Direct(b, i) == Mode(b, i) = 0 /\ ByteAt(b, i) % 8 = 6
Operand(b, i, size) ==
    LET regs == AddressRegisters[(ByteAt(b, i) % 8) + 1]
    IN  CASE Mode(b, i) = 3 -> Reg(size, ByteAt(b, i) % 8)
          [] Direct(b, i) -> Mem(size, {}, WordAt(b, i + 1))
          [] Mode(b, i) = 0 /\ ~Direct(b, i) -> Mem(size, regs, 0)
          [] Mode(b, i) = 1 -> Mem(size, regs, SignedAt(b, i + 1))
          [] Mode(b, i) = 2 -> Mem(size, regs, WordAt(b, i + 1))
After(b, i) ==
    CASE Mode(b, i) = 3 \/ (Mode(b, i) = 0 /\ ~Direct(b, i)) -> i + 1
      [] Mode(b, i) = 1 -> i + 2
      [] Mode(b, i) = 2 \/ Direct(b, i) -> i + 3

Is(name, operands, next) == [name |-> name, operands |-> operands, next |-> next]

\* The instruction whose opcode is at i; the code begins at the address base.
InstructionAt(b, i, base) ==
    LET c == ByteAt(b, i)
        size == IF c % 2 = 0 THEN 8 ELSE 16
        E == Operand(b, i + 1, size)
        G == Reg(size, Field(b, i + 1))
        next == After(b, i + 1)
        Accumulator == Reg(size, 0)
        Immediate(k) == IF size = 8 THEN Imm8(ByteAt(b, k)) ELSE Expr(WordAt(b, k))
        behind == next + size \div 8
        Target(k, distance) == Expr(base + k - 1 + distance)
        n == Field(b, i + 1) + 1
    IN
    CASE c \in DOMAIN OneByteNames -> Is(OneByteNames[c], <<>>, i + 1)
      [] c < 64 /\ c % 8 < 4 ->
            Is(ArithmeticNames[(c \div 8) + 1], IF c % 4 < 2 THEN <<E, G>> ELSE <<G, E>>, next)
      [] c < 64 /\ c % 8 \in {4, 5} ->
            Is(ArithmeticNames[(c \div 8) + 1], <<Accumulator, Immediate(i + 1)>>, i + 1 + (size \div 8))
      [] c < 32 /\ c % 8 \in {6, 7} /\ c # 15 ->
            Is(IF c % 8 = 6 THEN "PUSH" ELSE "POP", <<Segment(c \div 8)>>, i + 1)
      [] c = 15 -> IF Len(b) = i THEN Is("POP", <<Segment(1)>>, i + 1)
                   ELSE Is(CASE b[i + 1] = 255 -> "UD0" [] b[i + 1] = 185 -> "UD1" [] b[i + 1] = 11 -> "UD2",
                           <<>>, i + 2)
      [] c \in 64..95 -> Is(RegisterNames[(c - 64) \div 8 + 1], <<Reg(16, c % 8)>>, i + 1)
      [] c = 98 -> Is("BOUND", <<Reg(16, n - 1), Operand(b, i + 1, 0)>>, next)
      [] c = 104 -> Is("PUSH", <<Expr(WordAt(b, i + 1))>>, i + 3)
      [] c = 106 -> Is("PUSH", <<Expr(SignedAt(b, i + 1))>>, i + 2)
      [] c = 105 -> Is("IMUL", <<G, E, Expr(WordAt(b, next))>>, next + 2)
      [] c = 107 -> Is("IMUL", <<G, E, Expr(SignedAt(b, next))>>, next + 1)
      [] c \in 112..127 -> Is(ConditionNames[c - 111], <<Target(i + 2, SignedAt(b, i + 1))>>, i + 2)
      [] c \in {128, 129} -> Is(ArithmeticNames[n], <<E, Immediate(next)>>, behind)
      [] c = 131 -> Is(ArithmeticNames[n], <<E, Expr(SignedAt(b, next))>>, next + 1)
      [] c \in {132, 133} -> Is("TEST", <<E, G>>, next)
      [] c \in {134, 135} -> Is("XCHG", <<E, G>>, next)
      [] c \in {136, 137} -> Is("MOV", <<E, G>>, next)
      [] c \in {138, 139} -> Is("MOV", <<G, E>>, next)
      [] c = 140 -> Is("MOV", <<Operand(b, i + 1, 16), Segment(n - 1)>>, next)
      [] c = 141 -> Is("LEA", <<G, Operand(b, i + 1, 0)>>, next)
      [] c = 142 -> Is("MOV", <<Segment(n - 1), Operand(b, i + 1, 16)>>, next)
      [] c = 143 -> Is("POP", <<E>>, next)
      [] c \in 145..151 -> Is("XCHG", <<Reg(16, 0), Reg(16, c - 144)>>, i + 1)
      [] c = 154 -> Is("CALL", <<Expr(WordAt(b, i + 3)), Expr(WordAt(b, i + 1))>>, i + 5)
      [] c \in {160, 161} -> Is("MOV", <<Accumulator, Mem(size, {}, WordAt(b, i + 1))>>, i + 3)
      [] c \in {162, 163} -> Is("MOV", <<Mem(size, {}, WordAt(b, i + 1)), Accumulator>>, i + 3)
      [] c \in {168, 169} -> Is("TEST", <<Accumulator, Immediate(i + 1)>>, i + 1 + (size \div 8))
      [] c \in 176..183 -> Is("MOV", <<Reg(8, c - 176), Imm8(ByteAt(b, i + 1))>>, i + 2)
      [] c \in 184..191 -> Is("MOV", <<Reg(16, c - 184), Expr(WordAt(b, i + 1))>>, i + 3)
      [] c \in {192, 193} -> Is(ShiftNames[n], <<E, Imm8(ByteAt(b, next))>>, next + 1)
      [] c \in {194, 202} -> Is(IF c = 194 THEN "RET" ELSE "RETF", <<Expr(WordAt(b, i + 1))>>, i + 3)
      [] c \in {196, 197} -> Is(IF c = 196 THEN "LES" ELSE "LDS", <<Reg(16, n - 1), Operand(b, i + 1, 0)>>, next)
      [] c \in {198, 199} -> Is("MOV", <<E, Immediate(next)>>, behind)
      [] c = 200 -> Is("ENTER", <<Expr(WordAt(b, i + 1)), Imm8(ByteAt(b, i + 3))>>, i + 4)
      [] c = 205 -> Is("INT", <<Imm8(ByteAt(b, i + 1))>>, i + 2)
      [] c \in {208, 209} -> Is(ShiftNames[n], <<E, Expr(1)>>, next)
      [] c \in {210, 211} -> Is(ShiftNames[n], <<E, Reg(8, 1)>>, next)
      [] c \in {212, 213} -> Is(IF c = 212 THEN "AAM" ELSE "AAD", <<Imm8(ByteAt(b, i + 1))>>, i + 2)
      [] c \in 224..227 -> Is(LoopNames[c - 223], <<Target(i + 2, SignedAt(b, i + 1))>>, i + 2)
      [] c \in {228, 229} -> Is("IN", <<Accumulator, Imm8(ByteAt(b, i + 1))>>, i + 2)
      [] c \in {230, 231} -> Is("OUT", <<Imm8(ByteAt(b, i + 1)), Accumulator>>, i + 2)
      [] c \in {232, 233} -> Is(IF c = 232 THEN "CALL" ELSE "JMP", <<Target(i + 3, WordAt(b, i + 1))>>, i + 3)
      [] c = 234 -> Is("JMP", <<Expr(WordAt(b, i + 3)), Expr(WordAt(b, i + 1))>>, i + 5)
      [] c = 235 -> Is("JMP", <<Target(i + 2, SignedAt(b, i + 1))>>, i + 2)
      [] c \in {236, 237} -> Is("IN", <<Accumulator, Reg(16, 2)>>, i + 1)
      [] c \in {238, 239} -> Is("OUT", <<Reg(16, 2), Accumulator>>, i + 1)
      [] c \in {246, 247} -> IF n = 1 THEN Is("TEST", <<E, Immediate(next)>>, behind)
                             ELSE Is(UnaryNames[n], <<E>>, next)
      [] c = 254 -> Is(IF n < 3 THEN BranchNames[n] ELSE "invalid", <<E>>, next)
      [] c = 255 -> Is(BranchNames[n], <<E>>, next)

\* A conditional jump over a near jump is a far-reaching conditional jump.
Opposite(name) ==
    LET k == CHOOSE k \in DOMAIN ConditionNames : ConditionNames[k] = name
    IN  ConditionNames[IF k % 2 = 1 THEN k + 1 ELSE k - 1]
IsSkip(b, i) == ByteAt(b, i) \in 112..127 /\ ByteAt(b, i + 1) = 3 /\ ByteAt(b, i + 2) = 233

\* The prefixes are the first bytes, up to one that is none.
Prefixed(b) == {i \in DOMAIN b : \A k \in 1..i : b[k] \in SegmentBytes \cup DOMAIN PrefixNames}

\* All of the code b: prefixes, the segment that overrides the default or 0, and
\* the instruction, which is to end where the code ends.
Decode(b, base) ==
    LET first == Cardinality(Prefixed(b)) + 1
        start == SubSeq(b, 1, first - 1)
        IsSegment(c) == c \in SegmentBytes
        IsOther(c) == c \notin SegmentBytes
        segments == SelectSeq(start, IsSegment)
        others == SelectSeq(start, IsOther)
        main == CASE first > Len(b) -> Is("none", <<>>, first)
                  [] first <= Len(b) /\ IsSkip(b, first) ->
                        [InstructionAt(b, first + 2, base) EXCEPT !.name = Opposite(ConditionNames[b[first] - 111])]
                  [] first <= Len(b) /\ ~IsSkip(b, first) -> InstructionAt(b, first, base)
    IN  [prefixes |-> [i \in DOMAIN others |-> PrefixNames[others[i]]],
         override |-> IF segments = <<>> THEN 0 ELSE segments[Len(segments)],
         name |-> main.name, operands |-> main.operands, complete |-> main.next = Len(b) + 1]

=============================================================================
