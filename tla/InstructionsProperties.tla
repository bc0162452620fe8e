------------------------ MODULE InstructionsProperties ------------------------
(***************************************************************************)
(* Properties of the code: it is decoded again, and has to be what the     *)
(* text of the line says.                                                  *)
(***************************************************************************)
EXTENDS Instructions

D == INSTANCE Decoder

Byte256 == 0..255

\* Every variable has a value of its kind; a modrm byte is a byte.
TypeOK ==
    /\ assembler_pass \in {0, 2} /\ line \in 0..Len(lines)
    /\ phase \in {"line", "name", "match", "done"}
    /\ instruction.addressing \in Byte256 /\ instruction.width \in 0..3
    /\ instruction.register \in 0..7 /\ instruction.segment \in {0} \cup D!SegmentBytes
    /\ phase = "match" /\ instruction.width = 3 => assembler_pass = 0
    /\ DOMAIN code = DOMAIN lines /\ \A k \in DOMAIN code : code[k] \in Seq(Byte256)

-----------------------------------------------------------------------------
(* What a line says. *)

Synonym ==
    [SAL |-> "SHL", JC |-> "JB", JNAE |-> "JB", JNB |-> "JAE", JNC |-> "JAE", JE |-> "JZ",
     JNE |-> "JNZ", JNA |-> "JBE", JNBE |-> "JA", JPE |-> "JP", JPO |-> "JNP", JNGE |-> "JL",
     JNL |-> "JGE", JNG |-> "JLE", JNLE |-> "JG", LOOPNZ |-> "LOOPNE", LOOPZ |-> "LOOPE",
     XLATB |-> "XLAT", PUSHAW |-> "PUSHA", POPAW |-> "POPA", REPNZ |-> "REPNE",
     REPE |-> "REP", REPZ |-> "REP"]
Canonical(name) == IF name \in DOMAIN Synonym THEN Synonym[name] ELSE name
SegmentOf == [ES |-> 38, CS |-> 46, SS |-> 54, DS |-> 62]
IsPrefixName(token) ==
    token.t = "name" /\ Canonical(token.name) \in {"WAIT", "LOCK", "REPNE", "REP"} \cup DOMAIN SegmentOf

\* The names in front of the operands, of which all but the last are prefixes.
PrefixesOf(text) == {k \in DOMAIN text : \A i \in 1..k : IsPrefixName(text[i])}
NameAt(text) == Cardinality(PrefixesOf(text)) + 1
HasName(text) == NameAt(text) <= Len(text) /\ text[NameAt(text)].t = "name"
NameOf(text) == Canonical(text[NameAt(text)].name)

\* The operands: the tokens between commas, or on both sides of a colon.
Operands(text) ==
    LET behind == SubSeq(text, NameAt(text) + 1, Len(text))
        Add(operands, token) ==
            IF token.t \in {",", ":"} THEN Append(operands, <<>>)
            ELSE [operands EXCEPT ![Len(operands)] = Append(@, token)]
    IN  IF behind = <<>> THEN <<>> ELSE FoldLeft(Add, <<<<>>>>, behind)
Final(operand) == Last(operand)
Bits == [byte |-> 8, reg8 |-> 8, word |-> 16, reg16 |-> 16, sreg |-> 16]
SizesOf(operand) == {Bits[token.t] : token \in {x \in Range(operand) : x.t \in DOMAIN Bits}}
IsKind(operand, kinds) == Final(operand).t \in kinds
IsOf(text, kind) == \E i \in DOMAIN Operands(text) : IsKind(Operands(text)[i], {kind})

-----------------------------------------------------------------------------
(* Code and text compared. *)

\* A memory operand has its own size or that of the other operand, if any has one.
MemorySize(operands, k) ==
    IF SizesOf(operands[k]) # {} THEN SizesOf(operands[k])
    ELSE UNION {SizesOf(operands[i]) : i \in DOMAIN operands}

\* A number said to be a byte is cut to a signed byte.
Said(operand) ==
    IF 8 \in SizesOf(operand) THEN ((Final(operand).value + 128) % 256) - 128 ELSE Final(operand).value

Agree(operands, k, decoded) ==
    LET x == Final(operands[k])
    IN  CASE x.t \in {"reg8", "reg16", "sreg"} -> decoded = x
          [] x.t = "expr" -> decoded \in {D!Imm8(x.value), D!Expr(Said(operands[k]))}
          [] x.t = "mem" -> /\ decoded.t = "mem"
                            /\ decoded.regs = Range(x.regs) /\ decoded.value = x.value % 65536
                            /\ decoded.size = 0 \/ MemorySize(operands, k) \in {{}, {decoded.size}}

AllAgree(operands, decoded) ==
    /\ Len(operands) = Len(decoded)
    /\ \A k \in DOMAIN operands : Agree(operands, k, decoded[k])

\* The instruction that a name and operands stand for, if it has another form.
FullName(text) ==
    CASE NameOf(text) = "PAUSE" \/ (NameOf(text) = "XCHG" /\ Operands(text) = <<<<Literals.AX>>, <<Literals.AX>>>>) -> "NOP"
      [] \E token \in Range(text) : token.t = "far" ->
            IF NameOf(text) = "JMP" THEN "JMP FAR" ELSE "CALL FAR"
      [] OTHER -> NameOf(text)
FullOperands(text) ==
    LET operands == Operands(text)
    IN  CASE FullName(text) = "NOP" -> <<>>
          [] NameOf(text) \in {"AAM", "AAD"} /\ operands = <<>> -> <<<<[t |-> "expr", value |-> 10]>>>>
          [] NameOf(text) = "IMUL" /\ Len(operands) = 2 -> <<operands[1]>> \o operands
          [] OTHER -> operands

\* -OL is for LEA, but BOUND has the same pattern 'o', and is taken for it.
IsTakenForLea(text) == options.opt_lea /\ HasName(text) /\ NameOf(text) \in {"LEA", "BOUND"}

\* A constant or a lone register, in whose place -OL has a MOV.
IsMovable(x) == x.regs = <<>> \/ (Len(x.regs) = 1 /\ x.value % 65536 = 0)

\* An offset of 0 that was taken for a long one in pass 0.
MayStayLong(x) == x.regs # <<>> /\ x.forward /\ options.opt_level <= 1

IsMoveOf(target, x, decoded) ==
    /\ decoded.name = "MOV"
    /\ decoded.operands = <<target, IF x.regs = <<>> THEN D!Expr(x.value) ELSE D!Reg(16, x.regs[1])>>

SegmentUsed(text, override) ==
    LET memories == {operand \in Range(Operands(text)) : IsKind(operand, {"mem"})}
        regs == UNION {Range(Final(operand).regs) : operand \in memories}
    IN  CASE override # 0 -> override
          [] override = 0 /\ 5 \in regs -> SegmentOf.SS
          [] override = 0 /\ 5 \notin regs -> SegmentOf.DS

\* The segment written in front of the name, or 0.
PrefixOverride(text) ==
    LET prefixes == {SegmentOf[text[k].name] : k \in {i \in PrefixesOf(text) : text[i].name \in DOMAIN SegmentOf}}
    IN  IF prefixes # {} THEN CHOOSE s \in prefixes : TRUE ELSE 0

Override(text) ==
    LET given == {Final(operand).seg : operand \in {x \in Range(Operands(text)) : IsKind(x, {"mem"})}} \ {0}
    IN  IF given # {} THEN CHOOSE s \in given : TRUE ELSE PrefixOverride(text)

SaysWhat(text, bytes, address) ==
    LET decoded == D!Decode(bytes, address)
        others == SelectSeq(SubSeq(text, 1, NameAt(text) - 1), LAMBDA x : x.name \notin DOMAIN SegmentOf)
        names == [i \in DOMAIN others |-> Canonical(others[i].name)]
                 \o IF HasName(text) /\ NameOf(text) = "PAUSE" THEN <<"REP">> ELSE <<>>
        operands == FullOperands(text)
        isSame ==
            /\ decoded.name = FullName(text)
            /\ \/ AllAgree(operands, decoded.operands)
               \/ NameOf(text) \in {"XCHG", "TEST"} /\ AllAgree(Reverse(operands), decoded.operands)
    IN  /\ decoded.complete /\ decoded.prefixes = names
        /\ CASE ~HasName(text) -> decoded.name = "none"
             [] IsTakenForLea(text) ->
                  LET x == Final(operands[2])
                  IN  \/ IsMovable(x) /\ IsMoveOf(Final(operands[1]), x, decoded)
                      \/ /\ IsMovable(x) => MayStayLong(x)
                         /\ isSame /\ decoded.override = PrefixOverride(text)
             [] OTHER ->
                  /\ isSame
                  /\ NameOf(text) # "LEA" =>
                       SegmentUsed(text, decoded.override) = SegmentUsed(text, Override(text))

LineIsDone == phase = "line" /\ line > 0
Wrong(k) == \E p \in {0, 2}, kind \in {"error_in_instruction", "extra_characters", "unknown_instruction",
                                       "short_jump", "near_jump"} : <<p, k, kind>> \in messages

(***************************************************************************)
(* The code of a line, read by a processor, is what the line says: its     *)
(* operation, operands and segment.  Alternatives that were tried and      *)
(* failed, earlier lines and earlier passes leave nothing behind in it.    *)
(* With -OL it says for a LEA of a constant or a register a MOV; and, as a *)
(* bug of the code, for a BOUND of such an operand as well, whose segment  *)
(* is lost in any case (IsTakenForLea).                                    *)
(***************************************************************************)
CodeIsRight ==
    LineIsDone /\ assembler_pass = 2 /\ ~Wrong(line)
        => SaysWhat(lines[line], code[line], current_address - Len(code[line]))

-----------------------------------------------------------------------------
(* Which texts there are instructions for. *)

IsGood(operand) ==
    /\ Cardinality(SizesOf(operand)) <= 1
    /\ IsKind(operand, {"mem"}) =>
         /\ Len(Final(operand).regs) = Cardinality(Range(Final(operand).regs))
         /\ Range(Final(operand).regs) \in {{}} \cup Range(D!AddressRegisters)
IsRM(operand) == IsKind(operand, {"reg8", "reg16", "mem"})
IsWord(operand) == SizesOf(operand) = {16} /\ IsKind(operand, {"reg16", "mem"})

\* Both operands have one size, and it is said; but a number may be a signed byte.
SizesFit(name, x, y) ==
    \/ Cardinality(SizesOf(x) \cup SizesOf(y)) = 1
    \/ IsKind(y, {"expr"}) /\ name \in DOMAIN Arithmetic /\ SizesOf(x) = {16}

IsTwo(name, x, y) ==
    \/ /\ IsRM(x) /\ IsRM(y) /\ ~(IsKind(x, {"mem"}) /\ IsKind(y, {"mem"})) /\ SizesFit("MOV", x, y)
    \/ name # "XCHG" /\ IsRM(x) /\ IsKind(y, {"expr"}) /\ SizesFit(name, x, y)
    \/ /\ name = "MOV"
       /\ \E sreg, other \in {x, y} : /\ sreg = <<Final(sreg)>> /\ IsKind(sreg, {"sreg"})
                                      /\ IsKind(other, {"reg16", "mem"}) /\ SizesOf(other) \in {{}, {16}}

IsShift(x, y) ==
    /\ IsRM(x)
    /\ \/ y = <<Literals.CL>>
       \/ /\ IsKind(y, {"expr"}) /\ SizesOf(y) \in {{}, {8}}
          /\ \/ options.cpu_level > 0
             \/ Final(y).value = 1 /\ ~(Final(y).forward /\ options.opt_level <= 1)

IsOneOperand(name, x) ==
    CASE name \in {"PUSH", "POP"} ->
            \/ IsKind(x, {"reg16", "mem"}) /\ SizesOf(x) \in {{}, {16}}
            \/ x = <<Final(x)>> /\ IsKind(x, {"sreg"})
            \/ name = "PUSH" /\ IsKind(x, {"expr"}) /\ options.cpu_level > 0
      [] OTHER -> IsRM(x) /\ SizesOf(x) # {}

IsInstruction(name, operands) ==
    /\ \A k \in DOMAIN operands : IsGood(operands[k])
    /\ CASE name \in DOMAIN Shifts -> IsShift(operands[1], operands[2])
         [] Len(operands) = 1 -> IsOneOperand(name, operands[1])
         [] OTHER -> IsTwo(name, operands[1], operands[2])

Judged ==
    DOMAIN Arithmetic \cup DOMAIN Shifts \cup DOMAIN Unary
    \cup {"MOV", "TEST", "XCHG", "INC", "DEC", "PUSH", "POP"}

(***************************************************************************)
(* An instruction is refused if and only if the processor has none for     *)
(* these operands: no alternative takes away text that a later one needs,  *)
(* and none takes what is not its own.                                     *)
(***************************************************************************)
OperandsDecide ==
    LineIsDone /\ lines[line] # <<>> /\ lines[line][1].t = "name" /\ lines[line][1].name \in Judged
        => LET isRefused == <<assembler_pass, line, "error_in_instruction">> \in messages
               isOne == IsInstruction(lines[line][1].name, Operands(lines[line]))
           IN  /\ isRefused => ~isOne
               /\ assembler_pass = 2 /\ ~isOne => isRefused

-----------------------------------------------------------------------------
(* Both passes. *)

IsFreeConditional(text) ==
    HasName(text) /\ text[NameAt(text)].name \in DOMAIN Conditional /\ \A token \in Range(text) : token.t # "short"

\* Has a conditional jump forward become two jumps, which pass 0 could not know?
HasGrown(k) ==
    /\ IsFreeConditional(lines[k]) /\ \E token \in Range(lines[k]) : token.t = "expr" /\ token.forward
    /\ Len(code[k]) = sizes[k] + 3

(***************************************************************************)
(* At -O0 and -O1 every instruction is as long in pass 2 as it was in pass *)
(* 0, when labels behind it were unknown, so that no label moves.  The one *)
(* exception is a conditional jump forward that is far, with what stands   *)
(* behind it: another instruction may come to lie at a recorded offset.    *)
(* Any other growth has been told as a bad order.                          *)
(***************************************************************************)
SizesAgree ==
    options.opt_level <= 1 /\ assembler_pass = 2 /\ LineIsDone /\ ~Wrong(line)
        => \/ Len(code[line]) = sizes[line]
           \/ \E k \in 1..line : HasGrown(k)
           \/ \E k \in 1..line : <<2, k, "bad_instr_order">> \in messages

\* PUSH BYTE or PUSH WORD of a number has no memory operand, but at -O0 looks up
\* whether instruction_addressing has one.
IsSizedPush(text) ==
    /\ HasName(text) /\ NameOf(text) = "PUSH"
    /\ SizesOf(Operands(text)[1]) # {} /\ IsOf(text, "expr") /\ Final(Operands(text)[1]).forward
LeavesAddressing(text) == HasName(text) /\ \E kind \in {"mem", "reg8", "reg16"} : IsOf(text, kind)

\* instruction_addressing is left from the end of pass 0 until the first register or
\* memory operand of the next pass.
IsStalePush(k) ==
    /\ options.opt_level = 0 /\ IsSizedPush(lines[k])
    /\ \A i \in 1..k - 1 : ~LeavesAddressing(lines[i])
    /\ \E i \in k + 1..Len(lines) : LeavesAddressing(lines[i])

(***************************************************************************)
(* The offsets of wide instructions are recorded in a strictly increasing  *)
(* order and asked for in that order, whatever alternatives fail in        *)
(* between, as the comments of add_wide_instr_in_pass_1() and              *)
(* is_wide_instr_in_pass_2() demand.  Two things can break the second.  A  *)
(* conditional jump, which in the last pass turns out to be far, moves     *)
(* what is behind it.  And a sized PUSH that finds the addressing of the   *)
(* last instruction of pass 0 does not ask for what it has recorded.       *)
(***************************************************************************)
OrderIsKept ==
    /\ LET offsets == FlattenSeq(wide_blocks)
       IN  \A i \in 1..Len(offsets) - 1 : offsets[i] < offsets[i + 1]
    /\ \A k \in DOMAIN lines :
          <<2, k, "bad_instr_order">> \in messages
             => \/ options.opt_level <= 1 /\ \E i \in 1..k - 1 : HasGrown(i)
                \/ \E i \in 1..k : IsStalePush(i)

=============================================================================
