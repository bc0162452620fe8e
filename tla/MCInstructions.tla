---------------------------- MODULE MCInstructions ----------------------------
(***************************************************************************)
(* Programs and options for Instructions.                                  *)
(***************************************************************************)
EXTENDS InstructionsProperties

Name(name) == [t |-> "name", name |-> name]
Word16 == [t |-> "word"]
Byte8 == [t |-> "byte"]
Strict == [t |-> "strict"]
Comma == [t |-> ","]
Reg8(n) == [t |-> "reg8", n |-> n]
Reg16(n) == [t |-> "reg16", n |-> n]
Sreg(n) == [t |-> "sreg", n |-> n]
Number(v) == [t |-> "expr", value |-> v, forward |-> FALSE]
Later(v) == [t |-> "expr", value |-> v, forward |-> TRUE]
Memory(seg, regs, v) == [t |-> "mem", seg |-> seg, regs |-> regs, value |-> v, forward |-> FALSE]
MemoryLater(regs, v) == [t |-> "mem", seg |-> 0, regs |-> regs, value |-> v, forward |-> TRUE]

None(name) == <<Name(name)>>
One(name, x) == <<Name(name)>> \o x
Two(name, x, y) == One(name, x) \o <<Comma>> \o y
Three(name, x, y, z) == Two(name, x, y) \o <<Comma>> \o z

BX == 3
BP == 5
SI == 6
DI == 7

Registers == {<<Reg8(0)>>, <<Reg8(5)>>, <<Reg16(0)>>, <<Reg16(7)>>}
PlainMemories ==
    {Memory(0, <<>>, 1000), Memory(0, <<SI>>, 0), Memory(0, <<BP>>, 0), Memory(38, <<DI, BX>>, 128),
     Memory(54, <<BP, SI>>, -128), Memory(62, <<BX>>, 65535), Memory(46, <<>>, 5)}
LaterMemories == {MemoryLater(<<>>, 5), MemoryLater(<<BX>>, 5), MemoryLater(<<BP, DI>>, 0)}
BadMemories == {Memory(0, <<BX, BP>>, 0), Memory(0, <<0>>, 5), Memory(0, <<4>>, 0), Memory(0, <<SI, SI>>, 0)}
Memories == PlainMemories \cup LaterMemories \cup BadMemories
Numbers == {Number(1), Number(127), Number(128), Number(-128), Number(65535), Number(300)}
Laters == {Later(1), Later(5), Later(300)}

Sizes == {<<>>, <<Byte8>>, <<Word16>>, <<Strict, Byte8>>, <<Strict, Word16>>}
Sized2(xs) == {size \o <<x>> : size \in {<<>>, <<Byte8>>, <<Word16>>}, x \in xs}
SizedNumbers == {size \o <<x>> : size \in Sizes, x \in {Number(1), Number(300), Later(1)}}

TwoOperands ==
    {Two(name, x, y) : name \in {"MOV", "ADD"}, x \in Registers,
                       y \in Registers \cup {<<m>> : m \in Memories} \cup {<<n>> : n \in Numbers \cup Laters}}
    \cup {Two(name, <<m>>, y) : name \in {"MOV", "ADD"}, m \in Memories, y \in Registers}
    \cup {Two(name, x, y) : name \in {"MOV", "ADD", "CMP", "TEST"}, y \in SizedNumbers,
                            x \in Sized2({Memory(0, <<SI>>, 0), MemoryLater(<<BX>>, 5)})
                                  \cup {<<Reg16(0)>>, <<Reg16(7)>>, <<Reg8(0)>>, <<Byte8, Reg8(5)>>}}
    \cup {Two(name, x, y) : name \in {"XCHG", "TEST"},
                            x \in Registers \cup {<<Memory(0, <<SI>>, 5)>>, <<Word16, Memory(0, <<>>, 5)>>},
                            y \in Registers \cup {<<Memory(0, <<SI>>, 5)>>, <<Sreg(1)>>}}
    \cup {Two("MOV", <<Sreg(n)>>, y) : n \in 0..3, y \in {<<Reg16(2)>>, <<Reg8(2)>>, <<Memory(38, <<BX>>, 0)>>, <<Number(5)>>}}
    \cup {Two("MOV", y, <<Sreg(n)>>) : n \in 0..3, y \in {<<Reg16(2)>>, <<Reg8(2)>>, <<Memory(38, <<BX>>, 0)>>}}
    \cup {Two(name, x, y) : name \in {"SHL", "RCR"}, x \in Registers \cup Sized2({Memory(0, <<BP>>, 0), MemoryLater(<<BX>>, 5)}),
                            y \in {<<Number(1)>>, <<Number(5)>>, <<Later(1)>>, <<Later(5)>>, <<Reg8(1)>>, <<Byte8, Number(1)>>}}
    \cup {Two(name, <<Reg16(0)>>, <<m>>) : name \in {"LEA", "LES", "BOUND"},
                            m \in Memories \cup {Memory(0, <<BX>>, 0), Memory(38, <<DI>>, 0), Reg16(3), Number(5)}}
    \cup {None("ES") \o Two(name, <<Reg16(0)>>, <<Memory(62, <<SI>>, v)>>) : name \in {"LEA", "BOUND"}, v \in {0, 5}}
    \cup {Two("IN", x, y) : x \in {<<Reg8(0)>>, <<Reg16(0)>>, <<Reg16(3)>>}, y \in {<<Reg16(2)>>, <<Number(96)>>, <<Byte8, Number(96)>>}}
    \cup {Two("OUT", y, x) : x \in {<<Reg8(0)>>, <<Reg16(0)>>}, y \in {<<Reg16(2)>>, <<Number(96)>>}}
    \cup {Two("ENTER", <<Number(300)>>, <<Number(1)>>)}

OneOperand ==
    {One(name, x) : name \in {"INC", "NEG", "PUSH", "POP", "IMUL", "CALL", "JMP"},
                    x \in Registers \cup Sized2({Memory(0, <<SI>>, 0), Memory(38, <<>>, 5), MemoryLater(<<BX>>, 5)})
                          \cup {<<Sreg(n)>> : n \in 0..3}}
    \cup {One("PUSH", size \o <<n>>) : size \in Sizes, n \in {Number(5), Number(300), Number(65533), Later(5), Later(300)}}
    \cup {One(name, size \o <<n>>) : name \in {"JMP", "CALL", "JZ", "JNZ", "LOOP"},
                    size \in {<<>>, <<[t |-> "short"]>>, <<[t |-> "near"]>>, <<Strict, [t |-> "short"]>>},
                    n \in {Number(129), Number(130), Number(-126), Number(-127), Number(65600), Later(129), Later(130)}}
    \cup {One(name, <<Number(4), [t |-> ":"], n>>) : name \in {"JMP", "CALL"}, n \in {Number(300), Later(300)}}
    \cup {One(name, <<[t |-> "far"], Memory(0, <<BX>>, 5)>>) : name \in {"JMP", "CALL"}}
    \cup {One(name, <<Number(5)>>) : name \in {"INT", "RET", "RETF", "AAM"}}
    \cup {Two("IMUL", <<Reg16(3)>>, <<n>>) : n \in {Number(5), Number(300), Later(5), Reg16(1)}}
    \cup {Three("IMUL", <<Reg16(3)>>, <<x>>, <<n>>) :
              x \in {Reg16(1), MemoryLater(<<BX>>, 5)}, n \in {Number(5), Number(300), Later(5)}}

NoOperand ==
    {None(name) : name \in {"NOP", "RET", "RETF", "AAM", "PAUSE", "PUSHA", "UD2", "XLAT", "MOVSB", "IRET", "INT"}}
    \cup {None("REP") \o None("MOVSB"), None("ES") \o Two("MOV", <<Reg16(0)>>, <<MemoryLater(<<BX>>, 5)>>),
          None("LOCK"), None("REP") \o <<Comma>> \o None("MOVSB"), None("REP") \o <<Number(5)>>,
          None("RET") \o <<Reg16(0)>>, None("NOP") \o None("NOP")}

\* Every row of the table.
AllRows ==
    {None(name) : name \in DOMAIN Plain \cup DOMAIN Plain186 \cup {"UD0", "UD1", "AAD"}}
    \cup {None(name) \o None("LODSB") : name \in DOMAIN PrefixCode}
    \cup {One(name, <<Number(20)>>) : name \in DOMAIN Conditional \cup DOMAIN Loops \cup {"AAD"}}
    \cup {Two(name, x, y) : name \in DOMAIN Arithmetic, x \in {<<Reg16(0)>>, <<Reg8(0)>>, <<Word16, Memory(0, <<BX>>, 0)>>},
                             y \in {<<Number(5)>>, <<Number(300)>>, <<Reg16(3)>>}}
    \cup {Two(name, <<Reg16(3)>>, <<x>>) : name \in DOMAIN Shifts, x \in {Number(1), Number(5), Reg8(1)}}
    \cup {One(name, <<x>>) : name \in DOMAIN Unary \cup {"DEC"}, x \in {Reg8(3), Reg16(3)}}
    \cup {Two("LDS", <<Reg16(7)>>, <<Memory(38, <<BX>>, 5)>>)}

\* Lines that leave something behind, and lines that may take it up.
Pieces ==
    {Two("MOV", <<Memory(38, <<BX>>, 1000)>>, <<Reg16(0)>>), Two("MOV", <<Reg16(0)>>, <<MemoryLater(<<BX>>, 5)>>),
     Two("ADD", <<Word16, MemoryLater(<<BX>>, 5)>>, <<Later(5)>>), Two("ADD", <<Word16, MemoryLater(<<BX>>, 5)>>, <<Number(5)>>),
     Two("ADD", <<Word16, Memory(0, <<SI>>, 0)>>, <<Later(300)>>), Two("ADD", <<Reg16(3)>>, <<Later(5)>>),
     Two("MOV", <<Byte8, Memory(0, <<BP>>, 0)>>, <<Later(5)>>), Two("SHL", <<Word16, Memory(0, <<SI>>, 5)>>, <<Later(1)>>),
     Two("SHL", <<Reg16(0)>>, <<Later(5)>>), One("JMP", <<Later(20)>>), One("JZ", <<Later(20)>>), One("JZ", <<Later(300)>>),
     One("PUSH", <<Later(5)>>), One("PUSH", <<Byte8, Later(5)>>), Two("LEA", <<Reg16(1)>>, <<MemoryLater(<<BX>>, 0)>>),
     Three("IMUL", <<Reg16(3)>>, <<MemoryLater(<<BX>>, 5)>>, <<Later(5)>>), None("NOP"),
     Two("MOV", <<Reg16(0)>>, <<Reg16(3)>>)}

MCPrograms ==
    {<<x>> : x \in TwoOperands \cup OneOperand \cup NoOperand \cup AllRows}
    \cup Pieces \X Pieces \X Pieces
    \cup {One("JZ", <<Later(300)>>)} \X {One("JZ", <<Later(300)>>)} \X Pieces \X Pieces

Option(level, int, lea, segreg, cpu) ==
    [opt_level |-> level, opt_int |-> int, opt_lea |-> lea, opt_segreg |-> segreg, cpu_level |-> cpu]
MCOptions ==
    {Option(0, FALSE, FALSE, FALSE, 0), Option(0, FALSE, FALSE, FALSE, 2),
     Option(1, TRUE, FALSE, FALSE, 2), Option(1, TRUE, TRUE, FALSE, 1), Option(9, FALSE, FALSE, FALSE, 1),
     Option(9, TRUE, TRUE, TRUE, 0), Option(9, TRUE, TRUE, TRUE, 2)}

=============================================================================
