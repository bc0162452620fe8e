---------------------------- MODULE InstructionSet ----------------------------
(***************************************************************************)
(* instruction_set[]: for each mnemonic a row of alternatives, each with a *)
(* pattern for the operands and an encode for the code, both here as       *)
(* sequences of the tokens of the source.  The binary encodes are Modrm    *)
(* (dxxxd), ModrmReg (drd) and Plus (xxxxxr).                              *)
(***************************************************************************)
EXTENDS Integers, Sequences, SequencesExt

Alt(pattern, encode) == [pattern |-> pattern, encode |-> encode]

Byte(c) == <<"byte", c>>
Modrm(n) == <<"modrm", n>>
ModrmReg == <<"drd">>
Plus(c) == <<"plus", c>>
Code(c, token) == <<Byte(c), <<token>>>>

\* Both operands in both sizes, as in MOV and the arithmetic instructions.
BothWays(c) ==
    << Alt(<<"j", ",", "q">>, <<Byte(c), ModrmReg>>),
       Alt(<<"k", ",", "r">>, <<Byte(c + 1), ModrmReg>>),
       Alt(<<"q", ",", "j">>, <<Byte(c + 2), ModrmReg>>),
       Alt(<<"r", ",", "k">>, <<Byte(c + 3), ModrmReg>>) >>

\* One operand in memory or a register, with its size.
Sized(pattern8, pattern16, c, n) ==
    <<Alt(pattern8, <<Byte(c), Modrm(n)>>), Alt(pattern16, <<Byte(c + 1), Modrm(n)>>)>>

Arithmetic == [ADD |-> 0, OR |-> 1, ADC |-> 2, SBB |-> 3, AND |-> 4, SUB |-> 5, XOR |-> 6, CMP |-> 7]
ArithmeticRow(n) ==
    BothWays(8 * n) \o
    << Alt(<<"v", "AL", ",", "h">>, Code(8 * n + 4, "i")),
       Alt(<<"w", "AX", ",", "g">>, Code(8 * n + 5, "j")),
       Alt(<<"m", ",", "s">>, <<<<"s">>, Modrm(n), <<"j">>>>),
       Alt(<<"l", ",", "t">>, <<Byte(128), Modrm(n), <<"i">>>>) >>

Shifts == [ROL |-> 0, ROR |-> 1, RCL |-> 2, RCR |-> 3, SHL |-> 4, SHR |-> 5, SAL |-> 4, SAR |-> 7]
ShiftRow(n) ==
    << Alt(<<"j", ",", "1">>, <<<<"g">>, Modrm(n), <<"k">>>>),
       Alt(<<"k", ",", "1">>, <<<<"h">>, Modrm(n), <<"k">>>>) >>
    \o Sized(<<"j", ",", "CL">>, <<"k", ",", "CL">>, 210, n)

Unary == [NOT |-> 2, NEG |-> 3, MUL |-> 4, DIV |-> 6, IDIV |-> 7]

Conditional ==
    [JO |-> 0, JNO |-> 1, JB |-> 2, JC |-> 2, JNAE |-> 2, JAE |-> 3, JNB |-> 3, JNC |-> 3,
     JE |-> 4, JZ |-> 4, JNE |-> 5, JNZ |-> 5, JBE |-> 6, JNA |-> 6, JA |-> 7, JNBE |-> 7,
     JS |-> 8, JNS |-> 9, JP |-> 10, JPE |-> 10, JNP |-> 11, JPO |-> 11, JL |-> 12,
     JNGE |-> 12, JGE |-> 13, JNL |-> 13, JLE |-> 14, JNG |-> 14, JG |-> 15, JNLE |-> 15]

Loops == [LOOPNE |-> 224, LOOPNZ |-> 224, LOOPE |-> 225, LOOPZ |-> 225, LOOP |-> 226, JCXZ |-> 227]

Plain ==
    [DAA |-> 39, DAS |-> 47, AAA |-> 55, AAS |-> 63, NOP |-> 144, CBW |-> 152, CWD |-> 153,
     PUSHF |-> 156, POPF |-> 157, SAHF |-> 158, LAHF |-> 159, MOVSB |-> 164, MOVSW |-> 165,
     CMPSB |-> 166, CMPSW |-> 167, STOSB |-> 170, STOSW |-> 171, LODSB |-> 172, LODSW |-> 173,
     SCASB |-> 174, SCASW |-> 175, INT3 |-> 204, INTO |-> 206, IRET |-> 207, SALC |-> 214,
     XLAT |-> 215, XLATB |-> 215, HLT |-> 244, CMC |-> 245, CLC |-> 248, STC |-> 249,
     CLI |-> 250, STI |-> 251, CLD |-> 252, STD |-> 253]
Plain186 == [PUSHA |-> 96, PUSHAW |-> 96, POPA |-> 97, POPAW |-> 97, INSB |-> 108,
             INSW |-> 109, OUTSB |-> 110, OUTSW |-> 111, LEAVE |-> 201]

\* With these the line goes on.
PrefixCode == [ES |-> 38, CS |-> 46, SS |-> 54, DS |-> 62, WAIT |-> 155, LOCK |-> 240,
             REPNE |-> 242, REPNZ |-> 242, REP |-> 243, REPE |-> 243, REPZ |-> 243]

InRow ==
    << Alt(<<"v", "AL", ",", "w", "DX">>, <<Byte(236)>>), Alt(<<"w", "AX", ",", "w", "DX">>, <<Byte(237)>>),
       Alt(<<"v", "AL", ",", "h">>, Code(228, "i")), Alt(<<"w", "AX", ",", "i">>, Code(229, "i")) >>

SegmentNames == <<"ES", "CS", "SS", "DS">>

\* The rows that are like no other.
Single ==
    [MOV |-> BothWays(136)
        \o [n \in 1..4 |-> Alt(<<"k", ",", SegmentNames[n]>>, <<Byte(140), Modrm(n - 1)>>)]
        \o [n \in 1..4 |-> Alt(<<SegmentNames[n], ",", "k">>, <<Byte(142), Modrm(n - 1)>>)]
        \o << Alt(<<"q", ",", "h">>, <<Plus(176), <<"i">>>>),
              Alt(<<"r", ",", "i">>, <<Plus(184), <<"j">>>>),
              Alt(<<"m", ",", "u">>, <<Byte(199), Modrm(0), <<"j">>>>),
              Alt(<<"l", ",", "t">>, <<Byte(198), Modrm(0), <<"i">>>>) >>,
     TEST |->
        << Alt(<<"j", ",", "q">>, <<Byte(132), ModrmReg>>), Alt(<<"q", ",", "j">>, <<Byte(132), ModrmReg>>),
           Alt(<<"k", ",", "r">>, <<Byte(133), ModrmReg>>), Alt(<<"r", ",", "k">>, <<Byte(133), ModrmReg>>),
           Alt(<<"v", "AL", ",", "h">>, Code(168, "i")), Alt(<<"w", "AX", ",", "i">>, Code(169, "j")),
           Alt(<<"m", ",", "u">>, <<Byte(247), Modrm(0), <<"j">>>>),
           Alt(<<"l", ",", "t">>, <<Byte(246), Modrm(0), <<"i">>>>) >>,
     XCHG |->
        << Alt(<<"w", "AX", ",", "r">>, <<Plus(144)>>), Alt(<<"r", ",", "AX">>, <<Plus(144)>>),
           Alt(<<"q", ",", "j">>, <<Byte(134), ModrmReg>>), Alt(<<"j", ",", "q">>, <<Byte(134), ModrmReg>>),
           Alt(<<"r", ",", "k">>, <<Byte(135), ModrmReg>>), Alt(<<"k", ",", "r">>, <<Byte(135), ModrmReg>>) >>,
     INC |-> <<Alt(<<"r">>, <<Plus(64)>>)>> \o Sized(<<"l">>, <<"m">>, 254, 0),
     DEC |-> <<Alt(<<"r">>, <<Plus(72)>>)>> \o Sized(<<"l">>, <<"m">>, 254, 1),
     PUSH |->
        << Alt(<<"ES">>, <<Byte(6)>>), Alt(<<"CS">>, <<Byte(14)>>), Alt(<<"SS">>, <<Byte(22)>>),
           Alt(<<"DS">>, <<Byte(30)>>), Alt(<<"r">>, <<Plus(80)>>),
           Alt(<<"x", "s">>, <<<<"l">>, <<"j">>>>), Alt(<<"k">>, <<Byte(255), Modrm(6)>>) >>,
     POP |->
        << Alt(<<"ES">>, <<Byte(7)>>), Alt(<<"SS">>, <<Byte(23)>>), Alt(<<"DS">>, <<Byte(31)>>),
           Alt(<<"CS">>, <<Byte(15)>>), Alt(<<"r">>, <<Plus(88)>>), Alt(<<"k">>, <<Byte(143), Modrm(0)>>) >>,
     CALL |->
        << Alt(<<"FAR", "k">>, <<Byte(255), Modrm(3)>>), Alt(<<"f">>, Code(154, "f")),
           Alt(<<"k">>, <<Byte(255), Modrm(2)>>), Alt(<<"b">>, Code(232, "b")) >>,
     JMP |->
        << Alt(<<"FAR", "k">>, <<Byte(255), Modrm(5)>>), Alt(<<"f">>, Code(234, "f")),
           Alt(<<"k">>, <<Byte(255), Modrm(4)>>), Alt(<<"c">>, Code(235, "a")),
           Alt(<<"b">>, Code(233, "b")) >>,
     IMUL |-> Sized(<<"l", ".">>, <<"m", ".">>, 246, 5) \o
        << Alt(<<"x", "p", ",", "s", ".">>, <<<<"m">>, ModrmReg, <<"j">>>>),
           Alt(<<"x", "r", ",", "k", ",", "s">>, <<<<"m">>, ModrmReg, <<"j">>>>) >>,
     OUT |->
        << Alt(<<"w", "DX", ",", "v", "AL">>, <<Byte(238)>>), Alt(<<"w", "DX", ",", "AX">>, <<Byte(239)>>),
           Alt(<<"h", ",", "v", "AL">>, Code(230, "i")), Alt(<<"i", ",", "AX">>, Code(231, "i")) >>,
     LEA |-> <<Alt(<<"r", ",", "o">>, <<Byte(141), ModrmReg>>)>>,
     LES |-> <<Alt(<<"r", ",", "n">>, <<Byte(196), ModrmReg>>)>>,
     LDS |-> <<Alt(<<"r", ",", "n">>, <<Byte(197), ModrmReg>>)>>,
     BOUND |-> <<Alt(<<"x", "r", ",", "o">>, <<Byte(98), ModrmReg>>)>>,
     ENTER |-> <<Alt(<<"x", "e", ",", "h">>, <<Byte(200), <<"e">>, <<"i">>>>)>>,
     INT |-> <<Alt(<<"i">>, Code(205, "i"))>>,
     RET |-> <<Alt(<<"i">>, Code(194, "j")), Alt(<<>>, <<Byte(195)>>)>>,
     RETF |-> <<Alt(<<"i">>, Code(202, "j")), Alt(<<>>, <<Byte(203)>>)>>,
     AAM |-> <<Alt(<<"i">>, Code(212, "i")), Alt(<<>>, <<Byte(212), Byte(10)>>)>>,
     AAD |-> <<Alt(<<"i">>, Code(213, "i")), Alt(<<>>, <<Byte(213), Byte(10)>>)>>,
     PAUSE |-> <<Alt(<<>>, <<Byte(243), Byte(144)>>)>>,
     UD0 |-> <<Alt(<<"y">>, <<Byte(15), Byte(255)>>)>>,
     UD1 |-> <<Alt(<<"y">>, <<Byte(15), Byte(185)>>)>>,
     UD2 |-> <<Alt(<<"y">>, <<Byte(15), Byte(11)>>)>>]

Row(name) ==
    IF name \in DOMAIN Arithmetic THEN ArithmeticRow(Arithmetic[name])
    ELSE IF name \in DOMAIN Shifts THEN ShiftRow(Shifts[name])
    ELSE IF name \in DOMAIN Unary THEN Sized(<<"l">>, <<"m">>, 246, Unary[name])
    ELSE IF name \in DOMAIN Conditional THEN <<Alt(<<"a">>, Code(112 + Conditional[name], "a"))>>
    ELSE IF name \in DOMAIN Loops THEN <<Alt(<<"a">>, Code(Loops[name], "a"))>>
    ELSE IF name \in DOMAIN Plain THEN <<Alt(<<>>, <<Byte(Plain[name])>>)>>
    ELSE IF name \in DOMAIN Plain186 THEN <<Alt(<<"x">>, <<Byte(Plain186[name])>>)>>
    ELSE IF name \in DOMAIN PrefixCode THEN <<Alt(<<>>, Code(PrefixCode[name], "+"))>>
    ELSE IF name = "IN" THEN InRow
    ELSE Single[name]

=============================================================================
