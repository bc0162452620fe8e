------------------------------ MODULE MCSession ------------------------------
(***************************************************************************)
(* Arguments and files for Session.                                        *)
(***************************************************************************)
EXTENDS SessionProperties

Word(name) == [word |-> name]
Flag(letter, rest) == [letter |-> letter, rest |-> rest]

MainName == <<7>>
IncName == <<8, 8, 8>>
Missing == <<6>>

Bytes(n) == [op |-> "code", n |-> n]
Incbin(n) == [op |-> "incbin", n |-> n]
IfLine(b) == [op |-> "if", true |-> b]
Include(f) == [op |-> "include", file |-> f]
Plain(op) == [op |-> op]

ThirdName == <<9, 9>>

ThreeFiles(main, inc, third) ==
    [f \in {MainName, IncName, ThirdName} |->
        IF f = MainName THEN main ELSE IF f = IncName THEN inc ELSE third]
Files(main, inc) == ThreeFiles(main, inc, <<>>)

\* One source file, and up to four arguments of all kinds.
SomeArguments ==
    {Word(MainName), Word(Bin), Word(Com), Flag("d", <<3>>), Flag("d", BadMacro),
     Flag("w", <<3>>), Flag("z", <<>>), Flag("f", <<>>), Flag("f", Bin),
     Flag("o", <<>>), Flag("l", <<>>), Flag("o", <<3>>)}
    \cup {Flag("o", Levels[t]) : t \in DOMAIN Levels}
ArgumentSessions ==
    [argv : UNION {[1..n -> SomeArguments] : n \in 1..3}, files : {Files(<<Bytes(1)>>, <<>>)}]
FlagSessions ==
    [argv : {<<a, b, c, d, Word(MainName)>> : a, b, c, d \in
                {Flag("f", <<>>), Flag("o", <<>>), Flag("l", <<>>), Word(Com),
                 Flag("o", Levels.O9)}},
     files : {Files(<<Bytes(1)>>, <<>>)}]

\* A file that includes another, and is read on behind it.
Ends == {Bytes(1), IfLine(TRUE), IfLine(FALSE), Plain("else"), Plain("endif")}
Middle == {Bytes(4), Plain("bad"), Plain("late"), Plain("global"), Incbin(2),
           IfLine(FALSE), Plain("endif"), Include(Missing), Include(IncName), Include(MainName)}
NestedFiles ==
    {Files(<<a, Include(IncName), b, c>>, <<d, e>>) :
        a \in Ends \cup {Plain("global")}, b \in Ends \cup {Plain("late")},
        c \in {Bytes(2), Plain("endif")}, d \in Middle, e \in {Bytes(1), Plain("late"), Plain("else")}}
TwiceFiles ==
    {Files(<<Include(IncName), a, Include(IncName), Bytes(2)>>, <<b, c>>) :
        a \in Ends, b \in {Bytes(2), Plain("late")}, c \in {Incbin(3), Plain("endif")}}
DeepFiles ==
    {ThreeFiles(<<a, Include(IncName), b>>, <<c, Include(ThirdName), d>>, <<e>>) :
        a \in {IfLine(TRUE), Plain("global")}, b \in {Plain("else"), Bytes(1)},
        c \in {IfLine(TRUE), Bytes(1)}, d \in {Plain("endif"), Include(ThirdName)},
        e \in {Bytes(3), Plain("bad"), Include(IncName), Include(MainName), Include(ThirdName)}}

Usual == <<Word(MainName), Flag("o", <<>>), Word(<<5>>), Flag("l", <<>>), Word(<<4>>),
           Flag("o", Levels.O9)>>
FileSessions == [argv : {Usual}, files : NestedFiles \cup TwiceFiles \cup DeepFiles]

MCSessions == ArgumentSessions \cup FlagSessions \cup FileSessions

=============================================================================
