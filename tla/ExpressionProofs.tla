--------------------------- MODULE ExpressionProofs ---------------------------
(***************************************************************************)
(* Proofs about expressions, for texts of every length: what may wait on   *)
(* match_stack, and in which order; that every value fits its width; and   *)
(* that the result is the one that the grammar gives.                      *)
(***************************************************************************)
EXTENDS ExpressionProperties, TLAPS

Numbers == INSTANCE Induction

LEMMA MinIs ==
    ASSUME NEW S, S \subseteq Nat, S # {}
    PROVE  Min(S) \in S /\ \A x \in S : Min(S) <= x
<1>1. PICK x \in S : \A y \in S : x <= y
  BY Numbers!Smallest
<1>2. QED
  BY <1>1 DEF Min

LEMMA BinaryIs ==
    Binary = {"|", "^", "&", "<<", ">>", "+", "-", "*", "/", "//", "%", "%%"}
  BY Zenon DEF Binary, Rank

LEMMA RankIs ==
    ASSUME NEW op \in Binary
    PROVE  Rank[op] \in 0..5
<1>1. 0 \in 0..5 /\ 1 \in 0..5 /\ 2 \in 0..5 /\ 3 \in 0..5 /\ 4 \in 0..5 /\ 5 \in 0..5
  OBVIOUS
<1>2. CASE op = "|"
  BY <1>1, <1>2, Zenon DEF Rank
<1>3. CASE op = "^"
  BY <1>1, <1>3, Zenon DEF Rank
<1>4. CASE op = "&"
  BY <1>1, <1>4, Zenon DEF Rank
<1>5. CASE op \in {"<<", ">>"}
  BY <1>1, <1>5, Zenon DEF Rank
<1>6. CASE op \in {"+", "-"}
  BY <1>1, <1>6, Zenon DEF Rank
<1>7. CASE op \in {"*", "/", "//", "%", "%%"}
  BY <1>1, <1>7, Zenon DEF Rank
<1> QED
  BY <1>2, <1>3, <1>4, <1>5, <1>6, <1>7, BinaryIs, Zenon

-----------------------------------------------------------------------------
(* What waits on the stack.  The three kinds of items are named, so that the  *)
(* provers need not compare the texts of the operators.                       *)

ItemKinds == Binary \cup {"(", "-sign", "+sign"}

IsParen(c) == c = "("
IsSign(c) == c \in {"-sign", "+sign"}

\* Each kind of item is one of three, and an operator has a rank.
LEMMA KindsDiffer ==
    ASSUME NEW c \in ItemKinds
    PROVE  /\ c \in Binary \/ IsParen(c) \/ IsSign(c)
           /\ ~(c \in Binary /\ IsParen(c)) /\ ~(c \in Binary /\ IsSign(c))
           /\ ~(IsParen(c) /\ IsSign(c))
           /\ c \in Binary => Rank[c] \in 0..5
<1>1. c \in Binary \/ IsParen(c) \/ IsSign(c)
  BY Zenon DEF ItemKinds, IsParen, IsSign
<1>2. ~(c \in Binary /\ IsParen(c))
  BY BinaryIs, Zenon DEF IsParen
<1>3. ~(c \in Binary /\ IsSign(c))
  BY BinaryIs, Zenon DEF IsSign
<1>4. ~(IsParen(c) /\ IsSign(c))
  BY Zenon DEF IsParen, IsSign
<1> QED
  BY <1>1, <1>2, <1>3, <1>4, RankIs, Zenon

\* The level behind an item of kind c, and behind the first i of them.
LevelBehind(c) == IF IsParen(c) THEN 0 ELSE IF IsSign(c) THEN 6 ELSE Rank[c] + 1

LevelAt(stack, i) == IF i = 0 THEN 0 ELSE LevelBehind(stack[i].casei)

Items(V) == [casei : ItemKinds, open : Int, level : 0..6, value1 : V]

\* An item remembers the level in front of it; an operator is allowed there, and
\* behind a sign there is only a parenthesis.
Ordered(stack) ==
    \A i \in 1..Len(stack) :
        /\ stack[i].level = LevelAt(stack, i - 1)
        /\ stack[i].casei \in Binary => stack[i].level <= Rank[stack[i].casei]
        /\ IsSign(stack[i].casei) /\ i < Len(stack) => IsParen(stack[i + 1].casei)

LEMMA LevelIs ==
    ASSUME NEW c \in ItemKinds
    PROVE  /\ LevelBehind(c) \in 0..6
           /\ IsParen(c) => LevelBehind(c) = 0
           /\ IsSign(c) => LevelBehind(c) = 6
           /\ c \in Binary => LevelBehind(c) = Rank[c] + 1
  BY KindsDiffer DEF LevelBehind

LEMMA PushKeeps ==
    ASSUME NEW V, NEW stack \in Seq(Items(V)), NEW item \in Items(V), Ordered(stack),
           item.level = LevelAt(stack, Len(stack)),
           item.casei \in Binary => item.level <= Rank[item.casei],
           stack # <<>> /\ IsSign(stack[Len(stack)].casei) => IsParen(item.casei)
    PROVE  /\ Append(stack, item) \in Seq(Items(V))
           /\ Ordered(Append(stack, item))
           /\ LevelAt(Append(stack, item), Len(stack) + 1) = LevelBehind(item.casei)
<1> DEFINE more == Append(stack, item)
<1>1. /\ more \in Seq(Items(V)) /\ Len(more) = Len(stack) + 1 /\ Len(stack) \in Nat
      /\ more[Len(stack) + 1] = item
      /\ \A i \in 1..Len(stack) : more[i] = stack[i]
  OBVIOUS
<1> HIDE DEF more
<1>2. ASSUME NEW i \in 1..Len(more)
      PROVE  /\ more[i].level = LevelAt(more, i - 1)
             /\ more[i].casei \in Binary => more[i].level <= Rank[more[i].casei]
             /\ IsSign(more[i].casei) /\ i < Len(more) => IsParen(more[i + 1].casei)
  <2>0. LevelAt(more, i - 1) = LevelAt(stack, i - 1)
    <3>1. i - 1 = 0 \/ i - 1 \in 1..Len(stack)
      BY <1>1
    <3> QED
      BY <1>1, <3>1 DEF LevelAt
  <2>1. CASE i = Len(stack) + 1
    BY <1>1, <2>0, <2>1
  <2>2. CASE i < Len(stack)
    <3>1. i \in 1..Len(stack) /\ i + 1 \in 1..Len(stack)
      BY <1>1, <2>2
    <3> QED
      BY <1>1, <2>0, <2>2, <3>1 DEF Ordered
  <2>3. CASE i = Len(stack)
    <3>1. i \in 1..Len(stack) /\ stack # <<>> /\ more[i + 1] = item
      BY <1>1, <2>3
    <3> QED
      BY <1>1, <2>0, <2>3, <3>1 DEF Ordered
  <2> QED
    BY <1>1, <2>1, <2>2, <2>3
<1>3. LevelAt(more, Len(stack) + 1) = LevelBehind(item.casei)
  BY <1>1 DEF LevelAt
<1> QED
  BY <1>1, <1>2, <1>3 DEF Ordered, more

LEMMA FrontIs ==
    ASSUME NEW S, NEW s \in Seq(S), s # <<>>
    PROVE  /\ Front(s) \in Seq(S) /\ Len(Front(s)) = Len(s) - 1
           /\ \A i \in 1..Len(Front(s)) : Front(s)[i] = s[i]
<1>1. Len(s) \in Nat \ {0} /\ 1 \in Int /\ Len(s) - 1 \in Int /\ Len(s) - 1 < Len(s)
  OBVIOUS
<1>2. \A i \in 1..Len(s) - 1 : s[i] \in S
  OBVIOUS
<1>3. Front(s) = [i \in 1..Len(s) - 1 |-> s[i]]
  BY <1>1 DEF Front
<1>4. [i \in 1..Len(s) - 1 |-> s[i]] \in Seq(S)
  BY <1>1, <1>2
<1> QED
  BY <1>1, <1>3, <1>4

LEMMA PopKeeps ==
    ASSUME NEW V, NEW stack \in Seq(Items(V)), stack # <<>>, Ordered(stack)
    PROVE  /\ Front(stack) \in Seq(Items(V)) /\ Last(stack) \in Items(V)
           /\ Last(stack) = stack[Len(stack)] /\ Len(Front(stack)) = Len(stack) - 1
           /\ Ordered(Front(stack))
           /\ Last(stack).level = LevelAt(Front(stack), Len(Front(stack)))
           /\ ~IsParen(Last(stack).casei) =>
                 Front(stack) = <<>> \/ ~IsSign(Front(stack)[Len(Front(stack))].casei)
<1> DEFINE less == Front(stack)
<1>1. Len(stack) \in Nat \ {0} /\ Last(stack) = stack[Len(stack)] /\ Last(stack) \in Items(V)
  BY DEF Last
<1>2. /\ less \in Seq(Items(V)) /\ Len(less) = Len(stack) - 1
      /\ \A i \in 1..Len(less) : less[i] = stack[i]
  BY <1>1, FrontIs
<1> HIDE DEF less
<1>3. ASSUME NEW i \in 1..Len(less)
      PROVE  /\ less[i].level = LevelAt(less, i - 1)
             /\ less[i].casei \in Binary => less[i].level <= Rank[less[i].casei]
             /\ IsSign(less[i].casei) /\ i < Len(less) => IsParen(less[i + 1].casei)
  <2>1. /\ i \in 1..Len(stack) /\ less[i] = stack[i]
        /\ i < Len(less) => i < Len(stack) /\ less[i + 1] = stack[i + 1]
    BY <1>1, <1>2
  <2>2. LevelAt(less, i - 1) = LevelAt(stack, i - 1)
    <3>1. i - 1 = 0 \/ i - 1 \in 1..Len(less)
      BY <1>1, <1>2
    <3> QED
      BY <1>1, <1>2, <3>1 DEF LevelAt
  <2> QED
    BY <2>1, <2>2 DEF Ordered
<1>4. stack[Len(stack)].level = LevelAt(less, Len(less))
  BY <1>1, <1>2 DEF Ordered, LevelAt
<1>5. ~IsParen(Last(stack).casei) => less = <<>> \/ ~IsSign(less[Len(less)].casei)
  <2>1. SUFFICES ASSUME less # <<>>, IsSign(less[Len(less)].casei)
                 PROVE  IsParen(Last(stack).casei)
    OBVIOUS
  <2>2. Len(less) \in 1..Len(stack) /\ Len(less) < Len(stack) /\ Len(less) \in 1..Len(less)
    BY <1>1, <1>2, <2>1
  <2> QED
    BY <1>1, <1>2, <2>1, <2>2 DEF Ordered
<1> QED
  BY <1>1, <1>2, <1>3, <1>4, <1>5 DEF Ordered, less

\* A parenthesis fewer in the item on top.
LEMMA OpenKeeps ==
    ASSUME NEW V, NEW stack \in Seq(Items(V)), stack # <<>>, Ordered(stack),
           IsParen(Last(stack).casei), NEW n \in Int
    PROVE  LET less == Append(Front(stack), [Last(stack) EXCEPT !.open = n])
           IN  /\ less \in Seq(Items(V)) /\ Len(less) = Len(stack)
               /\ Ordered(less) /\ LevelAt(less, Len(less)) = 0
<1> DEFINE item == [Last(stack) EXCEPT !.open = n]
<1>1. /\ Front(stack) \in Seq(Items(V)) /\ Last(stack) \in Items(V)
      /\ Len(Front(stack)) = Len(stack) - 1 /\ Ordered(Front(stack))
      /\ Last(stack).level = LevelAt(Front(stack), Len(Front(stack)))
  BY PopKeeps
<1>2. /\ item \in Items(V) /\ item.level = Last(stack).level
      /\ item.casei = Last(stack).casei
  BY <1>1 DEF Items
<1>3. item.casei \notin Binary /\ item.casei \in ItemKinds /\ LevelBehind(item.casei) = 0
  BY <1>2, KindsDiffer, LevelIs DEF Items
<1> HIDE DEF item
<1>4. /\ Append(Front(stack), item) \in Seq(Items(V)) /\ Ordered(Append(Front(stack), item))
      /\ LevelAt(Append(Front(stack), item), Len(Front(stack)) + 1) = 0
  BY <1>1, <1>2, <1>3, PushKeeps
<1>5. Len(Append(Front(stack), item)) = Len(stack) /\ Len(Front(stack)) + 1 = Len(stack)
  BY <1>1
<1> QED
  BY <1>4, <1>5 DEF item

-----------------------------------------------------------------------------
(* The invariant.  Signs are read as far as there are any, so that behind    *)
(* them the scan finds none; without parentheses each item has a higher      *)
(* level than the one below it.                                              *)

TextOK == source \in Sources /\ p \in 1..Len(source) + 1 /\ rank \in 0..5 /\ level \in 0..6

StackOK ==
    /\ \E V : match_stack \in Seq(Items(V))
    /\ Ordered(match_stack)
    /\ level = LevelAt(match_stack, Len(match_stack))

SignsRead ==
    pc = "match" /\ match_stack # <<>> =>
        ~(IsSign(match_stack[Len(match_stack)].casei) /\ At(Unary))

SomethingWaits == pc = "pop" => match_stack # <<>>

WaitInv == TextOK /\ StackOK /\ SignsRead /\ SomethingWaits

NoParens(text) == \A i \in 1..Len(text) : text[i].op # "("

FlatStack(stack) ==
    \A i \in 1..Len(stack) : ~IsParen(stack[i].casei) /\ stack[i].level >= i - 1

TooDeep == "Expression too deep" \in errors

FlatInv == StackDepth > 7 /\ NoParens(source) => FlatStack(match_stack) /\ ~TooDeep

LEMMA TextIs ==
    ASSUME TextOK
    PROVE  /\ Len(source) \in Nat /\ p \in Nat \ {0} /\ p <= Len(source) + 1
           /\ \A s \in Sources : Len(s) \in Nat
BY SourcesAssumption DEF TextOK

\* Where a run of tokens ends.
LEMMA BehindIs ==
    ASSUME TextOK, NEW ops
    PROVE  /\ Behind(ops) \in p..Len(source) + 1
           /\ Behind(ops) <= Len(source) => source[Behind(ops)].op \notin ops
           /\ At(ops) => Behind(ops) > p
<1> DEFINE S == {i \in p..Len(source) : source[i].op \notin ops} \cup {Len(source) + 1}
<1>1. S \subseteq Nat /\ S # {} /\ S \subseteq p..Len(source) + 1
  BY TextIs
<1>2. Behind(ops) = Min(S)
  BY DEF Behind
<1>3. Min(S) \in S
  BY <1>1, MinIs
<1>4. p \in S => ~At(ops)
  <2>1. p # Len(source) + 1 /\ p \in S => source[p].op \notin ops
    OBVIOUS
  <2>2. p = Len(source) + 1 => ~At(ops)
    BY TextIs DEF At
  <2>3. At(ops) => source[p].op \in ops
    BY DEF At
  <2> QED
    BY <2>1, <2>2, <2>3
<1>5. Min(S) <= Len(source) => source[Min(S)].op \notin ops
  BY <1>3, TextIs
<1>6. Min(S) \in p..Len(source) + 1
  BY <1>1, <1>3
<1> HIDE DEF S
<1> QED
  BY <1>2, <1>3, <1>4, <1>5, <1>6, TextIs

LEMMA SeqGrows ==
    ASSUME NEW A, NEW B, A \subseteq B, NEW s \in Seq(A)
    PROVE  s \in Seq(B)
  OBVIOUS

\* More values do no harm.
LEMMA MoreValues ==
    ASSUME NEW V, NEW W, NEW s \in Seq(Items(V))
    PROVE  s \in Seq(Items(V \cup W))
<1>1. Items(V) \subseteq Items(V \cup W)
  BY DEF Items
<1> QED
  BY <1>1, SeqGrows

\* Without parentheses few items are on the stack, and one more is not too many.
LEMMA FlatPush ==
    ASSUME NEW V, NEW stack \in Seq(Items(V)), NEW item \in Items(V), Ordered(stack),
           FlatStack(stack), ~IsParen(item.casei), item.level = LevelAt(stack, Len(stack)),
           stack # <<>> => ~IsSign(stack[Len(stack)].casei)
    PROVE  FlatStack(Append(stack, item)) /\ Len(stack) <= 6
<1>1. CASE stack = <<>>
  <2>1. Len(stack) = 0 /\ Append(stack, item) = <<item>> /\ item.level = 0
    BY <1>1 DEF LevelAt
  <2> QED
    BY <2>1 DEF FlatStack
<1>2. CASE stack # <<>>
  <2> DEFINE n == Len(stack)
             k == stack[n].casei
  <2>1. /\ n \in Nat \ {0} /\ n \in 1..n
        /\ stack[n] \in Items(V)
        /\ \A i \in 1..n : stack[i] \in Items(V)
    BY <1>2
  <2>2. k \in ItemKinds /\ stack[n].level \in 0..6
    BY <2>1 DEF Items
  <2>3. k \in Binary
    BY <1>2, <2>1, <2>2, KindsDiffer DEF FlatStack
  <2>4. stack[n].level >= n - 1 /\ stack[n].level <= Rank[k] /\ Rank[k] \in 0..5
    BY <2>1, <2>3, RankIs DEF FlatStack, Ordered
  <2>5. item.level = Rank[k] + 1
    BY <2>1, <2>2, <2>3, LevelIs DEF LevelAt
  <2>6. n <= 6 /\ item.level >= n
    BY <2>1, <2>2, <2>4, <2>5
  <2>7. ASSUME NEW i \in 1..Len(Append(stack, item))
        PROVE  ~IsParen(Append(stack, item)[i].casei) /\ Append(stack, item)[i].level >= i - 1
    <3>1. CASE i = n + 1
      BY <2>1, <2>6, <3>1
    <3>2. CASE i \in 1..n
      <4>1. Append(stack, item)[i] = stack[i]
        BY <2>1, <3>2
      <4> QED
        BY <3>2, <4>1 DEF FlatStack
    <3> QED
      BY <2>1, <3>1, <3>2
  <2> QED
    BY <2>6, <2>7 DEF FlatStack
<1> QED
  BY <1>1, <1>2

-----------------------------------------------------------------------------
(* Steps.                                                                   *)

\* A step that leaves the stack alone.
LEMMA StackStays ==
    ASSUME WaitInv, FlatInv, UNCHANGED <<source, match_stack, level>>,
           p' \in 1..Len(source) + 1, rank' \in 0..5, pc' # "match",
           pc' = "pop" => match_stack # <<>>, TooDeep' => TooDeep
    PROVE  WaitInv' /\ FlatInv'
<1>1. TextOK'
  BY DEF WaitInv, TextOK
<1>2. StackOK'
  BY DEF WaitInv, StackOK
<1>3. SignsRead' /\ SomethingWaits'
  BY DEF SignsRead, SomethingWaits
<1>4. FlatInv'
  BY DEF FlatInv
<1> QED
  BY <1>1, <1>2, <1>3, <1>4 DEF WaitInv

\* A step that takes the item on top away.
LEMMA StackPops ==
    ASSUME WaitInv, FlatInv, match_stack # <<>>, UNCHANGED source,
           match_stack' = Front(match_stack), level' = Last(match_stack).level,
           p' \in 1..Len(source) + 1, rank' \in 0..5, pc' # "match", pc' # "pop",
           TooDeep' => TooDeep
    PROVE  WaitInv' /\ FlatInv'
<1>1. PICK V : match_stack \in Seq(Items(V))
  BY DEF WaitInv, StackOK
<1>2. /\ Front(match_stack) \in Seq(Items(V)) /\ Last(match_stack) \in Items(V)
      /\ Ordered(Front(match_stack))
      /\ Last(match_stack).level = LevelAt(Front(match_stack), Len(Front(match_stack)))
  BY <1>1, PopKeeps DEF WaitInv, StackOK
<1>3. level' \in 0..6
  BY <1>2 DEF Items
<1>4. TextOK'
  BY <1>3 DEF WaitInv, TextOK
<1>5. StackOK'
  BY <1>2 DEF StackOK
<1>6. SignsRead' /\ SomethingWaits'
  BY DEF SignsRead, SomethingWaits
<1>7. ASSUME FlatStack(match_stack) PROVE FlatStack(match_stack')
  <2>1. /\ Len(Front(match_stack)) = Len(match_stack) - 1 /\ Len(match_stack) \in Nat
        /\ \A i \in 1..Len(Front(match_stack)) : Front(match_stack)[i] = match_stack[i]
    BY <1>1, FrontIs
  <2> QED
    BY <1>7, <2>1 DEF FlatStack
<1>8. FlatInv'
  BY <1>7 DEF FlatInv
<1> QED
  BY <1>4, <1>5, <1>6, <1>8 DEF WaitInv

\* A step that puts an item on the stack, or finds that it has no room.
LEMMA StackPushes ==
    ASSUME WaitInv, FlatInv, UNCHANGED <<source, rank>>, p' \in 1..Len(source) + 1,
           NEW c \in ItemKinds, NEW n \in Int, NEW v,
           Push(Item(c, n, v), LevelBehind(c)),
           c \in Binary => level <= Rank[c],
           match_stack # <<>> /\ IsSign(match_stack[Len(match_stack)].casei) => IsParen(c),
           IsSign(c) => ~At(Unary)',
           NoParens(source) => ~IsParen(c)
    PROVE  WaitInv' /\ FlatInv'
<1>0. PICK V : match_stack \in Seq(Items(V))
  BY DEF WaitInv, StackOK
<1> DEFINE W == V \cup {v}
           item == Item(c, n, v)
<1>1. match_stack \in Seq(Items(W)) /\ Len(match_stack) \in Nat
  <2>1. match_stack \in Seq(Items(V \cup {v}))
    BY <1>0, MoreValues, Zenon
  <2> QED
    BY <1>0, <2>1
<1>2. item \in Items(W) /\ item.casei = c /\ item.level = level
  BY DEF Items, Item, WaitInv, TextOK
<1>3. Ordered(match_stack) /\ level = LevelAt(match_stack, Len(match_stack))
  BY DEF WaitInv, StackOK
<1> HIDE DEF item, W
<1>4. CASE Len(match_stack) + 1 = StackDepth
  <2>1. /\ UNCHANGED <<match_stack, level>> /\ pc' = "done"
        /\ errors' = errors \cup {"Expression too deep"}
    BY <1>4, Zenon DEF Push, Fail
  <2>2. TextOK' /\ StackOK' /\ SignsRead' /\ SomethingWaits'
    BY <2>1 DEF WaitInv, TextOK, StackOK, SignsRead, SomethingWaits
  <2>3. ~(StackDepth > 7 /\ NoParens(source))
    <3>1. SUFFICES ASSUME StackDepth > 7, NoParens(source) PROVE FALSE
      OBVIOUS
    <3>2. FlatStack(match_stack) /\ ~IsParen(c)
      BY <3>1 DEF FlatInv
    <3>3. Len(match_stack) <= 6
      BY <1>1, <1>2, <1>3, <3>2, FlatPush
    <3> QED
      BY <1>1, <1>4, <3>1, <3>3, SizesAssumption
  <2>4. FlatInv'
    BY <2>3 DEF FlatInv
  <2> QED
    BY <2>2, <2>4 DEF WaitInv
<1>5. CASE Len(match_stack) + 1 # StackDepth
  <2>1. /\ match_stack' = Append(match_stack, item) /\ level' = LevelBehind(c)
        /\ pc' = "match" /\ UNCHANGED errors
    BY <1>5, Zenon DEF Push, item
  <2>2. /\ match_stack' \in Seq(Items(W)) /\ Ordered(match_stack')
        /\ LevelAt(match_stack', Len(match_stack) + 1) = LevelBehind(c)
    BY <1>1, <1>2, <1>3, <2>1, PushKeeps
  <2>3. Len(match_stack') = Len(match_stack) + 1 /\ match_stack'[Len(match_stack')] = item
    BY <1>1, <1>2, <2>1
  <2>4. TextOK'
    BY <2>1, LevelIs DEF WaitInv, TextOK
  <2>5. StackOK'
    BY <2>1, <2>2, <2>3 DEF StackOK
  <2>6. SignsRead'
    BY <1>2, <2>3 DEF SignsRead
  <2>7. SomethingWaits'
    BY <2>1 DEF SomethingWaits
  <2>8. FlatInv'
    <3>1. SUFFICES ASSUME StackDepth > 7, NoParens(source)
                   PROVE  FlatStack(match_stack') /\ ~TooDeep'
      BY DEF FlatInv
    <3>2. FlatStack(match_stack) /\ ~IsParen(c) /\ ~TooDeep
      BY <3>1 DEF FlatInv
    <3>3. FlatStack(match_stack')
      BY <1>1, <1>2, <1>3, <2>1, <3>2, FlatPush
    <3>4. ~TooDeep'
      BY <2>1, <3>2, Zenon DEF TooDeep
    <3> QED
      BY <3>3, <3>4
  <2> QED
    BY <2>4, <2>5, <2>6, <2>7, <2>8 DEF WaitInv
<1> QED
  BY <1>4, <1>5

LEMMA ParensKeep ==
    ASSUME WaitInv, FlatInv, MatchParens
    PROVE  WaitInv' /\ FlatInv'
<1> DEFINE open == Min({Behind({"("}) - p, MaxOpen})
           c == "("
<1>1. /\ At({"("}) /\ pc = "match" /\ p' = p + open
      /\ Push(Item(c, open, 0), 0) /\ UNCHANGED <<source, rank>>
  BY Zenon DEF MatchParens
<1>2. c \in ItemKinds /\ IsParen(c) /\ ~IsSign(c) /\ c \notin Binary
  BY KindsDiffer, Zenon DEF ItemKinds, IsParen
<1>3. p <= Len(source) /\ source[p].op = c
  BY <1>1, Zenon DEF At
<1>4. open \in 1..MaxOpen /\ open <= Behind({"("}) - p
  <2> DEFINE b == Behind({"("})
  <2>1. b \in p..Len(source) + 1 /\ b > p
    BY <1>1, BehindIs, Zenon DEF WaitInv
  <2> HIDE DEF b
  <2>2. {b - p, MaxOpen} \subseteq Nat /\ {b - p, MaxOpen} # {}
    BY <2>1, TextIs, SizesAssumption DEF WaitInv
  <2>3. Min({b - p, MaxOpen}) \in {b - p, MaxOpen}
        /\ \A x \in {b - p, MaxOpen} : Min({b - p, MaxOpen}) <= x
    BY <2>2, MinIs, Zenon
  <2>4. b - p \in 1..Len(source) /\ MaxOpen \in Nat \ {0}
    BY <2>1, TextIs, SizesAssumption DEF WaitInv
  <2>5. Min({b - p, MaxOpen}) \in 1..MaxOpen /\ Min({b - p, MaxOpen}) <= b - p
    BY <2>3, <2>4
  <2> QED
    BY <2>5 DEF b
<1> HIDE DEF open, c
<1>5. p' \in 1..Len(source) + 1
  <2>1. PICK b \in p..Len(source) + 1 : open <= b - p
    BY <1>4, BehindIs, Zenon DEF WaitInv
  <2> QED
    BY <1>1, <1>4, <2>1, TextIs, SizesAssumption DEF WaitInv
<1>6. LevelBehind(c) = 0 /\ open \in Int
  BY <1>2, <1>4, LevelIs, SizesAssumption
<1>7. NoParens(source) => ~IsParen(c)
  <2>1. p \in 1..Len(source)
    BY <1>3, TextIs DEF WaitInv
  <2> QED
    BY <1>3, <2>1, Zenon DEF NoParens, c
<1>8. Push(Item(c, open, 0), LevelBehind(c))
  BY <1>1, <1>6
<1> QED
  BY <1>1, <1>2, <1>5, <1>6, <1>7, <1>8, StackPushes, Zenon

LEMMA SignsKeep ==
    ASSUME WaitInv, FlatInv, MatchSigns
    PROVE  WaitInv' /\ FlatInv'
<1> DEFINE c == IF Signs.minus THEN "-sign" ELSE "+sign"
           v == Wrap(Signs.delta)
<1>1. /\ At(Unary) /\ pc = "match" /\ p' = Behind(Unary)
      /\ Push(Item(c, 0, v), 6) /\ UNCHANGED <<source, column, rank>>
  BY Zenon DEF MatchSigns
<1>2. c \in ItemKinds /\ IsSign(c)
  BY Zenon DEF ItemKinds, IsSign
<1> HIDE DEF c, v
<1>3. ~IsParen(c) /\ c \notin Binary /\ LevelBehind(c) = 6
  BY <1>2, KindsDiffer, LevelIs
<1>4. /\ Behind(Unary) \in p..Len(source) + 1
      /\ Behind(Unary) <= Len(source) => source[Behind(Unary)].op \notin Unary
  BY BehindIs, Zenon DEF WaitInv
<1>5. p' \in 1..Len(source) + 1
  BY <1>1, <1>4, TextIs DEF WaitInv
<1>6. ~At(Unary)'
  BY <1>1, <1>4, Zenon DEF At
<1>7. ~(match_stack # <<>> /\ IsSign(match_stack[Len(match_stack)].casei))
  BY <1>1 DEF WaitInv, SignsRead
<1>8. Push(Item(c, 0, v), LevelBehind(c)) /\ 0 \in Int
  BY <1>1, <1>3
<1> QED
  BY <1>1, <1>2, <1>3, <1>5, <1>6, <1>7, <1>8, StackPushes, Zenon

LEMMA OperatorKeeps ==
    ASSUME WaitInv, FlatInv, MatchOperator
    PROVE  WaitInv' /\ FlatInv'
<1> DEFINE c == source[p].op
<1>1. /\ At(Binary) /\ Rank[c] \in level..rank /\ p' = p + 1
      /\ Push(Item(c, 0, value1), Rank[c] + 1) /\ UNCHANGED <<source, rank>>
  BY Zenon DEF MatchOperator, TakesOperator, RightLevel
<1>2. p <= Len(source) /\ c \in Binary
  BY <1>1, Zenon DEF At
<1> HIDE DEF c
<1>3. c \in ItemKinds
  BY <1>2, Zenon DEF ItemKinds
<1>4. ~IsParen(c) /\ ~IsSign(c) /\ LevelBehind(c) = Rank[c] + 1
  BY <1>2, <1>3, KindsDiffer, LevelIs
<1>5. level <= Rank[c] /\ level <= 5 /\ p' \in 1..Len(source) + 1
  BY <1>1, <1>2, TextIs, RankIs DEF WaitInv, TextOK
<1>6. ~(match_stack # <<>> /\ IsSign(match_stack[Len(match_stack)].casei))
  <2>1. SUFFICES ASSUME match_stack # <<>>, IsSign(match_stack[Len(match_stack)].casei)
                 PROVE  FALSE
    OBVIOUS
  <2>2. PICK V : match_stack \in Seq(Items(V))
    BY DEF WaitInv, StackOK
  <2>3. Len(match_stack) \in 1..Len(match_stack)
    BY <2>1, <2>2
  <2>4. match_stack[Len(match_stack)].casei \in ItemKinds
    <3>1. match_stack[Len(match_stack)] \in Items(V)
      BY <2>2, <2>3
    <3> QED
      BY <3>1 DEF Items
  <2>5. LevelAt(match_stack, Len(match_stack)) = 6
    BY <2>1, <2>3, <2>4, LevelIs DEF LevelAt
  <2> QED
    BY <1>5, <2>5 DEF WaitInv, StackOK
<1>7. Push(Item(c, 0, value1), LevelBehind(c)) /\ 0 \in Int
  BY <1>1, <1>4
<1> QED
  BY <1>1, <1>3, <1>4, <1>5, <1>6, <1>7, StackPushes, Zenon

LEMMA OperandKeeps ==
    ASSUME WaitInv, FlatInv, Operand
    PROVE  WaitInv' /\ FlatInv'
<1>1. ASSUME NEW t, At(t), p' = p \/ p' = p + 1
      PROVE  p' \in 1..Len(source) + 1
  <2>1. p <= Len(source)
    BY <1>1 DEF At
  <2> QED
    BY <1>1, <2>1, TextIs DEF WaitInv
<1>2. 5 \in 0..5 /\ rank \in 0..5 /\ p \in 1..Len(source) + 1
  BY DEF WaitInv, TextOK
<1>3. CASE MatchLiteral
  <2>1. /\ At({"literal"}) /\ (p' = p \/ p' = p + 1) /\ rank' = 5 /\ pc' = "operator"
        /\ UNCHANGED <<source, match_stack, level>>
    BY <1>3, Zenon DEF MatchLiteral, HaveValue, unchangedByOperand
  <2>2. TooDeep' => TooDeep
    BY <1>3, Zenon DEF MatchLiteral, TooDeep
  <2> QED
    BY <1>1, <1>2, <2>1, <2>2, StackStays, Zenon
<1>4. CASE MatchCharacters
  <2>1. /\ At({"characters"}) /\ p' = p + 1 /\ rank' = 5 /\ pc' = "operator"
        /\ UNCHANGED <<source, match_stack, level>> /\ (TooDeep' => TooDeep)
    BY <1>4, Zenon DEF MatchCharacters, HaveValue, unchangedByOperand, TooDeep
  <2> QED
    BY <1>1, <1>2, <2>1, StackStays, Zenon
<1>5. CASE MatchAddress
  <2>1. /\ At({"$", "$$"}) /\ p' = p + 1 /\ rank' = 5 /\ pc' = "operator"
        /\ UNCHANGED <<source, match_stack, level>> /\ (TooDeep' => TooDeep)
    BY <1>5, Zenon DEF MatchAddress, HaveValue, unchangedByOperand, TooDeep
  <2> QED
    BY <1>1, <1>2, <2>1, StackStays, Zenon
<1>6. CASE MatchLabel
  <2>1. /\ At({"label"}) /\ p' = p + 1 /\ rank' = 5 /\ pc' = "operator"
        /\ UNCHANGED <<source, match_stack, level>>
    BY <1>6, Zenon DEF MatchLabel, HaveValue, unchangedByOperand
  <2>2. TooDeep' => TooDeep
    BY <1>6, Zenon DEF MatchLabel, TooDeep
  <2> QED
    BY <1>1, <1>2, <2>1, <2>2, StackStays, Zenon
<1>7. CASE MatchNothing
  <2>1. pc' = "done" /\ UNCHANGED <<source, p, match_stack, level, rank>>
    BY <1>7, Zenon DEF MatchNothing, Fail, position
  <2>2. TooDeep' => TooDeep
    BY <1>7, Zenon DEF MatchNothing, Fail, TooDeep
  <2> QED
    BY <1>2, <2>1, <2>2, StackStays, Zenon
<1> QED
  BY <1>3, <1>4, <1>5, <1>6, <1>7, Zenon DEF Operand

\* Nothing is too deep about an operand that is wrong.
LEMMA FlawsAreOthers ==
    ASSUME NEW op, NEW b
    PROVE  "Expression too deep" \notin Flaws(op, b)
<1>1. CASE ByZero(op, b)
  BY <1>1, Zenon DEF Flaws
<1>2. CASE ~ByZero(op, b)
  BY <1>2, Zenon DEF Flaws
<1> QED
  BY <1>1, <1>2

LEMMA PopKeep ==
    ASSUME WaitInv, FlatInv, Pop
    PROVE  WaitInv' /\ FlatInv'
<1>1. rank \in 0..5 /\ 5 \in 0..5 /\ p \in 1..Len(source) + 1
  BY DEF WaitInv, TextOK
<1>2. pc = "pop" /\ match_stack # <<>>
  BY Zenon DEF Pop, MissingParen, CloseParen, ApplySign, ApplyOperator, DivisionTraps,
               WaitInv, SomethingWaits
<1>3. PICK V : match_stack \in Seq(Items(V))
  BY DEF WaitInv, StackOK
<1>4. CASE MissingParen
  <2>1. /\ pc' = "done" /\ match_stack' = Front(match_stack)
        /\ level' = Last(match_stack).level /\ UNCHANGED <<source, p, rank>>
        /\ (TooDeep' => TooDeep)
    BY <1>4, Zenon DEF MissingParen, Fail, top, unchangedByPop, TooDeep
  <2> QED
    BY <1>1, <1>2, <2>1, StackPops, Zenon
<1>5. CASE CloseParen
  <2>1. /\ At({")"}) /\ p' = p + 1 /\ pc' = "operator" /\ rank' = 5
        /\ UNCHANGED <<source, errors>> /\ IsParen(Last(match_stack).casei)
    BY <1>5, Zenon DEF CloseParen, HaveValue, top, unchangedByPop, IsParen
  <2>2. p' \in 1..Len(source) + 1
    <3>1. p <= Len(source)
      BY <2>1 DEF At
    <3> QED
      BY <2>1, <3>1, TextIs DEF WaitInv
  <2>3. TooDeep' => TooDeep
    BY <2>1 DEF TooDeep
  <2>4. CASE top.open = 1
    <3>1. match_stack' = Front(match_stack) /\ level' = Last(match_stack).level
      BY <1>5, <2>4, Zenon DEF CloseParen, top
    <3> QED
      BY <1>1, <1>2, <2>1, <2>2, <2>3, <3>1, StackPops, Zenon
  <2>5. CASE top.open # 1
    <3> DEFINE n == Last(match_stack).open - 1
               less == Append(Front(match_stack), [Last(match_stack) EXCEPT !.open = n])
    <3>1. match_stack' = less /\ level' = 0
      BY <1>5, <2>5, Zenon DEF CloseParen, top
    <3>2. Last(match_stack) \in Items(V) /\ Ordered(match_stack)
      BY <1>2, <1>3, PopKeeps DEF WaitInv, StackOK
    <3>3. n \in Int
      BY <3>2 DEF Items
    <3> HIDE DEF n
    <3>4. less \in Seq(Items(V)) /\ Ordered(less) /\ LevelAt(less, Len(less)) = 0
      BY <1>2, <1>3, <2>1, <3>2, <3>3, OpenKeeps
    <3> HIDE DEF less
    <3>5. TextOK'
      BY <1>1, <2>1, <2>2, <3>1 DEF WaitInv, TextOK
    <3>6. StackOK'
      BY <3>1, <3>4 DEF StackOK
    <3>7. SignsRead' /\ SomethingWaits'
      BY <2>1 DEF SignsRead, SomethingWaits
    <3>8. FlatInv'
      <4>1. ~FlatStack(match_stack)
        <5>1. Len(match_stack) \in 1..Len(match_stack) /\ Last(match_stack) = match_stack[Len(match_stack)]
          BY <1>2, <1>3 DEF Last
        <5> QED
          BY <2>1, <5>1 DEF FlatStack
      <4> QED
        BY <2>1, <4>1 DEF FlatInv
    <3> QED
      BY <3>5, <3>6, <3>7, <3>8 DEF WaitInv
  <2> QED
    BY <2>4, <2>5
<1>6. CASE ApplySign
  <2>1. /\ pc' = "operator" /\ rank' = 5 /\ match_stack' = Front(match_stack)
        /\ level' = Last(match_stack).level /\ UNCHANGED <<source, p, errors>>
    BY <1>6, Zenon DEF ApplySign, HaveValue, top, unchangedByPop
  <2>2. TooDeep' => TooDeep
    BY <2>1 DEF TooDeep
  <2> QED
    BY <1>1, <1>2, <2>1, <2>2, StackPops, Zenon
<1>7. CASE ApplyOperator
  <2>1. /\ pc' = "operator" /\ rank' = Rank[top.casei] /\ match_stack' = Front(match_stack)
        /\ level' = Last(match_stack).level /\ UNCHANGED <<source, p>> /\ top.casei \in Binary
    BY <1>7, Zenon DEF ApplyOperator, top, unchangedByPop
  <2>2. rank' \in 0..5
    BY <2>1, RankIs, Zenon
  <2>3. TooDeep' => TooDeep
    BY <1>7, FlawsAreOthers, Zenon DEF ApplyOperator, TooDeep
  <2> QED
    BY <1>1, <1>2, <2>1, <2>2, <2>3, StackPops, Zenon
<1>8. CASE DivisionTraps
  <2>1. pc' = "trapped" /\ UNCHANGED <<source, p, match_stack, level, rank, errors>>
    BY <1>8, Zenon DEF DivisionTraps, unchangedByPop
  <2>2. TooDeep' => TooDeep
    BY <2>1 DEF TooDeep
  <2> QED
    BY <1>1, <2>1, <2>2, StackStays, Zenon
<1> QED
  BY <1>4, <1>5, <1>6, <1>7, <1>8, Zenon DEF Pop

LEMMA StepKeeps ==
    ASSUME WaitInv, FlatInv, [Next]_vars
    PROVE  WaitInv' /\ FlatInv'
<1>1. CASE EndOperand
  <2>1. /\ pc' = "done" \/ (pc' = "pop" /\ match_stack # <<>>)
        /\ UNCHANGED <<source, p, match_stack, level, rank, errors>>
    BY <1>1, Zenon DEF EndOperand, position
  <2>2. rank \in 0..5 /\ p \in 1..Len(source) + 1 /\ (TooDeep' => TooDeep)
    BY <2>1 DEF WaitInv, TextOK, TooDeep
  <2> QED
    BY <2>1, <2>2, StackStays, Zenon
<1>2. CASE UNCHANGED vars
  <2>1. UNCHANGED <<source, p, column, match_stack, level, rank, errors, pc>>
    BY <1>2 DEF vars, position
  <2> QED
    BY <2>1 DEF WaitInv, FlatInv, TextOK, StackOK, SignsRead, SomethingWaits, TooDeep, At
<1>3. CASE Done
  BY <1>2, <1>3 DEF Done
<1> QED
  BY <1>1, <1>2, <1>3, ParensKeep, SignsKeep, OperandKeeps, OperatorKeeps, PopKeep, Zenon DEF Next

LEMMA InitOK == Init => WaitInv /\ FlatInv
<1> SUFFICES ASSUME Init PROVE WaitInv /\ FlatInv
  OBVIOUS
<1>1. /\ source \in Sources /\ p = 1 /\ match_stack = <<>> /\ level = 0 /\ rank = 5
      /\ errors = {} /\ pc = "match"
  BY Zenon DEF Init
<1>2. TextOK /\ SignsRead /\ SomethingWaits
  BY <1>1, SourcesAssumption DEF TextOK, SignsRead, SomethingWaits
<1>3. match_stack \in Seq(Items({})) /\ Len(match_stack) = 0
  BY <1>1
<1>4. StackOK
  BY <1>1, <1>3 DEF StackOK, Ordered, LevelAt
<1>5. FlatInv
  BY <1>1, <1>3 DEF FlatInv, FlatStack, TooDeep
<1> QED
  BY <1>2, <1>4, <1>5 DEF WaitInv

\* Between the scan's steps the stack holds operators of rising rank, each sign with
\* only a parenthesis behind it: match_expression()'s levels are right, for every
\* text and every size of the stack.
THEOREM LevelsAlwaysGrow == Spec => []LevelsGrow
<1>1. WaitInv => LevelsGrow
  <2> SUFFICES ASSUME WaitInv, NEW i \in DOMAIN match_stack
               PROVE  LET next == IF i < Len(match_stack) THEN match_stack[i + 1]
                                  ELSE Item("", 0, 0)
                      IN  /\ match_stack[i].casei \in Binary => match_stack[i].level < next.level
                          /\ match_stack[i].casei \in {"-sign", "+sign"} => next.casei \in {"", "("}
    BY Zenon DEF LevelsGrow
  <2> DEFINE c == match_stack[i].casei
             behind == IF i < Len(match_stack) THEN match_stack[i + 1] ELSE Item("", 0, 0)
  <2>1. PICK V : match_stack \in Seq(Items(V))
    BY DEF WaitInv, StackOK
  <2>2. i \in 1..Len(match_stack) /\ Len(match_stack) \in Nat /\ match_stack[i] \in Items(V)
    BY <2>1
  <2>3. c \in ItemKinds
    BY <2>2 DEF Items
  <2>4. behind.level = LevelBehind(c)
    <3>1. CASE i < Len(match_stack)
      <4>1. i + 1 \in 1..Len(match_stack) /\ i + 1 - 1 = i /\ i # 0
        BY <2>2, <3>1
      <4> QED
        BY <3>1, <4>1 DEF WaitInv, StackOK, Ordered, LevelAt
    <3>2. CASE ~(i < Len(match_stack))
      <4>1. i = Len(match_stack) /\ i # 0
        BY <2>2, <3>2
      <4> QED
        BY <3>2, <4>1 DEF WaitInv, StackOK, LevelAt, Item
    <3> QED
      BY <3>1, <3>2
  <2>5. c \in Binary => match_stack[i].level < behind.level
    <3>1. SUFFICES ASSUME c \in Binary PROVE match_stack[i].level < behind.level
      OBVIOUS
    <3>2. match_stack[i].level <= Rank[c]
      BY <2>2, <3>1 DEF WaitInv, StackOK, Ordered
    <3>3. match_stack[i].level \in 0..6
      BY <2>2 DEF Items
    <3>4. behind.level = Rank[c] + 1 /\ Rank[c] \in 0..5
      BY <2>3, <2>4, <3>1, LevelIs, RankIs
    <3> HIDE DEF behind, c
    <3> QED
      BY <3>2, <3>3, <3>4
  <2>6. IsSign(c) => behind.casei = "" \/ IsParen(behind.casei)
    BY <2>2 DEF WaitInv, StackOK, Ordered, Item
  <2> QED
    BY <2>5, <2>6, Zenon DEF IsSign, IsParen
<1> QED
  BY <1>1, InitOK, StepKeeps, PTL DEF Spec

\* An expression without parentheses is never too deep for the stack, however long
\* it is, if the stack has more than 7 places (src/README:219).
THEOREM FlatTextFits == Spec => [](StackDepth > 7 /\ NoParens(source) => ~TooDeep)
<1>1. FlatInv => (StackDepth > 7 /\ NoParens(source) => ~TooDeep)
  BY DEF FlatInv
<1> QED
  BY <1>1, InitOK, StepKeeps, PTL DEF Spec

-----------------------------------------------------------------------------
(* Arithmetic. *)

LEMMA PowerIs ==
    /\ 2^Bits \in Nat \ {0, 1} /\ 2^(Bits - 1) \in Nat \ {0} /\ 2^Bits = 2 * 2^(Bits - 1)
    /\ \A k \in Nat : 2^k \in Nat \ {0}
<1>1. \A k \in Nat : 2^k \in Nat \ {0}
  BY Numbers!PowersPositive
<1>2. PICK k \in Nat : k = Bits - 1 /\ k + 1 = Bits
  BY SizesAssumption
<1>3. 2^(k + 1) = 2 * 2^k
  BY Numbers!PowersDouble
<1>4. PICK m \in Nat \ {0} : m = 2^k
  BY <1>1
<1>5. 2^Bits = 2 * m
  BY <1>2, <1>3, <1>4
<1>6. 2^(Bits - 1) = m
  BY <1>2, <1>4
<1>7. QED
  BY <1>1, <1>4, <1>5, <1>6

\* M stands for 2^Bits where nothing else matters.
LEMMA WrapIs ==
    ASSUME NEW n \in Int
    PROVE  Wrap(n) \in Values
<1>1. PICK M \in Nat \ {0} : M = 2^Bits
  BY PowerIs
<1>2. n % M \in 0..M-1
  OBVIOUS
<1>3. QED
  BY <1>1, <1>2 DEF Wrap, Values

LEMMA WrapKeeps ==
    ASSUME NEW n \in Values
    PROVE  Wrap(n) = n /\ n \in Nat
<1>1. PICK M \in Nat \ {0} : M = 2^Bits
  BY PowerIs
<1>2. n \in 0..M-1
  BY <1>1 DEF Values
<1>3. n % M = n
  BY <1>2
<1>4. QED
  BY <1>1, <1>2, <1>3 DEF Wrap

LEMMA SignedIs ==
    ASSUME NEW v \in Values
    PROVE  Signed(v) \in Int /\ Magnitude(v) \in Nat /\ (v # 0 => Magnitude(v) > 0)
<1>1. PICK H \in Nat \ {0} : H = 2^(Bits - 1) /\ 2^Bits = 2 * H
  BY PowerIs
<1>2. v \in 0..2 * H - 1
  BY <1>1 DEF Values
<1>3. Signed(v) = IF v >= H THEN v - 2 * H ELSE v
  BY <1>1 DEF Signed, Smallest
<1>4. Signed(v) \in Int /\ (v # 0 => Signed(v) # 0)
  BY <1>2, <1>3
<1>5. PICK x \in Int : x = Signed(v)
  BY <1>4
<1>6. Magnitude(v) = IF x < 0 THEN -x ELSE v
  BY <1>5, Zenon DEF Magnitude
<1>7. QED
  BY <1>2, <1>4, <1>5, <1>6

LEMMA DivIs ==
    ASSUME NEW a \in Values, NEW b \in Values, b # 0
    PROVE  ValueDiv(a, b) \in Values
<1> DEFINE d == Magnitude(a) \div Magnitude(b)
<1>1. d \in Int
  <2>1. PICK x \in Nat, y \in Nat \ {0} : x = Magnitude(a) /\ y = Magnitude(b)
    BY SignedIs
  <2>2. x \div y \in Int
    OBVIOUS
  <2>3. QED
    BY <2>1, <2>2
<1>2. ValueDiv(a, b) = Wrap(IF (Signed(a) < 0) = (Signed(b) < 0) THEN d ELSE -d)
  BY DEF ValueDiv
<1> HIDE DEF d
<1>3. QED
  BY <1>1, <1>2, WrapIs

-----------------------------------------------------------------------------
(* Bits.                                                                    *)

LEMMA OneBitIs ==
    ASSUME NEW op \in {"&", "^", "|"}, NEW x \in {0, 1}, NEW y \in {0, 1}
    PROVE  OneBit(op, x, y) \in {0, 1}
<1>1. (x * y) \in {0, 1} /\ ((x + y) % 2) \in {0, 1} /\ (x + y - x * y) \in {0, 1}
  OBVIOUS
<1>2. CASE op = "&"
  BY <1>1, <1>2, Zenon DEF OneBit
<1>3. CASE op = "^"
  BY <1>1, <1>3, Zenon DEF OneBit
<1>4. CASE op = "|"
  BY <1>1, <1>4, Zenon DEF OneBit
<1>5. QED
  BY <1>2, <1>3, <1>4

LEMMA BitIs ==
    ASSUME NEW v \in Int, NEW k \in Nat
    PROVE  Bit(v, k) \in {0, 1}
<1>1. PICK m \in Nat \ {0} : m = 2^k
  BY PowerIs
<1>2. (v \div m) \in Int
  OBVIOUS
<1>3. PICK d \in Int : d = v \div m
  BY <1>2
<1>4. (d % 2) \in {0, 1}
  OBVIOUS
<1>5. QED
  BY <1>1, <1>3, <1>4 DEF Bit

\* A sum of different powers of two.
LEMMA BitwiseIs ==
    ASSUME NEW op \in {"&", "^", "|"}, NEW a \in Int, NEW b \in Int
    PROVE  Bitwise(op, a, b) \in Values
<1> DEFINE S == 0..Bits - 1
           term(k) == 2^k * OneBit(op, Bit(a, k), Bit(b, k))
           choose == [s \in SUBSET S |-> CHOOSE x \in s : TRUE]
           t == [k \in S |-> term(k)]
           g == [k \in S |-> [v \in Int |-> t[k] + v]]
           IsSum(f) == f = [s \in SUBSET S |->
                               IF s = {} THEN 0
                               ELSE LET x == CHOOSE x \in s : TRUE IN term(x) + f[s \ {x}]]
           sum == CHOOSE f : IsSum(f)
<1>1. Bitwise(op, a, b) = sum[S]
  BY Zenon DEF Bitwise, MapThenSumSet, MapThenFoldSet
<1>2. Bits - 1 \in Nat /\ S \subseteq Nat /\ Bits \in Nat
  BY SizesAssumption
<1>3. ASSUME NEW k \in S PROVE t[k] \in {0, 2^k} /\ t[k] \in Int
  <2>1. PICK m \in Nat \ {0} : m = 2^k
    BY <1>2, PowerIs
  <2>2. Bit(a, k) \in {0, 1} /\ Bit(b, k) \in {0, 1}
    BY <1>2, BitIs
  <2>3. PICK x \in {0, 1} : x = OneBit(op, Bit(a, k), Bit(b, k))
    BY <2>2, OneBitIs
  <2>4. t[k] = m * x
    BY <2>1, <2>3
  <2>5. QED
    BY <2>1, <2>4
<1>4. \A s \in SUBSET S : s # {} => choose[s] \in s
  OBVIOUS
<1> HIDE DEF term
<1>5. t \in [S -> Int]
  BY <1>3
<1>6. \A x \in S, v \in Int : g[x][v] \in Int
  BY <1>3
<1>7. Numbers!Bounded(S) /\ Numbers!Chooses(choose, S) /\ Numbers!Stays(g, S, Int)
  BY <1>2, <1>4, <1>6, Zenon DEF Numbers!Bounded, Numbers!Chooses, Numbers!Stays
<1> HIDE DEF t, choose, g, S
<1>8. PICK f \in [SUBSET S -> Int] : Numbers!IsFold(f, S, 0, choose, g)
  BY <1>7, 0 \in Int, Numbers!FoldExists, Zenon
<1>9. \A s \in SUBSET S : s # {} =>
         f[s] = t[choose[s]] + f[s \ {choose[s]}]
  <2>1. SUFFICES ASSUME NEW s \in SUBSET S, s # {}
                 PROVE  f[s] = t[choose[s]] + f[s \ {choose[s]}]
    OBVIOUS
  <2>2. PICK x \in S : x = choose[s]
    BY <1>4, <2>1
  <2>3. f[s \ {x}] \in Int
    OBVIOUS
  <2>4. f[s] = g[x][f[s \ {x}]]
    BY <1>8, <2>1, <2>2 DEF Numbers!IsFold
  <2>5. QED
    BY <2>2, <2>3, <2>4 DEF g
<1>10. IsSum(f)
  <2>1. ASSUME NEW s \in SUBSET S
        PROVE  f[s] = IF s = {} THEN 0
                      ELSE LET x == CHOOSE x \in s : TRUE IN term(x) + f[s \ {x}]
    <3>1. CASE s = {}
      BY <1>8, <3>1 DEF Numbers!IsFold
    <3>2. CASE s # {}
      <4>1. choose[s] \in S /\ choose[s] = CHOOSE x \in s : TRUE
        BY <1>4, <3>2 DEF choose
      <4>2. t[choose[s]] = term(choose[s])
        BY <4>1 DEF t
      <4>3. QED
        BY <1>9, <3>2, <4>1, <4>2
    <3>3. QED
      BY <3>1, <3>2
  <2>2. f = [s \in SUBSET S |-> f[s]]
    OBVIOUS
  <2>3. QED
    BY <2>1, <2>2
<1>11. IsSum(sum)
  BY <1>10, Zenon
<1> HIDE DEF sum
<1>12. S \in SUBSET S /\ sum[S] = f[S]
  <2> DEFINE T == {s \in SUBSET S : sum[s] = f[s]}
  <2>1. {} \in T
    <3>1. sum[{}] = 0 /\ f[{}] = 0
      BY <1>10, <1>11
    <3>2. QED
      BY <3>1
  <2>2. ASSUME NEW s \in SUBSET S, s # {}, s \ {choose[s]} \in T
        PROVE  s \in T
    <3>1. choose[s] = CHOOSE x \in s : TRUE
      BY DEF choose
    <3>2. /\ sum[s] = term(choose[s]) + sum[s \ {choose[s]}]
          /\ f[s] = term(choose[s]) + f[s \ {choose[s]}]
      BY <1>10, <1>11, <2>2, <3>1
    <3>3. sum[s \ {choose[s]}] = f[s \ {choose[s]}]
      BY <2>2
    <3>4. QED
      BY <3>2, <3>3
  <2> HIDE DEF T
  <2>3. SUBSET S \subseteq T
    <3>1. Numbers!Inherits(T, S, choose)
      BY <2>2, Zenon DEF Numbers!Inherits
    <3>2. QED
      BY <1>7, <2>1, <3>1, Numbers!EverySubset
  <2>4. QED
    BY <2>3 DEF T
<1>13. Numbers!AddsAny(f, S, t)
  <2>1. Numbers!Adds(f, S, t, choose)
    BY <1>9, Zenon DEF Numbers!Adds
  <2>2. f \in [SUBSET S -> Int]
    OBVIOUS
  <2>3. QED
    BY <1>5, <1>7, <2>1, <2>2, Numbers!SumStep
<1>14. f[S] \in 0..2^Bits - 1
  <2> DEFINE T == {k \in 0..Bits : f[0..k - 1] \in 0..2^k - 1}
  <2>1. 0 \in T
    <3>1. f[{}] = 0 /\ 0..0 - 1 = {} /\ 2^0 = 1
      BY <1>8, Numbers!PowersPositive DEF Numbers!IsFold
    <3>2. QED
      BY <1>2, <3>1
  <2>2. ASSUME NEW k \in 0..Bits - 1, k \in T
        PROVE  k + 1 \in T
    <3>1. 0..k \in SUBSET S /\ k \in 0..k /\ (0..k) \ {k} = 0..k - 1 /\ k \in S /\ k + 1 - 1 = k
      BY <1>2 DEF S
    <3>2. f[0..k] = t[k] + f[0..k - 1]
      BY <1>13, <3>1 DEF Numbers!AddsAny
    <3>3. PICK m \in Nat \ {0} : m = 2^k
      BY PowerIs
    <3>4. 2^(k + 1) = 2 * m
      BY <3>3, Numbers!PowersDouble
    <3>5. t[k] \in {0, m} /\ f[0..k - 1] \in 0..m - 1
      BY <1>3, <2>2, <3>1, <3>3
    <3>6. f[0..k] \in 0..2 * m - 1
      <4>1. PICK x \in {0, m}, y \in 0..m - 1 : x = t[k] /\ y = f[0..k - 1]
        BY <3>5
      <4>2. f[0..k] = x + y
        BY <3>2, <4>1, Zenon
      <4>3. x \in Int /\ y \in Int /\ x <= m /\ x >= 0 /\ y >= 0 /\ y <= m - 1
        BY <4>1
      <4>4. x + y \in 0..2 * m - 1
        BY <4>3
      <4>5. QED
        BY <4>2, <4>4, Zenon
    <3>7. QED
      BY <1>2, <3>1, <3>4, <3>6
  <2> HIDE DEF T
  <2>3. Bits \in T
    <3>1. 0..Bits \subseteq T
      BY <1>2, <2>1, <2>2, Numbers!UpTo
    <3>2. QED
      BY <1>2, <3>1
  <2>4. QED
    BY <2>3 DEF T, S
<1>15. QED
  BY <1>1, <1>12, <1>14 DEF Values

-----------------------------------------------------------------------------
(* Folds over sequences, from the left.                                     *)

LEMMA MaxIs ==
    ASSUME NEW n \in Nat, NEW s, s \subseteq 1..n, s # {}
    PROVE  Max(s) \in s /\ \A x \in s : x <= Max(s)
<1> DEFINE T == {n - x : x \in s}
<1>0. \A x \in s : x \in 1..n
  OBVIOUS
<1>1. T \subseteq Nat /\ T # {}
  <2>1. \A x \in s : n - x \in Nat
    BY <1>0
  <2>2. QED
    BY <2>1
<1>2. PICK m \in T : \A y \in T : m <= y
  BY <1>1, Numbers!Smallest
<1>3. PICK x \in s : m = n - x
  OBVIOUS
<1>4. ASSUME NEW y \in s PROVE x >= y
  <2>1. n - y \in T
    OBVIOUS
  <2>2. m <= n - y
    BY <1>2, <2>1
  <2>3. x \in Int /\ y \in Int
    <3>1. x \in 1..n /\ y \in 1..n
      BY <1>0, <1>3, <1>4
    <3>2. QED
      BY <3>1
  <2> HIDE DEF T
  <2>4. QED
    BY <1>3, <2>2, <2>3
<1>5. \E z \in s : \A y \in s : z >= y
  BY <1>4
<1>6. Max(s) \in s /\ \A y \in s : Max(s) >= y
  BY <1>5, Zenon DEF Max
<1>7. QED
  BY <1>6

\* What the folds need: f, on the sets of the indexes of seq, takes out the largest one.
Latest(n) == [s \in SUBSET (1..n) |-> Max(s)]

LEMMA LatestIs ==
    ASSUME NEW n \in Nat
    PROVE  /\ Numbers!Bounded(1..n) /\ Numbers!Chooses(Latest(n), 1..n)
           /\ \A s \in SUBSET (1..n) : Latest(n)[s] = Max(s)
           /\ \A j \in 1..n : 1..j \in SUBSET (1..n) /\ Max(1..j) = j /\ (1..j) \ {j} = 1..j - 1
<1>1. Numbers!Bounded(1..n)
  <2>1. 1..n \subseteq 0..n
    OBVIOUS
  <2>2. QED
    BY <2>1 DEF Numbers!Bounded
<1>2. \A s \in SUBSET (1..n) : Latest(n)[s] = Max(s)
  BY DEF Latest
<1>3. Numbers!Chooses(Latest(n), 1..n)
  <2>1. \A s \in SUBSET (1..n) : s # {} => Max(s) \in s
    BY MaxIs
  <2>2. QED
    BY <1>2, <2>1 DEF Numbers!Chooses
<1>4. ASSUME NEW j \in 1..n
      PROVE  1..j \in SUBSET (1..n) /\ Max(1..j) = j /\ (1..j) \ {j} = 1..j - 1
  <2>1. 1..j \subseteq 1..n /\ 1..j # {} /\ j \in 1..j
    OBVIOUS
  <2>2. Max(1..j) \in 1..j /\ j <= Max(1..j)
    BY <2>1, MaxIs
  <2>3. Max(1..j) = j
    BY <2>2
  <2>4. QED
    BY <2>1, <2>3
<1>5. QED
  BY <1>1, <1>2, <1>3, <1>4

LEMMA DigitIs ==
    ASSUME NEW c \in DigitsBelow(16)
    PROVE  Digit(c) \in Nat
<1>1. PICK i \in 1..16 : HexDigits[i] = c
  BY DEF DigitsBelow
<1>2. DOMAIN HexDigits = 1..16
  BY DEF HexDigits
<1>3. (CHOOSE k \in DOMAIN HexDigits : HexDigits[k] = c) \in 1..16
  BY <1>1, <1>2
<1>4. PICK k \in 1..16 : k = CHOOSE j \in DOMAIN HexDigits : HexDigits[j] = c
  BY <1>3
<1>5. Digit(c) = k - 1
  BY <1>4, Zenon DEF Digit
<1>6. QED
  BY <1>5

LEMMA ApplyBits ==
    ASSUME NEW a \in Values, NEW b \in Int, NEW op \in {"&", "^", "|"}
    PROVE  Apply(op, a, b) = Bitwise(op, a, b)
<1>1. RightOperand(op, b) = b
  BY Zenon DEF RightOperand, ByZero, TooFar
<1>2. Apply(op, a, b) = Bitwise(op, a, RightOperand(op, b))
  BY Zenon DEF Apply
<1>3. QED
  BY <1>1, <1>2

NumeralChars == DigitsBelow(16) \cup {"_"}

LEMMA NumberIs ==
    ASSUME NEW digits \in Seq(NumeralChars), NEW base \in Nat
    PROVE  Number(digits, base) \in Values
<1> DEFINE n == Len(digits)
           S == 1..n
           carry(v, c) == IF c = "_" THEN v
                          ELSE IF base = 2 THEN Apply("|", Wrap(2 * v), Digit(c))
                          ELSE Wrap(base * v + Digit(c))
           g == [i \in S |-> [v \in Values |-> carry(v, digits[i])]]
           IsCarry(f) == f = [s \in SUBSET S |->
                                 IF s = {} THEN 0
                                 ELSE LET x == Max(s) IN carry(f[s \ {x}], digits[x])]
           total == CHOOSE f : IsCarry(f)
<1>1. n \in Nat /\ DOMAIN digits = S /\ \A i \in S : digits[i] \in NumeralChars
  OBVIOUS
<1>2. Number(digits, base) = total[S]
  <2>1. Number(digits, base) = LET iter == CHOOSE f : f = [s \in SUBSET DOMAIN digits |->
                                 IF s = {} THEN 0
                                 ELSE LET x == Max(s) IN carry(f[s \ {x}], digits[x])]
                               IN iter[DOMAIN digits]
    BY Zenon DEF Number, FoldLeft, MapThenFoldSet
  <2>2. QED
    BY <1>1, <2>1, Zenon
<1>3. ASSUME NEW v \in Values, NEW c \in NumeralChars
      PROVE  carry(v, c) \in Values
  <2>1. CASE c = "_"
    BY <2>1
  <2>2. CASE c # "_"
    <3>1. v \in Nat /\ Digit(c) \in Nat
      <4>1. c \in DigitsBelow(16)
        BY <2>2 DEF NumeralChars
      <4>2. QED
        BY <4>1, DigitIs, WrapKeeps
    <3>2. Wrap(2 * v) \in Values /\ Wrap(base * v + Digit(c)) \in Values
      <4>1. (2 * v) \in Int /\ (base * v + Digit(c)) \in Int
        BY <3>1
      <4>2. QED
        BY <4>1, WrapIs
    <3>3. Apply("|", Wrap(2 * v), Digit(c)) \in Values
      <4>1. Wrap(2 * v) \in Int
        BY <3>2, WrapKeeps
      <4>2. QED
        BY <3>1, <3>2, <4>1, ApplyBits, BitwiseIs
    <3>4. QED
      BY <2>2, <3>2, <3>3
  <2>3. QED
    BY <2>1, <2>2
<1> HIDE DEF carry, n
<1>4. 0 \in Values
  BY PowerIs DEF Values
<1>5. Numbers!Stays(g, S, Values)
  <2>1. ASSUME NEW i \in S, NEW v \in Values PROVE g[i][v] \in Values
    BY <1>1, <1>3
  <2>2. QED
    BY <2>1 DEF Numbers!Stays
<1>6. /\ Numbers!Bounded(S) /\ Numbers!Chooses(Latest(n), S)
      /\ \A s \in SUBSET S : Latest(n)[s] = Max(s)
  BY <1>1, LatestIs
<1> HIDE DEF S, g
<1>7. PICK f \in [SUBSET S -> Values] : Numbers!IsFold(f, S, 0, Latest(n), g)
  BY <1>4, <1>5, <1>6, Numbers!FoldExists, Zenon
<1>8. ASSUME NEW s \in SUBSET S, s # {}, NEW v \in Values
      PROVE  Max(s) \in S /\ g[Max(s)][v] = carry(v, digits[Max(s)])
  <2>1. Max(s) \in S
    BY <1>6, <1>8 DEF Numbers!Chooses
  <2>2. QED
    BY <2>1 DEF g
<1>9. IsCarry(f)
  <2>1. ASSUME NEW s \in SUBSET S
        PROVE  f[s] = IF s = {} THEN 0 ELSE LET x == Max(s) IN carry(f[s \ {x}], digits[x])
    <3>1. f[s] = IF s = {} THEN 0 ELSE g[Max(s)][f[s \ {Max(s)}]]
      BY <1>6, <1>7 DEF Numbers!IsFold
    <3>2. f[s \ {Max(s)}] \in Values
      OBVIOUS
    <3>3. QED
      BY <1>8, <3>1, <3>2
  <2>2. f = [s \in SUBSET S |-> f[s]]
    OBVIOUS
  <2>3. QED
    BY <2>1, <2>2
<1>10. IsCarry(total)
  BY <1>9, Zenon
<1> HIDE DEF total
<1>11. S \in SUBSET S /\ total[S] \in Values
  <2> DEFINE T == {s \in SUBSET S : total[s] \in Values}
  <2>1. {} \in T
    <3>1. total[{}] = 0
      BY <1>10
    <3>2. QED
      BY <1>4, <3>1
  <2>2. ASSUME NEW s \in SUBSET S, s # {}, s \ {Latest(n)[s]} \in T
        PROVE  s \in T
    <3>1. total[s] = carry(total[s \ {Max(s)}], digits[Max(s)])
      BY <1>10, <2>2
    <3>2. total[s \ {Max(s)}] \in Values /\ Max(s) \in S
      BY <1>4, <1>6, <1>8, <2>2
    <3>3. QED
      BY <1>1, <1>3, <3>1, <3>2
  <2> HIDE DEF T
  <2>3. Numbers!Inherits(T, S, Latest(n))
    BY <2>2, Zenon DEF Numbers!Inherits
  <2>4. SUBSET S \subseteq T
    BY <1>6, <2>1, <2>3, Numbers!EverySubset
  <2>5. QED
    BY <2>4 DEF T
<1>12. QED
  BY <1>2, <1>11
-----------------------------------------------------------------------------
(* Operands. *)

LEMMA RunIs ==
    ASSUME NEW text, text \in Seq(Range(text)), NEW i \in Nat \ {0}, NEW chars
    PROVE  /\ RunEnd(text, i, chars) \in Nat \ {0}
           /\ RunEnd(text, i, chars) <= Len(text) + 1
           /\ \A j \in i..RunEnd(text, i, chars) - 1 : text[j] \in chars
<1> DEFINE S == {j \in i..Len(text) : text[j] \notin chars} \cup {Len(text) + 1}
           e == RunEnd(text, i, chars)
<1>1. Len(text) \in Nat
  OBVIOUS
<1>2. S \subseteq Nat \ {0} /\ S # {} /\ Len(text) + 1 \in S
  BY <1>1
<1>3. e \in S /\ \A x \in S : e <= x
  <2>1. S \subseteq Nat
    BY <1>2
  <2>2. e = Min(S)
    BY DEF RunEnd
  <2> HIDE DEF S, e
  <2>3. QED
    BY <1>2, <2>1, <2>2, MinIs
<1>4. ASSUME NEW j \in i..e - 1, text[j] \notin chars PROVE FALSE
  <2>1. j \in i..Len(text)
    BY <1>1, <1>2, <1>3
  <2>2. j \in S
    BY <1>4, <2>1
  <2> HIDE DEF S, e
  <2>3. e <= j /\ e \in Nat
    BY <1>2, <1>3, <2>2
  <2>4. QED
    BY <2>3
<1> HIDE DEF S, e
<1>5. QED
  BY <1>2, <1>3, <1>4 DEF e

LEMMA RunNumber ==
    ASSUME NEW text, text \in Seq(Range(text)), NEW i \in Nat \ {0}, NEW chars,
           chars \subseteq NumeralChars, NEW base \in Nat
    PROVE  Number(SubSeq(text, i, RunEnd(text, i, chars) - 1), base) \in Values
<1> DEFINE e == RunEnd(text, i, chars)
           digits == SubSeq(text, i, e - 1)
<1>1. e \in Nat \ {0} /\ e <= Len(text) + 1 /\ \A j \in i..e - 1 : text[j] \in NumeralChars
  BY RunIs
<1> HIDE DEF e
<1>2. Len(text) \in Nat
  OBVIOUS
<1>3. digits = [k \in 1..(IF i <= e - 1 THEN (e - 1) - i + 1 ELSE 0) |-> text[i + k - 1]]
  BY <1>1, <1>2
<1>4. PICK n \in Nat : n = IF i <= e - 1 THEN (e - 1) - i + 1 ELSE 0
  <2>1. CASE i <= e - 1
    <3>1. (e - 1) - i + 1 \in Nat
      BY <1>1, <2>1
    <3>2. QED
      BY <2>1, <3>1
  <2>2. CASE ~(i <= e - 1)
    BY <2>2
  <2>3. QED
    BY <2>1, <2>2
<1>5. ASSUME NEW k \in 1..n PROVE text[i + k - 1] \in NumeralChars
  <2>1. i + k - 1 \in i..e - 1
    BY <1>1, <1>4
  <2>2. QED
    BY <1>1, <2>1
<1>6. digits = [k \in 1..n |-> text[i + k - 1]]
  BY <1>3, <1>4
<1>7. digits \in Seq(NumeralChars)
  <2>1. [k \in 1..n |-> text[i + k - 1]] \in [1..n -> NumeralChars]
    BY <1>5
  <2>2. \A f \in [1..n -> NumeralChars] : f \in Seq(NumeralChars)
    OBVIOUS
  <2>3. QED
    BY <1>6, <2>1, <2>2
<1> HIDE DEF digits
<1>8. Number(digits, base) \in Values
  BY <1>7, NumberIs
<1>9. QED
  BY <1>8 DEF digits, e

LEMMA DigitsAre ==
    ASSUME NEW base \in 0..16
    PROVE  DigitsBelow(base) \subseteq NumeralChars
<1>1. \A i \in 1..base : i \in 1..16
  OBVIOUS
<1>2. QED
  BY <1>1, Zenon DEF DigitsBelow, NumeralChars

LEMMA BinaryDigitsAre == {"0", "1", "_"} \subseteq NumeralChars
<1>1. HexDigits[1] = "0" /\ HexDigits[2] = "1" /\ 1 \in 1..16 /\ 2 \in 1..16
  BY DEF HexDigits
<1>2. QED
  BY <1>1, Zenon DEF DigitsBelow, NumeralChars

IsLiteral(r) == r.value \in Values /\ r.next \in Nat \ {0}

LEMMA BasedIs ==
    ASSUME NEW text, text \in Seq(Range(text)), NEW i \in Nat \ {0}, NEW base \in 0..16,
           NEW suffix
    PROVE  IsLiteral(Based(text, i, base, suffix))
<1> DEFINE last == RunEnd(text, i, DigitsBelow(base))
<1>1. Number(SubSeq(text, i, last - 1), base) \in Values
  BY DigitsAre, RunNumber
<1>2. last \in Nat \ {0}
  BY RunIs
<1>3. Based(text, i, base, suffix).value = Number(SubSeq(text, i, last - 1), base)
  BY DEF Based
<1>4. Based(text, i, base, suffix).next \in {last, last + 1}
  BY DEF Based
<1> HIDE DEF last
<1>5. QED
  BY <1>1, <1>2, <1>3, <1>4 DEF IsLiteral

LEMMA OrHexIs ==
    ASSUME NEW text, text \in Seq(Range(text)), NEW i \in Nat \ {0}, NEW value \in Values
    PROVE  IsLiteral(OrHex(text, i, value))
<1>1. IsLiteral(Based(text, 1, 16, "h"))
  BY BasedIs
<1>2. OrHex(text, i, value) \in {Based(text, 1, 16, "h"),
                                 [value |-> value, next |-> i, bad |-> i <= Len(text)]}
  BY DEF OrHex
<1>3. QED
  BY <1>1, <1>2 DEF IsLiteral

LEMMA LiteralIs ==
    ASSUME NEW text, text \in Seq(Range(text))
    PROVE  IsLiteral(Literal(text))
<1> DEFINE r == Literal(text)
           last == RunEnd(text, 1, DigitsBelow(10))
<1>1. IsLiteral(BinaryPrefix(text))
  <2> DEFINE e == RunEnd(text, 3, {"0", "1", "_"})
  <2>1. Number(SubSeq(text, 3, e - 1), 2) \in Values /\ e \in Nat \ {0}
    <3>1. 3 \in Nat \ {0} /\ 2 \in Nat
      OBVIOUS
    <3>2. QED
      BY <3>1, BinaryDigitsAre, RunNumber, RunIs, Zenon
  <2>2. BinaryPrefix(text) = OrHex(text, e, Number(SubSeq(text, 3, e - 1), 2))
    BY Zenon DEF BinaryPrefix
  <2> HIDE DEF e
  <2>3. QED
    BY <2>1, <2>2, OrHexIs
<1>2. /\ IsLiteral(Based(text, 3, 16, "")) /\ IsLiteral(Based(text, 3, 8, ""))
      /\ IsLiteral(Based(text, 2, 16, "")) /\ IsLiteral(Based(text, 1, 8, "o"))
      /\ IsLiteral(Based(text, 1, 16, "h"))
  <2>1. /\ 1 \in Nat \ {0} /\ 2 \in Nat \ {0} /\ 3 \in Nat \ {0} /\ 8 \in 0..16 /\ 16 \in 0..16
    OBVIOUS
  <2>2. QED
    BY <2>1, BasedIs, Zenon
<1>3. IsLiteral(OrHex(text, last, Number(SubSeq(text, 1, last - 1), 10)))
  <2>1. Number(SubSeq(text, 1, last - 1), 10) \in Values /\ last \in Nat \ {0}
    <3>1. DigitsBelow(10) \subseteq NumeralChars
      BY DigitsAre
    <3>2. QED
      BY <3>1, RunNumber, RunIs
  <2> HIDE DEF last
  <2>2. QED
    BY <2>1, OrHexIs
<1>4. IsLiteral(BinarySuffix(text))
  <2> DEFINE b == RunEnd(text, 1, DigitsBelow(3))
  <2>1. Number(SubSeq(text, 1, b - 1), 2) \in Values /\ b \in Nat \ {0}
    <3>1. DigitsBelow(3) \subseteq NumeralChars
      BY DigitsAre
    <3>2. QED
      BY <3>1, RunNumber, RunIs
  <2>2. BinarySuffix(text) \in {Based(text, 1, 16, "h"),
          [value |-> Number(SubSeq(text, 1, b - 1), 2), next |-> b + 1, bad |-> FALSE]}
    BY Zenon DEF BinarySuffix
  <2> HIDE DEF b
  <2>3. IsLiteral([value |-> Number(SubSeq(text, 1, b - 1), 2), next |-> b + 1, bad |-> FALSE])
    BY <2>1 DEF IsLiteral
  <2>4. QED
    BY <1>2, <2>2, <2>3
<1>5. r \in {BinaryPrefix(text), Based(text, 3, 16, ""), Based(text, 3, 8, ""),
             Based(text, 2, 16, ""), Based(text, 1, 8, "o"), BinarySuffix(text),
             OrHex(text, last, Number(SubSeq(text, 1, last - 1), 10))}
  BY Zenon DEF Literal
<1> HIDE DEF r, last
<1>6. IsLiteral(r)
  BY <1>1, <1>2, <1>3, <1>4, <1>5
<1>7. QED
  BY <1>6 DEF r

LEMMA CharacterConstantIs ==
    ASSUME NEW bytes \in Seq(0..2^ByteBits - 1)
    PROVE  CharacterConstant(bytes) \in Values
<1> DEFINE S == {k \in DOMAIN bytes : (k - 1) * ByteBits < Bits}
           term(k) == bytes[k] * 2^((k - 1) * ByteBits)
           choose == [s \in SUBSET S |-> CHOOSE x \in s : TRUE]
           g == [k \in S |-> [v \in Int |-> term(k) + v]]
           IsSum(f) == f = [s \in SUBSET S |->
                               IF s = {} THEN 0
                               ELSE LET x == CHOOSE x \in s : TRUE IN term(x) + f[s \ {x}]]
           sum == CHOOSE f : IsSum(f)
<1>1. CharacterConstant(bytes) = Wrap(sum[S])
  BY Zenon DEF CharacterConstant, MapThenSumSet, MapThenFoldSet
<1>2. Len(bytes) \in Nat /\ S \subseteq 1..Len(bytes) /\ S \subseteq 0..Len(bytes)
  OBVIOUS
<1>3. ASSUME NEW k \in S PROVE term(k) \in Int
  <2>1. PICK c \in Nat : c = bytes[k]
    <3>1. k \in 1..Len(bytes) /\ bytes[k] \in 0..2^ByteBits - 1
      <4>1. k \in DOMAIN bytes
        OBVIOUS
      <4>2. \A V : \A t \in Seq(V) : \A j \in DOMAIN t : j \in 1..Len(t) /\ t[j] \in V
        OBVIOUS
      <4>3. QED
        BY <4>1, <4>2, Zenon
    <3>2. PICK m \in Nat \ {0} : m = 2^ByteBits
      BY PowerIs, SizesAssumption
    <3>3. bytes[k] \in 0..m - 1
      BY <3>1, <3>2
    <3>4. QED
      BY <3>3
  <2>2. (k - 1) * ByteBits \in Nat
    <3>1. k - 1 \in Nat /\ ByteBits \in Nat
      BY <1>2, SizesAssumption
    <3>2. \A x, y \in Nat : x * y \in Nat
      OBVIOUS
    <3>3. QED
      BY <3>1, <3>2
  <2>3. PICK w \in Nat : w = 2^((k - 1) * ByteBits)
    BY <2>2, PowerIs
  <2>4. c * w \in Int
    OBVIOUS
  <2>5. QED
    BY <2>1, <2>3, <2>4
<1>4. \A s \in SUBSET S : s # {} => choose[s] \in s
  OBVIOUS
<1> HIDE DEF term
<1>5. ASSUME NEW x \in S, NEW v \in Int
      PROVE  g[x][v] = term(x) + v /\ g[x][v] \in Int
  BY <1>3
<1>6. Numbers!Bounded(S) /\ Numbers!Chooses(choose, S) /\ Numbers!Stays(g, S, Int)
  BY <1>2, <1>4, <1>5, Zenon DEF Numbers!Bounded, Numbers!Chooses, Numbers!Stays
<1> HIDE DEF choose, g, S
<1>7. PICK f \in [SUBSET S -> Int] : Numbers!IsFold(f, S, 0, choose, g)
  BY <1>6, 0 \in Int, Numbers!FoldExists, Zenon
<1>8. IsSum(f)
  <2>1. ASSUME NEW s \in SUBSET S
        PROVE  f[s] = IF s = {} THEN 0
                      ELSE LET x == CHOOSE x \in s : TRUE IN term(x) + f[s \ {x}]
    <3>1. CASE s = {}
      BY <1>7, <3>1 DEF Numbers!IsFold
    <3>2. CASE s # {}
      <4>1. PICK x \in S : x = choose[s] /\ x = CHOOSE y \in s : TRUE
        BY <1>4, <3>2 DEF choose
      <4>2. f[s] = g[x][f[s \ {x}]] /\ f[s \ {x}] \in Int
        BY <1>7, <3>2, <4>1 DEF Numbers!IsFold
      <4>3. f[s] = term(x) + f[s \ {x}]
        BY <1>5, <4>2
      <4>4. QED
        BY <3>2, <4>1, <4>3
    <3>3. QED
      BY <3>1, <3>2
  <2>2. f = [s \in SUBSET S |-> f[s]]
    OBVIOUS
  <2>3. QED
    BY <2>1, <2>2
<1>9. IsSum(sum)
  BY <1>8, Zenon
<1> HIDE DEF sum
<1>10. S \in SUBSET S /\ sum[S] \in Int
  <2> DEFINE T == {s \in SUBSET S : sum[s] \in Int}
  <2>1. {} \in T
    <3>1. sum[{}] = 0
      BY <1>9
    <3>2. QED
      BY <3>1
  <2>2. ASSUME NEW s \in SUBSET S, s # {}, s \ {choose[s]} \in T
        PROVE  s \in T
    <3>1. PICK x \in S : x = choose[s] /\ x = CHOOSE y \in s : TRUE
      BY <1>4, <2>2 DEF choose
    <3>2. sum[s] = term(x) + sum[s \ {x}]
      BY <1>9, <2>2, <3>1
    <3>3. sum[s \ {x}] \in Int /\ term(x) \in Int
      BY <1>3, <2>2, <3>1
    <3>4. QED
      BY <3>2, <3>3
  <2> HIDE DEF T
  <2>3. Numbers!Inherits(T, S, choose)
    BY <2>2, Zenon DEF Numbers!Inherits
  <2>4. SUBSET S \subseteq T
    BY <1>6, <2>1, <2>3, Numbers!EverySubset
  <2>5. QED
    BY <2>4 DEF T
<1>11. QED
  BY <1>1, <1>10, WrapIs

-----------------------------------------------------------------------------
(* What the operators leave. *)

LEMMA RightOperandIs ==
    ASSUME NEW op \in Binary, NEW right \in Values
    PROVE  /\ RightOperand(op, right) \in Values
           /\ op \in {"/", "//", "%", "%%"} => RightOperand(op, right) # 0
<1>1. 0 \in Values /\ 1 \in Values /\ right \in Nat
  <2>1. PICK M \in Nat \ {0, 1} : M = 2^Bits
    BY PowerIs
  <2>2. 0 \in 0..M - 1 /\ 1 \in 0..M - 1
    OBVIOUS
  <2>3. QED
    BY <2>1, <2>2, WrapKeeps DEF Values
<1>2. CASE ByZero(op, right)
  BY <1>1, <1>2 DEF RightOperand
<1>3. CASE ~ByZero(op, right)
  <2>1. op \in {"/", "//", "%", "%%"} => right # 0
    BY <1>3 DEF ByZero
  <2>2. CASE op \in {"/", "//", "%", "%%"}
    <3>1. ~TooFar(op, right)
      BY <2>2, Zenon DEF TooFar
    <3>2. RightOperand(op, right) = right
      BY <1>3, <3>1, Zenon DEF RightOperand
    <3>3. QED
      BY <2>1, <3>2
  <2>3. CASE op \notin {"/", "//", "%", "%%"}
    BY <1>1, <2>3 DEF RightOperand
  <2>4. QED
    BY <2>2, <2>3
<1>4. QED
  BY <1>2, <1>3

\* Floor division of natural numbers.
LEMMA QuotientIs ==
    ASSUME NEW x \in Nat, NEW y \in Nat \ {0}
    PROVE  x \div y \in 0..x /\ x % y \in 0..x
<1>1. PICK q \in Int, r \in 0..y - 1 : x \div y = q /\ x % y = r /\ x = y * q + r
  OBVIOUS
<1>2. \A i, j \in Nat : i * j \in Nat
  OBVIOUS
<1>3. ASSUME q < 0 PROVE FALSE
  <2>1. PICK t \in Nat : q = -1 - t
    <3>1. -1 - q \in Nat
      BY <1>3
    <3>2. q = -1 - (-1 - q)
      OBVIOUS
    <3>3. QED
      BY <3>1, <3>2
  <2>2. y * q = -y - y * t
    BY <2>1
  <2>3. y * t \in Nat
    BY <1>2
  <2>4. QED
    BY <1>1, <2>2, <2>3
<1>4. q \in Nat
  BY <1>3
<1>5. y * q >= q
  <2>1. PICK t \in Nat : y = t + 1
    <3>1. y - 1 \in Nat /\ y = (y - 1) + 1
      OBVIOUS
    <3>2. QED
      BY <3>1
  <2>2. y * q = q * t + q
    BY <1>4, <2>1
  <2>3. q * t \in Nat
    BY <1>2, <1>4
  <2>4. QED
    BY <1>4, <2>2, <2>3
<1>6. PICK m \in Int : m = y * q
  OBVIOUS
<1>7. m + r = x /\ m >= q /\ m >= 0
  BY <1>1, <1>4, <1>5, <1>6
<1>8. QED
  BY <1>1, <1>4, <1>7

LEMMA ApplyIs ==
    ASSUME NEW op \in Binary, NEW a \in Values, NEW right \in Values
    PROVE  Apply(op, a, right) \in Values
<1> DEFINE b == RightOperand(op, right)
<1>1. b \in Values /\ a \in Nat /\ b \in Nat /\ (op \in {"/", "//", "%", "%%"} => b # 0)
  BY RightOperandIs, WrapKeeps
<1>2. \A n \in 0..a : n \in Values
  <2>1. PICK M \in Nat \ {0} : M = 2^Bits
    BY PowerIs
  <2>2. a \in 0..M - 1
    BY <2>1 DEF Values
  <2>3. \A n \in 0..a : n \in 0..M - 1
    BY <2>2
  <2>4. QED
    BY <2>1, <2>3 DEF Values
<1>3. PICK w \in Nat \ {0} : w = 2^b
  BY <1>1, PowerIs
<1> HIDE DEF b
<1>4. Wrap(a * b) \in Values /\ Wrap(a + b) \in Values /\ Wrap(a - b) \in Values /\ Wrap(a * w) \in Values
  <2>1. a * b \in Int /\ a + b \in Int /\ a - b \in Int /\ a * w \in Int
    BY <1>1
  <2>2. QED
    BY <2>1, WrapIs
<1>5. a \div w \in Values
  BY <1>1, <1>2, QuotientIs
<1>6. ASSUME b # 0
      PROVE  a \div b \in Values /\ a % b \in Values /\ ValueDiv(a, b) \in Values
             /\ Wrap(a - ValueDiv(a, b) * b) \in Values
  <2>1. b \in Nat \ {0}
    BY <1>1, <1>6
  <2>2. a \div b \in Values /\ a % b \in Values
    BY <1>1, <1>2, <2>1, QuotientIs
  <2>3. PICK d \in Values : d = ValueDiv(a, b)
    BY <1>1, <1>6, DivIs
  <2>4. a - d * b \in Int
    BY <1>1, WrapKeeps
  <2>5. QED
    BY <2>2, <2>3, <2>4, WrapIs
<1>7. Apply(op, a, right) =
         CASE op = "*" -> Wrap(a * b)
           [] op = "/" -> a \div b
           [] op = "//" -> ValueDiv(a, b)
           [] op = "%" -> a % b
           [] op = "%%" -> Wrap(a - ValueDiv(a, b) * b)
           [] op = "+" -> Wrap(a + b)
           [] op = "-" -> Wrap(a - b)
           [] op = "<<" -> Wrap(a * 2^b)
           [] op = ">>" -> a \div 2^b
           [] op \in {"&", "^", "|"} -> Bitwise(op, a, b)
  BY Zenon DEF Apply, b
<1>8. CASE op = "*"
  BY <1>4, <1>7, <1>8, Zenon
<1>9. CASE op = "/"
  BY <1>1, <1>6, <1>7, <1>9, Zenon
<1>10. CASE op = "//"
  BY <1>1, <1>6, <1>7, <1>10, Zenon
<1>11. CASE op = "%"
  BY <1>1, <1>6, <1>7, <1>11, Zenon
<1>12. CASE op = "%%"
  BY <1>1, <1>6, <1>7, <1>12, Zenon
<1>13. CASE op = "+"
  BY <1>4, <1>7, <1>13, Zenon
<1>14. CASE op = "-"
  BY <1>4, <1>7, <1>14, Zenon
<1>15. CASE op = "<<"
  BY <1>3, <1>4, <1>7, <1>15, Zenon
<1>16. CASE op = ">>"
  BY <1>3, <1>5, <1>7, <1>16, Zenon
<1>17. CASE op \in {"&", "^", "|"}
  <2>1. Bitwise(op, a, b) \in Values
    BY <1>1, <1>17, BitwiseIs
  <2>2. Apply(op, a, right) = Bitwise(op, a, b)
    BY <1>7, <1>17, Zenon
  <2>3. QED
    BY <2>1, <2>2
<1>18. QED
  BY <1>8, <1>9, <1>10, <1>11, <1>12, <1>13, <1>14, <1>15, <1>16, <1>17, BinaryIs, Zenon

SignStates == [minus : BOOLEAN, delta : Int]

\* What signs add up to, one after the other.
SignThen(s, op) ==
    CASE op = "+" -> s
      [] op = "-" -> [s EXCEPT !.minus = ~@]
      [] op = "~" -> [minus |-> ~s.minus, delta |-> IF s.minus THEN s.delta + 1 ELSE s.delta - 1]

AddsUp(t, n) ==
    /\ t[0] = [minus |-> FALSE, delta |-> 0]
    /\ \A j \in 1..n : t[j - 1] \in SignStates /\ t[j] = SignThen(t[j - 1], source[p + j - 1].op)

LEMMA SignsAre ==
    ASSUME TextOK
    PROVE  /\ Signs \in SignStates
           /\ \E t : AddsUp(t, Behind(Unary) - p) /\ t[Behind(Unary) - p] = Signs
<1> DEFINE seq == SubSeq(source, p, Behind(Unary) - 1)
           n == Len(seq)
           S == 1..n
           sign(s, token) ==
              CASE token.op = "+" -> s
                [] token.op = "-" -> [s EXCEPT !.minus = ~@]
                [] token.op = "~" -> [minus |-> ~s.minus,
                                      delta |-> IF s.minus THEN s.delta + 1 ELSE s.delta - 1]
           start == [minus |-> FALSE, delta |-> 0]
           g == [i \in S |-> [v \in SignStates |-> sign(v, seq[i])]]
           Folds(f) == f = [s \in SUBSET S |->
                                 IF s = {} THEN start
                                 ELSE LET x == Max(s) IN sign(f[s \ {x}], seq[x])]
           run == CHOOSE f : Folds(f)
<1>0. /\ n \in Nat /\ DOMAIN seq = S /\ n = Behind(Unary) - p
      /\ \A i \in S : seq[i].op \in Unary /\ seq[i] = source[p + i - 1]
  <2>1. PICK e \in Nat \ {0} : e = Behind(Unary) /\ e >= p /\ e <= Len(source) + 1
    BY BehindIs, TextIs
  <2>2. \A i \in p..e - 1 : source[i].op \in Unary
    <3>1. SUFFICES ASSUME NEW i \in p..e - 1, source[i].op \notin Unary PROVE FALSE
      OBVIOUS
    <3> DEFINE R == {j \in p..Len(source) : source[j].op \notin Unary} \cup {Len(source) + 1}
    <3>2. i \in p..Len(source) /\ i < e
      BY <2>1, TextIs
    <3>3. i \in R /\ R \subseteq Nat
      BY <3>1, <3>2, TextIs
    <3>4. e = Min(R)
      BY <2>1 DEF Behind
    <3> HIDE DEF R
    <3>5. e <= i
      BY <3>3, <3>4, MinIs
    <3>6. QED
      BY <3>2, <3>5
  <2>3. seq = [k \in 1..(IF p <= e - 1 THEN (e - 1) - p + 1 ELSE 0) |-> source[p + k - 1]]
    <3>1. source \in Seq(Range(source)) /\ p \in Nat
      BY TextIs, SourcesAssumption DEF TextOK
    <3>2. \A R : \A s \in Seq(R) : \A i, j \in Nat :
             SubSeq(s, i, j) = [k \in 1..(IF i <= j THEN j - i + 1 ELSE 0) |-> s[i + k - 1]]
      OBVIOUS
    <3>3. e - 1 \in Nat
      BY <2>1
    <3>4. QED
      BY <2>1, <3>1, <3>2, <3>3
  <2>4. PICK m \in Nat : m = e - p /\ m = IF p <= e - 1 THEN (e - 1) - p + 1 ELSE 0
    <3>1. CASE p <= e - 1
      <4>1. e - p \in Nat /\ e - p = (e - 1) - p + 1
        BY <2>1, <3>1, TextIs
      <4>2. QED
        BY <3>1, <4>1
    <3>2. CASE ~(p <= e - 1)
      <4>1. e - p = 0
        BY <2>1, <3>2, TextIs
      <4>2. QED
        BY <3>2, <4>1
    <3>3. QED
      BY <3>1, <3>2
  <2>5. seq = [k \in 1..m |-> source[p + k - 1]]
    BY <2>3, <2>4
  <2>6. \A k \in 1..m : p + k - 1 \in p..e - 1
    BY <2>1, <2>4, TextIs
  <2> HIDE DEF seq
  <2>7. n = m /\ DOMAIN seq = 1..m
    BY <2>5
  <2>8. QED
    BY <2>1, <2>2, <2>4, <2>5, <2>6, <2>7
<1> HIDE DEF seq, n
<1>1. Signs = run[S]
  <2>1. Signs = LET iter == CHOOSE f : f = [s \in SUBSET DOMAIN seq |->
                                 IF s = {} THEN start
                                 ELSE LET x == Max(s) IN sign(f[s \ {x}], seq[x])]
                               IN iter[DOMAIN seq]
    BY Zenon DEF Signs, FoldLeft, MapThenFoldSet, seq
  <2>2. QED
    BY <1>0, <2>1, Zenon
<1>2. start \in SignStates
  BY DEF SignStates
<1>3. ASSUME NEW v \in SignStates, NEW token, token.op \in Unary
      PROVE  sign(v, token) \in SignStates
  <2>1. v.minus \in BOOLEAN /\ v.delta \in Int
    BY DEF SignStates
  <2>2. CASE token.op = "+"
    BY <2>2
  <2>3. CASE token.op = "-"
    <3>1. PICK b \in BOOLEAN : b = ~v.minus
      BY <2>1
    <3>2. sign(v, token) = [v EXCEPT !.minus = ~@]
      BY <2>3, Zenon
    <3>3. sign(v, token) = [v EXCEPT !.minus = b]
      BY <3>1, <3>2
    <3> HIDE DEF sign
    <3>4. [v EXCEPT !.minus = b] \in SignStates
      BY DEF SignStates
    <3>5. QED
      BY <3>3, <3>4
  <2>4. CASE token.op = "~"
    <3>1. sign(v, token) = [minus |-> ~v.minus,
                            delta |-> IF v.minus THEN v.delta + 1 ELSE v.delta - 1]
      BY <2>4, Zenon
    <3>2. PICK d \in Int : d = IF v.minus THEN v.delta + 1 ELSE v.delta - 1
      BY <2>1
    <3>3. PICK b \in BOOLEAN : b = ~v.minus
      BY <2>1
    <3> HIDE DEF sign
    <3>4. sign(v, token) = [minus |-> b, delta |-> d]
      BY <3>1, <3>2, <3>3
    <3>5. [minus |-> b, delta |-> d] \in SignStates
      BY DEF SignStates
    <3>6. QED
      BY <3>4, <3>5
  <2>5. QED
    BY <1>3, <2>2, <2>3, <2>4 DEF Unary
<1> HIDE DEF sign, start
<1>4. Numbers!Stays(g, S, SignStates)
  <2>1. ASSUME NEW i \in S, NEW v \in SignStates PROVE g[i][v] \in SignStates
    BY <1>0, <1>3
  <2>2. QED
    BY <2>1 DEF Numbers!Stays
<1>5. /\ Numbers!Bounded(S) /\ Numbers!Chooses(Latest(n), S)
      /\ \A s \in SUBSET S : Latest(n)[s] = Max(s)
  BY <1>0, LatestIs
<1> HIDE DEF S, g
<1>6. PICK f \in [SUBSET S -> SignStates] : Numbers!IsFold(f, S, start, Latest(n), g)
  BY <1>2, <1>4, <1>5, Numbers!FoldExists, Zenon
<1>7. ASSUME NEW s \in SUBSET S, s # {}, NEW v \in SignStates
      PROVE  Max(s) \in S /\ g[Max(s)][v] = sign(v, seq[Max(s)])
  <2>1. Max(s) \in S
    BY <1>5, <1>7 DEF Numbers!Chooses
  <2>2. QED
    BY <2>1 DEF g
<1>8. Folds(f)
  <2>1. ASSUME NEW s \in SUBSET S
        PROVE  f[s] = IF s = {} THEN start ELSE LET x == Max(s) IN sign(f[s \ {x}], seq[x])
    <3>1. f[s] = IF s = {} THEN start ELSE g[Max(s)][f[s \ {Max(s)}]]
      BY <1>5, <1>6 DEF Numbers!IsFold
    <3>2. f[s \ {Max(s)}] \in SignStates
      OBVIOUS
    <3>3. QED
      BY <1>7, <3>1, <3>2
  <2>2. f = [s \in SUBSET S |-> f[s]]
    OBVIOUS
  <2>3. QED
    BY <2>1, <2>2
<1>9. Folds(run)
  BY <1>8, Zenon
<1> HIDE DEF run
<1>10. \A s \in SUBSET S : run[s] \in SignStates
  <2> DEFINE T == {s \in SUBSET S : run[s] \in SignStates}
  <2>1. {} \in T
    <3>1. run[{}] = start
      BY <1>9
    <3>2. QED
      BY <1>2, <3>1
  <2>2. ASSUME NEW s \in SUBSET S, s # {}, s \ {Latest(n)[s]} \in T
        PROVE  s \in T
    <3>1. run[s] = sign(run[s \ {Max(s)}], seq[Max(s)])
      BY <1>9, <2>2
    <3>2. run[s \ {Max(s)}] \in SignStates /\ Max(s) \in S
      BY <1>2, <1>5, <1>7, <2>2
    <3>3. QED
      BY <1>0, <1>3, <3>1, <3>2
  <2> HIDE DEF T
  <2>3. Numbers!Inherits(T, S, Latest(n))
    BY <2>2, Zenon DEF Numbers!Inherits
  <2>4. SUBSET S \subseteq T
    BY <1>5, <2>1, <2>3, Numbers!EverySubset
  <2>5. QED
    BY <2>4 DEF T
<1>11. ASSUME NEW j \in 0..n
       PROVE  /\ run[1..j] \in SignStates
              /\ j = 0 => run[1..j] = start
              /\ j > 0 => run[1..j] = SignThen(run[1..j - 1], source[p + j - 1].op)
  <2>1. 1..j \in SUBSET S
    BY <1>0 DEF S
  <2>2. run[1..j] \in SignStates
    BY <1>10, <2>1
  <2>3. CASE j = 0
    <3>1. 1..j = {}
      BY <2>3
    <3>2. QED
      BY <1>9, <2>2, <2>3, <3>1
  <2>4. CASE j > 0
    <3>1. j \in 1..j /\ 1..j # {} /\ (1..j) \ {j} = 1..j - 1
      BY <2>4
    <3>2. Max(1..j) = j
      <4>1. \A y \in 1..j : y <= j
        OBVIOUS
      <4>2. QED
        BY <3>1, <4>1 DEF Max
    <3>3. run[1..j] = sign(run[(1..j) \ {j}], seq[j])
      BY <1>9, <2>1, <3>1, <3>2
    <3>4. seq[j] = source[p + j - 1]
      BY <1>0, <2>4 DEF S
    <3>5. sign(run[1..j - 1], seq[j]) = SignThen(run[1..j - 1], seq[j].op)
      BY Zenon DEF SignThen, sign
    <3>6. run[1..j] = sign(run[1..j - 1], seq[j])
      BY <3>1, <3>3
    <3>7. run[1..j] = SignThen(run[1..j - 1], source[p + j - 1].op)
      BY <3>4, <3>5, <3>6
    <3>8. j # 0
      BY <2>4
    <3>9. QED
      BY <2>2, <3>7, <3>8
  <2>5. QED
    BY <2>3, <2>4
<1> DEFINE t == [j \in 0..n |-> run[1..j]]
<1>12. AddsUp(t, n) /\ t[n] = Signs
  <2>1. \A j \in 0..n : t[j] = run[1..j]
    OBVIOUS
  <2>2. 0 \in 0..n /\ n \in 0..n /\ \A j \in 1..n : j \in 0..n /\ j - 1 \in 0..n /\ j > 0
    BY <1>0
  <2> HIDE DEF t
  <2>3. t[0] = start
    BY <1>11, <2>1, <2>2
  <2>4. t[n] = Signs
    BY <1>1, <2>1, <2>2 DEF S
  <2>5. ASSUME NEW j \in 1..n
        PROVE  t[j - 1] \in SignStates /\ t[j] = SignThen(t[j - 1], source[p + j - 1].op)
    <3>1. j \in 0..n /\ j - 1 \in 0..n /\ j > 0
      BY <2>2
    <3>2. t[j] = run[1..j] /\ t[j - 1] = run[1..j - 1]
      BY <2>1, <3>1
    <3>3. QED
      BY <1>11, <3>1, <3>2
  <2>6. QED
    BY <2>3, <2>4, <2>5 DEF AddsUp, start
<1> HIDE DEF t
<1>13. S \in SUBSET S
  OBVIOUS
<1>14. QED
  BY <1>0, <1>1, <1>10, <1>12, <1>13

-----------------------------------------------------------------------------
(* Types. *)

Messages == {"Expression too deep", "Missing close paren", "Missing close quote",
             "bad label", "Undefined label", "division by zero", "modulo by zero",
             "shift by larger than 31"}

States == {"match", "operator", "pop", "done", "trapped"}

Flags == {"is_address_used", "is_start_used"}

ItemTyped(item) ==
    /\ item.casei \in ItemKinds
    /\ item.open \in (IF item.casei = "(" THEN 1..MaxOpen ELSE {0})
    /\ item.level \in 0..6 /\ item.value1 \in Values

StackTyped(stack) ==
    Len(stack) < StackDepth /\ \A i \in DOMAIN stack : ItemTyped(stack[i])

ResultTyped ==
    errors \subseteq Messages /\ end \in 0..Len(source) + 1 /\ instruction_value \in Values

Typed ==
    /\ assembler_pass \in {0, 2} /\ column \in Nat /\ pc \in States
    /\ StackTyped(match_stack) /\ value1 \in Values
    /\ has_undefined \in BOOLEAN /\ used \subseteq Flags
    /\ ResultTyped

LEMMA TypedIs == WaitInv /\ Typed => TypeOK
<1> SUFFICES ASSUME WaitInv, Typed PROVE TypeOK
  OBVIOUS
<1>1. source \in Sources /\ p \in 1..Len(source) + 1 /\ rank \in 0..5 /\ level \in 0..6
  BY DEF WaitInv, TextOK
<1>2. /\ assembler_pass \in {0, 2} /\ column \in Nat /\ pc \in States
      /\ Len(match_stack) < StackDepth /\ value1 \in Values
      /\ has_undefined \in BOOLEAN /\ used \subseteq Flags
      /\ errors \subseteq Messages /\ end \in 0..Len(source) + 1 /\ instruction_value \in Values
  BY DEF Typed, ResultTyped, StackTyped
<1>3. \A i \in DOMAIN match_stack :
         LET item == match_stack[i]
         IN  /\ item.casei \in Binary \cup {"(", "-sign", "+sign"}
             /\ item.open \in (IF item.casei = "(" THEN 1..MaxOpen ELSE {0})
             /\ item.level \in 0..6 /\ item.value1 \in Values
  BY Zenon DEF Typed, StackTyped, ItemTyped, ItemKinds
<1>4. QED
  BY <1>1, <1>2, <1>3, Zenon DEF TypeOK, States, Flags, Messages

LEMMA ZeroIsValue == 0 \in Values
  BY PowerIs DEF Values

\* What an item may be.
LEMMA ItemIs ==
    ASSUME NEW c \in ItemKinds, NEW open, NEW v \in Values, level \in 0..6,
           open \in (IF c = "(" THEN 1..MaxOpen ELSE {0})
    PROVE  ItemTyped(Item(c, open, v))
<1>1. /\ Item(c, open, v).casei = c /\ Item(c, open, v).open = open
      /\ Item(c, open, v).level = level /\ Item(c, open, v).value1 = v
  BY DEF Item
<1>2. QED
  BY <1>1, Zenon DEF ItemTyped

LEMMA PushTyped ==
    ASSUME WaitInv, Typed, NEW item, ItemTyped(item), NEW new_level, Push(item, new_level)
    PROVE  StackTyped(match_stack)' /\ pc' \in States /\ (source' = source => ResultTyped')
<1>1. PICK V : match_stack \in Seq(Items(V))
  BY DEF WaitInv, StackOK
<1>2. PICK n \in Nat : n = Len(match_stack)
  BY <1>1
<1>3. n < StackDepth /\ StackDepth \in Nat
  BY <1>2, SizesAssumption DEF Typed, StackTyped
<1>4. CASE n + 1 = StackDepth
  <2>1. Fail({"Expression too deep"}) /\ match_stack' = match_stack
    BY <1>2, <1>4, Zenon DEF Push
  <2>2. pc' = "done" /\ end' = 0 /\ instruction_value' = 0 /\ errors' = errors \cup {"Expression too deep"}
    BY <2>1, Zenon DEF Fail
  <2>3. StackTyped(match_stack')
    BY <2>1 DEF Typed
  <2>4. pc' \in States
    BY <2>2 DEF States
  <2>5. errors' \subseteq Messages
    BY <2>2, Zenon DEF Typed, ResultTyped, Messages
  <2>6. source' = source => end' \in 0..Len(source') + 1
    <3>1. 0 \in 0..Len(source) + 1
      BY TextIs DEF WaitInv
    <3>2. QED
      BY <2>2, <3>1
  <2>7. QED
    BY <2>2, <2>3, <2>4, <2>5, <2>6, ZeroIsValue DEF ResultTyped
<1>5. CASE n + 1 # StackDepth
  <2>1. match_stack' = Append(match_stack, item) /\ pc' = "match" /\ UNCHANGED <<errors, result>>
    BY <1>2, <1>5, Zenon DEF Push
  <2> DEFINE more == Append(match_stack, item)
  <2>2. /\ Len(more) = n + 1 /\ DOMAIN more = 1..n + 1 /\ more[n + 1] = item
        /\ \A i \in 1..n : more[i] = match_stack[i]
        /\ DOMAIN match_stack = 1..n
    BY <1>1, <1>2
  <2> HIDE DEF more
  <2>3. \A i \in 1..n + 1 : i = n + 1 \/ i \in 1..n
    OBVIOUS
  <2>4. ASSUME NEW i \in DOMAIN more PROVE ItemTyped(more[i])
    BY <2>2, <2>3 DEF Typed, StackTyped
  <2>5. n + 1 < StackDepth
    BY <1>3, <1>5
  <2>6. StackTyped(match_stack')
    BY <2>1, <2>2, <2>4, <2>5 DEF StackTyped, more
  <2>7. source' = source => ResultTyped'
    BY <2>1 DEF Typed, ResultTyped, result
  <2>8. pc' \in States
    BY <2>1 DEF States
  <2>9. QED
    BY <2>6, <2>7, <2>8
<1>6. QED
  BY <1>4, <1>5

\* The item on top; and what is below it.
LEMMA TopTyped ==
    ASSUME WaitInv, Typed, match_stack # <<>>
    PROVE  /\ StackTyped(Front(match_stack)) /\ ItemTyped(top)
           /\ \A item : ItemTyped(item) => StackTyped(Append(Front(match_stack), item))
<1>1. PICK V : match_stack \in Seq(Items(V))
  BY DEF WaitInv, StackOK
<1>2. PICK n \in Nat \ {0} : n = Len(match_stack)
  BY <1>1
<1>3. n < StackDepth /\ StackDepth \in Nat
  BY <1>2, SizesAssumption DEF Typed, StackTyped
<1> DEFINE less == Front(match_stack)
<1>4. /\ less \in Seq(Items(V)) /\ Len(less) = n - 1
      /\ \A i \in 1..n - 1 : less[i] = match_stack[i]
  BY <1>1, <1>2, FrontIs
<1>5. \A i \in 1..n : ItemTyped(match_stack[i])
  <2>1. DOMAIN match_stack = 1..n
    BY <1>1, <1>2
  <2>2. QED
    BY <2>1 DEF Typed, StackTyped
<1>6. ItemTyped(top)
  <2>1. top = match_stack[n] /\ n \in 1..n
    BY <1>2 DEF top, Last
  <2>2. QED
    BY <1>5, <2>1
<1> HIDE DEF less
<1>7. StackTyped(less)
  <2>1. DOMAIN less = 1..n - 1
    BY <1>4
  <2>2. \A i \in 1..n - 1 : i \in 1..n
    OBVIOUS
  <2>3. n - 1 < StackDepth
    BY <1>3
  <2>4. QED
    BY <1>4, <1>5, <2>1, <2>2, <2>3 DEF StackTyped
<1>8. ASSUME NEW item, ItemTyped(item)
      PROVE  StackTyped(Append(less, item))
  <2> DEFINE more == Append(less, item)
  <2>1. /\ Len(more) = n /\ DOMAIN more = 1..n /\ more[n] = item
        /\ \A i \in 1..n - 1 : more[i] = less[i]
    BY <1>4
  <2> HIDE DEF more
  <2>2. \A i \in 1..n : i = n \/ (i \in 1..n - 1 /\ i \in 1..n)
    OBVIOUS
  <2>3. ASSUME NEW i \in DOMAIN more PROVE ItemTyped(more[i])
    BY <1>4, <1>5, <1>8, <2>1, <2>2
  <2>4. StackTyped(more)
    BY <1>3, <2>1, <2>3 DEF StackTyped
  <2>5. QED
    BY <2>4 DEF more
<1>9. QED
  BY <1>6, <1>7, <1>8 DEF less

LEMMA FlawsAre ==
    ASSUME NEW op, NEW b
    PROVE  Flaws(op, b) \subseteq Messages
<1>1. CASE ByZero(op, b)
  BY <1>1, Zenon DEF Flaws, Messages
<1>2. CASE ~ByZero(op, b)
  BY <1>2, Zenon DEF Flaws, Messages
<1>3. QED
  BY <1>1, <1>2

\* A step that says nothing and returns nothing.
LEMMA ResultStays ==
    ASSUME Typed, UNCHANGED <<source, result>>, errors' \subseteq Messages
    PROVE  ResultTyped'
  BY DEF Typed, ResultTyped, result

LEMMA FailTyped ==
    ASSUME WaitInv, Typed, NEW error \in SUBSET Messages, Fail(error), UNCHANGED source
    PROVE  ResultTyped' /\ pc' \in States
<1>1. pc' = "done" /\ end' = 0 /\ instruction_value' = 0 /\ errors' = errors \cup error
  BY Zenon DEF Fail
<1>2. errors' \subseteq Messages
  BY <1>1 DEF Typed, ResultTyped
<1>3. end' \in 0..Len(source') + 1
  BY <1>1, TextIs DEF WaitInv
<1>4. pc' \in States
  BY <1>1 DEF States
<1>5. QED
  BY <1>1, <1>2, <1>3, <1>4, ZeroIsValue DEF ResultTyped

LEMMA ParensTyped ==
    ASSUME WaitInv, Typed, MatchParens
    PROVE  Typed'
<1> DEFINE open == Min({Behind({"("}) - p, MaxOpen})
<1>1. /\ At({"("}) /\ Push(Item("(", open, 0), 0)
      /\ UNCHANGED <<source, assembler_pass, column, value1, has_undefined, used>>
  BY Zenon DEF MatchParens
<1>2. open \in 1..MaxOpen
  <2>1. PICK d \in Nat \ {0} : d = Behind({"("}) - p
    <3>1. Behind({"("}) \in p..Len(source) + 1 /\ Behind({"("}) > p
      BY <1>1, BehindIs DEF WaitInv
    <3>2. Behind({"("}) - p \in Nat \ {0}
      BY <3>1, TextIs DEF WaitInv
    <3>3. QED
      BY <3>2
  <2>2. PICK m \in Nat \ {0} : m = MaxOpen
    BY SizesAssumption
  <2>3. Min({d, m}) \in {d, m} /\ Min({d, m}) <= m
    <3>1. {d, m} \subseteq Nat /\ {d, m} # {} /\ m \in {d, m}
      OBVIOUS
    <3>2. QED
      BY <3>1, MinIs
  <2>4. Min({d, m}) \in 1..m
    BY <2>3
  <2>5. QED
    BY <2>1, <2>2, <2>4
<1> HIDE DEF open
<1>3. ItemTyped(Item("(", open, 0))
  <2>1. "(" \in ItemKinds
    BY Zenon DEF ItemKinds
  <2>2. level \in 0..6
    BY DEF WaitInv, TextOK
  <2>3. QED
    BY <1>2, <2>1, <2>2, ItemIs, ZeroIsValue
<1>4. StackTyped(match_stack)' /\ pc' \in States /\ ResultTyped'
  BY <1>1, <1>3, PushTyped
<1>5. QED
  BY <1>1, <1>4 DEF Typed

LEMMA SignsTyped ==
    ASSUME WaitInv, Typed, MatchSigns
    PROVE  Typed'
<1> DEFINE c == IF Signs.minus THEN "-sign" ELSE "+sign"
<1>1. /\ Push(Item(c, 0, Wrap(Signs.delta)), 6)
      /\ UNCHANGED <<source, assembler_pass, column, value1, has_undefined, used>>
  BY Zenon DEF MatchSigns
<1>2. c \in ItemKinds /\ c # "("
  BY Zenon DEF ItemKinds
<1>3. Wrap(Signs.delta) \in Values
  <2>1. Signs.delta \in Int
    BY SignsAre DEF WaitInv, SignStates
  <2>2. QED
    BY <2>1, WrapIs
<1>4. level \in 0..6
  BY DEF WaitInv, TextOK
<1> HIDE DEF c
<1>5. ItemTyped(Item(c, 0, Wrap(Signs.delta)))
  BY <1>2, <1>3, <1>4, ItemIs
<1>6. StackTyped(match_stack)' /\ pc' \in States /\ ResultTyped'
  BY <1>1, <1>5, PushTyped
<1>7. QED
  BY <1>1, <1>6 DEF Typed

LEMMA OperatorTyped ==
    ASSUME WaitInv, Typed, MatchOperator
    PROVE  Typed'
<1> DEFINE c == source[p].op
<1>1. /\ TakesOperator /\ Push(Item(c, 0, value1), RightLevel(c))
      /\ UNCHANGED <<source, assembler_pass, column, value1, has_undefined, used>>
  BY Zenon DEF MatchOperator
<1>2. c \in Binary
  BY <1>1, Zenon DEF TakesOperator, At
<1> HIDE DEF c
<1>3. c \in ItemKinds /\ c # "("
  BY <1>2, KindsDiffer, Zenon DEF ItemKinds, IsParen
<1>4. level \in 0..6 /\ value1 \in Values
  BY DEF WaitInv, TextOK, Typed
<1>5. ItemTyped(Item(c, 0, value1))
  BY <1>3, <1>4, ItemIs
<1>6. StackTyped(match_stack)' /\ pc' \in States /\ ResultTyped'
  BY <1>1, <1>5, PushTyped
<1>7. QED
  BY <1>1, <1>6 DEF Typed

\* An operand: there is a value.
LEMMA ValueTyped ==
    ASSUME Typed, NEW v \in Values, HaveValue(v), unchangedByOperand' = unchangedByOperand,
           errors' \subseteq Messages, column' \in Nat, has_undefined' \in BOOLEAN,
           used' \subseteq Flags
    PROVE  Typed'
<1>1. UNCHANGED <<source, assembler_pass, match_stack, result>>
  BY DEF unchangedByOperand
<1>2. value1' = v /\ pc' = "operator"
  BY DEF HaveValue
<1>3. pc' \in States
  BY <1>2 DEF States
<1>4. ResultTyped'
  BY <1>1, ResultStays
<1>5. QED
  BY <1>1, <1>2, <1>3, <1>4 DEF Typed

LEMMA OperandTyped ==
    ASSUME WaitInv, Typed, Operand
    PROVE  Typed'
<1>0. /\ errors \subseteq Messages /\ column \in Nat /\ has_undefined \in BOOLEAN
      /\ used \subseteq Flags
  BY DEF Typed, ResultTyped
<1>1. \A ops : At(ops) => p \in DOMAIN source /\ source[p].op \in ops
  BY TextIs DEF WaitInv, TextOK, At
<1>2. CASE MatchLiteral
  <2> DEFINE text == source[p].text
             literal == Literal(text)
             whole == literal.next > Len(text)
  <2>1. /\ At({"literal"}) /\ HaveValue(literal.value)
        /\ column' = IF whole THEN 0 ELSE literal.next - 1
        /\ errors' = IF literal.bad THEN errors \cup {"bad label"} ELSE errors
        /\ UNCHANGED <<has_undefined, used, unchangedByOperand>>
    BY <1>2, Zenon DEF MatchLiteral
  <2>2. text \in Seq(Range(text))
    <3>1. source \in Sources /\ p \in DOMAIN source /\ source[p].op = "literal"
      <4>1. At({"literal"})
        BY <2>1
      <4>2. p \in DOMAIN source /\ source[p].op \in {"literal"}
        BY <1>1, <4>1, Zenon
      <4>3. QED
        BY <4>2 DEF WaitInv, TextOK
    <3>2. QED
      BY <3>1, SourcesAssumption, Zenon
  <2> HIDE DEF text
  <2>3. literal.value \in Values /\ literal.next \in Nat \ {0}
    BY <2>2, LiteralIs DEF IsLiteral
  <2> HIDE DEF literal
  <2>4. column' \in Nat
    <3>1. PICK n \in Nat \ {0} : n = literal.next
      BY <2>3
    <3>2. column' = 0 \/ column' = n - 1
      BY <2>1, <3>1, Zenon
    <3>3. n - 1 \in Nat
      OBVIOUS
    <3>4. QED
      BY <3>2, <3>3
  <2>5. errors' \subseteq Messages
    BY <1>0, <2>1, Zenon DEF Messages
  <2>6. QED
    BY <1>0, <2>1, <2>3, <2>4, <2>5, ValueTyped
<1>3. CASE MatchCharacters
  <2> DEFINE bytes == source[p].bytes
  <2>1. /\ At({"characters"}) /\ HaveValue(CharacterConstant(bytes))
        /\ UNCHANGED <<column, has_undefined, used, errors, unchangedByOperand>>
    BY <1>3, Zenon DEF MatchCharacters
  <2>2. bytes \in Seq(0..2^ByteBits - 1)
    BY <1>1, <2>1, SourcesAssumption DEF WaitInv, TextOK
  <2> HIDE DEF bytes
  <2>3. CharacterConstant(bytes) \in Values
    BY <2>2, CharacterConstantIs
  <2>4. QED
    BY <1>0, <2>1, <2>3, ValueTyped
<1>4. CASE MatchAddress
  <2> DEFINE v == IF source[p].op = "$" THEN Address ELSE StartAddress
  <2>1. /\ HaveValue(v) /\ used' = {"is_address_used", "is_start_used"}
        /\ UNCHANGED <<column, has_undefined, errors, unchangedByOperand>>
    BY <1>4, Zenon DEF MatchAddress
  <2>2. v \in Values
    BY ValuesAssumption, Zenon
  <2>3. used' \subseteq Flags
    BY <2>1 DEF Flags
  <2> HIDE DEF v
  <2>4. QED
    BY <1>0, <2>1, <2>2, <2>3, ValueTyped
<1>5. CASE MatchLabel
  <2> DEFINE defined == source[p].name \in DOMAIN Labels
             v == IF defined THEN Labels[source[p].name] ELSE 0
  <2>1. /\ HaveValue(v) /\ has_undefined' = (has_undefined \/ ~defined)
        /\ errors' = IF defined \/ assembler_pass <= 1 THEN errors
                     ELSE errors \cup {"Undefined label"}
        /\ used' = used \cup {"is_start_used"}
        /\ UNCHANGED <<column, unchangedByOperand>>
    BY <1>5, Zenon DEF MatchLabel
  <2>2. v \in Values
    BY ValuesAssumption, ZeroIsValue, Zenon
  <2>3. used' \subseteq Flags
    BY <1>0, <2>1, Zenon DEF Flags
  <2>4. errors' \subseteq Messages
    BY <1>0, <2>1, Zenon DEF Messages
  <2>5. has_undefined' \in BOOLEAN
    BY <2>1, Zenon
  <2> HIDE DEF v
  <2>6. QED
    BY <1>0, <2>1, <2>2, <2>3, <2>4, <2>5, ValueTyped
<1>6. CASE MatchNothing
  <2> DEFINE error == IF At({"open quote"}) THEN {"Missing close quote"} ELSE {}
  <2>1. /\ Fail(error)
        /\ UNCHANGED <<source, assembler_pass, column, match_stack, value1, has_undefined, used>>
    BY <1>6, Zenon DEF MatchNothing, position
  <2>2. error \in SUBSET Messages
    BY Zenon DEF Messages
  <2> HIDE DEF error
  <2>3. ResultTyped' /\ pc' \in States
    BY <2>1, <2>2, FailTyped
  <2>4. QED
    BY <2>1, <2>3 DEF Typed
<1>7. QED
  BY <1>2, <1>3, <1>4, <1>5, <1>6 DEF Operand

LEMMA PopTyped ==
    ASSUME WaitInv, Typed, Pop
    PROVE  Typed'
<1>1. pc = "pop" /\ match_stack # <<>>
  BY Zenon DEF Pop, MissingParen, CloseParen, ApplySign, ApplyOperator, DivisionTraps,
               WaitInv, SomethingWaits
<1>2. /\ StackTyped(Front(match_stack)) /\ ItemTyped(top)
      /\ \A item : ItemTyped(item) => StackTyped(Append(Front(match_stack), item))
  BY <1>1, TopTyped
<1>3. errors \subseteq Messages /\ value1 \in Values /\ top.value1 \in Values
  BY <1>2 DEF Typed, ResultTyped, ItemTyped
<1>4. CASE MissingParen
  <2>1. /\ Fail({"Missing close paren"}) /\ match_stack' = Front(match_stack)
        /\ UNCHANGED <<value1, unchangedByPop>>
    BY <1>4, Zenon DEF MissingParen
  <2>2. {"Missing close paren"} \in SUBSET Messages
    BY Zenon DEF Messages
  <2>3. UNCHANGED <<source, assembler_pass, column, has_undefined, used>>
    BY <2>1 DEF unchangedByPop
  <2>4. ResultTyped' /\ pc' \in States
    BY <2>1, <2>2, <2>3, FailTyped
  <2>5. QED
    BY <1>2, <2>1, <2>3, <2>4 DEF Typed
<1>5. CASE CloseParen
  <2> DEFINE less == [top EXCEPT !.open = @ - 1]
  <2>1. /\ top.casei = "("
        /\ match_stack' = IF top.open = 1 THEN Front(match_stack)
                          ELSE Append(Front(match_stack), less)
        /\ HaveValue(value1) /\ UNCHANGED <<errors, result, unchangedByPop>>
    BY <1>5, Zenon DEF CloseParen
  <2>2. value1' = value1 /\ pc' = "operator"
    BY <2>1 DEF HaveValue
  <2>3. UNCHANGED <<source, assembler_pass, column, has_undefined, used>>
    BY <2>1 DEF unchangedByPop
  <2>4. top.open # 1 => ItemTyped(less)
    <3>1. SUFFICES ASSUME top.open # 1 PROVE ItemTyped(less)
      OBVIOUS
    <3>2. top.open \in 1..MaxOpen /\ MaxOpen \in Nat
      BY <1>2, <2>1, SizesAssumption DEF ItemTyped
    <3>3. PICK V : match_stack \in Seq(Items(V))
      BY DEF WaitInv, StackOK
    <3>4. top \in Items(V)
      BY <1>1, <3>3, PopKeeps DEF WaitInv, StackOK, top
    <3>5. PICK n \in 1..MaxOpen : n = top.open - 1
      <4>1. top.open - 1 \in 1..MaxOpen
        BY <3>1, <3>2
      <4>2. QED
        BY <4>1
    <3>6. /\ less.casei = top.casei /\ less.open = n /\ less.level = top.level
          /\ less.value1 = top.value1
      BY <3>4, <3>5 DEF Items
    <3> HIDE DEF less
    <3>7. QED
      BY <1>2, <2>1, <3>6 DEF ItemTyped
  <2> HIDE DEF less
  <2>5. StackTyped(match_stack')
    BY <1>2, <2>1, <2>4
  <2>6. pc' \in States
    BY <2>2 DEF States
  <2>7. ResultTyped'
    BY <1>3, <2>1, <2>3, ResultStays
  <2>8. QED
    BY <1>3, <2>2, <2>3, <2>5, <2>6, <2>7 DEF Typed
<1>6. CASE ApplySign
  <2> DEFINE v == IF top.casei = "-sign" THEN top.value1 - value1 ELSE top.value1 + value1
  <2>1. /\ match_stack' = Front(match_stack) /\ HaveValue(Wrap(v))
        /\ UNCHANGED <<errors, result, unchangedByPop>>
    BY <1>6, Zenon DEF ApplySign
  <2>2. v \in Int
    <3>1. top.value1 \in Nat /\ value1 \in Nat
      BY <1>3, WrapKeeps
    <3>2. QED
      BY <3>1
  <2> HIDE DEF v
  <2>3. Wrap(v) \in Values
    BY <2>2, WrapIs
  <2>4. value1' = Wrap(v) /\ pc' = "operator"
    BY <2>1 DEF HaveValue
  <2>5. UNCHANGED <<source, assembler_pass, column, has_undefined, used>>
    BY <2>1 DEF unchangedByPop
  <2>6. pc' \in States
    BY <2>4 DEF States
  <2>7. ResultTyped'
    BY <1>3, <2>1, <2>5, ResultStays
  <2>8. QED
    BY <1>2, <2>1, <2>3, <2>4, <2>5, <2>6, <2>7 DEF Typed
<1>7. CASE ApplyOperator
  <2>1. /\ top.casei \in Binary /\ match_stack' = Front(match_stack)
        /\ value1' = Apply(top.casei, top.value1, value1)
        /\ errors' = IF assembler_pass > 1 THEN errors \cup Flaws(top.casei, value1) ELSE errors
        /\ pc' = "operator" /\ UNCHANGED <<result, unchangedByPop>>
    BY <1>7, Zenon DEF ApplyOperator
  <2>2. value1' \in Values
    BY <1>3, <2>1, ApplyIs
  <2>3. errors' \subseteq Messages
    BY <1>3, <2>1, FlawsAre, Zenon
  <2>4. UNCHANGED <<source, assembler_pass, column, has_undefined, used>>
    BY <2>1 DEF unchangedByPop
  <2>5. pc' \in States
    BY <2>1 DEF States
  <2>6. ResultTyped'
    BY <2>1, <2>3, <2>4, ResultStays
  <2>7. QED
    BY <1>2, <2>1, <2>2, <2>4, <2>5, <2>6 DEF Typed
<1>8. CASE DivisionTraps
  <2>1. pc' = "trapped" /\ UNCHANGED <<match_stack, value1, errors, result, unchangedByPop>>
    BY <1>8, Zenon DEF DivisionTraps
  <2>2. UNCHANGED <<source, assembler_pass, column, has_undefined, used>>
    BY <2>1 DEF unchangedByPop
  <2>3. pc' \in States
    BY <2>1 DEF States
  <2>4. ResultTyped'
    BY <1>3, <2>1, <2>2, ResultStays
  <2>5. QED
    BY <2>1, <2>2, <2>3, <2>4 DEF Typed
<1>9. QED
  BY <1>4, <1>5, <1>6, <1>7, <1>8 DEF Pop

LEMMA StepTyped ==
    ASSUME WaitInv, Typed, [Next]_vars
    PROVE  Typed'
<1>1. CASE EndOperand
  <2>1. /\ \/ pc' = "done" /\ end' = p /\ instruction_value' = IF has_undefined THEN 0 ELSE value1
           \/ pc' = "pop" /\ UNCHANGED result
        /\ UNCHANGED <<source, assembler_pass, column, match_stack, value1, has_undefined, used, errors>>
    BY <1>1, Zenon DEF EndOperand, position
  <2>2. p \in 0..Len(source) + 1
    BY TextIs DEF WaitInv
  <2>3. pc' \in States
    BY <2>1 DEF States
  <2>4. ResultTyped'
    BY <2>1, <2>2, ZeroIsValue DEF Typed, ResultTyped, result
  <2>5. QED
    BY <2>1, <2>3, <2>4 DEF Typed
<1>2. CASE UNCHANGED vars
  BY <1>2 DEF vars, result, position, Typed, ResultTyped
<1>3. CASE Done
  BY <1>2, <1>3 DEF Done
<1>4. QED
  BY <1>1, <1>2, <1>3, ParensTyped, SignsTyped, OperandTyped, OperatorTyped, PopTyped, Zenon DEF Next

LEMMA InitTyped == Init => Typed
<1> SUFFICES ASSUME Init PROVE Typed
  OBVIOUS
<1>1. /\ source \in Sources /\ assembler_pass \in {0, 2} /\ column = 0 /\ match_stack = <<>>
      /\ value1 = 0 /\ has_undefined = FALSE /\ used = {} /\ errors = {} /\ pc = "match"
      /\ end = 0 /\ instruction_value = 0
  BY Zenon DEF Init
<1>2. pc \in States
  BY <1>1 DEF States
<1>3. StackTyped(match_stack)
  BY <1>1, SizesAssumption DEF StackTyped
<1>4. ResultTyped
  BY <1>1, ZeroIsValue, SourcesAssumption DEF ResultTyped
<1>5. QED
  BY <1>1, <1>2, <1>3, <1>4, ZeroIsValue DEF Typed

\* Every value match_expression() has in hand fits into its width, whatever operators
\* and literals it is made of, and the stack is never full: its last place stays free.
THEOREM ExpressionTyped == Spec => []TypeOK
<1>1. Init => WaitInv /\ FlatInv /\ Typed
  BY InitOK, InitTyped
<1>2. WaitInv /\ FlatInv /\ Typed /\ [Next]_vars => (WaitInv /\ FlatInv /\ Typed)'
  BY StepKeeps, StepTyped
<1>3. QED
  BY <1>1, <1>2, TypedIs, PTL DEF Spec

-----------------------------------------------------------------------------
(* The grammar.  Expressions(text) is chosen among the functions that        *)
(* satisfy its equation; there is one, built for more and more tokens.       *)

ReadingsOf(f, text, n) ==
    [a \in 1..Len(text) + 1 - n |-> [k \in 0..6 |-> ReadingsFrom(f, text, n, a, k)]]

IsExpressions(f, text) == f = [n \in 0..Len(text) |-> ReadingsOf(f, text, n)]

LEMMA SameReadings ==
    ASSUME NEW f, NEW g, NEW text, NEW n \in Nat, \A i \in 0..n - 1 : f[i] = g[i]
    PROVE  ReadingsOf(f, text, n) = ReadingsOf(g, text, n)
<1>1. SUFFICES ASSUME NEW a \in 1..Len(text) + 1 - n, NEW k \in 0..6
               PROVE  ReadingsFrom(f, text, n, a, k) = ReadingsFrom(g, text, n, a, k)
  BY DEF ReadingsOf
<1>2. n > 1 => f[n - 1] = g[n - 1] /\ f[n - 2] = g[n - 2]
  OBVIOUS
<1> DEFINE M == {i \in a + 1..a + n - 2 : /\ text[i].op \in Binary /\ Rank[text[i].op] >= k}
<1>3. ASSUME NEW m \in M
      PROVE  Joined(f, text, n, a, m) = Joined(g, text, n, a, m)
  <2>1. f[m - a] = g[m - a] /\ f[a + n - 1 - m] = g[a + n - 1 - m]
    <3>1. m \in a + 1..a + n - 2
      OBVIOUS
    <3>2. m - a \in 0..n - 1 /\ a + n - 1 - m \in 0..n - 1
      BY <3>1
    <3>3. QED
      BY <3>2
  <2>2. QED
    BY <2>1 DEF Joined
<1>4. UNION {Joined(f, text, n, a, m) : m \in M} = UNION {Joined(g, text, n, a, m) : m \in M}
  BY <1>3
<1>5. QED
  BY <1>2, <1>4, Zenon DEF ReadingsFrom

ReadsUpTo(f, text, n) ==
    f = [i \in 0..Len(text) |-> f[i]] /\ \A i \in 0..n - 1 : f[i] = ReadingsOf(f, text, i)

LEMMA ExpressionsAre ==
    ASSUME NEW text, Len(text) \in Nat
    PROVE  IsExpressions(Expressions(text), text)
<1> DEFINE N == Len(text)
           T == {n \in 0..N + 1 : \E f : ReadsUpTo(f, text, n)}
<1>1. 0 \in T
  <2> DEFINE f == [i \in 0..N |-> 0]
  <2>1. ReadsUpTo(f, text, 0)
    BY DEF ReadsUpTo
  <2> HIDE DEF f
  <2>2. QED
    BY <2>1
<1>2. ASSUME NEW n \in 0..N, n \in T PROVE n + 1 \in T
  <2>1. PICK f : ReadsUpTo(f, text, n)
    BY <1>2
  <2> DEFINE h == [i \in 0..N |-> ReadingsOf(f, text, i)]
  <2>2. ASSUME NEW i \in 0..n PROVE h[i] = ReadingsOf(h, text, i)
    <3>1. \A j \in 0..i - 1 : f[j] = h[j]
      BY <2>1 DEF ReadsUpTo
    <3>2. i \in Nat
      OBVIOUS
    <3> HIDE DEF h
    <3>3. ReadingsOf(f, text, i) = ReadingsOf(h, text, i)
      BY <3>1, <3>2, SameReadings
    <3>4. QED
      BY <3>3 DEF h
  <2>3. ReadsUpTo(h, text, n + 1)
    BY <2>2 DEF ReadsUpTo
  <2> HIDE DEF h
  <2>4. QED
    BY <2>3
<1> HIDE DEF T
<1>3. N + 1 \in T
  <2>1. 0..N + 1 \subseteq T
    BY <1>1, <1>2, Numbers!UpTo
  <2>2. QED
    BY <2>1
<1>4. PICK f : ReadsUpTo(f, text, N + 1)
  BY <1>3 DEF T
<1>5. IsExpressions(f, text)
  <2>1. \A i \in 0..N : f[i] = ReadingsOf(f, text, i)
    BY <1>4 DEF ReadsUpTo
  <2>2. QED
    BY <1>4, <2>1 DEF IsExpressions, ReadsUpTo
<1>6. Expressions(text) = CHOOSE g : IsExpressions(g, text)
  BY Zenon DEF Expressions, IsExpressions, ReadingsOf
<1>7. QED
  BY <1>5, <1>6, Zenon

\* The readings of the tokens from a to b as an expression of level k.
Rd(text, k, a, b) == Expressions(text)[b + 1 - a][a][k]

Levels == 0..6

\* How r comes from the tokens from a to b.
Parses(text, k, a, b, r) ==
    \/ a = b /\ r \in OperandReading(text[a])
    \/ /\ a < b /\ text[a].op \in Unary
       /\ \E x \in Rd(text, 6, a + 1, b) : r = SignReading(text[a].op, x)
    \/ a < b /\ text[a].op = "(" /\ text[b].op = ")" /\ r \in Rd(text, 0, a + 1, b - 1)
    \/ \E m \in a + 1..b - 1 :
          /\ text[m].op \in Binary /\ Rank[text[m].op] >= k
          /\ \E x \in Rd(text, Rank[text[m].op], a, m - 1),
                y \in Rd(text, Rank[text[m].op] + 1, m + 1, b) :
                r = OperatorReading(text[m].op, x, y)

\* An operator at m joins what is before it and what is behind it.
IsJoined(text, a, m, b, r) ==
    \E x \in Rd(text, Rank[text[m].op], a, m - 1),
       y \in Rd(text, Rank[text[m].op] + 1, m + 1, b) :
       r = OperatorReading(text[m].op, x, y)

LEMMA JoinedReads ==
    ASSUME NEW text, NEW n \in Int, NEW a \in Int, NEW m \in Int, NEW b \in Int, n = b + 1 - a,
           NEW f, f = Expressions(text), NEW r
    PROVE  r \in Joined(f, text, n, a, m) <=> IsJoined(text, a, m, b, r)
<1>1. m - a = m - 1 + 1 - a /\ a + n - 1 - m = b + 1 - (m + 1)
  OBVIOUS
<1>2. PICK A, B : /\ A = f[m - a][a][Rank[text[m].op]]
                  /\ B = f[a + n - 1 - m][m + 1][Rank[text[m].op] + 1]
  OBVIOUS
<1>3. /\ A = Rd(text, Rank[text[m].op], a, m - 1)
      /\ B = Rd(text, Rank[text[m].op] + 1, m + 1, b)
  BY <1>1, <1>2 DEF Rd
<1>4. Joined(f, text, n, a, m) = {OperatorReading(text[m].op, x, y) : x \in A, y \in B}
  BY <1>2 DEF Joined
<1>5. r \in Joined(f, text, n, a, m) <=> \E x \in A, y \in B : r = OperatorReading(text[m].op, x, y)
  BY <1>4
<1>6. QED
  BY <1>3, <1>5, Zenon DEF IsJoined

LEMMA ReadingMeans ==
    ASSUME NEW text, Len(text) \in Nat, NEW k \in Levels, NEW a \in Nat \ {0},
           NEW b \in Int, b <= Len(text), a <= b + 1, NEW r
    PROVE  r \in Rd(text, k, a, b) <=> Parses(text, k, a, b, r)
<1>a. PICK n \in Int : n = b + 1 - a
  OBVIOUS
<1>b. PICK f : f = Expressions(text)
  OBVIOUS
<1>0. n = b + 1 - a /\ f = Expressions(text)
  BY <1>a, <1>b
<1> DEFINE M == {i \in a + 1..a + n - 2 : /\ text[i].op \in Binary /\ Rank[text[i].op] >= k}
<1>1. n \in 0..Len(text) /\ a \in 1..Len(text) + 1 - n
  BY <1>0
<1>2. /\ n = 1 <=> a = b
      /\ n > 1 <=> a < b
      /\ a + n - 1 = b /\ a + n - 2 = b - 1
      /\ n - 1 = b + 1 - (a + 1) /\ n - 2 = b - 1 + 1 - (a + 1)
  BY <1>0
<1>3. f[n] = ReadingsOf(f, text, n)
  BY <1>0, <1>1, ExpressionsAre DEF IsExpressions
<1>4. f[n][a][k] = ReadingsFrom(f, text, n, a, k)
  BY <1>1, <1>3 DEF ReadingsOf, Levels
<1> HIDE DEF M
<1>5. ASSUME NEW m \in Int
      PROVE  r \in Joined(f, text, n, a, m) <=> IsJoined(text, a, m, b, r)
  <2>1. a \in Int
    OBVIOUS
  <2>2. QED
    BY <1>0, <2>1, JoinedReads, Zenon
<1>6. Rd(text, 6, a + 1, b) = f[n - 1][a + 1][6] /\ Rd(text, 0, a + 1, b - 1) = f[n - 2][a + 1][0]
  BY <1>0, <1>2 DEF Rd
<1>7. r \in UNION {Joined(f, text, n, a, m) : m \in M} <=>
        \E m \in a + 1..b - 1 :
                   /\ text[m].op \in Binary /\ Rank[text[m].op] >= k
                   /\ IsJoined(text, a, m, b, r)
  <2>1. \A m : m \in M <=> (m \in a + 1..b - 1 /\ text[m].op \in Binary /\ Rank[text[m].op] >= k)
    BY <1>2 DEF M
  <2>2. r \in UNION {Joined(f, text, n, a, m) : m \in M} <=> \E m \in M : r \in Joined(f, text, n, a, m)
    OBVIOUS
  <2>3. \A m \in a + 1..b - 1 : m \in Int
    OBVIOUS
  <2>4. QED
    BY <1>5, <2>1, <2>2, <2>3, Zenon
<1>8. Rd(text, k, a, b) =
        (IF n = 1 THEN OperandReading(text[a]) ELSE {})
        \cup (IF n > 1 /\ text[a].op \in Unary
              THEN {SignReading(text[a].op, x) : x \in f[n - 1][a + 1][6]} ELSE {})
        \cup (IF n > 1 /\ text[a].op = "(" /\ text[a + n - 1].op = ")"
              THEN f[n - 2][a + 1][0] ELSE {})
        \cup UNION {Joined(f, text, n, a, m) : m \in M}
  BY <1>0, <1>4, Zenon DEF Rd, ReadingsFrom, M
<1>9. r \in Rd(text, k, a, b) <=>
        \/ n = 1 /\ r \in OperandReading(text[a])
        \/ /\ n > 1 /\ text[a].op \in Unary
           /\ \E x \in f[n - 1][a + 1][6] : r = SignReading(text[a].op, x)
        \/ n > 1 /\ text[a].op = "(" /\ text[a + n - 1].op = ")" /\ r \in f[n - 2][a + 1][0]
        \/ r \in UNION {Joined(f, text, n, a, m) : m \in M}
  <2> DEFINE A == IF n = 1 THEN OperandReading(text[a]) ELSE {}
             B == IF n > 1 /\ text[a].op \in Unary
                  THEN {SignReading(text[a].op, x) : x \in f[n - 1][a + 1][6]} ELSE {}
             C == IF n > 1 /\ text[a].op = "(" /\ text[a + n - 1].op = ")"
                  THEN f[n - 2][a + 1][0] ELSE {}
             D == UNION {Joined(f, text, n, a, m) : m \in M}
  <2>1. r \in A <=> n = 1 /\ r \in OperandReading(text[a])
    BY Zenon
  <2>2. r \in B <=> /\ n > 1 /\ text[a].op \in Unary
                   /\ \E x \in f[n - 1][a + 1][6] : r = SignReading(text[a].op, x)
    BY Zenon
  <2>3. r \in C <=> /\ n > 1 /\ text[a].op = "(" /\ text[a + n - 1].op = ")"
                   /\ r \in f[n - 2][a + 1][0]
    BY Zenon
  <2>4. Rd(text, k, a, b) = A \cup B \cup C \cup D
    BY <1>8, Zenon
  <2> HIDE DEF A, B, C
  <2>5. r \in Rd(text, k, a, b) <=> r \in A \/ r \in B \/ r \in C \/ r \in D
    BY <2>4, Zenon
  <2>6. QED
    BY <2>1, <2>2, <2>3, <2>5, Zenon
<1>10. QED
  BY <1>2, <1>6, <1>7, <1>9, Zenon DEF Parses, IsJoined

LEMMA LevelsAre == 0 \in Levels /\ 6 \in Levels /\ \A op \in Binary : Rank[op] \in Levels /\ Rank[op] + 1 \in Levels
<1>1. \A op \in Binary : Rank[op] \in 0..5
  BY RankIs
<1>2. QED
  BY <1>1 DEF Levels

\* What may follow an operator of a higher rank may follow one of a lower rank.
LEMMA LowerLevel ==
    ASSUME NEW text, Len(text) \in Nat, NEW k \in Levels, NEW l \in Levels, l <= k,
           NEW a \in Nat \ {0}, NEW b \in Int, b <= Len(text), a <= b + 1
    PROVE  Rd(text, k, a, b) \subseteq Rd(text, l, a, b)
<1>1. SUFFICES ASSUME NEW r, r \in Rd(text, k, a, b) PROVE r \in Rd(text, l, a, b)
  OBVIOUS
<1>2. ASSUME NEW m \in a + 1..b - 1, text[m].op \in Binary, Rank[text[m].op] >= k
      PROVE  Rank[text[m].op] >= l
  <2>1. PICK x \in Levels : x = Rank[text[m].op]
    BY <1>2, LevelsAre
  <2>2. QED
    BY <1>2, <2>1 DEF Levels
<1>3. Parses(text, k, a, b, r)
  BY <1>1, ReadingMeans
<1>4. Parses(text, l, a, b, r)
  BY <1>2, <1>3, Zenon DEF Parses
<1>5. QED
  BY <1>4, ReadingMeans

-----------------------------------------------------------------------------
(* Where an expression may end does not depend on ranks: a run over the      *)
(* tokens, which knows whether an operand is next and how many parentheses   *)
(* are open, passes through each expression.                                 *)

Ready(d) == [ready |-> TRUE, depth |-> d]
Filled(d) == [ready |-> FALSE, depth |-> d]

OperandTokens == {"literal", "characters", "$", "$$", "label"}

\* IsOperator(), of any text.
OperatorAt(text, i) ==
    /\ i <= Len(text) /\ text[i].op \in Binary
    /\ ~ /\ Rank[text[i].op] = 4
         /\ i < Len(text) /\ text[i + 1].op = "register"

TokenStep(text, i, s, t) ==
    \/ s.ready /\ text[i].op \in OperandTokens /\ t = Filled(s.depth)
    \/ s.ready /\ text[i].op \in Unary /\ t = s
    \/ s.ready /\ text[i].op = "(" /\ t = Ready(s.depth + 1)
    \/ ~s.ready /\ OperatorAt(text, i) /\ t = Ready(s.depth)
    \/ ~s.ready /\ text[i].op = ")" /\ s.depth > 0 /\ t = Filled(s.depth - 1)

Can(text, i, s) == i <= Len(text) /\ \E t : TokenStep(text, i, s, t)

IsRun(f, text, n) ==
    f[1] = Ready(0) /\ \A i \in 1..n - 1 : i <= Len(text) /\ TokenStep(text, i, f[i], f[i + 1])

LEMMA StepIs ==
    ASSUME NEW text, NEW i, NEW d \in Nat, NEW t
    PROVE  /\ text[i].op \in OperandTokens => (TokenStep(text, i, Ready(d), t) <=> t = Filled(d))
           /\ text[i].op \in Unary => (TokenStep(text, i, Ready(d), t) <=> t = Ready(d))
           /\ text[i].op = "(" => (TokenStep(text, i, Ready(d), t) <=> t = Ready(d + 1))
           /\ OperatorAt(text, i) => (TokenStep(text, i, Filled(d), t) <=> t = Ready(d))
           /\ text[i].op = ")" /\ d > 0 => (TokenStep(text, i, Filled(d), t) <=> t = Filled(d - 1))
<1>1. /\ Ready(d).ready /\ Ready(d).depth = d /\ ~Filled(d).ready /\ Filled(d).depth = d
  BY DEF Ready, Filled
<1>2. /\ "(" \notin OperandTokens /\ "(" \notin Unary /\ ")" \notin Binary
      /\ \A op \in OperandTokens : op \notin Unary
  BY BinaryIs, Zenon DEF OperandTokens, Unary
<1>3. OperatorAt(text, i) => text[i].op # ")"
  BY <1>2, Zenon DEF OperatorAt
<1>4. QED
  BY <1>1, <1>2, <1>3, Zenon DEF TokenStep

LEMMA StepGoes ==
    ASSUME NEW text, NEW i, NEW d \in Nat, NEW s, NEW t, TokenStep(text, i, s, t)
    PROVE  /\ s = Ready(d) =>
                /\ text[i].op \in OperandTokens => t = Filled(d)
                /\ text[i].op \in Unary => t = Ready(d)
                /\ text[i].op = "(" => t = Ready(d + 1)
           /\ s = Filled(d) =>
                /\ OperatorAt(text, i) => t = Ready(d)
                /\ text[i].op = ")" /\ d > 0 => t = Filled(d - 1)
<1>1. /\ text[i].op \in OperandTokens => (TokenStep(text, i, Ready(d), t) <=> t = Filled(d))
      /\ text[i].op \in Unary => (TokenStep(text, i, Ready(d), t) <=> t = Ready(d))
      /\ text[i].op = "(" => (TokenStep(text, i, Ready(d), t) <=> t = Ready(d + 1))
      /\ OperatorAt(text, i) => (TokenStep(text, i, Filled(d), t) <=> t = Ready(d))
      /\ text[i].op = ")" /\ d > 0 => (TokenStep(text, i, Filled(d), t) <=> t = Filled(d - 1))
  BY StepIs
<1>2. s = Ready(d) => TokenStep(text, i, Ready(d), t)
  OBVIOUS
<1>3. s = Filled(d) => TokenStep(text, i, Filled(d), t)
  OBVIOUS
<1>4. s = Ready(d) =>
        /\ text[i].op \in OperandTokens => t = Filled(d)
        /\ text[i].op \in Unary => t = Ready(d)
        /\ text[i].op = "(" => t = Ready(d + 1)
  BY <1>1, <1>2
<1>5. s = Filled(d) =>
        /\ OperatorAt(text, i) => t = Ready(d)
        /\ text[i].op = ")" /\ d > 0 => t = Filled(d - 1)
  BY <1>1, <1>3
<1>6. QED
  BY <1>4, <1>5

\* The run covers the tokens from a to b, if they are an expression.
Covers(f, text, n, a, b, d) ==
    /\ text[a].op # "register"
    /\ a <= n /\ f[a] = Ready(d) =>
          /\ b < n => f[b + 1] = Filled(d)
          /\ n <= b => Can(text, n, f[n])

LEMMA RunCovers ==
    ASSUME NEW text, Len(text) \in Nat, NEW n \in Nat \ {0}, NEW f, IsRun(f, text, n),
           NEW k \in Levels, NEW a \in Nat \ {0}, NEW b \in Int, b <= Len(text), a <= b + 1,
           Rd(text, k, a, b) # {}, NEW d \in Nat
    PROVE  a <= b /\ Covers(f, text, n, a, b, d)
<1> DEFINE Shows(i) == \A l \in Levels : \A x \in Nat \ {0} : \A y \in Int : \A e \in Nat :
                          y <= Len(text) /\ x <= y + 1 /\ y + 1 - x = i /\ Rd(text, l, x, y) # {}
                          => x <= y /\ Covers(f, text, n, x, y, e)
           T == {j \in 0..Len(text) : \A i \in 0..j : Shows(i)}
<1>1. ASSUME NEW j \in 0..Len(text), \A i \in 0..j - 1 : Shows(i)
      PROVE  Shows(j)
  <2>1. SUFFICES ASSUME NEW l \in Levels, NEW x \in Nat \ {0}, NEW y \in Int, NEW e \in Nat,
                        y <= Len(text), x <= y + 1, y + 1 - x = j, Rd(text, l, x, y) # {}
                 PROVE  x <= y /\ Covers(f, text, n, x, y, e)
    BY Zenon
  <2>2. ASSUME NEW l2 \in Levels, NEW x2 \in Nat \ {0}, NEW y2 \in Int, NEW e2 \in Nat,
               y2 <= y, x <= x2, x2 <= y2 + 1, y2 - x2 < y - x, Rd(text, l2, x2, y2) # {}
        PROVE  x2 <= y2 /\ Covers(f, text, n, x2, y2, e2)
    <3>1. y2 + 1 - x2 \in 0..j - 1 /\ y2 <= Len(text)
      BY <2>1, <2>2
    <3>2. Shows(y2 + 1 - x2)
      BY <1>1, <3>1
    <3>3. QED
      BY <2>2, <3>1, <3>2
  <2> HIDE DEF Shows
  <2>3. PICK r \in Rd(text, l, x, y) : TRUE
    BY <2>1
  <2>4. \A i \in 1..n - 1 : i <= Len(text) /\ TokenStep(text, i, f[i], f[i + 1])
    BY DEF IsRun
  <2>5. \/ x = y /\ r \in OperandReading(text[x])
        \/ /\ x < y /\ text[x].op \in Unary
           /\ \E z \in Rd(text, 6, x + 1, y) : r = SignReading(text[x].op, z)
        \/ x < y /\ text[x].op = "(" /\ text[y].op = ")" /\ r \in Rd(text, 0, x + 1, y - 1)
        \/ \E m \in x + 1..y - 1 :
              /\ text[m].op \in Binary /\ Rank[text[m].op] >= l
              /\ \E z \in Rd(text, Rank[text[m].op], x, m - 1),
                    w \in Rd(text, Rank[text[m].op] + 1, m + 1, y) :
                    r = OperatorReading(text[m].op, z, w)
    <3>1. Parses(text, l, x, y, r)
      BY <2>1, <2>3, ReadingMeans
    <3>2. QED
      BY <3>1, Zenon DEF Parses
  <2>6. CASE x = y /\ r \in OperandReading(text[x])
    <3>1. text[x].op \in OperandTokens
      BY <2>6, Zenon DEF OperandReading, OperandTokens
    <3>2. text[x].op # "register"
      BY <3>1, Zenon DEF OperandTokens
    <3>3. ASSUME x <= n, f[x] = Ready(e)
          PROVE  (y < n => f[y + 1] = Filled(e)) /\ (n <= y => Can(text, n, f[n]))
      <4>1. CASE y < n
        <5>1. TokenStep(text, x, f[x], f[x + 1])
          BY <2>4, <2>6, <4>1
        <5>2. f[x + 1] = Filled(e)
          BY <3>1, <3>3, <5>1, StepGoes, Zenon
        <5>3. QED
          BY <2>6, <4>1, <5>2
      <4>2. CASE n <= y
        <5>1. n = x
          BY <2>6, <3>3, <4>2
        <5>2. TokenStep(text, x, Ready(e), Filled(e))
          BY <3>1, StepIs, Zenon
        <5>3. Can(text, n, f[n])
          BY <2>1, <2>6, <3>3, <5>1, <5>2 DEF Can
        <5>4. QED
          BY <4>2, <5>3
      <4>3. QED
        BY <4>1, <4>2
    <3>4. QED
      BY <2>6, <3>2, <3>3 DEF Covers
  <2>7. CASE /\ x < y /\ text[x].op \in Unary
             /\ \E z \in Rd(text, 6, x + 1, y) : r = SignReading(text[x].op, z)
    <3>1. Covers(f, text, n, x + 1, y, e)
      <4>1. Rd(text, 6, x + 1, y) # {}
        BY <2>7, Zenon
      <4>2. x + 1 \in Nat \ {0} /\ y <= y /\ x <= x + 1 /\ x + 1 <= y + 1 /\ y - (x + 1) < y - x
        BY <2>7
      <4>3. QED
        BY <2>2, <4>1, <4>2, LevelsAre, Zenon
    <3>2. text[x].op # "register"
      BY <2>7, Zenon DEF Unary
    <3>3. ASSUME x <= n, f[x] = Ready(e)
          PROVE  (y < n => f[y + 1] = Filled(e)) /\ (n <= y => Can(text, n, f[n]))
      <4>1. CASE x = n
        <5>1. TokenStep(text, x, Ready(e), Ready(e))
          BY <2>7, StepIs, Zenon
        <5>2. Can(text, n, f[n])
          BY <2>1, <2>7, <3>3, <4>1, <5>1 DEF Can
        <5>3. QED
          BY <2>7, <4>1, <5>2
      <4>2. CASE x < n
        <5>1. TokenStep(text, x, f[x], f[x + 1])
          BY <2>4, <4>2
        <5>2. f[x + 1] = Ready(e)
          <6>1. text[x].op \in Unary
            BY <2>7, Zenon
          <6>2. ASSUME NEW u, NEW t, u = Ready(e), TokenStep(text, x, u, t) PROVE t = Ready(e)
            BY <6>1, <6>2, StepGoes, Zenon
          <6>3. QED
            BY <3>3, <5>1, <6>2
        <5>3. QED
          BY <3>1, <4>2, <5>2 DEF Covers
      <4>3. QED
        BY <3>3, <4>1, <4>2
    <3>4. QED
      BY <2>7, <3>2, <3>3 DEF Covers
  <2>8. CASE x < y /\ text[x].op = "(" /\ text[y].op = ")" /\ r \in Rd(text, 0, x + 1, y - 1)
    <3>1. x + 1 <= y - 1 /\ Covers(f, text, n, x + 1, y - 1, e + 1)
      <4>1. Rd(text, 0, x + 1, y - 1) # {}
        BY <2>8, Zenon
      <4>2. /\ x + 1 \in Nat \ {0} /\ y - 1 \in Int /\ e + 1 \in Nat /\ y - 1 <= y /\ x <= x + 1
            /\ x + 1 <= (y - 1) + 1 /\ (y - 1) - (x + 1) < y - x
        <5>1. x < y
          BY <2>8
        <5>2. QED
          BY <5>1
      <4>3. QED
        BY <2>2, <4>1, <4>2, LevelsAre, Zenon
    <3>2. text[x].op # "register"
      BY <2>8, Zenon
    <3>3. ASSUME x <= n, f[x] = Ready(e)
          PROVE  (y < n => f[y + 1] = Filled(e)) /\ (n <= y => Can(text, n, f[n]))
      <4>1. CASE x = n
        <5>1. TokenStep(text, x, Ready(e), Ready(e + 1))
          BY <2>8, StepIs, Zenon
        <5>2. Can(text, n, f[n])
          BY <2>1, <2>8, <3>3, <4>1, <5>1 DEF Can
        <5>3. QED
          BY <2>8, <4>1, <5>2
      <4>2. CASE x < n
        <5>1. TokenStep(text, x, f[x], f[x + 1])
          BY <2>4, <4>2
        <5>2. f[x + 1] = Ready(e + 1)
          BY <2>8, <3>3, <5>1, StepGoes, Zenon
        <5>3. (y - 1 < n => f[y] = Filled(e + 1)) /\ (n <= y - 1 => Can(text, n, f[n]))
          BY <3>1, <4>2, <5>2 DEF Covers
        <5>4. e + 1 \in Nat /\ e + 1 > 0 /\ (e + 1) - 1 = e
          OBVIOUS
        <5>5. TokenStep(text, y, Filled(e + 1), Filled(e))
          BY <2>8, <5>4, StepIs, Zenon
        <5>6. CASE y < n
          <6>1. TokenStep(text, y, f[y], f[y + 1]) /\ f[y] = Filled(e + 1)
            BY <2>4, <2>8, <5>3, <5>6
          <6>2. f[y + 1] = Filled((e + 1) - 1)
            <7>1. text[y].op = ")"
              BY <2>8, Zenon
            <7>2. QED
              BY <5>4, <6>1, <7>1, StepGoes, Zenon
          <6>3. QED
            BY <5>4, <5>6, <6>2
        <5>7. CASE y = n
          <6>1. f[y] = Filled(e + 1)
            BY <5>3, <5>7
          <6>2. Can(text, n, f[n])
            BY <2>1, <5>5, <5>7, <6>1 DEF Can
          <6>3. QED
            BY <5>7, <6>2
        <5>8. CASE n < y
          BY <5>3, <5>8
        <5>9. QED
          BY <5>6, <5>7, <5>8
      <4>3. QED
        BY <3>3, <4>1, <4>2
    <3>4. QED
      BY <2>8, <3>2, <3>3 DEF Covers
  <2>9. CASE \E m \in x + 1..y - 1 :
              /\ text[m].op \in Binary /\ Rank[text[m].op] >= l
              /\ \E z \in Rd(text, Rank[text[m].op], x, m - 1),
                    w \in Rd(text, Rank[text[m].op] + 1, m + 1, y) :
                    r = OperatorReading(text[m].op, z, w)
    <3>1. PICK m \in x + 1..y - 1 :
              /\ text[m].op \in Binary
              /\ Rd(text, Rank[text[m].op], x, m - 1) # {}
              /\ Rd(text, Rank[text[m].op] + 1, m + 1, y) # {}
      BY <2>9, Zenon
    <3>2. Covers(f, text, n, x, m - 1, e)
      <4>1. PICK z \in Int : /\ z = m - 1 /\ z <= y /\ x <= x /\ x <= z + 1
                             /\ z - x < y - x
        OBVIOUS
      <4>2. PICK h \in Levels : h = Rank[text[m].op]
        BY <3>1, LevelsAre
      <4>3. Rd(text, h, x, z) # {}
        BY <3>1, <4>1, <4>2
      <4>4. Covers(f, text, n, x, z, e)
        BY <2>2, <4>1, <4>3
      <4>5. QED
        BY <4>1, <4>4
    <3>3. Covers(f, text, n, m + 1, y, e)
      <4>1. PICK z \in Nat \ {0} : /\ z = m + 1 /\ y <= y /\ x <= z
                                   /\ z <= y + 1 /\ y - z < y - x
        OBVIOUS
      <4>2. PICK h \in Levels : h = Rank[text[m].op] + 1
        BY <3>1, LevelsAre
      <4>3. Rd(text, h, z, y) # {}
        BY <3>1, <4>1, <4>2
      <4>4. Covers(f, text, n, z, y, e)
        BY <2>2, <4>1, <4>3
      <4>5. QED
        BY <4>1, <4>4
    <3>4. OperatorAt(text, m) /\ m \in Nat /\ x < m /\ m < y
      <4>1. m \in Nat /\ x < m /\ m < y /\ m <= Len(text)
        BY <2>1, <3>1
      <4>2. text[m + 1].op # "register"
        BY <3>3 DEF Covers
      <4>3. QED
        BY <3>1, <4>1, <4>2 DEF OperatorAt
    <3>5. ASSUME x <= n, f[x] = Ready(e)
          PROVE  (y < n => f[y + 1] = Filled(e)) /\ (n <= y => Can(text, n, f[n]))
      <4>1. (m - 1 < n => f[m] = Filled(e)) /\ (n <= m - 1 => Can(text, n, f[n]))
        BY <3>2, <3>4, <3>5 DEF Covers
      <4>2. CASE n < m
        BY <3>4, <4>1, <4>2
      <4>3. CASE n = m
        <5>1. TokenStep(text, m, Filled(e), Ready(e))
          BY <3>4, StepIs, Zenon
        <5>2. f[m] = Filled(e)
          BY <3>4, <4>1, <4>3
        <5>3. Can(text, n, f[n])
          BY <2>1, <3>4, <4>3, <5>1, <5>2 DEF Can
        <5>4. QED
          BY <3>4, <4>3, <5>3
      <4>4. CASE m < n
        <5>1. TokenStep(text, m, f[m], f[m + 1]) /\ f[m] = Filled(e)
          BY <2>4, <3>4, <4>1, <4>4
        <5>2. f[m + 1] = Ready(e)
          BY <3>4, <5>1, StepGoes, Zenon
        <5>3. QED
          BY <3>3, <3>4, <4>4, <5>2 DEF Covers
      <4>5. QED
        BY <3>4, <4>2, <4>3, <4>4
    <3>6. text[x].op # "register"
      BY <3>2 DEF Covers
    <3>7. QED
      BY <3>4, <3>5, <3>6 DEF Covers
  <2>10. QED
    BY <2>5, <2>6, <2>7, <2>8, <2>9
<1> HIDE DEF Shows
<1>2. 0 \in T
  BY <1>1
<1>3. ASSUME NEW j \in 0..Len(text) - 1, j \in T PROVE j + 1 \in T
  <2>1. \A i \in 0..j : Shows(i)
    BY <1>3
  <2>2. j + 1 \in 0..Len(text) /\ (j + 1) - 1 = j
    OBVIOUS
  <2>3. Shows(j + 1)
    BY <1>1, <2>1, <2>2
  <2>4. QED
    BY <2>1, <2>2, <2>3
<1> HIDE DEF T
<1>4. 0..Len(text) \subseteq T
  BY <1>2, <1>3, Numbers!UpTo
<1>5. Shows(b + 1 - a)
  <2>1. b + 1 - a \in 0..Len(text)
    OBVIOUS
  <2>2. QED
    BY <1>4, <2>1 DEF T
<1>6. QED
  BY <1>5 DEF Shows

LEMMA RunGrows ==
    ASSUME NEW text, Len(text) \in Nat, NEW n \in Nat \ {0}, NEW q \in Nat, n <= q,
           q <= Len(text) + 1, NEW f, IsRun(f, text, n), NEW h, h[n] = f[n],
           \A i \in n..q - 1 : TokenStep(text, i, h[i], h[i + 1])
    PROVE  \E g : IsRun(g, text, q) /\ g[q] = h[q]
<1> DEFINE g == [i \in 1..q |-> IF i < n THEN f[i] ELSE h[i]]
<1>1. \A i \in 1..q : (i <= n => g[i] = f[i]) /\ (i >= n => g[i] = h[i])
  OBVIOUS
<1>2. 1 \in 1..q /\ q \in 1..q /\ 1 <= n /\ q >= n
  OBVIOUS
<1>3. g[1] = Ready(0) /\ g[q] = h[q]
  BY <1>1, <1>2 DEF IsRun
<1> HIDE DEF g
<1>4. ASSUME NEW i \in 1..q - 1 PROVE i <= Len(text) /\ TokenStep(text, i, g[i], g[i + 1])
  <2>1. i \in 1..q /\ i + 1 \in 1..q /\ i <= Len(text)
    OBVIOUS
  <2>2. CASE i < n
    <3>1. i \in 1..n - 1 /\ i <= n /\ i + 1 <= n
      BY <2>2
    <3>2. g[i] = f[i] /\ g[i + 1] = f[i + 1]
      BY <1>1, <2>1, <3>1
    <3>3. QED
      BY <2>1, <3>1, <3>2 DEF IsRun
  <2>3. CASE i >= n
    <3>1. i \in n..q - 1 /\ i + 1 >= n
      BY <2>3
    <3>2. g[i] = h[i] /\ g[i + 1] = h[i + 1]
      BY <1>1, <2>1, <2>3, <3>1
    <3>3. QED
      BY <2>1, <3>1, <3>2
  <2>4. QED
    BY <2>2, <2>3
<1>5. QED
  BY <1>3, <1>4 DEF IsRun

\* How many parentheses are open in front of each item.
Depths(d, stack) ==
    /\ d[1] = 0
    /\ \A i \in 1..Len(stack) + 1 : d[i] \in Nat
    /\ \A i \in 1..Len(stack) : d[i + 1] = d[i] + stack[i].open

LEMMA DepthsPush ==
    ASSUME NEW S, NEW stack \in Seq(S), NEW item, item.open \in Nat, NEW d, Depths(d, stack)
    PROVE  \E e : /\ Depths(e, Append(stack, item))
                  /\ e[Len(stack) + 2] = d[Len(stack) + 1] + item.open
<1> DEFINE n == Len(stack)
           more == Append(stack, item)
           e == [i \in 1..n + 2 |-> IF i = n + 2 THEN d[n + 1] + item.open ELSE d[i]]
<1>1. n \in Nat /\ Len(more) = n + 1 /\ more[n + 1] = item /\ \A i \in 1..n : more[i] = stack[i]
  OBVIOUS
<1>2. /\ e[n + 2] = d[n + 1] + item.open
      /\ \A i \in 1..n + 1 : e[i] = d[i]
  BY <1>1
<1> HIDE DEF more, e, n
<1>3. d[1] = 0 /\ (\A i \in 1..n + 1 : d[i] \in Nat) /\ \A i \in 1..n : d[i + 1] = d[i] + stack[i].open
  BY DEF Depths, n
<1>4. ASSUME NEW i \in 1..n + 1 PROVE e[i + 1] = e[i] + more[i].open
  <2>1. CASE i = n + 1
    BY <1>1, <1>2, <2>1
  <2>2. CASE i # n + 1
    <3>1. i \in 1..n /\ i + 1 \in 1..n + 1
      BY <1>1, <2>2
    <3>2. QED
      BY <1>1, <1>2, <1>3, <3>1
  <2>3. QED
    BY <2>1, <2>2
<1>5. ASSUME NEW i \in 1..n + 2 PROVE e[i] \in Nat
  <2>1. CASE i = n + 2
    <3>1. n + 1 \in 1..n + 1
      BY <1>1
    <3>2. d[n + 1] \in Nat
      BY <1>3, <3>1
    <3>3. QED
      BY <1>2, <2>1, <3>2
  <2>2. CASE i # n + 2
    <3>1. i \in 1..n + 1
      BY <1>1, <2>2
    <3>2. QED
      BY <1>2, <1>3, <3>1
  <2>3. QED
    BY <2>1, <2>2
<1>6. e[1] = 0
  <2>1. 1 \in 1..n + 1
    BY <1>1
  <2>2. QED
    BY <1>2, <1>3, <2>1
<1>7. n + 1 + 1 = n + 2
  BY <1>1
<1>8. Depths(e, more)
  BY <1>1, <1>4, <1>5, <1>6, <1>7 DEF Depths
<1>9. QED
  BY <1>2, <1>8 DEF n, more

LEMMA DepthsPop ==
    ASSUME NEW S, NEW stack \in Seq(S), stack # <<>>, NEW d, Depths(d, stack)
    PROVE  /\ Depths(d, Front(stack)) /\ Len(Front(stack)) + 1 = Len(stack) /\ Len(stack) \in Nat
           /\ Front(stack) \in Seq(S)
           /\ d[Len(stack)] \in Nat /\ d[Len(stack) + 1] = d[Len(stack)] + Last(stack).open
<1>1. PICK n \in Nat \ {0} : n = Len(stack)
  OBVIOUS
<1> DEFINE less == Front(stack)
<1>2. less \in Seq(S) /\ Len(less) = n - 1 /\ \A i \in 1..n - 1 : less[i] = stack[i]
  BY <1>1, FrontIs
<1>3. Last(stack) = stack[n]
  BY <1>1 DEF Last
<1> HIDE DEF less
<1>4. d[1] = 0 /\ (\A i \in 1..n + 1 : d[i] \in Nat) /\ \A i \in 1..n : d[i + 1] = d[i] + stack[i].open
  BY <1>1 DEF Depths
<1>5. n \in 1..n /\ n \in 1..n + 1
  OBVIOUS
<1>6. Len(less) + 1 = n
  BY <1>2
<1>7. \A i \in 1..Len(less) : i \in 1..n - 1 /\ i \in 1..n
  BY <1>2
<1>8. Depths(d, less)
  BY <1>2, <1>4, <1>6, <1>7 DEF Depths
<1>9. QED
  BY <1>1, <1>2, <1>3, <1>4, <1>5, <1>6, <1>8 DEF less

\* The tokens before Behind() are of the kind.
LEMMA BehindRun ==
    ASSUME TextOK, NEW ops, NEW i \in p..Behind(ops) - 1
    PROVE  source[i].op \in ops
<1> DEFINE S == {j \in p..Len(source) : source[j].op \notin ops} \cup {Len(source) + 1}
<1>1. PICK e \in Nat \ {0} : e = Behind(ops) /\ e >= p /\ e <= Len(source) + 1
  BY BehindIs, TextIs
<1>2. SUFFICES ASSUME source[i].op \notin ops PROVE FALSE
  OBVIOUS
<1>3. i \in p..Len(source) /\ i < e
  BY <1>1, TextIs
<1>4. i \in S /\ S \subseteq Nat
  BY <1>2, <1>3, TextIs
<1>5. e = Min(S)
  BY <1>1 DEF Behind
<1> HIDE DEF S
<1>6. e <= i
  BY <1>4, <1>5, MinIs
<1>7. QED
  BY <1>3, <1>6

-----------------------------------------------------------------------------
(* What the scan may have in front of it, and where it may stop. *)

Whole == column = 0 /\ "bad label" \notin errors

Scans == pc \in {"match", "operator", "pop"}

\* An operator in front is for a loop that is running, or for one that was running
\* when what is on top of the stack was put there.
OpsTaken ==
    column = 0 /\ IsOperator(p) =>
        /\ pc = "operator" => Rank[source[p].op] <= rank
        /\ pc = "pop" => Rank[source[p].op] < level

LEMMA PushIs ==
    ASSUME NEW item, NEW new_level, Push(item, new_level)
    PROVE  \/ pc' = "done" /\ end' = 0 /\ "Expression too deep" \in errors'
           \/ /\ match_stack' = Append(match_stack, item) /\ level' = new_level
              /\ pc' = "match" /\ UNCHANGED <<errors, result>>
BY Zenon DEF Push, Fail

LEMMA OperatorIs ==
    ASSUME IsOperator(p)
    PROVE  /\ p <= Len(source) /\ source[p].op \in Binary /\ Rank[source[p].op] \in 0..5
           /\ OperatorAt(source, p)
<1>1. /\ p <= Len(source) /\ source[p].op \in Binary
      /\ ~ /\ Rank[source[p].op] = 4
           /\ p < Len(source) /\ source[p + 1].op = "register"
  BY Zenon DEF IsOperator
<1>2. QED
  BY <1>1, RankIs, Zenon DEF OperatorAt

LEMMA OpsKept ==
    ASSUME WaitInv, WaitInv', OpsTaken, [Next]_vars
    PROVE  OpsTaken'
<1>1. ASSUME pc' = "operator", rank' = 5 PROVE OpsTaken'
  <2>1. SUFFICES ASSUME IsOperator(p)' PROVE Rank[source[p].op]' <= 5
    BY <1>1, Zenon DEF OpsTaken
  <2>2. (source[p].op \in Binary)'
    BY <2>1, Zenon DEF IsOperator
  <2>3. QED
    BY <2>2, RankIs
<1>2. ASSUME pc' \notin {"operator", "pop"} PROVE OpsTaken'
  BY <1>2 DEF OpsTaken
<1>3. CASE MatchParens \/ MatchSigns \/ MatchOperator
  <2>1. PICK item, new_level : Push(item, new_level)
    BY <1>3, Zenon DEF MatchParens, MatchSigns, MatchOperator
  <2>2. pc' \notin {"operator", "pop"}
    BY <2>1, PushIs
  <2>3. QED
    BY <1>2, <2>2
<1>4. CASE Operand
  <2>1. (pc' = "operator" /\ rank' = 5) \/ pc' = "done"
    BY <1>4, Zenon DEF Operand, MatchLiteral, MatchCharacters, MatchAddress, MatchLabel,
                       MatchNothing, HaveValue, Fail
  <2>2. QED
    BY <1>1, <1>2, <2>1
<1>5. CASE EndOperand
  <2>1. /\ ~TakesOperator /\ pc' \in {"done", "pop"} /\ pc = "operator"
        /\ UNCHANGED <<source, p, column, level, rank>>
    BY <1>5, Zenon DEF EndOperand, position
  <2>2. ASSUME pc' = "pop", column = 0, IsOperator(p) PROVE Rank[source[p].op] < level
    <3>1. At(Binary) /\ Rank[source[p].op] \in 0..5
      BY <2>2, OperatorIs DEF At
    <3>2. Rank[source[p].op] \notin level..rank
      BY <2>1, <2>2, <3>1 DEF TakesOperator
    <3>3. Rank[source[p].op] <= rank
      BY <2>1, <2>2 DEF OpsTaken
    <3>4. QED
      BY <3>1, <3>2, <3>3 DEF WaitInv, TextOK
  <2>3. QED
    BY <2>1, <2>2 DEF OpsTaken, IsOperator
<1>6. CASE CloseParen \/ ApplySign
  BY <1>1, <1>6, Zenon DEF CloseParen, ApplySign, HaveValue
<1>7. CASE MissingParen \/ DivisionTraps
  BY <1>2, <1>7, Zenon DEF MissingParen, DivisionTraps, Fail
<1>8. CASE ApplyOperator
  <2>1. /\ pc = "pop" /\ top.casei \in Binary /\ pc' = "operator" /\ rank' = Rank[top.casei]
        /\ UNCHANGED <<source, p, column>>
    BY <1>8, Zenon DEF ApplyOperator, unchangedByPop
  <2>2. level = Rank[top.casei] + 1
    <3>1. match_stack # <<>>
      BY <2>1 DEF WaitInv, SomethingWaits
    <3>2. PICK V : match_stack \in Seq(Items(V))
      BY DEF WaitInv, StackOK
    <3>3. level = LevelBehind(top.casei)
      <4>1. Len(match_stack) # 0 /\ top = match_stack[Len(match_stack)]
        BY <3>1, <3>2 DEF top, Last
      <4>2. QED
        BY <4>1 DEF WaitInv, StackOK, LevelAt
    <3>4. top.casei \in ItemKinds
      BY <2>1, Zenon DEF ItemKinds
    <3>5. QED
      BY <2>1, <3>3, <3>4, LevelIs
  <2>3. ASSUME column = 0, IsOperator(p) PROVE Rank[source[p].op] <= Rank[top.casei]
    <3>1. Rank[source[p].op] < level /\ Rank[source[p].op] \in 0..5 /\ Rank[top.casei] \in 0..5
      BY <2>1, <2>3, OperatorIs, RankIs DEF OpsTaken
    <3>2. QED
      BY <2>2, <3>1
  <2>4. QED
    BY <2>1, <2>3 DEF OpsTaken, IsOperator
<1>9. CASE UNCHANGED vars
  <2>1. UNCHANGED <<source, p, column, level, rank, pc>>
    BY <1>9 DEF vars, position
  <2>2. QED
    BY <2>1 DEF OpsTaken, IsOperator
<1>10. QED
  BY <1>3, <1>4, <1>5, <1>6, <1>7, <1>8, <1>9, Zenon DEF Next, Pop, Done

\* A literal of which nothing is read is bad.
ReadsOn(r, text) == ~r.bad /\ r.next <= Len(text) => r.next >= 2

LEMMA LiteralReads ==
    ASSUME NEW text, text \in Seq(Range(text))
    PROVE  ReadsOn(Literal(text), text)
<1>1. ASSUME NEW i, NEW base, NEW suffix PROVE ReadsOn(Based(text, i, base, suffix), text)
  <2>1. PICK r : r = Based(text, i, base, suffix)
    OBVIOUS
  <2>2. r.next <= Len(text) => r.bad
    BY <2>1 DEF Based
  <2>3. QED
    BY <2>1, <2>2 DEF ReadsOn
<1>2. ASSUME NEW i, NEW v PROVE ReadsOn([value |-> v, next |-> i, bad |-> i <= Len(text)], text)
  BY DEF ReadsOn
<1>3. ASSUME NEW i, NEW v PROVE ReadsOn(OrHex(text, i, v), text)
  BY <1>1, <1>2, Zenon DEF OrHex
<1>4. ReadsOn(BinarySuffix(text), text)
  <2> DEFINE b == RunEnd(text, 1, DigitsBelow(3))
  <2>1. b \in Nat \ {0}
    BY RunIs
  <2>2. BinarySuffix(text) \in {Based(text, 1, 16, "h"),
          [value |-> Number(SubSeq(text, 1, b - 1), 2), next |-> b + 1, bad |-> FALSE]}
    BY Zenon DEF BinarySuffix
  <2> HIDE DEF b
  <2>3. ReadsOn([value |-> Number(SubSeq(text, 1, b - 1), 2), next |-> b + 1, bad |-> FALSE], text)
    BY <2>1 DEF ReadsOn
  <2>4. QED
    BY <1>1, <2>2, <2>3
<1>5. ReadsOn(BinaryPrefix(text), text)
  BY <1>3, Zenon DEF BinaryPrefix
<1> DEFINE last == RunEnd(text, 1, DigitsBelow(10))
<1>6. Literal(text) \in
             {BinaryPrefix(text), Based(text, 3, 16, ""), Based(text, 3, 8, ""),
             Based(text, 2, 16, ""), Based(text, 1, 8, "o"), BinarySuffix(text),
             OrHex(text, last, Number(SubSeq(text, 1, last - 1), 10))}
  BY Zenon DEF Literal
<1> HIDE DEF last
<1>7. QED
  BY <1>1, <1>3, <1>4, <1>5, <1>6

\* What was not read whole is never made up for.
LEMMA WholeBefore ==
    ASSUME [Next]_vars, Whole'
    PROVE  Whole
<1>1. column' = 0 /\ "bad label" \notin errors'
  BY DEF Whole
<1>2. UNCHANGED column \/ MatchLiteral
  BY Zenon DEF Next, MatchParens, MatchSigns, MatchOperator, Operand, MatchCharacters,
               MatchAddress, MatchLabel, MatchNothing, EndOperand, Pop, MissingParen, CloseParen,
               ApplySign, ApplyOperator, DivisionTraps, Done, vars, position, unchangedByPop
<1>3. MatchLiteral => column = 0
  BY Zenon DEF MatchLiteral, At
<1>4. errors \subseteq errors'
  <2>1. ASSUME NEW item, NEW new_level, Push(item, new_level) PROVE errors \subseteq errors'
    BY <2>1, Zenon DEF Push, Fail
  <2>2. MatchParens \/ MatchSigns \/ MatchOperator => errors \subseteq errors'
    BY <2>1, Zenon DEF MatchParens, MatchSigns, MatchOperator
  <2>3. Operand => errors \subseteq errors'
    BY Zenon DEF Operand, MatchLiteral, MatchCharacters, MatchAddress, MatchLabel,
                 MatchNothing, Fail
  <2>4. Pop => errors \subseteq errors'
    BY Zenon DEF Pop, MissingParen, CloseParen, ApplySign, ApplyOperator, DivisionTraps, Fail
  <2>5. QED
    BY <2>2, <2>3, <2>4, Zenon DEF Next, EndOperand, Done, vars
<1>5. QED
  BY <1>1, <1>2, <1>3, <1>4 DEF Whole

LEMMA RunStep ==
    ASSUME NEW text, Len(text) \in Nat, NEW n \in Nat \ {0}, n <= Len(text),
           NEW f, IsRun(f, text, n), NEW t, TokenStep(text, n, f[n], t)
    PROVE  \E g : IsRun(g, text, n + 1) /\ g[n + 1] = t
<1> DEFINE h == [i \in {n, n + 1} |-> IF i = n THEN f[n] ELSE t]
<1>1. h[n] = f[n] /\ h[n + 1] = t
  OBVIOUS
<1> HIDE DEF h
<1>2. \A i \in n..(n + 1) - 1 : i = n
  OBVIOUS
<1>3. PICK q \in Nat : q = n + 1
  OBVIOUS
<1>4. \A i \in n..q - 1 : TokenStep(text, i, h[i], h[i + 1])
  BY <1>1, <1>2, <1>3
<1>5. n <= q /\ q <= Len(text) + 1
  BY <1>3
<1>6. \E g : IsRun(g, text, q) /\ g[q] = h[q]
  BY <1>1, <1>4, <1>5, RunGrows
<1>7. QED
  BY <1>1, <1>3, <1>6

\* The run over the tokens that have been read is where the scan is.
Walked(f, d) ==
    /\ IsRun(f, source, p) /\ Depths(d, match_stack)
    /\ f[p] = IF pc = "match" THEN Ready(d[Len(match_stack) + 1])
              ELSE Filled(d[Len(match_stack) + 1])

Walks == Whole /\ Scans => \E f, d : Walked(f, d)

\* One token more, and the stack is the same.
LEMMA WalkToken ==
    ASSUME WaitInv, NEW f, NEW d, Walked(f, d), p <= Len(source), p' = p + 1,
           UNCHANGED <<source, match_stack>>,
           TokenStep(source, p, f[p], IF pc' = "match" THEN Ready(d[Len(match_stack) + 1])
                                      ELSE Filled(d[Len(match_stack) + 1]))
    PROVE  \E g : Walked(g, d)'
<1> DEFINE t == IF pc' = "match" THEN Ready(d[Len(match_stack) + 1])
                ELSE Filled(d[Len(match_stack) + 1])
<1>1. Len(source) \in Nat /\ p \in Nat \ {0} /\ IsRun(f, source, p)
  BY TextIs DEF WaitInv, Walked
<1> HIDE DEF t
<1>2. PICK g : IsRun(g, source, p + 1) /\ g[p + 1] = t
  BY <1>1, RunStep DEF t
<1>3. Walked(g, d)'
  BY <1>2 DEF Walked, t
<1>4. QED
  BY <1>3

LEMMA OperandGoes ==
    ASSUME WaitInv, Operand, Whole', Scans'
    PROVE  /\ pc = "match" /\ pc' = "operator" /\ rank' = 5
           /\ p' = p + 1 /\ p <= Len(source) /\ source[p].op \in OperandTokens
           /\ UNCHANGED <<source, assembler_pass, match_stack, level>>
<1>1. pc = "match" /\ pc' = "operator" /\ rank' = 5
  BY Zenon DEF Operand, MatchLiteral, MatchCharacters, MatchAddress, MatchLabel, MatchNothing,
               HaveValue, Fail, Scans
<1>2. p' = p + 1 /\ p <= Len(source) /\ source[p].op \in OperandTokens
  <2>1. CASE MatchLiteral
    <3> DEFINE text == source[p].text
               literal == Literal(text)
    <3>1. /\ At({"literal"})
          /\ p' = IF literal.next > Len(text) THEN p + 1 ELSE p
          /\ column' = IF literal.next > Len(text) THEN 0 ELSE literal.next - 1
          /\ errors' = IF literal.bad THEN errors \cup {"bad label"} ELSE errors
      BY <2>1, Zenon DEF MatchLiteral
    <3>2. p <= Len(source) /\ source[p].op = "literal"
      BY <3>1, Zenon DEF At
    <3>3. text \in Seq(Range(text))
      <4>1. p \in DOMAIN source /\ source \in Sources
        BY <3>2, TextIs DEF WaitInv, TextOK
      <4>2. QED
        BY <3>2, <4>1, SourcesAssumption, Zenon
    <3> HIDE DEF text
    <3>4. literal.next \in Nat /\ ReadsOn(literal, text) /\ Len(text) \in Nat
      BY <3>3, LiteralIs, LiteralReads DEF IsLiteral
    <3> HIDE DEF literal
    <3>5. ~literal.bad
      BY <3>1, Zenon DEF Whole
    <3>6. literal.next > Len(text)
      <4>1. SUFFICES ASSUME literal.next <= Len(text) PROVE FALSE
        BY <3>4
      <4>2. literal.next >= 2 /\ column' = literal.next - 1
        BY <3>1, <3>4, <3>5, <4>1 DEF ReadsOn
      <4>3. column' = 0
        BY DEF Whole
      <4>4. PICK k \in Nat : k = literal.next
        BY <3>4
      <4>5. QED
        BY <4>2, <4>3, <4>4
    <3>7. QED
      BY <3>1, <3>2, <3>6 DEF OperandTokens
  <2>2. CASE MatchCharacters
    BY <2>2, Zenon DEF MatchCharacters, At, OperandTokens
  <2>3. CASE MatchAddress
    BY <2>3, Zenon DEF MatchAddress, At, OperandTokens
  <2>4. CASE MatchLabel
    BY <2>4, Zenon DEF MatchLabel, At, OperandTokens
  <2>5. CASE MatchNothing
    BY <1>1, <2>5, Zenon DEF MatchNothing, Fail
  <2>6. QED
    BY <2>1, <2>2, <2>3, <2>4, <2>5 DEF Operand
<1>3. UNCHANGED <<source, assembler_pass, match_stack, level>>
  BY <1>1, Zenon DEF Operand, MatchLiteral, MatchCharacters, MatchAddress, MatchLabel, MatchNothing,
               unchangedByOperand, Fail
<1>4. QED
  BY <1>1, <1>2, <1>3

LEMMA WalkedIs ==
    ASSUME WaitInv, Walks, Whole, Scans
    PROVE  \E f, d : Walked(f, d) /\ d[Len(match_stack) + 1] \in Nat
<1>1. PICK f, d : Walked(f, d)
  BY DEF Walks
<1>2. Len(match_stack) + 1 \in 1..Len(match_stack) + 1
  BY DEF WaitInv, StackOK
<1>3. QED
  BY <1>1, <1>2 DEF Walked, Depths

LEMMA WalkOperand ==
    ASSUME WaitInv, Typed, Walks, Operand, Whole, Whole', Scans'
    PROVE  Walks'
<1>1. /\ pc = "match" /\ pc' = "operator" /\ UNCHANGED <<source, match_stack>>
      /\ p' = p + 1 /\ p <= Len(source) /\ source[p].op \in OperandTokens
  BY OperandGoes
<1>2. PICK f, d : Walked(f, d) /\ d[Len(match_stack) + 1] \in Nat
  BY <1>1, WalkedIs DEF Scans
<1>3. PICK D \in Nat : D = d[Len(match_stack) + 1]
  BY <1>2
<1>4. f[p] = Ready(D)
  BY <1>1, <1>2, <1>3 DEF Walked
<1>5. TokenStep(source, p, f[p], Filled(D))
  <2>1. TokenStep(source, p, Ready(D), Filled(D))
    BY <1>1, StepIs
  <2>2. QED
    BY <1>4, <2>1
<1>6. \E g : Walked(g, d)'
  BY <1>1, <1>2, <1>3, <1>5, WalkToken
<1>7. QED
  BY <1>6 DEF Walks

\* An item more, whatever its tokens are.
LEMMA WalkPush ==
    ASSUME WaitInv, NEW f, NEW d, Walked(f, d), NEW D \in Nat, D = d[Len(match_stack) + 1],
           NEW item, item.open \in Nat, UNCHANGED source,
           match_stack' = Append(match_stack, item), pc' = "match",
           NEW g, IsRun(g, source, p'), g[p'] = Ready(D + item.open)
    PROVE  Walks'
<1>1. PICK V : match_stack \in Seq(Items(V))
  BY DEF WaitInv, StackOK
<1>2. PICK e : /\ Depths(e, Append(match_stack, item))
               /\ e[Len(match_stack) + 2] = D + item.open
  BY <1>1, DepthsPush DEF Walked
<1>3. Len(match_stack') + 1 = Len(match_stack) + 2
  BY <1>1
<1>4. Walked(g, e)'
  BY <1>2, <1>3 DEF Walked
<1>5. QED
  BY <1>4 DEF Walks

LEMMA WalkParens ==
    ASSUME WaitInv, WaitInv', Typed, Typed', Walks, MatchParens, Whole, Whole', Scans'
    PROVE  Walks'
<1> DEFINE open == Min({Behind({"("}) - p, MaxOpen})
           item == Item("(", open, 0)
<1>1. /\ pc = "match" /\ At({"("}) /\ p' = p + open /\ Push(item, 0) /\ UNCHANGED source
  BY Zenon DEF MatchParens
<1>2. match_stack' = Append(match_stack, item) /\ pc' = "match"
  BY <1>1, PushIs DEF Scans
<1>3. PICK e \in Nat : e = Behind({"("}) /\ p < e /\ e <= Len(source) + 1
  BY <1>1, BehindIs, TextIs DEF WaitInv
<1>4. open \in Nat \ {0} /\ p + open <= e
  <2>1. {e - p, MaxOpen} \subseteq Nat \ {0} /\ {e - p, MaxOpen} # {}
    BY <1>3, TextIs, SizesAssumption DEF WaitInv
  <2>2. open \in {e - p, MaxOpen} /\ open <= e - p
    BY <1>3, <2>1, MinIs
  <2> HIDE DEF open
  <2>3. open \in Nat \ {0}
    BY <2>1, <2>2
  <2>4. QED
    BY <1>3, <2>2, <2>3, TextIs DEF WaitInv
<1>5. item.open = open
  BY DEF Item
<1> HIDE DEF open, item
<1>6. PICK f, d : Walked(f, d) /\ d[Len(match_stack) + 1] \in Nat
  BY <1>1, WalkedIs DEF Scans
<1>7. PICK D \in Nat : D = d[Len(match_stack) + 1]
  BY <1>6
<1>8. PICK a \in Nat \ {0}, q \in Nat : a = p /\ q = p'
  BY <1>1, <1>4, TextIs DEF WaitInv
<1>9. f[a] = Ready(D)
  BY <1>1, <1>6, <1>7, <1>8 DEF Walked
<1> DEFINE h == [i \in a..q |-> Ready(D + i - a)]
<1>10. h[a] = Ready(D) /\ h[q] = Ready(D + open)
  <2>1. q = a + open
    BY <1>1, <1>4, <1>8
  <2>2. a \in a..q /\ q \in a..q /\ D + a - a = D /\ D + q - a = D + open
    BY <1>4, <2>1
  <2>3. QED
    BY <2>2
<1>11. ASSUME NEW i \in a..q - 1 PROVE TokenStep(source, i, h[i], h[i + 1])
  <2>1. i \in p..Behind({"("}) - 1
    BY <1>1, <1>3, <1>4, <1>8
  <2>2. source[i].op = "("
    BY <2>1, BehindRun DEF WaitInv
  <2>3. PICK k \in Nat : k = D + i - a /\ D + (i + 1) - a = k + 1
    OBVIOUS
  <2>4. h[i] = Ready(k) /\ h[i + 1] = Ready(k + 1)
    <3>1. i \in a..q /\ i + 1 \in a..q
      OBVIOUS
    <3>2. QED
      BY <2>3, <3>1
  <2>5. TokenStep(source, i, Ready(k), Ready(k + 1))
    BY <2>2, StepIs
  <2> HIDE DEF h
  <2>6. QED
    BY <2>4, <2>5
<1> HIDE DEF h
<1>12. \E g : IsRun(g, source, q) /\ g[q] = h[q]
  <2>1. a <= q /\ q <= Len(source) + 1 /\ Len(source) \in Nat
    BY <1>1, <1>3, <1>4, <1>8, TextIs DEF WaitInv
  <2>2. IsRun(f, source, a) /\ h[a] = f[a]
    BY <1>6, <1>8, <1>9, <1>10 DEF Walked
  <2>3. QED
    BY <1>11, <2>1, <2>2, RunGrows
<1>13. PICK g : IsRun(g, source, p') /\ g[p'] = Ready(D + item.open)
  BY <1>5, <1>8, <1>10, <1>12
<1>14. QED
  BY <1>1, <1>2, <1>4, <1>5, <1>6, <1>7, <1>13, WalkPush

LEMMA WalkSigns ==
    ASSUME WaitInv, Typed, Walks, MatchSigns, Whole, Whole', Scans'
    PROVE  Walks'
<1> DEFINE item == Item(IF Signs.minus THEN "-sign" ELSE "+sign", 0, Wrap(Signs.delta))
<1>1. /\ pc = "match" /\ At(Unary) /\ p' = Behind(Unary) /\ Push(item, 6) /\ UNCHANGED source
  BY Zenon DEF MatchSigns
<1>2. match_stack' = Append(match_stack, item) /\ pc' = "match"
  BY <1>1, PushIs DEF Scans
<1>3. item.open = 0
  BY DEF Item
<1> HIDE DEF item
<1>4. PICK f, d : Walked(f, d) /\ d[Len(match_stack) + 1] \in Nat
  BY <1>1, WalkedIs DEF Scans
<1>5. PICK D \in Nat : D = d[Len(match_stack) + 1]
  BY <1>4
<1>6. p' \in Nat /\ p < p' /\ p' <= Len(source) + 1 /\ p \in Nat
  BY <1>1, BehindIs, TextIs DEF WaitInv
<1>7. PICK a \in Nat \ {0}, q \in Nat : a = p /\ q = p'
  BY <1>6, TextIs DEF WaitInv
<1> DEFINE h == [i \in a..q |-> Ready(D)]
<1>8. \A i \in a..q : h[i] = Ready(D)
  OBVIOUS
<1> HIDE DEF h
<1>9. ASSUME NEW i \in a..q - 1 PROVE TokenStep(source, i, h[i], h[i + 1])
  <2>1. source[i].op \in Unary
    BY <1>1, <1>7, BehindRun DEF WaitInv
  <2>2. h[i] = Ready(D) /\ h[i + 1] = Ready(D)
    <3>1. i \in a..q /\ i + 1 \in a..q
      OBVIOUS
    <3>2. QED
      BY <1>8, <3>1
  <2>3. TokenStep(source, i, Ready(D), Ready(D))
    BY <2>1, StepIs, Zenon
  <2>4. QED
    BY <2>2, <2>3
<1>10. a \in a..q /\ q \in a..q /\ a <= q /\ q <= Len(source) + 1 /\ Len(source) \in Nat
  BY <1>6, <1>7, TextIs DEF WaitInv
<1>11. IsRun(f, source, a) /\ h[a] = f[a]
  <2>1. f[p] = Ready(D)
    BY <1>1, <1>4, <1>5 DEF Walked
  <2>2. QED
    BY <1>4, <1>7, <1>8, <1>10, <2>1 DEF Walked
<1>12. \E g : IsRun(g, source, q) /\ g[q] = h[q]
  BY <1>9, <1>10, <1>11, RunGrows
<1>13. D + item.open = D /\ item.open \in Nat
  BY <1>3
<1>14. PICK g : IsRun(g, source, p') /\ g[p'] = Ready(D + item.open)
  BY <1>7, <1>8, <1>10, <1>12, <1>13
<1>15. QED
  BY <1>1, <1>2, <1>4, <1>5, <1>13, <1>14, WalkPush

LEMMA WalkOperator ==
    ASSUME WaitInv, Typed, Walks, MatchOperator, Whole, Whole', Scans'
    PROVE  Walks'
<1> DEFINE item == Item(source[p].op, 0, value1)
<1>1. /\ pc = "operator" /\ TakesOperator /\ p' = p + 1
      /\ Push(item, RightLevel(source[p].op)) /\ UNCHANGED source
  BY Zenon DEF MatchOperator
<1>2. match_stack' = Append(match_stack, item) /\ pc' = "match"
  BY <1>1, PushIs DEF Scans
<1>3. item.open = 0
  BY DEF Item
<1> HIDE DEF item
<1>4. PICK f, d : Walked(f, d) /\ d[Len(match_stack) + 1] \in Nat
  BY <1>1, WalkedIs DEF Scans
<1>5. PICK D \in Nat : D = d[Len(match_stack) + 1]
  BY <1>4
<1>6. OperatorAt(source, p) /\ p <= Len(source)
  BY <1>1, OperatorIs DEF TakesOperator
<1>7. f[p] = Filled(D)
  BY <1>1, <1>4, <1>5 DEF Walked
<1>8. TokenStep(source, p, f[p], Ready(D))
  <2>1. TokenStep(source, p, Filled(D), Ready(D))
    BY <1>6, StepIs
  <2>2. QED
    BY <1>7, <2>1
<1>9. \E g : IsRun(g, source, p + 1) /\ g[p + 1] = Ready(D)
  BY <1>4, <1>6, <1>8, TextIs, RunStep DEF WaitInv, Walked
<1>10. D + item.open = D /\ item.open \in Nat
  BY <1>3
<1>11. PICK g : IsRun(g, source, p') /\ g[p'] = Ready(D + item.open)
  BY <1>1, <1>9, <1>10
<1>12. QED
  BY <1>1, <1>2, <1>4, <1>5, <1>10, <1>11, WalkPush

LEMMA WalkPop ==
    ASSUME WaitInv, WaitInv', Typed, Walks, Pop, Whole, Whole', Scans'
    PROVE  Walks'
<1>1. pc = "pop" /\ match_stack # <<>> /\ pc' = "operator" /\ UNCHANGED source
  BY Zenon DEF Pop, MissingParen, CloseParen, ApplySign, ApplyOperator, DivisionTraps, HaveValue,
               Fail, Scans, WaitInv, SomethingWaits, unchangedByPop
<1>2. PICK V : match_stack \in Seq(Items(V))
  BY DEF WaitInv, StackOK
<1>3. PICK f, d : Walked(f, d)
  BY <1>1 DEF Walks, Scans
<1> DEFINE less == Front(match_stack)
           n == Len(match_stack)
<1>4. /\ Depths(d, less) /\ Len(less) + 1 = n /\ less \in Seq(Items(V))
      /\ d[n] \in Nat /\ d[n + 1] = d[n] + top.open
  BY <1>1, <1>2, <1>3, DepthsPop DEF Walked, top
<1>5. ItemTyped(top) /\ top.open \in Nat
  <2>1. ItemTyped(top)
    BY <1>1, TopTyped
  <2>2. QED
    BY <2>1, SizesAssumption DEF ItemTyped
<1>6. IsRun(f, source, p) /\ f[p] = Filled(d[n] + top.open)
  BY <1>1, <1>3, <1>4 DEF Walked
<1> HIDE DEF less, n
<1>7. CASE CloseParen
  <2> DEFINE smaller == [top EXCEPT !.open = @ - 1]
  <2>1. /\ top.casei = "(" /\ At({")"}) /\ p' = p + 1
        /\ match_stack' = IF top.open = 1 THEN less ELSE Append(less, smaller)
    BY <1>7, Zenon DEF CloseParen, less
  <2>2. PICK D \in Nat : D + 1 = d[n] + top.open
    <3>1. top.open \in Nat \ {0}
      BY <1>5, <2>1, SizesAssumption DEF ItemTyped
    <3>2. PICK e \in Nat, o \in Nat \ {0} : e = d[n] /\ o = top.open
      BY <1>4, <3>1
    <3>3. e + o - 1 \in Nat /\ (e + o - 1) + 1 = e + o
      OBVIOUS
    <3>4. QED
      BY <3>2, <3>3
  <2>3. TokenStep(source, p, f[p], Filled(D))
    <3>1. source[p].op = ")"
      BY <2>1, Zenon DEF At
    <3>2. D + 1 \in Nat /\ D + 1 > 0 /\ (D + 1) - 1 = D
      OBVIOUS
    <3>3. TokenStep(source, p, Filled(D + 1), Filled((D + 1) - 1))
      BY <3>1, <3>2, StepIs, Zenon
    <3>4. QED
      BY <1>6, <2>2, <3>2, <3>3
  <2>4. PICK g : IsRun(g, source, p + 1) /\ g[p + 1] = Filled(D)
    <3>1. p <= Len(source) /\ Len(source) \in Nat /\ p \in Nat \ {0}
      BY <2>1, TextIs DEF At, WaitInv
    <3>2. QED
      BY <1>6, <2>3, <3>1, RunStep
  <2>5. CASE top.open = 1
    <3>1. match_stack' = less /\ D = d[n]
      BY <1>4, <2>1, <2>2, <2>5
    <3>2. Walked(g, d)'
      BY <1>1, <1>4, <2>1, <2>4, <3>1 DEF Walked
    <3>3. QED
      BY <3>2 DEF Walks
  <2>6. CASE top.open # 1
    <3>1. PICK k \in Nat : k = top.open - 1 /\ D = d[n] + k
      <4>1. PICK x \in Nat \ {0}, y \in Nat : x = top.open /\ y = d[n]
        BY <1>4, <1>5, <2>1, SizesAssumption DEF ItemTyped
      <4>2. x - 1 \in Nat /\ D = y + (x - 1)
        BY <2>2, <4>1
      <4>3. QED
        BY <4>1, <4>2
    <3>2. smaller.open = k
      <4>1. top \in Items(V)
        BY <1>1, <1>2, PopKeeps DEF WaitInv, StackOK, top
      <4>2. QED
        BY <3>1, <4>1 DEF Items
    <3> HIDE DEF smaller
    <3>3. match_stack' = Append(less, smaller)
      BY <2>1, <2>6
    <3>4. PICK e : Depths(e, Append(less, smaller)) /\ e[Len(less) + 2] = d[Len(less) + 1] + k
      BY <1>4, <3>2, DepthsPush
    <3>5. Len(match_stack') + 1 = Len(less) + 2 /\ e[Len(less) + 2] = D
      BY <1>4, <3>1, <3>3, <3>4
    <3>6. Walked(g, e)'
      BY <1>1, <2>1, <2>4, <3>3, <3>4, <3>5 DEF Walked
    <3>7. QED
      BY <3>6 DEF Walks
  <2>7. QED
    BY <2>5, <2>6
<1>8. CASE ApplySign \/ ApplyOperator
  <2>1. match_stack' = less /\ p' = p /\ top.casei \in Binary \cup {"-sign", "+sign"}
    BY <1>8, Zenon DEF ApplySign, ApplyOperator, less
  <2>2. top.open = 0
    <3>1. top.casei # "("
      BY <2>1, BinaryIs, Zenon
    <3>2. QED
      BY <1>5, <3>1 DEF ItemTyped
  <2>3. f[p] = Filled(d[n])
    BY <1>4, <1>6, <2>2
  <2>4. Walked(f, d)'
    BY <1>1, <1>4, <1>6, <2>1, <2>3 DEF Walked
  <2>5. QED
    BY <2>4 DEF Walks
<1>9. CASE MissingParen \/ DivisionTraps
  BY <1>1, <1>9, Zenon DEF MissingParen, DivisionTraps, Fail
<1>10. QED
  BY <1>7, <1>8, <1>9 DEF Pop

LEMMA WalkKept ==
    ASSUME WaitInv, WaitInv', Typed, Typed', Walks, [Next]_vars
    PROVE  Walks'
<1>1. SUFFICES ASSUME Whole', Scans' PROVE Walks'
  BY DEF Walks
<1>2. Whole
  BY <1>1, WholeBefore
<1>3. CASE EndOperand
  <2>1. pc = "operator" /\ pc' = "pop" /\ UNCHANGED <<source, p, match_stack>>
    BY <1>1, <1>3, Zenon DEF EndOperand, position, Scans
  <2>2. PICK f, d : Walked(f, d)
    BY <1>2, <2>1 DEF Walks, Scans
  <2>3. Walked(f, d)'
    BY <2>1, <2>2 DEF Walked
  <2>4. QED
    BY <2>3 DEF Walks
<1>4. CASE UNCHANGED vars
  <2>1. UNCHANGED <<source, p, match_stack, pc>>
    BY <1>4 DEF vars, position
  <2>2. PICK f, d : Walked(f, d)
    BY <1>1, <1>2, <2>1 DEF Walks, Scans
  <2>3. Walked(f, d)'
    BY <2>1, <2>2 DEF Walked
  <2>4. QED
    BY <2>3 DEF Walks
<1>5. QED
  BY <1>1, <1>2, <1>3, <1>4, WalkParens, WalkSigns, WalkOperand, WalkOperator, WalkPop, Zenon
     DEF Next, Done

LEMMA WalkInit == ASSUME Init PROVE Walks /\ OpsTaken
<1>1. source \in Sources /\ p = 1 /\ match_stack = <<>> /\ pc = "match"
  BY Zenon DEF Init
<1> DEFINE f == [i \in {1} |-> Ready(0)]
           d == [i \in {1} |-> 0]
<1>2. f[1] = Ready(0) /\ d[1] = 0 /\ Len(match_stack) = 0
  BY <1>1
<1> HIDE DEF f, d
<1>3. Depths(d, match_stack) /\ IsRun(f, source, p)
  BY <1>1, <1>2 DEF Depths, IsRun
<1>4. Walked(f, d)
  BY <1>1, <1>2, <1>3 DEF Walked
<1>5. QED
  BY <1>1, <1>4 DEF Walks, OpsTaken

\* If the run stops at n, there is no expression that an operator does not follow.
NothingHere == \A j \in 1..Len(source) : IsOperator(j + 1) \/ Readings(1, j) = {}

LEMMA RunStops ==
    ASSUME WaitInv, NEW f, IsRun(f, source, p), ~Can(source, p, f[p]), f[p] # Filled(0)
    PROVE  NothingHere
<1>1. SUFFICES ASSUME NEW j \in 1..Len(source), Readings(1, j) # {} PROVE IsOperator(j + 1)
  BY DEF NothingHere
<1>2. PICK n \in Nat \ {0} : n = p /\ n <= Len(source) + 1
  BY TextIs DEF WaitInv
<1>3. Len(source) \in Nat
  BY TextIs DEF WaitInv
<1>4. Rd(source, 0, 1, j) # {}
  BY <1>1 DEF Rd, Readings
<1>5. Covers(f, source, n, 1, j, 0)
  <2>1. IsRun(f, source, n) /\ 1 \in Nat \ {0} /\ j \in Int /\ j <= Len(source) /\ 1 <= j + 1 /\ 0 \in Nat
    BY <1>2, <1>3
  <2>2. QED
    BY <1>3, <1>4, <2>1, RunCovers, LevelsAre
<1>6. f[1] = Ready(0) /\ \A i \in 1..n - 1 : i <= Len(source) /\ TokenStep(source, i, f[i], f[i + 1])
  BY <1>2 DEF IsRun
<1>7. j < n /\ f[j + 1] = Filled(0)
  BY <1>2, <1>5, <1>6 DEF Covers
<1>8. j + 1 \in 1..n - 1
  <2>1. j + 1 # n
    BY <1>2, <1>7
  <2>2. QED
    BY <1>7, <2>1
<1>9. TokenStep(source, j + 1, f[j + 1], f[j + 2])
  <2>1. (j + 1) + 1 = j + 2
    OBVIOUS
  <2>2. QED
    BY <1>6, <1>8, <2>1
<1>10. OperatorAt(source, j + 1)
  <2>1. ~Filled(0).ready /\ ~(Filled(0).depth > 0)
    BY DEF Filled
  <2>2. QED
    BY <1>7, <1>9, <2>1, Zenon DEF TokenStep
<1>11. QED
  BY <1>10, Zenon DEF OperatorAt, IsOperator

LEMMA GivesUpRight ==
    ASSUME WaitInv, Typed, Walks, OpsTaken, MatchNothing \/ MissingParen, Whole
    PROVE  NothingHere
<1>1. pc \in {"match", "pop"} /\ Scans
  BY Zenon DEF MatchNothing, MissingParen, Scans
<1>2. PICK f, d : Walked(f, d) /\ d[Len(match_stack) + 1] \in Nat
  BY <1>1, WalkedIs
<1>3. PICK D \in Nat : D = d[Len(match_stack) + 1]
  BY <1>2
<1>4. ASSUME pc = "match", MatchNothing PROVE NothingHere
  <2>1. f[p] = Ready(D)
    BY <1>2, <1>3, <1>4 DEF Walked
  <2>2. p <= Len(source) => source[p].op \notin OperandTokens \cup Unary \cup {"("}
    BY <1>4, Zenon DEF MatchNothing, At, Whole, OperandTokens
  <2>3. Ready(D).ready /\ Ready(D) # Filled(0)
    BY DEF Ready, Filled
  <2>4. ~Can(source, p, f[p])
    BY <2>1, <2>2, <2>3, Zenon DEF Can, TokenStep
  <2>5. QED
    BY <1>2, <2>1, <2>3, <2>4, RunStops DEF Walked
<1>5. ASSUME pc = "pop", MissingParen PROVE NothingHere
  <2>1. match_stack # <<>> /\ top.casei = "(" /\ ~At({")"})
    BY <1>5, Zenon DEF MissingParen, WaitInv, SomethingWaits
  <2>2. PICK V : match_stack \in Seq(Items(V))
    BY DEF WaitInv, StackOK
  <2>3. f[p] = Filled(D) /\ D # 0
    <3>1. ItemTyped(top)
      BY <2>1, TopTyped
    <3>2. top.open \in Nat \ {0}
      BY <2>1, <3>1, SizesAssumption DEF ItemTyped
    <3>3. D = d[Len(match_stack)] + top.open /\ d[Len(match_stack)] \in Nat
      BY <1>2, <1>3, <2>1, <2>2, DepthsPop DEF Walked, top
    <3>4. f[p] = Filled(D)
      BY <1>2, <1>3, <1>5 DEF Walked
    <3>5. QED
      BY <3>2, <3>3, <3>4
  <2>4. level = 0
    <3>1. Len(match_stack) # 0 /\ top = match_stack[Len(match_stack)]
      BY <2>1, <2>2 DEF top, Last
    <3>2. level = LevelBehind(top.casei)
      BY <3>1 DEF WaitInv, StackOK, LevelAt
    <3>3. QED
      BY <2>1, <3>2 DEF LevelBehind, IsParen
  <2>5. ~OperatorAt(source, p)
    <3>1. SUFFICES ASSUME IsOperator(p) PROVE FALSE
      BY Zenon DEF OperatorAt, IsOperator
    <3>2. Rank[source[p].op] < 0 /\ Rank[source[p].op] \in 0..5
      BY <1>5, <2>4, <3>1, OperatorIs DEF OpsTaken, Whole
    <3>3. QED
      BY <3>2
  <2>6. p <= Len(source) => source[p].op # ")"
    BY <2>1, Zenon DEF At, Whole
  <2>7. ~Filled(D).ready /\ Filled(D) # Filled(0)
    BY <2>3 DEF Filled
  <2>8. ~Can(source, p, f[p])
    BY <2>3, <2>5, <2>6, <2>7, Zenon DEF Can, TokenStep
  <2>9. QED
    BY <1>2, <2>3, <2>7, <2>8, RunStops DEF Walked
<1>6. QED
  BY <1>1, <1>4, <1>5, Zenon DEF MatchNothing, MissingParen

LEMMA ModIs ==
    ASSUME NEW M \in Nat \ {0}, NEW y \in Int, NEW e \in Int, NEW r \in 0..M - 1, y = M * e + r
    PROVE  y % M = r
<1>1. PICK d \in Int, s \in 0..M - 1 : d = y \div M /\ s = y % M /\ y = M * d + s
  <2>1. y \div M \in Int /\ y % M \in 0..M - 1 /\ y = M * (y \div M) + (y % M)
    OBVIOUS
  <2>2. QED
    BY <2>1
<1>2. PICK k \in Int : k = d - e
  OBVIOUS
<1>3. M * k = r - s
  <2>1. M * (d - e) = M * d - M * e
    OBVIOUS
  <2>2. PICK a \in Int, b \in Int : a = M * d /\ b = M * e
    OBVIOUS
  <2>3. a - b = r - s
    BY <1>1, <2>2
  <2>4. QED
    BY <1>2, <2>1, <2>2, <2>3
<1>4. k = 0
  <2>1. k >= 1 => M * k >= M
    OBVIOUS
  <2>2. k <= -1 => M * k <= -M
    OBVIOUS
  <2>3. r - s < M /\ r - s > -M
    OBVIOUS
  <2>4. QED
    BY <1>3, <2>1, <2>2, <2>3
<1>5. QED
  BY <1>1, <1>3, <1>4

LEMMA ModShift ==
    ASSUME NEW M \in Nat \ {0}, NEW x \in Int, NEW q \in Int
    PROVE  (x + M * q) % M = x % M
<1>1. PICK d \in Int, r \in 0..M - 1 : r = x % M /\ x = M * d + r
  <2>1. x \div M \in Int /\ x % M \in 0..M - 1 /\ x = M * (x \div M) + (x % M)
    OBVIOUS
  <2>2. QED
    BY <2>1
<1>2. PICK e \in Int : e = d + q
  OBVIOUS
<1>3. PICK y \in Int : y = x + M * q
  OBVIOUS
<1>4. y = M * e + r
  <2>1. M * (d + q) = M * d + M * q
    OBVIOUS
  <2>2. QED
    BY <1>1, <1>2, <1>3, <2>1
<1>5. y % M = r
  BY <1>4, ModIs
<1>6. QED
  BY <1>1, <1>3, <1>5

LEMMA WrapAdds ==
    ASSUME NEW a \in Int, NEW b \in Int
    PROVE  Wrap(a + Wrap(b)) = Wrap(a + b) /\ Wrap(a - Wrap(b)) = Wrap(a - b)
<1>1. PICK M \in Nat \ {0} : M = 2^Bits
  BY PowerIs
<1>2. PICK q \in Int, r \in Int : r = b % M /\ b = M * q + r
  <2>1. b \div M \in Int /\ b % M \in 0..M - 1 /\ b = M * (b \div M) + (b % M)
    OBVIOUS
  <2>2. PICK u \in Int, v \in Int : u = b \div M /\ v = b % M
    BY <2>1
  <2>3. b = M * u + v
    BY <2>1, <2>2
  <2>4. QED
    BY <2>2, <2>3
<1>3. PICK x \in Int, y \in Int : x = a + r /\ y = a - r
  OBVIOUS
<1>4. PICK n \in Int : n = -q
  OBVIOUS
<1>5. a + b = x + M * q /\ a - b = y + M * n
  <2>1. M * n = -(M * q)
    BY <1>4
  <2>2. PICK m \in Int : m = M * q
    OBVIOUS
  <2>3. b = m + r /\ M * n = -m
    BY <1>2, <2>1, <2>2
  <2>4. a + b = x + m /\ a - b = y + -m
    BY <1>3, <2>3
  <2>5. QED
    BY <2>2, <2>3, <2>4
<1>6. (x + M * q) % M = x % M /\ (y + M * n) % M = y % M
  BY ModShift
<1>7. Wrap(b) = r
  BY <1>1, <1>2 DEF Wrap
<1>8. QED
  BY <1>1, <1>3, <1>5, <1>6, <1>7 DEF Wrap

-----------------------------------------------------------------------------
(* Readings of the parts are put together. *)

LEMMA ReadingOperand ==
    ASSUME NEW text, Len(text) \in Nat, NEW k \in Levels, NEW a \in Nat \ {0}, a <= Len(text),
           NEW r, r \in OperandReading(text[a])
    PROVE  r \in Rd(text, k, a, a)
<1>1. Parses(text, k, a, a, r)
  BY Zenon DEF Parses
<1>2. a \in Int /\ a <= a + 1
  OBVIOUS
<1>3. QED
  BY <1>1, <1>2, ReadingMeans

LEMMA ReadingSign ==
    ASSUME NEW text, Len(text) \in Nat, NEW k \in Levels, NEW a \in Nat \ {0}, NEW b \in Int,
           b <= Len(text), a < b, text[a].op \in Unary, NEW x, x \in Rd(text, 6, a + 1, b)
    PROVE  SignReading(text[a].op, x) \in Rd(text, k, a, b)
<1>1. Parses(text, k, a, b, SignReading(text[a].op, x))
  BY Zenon DEF Parses
<1>2. a <= b + 1
  OBVIOUS
<1>3. QED
  BY <1>1, <1>2, ReadingMeans

LEMMA ReadingParens ==
    ASSUME NEW text, Len(text) \in Nat, NEW k \in Levels, NEW a \in Nat \ {0}, NEW b \in Int,
           b <= Len(text), a < b, text[a].op = "(", text[b].op = ")",
           NEW r, r \in Rd(text, 0, a + 1, b - 1)
    PROVE  r \in Rd(text, k, a, b)
<1>1. Parses(text, k, a, b, r)
  BY Zenon DEF Parses
<1>2. a <= b + 1
  OBVIOUS
<1>3. QED
  BY <1>1, <1>2, ReadingMeans

LEMMA ReadingOperator ==
    ASSUME NEW text, Len(text) \in Nat, NEW k \in Levels, NEW a \in Nat \ {0}, NEW b \in Int,
           b <= Len(text), NEW m \in a + 1..b - 1, text[m].op \in Binary, Rank[text[m].op] >= k,
           NEW x, x \in Rd(text, Rank[text[m].op], a, m - 1),
           NEW y, y \in Rd(text, Rank[text[m].op] + 1, m + 1, b)
    PROVE  OperatorReading(text[m].op, x, y) \in Rd(text, k, a, b)
<1>1. Parses(text, k, a, b, OperatorReading(text[m].op, x, y))
  BY Zenon DEF Parses
<1>2. a <= b + 1
  OBVIOUS
<1>3. QED
  BY <1>1, <1>2, ReadingMeans

-----------------------------------------------------------------------------
(* Signs that are squeezed into one item. *)

SignValue(s, v) == Wrap(IF s.minus THEN s.delta - v ELSE s.delta + v)

SignOf(op, v) == CASE op = "+" -> v
                   [] op = "-" -> Wrap(-v)
                   [] op = "~" -> Wrap(-v - 1)

LEMMA SignOfIs ==
    ASSUME NEW op \in Unary, NEW v \in Values, NEW fl
    PROVE  SignReading(op, Reading(v, fl)) = Reading(SignOf(op, v), fl) /\ SignOf(op, v) \in Values
<1>1. Reading(v, fl).value = v /\ Reading(v, fl).flaws = fl
  BY DEF Reading
<1>2. SignReading(op, Reading(v, fl)) = Reading(SignOf(op, v), fl)
  BY <1>1, Zenon DEF SignReading, SignOf
<1>3. v \in Nat
  BY WrapKeeps
<1>4. Wrap(-v) \in Values /\ Wrap(-v - 1) \in Values
  <2>1. -v \in Int /\ -v - 1 \in Int
    BY <1>3
  <2>2. QED
    BY <2>1, WrapIs
<1>5. op = "+" \/ op = "-" \/ op = "~"
  BY Zenon DEF Unary
<1>6. SignOf(op, v) \in Values
  BY <1>4, <1>5, Zenon DEF SignOf
<1>7. QED
  BY <1>2, <1>6

\* One more sign on the right is one more step of the sum.
LEMMA SignValueThen ==
    ASSUME NEW s \in SignStates, NEW op \in Unary, NEW v \in Values
    PROVE  SignValue(s, SignOf(op, v)) = SignValue(SignThen(s, op), v)
<1>1. PICK d \in Int, m \in BOOLEAN : s = [minus |-> m, delta |-> d]
  BY DEF SignStates
<1>2. v \in Nat /\ v \in Int /\ -v \in Int /\ -v - 1 \in Int
  BY WrapKeeps
<1>3. \A w : SignValue(s, w) = Wrap(IF m THEN d - w ELSE d + w)
  BY <1>1 DEF SignValue
<1>4. CASE op = "+"
  BY <1>4, Zenon DEF SignOf, SignThen
<1>5. CASE op = "-"
  <2>1. SignOf(op, v) = Wrap(-v)
    BY <1>5, Zenon DEF SignOf
  <2>2. SignThen(s, op) = [s EXCEPT !.minus = ~@]
    BY <1>5, Zenon DEF SignThen
  <2>3. SignThen(s, op).minus = ~m /\ SignThen(s, op).delta = d
    BY <1>1, <2>2
  <2>4. SignValue(SignThen(s, op), v) = Wrap(IF ~m THEN d - v ELSE d + v)
    BY <2>3, Zenon DEF SignValue
  <2>5. Wrap(d + Wrap(-v)) = Wrap(d + -v) /\ Wrap(d - Wrap(-v)) = Wrap(d - -v)
    BY <1>2, WrapAdds
  <2>6. d + -v = d - v /\ d - -v = d + v
    BY <1>2
  <2>7. SignValue(s, Wrap(-v)) = Wrap(IF m THEN d - Wrap(-v) ELSE d + Wrap(-v))
    BY <1>3
  <2>8. CASE m
    BY <2>1, <2>4, <2>5, <2>6, <2>7, <2>8
  <2>9. CASE ~m
    BY <2>1, <2>4, <2>5, <2>6, <2>7, <2>9
  <2>10. QED
    BY <2>8, <2>9
<1>6. CASE op = "~"
  <2>1. SignOf(op, v) = Wrap(-v - 1)
    BY <1>6, Zenon DEF SignOf
  <2>2. SignThen(s, op) = [minus |-> ~s.minus, delta |-> IF s.minus THEN s.delta + 1 ELSE s.delta - 1]
    BY <1>6, Zenon DEF SignThen
  <2>3. SignThen(s, op).minus = ~m /\ SignThen(s, op).delta = IF m THEN d + 1 ELSE d - 1
    BY <1>1, <2>2
  <2>4. SignValue(SignThen(s, op), v) = Wrap(IF ~m THEN (d - 1) - v ELSE (d + 1) + v)
    BY <2>3 DEF SignValue
  <2>5. Wrap(d + Wrap(-v - 1)) = Wrap(d + (-v - 1)) /\ Wrap(d - Wrap(-v - 1)) = Wrap(d - (-v - 1))
    BY <1>2, WrapAdds
  <2>6. d + (-v - 1) = (d - 1) - v /\ d - (-v - 1) = (d + 1) + v
    BY <1>2
  <2>7. SignValue(s, Wrap(-v - 1)) = Wrap(IF m THEN d - Wrap(-v - 1) ELSE d + Wrap(-v - 1))
    BY <1>3
  <2>8. CASE m
    BY <2>1, <2>4, <2>5, <2>6, <2>7, <2>8
  <2>9. CASE ~m
    BY <2>1, <2>4, <2>5, <2>6, <2>7, <2>9
  <2>10. QED
    BY <2>8, <2>9
<1>7. QED
  BY <1>4, <1>5, <1>6, Zenon DEF Unary

LEMMA SignsMean ==
    ASSUME TextOK, At(Unary), NEW e \in Int, Behind(Unary) <= e, e <= Len(source),
           NEW v \in Values, NEW fl, Reading(v, fl) \in Rd(source, 6, Behind(Unary), e)
    PROVE  Reading(SignValue(Signs, v), fl) \in Rd(source, 6, p, e)
<1>1. PICK n \in Nat : n = Behind(Unary) - p /\ p + n = Behind(Unary) /\ n > 0
  <2>1. PICK b \in Nat : b = Behind(Unary) /\ b > p
    BY BehindIs, TextIs
  <2>2. b - p \in Nat /\ p + (b - p) = b /\ b - p > 0
    BY <2>1, TextIs
  <2>3. QED
    BY <2>1, <2>2
<1>2. PICK t : AddsUp(t, n) /\ t[n] = Signs
  BY <1>1, SignsAre
<1>3. PICK a \in Nat \ {0} : a = p
  BY TextIs
<1>4. Len(source) \in Nat
  BY TextIs
<1> DEFINE Fits(j) == \A w \in Values : Reading(w, fl) \in Rd(source, 6, a + j, e)
                          => Reading(SignValue(t[j], w), fl) \in Rd(source, 6, a, e)
           T == {j \in 0..n : Fits(j)}
<1>5. Fits(0)
  <2>1. SUFFICES ASSUME NEW w \in Values, Reading(w, fl) \in Rd(source, 6, a + 0, e)
                 PROVE  Reading(SignValue(t[0], w), fl) \in Rd(source, 6, a, e)
    BY Zenon
  <2>2. SignValue(t[0], w) = w
    <3>1. t[0].minus = FALSE /\ t[0].delta = 0
      BY <1>2 DEF AddsUp
    <3>2. Wrap(w) = w /\ w \in Nat
      BY WrapKeeps
    <3>3. 0 + w = w
      BY <3>2
    <3>4. SignValue(t[0], w) = Wrap(0 + w)
      BY <3>1, Zenon DEF SignValue
    <3>5. QED
      BY <3>2, <3>3, <3>4
  <2>3. a + 0 = a
    OBVIOUS
  <2>4. QED
    BY <2>1, <2>2, <2>3
<1>6. ASSUME NEW j \in 0..n - 1, Fits(j) PROVE Fits(j + 1)
  <2>1. SUFFICES ASSUME NEW w \in Values, Reading(w, fl) \in Rd(source, 6, a + (j + 1), e)
                 PROVE  Reading(SignValue(t[j + 1], w), fl) \in Rd(source, 6, a, e)
    BY Zenon
  <2>2. PICK b \in Nat \ {0} : b = a + j /\ b + 1 = a + (j + 1)
    OBVIOUS
  <2>3. b < e /\ source[b].op \in Unary
    <3>1. b < a + n
      BY <2>2
    <3>2. b \in p..Behind(Unary) - 1
      BY <1>1, <1>3, <2>2, <3>1
    <3>3. b < e
      BY <1>1, <1>3, <3>1
    <3>4. QED
      BY <3>2, <3>3, BehindRun
  <2> DEFINE op == source[b].op
             u == SignOf(op, w)
  <2>4. SignReading(op, Reading(w, fl)) \in Rd(source, 6, b, e)
    BY <1>4, <2>1, <2>2, <2>3, ReadingSign, LevelsAre
  <2>5. Reading(u, fl) \in Rd(source, 6, a + j, e) /\ u \in Values
    BY <2>2, <2>3, <2>4, SignOfIs
  <2>6. Reading(SignValue(t[j], u), fl) \in Rd(source, 6, a, e)
    BY <1>6, <2>5
  <2>7. t[j] \in SignStates /\ t[j + 1] = SignThen(t[j], op)
    <3>1. j + 1 \in 1..n /\ (j + 1) - 1 = j /\ p + (j + 1) - 1 = b
      BY <1>3, <2>2
    <3>2. QED
      BY <1>2, <3>1 DEF AddsUp
  <2>8. SignValue(t[j], u) = SignValue(t[j + 1], w)
    BY <2>3, <2>7, SignValueThen
  <2>9. QED
    BY <2>6, <2>8
<1> HIDE DEF Fits
<1>7. \A j \in 0..n : j \in T
  <2>1. 0 \in T
    BY <1>5
  <2>2. \A j \in 0..n - 1 : j \in T => j + 1 \in T
    BY <1>6
  <2> HIDE DEF T
  <2>3. 0..n \subseteq T
    BY <2>1, <2>2, Numbers!UpTo
  <2>4. QED
    BY <2>3
<1>8. Fits(n)
  BY <1>7
<1>9. QED
  BY <1>1, <1>2, <1>3, <1>8 DEF Fits

-----------------------------------------------------------------------------
(* What has been used. *)

UseOf(op) == CASE op \in {"$", "$$"} -> {"is_address_used", "is_start_used"}
               [] op = "label" -> {"is_start_used"}
               [] OTHER -> {}

UsesOf(text, j) == UNION {UseOf(text[n].op) : n \in 1..j}

LEMMA UsesAre ==
    ASSUME NEW j
    PROVE  Uses(1, j) = UsesOf(source, j)
BY Zenon DEF Uses, UsesOf, UseOf

LEMMA UsesGrow ==
    ASSUME NEW text, NEW i \in Nat, NEW j \in Nat, i < j, NEW S,
           \A n \in i + 1..j : UseOf(text[n].op) = S
    PROVE  UsesOf(text, j) = UsesOf(text, i) \cup S
<1>1. \A n : n \in 1..j <=> (n \in 1..i \/ n \in i + 1..j)
  OBVIOUS
<1>2. j \in i + 1..j
  OBVIOUS
<1>3. QED
  BY <1>1, <1>2, Zenon DEF UsesOf

LEMMA UseIs ==
    ASSUME NEW op
    PROVE  op \in Unary \cup Binary \cup {"(", ")", "literal", "characters"} => UseOf(op) = {}
<1>1. op \in Unary \cup Binary \cup {"(", ")", "literal", "characters"} => op \notin {"$", "$$", "label"}
  BY BinaryIs, Zenon DEF Unary
<1>2. QED
  BY <1>1, Zenon DEF UseOf

UsedRight == Whole /\ Scans => used = UsesOf(source, p - 1)

LEMMA UsedKept ==
    ASSUME WaitInv, WaitInv', Typed, UsedRight, [Next]_vars
    PROVE  UsedRight'
<1>1. SUFFICES ASSUME Whole', Scans' PROVE used' = UsesOf(source, p - 1)'
  BY DEF UsedRight
<1>2. Whole
  BY <1>1, WholeBefore
<1>3. Scans => used = UsesOf(source, p - 1)
  BY <1>2 DEF UsedRight
<1>4. p \in Nat \ {0} /\ p' \in Nat \ {0} /\ source' = source
  <2>1. UNCHANGED source
    BY Zenon DEF Next, MatchParens, MatchSigns, MatchOperator, Operand, MatchLiteral, MatchCharacters,
               MatchAddress, MatchLabel, MatchNothing, EndOperand, Pop, MissingParen, CloseParen,
               ApplySign, ApplyOperator, DivisionTraps, Done, vars, unchangedByPop, unchangedByOperand
  <2>2. p' \in Nat \ {0}
    <3>1. TextOK' => (p \in Nat \ {0})'
      <4>1. (p \in 1..Len(source) + 1)' => (p \in Nat \ {0})'
        OBVIOUS
      <4>2. QED
        BY <4>1 DEF TextOK
    <3>2. QED
      BY <3>1 DEF WaitInv
  <2>3. QED
    BY <2>1, <2>2, TextIs DEF WaitInv
<1>5. ASSUME Scans, NEW S, p < p', \A n \in p..p' - 1 : UseOf(source[n].op) = S, used' = used \cup S
      PROVE  used' = UsesOf(source, p - 1)'
  <2>1. PICK i \in Nat, j \in Nat : i = p - 1 /\ j = p' - 1 /\ i < j /\ p = i + 1
    <3>1. p < p'
      BY <1>5
    <3>2. PICK a \in Nat \ {0}, b \in Nat \ {0} : a = p /\ b = p' /\ a < b
      BY <1>4, <3>1
    <3>3. a - 1 \in Nat /\ b - 1 \in Nat /\ a - 1 < b - 1 /\ a = (a - 1) + 1
      <4>1. a < b
        BY <3>2
      <4>2. QED
        BY <4>1
    <3>4. QED
      BY <3>2, <3>3
  <2>2. UsesOf(source, j) = UsesOf(source, i) \cup S
    BY <1>5, <2>1, UsesGrow
  <2>3. QED
    BY <1>3, <1>4, <1>5, <2>1, <2>2
<1>6. CASE MatchParens
  <2> DEFINE open == Min({Behind({"("}) - p, MaxOpen})
  <2>1. pc = "match" /\ At({"("}) /\ p' = p + open /\ UNCHANGED used
    BY <1>6, Zenon DEF MatchParens
  <2>2. PICK b \in Nat : b = Behind({"("}) /\ p < b
    BY <2>1, BehindIs, TextIs DEF WaitInv
  <2>3. open \in Nat \ {0} /\ p + open <= b
    <3>1. {b - p, MaxOpen} \subseteq Nat \ {0} /\ {b - p, MaxOpen} # {}
      BY <1>4, <2>2, SizesAssumption
    <3>2. open \in {b - p, MaxOpen} /\ open <= b - p
      BY <2>2, <3>1, MinIs
    <3> HIDE DEF open
    <3>3. open \in Nat \ {0}
      BY <3>1, <3>2
    <3>4. QED
      BY <1>4, <2>2, <3>2, <3>3
  <2> HIDE DEF open
  <2>4. ASSUME NEW n \in p..p' - 1 PROVE UseOf(source[n].op) = {}
    <3>1. n \in p..Behind({"("}) - 1
      BY <1>4, <2>1, <2>2, <2>3
    <3>2. source[n].op = "("
      BY <3>1, BehindRun DEF WaitInv
    <3>3. QED
      BY <3>2, UseIs, Zenon
  <2>5. p < p' /\ used' = used \cup {} /\ Scans
    BY <1>4, <2>1, <2>3 DEF Scans
  <2>6. QED
    BY <1>5, <2>4, <2>5
<1>7. CASE MatchSigns
  <2>1. pc = "match" /\ At(Unary) /\ p' = Behind(Unary) /\ UNCHANGED used
    BY <1>7, Zenon DEF MatchSigns
  <2>2. ASSUME NEW n \in p..p' - 1 PROVE UseOf(source[n].op) = {}
    <3>1. source[n].op \in Unary
      BY <2>1, BehindRun DEF WaitInv
    <3>2. QED
      BY <3>1, UseIs, Zenon
  <2>3. p < p' /\ used' = used \cup {} /\ Scans
    BY <2>1, BehindIs DEF Scans, WaitInv
  <2>4. QED
    BY <1>5, <2>2, <2>3
<1>8. ASSUME Scans, NEW S, p' = p + 1, UseOf(source[p].op) = S, used' = used \cup S
      PROVE  used' = UsesOf(source, p - 1)'
  <2>1. \A n \in p..p' - 1 : n = p
    BY <1>4, <1>8
  <2>2. p < p'
    BY <1>4, <1>8
  <2>3. QED
    BY <1>5, <1>8, <2>1, <2>2
<1>9. CASE Operand
  <2>1. pc = "match" /\ p' = p + 1
    BY <1>1, <1>9, OperandGoes
  <2>2. used' = used \cup UseOf(source[p].op)
    <3>1. CASE MatchLiteral \/ MatchCharacters
      <4>1. source[p].op \in {"literal", "characters"} /\ UNCHANGED used
        BY <3>1, Zenon DEF MatchLiteral, MatchCharacters, At
      <4>2. UseOf(source[p].op) = {}
        BY <4>1, UseIs, Zenon
      <4>3. QED
        BY <4>1, <4>2
    <3>2. CASE MatchAddress
      <4>1. source[p].op \in {"$", "$$"} /\ used' = {"is_address_used", "is_start_used"}
        BY <3>2, Zenon DEF MatchAddress, At
      <4>2. UseOf(source[p].op) = {"is_address_used", "is_start_used"}
        BY <4>1, Zenon DEF UseOf
      <4>3. QED
        BY <4>1, <4>2, Zenon DEF Typed, Flags
    <3>3. CASE MatchLabel
      <4>1. source[p].op = "label" /\ used' = used \cup {"is_start_used"}
        BY <3>3, Zenon DEF MatchLabel, At
      <4>2. UseOf(source[p].op) = {"is_start_used"}
        BY <4>1, Zenon DEF UseOf
      <4>3. QED
        BY <4>1, <4>2
    <3>4. CASE MatchNothing
      BY <1>1, <3>4, Zenon DEF MatchNothing, Fail, Scans
    <3>5. QED
      BY <1>9, <3>1, <3>2, <3>3, <3>4 DEF Operand
  <2>3. QED
    BY <1>8, <2>1, <2>2 DEF Scans
<1>10. CASE MatchOperator \/ CloseParen
  <2>1. /\ pc \in {"operator", "pop"} /\ p' = p + 1 /\ UNCHANGED used
        /\ source[p].op \in Binary \cup {")"}
    BY <1>10, Zenon DEF MatchOperator, CloseParen, TakesOperator, At, unchangedByPop
  <2>2. UseOf(source[p].op) = {}
    BY <2>1, UseIs, Zenon
  <2>3. used' = used \cup {}
    BY <2>1
  <2>4. QED
    BY <1>8, <2>1, <2>2, <2>3 DEF Scans
<1>11. CASE EndOperand \/ ApplySign \/ ApplyOperator
  <2>1. pc \in {"operator", "pop"} /\ UNCHANGED <<p, used>>
    BY <1>11, Zenon DEF EndOperand, ApplySign, ApplyOperator, position, unchangedByPop
  <2>2. QED
    BY <1>3, <1>4, <2>1 DEF Scans
<1>12. CASE MissingParen \/ DivisionTraps
  BY <1>1, <1>12, Zenon DEF MissingParen, DivisionTraps, Fail, Scans
<1>13. CASE UNCHANGED vars
  <2>1. UNCHANGED <<p, used, pc>>
    BY <1>13 DEF vars, position
  <2>2. QED
    BY <1>1, <1>3, <1>4, <2>1 DEF Scans
<1>14. QED
  BY <1>6, <1>7, <1>9, <1>10, <1>11, <1>12, <1>13, Zenon DEF Next, Pop, Done

-----------------------------------------------------------------------------
(* What the items on the stack stand for.  Each has a mark in front of it:   *)
(* where its tokens begin, and what was wrong with the tokens before.        *)

Mark(at, told) == [at |-> at, told |-> told]

LEMMA MarkIs ==
    ASSUME NEW at, NEW told
    PROVE  \E y : y.at = at /\ y.told = told
<1>1. Mark(at, told).at = at /\ Mark(at, told).told = told
  BY DEF Mark
<1>2. QED
  BY <1>1

\* Parentheses to close, a sign for the expression that follows, or an operator with
\* its left operand.
StandsParens(text, item, x, y) ==
    /\ y.told = x.told /\ y.at = x.at + item.open
    /\ \A i \in x.at..y.at - 1 : text[i].op = "("

SignedBy(item, v) == Wrap(IF item.casei = "-sign" THEN item.value1 - v ELSE item.value1 + v)

StandsSign(text, item, x, y) ==
    /\ y.told = x.told /\ x.at < y.at
    /\ \A e \in Int : \A v \in Values : \A fl :
          y.at <= e /\ e <= Len(text) /\ Reading(v, fl) \in Rd(text, 6, y.at, e)
          => Reading(SignedBy(item, v), fl) \in Rd(text, 6, x.at, e)

StandsOperator(text, item, x, y) ==
    /\ x.at < y.at - 1 /\ text[y.at - 1].op = item.casei
    /\ \E fl : /\ y.told = x.told \cup fl
               /\ Reading(item.value1, fl) \in Rd(text, Rank[item.casei], x.at, y.at - 2)

Stands(text, item, x, y) ==
    /\ IsParen(item.casei) => StandsParens(text, item, x, y)
    /\ IsSign(item.casei) => StandsSign(text, item, x, y)
    /\ item.casei \in Binary => StandsOperator(text, item, x, y)

Marks(F, text, stack) ==
    /\ F[1] = Mark(1, {})
    /\ \A i \in 1..Len(stack) + 1 : F[i].at \in Nat \ {0}
    /\ \A i \in 1..Len(stack) : Stands(text, stack[i], F[i], F[i + 1])

LEMMA MarksPush ==
    ASSUME NEW S, NEW stack \in Seq(S), NEW text, NEW item, NEW F, Marks(F, text, stack),
           NEW y, y.at \in Nat \ {0}, Stands(text, item, F[Len(stack) + 1], y)
    PROVE  \E G : Marks(G, text, Append(stack, item)) /\ G[Len(stack) + 2] = y
<1> DEFINE n == Len(stack)
           more == Append(stack, item)
           G == [i \in 1..n + 2 |-> IF i = n + 2 THEN y ELSE F[i]]
<1>1. n \in Nat /\ Len(more) = n + 1 /\ more[n + 1] = item /\ \A i \in 1..n : more[i] = stack[i]
  OBVIOUS
<1>2. G[n + 2] = y /\ \A i \in 1..n + 1 : G[i] = F[i]
  BY <1>1
<1>3. Stands(text, item, F[n + 1], y)
  OBVIOUS
<1> HIDE DEF more, G, n
<1>4. /\ F[1] = Mark(1, {}) /\ \A i \in 1..n + 1 : F[i].at \in Nat \ {0}
      /\ \A i \in 1..n : Stands(text, stack[i], F[i], F[i + 1])
  BY DEF Marks, n
<1>5. ASSUME NEW i \in 1..n + 1 PROVE Stands(text, more[i], G[i], G[i + 1])
  <2>1. CASE i = n + 1
    <3>1. i + 1 = n + 2 /\ i \in 1..n + 1
      BY <1>1, <2>1
    <3>2. QED
      BY <1>1, <1>2, <1>3, <2>1, <3>1
  <2>2. CASE i # n + 1
    <3>1. i \in 1..n /\ i + 1 \in 1..n + 1
      BY <1>1, <2>2
    <3>2. QED
      BY <1>1, <1>2, <1>4, <3>1
  <2>3. QED
    BY <2>1, <2>2
<1>6. ASSUME NEW i \in 1..n + 2 PROVE G[i].at \in Nat \ {0}
  <2>1. CASE i = n + 2
    BY <1>2, <2>1
  <2>2. CASE i # n + 2
    <3>1. i \in 1..n + 1
      BY <1>1, <2>2
    <3>2. QED
      BY <1>2, <1>4, <3>1
  <2>3. QED
    BY <2>1, <2>2
<1>7. G[1] = Mark(1, {})
  <2>1. 1 \in 1..n + 1
    BY <1>1
  <2>2. QED
    BY <1>2, <1>4, <2>1
<1>8. Len(more) + 1 = n + 2
  BY <1>1
<1>9. Marks(G, text, more)
  BY <1>1, <1>5, <1>6, <1>7, <1>8 DEF Marks
<1>10. QED
  BY <1>2, <1>9 DEF n, more

LEMMA MarksPop ==
    ASSUME NEW S, NEW stack \in Seq(S), stack # <<>>, NEW text, NEW F, Marks(F, text, stack)
    PROVE  /\ Marks(F, text, Front(stack)) /\ Len(Front(stack)) + 1 = Len(stack)
           /\ Front(stack) \in Seq(S)
           /\ F[Len(stack)].at \in Nat \ {0} /\ F[Len(stack) + 1].at \in Nat \ {0}
           /\ Stands(text, Last(stack), F[Len(stack)], F[Len(stack) + 1])
<1>1. PICK n \in Nat \ {0} : n = Len(stack)
  OBVIOUS
<1> DEFINE less == Front(stack)
<1>2. less \in Seq(S) /\ Len(less) = n - 1 /\ \A i \in 1..n - 1 : less[i] = stack[i]
  BY <1>1, FrontIs
<1>3. Last(stack) = stack[n]
  BY <1>1 DEF Last
<1> HIDE DEF less
<1>4. /\ F[1] = Mark(1, {}) /\ \A i \in 1..n + 1 : F[i].at \in Nat \ {0}
      /\ \A i \in 1..n : Stands(text, stack[i], F[i], F[i + 1])
  BY <1>1 DEF Marks
<1>5. n \in 1..n /\ n \in 1..n + 1 /\ n + 1 \in 1..n + 1 /\ \A i \in 1..n : i \in 1..n + 1
  OBVIOUS
<1>6. Len(less) + 1 = n
  BY <1>2
<1>7. \A i \in 1..Len(less) : i \in 1..n - 1 /\ i \in 1..n
  BY <1>2
<1>8. Marks(F, text, less)
  BY <1>2, <1>4, <1>5, <1>6, <1>7 DEF Marks
<1>9. QED
  BY <1>1, <1>2, <1>3, <1>4, <1>5, <1>6, <1>8 DEF less

\* What has been told of the flaws that have been met.
Told(flaws) ==
    /\ has_undefined <=> "Undefined label" \in flaws
    /\ errors = IF assembler_pass > 1 THEN flaws ELSE {}

Meant(x) ==
    /\ pc = "match" => x.at = p /\ Told(x.told)
    /\ pc \in {"operator", "pop"} =>
          /\ x.at < p
          /\ \E fl : /\ Told(x.told \cup fl)
                     /\ Reading(value1, fl) \in Rd(source, rank, x.at, p - 1)
                     /\ Reading(value1, fl) \in Rd(source, level, x.at, p - 1)

Means ==
    Whole /\ Scans =>
        \E F, x : Marks(F, source, match_stack) /\ x = F[Len(match_stack) + 1] /\ Meant(x)

LEMMA MeansIs ==
    ASSUME WaitInv, Means, Whole, Scans
    PROVE  \E F, x : /\ Marks(F, source, match_stack) /\ x = F[Len(match_stack) + 1] /\ Meant(x)
                     /\ x.at \in Nat \ {0}
<1>1. PICK F, x : Marks(F, source, match_stack) /\ x = F[Len(match_stack) + 1] /\ Meant(x)
  BY DEF Means
<1>2. Len(match_stack) + 1 \in 1..Len(match_stack) + 1
  BY DEF WaitInv, StackOK
<1>3. QED
  BY <1>1, <1>2 DEF Marks

LEMMA ToldStays ==
    ASSUME UNCHANGED <<has_undefined, errors, assembler_pass>>, NEW fl, NEW gl, gl = fl, Told(fl)
    PROVE  Told(gl)'
  BY DEF Told

LEMMA MeansPush ==
    ASSUME WaitInv, NEW F, Marks(F, source, match_stack), NEW item, UNCHANGED source,
           match_stack' = Append(match_stack, item), pc' = "match",
           NEW x, x = F[Len(match_stack) + 1], NEW y, Stands(source, item, x, y), y.at = p',
           p' \in Nat \ {0}, UNCHANGED <<has_undefined, errors, assembler_pass>>, Told(y.told)
    PROVE  Means'
<1>1. PICK V : match_stack \in Seq(Items(V))
  BY DEF WaitInv, StackOK
<1>2. PICK G : Marks(G, source, Append(match_stack, item)) /\ G[Len(match_stack) + 2] = y
  BY <1>1, MarksPush
<1>3. Len(match_stack') + 1 = Len(match_stack) + 2
  BY <1>1
<1>4. Told(y.told)'
  BY ToldStays
<1>5. Meant(y)'
  BY <1>4 DEF Meant
<1>6. Marks(G, source', match_stack')
  BY <1>2
<1>7. y = G[Len(match_stack') + 1]
  BY <1>2, <1>3
<1>8. QED
  BY <1>5, <1>6, <1>7 DEF Means

\* A reading of the highest level is one of every level.
LEMMA EveryLevel ==
    ASSUME TextOK, NEW a \in Nat \ {0}, NEW b \in Int, b <= Len(source), a <= b + 1,
           NEW r, NEW k \in Levels, r \in Rd(source, k, a, b), NEW l \in Levels, l <= k
    PROVE  r \in Rd(source, l, a, b)
  BY TextIs, LowerLevel

LEMMA ParensMean ==
    ASSUME WaitInv, WaitInv', Means, MatchParens, Whole, Whole', Scans'
    PROVE  Means'
<1> DEFINE open == Min({Behind({"("}) - p, MaxOpen})
           item == Item("(", open, 0)
<1>1. /\ pc = "match" /\ At({"("}) /\ p' = p + open /\ Push(item, 0)
      /\ UNCHANGED <<source, assembler_pass, has_undefined>>
  BY Zenon DEF MatchParens
<1>2. match_stack' = Append(match_stack, item) /\ pc' = "match" /\ UNCHANGED errors
  BY <1>1, PushIs DEF Scans
<1>3. PICK e \in Nat : e = Behind({"("}) /\ p < e /\ e <= Len(source) + 1
  BY <1>1, BehindIs, TextIs DEF WaitInv
<1>4. open \in Nat \ {0} /\ p + open <= e
  <2>1. {e - p, MaxOpen} \subseteq Nat \ {0} /\ {e - p, MaxOpen} # {}
    BY <1>3, TextIs, SizesAssumption DEF WaitInv
  <2>2. open \in {e - p, MaxOpen} /\ open <= e - p
    BY <1>3, <2>1, MinIs
  <2> HIDE DEF open
  <2>3. open \in Nat \ {0}
    BY <2>1, <2>2
  <2>4. QED
    BY <1>3, <2>2, <2>3, TextIs DEF WaitInv
<1>5. item.open = open /\ item.casei = "("
  BY DEF Item
<1> HIDE DEF open, item
<1>6. PICK F, x : Marks(F, source, match_stack) /\ x = F[Len(match_stack) + 1] /\ Meant(x)
  BY <1>1, MeansIs DEF Scans
<1>7. x.at = p /\ Told(x.told)
  BY <1>1, <1>6 DEF Meant
<1>8. PICK y : y.at = p + open /\ y.told = x.told
  BY MarkIs
<1>9. Told(y.told)
  BY <1>7, <1>8
<1>10. StandsParens(source, item, x, y)
  <2>1. \A i \in x.at..y.at - 1 : i \in p..Behind({"("}) - 1
    BY <1>3, <1>4, <1>7, <1>8, TextIs DEF WaitInv
  <2>2. \A i \in x.at..y.at - 1 : source[i].op \in {"("}
    BY <2>1, BehindRun DEF WaitInv
  <2>3. QED
    BY <1>5, <1>7, <1>8, <2>2 DEF StandsParens
<1>11. Stands(source, item, x, y)
  <2>1. IsParen(item.casei) /\ item.casei \in ItemKinds
    BY <1>5, Zenon DEF IsParen, ItemKinds
  <2>2. ~IsSign(item.casei) /\ item.casei \notin Binary
    BY <2>1, KindsDiffer
  <2>3. QED
    BY <1>10, <2>1, <2>2 DEF Stands
<1>12. p' \in Nat \ {0} /\ y.at = p'
  BY <1>1, <1>4, <1>8, TextIs DEF WaitInv
<1>13. QED
  BY <1>1, <1>2, <1>6, <1>7, <1>9, <1>11, <1>12, MeansPush

LEMMA SignsMeant ==
    ASSUME WaitInv, WaitInv', Means, MatchSigns, Whole, Whole', Scans'
    PROVE  Means'
<1>0. PICK c, item : /\ c = (IF Signs.minus THEN "-sign" ELSE "+sign")
                     /\ item = Item(c, 0, Wrap(Signs.delta))
  OBVIOUS
<1>1. /\ pc = "match" /\ At(Unary) /\ p' = Behind(Unary) /\ Push(item, 6)
      /\ UNCHANGED <<source, assembler_pass, has_undefined>>
  BY <1>0, Zenon DEF MatchSigns
<1>2. match_stack' = Append(match_stack, item) /\ pc' = "match" /\ UNCHANGED errors
  BY <1>1, PushIs DEF Scans
<1>3. item.casei = c /\ item.value1 = Wrap(Signs.delta)
  BY <1>0 DEF Item
<1>4. IsSign(c) /\ c \in ItemKinds /\ (c = "-sign" <=> Signs.minus)
  BY <1>0, Zenon DEF IsSign, ItemKinds
<1>5. PICK F, x : Marks(F, source, match_stack) /\ x = F[Len(match_stack) + 1] /\ Meant(x)
  BY <1>1, MeansIs DEF Scans
<1>6. x.at = p /\ Told(x.told)
  BY <1>1, <1>5 DEF Meant
<1>7. PICK y : y.at = p' /\ y.told = x.told
  BY MarkIs
<1>8. Told(y.told)
  BY <1>6, <1>7
<1>9. p < p' /\ p' \in Nat \ {0}
  BY <1>1, BehindIs, TextIs DEF WaitInv
<1>10. ASSUME NEW v \in Values PROVE SignedBy(item, v) = SignValue(Signs, v)
  <2>1. PICK d \in Int : d = Signs.delta
    BY SignsAre DEF WaitInv, SignStates
  <2>2. PICK w \in Nat, u \in Int : w = Wrap(d) /\ u = v /\ w = item.value1
    BY <1>3, <2>1, WrapIs, WrapKeeps
  <2>3. SignedBy(item, v) = Wrap(IF Signs.minus THEN w - v ELSE w + v)
    BY <1>3, <1>4, <2>2, Zenon DEF SignedBy
  <2>4. w - u = -u + w /\ w + u = u + w /\ -u + d = d - u /\ u + d = d + u /\ -u \in Int
    OBVIOUS
  <2>5. Wrap(-u + Wrap(d)) = Wrap(-u + d) /\ Wrap(u + Wrap(d)) = Wrap(u + d)
    BY <2>4, WrapAdds
  <2>6. Wrap(w - u) = Wrap(d - u) /\ Wrap(w + u) = Wrap(d + u)
    BY <2>2, <2>4, <2>5
  <2>7. SignValue(Signs, v) = Wrap(IF Signs.minus THEN d - v ELSE d + v)
    BY <2>1, Zenon DEF SignValue
  <2>8. CASE Signs.minus
    BY <2>2, <2>3, <2>6, <2>7, <2>8
  <2>9. CASE ~Signs.minus
    BY <2>2, <2>3, <2>6, <2>7, <2>9
  <2>10. QED
    BY <2>8, <2>9
<1>11. StandsSign(source, item, x, y)
  <2>1. ASSUME NEW e \in Int, NEW v \in Values, NEW fl, y.at <= e, e <= Len(source),
               Reading(v, fl) \in Rd(source, 6, y.at, e)
        PROVE  Reading(SignedBy(item, v), fl) \in Rd(source, 6, x.at, e)
    <3>1. Behind(Unary) <= e /\ Reading(v, fl) \in Rd(source, 6, Behind(Unary), e)
      BY <1>1, <1>7, <2>1
    <3>2. Reading(SignValue(Signs, v), fl) \in Rd(source, 6, p, e)
      BY <1>1, <2>1, <3>1, SignsMean DEF WaitInv
    <3>3. QED
      BY <1>6, <1>10, <3>2
  <2>2. y.told = x.told /\ x.at < y.at
    BY <1>6, <1>7, <1>9
  <2>3. QED
    BY <2>1, <2>2 DEF StandsSign
<1>12. Stands(source, item, x, y)
  <2>1. IsSign(item.casei) /\ item.casei \in ItemKinds
    BY <1>3, <1>4
  <2>2. ~IsParen(item.casei) /\ item.casei \notin Binary
    BY <2>1, KindsDiffer
  <2>3. QED
    BY <1>11, <2>1, <2>2 DEF Stands
<1>13. QED
  BY <1>1, <1>2, <1>5, <1>6, <1>7, <1>8, <1>9, <1>12, MeansPush

LEMMA OperatorMeans ==
    ASSUME WaitInv, WaitInv', Means, MatchOperator, Whole, Whole', Scans'
    PROVE  Means'
<1> DEFINE c == source[p].op
           item == Item(c, 0, value1)
<1>1. /\ pc = "operator" /\ TakesOperator /\ p' = p + 1 /\ Push(item, RightLevel(c))
      /\ UNCHANGED <<source, assembler_pass, has_undefined>>
  BY Zenon DEF MatchOperator
<1>2. match_stack' = Append(match_stack, item) /\ pc' = "match" /\ UNCHANGED errors
  BY <1>1, PushIs DEF Scans
<1>3. item.casei = c /\ item.value1 = value1
  BY DEF Item
<1>4. c \in Binary /\ p <= Len(source) /\ Rank[c] <= rank /\ Rank[c] \in Levels /\ rank \in Levels
  <2>1. c \in Binary /\ p <= Len(source) /\ Rank[c] \in level..rank
    BY <1>1, Zenon DEF TakesOperator, At
  <2>2. Rank[c] \in 0..5 /\ rank \in 0..5 /\ level \in 0..6
    BY <2>1, RankIs DEF WaitInv, TextOK
  <2> HIDE DEF c
  <2>3. QED
    BY <2>1, <2>2 DEF Levels
<1> HIDE DEF item, c
<1>5. PICK F, x : /\ Marks(F, source, match_stack) /\ x = F[Len(match_stack) + 1] /\ Meant(x)
                  /\ x.at \in Nat \ {0}
  BY <1>1, MeansIs DEF Scans
<1>6. PICK fl : /\ x.at < p /\ Told(x.told \cup fl)
                /\ Reading(value1, fl) \in Rd(source, rank, x.at, p - 1)
  BY <1>1, <1>5 DEF Meant
<1>7. PICK y : y.at = p + 1 /\ y.told = x.told \cup fl
  BY MarkIs
<1>8. Told(y.told)
  BY <1>6, <1>7
<1>9. StandsOperator(source, item, x, y)
  <2>1. p \in Nat \ {0} /\ x.at \in Nat \ {0}
    BY <1>5, TextIs DEF WaitInv
  <2>2. (p + 1) - 1 = p /\ (p + 1) - 2 = p - 1 /\ p - 1 \in Int /\ p - 1 <= Len(source)
    BY <2>1, TextIs DEF WaitInv
  <2>3. x.at <= (p - 1) + 1
    BY <1>6, <2>1
  <2>4. Reading(value1, fl) \in Rd(source, Rank[c], x.at, p - 1)
    BY <1>4, <1>6, <2>1, <2>2, <2>3, EveryLevel DEF WaitInv
  <2>5. x.at < y.at - 1 /\ source[y.at - 1].op = c
    BY <1>6, <1>7, <2>2 DEF c
  <2>6. Reading(item.value1, fl) \in Rd(source, Rank[item.casei], x.at, y.at - 2)
    BY <1>3, <1>7, <2>2, <2>4
  <2>7. QED
    BY <1>3, <1>7, <2>5, <2>6 DEF StandsOperator
<1>10. Stands(source, item, x, y)
  <2>1. item.casei \in Binary /\ item.casei \in ItemKinds
    BY <1>3, <1>4, Zenon DEF ItemKinds
  <2>2. ~IsParen(item.casei) /\ ~IsSign(item.casei)
    BY <2>1, KindsDiffer
  <2>3. QED
    BY <1>9, <2>1, <2>2 DEF Stands
<1>11. p' \in Nat \ {0} /\ y.at = p'
  BY <1>1, <1>7, TextIs DEF WaitInv
<1>12. QED
  BY <1>1, <1>2, <1>5, <1>8, <1>10, <1>11, MeansPush

LEMMA MeansValue ==
    ASSUME WaitInv', NEW F, Marks(F, source', match_stack'), NEW x, x = F[Len(match_stack') + 1],
           pc' \in {"operator", "pop"}, x.at < p', NEW fl, Told(x.told \cup fl)', NEW r,
           r = Reading(value1', fl), r \in Rd(source', rank', x.at, p' - 1),
           r \in Rd(source', level', x.at, p' - 1)
    PROVE  Means'
<1>1. pc' # "match"
  OBVIOUS
<1>2. Meant(x)'
  BY <1>1 DEF Meant
<1>3. QED
  BY <1>2 DEF Means

\* What is on top of the stack, and what it says of the level.
LEMMA TopIs ==
    ASSUME WaitInv, match_stack # <<>>
    PROVE  /\ top.casei \in ItemKinds /\ top.level \in Levels /\ level = LevelBehind(top.casei)
           /\ top.casei \in Binary => top.level <= Rank[top.casei]
<1>1. PICK V : match_stack \in Seq(Items(V))
  BY DEF WaitInv, StackOK
<1>2. PICK n \in Nat \ {0} : n = Len(match_stack)
  BY <1>1
<1>3. top = match_stack[n] /\ n \in 1..n /\ match_stack[n] \in Items(V)
  BY <1>1, <1>2 DEF top, Last
<1>4. level = LevelAt(match_stack, n) /\ Ordered(match_stack)
  BY <1>2 DEF WaitInv, StackOK
<1>5. level = LevelBehind(top.casei)
  BY <1>3, <1>4 DEF LevelAt
<1>6. top.casei \in ItemKinds /\ top.level \in Levels
  BY <1>3 DEF Items, Levels
<1>7. top.casei \in Binary => top.level <= Rank[top.casei]
  BY <1>2, <1>3, <1>4 DEF Ordered
<1>8. QED
  BY <1>5, <1>6, <1>7

\* What has been read behind the item on top.
LEMMA TopMeans ==
    ASSUME WaitInv, Typed, Means, Whole, pc = "pop", match_stack # <<>>
    PROVE  \E F, x, y, fl, S :
              /\ match_stack \in Seq(S) /\ Marks(F, source, match_stack)
              /\ x = F[Len(match_stack)] /\ y = F[Len(match_stack) + 1]
              /\ Stands(source, top, x, y) /\ x.at \in Nat \ {0} /\ y.at \in Nat \ {0}
              /\ y.at < p /\ Told(y.told \cup fl)
              /\ Reading(value1, fl) \in Rd(source, LevelBehind(top.casei), y.at, p - 1)
<1>1. PICK F, y : /\ Marks(F, source, match_stack) /\ y = F[Len(match_stack) + 1] /\ Meant(y)
                  /\ y.at \in Nat \ {0}
  BY MeansIs DEF Scans
<1>2. PICK fl : /\ y.at < p /\ Told(y.told \cup fl)
                /\ Reading(value1, fl) \in Rd(source, level, y.at, p - 1)
  BY <1>1 DEF Meant
<1>3. PICK V : match_stack \in Seq(Items(V))
  BY DEF WaitInv, StackOK
<1>4. PICK x : x = F[Len(match_stack)]
  OBVIOUS
<1>5. Stands(source, top, x, y) /\ x.at \in Nat \ {0}
  BY <1>1, <1>3, <1>4, MarksPop DEF top
<1>6. level = LevelBehind(top.casei)
  BY TopIs
<1>7. QED
  BY <1>1, <1>2, <1>3, <1>4, <1>5, <1>6

LEMMA ApplySignMeans ==
    ASSUME WaitInv, WaitInv', Typed, Means, ApplySign, Whole
    PROVE  Means'
<1>1. /\ pc = "pop" /\ IsSign(top.casei) /\ match_stack' = Front(match_stack)
      /\ level' = top.level /\ rank' = 5 /\ pc' = "operator" /\ p' = p
      /\ UNCHANGED <<source, assembler_pass, has_undefined, errors>>
      /\ value1' = SignedBy(top, value1)
  BY Zenon DEF ApplySign, HaveValue, IsSign, SignedBy, unchangedByPop
<1>2. match_stack # <<>>
  BY <1>1 DEF WaitInv, SomethingWaits
<1>3. top.casei \in ItemKinds /\ top.level \in Levels /\ LevelBehind(top.casei) = 6
  BY <1>1, <1>2, TopIs, LevelIs
<1>4. PICK F, x, y, fl, S :
              /\ match_stack \in Seq(S) /\ Marks(F, source, match_stack)
              /\ x = F[Len(match_stack)]
              /\ Stands(source, top, x, y) /\ x.at \in Nat \ {0} /\ y.at \in Nat \ {0}
              /\ y.at < p /\ Told(y.told \cup fl)
              /\ Reading(value1, fl) \in Rd(source, 6, y.at, p - 1)
  BY <1>1, <1>2, <1>3, TopMeans
<1>5. Marks(F, source, Front(match_stack)) /\ Len(Front(match_stack)) + 1 = Len(match_stack)
  BY <1>2, <1>4, MarksPop
<1>6. StandsSign(source, top, x, y)
  BY <1>1, <1>4 DEF Stands
<1>7. PICK e \in Int : e = p - 1 /\ e <= Len(source) /\ y.at <= e /\ x.at < e
  <2>1. PICK a \in Nat, b \in Nat : a = x.at /\ b = y.at /\ a < b /\ b < p
    BY <1>4, <1>6 DEF StandsSign
  <2>2. p \in Nat \ {0} /\ Len(source) \in Nat /\ p <= Len(source) + 1
    BY TextIs DEF WaitInv
  <2>3. p - 1 \in Int /\ p - 1 <= Len(source) /\ b <= p - 1 /\ a < p - 1
    BY <2>1, <2>2
  <2>4. QED
    BY <2>1, <2>3
<1>8. PICK w : w = SignedBy(top, value1)
  OBVIOUS
<1>9. Reading(w, fl) \in Rd(source, 6, x.at, e)
  BY <1>4, <1>6, <1>7, <1>8 DEF StandsSign, Typed
<1>10. PICK a \in Nat \ {0} : a = x.at /\ a <= e + 1 /\ a < p
  <2>1. PICK a \in Nat \ {0} : a = x.at /\ a < e
    BY <1>4, <1>7
  <2>2. a <= e + 1
    BY <2>1
  <2>3. a < p
    BY <1>7, <2>1, TextIs DEF WaitInv
  <2>4. QED
    BY <2>1, <2>2, <2>3
<1>11. \A l \in Levels : Reading(w, fl) \in Rd(source, l, a, e)
  <2>1. SUFFICES ASSUME NEW l \in Levels PROVE Reading(w, fl) \in Rd(source, l, a, e)
    OBVIOUS
  <2>2. 6 \in Levels /\ l <= 6
    BY DEF Levels
  <2>3. Reading(w, fl) \in Rd(source, 6, a, e)
    BY <1>9, <1>10
  <2>4. QED
    BY <1>7, <1>10, <2>2, <2>3, EveryLevel DEF WaitInv
<1>12. Told(x.told \cup fl)'
  <2>1. x.told \cup fl = y.told \cup fl
    BY <1>6 DEF StandsSign
  <2>2. QED
    BY <1>1, <1>4, <2>1, ToldStays
<1>13. 5 \in Levels
  BY DEF Levels
<1>14. /\ Marks(F, source', match_stack') /\ x = F[Len(match_stack') + 1]
  BY <1>1, <1>4, <1>5
<1>15. PICK r : r = Reading(w, fl)
  OBVIOUS
<1>16. r = Reading(value1', fl) /\ r \in Rd(source', rank', x.at, p' - 1)
       /\ r \in Rd(source', level', x.at, p' - 1)
  BY <1>1, <1>3, <1>7, <1>8, <1>10, <1>11, <1>13, <1>15
<1>17. x.at < p' /\ pc' \in {"operator", "pop"}
  BY <1>1, <1>10
<1>18. QED
  BY <1>12, <1>14, <1>16, <1>17, MeansValue

LEMMA OtherFlaws ==
    ASSUME NEW op, NEW b
    PROVE  "Undefined label" \notin Flaws(op, b)
<1>1. CASE ByZero(op, b)
  BY <1>1, Zenon DEF Flaws
<1>2. CASE ~ByZero(op, b)
  BY <1>2, Zenon DEF Flaws
<1>3. QED
  BY <1>1, <1>2

LEMMA ApplyOperatorMeans ==
    ASSUME WaitInv, WaitInv', Typed, Means, ApplyOperator, Whole
    PROVE  Means'
<1>1. PICK op : op = top.casei
  OBVIOUS
<1>2. /\ pc = "pop" /\ op \in Binary /\ match_stack' = Front(match_stack)
      /\ level' = top.level /\ rank' = Rank[op] /\ pc' = "operator" /\ p' = p
      /\ UNCHANGED <<source, assembler_pass, has_undefined>>
      /\ value1' = Apply(op, top.value1, value1)
      /\ errors' = IF assembler_pass > 1 THEN errors \cup Flaws(op, value1) ELSE errors
  BY <1>1, Zenon DEF ApplyOperator, unchangedByPop
<1>3. match_stack # <<>>
  BY <1>2 DEF WaitInv, SomethingWaits
<1>4. /\ op \in ItemKinds /\ top.level \in Levels /\ LevelBehind(op) = Rank[op] + 1
      /\ top.level <= Rank[op] /\ Rank[op] \in Levels
  BY <1>1, <1>2, <1>3, TopIs, LevelIs, LevelsAre
<1>5. PICK F, x, y, fl, S :
              /\ match_stack \in Seq(S) /\ Marks(F, source, match_stack)
              /\ x = F[Len(match_stack)]
              /\ Stands(source, top, x, y) /\ x.at \in Nat \ {0} /\ y.at \in Nat \ {0}
              /\ y.at < p /\ Told(y.told \cup fl)
              /\ Reading(value1, fl) \in Rd(source, Rank[op] + 1, y.at, p - 1)
  BY <1>1, <1>2, <1>3, <1>4, TopMeans
<1>6. Marks(F, source, Front(match_stack)) /\ Len(Front(match_stack)) + 1 = Len(match_stack)
  BY <1>3, <1>5, MarksPop
<1>7. StandsOperator(source, top, x, y)
  BY <1>1, <1>2, <1>5 DEF Stands
<1>8. PICK gl : /\ y.told = x.told \cup gl
                /\ Reading(top.value1, gl) \in Rd(source, Rank[op], x.at, y.at - 2)
  BY <1>1, <1>7 DEF StandsOperator
<1>9. PICK a \in Nat \ {0}, m \in Nat, b \in Nat :
          /\ a = x.at /\ m = y.at - 1 /\ b = p - 1 /\ b <= Len(source)
          /\ m \in a + 1..b - 1 /\ a < p /\ a <= b + 1
          /\ y.at - 2 = m - 1 /\ y.at = m + 1 /\ source[m].op = op
  <2>1. PICK a \in Nat \ {0}, h \in Nat \ {0} : a = x.at /\ h = y.at /\ a < h - 1 /\ h < p
    BY <1>5, <1>7 DEF StandsOperator
  <2>2. p \in Nat \ {0} /\ Len(source) \in Nat /\ p <= Len(source) + 1
    BY TextIs DEF WaitInv
  <2>3. /\ h - 1 \in Nat /\ p - 1 \in Nat /\ p - 1 <= Len(source) /\ h - 1 \in a + 1..(p - 1) - 1
        /\ a < p /\ a <= (p - 1) + 1 /\ h - 2 = (h - 1) - 1 /\ h = (h - 1) + 1
    BY <2>1, <2>2
  <2>4. source[h - 1].op = op
    BY <1>1, <1>7, <2>1 DEF StandsOperator
  <2>5. QED
    BY <2>1, <2>3, <2>4
<1>10. PICK u, v : u = Reading(top.value1, gl) /\ v = Reading(value1, fl)
  OBVIOUS
<1>11. u \in Rd(source, Rank[op], a, m - 1) /\ v \in Rd(source, Rank[op] + 1, m + 1, b)
  BY <1>5, <1>8, <1>9, <1>10
<1>12. PICK hl, r : /\ hl = gl \cup fl \cup Flaws(op, value1)
                    /\ r = OperatorReading(op, u, v) /\ r = Reading(value1', hl)
  <2>1. u.value = top.value1 /\ u.flaws = gl /\ v.value = value1 /\ v.flaws = fl
    BY <1>10 DEF Reading
  <2>2. OperatorReading(op, u, v) = Reading(value1', gl \cup fl \cup Flaws(op, value1))
    BY <1>2, <2>1, Zenon DEF OperatorReading
  <2>3. QED
    BY <2>2
<1>13. \A l \in Levels : l <= Rank[op] => r \in Rd(source, l, a, b)
  <2>1. SUFFICES ASSUME NEW l \in Levels, l <= Rank[op] PROVE r \in Rd(source, l, a, b)
    OBVIOUS
  <2>2. PICK k \in Levels : k = Rank[op] /\ k >= l
    BY <1>4, <2>1 DEF Levels
  <2>3. \A s : s = source => OperatorReading(s[m].op, u, v) \in Rd(s, l, a, b)
    <3>1. SUFFICES OperatorReading(source[m].op, u, v) \in Rd(source, l, a, b)
      OBVIOUS
    <3>2. /\ Len(source) \in Nat /\ source[m].op \in Binary /\ Rank[source[m].op] >= l
          /\ u \in Rd(source, Rank[source[m].op], a, m - 1)
          /\ v \in Rd(source, Rank[source[m].op] + 1, m + 1, b)
      BY <1>2, <1>9, <1>11, <2>2, TextIs DEF WaitInv
    <3>3. b \in Int /\ b <= Len(source) /\ m \in a + 1..b - 1 /\ a \in Nat \ {0}
      BY <1>9
    <3>4. QED
      BY <3>2, <3>3, ReadingOperator, Zenon
  <2>4. QED
    BY <1>9, <1>12, <2>3
<1>14. Told(x.told \cup hl)'
  <2>1. "Undefined label" \in x.told \cup hl <=> "Undefined label" \in y.told \cup fl
    BY <1>8, <1>12, OtherFlaws
  <2>2. x.told \cup hl = (y.told \cup fl) \cup Flaws(op, value1)
    BY <1>8, <1>12
  <2>3. /\ has_undefined <=> "Undefined label" \in y.told \cup fl
        /\ errors = IF assembler_pass > 1 THEN y.told \cup fl ELSE {}
    BY <1>5 DEF Told
  <2>4. has_undefined' <=> "Undefined label" \in x.told \cup hl
    BY <1>2, <2>1, <2>3
  <2>5. errors' = IF assembler_pass' > 1 THEN x.told \cup hl ELSE {}
    BY <1>2, <2>2, <2>3
  <2>6. QED
    BY <2>4, <2>5 DEF Told
<1>15. Rank[op] <= Rank[op]
  BY <1>4 DEF Levels
<1>16. Marks(F, source', match_stack') /\ x = F[Len(match_stack') + 1]
  BY <1>2, <1>5, <1>6
<1>17. r \in Rd(source', rank', x.at, p' - 1) /\ r \in Rd(source', level', x.at, p' - 1)
  BY <1>2, <1>4, <1>9, <1>13, <1>15
<1>18. x.at < p' /\ pc' \in {"operator", "pop"}
  BY <1>2, <1>9
<1>19. QED
  BY <1>12, <1>14, <1>16, <1>17, <1>18, MeansValue

LEMMA CloseParenMeans ==
    ASSUME WaitInv, WaitInv', Typed, Means, CloseParen, Whole
    PROVE  Means'
<1>1. PICK item : item = [top EXCEPT !.open = @ - 1]
  OBVIOUS
<1>2. /\ pc = "pop" /\ IsParen(top.casei) /\ source[p].op = ")" /\ p <= Len(source)
      /\ rank' = 5 /\ pc' = "operator" /\ p' = p + 1 /\ value1' = value1
      /\ UNCHANGED <<source, assembler_pass, has_undefined, errors>>
      /\ \/ top.open = 1 /\ match_stack' = Front(match_stack)
         \/ top.open # 1 /\ match_stack' = Append(Front(match_stack), item)
  BY <1>1, Zenon DEF CloseParen, HaveValue, IsParen, At, unchangedByPop
<1>3. match_stack # <<>>
  BY <1>2 DEF WaitInv, SomethingWaits
<1>4. top.casei \in ItemKinds /\ LevelBehind(top.casei) = 0
  BY <1>2, <1>3, TopIs, LevelIs
<1>5. PICK F, x, y, fl, S :
              /\ match_stack \in Seq(S) /\ Marks(F, source, match_stack)
              /\ x = F[Len(match_stack)]
              /\ Stands(source, top, x, y) /\ x.at \in Nat \ {0} /\ y.at \in Nat \ {0}
              /\ y.at < p /\ Told(y.told \cup fl)
              /\ Reading(value1, fl) \in Rd(source, 0, y.at, p - 1)
  BY <1>2, <1>3, <1>4, TopMeans
<1>6. /\ Marks(F, source, Front(match_stack)) /\ Len(Front(match_stack)) + 1 = Len(match_stack)
      /\ Front(match_stack) \in Seq(S)
  BY <1>3, <1>5, MarksPop
<1>7. StandsParens(source, top, x, y)
  BY <1>2, <1>5 DEF Stands
<1>8. PICK o \in Nat \ {0} : o = top.open
  <2>1. ItemTyped(top)
    BY <1>3, TopTyped
  <2>2. top.open \in 1..MaxOpen
    BY <1>2, <2>1 DEF ItemTyped, IsParen
  <2>3. QED
    BY <2>2
<1>9. PICK b \in Nat \ {0} : b = p /\ b <= Len(source) /\ Len(source) \in Nat
  BY <1>2, TextIs DEF WaitInv
<1>10. PICK h \in Nat \ {0}, a \in Nat \ {0} : h = y.at /\ a = x.at /\ h = a + o /\ h < b
  BY <1>5, <1>7, <1>8, <1>9 DEF StandsParens
<1>11. h - 1 \in Nat \ {0} /\ h - 1 < b /\ (h - 1) + 1 = h /\ h - 1 \in a..h - 1 /\ b \in Int
       /\ h - 1 < b + 1 /\ (b + 1) - 1 = b
  BY <1>10
<1>12. source[h - 1].op = "("
  BY <1>7, <1>10, <1>11 DEF StandsParens
<1>13. PICK r : r = Reading(value1, fl)
  OBVIOUS
<1>14. r \in Rd(source, 0, (h - 1) + 1, b - 1)
  BY <1>5, <1>9, <1>10, <1>11, <1>13
<1>15. ASSUME NEW k \in Levels PROVE r \in Rd(source, k, h - 1, b)
  <2>1. source[b].op = ")"
    BY <1>2, <1>9
  <2>2. QED
    BY <1>9, <1>11, <1>12, <1>14, <2>1, ReadingParens
<1>16. 5 \in Levels /\ level' \in Levels
  BY DEF Levels, WaitInv, TextOK
<1>17. PICK g \in Nat \ {0} : g = h - 1 /\ g < b + 1
  BY <1>11
<1>18. /\ r = Reading(value1', fl) /\ r \in Rd(source', rank', g, p' - 1)
       /\ r \in Rd(source', level', g, p' - 1)
  BY <1>2, <1>9, <1>11, <1>13, <1>15, <1>16, <1>17
<1>19. g < p' /\ pc' \in {"operator", "pop"}
  BY <1>2, <1>9, <1>17
<1>20. y.told = x.told /\ Told(x.told \cup fl)'
  <2>1. x.told = y.told
    BY <1>7 DEF StandsParens
  <2>2. QED
    BY <1>2, <1>5, <2>1, ToldStays
<1>21. CASE top.open = 1 /\ match_stack' = Front(match_stack)
  <2>1. x.at = g
    BY <1>8, <1>10, <1>17, <1>21
  <2>2. Marks(F, source', match_stack') /\ x = F[Len(match_stack') + 1]
    BY <1>2, <1>5, <1>6, <1>21
  <2>3. QED
    BY <1>18, <1>19, <1>20, <2>1, <2>2, MeansValue
<1>22. CASE top.open # 1 /\ match_stack' = Append(Front(match_stack), item)
  <2>1. PICK z : z.at = g /\ z.told = x.told
    BY MarkIs
  <2>2. PICK V : top \in Items(V)
    <3>1. PICK V : match_stack \in Seq(Items(V)) /\ Ordered(match_stack)
      BY DEF WaitInv, StackOK
    <3>2. top \in Items(V)
      BY <1>3, <3>1, PopKeeps DEF top
    <3>3. QED
      BY <3>2
  <2>3. item.open = o - 1 /\ item.casei = top.casei
    BY <1>1, <1>8, <2>2 DEF Items
  <2>4. StandsParens(source, item, x, z)
    <3>1. z.at = x.at + item.open
      <4>1. g = a + (o - 1)
        BY <1>10, <1>17
      <4>2. QED
        BY <1>10, <2>1, <2>3, <4>1
    <3>2. \A i \in a..g - 1 : i \in a..h - 1
      BY <1>10, <1>17
    <3>3. \A i \in x.at..z.at - 1 : source[i].op = "("
      BY <1>7, <1>10, <2>1, <3>2 DEF StandsParens
    <3>4. QED
      BY <2>1, <3>1, <3>3 DEF StandsParens
  <2>5. Stands(source, item, x, z)
    <3>1. ~IsSign(item.casei) /\ item.casei \notin Binary
      BY <1>2, <1>4, <2>3, KindsDiffer
    <3>2. QED
      BY <2>4, <3>1 DEF Stands
  <2>6. PICK n \in Nat : n = Len(Front(match_stack)) /\ Len(match_stack') = n + 1
    BY <1>6, <1>22
  <2>7. x = F[n + 1] /\ n + 2 = Len(match_stack') + 1
    BY <1>5, <1>6, <2>6
  <2>8. PICK stack \in Seq(S) : stack = Front(match_stack)
    BY <1>6
  <2>9. PICK G : Marks(G, source, Append(stack, item)) /\ G[n + 2] = z
    <3>1. Stands(source, item, F[Len(stack) + 1], z) /\ n = Len(stack)
      BY <2>5, <2>6, <2>7, <2>8
    <3>2. Marks(F, source, stack) /\ z.at \in Nat \ {0}
      BY <1>6, <2>1, <2>8
    <3>3. \E G : Marks(G, source, Append(stack, item)) /\ G[Len(stack) + 2] = z
      BY <3>1, <3>2, MarksPush
    <3>4. QED
      BY <3>1, <3>3
  <2>10. Marks(G, source', match_stack') /\ z = G[Len(match_stack') + 1]
    BY <1>2, <1>22, <2>7, <2>8, <2>9
  <2>11. Told(z.told \cup fl)'
    <3>1. z.told \cup fl = y.told \cup fl
      BY <1>20, <2>1
    <3>2. QED
      BY <1>2, <1>5, <3>1, ToldStays
  <2>12. r \in Rd(source', rank', z.at, p' - 1) /\ r \in Rd(source', level', z.at, p' - 1) /\ z.at < p'
    BY <1>18, <1>19, <2>1
  <2>13. QED
    BY <1>18, <1>19, <2>10, <2>11, <2>12, MeansValue
<1>23. QED
  BY <1>2, <1>21, <1>22

\* What is read of an operand, and what is told of it.
LEMMA OperandIs ==
    ASSUME WaitInv, Typed, Operand, Whole', Scans'
    PROVE  \E fl : /\ Reading(value1', fl) \in OperandReading(source[p])
                   /\ has_undefined' <=> has_undefined \/ "Undefined label" \in fl
                   /\ errors' = IF assembler_pass > 1 THEN errors \cup fl ELSE errors
<1>1. "bad label" \notin errors' /\ pc' # "done"
  BY DEF Whole, Scans
<1>0. ASSUME Reading(value1', {}) \in OperandReading(source[p]), errors' = errors,
             has_undefined' <=> has_undefined
      PROVE  \E fl : /\ Reading(value1', fl) \in OperandReading(source[p])
                     /\ has_undefined' <=> has_undefined \/ "Undefined label" \in fl
                     /\ errors' = IF assembler_pass > 1 THEN errors \cup fl ELSE errors
  <2>1. PICK fl : fl = {}
    OBVIOUS
  <2>2. "Undefined label" \notin fl /\ errors \cup fl = errors
    BY <2>1
  <2>3. Reading(value1', fl) \in OperandReading(source[p])
    BY <1>0, <2>1
  <2>4. has_undefined' <=> has_undefined \/ "Undefined label" \in fl
    BY <1>0, <2>2
  <2>5. errors' = IF assembler_pass > 1 THEN errors \cup fl ELSE errors
    BY <1>0, <2>2
  <2>6. QED
    BY <2>3, <2>4, <2>5
<1>2. CASE MatchLiteral
  <2>1. /\ source[p].op = "literal" /\ value1' = Literal(source[p].text).value
        /\ errors' = errors /\ has_undefined' = has_undefined
    BY <1>1, <1>2, Zenon DEF MatchLiteral, HaveValue, At
  <2>2. Reading(value1', {}) \in OperandReading(source[p])
    BY <2>1, Zenon DEF OperandReading
  <2>3. QED
    BY <1>0, <2>1, <2>2
<1>3. CASE MatchCharacters
  <2>1. /\ source[p].op = "characters" /\ value1' = CharacterConstant(source[p].bytes)
        /\ errors' = errors /\ has_undefined' = has_undefined
    BY <1>3, Zenon DEF MatchCharacters, HaveValue, At
  <2>2. Reading(value1', {}) \in OperandReading(source[p])
    BY <2>1, Zenon DEF OperandReading
  <2>3. QED
    BY <1>0, <2>1, <2>2
<1>4. CASE MatchAddress
  <2>1. /\ source[p].op \in {"$", "$$"}
        /\ value1' = IF source[p].op = "$" THEN Address ELSE StartAddress
        /\ errors' = errors /\ has_undefined' = has_undefined
    BY <1>4, Zenon DEF MatchAddress, HaveValue, At
  <2>2. Reading(value1', {}) \in OperandReading(source[p])
    BY <2>1, Zenon DEF OperandReading
  <2>3. QED
    BY <1>0, <2>1, <2>2
<1>5. CASE MatchLabel
  <2>1. PICK defined \in BOOLEAN : defined <=> source[p].name \in DOMAIN Labels
    BY Zenon
  <2>2. /\ source[p].op = "label"
        /\ value1' = (IF defined THEN Labels[source[p].name] ELSE 0)
        /\ has_undefined' <=> has_undefined \/ ~defined
        /\ errors' = IF defined \/ assembler_pass <= 1 THEN errors
                     ELSE errors \cup {"Undefined label"}
    BY <1>5, <2>1, Zenon DEF MatchLabel, HaveValue, At
  <2>3. OperandReading(source[p]) = IF defined THEN {Reading(Labels[source[p].name], {})}
                                    ELSE {Reading(0, {"Undefined label"})}
    BY <2>1, <2>2, Zenon DEF OperandReading
  <2>4. CASE defined
    <3>1. Reading(value1', {}) \in OperandReading(source[p])
      BY <2>2, <2>3, <2>4
    <3>2. errors' = errors /\ (has_undefined' <=> has_undefined)
      BY <2>2, <2>4
    <3>3. QED
      BY <1>0, <3>1, <3>2
  <2>5. CASE ~defined
    <3>1. Reading(value1', {"Undefined label"}) \in OperandReading(source[p])
      BY <2>2, <2>3, <2>5
    <3>2. errors' = IF assembler_pass > 1 THEN errors \cup {"Undefined label"} ELSE errors
      <4>1. assembler_pass <= 1 <=> ~(assembler_pass > 1)
        BY DEF Typed
      <4>2. QED
        BY <2>2, <2>5, <4>1
    <3>3. QED
      BY <2>2, <2>5, <3>1, <3>2
  <2>6. QED
    BY <2>4, <2>5
<1>6. CASE MatchNothing
  BY <1>1, <1>6, Zenon DEF MatchNothing, Fail
<1>7. QED
  BY <1>2, <1>3, <1>4, <1>5, <1>6 DEF Operand

LEMMA OperandMeans ==
    ASSUME WaitInv, WaitInv', Typed, Means, Operand, Whole, Whole', Scans'
    PROVE  Means'
<1>1. /\ pc = "match" /\ pc' = "operator" /\ rank' = 5
      /\ p' = p + 1 /\ p <= Len(source) /\ source[p].op \in OperandTokens
      /\ UNCHANGED <<source, assembler_pass, match_stack, level>>
  BY OperandGoes
<1>2. PICK F, x : /\ Marks(F, source, match_stack) /\ x = F[Len(match_stack) + 1] /\ Meant(x)
                  /\ x.at \in Nat \ {0}
  BY <1>1, MeansIs DEF Scans
<1>3. x.at = p /\ Told(x.told)
  BY <1>1, <1>2 DEF Meant
<1>4. PICK fl : /\ Reading(value1', fl) \in OperandReading(source[p])
                /\ has_undefined' <=> has_undefined \/ "Undefined label" \in fl
                /\ errors' = IF assembler_pass > 1 THEN errors \cup fl ELSE errors
  BY OperandIs
<1>5. Told(x.told \cup fl)'
  <2>1. has_undefined' <=> "Undefined label" \in x.told \cup fl
    BY <1>3, <1>4 DEF Told
  <2>2. errors' = IF assembler_pass' > 1 THEN x.told \cup fl ELSE {}
    BY <1>1, <1>3, <1>4 DEF Told
  <2>3. QED
    BY <2>1, <2>2 DEF Told
<1>6. PICK a \in Nat \ {0} : a = p /\ a <= Len(source) /\ a < a + 1 /\ (a + 1) - 1 = a
  BY <1>1, TextIs DEF WaitInv
<1>7. PICK r : r = Reading(value1', fl)
  OBVIOUS
<1>8. ASSUME NEW k \in Levels PROVE r \in Rd(source, k, a, a)
  <2>1. r \in OperandReading(source[a])
    BY <1>4, <1>6, <1>7
  <2>2. QED
    BY <1>6, <2>1, TextIs, ReadingOperand DEF WaitInv
<1>9. 5 \in Levels /\ level' \in Levels
  BY DEF Levels, WaitInv, TextOK
<1>10. r \in Rd(source', rank', x.at, p' - 1) /\ r \in Rd(source', level', x.at, p' - 1)
  BY <1>1, <1>3, <1>6, <1>8, <1>9
<1>11. x.at < p' /\ pc' \in {"operator", "pop"}
  BY <1>1, <1>3, <1>6
<1>12. Marks(F, source', match_stack') /\ x = F[Len(match_stack') + 1]
  BY <1>1, <1>2
<1>13. QED
  BY <1>5, <1>7, <1>10, <1>11, <1>12, MeansValue

LEMMA MeansKept ==
    ASSUME WaitInv, WaitInv', Typed, Means, [Next]_vars
    PROVE  Means'
<1>1. SUFFICES ASSUME Whole', Scans' PROVE Means'
  BY DEF Means
<1>2. Whole
  BY <1>1, WholeBefore
<1>3. CASE MatchParens \/ MatchSigns \/ Operand \/ MatchOperator
  BY <1>1, <1>2, <1>3, ParensMean, SignsMeant, OperandMeans, OperatorMeans
<1>4. CASE CloseParen \/ ApplySign \/ ApplyOperator
  BY <1>2, <1>4, CloseParenMeans, ApplySignMeans, ApplyOperatorMeans
<1>5. CASE MissingParen \/ DivisionTraps
  BY <1>1, <1>5, Zenon DEF MissingParen, DivisionTraps, Fail, Scans
<1>6. CASE EndOperand \/ UNCHANGED vars
  <2>1. /\ UNCHANGED <<source, assembler_pass, match_stack, level, value1, rank, has_undefined,
                       errors, p>>
        /\ pc' = pc \/ (pc = "operator" /\ pc' \in {"pop", "done"})
    BY <1>6, Zenon DEF EndOperand, vars, position
  <2>2. pc' = pc \/ (pc = "operator" /\ pc' = "pop")
    BY <1>1, <2>1 DEF Scans
  <2>3. Scans
    BY <1>1, <2>2 DEF Scans
  <2>4. PICK F, x : Marks(F, source, match_stack) /\ x = F[Len(match_stack) + 1] /\ Meant(x)
    BY <1>2, <2>3 DEF Means
  <2>5. CASE pc = "match"
    <3>1. x.at = p /\ Told(x.told) /\ pc' = "match"
      BY <2>2, <2>4, <2>5 DEF Meant
    <3>2. Told(x.told)'
      BY <2>1, <3>1, ToldStays
    <3>3. Meant(x)'
      BY <2>1, <3>1, <3>2 DEF Meant
    <3>4. QED
      BY <2>1, <2>4, <3>3 DEF Means
  <2>6. CASE pc \in {"operator", "pop"}
    <3>1. pc' \in {"operator", "pop"}
      BY <2>2, <2>6
    <3>2. PICK fl : /\ x.at < p /\ Told(x.told \cup fl)
                    /\ Reading(value1, fl) \in Rd(source, rank, x.at, p - 1)
                    /\ Reading(value1, fl) \in Rd(source, level, x.at, p - 1)
      BY <2>4, <2>6 DEF Meant
    <3>3. Told(x.told \cup fl)'
      BY <2>1, <3>2, ToldStays
    <3>4. PICK r : r = Reading(value1, fl) /\ r = Reading(value1', fl)
      BY <2>1
    <3>5. r \in Rd(source', rank', x.at, p' - 1) /\ r \in Rd(source', level', x.at, p' - 1)
      BY <2>1, <3>2, <3>4
    <3>6. Marks(F, source', match_stack') /\ x = F[Len(match_stack') + 1] /\ x.at < p'
      BY <2>1, <2>4, <3>2
    <3>7. QED
      BY <3>1, <3>3, <3>4, <3>5, <3>6, MeansValue
  <2>7. QED
    BY <2>3, <2>5, <2>6 DEF Scans
<1>7. QED
  BY <1>3, <1>4, <1>5, <1>6, Zenon DEF Next, Pop, Done

LEMMA MeansInit == ASSUME Init PROVE Means /\ UsedRight
<1>1. /\ source \in Sources /\ p = 1 /\ match_stack = <<>> /\ pc = "match"
      /\ has_undefined = FALSE /\ used = {} /\ errors = {}
  BY Zenon DEF Init
<1>2. PICK x : x = Mark(1, {})
  OBVIOUS
<1>3. x.at = 1 /\ x.told = {}
  BY <1>2 DEF Mark
<1>4. PICK F : F = [i \in {1} |-> x]
  OBVIOUS
<1>5. Len(match_stack) = 0 /\ Len(match_stack) + 1 = 1 /\ F[1] = x
  BY <1>1, <1>4
<1>6. Marks(F, source, match_stack)
  BY <1>2, <1>3, <1>5 DEF Marks
<1>7. Told(x.told)
  BY <1>1, <1>3 DEF Told
<1>8. Meant(x)
  BY <1>1, <1>3, <1>7 DEF Meant
<1>9. Means
  BY <1>5, <1>6, <1>8 DEF Means
<1>10. UsedRight
  <2>1. 1..0 = {}
    OBVIOUS
  <2>2. UsesOf(source, 0) = {}
    BY <2>1 DEF UsesOf
  <2>3. QED
    BY <1>1, <2>2 DEF UsedRight
<1>11. QED
  BY <1>9, <1>10

-----------------------------------------------------------------------------
(* The result. *)

\* ResultIsRight of what is returned, by name.
RightEnd(text, e, value, undefined, texts, uses) ==
    \E r \in Rd(text, 0, 1, e - 1) :
        /\ value = IF "Undefined label" \in r.flaws THEN 0 ELSE r.value
        /\ undefined = ("Undefined label" \in r.flaws)
        /\ texts = IF assembler_pass > 1 THEN r.flaws ELSE {}
        /\ uses = UsesOf(text, e - 1)

Right ==
    IF end = 0 THEN NothingHere
    ELSE /\ ~IsOperator(end)
         /\ RightEnd(source, end, instruction_value, has_undefined, errors, used)

Returned == pc = "done" /\ column = 0 /\ Clean(errors) => Right

LEMMA RightIs == ResultIsRight <=> Returned
<1>1. \A j : Readings(1, j) = Rd(source, 0, 1, j)
  BY DEF Readings, Rd
<1>2. Uses(1, end - 1) = UsesOf(source, end - 1)
  BY UsesAre
<1>3. (\E r \in Readings(1, end - 1) :
          LET undefined == "Undefined label" \in r.flaws
          IN  /\ instruction_value = IF undefined THEN 0 ELSE r.value
              /\ has_undefined = undefined
              /\ errors = IF assembler_pass > 1 THEN r.flaws ELSE {}
              /\ used = Uses(1, end - 1))
      <=> RightEnd(source, end, instruction_value, has_undefined, errors, used)
  BY <1>1, <1>2, Zenon DEF RightEnd
<1>4. QED
  BY <1>3, Zenon DEF ResultIsRight, Returned, Right, NothingHere

\* The scan stops behind an expression that nothing waits for.
LEMMA EndsRight ==
    ASSUME WaitInv, Typed, OpsTaken, Means, UsedRight, Whole, pc = "operator", ~TakesOperator,
           match_stack = <<>>
    PROVE  /\ p # 0 /\ ~IsOperator(p)
           /\ RightEnd(source, p, IF has_undefined THEN 0 ELSE value1, has_undefined, errors, used)
<1>1. p \in Nat \ {0} /\ Scans /\ column = 0
  BY TextIs DEF WaitInv, Scans, Whole
<1>2. level = 0 /\ Len(match_stack) = 0
  BY DEF WaitInv, StackOK, LevelAt
<1>3. ~IsOperator(p)
  <2>1. SUFFICES ASSUME IsOperator(p) PROVE FALSE
    OBVIOUS
  <2>2. /\ p <= Len(source) /\ source[p].op \in Binary /\ Rank[source[p].op] \in 0..5
        /\ Rank[source[p].op] <= rank
    BY <1>1, <2>1, OperatorIs DEF OpsTaken
  <2>3. At(Binary)
    BY <1>1, <2>2 DEF At
  <2>4. Rank[source[p].op] \in level..rank
    BY <1>2, <2>2 DEF WaitInv, TextOK
  <2>5. QED
    BY <2>1, <2>3, <2>4 DEF TakesOperator
<1>4. PICK F, x : Marks(F, source, match_stack) /\ x = F[Len(match_stack) + 1] /\ Meant(x)
  BY <1>1 DEF Means
<1>5. x = Mark(1, {})
  BY <1>2, <1>4 DEF Marks
<1>6. x.at = 1 /\ x.told = {}
  BY <1>5 DEF Mark
<1>7. PICK fl : Told(x.told \cup fl) /\ Reading(value1, fl) \in Rd(source, level, x.at, p - 1)
  BY <1>4 DEF Meant
<1>8. x.told \cup fl = fl
  BY <1>6
<1>9. PICK r : r = Reading(value1, fl)
  OBVIOUS
<1>10. r.value = value1 /\ r.flaws = fl /\ r \in Rd(source, 0, 1, p - 1)
  BY <1>2, <1>6, <1>7, <1>9 DEF Reading
<1>11. /\ has_undefined <=> "Undefined label" \in r.flaws
       /\ errors = IF assembler_pass > 1 THEN r.flaws ELSE {}
  BY <1>7, <1>8, <1>10 DEF Told
<1>12. has_undefined = ("Undefined label" \in r.flaws)
  BY <1>11 DEF Typed
<1>13. used = UsesOf(source, p - 1)
  BY <1>1 DEF UsedRight
<1>14. (IF has_undefined THEN 0 ELSE value1) = IF "Undefined label" \in r.flaws THEN 0 ELSE r.value
  BY <1>10, <1>11
<1>15. RightEnd(source, p, IF has_undefined THEN 0 ELSE value1, has_undefined, errors, used)
  BY <1>10, <1>11, <1>12, <1>13, <1>14, Zenon DEF RightEnd
<1>16. QED
  BY <1>1, <1>3, <1>15

LEMMA RightKept ==
    ASSUME WaitInv, Typed, OpsTaken, Walks, UsedRight, Means, Returned, [Next]_vars
    PROVE  Returned'
<1>1. SUFFICES ASSUME pc' = "done", column' = 0, Clean(errors') PROVE Right'
  BY DEF Returned
<1>2. "Expression too deep" \notin errors' /\ "bad label" \notin errors'
  BY <1>1 DEF Clean
<1>3. Whole
  BY <1>1, <1>2, WholeBefore DEF Whole
<1>4. CASE UNCHANGED vars
  <2>1. UNCHANGED <<source, end, instruction_value, has_undefined, errors, used, assembler_pass, pc,
                    column>>
    BY <1>4 DEF vars, result, position
  <2>2. Right
    BY <1>1, <2>1 DEF Returned
  <2>3. QED
    BY <2>1, <2>2 DEF Right, NothingHere, IsOperator, Readings, RightEnd
<1>5. CASE MatchNothing \/ MissingParen
  <2>1. end' = 0 /\ UNCHANGED source
    BY <1>5, Zenon DEF MatchNothing, MissingParen, Fail, unchangedByPop
  <2>2. NothingHere
    BY <1>3, <1>5, GivesUpRight
  <2>3. NothingHere'
    BY <2>1, <2>2 DEF NothingHere, IsOperator, Readings
  <2>4. QED
    BY <2>1, <2>3 DEF Right
<1>6. CASE EndOperand
  <2>1. /\ pc = "operator" /\ ~TakesOperator /\ match_stack = <<>> /\ end' = p
        /\ instruction_value' = (IF has_undefined THEN 0 ELSE value1)
        /\ UNCHANGED <<source, assembler_pass, has_undefined, used, errors>>
    BY <1>1, <1>6, Zenon DEF EndOperand
  <2>2. /\ p # 0 /\ ~IsOperator(p)
        /\ RightEnd(source, p, IF has_undefined THEN 0 ELSE value1, has_undefined, errors, used)
    BY <1>3, <2>1, EndsRight
  <2>3. ~IsOperator(p) /\ (IsOperator(p) <=> IsOperator(end)')
    BY <2>1, <2>2 DEF IsOperator
  <2>4. RightEnd(source, end, instruction_value, has_undefined, errors, used)'
    BY <2>1, <2>2 DEF RightEnd
  <2>5. QED
    BY <2>1, <2>2, <2>3, <2>4 DEF Right
<1>7. CASE MatchParens \/ MatchSigns \/ MatchOperator
  <2>1. "Expression too deep" \in errors' \/ pc' = "match"
    BY <1>7, Zenon DEF MatchParens, MatchSigns, MatchOperator, Push, Fail
  <2>2. QED
    BY <1>1, <1>2, <2>1
<1>8. CASE \/ MatchLiteral \/ MatchCharacters \/ MatchAddress \/ MatchLabel \/ CloseParen
           \/ ApplySign \/ ApplyOperator \/ DivisionTraps
  BY <1>1, <1>8, Zenon DEF MatchLiteral, MatchCharacters, MatchAddress, MatchLabel, CloseParen,
               ApplySign, ApplyOperator, DivisionTraps, HaveValue
<1>9. QED
  BY <1>4, <1>5, <1>6, <1>7, <1>8, Zenon DEF Next, Operand, Pop, Done

RightInv == Typed /\ OpsTaken /\ Walks /\ UsedRight /\ Means /\ Returned

\* match_expression() reads the longest expression there is at this place, with the
\* value and the messages of a derivation of the grammar, and gives up only if there
\* is none that has no operator behind it, or if a literal is bad or the stack too
\* small: for every text and every nesting.
THEOREM ExpressionsAreRight == Spec => []ResultIsRight
<1>1. Init => WaitInv /\ FlatInv /\ RightInv
  <2>1. Init => Returned
    BY Zenon DEF Init, Returned
  <2>2. QED
    BY <2>1, InitOK, InitTyped, WalkInit, MeansInit DEF RightInv
<1>2. WaitInv /\ FlatInv /\ RightInv /\ [Next]_vars => (WaitInv /\ FlatInv /\ RightInv)'
  <2>1. SUFFICES ASSUME WaitInv, FlatInv, RightInv, [Next]_vars
                 PROVE  WaitInv' /\ FlatInv' /\ RightInv'
    OBVIOUS
  <2>2. Typed /\ OpsTaken /\ Walks /\ UsedRight /\ Means /\ Returned
    BY <2>1 DEF RightInv
  <2>3. WaitInv' /\ FlatInv'
    BY <2>1, StepKeeps
  <2>4. Typed'
    BY <2>1, <2>2, StepTyped
  <2>5. OpsTaken' /\ Walks' /\ UsedRight' /\ Means'
    BY <2>1, <2>2, <2>3, <2>4, OpsKept, WalkKept, UsedKept, MeansKept
  <2>6. Returned'
    BY <2>1, <2>2, RightKept
  <2>7. QED
    BY <2>3, <2>4, <2>5, <2>6 DEF RightInv
<1>3. WaitInv /\ FlatInv /\ RightInv => ResultIsRight
  BY RightIs DEF RightInv
<1>4. QED
  BY <1>1, <1>2, <1>3, PTL DEF Spec

=============================================================================
