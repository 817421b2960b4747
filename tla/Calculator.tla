----------------------------- MODULE Calculator -----------------------------
(***************************************************************************)
(* The calculator tool (tools/builtin/calculatorTool.ts): an expression,   *)
(* token by token, into postfix order (toRPN), and that evaluated on a     *)
(* stack (evalRPN).  Arithmetic is left out, and division by zero with it: *)
(* a value is the tree of the operations that made it, every number "n",   *)
(* so that the model tells which operands an operator gets.                *)
(***************************************************************************)
EXTENDS Integers, SequencesExt

CONSTANTS
  Operators,     \* the binary ones in use, of "+", "-", "*", "/", "%", "^"
  LooseTokens,   \* tokens thrown together without a meaning,
  MaxLoose       \*   that many at most

ASSUME CalculatorAssumption == Operators \subseteq {"+", "-", "*", "/", "%", "^"} /\ MaxLoose \in Nat

VARIABLES
  meant,    \* the tree the tokens were written for, or NoTree
  tokens,
  at,       \* the next token: of `tokens` first, then of `output`
  output,
  ops,      \* the operators and parentheses that wait, the top last
  stack,
  stage     \* "convert", "evaluate", "done", "mismatched", "invalid"

calculatorVars == <<meant, tokens, at, output, ops, stack, stage>>

Precedence ==
  [op \in {"+", "-", "*", "/", "%", "^", "u-"} |->
     CASE op \in {"+", "-"} -> 1 [] op \in {"*", "/", "%"} -> 2 [] op = "^" -> 3 [] op = "u-" -> 4]
RightAssociative == {"^", "u-"}

-----------------------------------------------------------------------------
(* What the user means, and writes: parentheses where precedence and associativity want them *)

Number == <<"n">>
NoTree == <<"none">>
Undefined == <<"undefined">>

Over(trees) == {<<"u-", a>> : a \in trees} \union {<<op, a, b>> : op \in Operators, a \in trees, b \in trees}
Shallow == {Number} \union Over({Number})
Trees == {Number} \union Over(Shallow)

Tightness(a) == IF a = Number THEN 5 ELSE Precedence[a[1]]
Enclosed(s, needed) == IF needed THEN <<"(">> \o s \o <<")">> ELSE s

WrittenOut[a \in Trees] ==
  LET operand(b, enclosed) == Enclosed(WrittenOut[b], enclosed)
      rank  == Precedence[a[1]]
      right == a[1] \in RightAssociative
  IN IF a = Number THEN <<"n">>
     ELSE IF Len(a) = 2 THEN <<"-">> \o operand(a[2], Tightness(a[2]) < rank)
     ELSE operand(a[2], Tightness(a[2]) < rank \/ (right /\ Tightness(a[2]) = rank))
          \o <<a[1]>> \o
          operand(a[3], Tightness(a[3]) < rank \/ (~right /\ Tightness(a[3]) = rank))

CalculatorInit ==
  /\ \/ meant \in Trees /\ tokens = WrittenOut[meant]
     \/ meant = NoTree /\ tokens \in UNION {[1..n -> LooseTokens] : n \in 0..MaxLoose}
  /\ at = 1 /\ output = <<>> /\ ops = <<>> /\ stack = <<>> /\ stage = "convert"

CalculatorTypeOK ==
  /\ meant \in Trees \union {NoTree} /\ at \in 1..(Len(tokens) + 1)
  /\ output \in Seq({"n"} \union DOMAIN Precedence) /\ ops \in Seq({"("} \union DOMAIN Precedence)
  /\ Len(stack) <= Len(output)
  /\ stage \in {"convert", "evaluate", "done", "mismatched", "invalid"}

-----------------------------------------------------------------------------
(* toRPN *)

\* The operators above place k of the stack, as they are popped.
Above(k) == Reverse(SubSeq(ops, k + 1, Len(ops)))
LastPlace(places) == Max(places \union {0})

Outranks(a, b) ==
  Precedence[a] > Precedence[b] \/ (Precedence[a] = Precedence[b] /\ b \notin RightAssociative)

OperatorRead_NeverASign == tokens[at]
OperatorRead == LET t == tokens[at] IN
  IF t = "-" /\ (at = 1 \/ tokens[at - 1] \in {"+", "-", "*", "/", "%", "^", "("}) THEN "u-" ELSE t

Opening == LastPlace({k \in 1..Len(ops) : ops[k] = "("})
\* How far down the operators stay when op comes.
KeptFor(op) == LastPlace({k \in 1..Len(ops) : ops[k] = "(" \/ ~Outranks(ops[k], op)})

ReadsToken ==
  /\ stage = "convert" /\ at <= Len(tokens)
  /\ at' = at + 1
  /\ CASE tokens[at] = "n" -> output' = Append(output, "n") /\ UNCHANGED <<ops, stage>>
       [] tokens[at] = "(" -> ops' = Append(ops, "(") /\ UNCHANGED <<output, stage>>
       [] tokens[at] = ")" ->
            /\ output' = output \o Above(Opening)
            /\ ops' = SubSeq(ops, 1, Opening - 1)
            /\ stage' = IF Opening = 0 THEN "mismatched" ELSE stage
       [] OTHER ->
            LET op == OperatorRead
            IN /\ output' = output \o Above(KeptFor(op))
               /\ ops' = Append(SubSeq(ops, 1, KeptFor(op)), op) /\ UNCHANGED stage
  /\ UNCHANGED <<meant, tokens, stack>>

Drains ==
  /\ stage = "convert" /\ at = Len(tokens) + 1
  /\ IF Opening = 0 THEN stage' = "evaluate" /\ output' = output \o Above(0)
                    ELSE stage' = "mismatched" /\ output' = output \o Above(Opening)
  /\ ops' = SubSeq(ops, 1, Opening - 1) /\ at' = 1
  /\ UNCHANGED <<meant, tokens, stack>>

-----------------------------------------------------------------------------
(* evalRPN *)

\* A minus takes what is there, or the nothing there is; two operands must be there.
AppliesOperator ==
  /\ stage = "evaluate" /\ at <= Len(output)
  /\ at' = at + 1
  /\ LET op    == output[at]
         depth == Len(stack)
         below(k) == SubSeq(stack, 1, IF depth > k THEN depth - k ELSE 0)
     IN CASE op = "n"  -> stack' = Append(stack, Number) /\ UNCHANGED stage
          [] op = "u-" -> /\ stack' = Append(below(1), <<"u-", IF depth = 0 THEN Undefined ELSE stack[depth]>>)
                          /\ UNCHANGED stage
          [] OTHER     -> IF depth < 2 THEN stack' = below(2) /\ stage' = "invalid"
                          ELSE stack' = Append(below(2), <<op, stack[depth - 1], stack[depth]>>) /\ UNCHANGED stage
  /\ UNCHANGED <<meant, tokens, output, ops>>

ValueGiven ==
  /\ stage = "evaluate" /\ at = Len(output) + 1
  /\ stage' = IF Len(stack) = 1 THEN "done" ELSE "invalid"
  /\ UNCHANGED <<meant, tokens, at, output, ops, stack>>

CalculatorNext == ReadsToken \/ Drains \/ AppliesOperator \/ ValueGiven

CalculatorSpec == CalculatorInit /\ [][CalculatorNext]_calculatorVars

-----------------------------------------------------------------------------
(* Properties *)

\* How many parentheses are open after k tokens.
Depth(k) == Cardinality({i \in 1..k : tokens[i] = "("}) - Cardinality({i \in 1..k : tokens[i] = ")"})

Balanced == Depth(Len(tokens)) = 0 /\ \A k \in 1..Len(tokens) : Depth(k) >= 0

\* Parentheses are refused if and only if they do not match.
ParenthesesTell ==
  /\ stage = "mismatched" => ~Balanced
  /\ stage \in {"evaluate", "done", "invalid"} => Balanced

\* An expression written with no more parentheses than it needs has the value that was
\* meant, and never fails; and of any tokens, the parentheses tell.
CalculatesAsWritten ==
  /\ (meant # NoTree /\ stage = "done") => stack = <<meant>>
  /\ meant # NoTree => stage \notin {"mismatched", "invalid"}
  /\ ParenthesesTell
=============================================================================
