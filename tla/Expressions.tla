----------------------------- MODULE Expressions -----------------------------
(***************************************************************************)
(* Evaluate of the debugger's expression trees over the processor and its  *)
(* memory.  std::uint32_t is the range 0 .. UintRange - 1.  A read may     *)
(* reach the UART, so evaluation threads the bus cursor of module Memory   *)
(* from left to right; an exception ends it where it is thrown, after the  *)
(* reads made so far.                                                      *)
(***************************************************************************)
EXTENDS Cpu

CONSTANTS
  UintRange,             \* 2^32
  MaxHeight              \* of the trees that are evaluated

\* Two 16-bit words can be added, and an address is the low word.
ASSUME UintAssumption ==
  UintRange \in Nat \ {0} /\ UintRange % 65536 = 0
ASSUME MaxHeightAssumption == MaxHeight \in Nat

Uint(n) == n % UintRange

-----------------------------------------------------------------------------
(* The nodes of module Parser, by the height of the trees they make. *)

Operators == {"+", "-", "*", "/", "==", "!=", "<=", "&&"}

Leaf == [node : {"Number"}, value : 0 .. UintRange - 1]
        \cup [node : {"Register"}, name : STRING]
        \cup [node : {"SyntaxError"}]

Inner(trees) ==
  [node : {"Dereference"}, address : trees]
  \cup [node : {"UnaryMinus"}, child : trees]
  \cup [node : {"BinaryOp"}, op : Operators, left : trees, right : trees]

TreesTo[n \in Nat] == IF n = 0 THEN Leaf ELSE Leaf \cup Inner(TreesTo[n - 1])

Tree == TreesTo[MaxHeight]

-----------------------------------------------------------------------------
Result(value, bus) == [ok |-> TRUE, value |-> value, bus |-> bus]
Throw(bus)         == [ok |-> FALSE, value |-> 0, bus |-> bus]

ReadRegister(name, c) ==
  CASE name \in {"pc", "$pc"} -> Result(RegisterPC, c)
    [] name \in {"a", "$a"}   -> Result(Registers["A"], c)
    [] name \in {"x", "$x"}   -> Result(Registers["X"], c)
    [] name \in {"y", "$y"}   -> Result(Registers["Y"], c)
    [] name \in {"s", "$s"}   -> Result(Registers["S"], c)
    [] name \in {"p", "$p"}   -> Result(PackFlags(P), c)
    [] OTHER                  -> Throw(c)

Apply(op, l, r) ==
  CASE op = "+"  -> Uint(l + r)
    [] op = "-"  -> Uint(l - r)
    [] op = "*"  -> Uint(l * r)
    [] op = "/"  -> l \div r
    [] op = "==" -> IF l = r THEN 1 ELSE 0
    [] op = "!=" -> IF l # r THEN 1 ELSE 0
    [] op = "<=" -> IF l <= r THEN 1 ELSE 0
    [] op = "&&" -> IF r # 0 THEN 1 ELSE 0

\* A binary operator over the outcomes of its sides, the right one evaluated
\* behind the left one.  A left side that throws, or is 0 under &&, is the
\* outcome: the right side is not evaluated and its reads are not made.
Combine_BothSides(op, l, r) ==
  IF ~l.ok THEN l
  ELSE IF ~r.ok THEN r
  ELSE IF op = "/" /\ r.value = 0 THEN Throw(r.bus)
  ELSE Result(IF op = "&&" /\ l.value = 0 THEN 0 ELSE Apply(op, l.value, r.value),
              r.bus)
Combine(op, l, r) ==
  IF ~l.ok \/ (op = "&&" /\ l.value = 0) THEN l
  ELSE IF ~r.ok THEN r
  ELSE IF op = "/" /\ r.value = 0 THEN Throw(r.bus)
  ELSE Result(Apply(op, l.value, r.value), r.bus)

EvaluateLeaf(e, c) ==
  CASE e.node = "SyntaxError" -> Throw(c)
    [] e.node = "Number"      -> Result(e.value, c)
    [] e.node = "Register"    -> ReadRegister(e.name, c)

\* below evaluates a child behind a cursor.
EvaluateInner(e, c, below) ==
  CASE e.node = "Dereference" ->
         LET a == below[<<e.address, c>>]
             w == U16(a.value)
         IN  IF a.ok THEN Result(Read(w, a.bus), After(w, a.bus)) ELSE a
    [] e.node = "UnaryMinus"  ->
         LET v == below[<<e.child, c>>]
         IN  IF v.ok THEN Result(Uint(-v.value), v.bus) ELSE v
    [] e.node = "BinaryOp"    ->
         LET l == below[<<e.left, c>>]
         IN  Combine(e.op, l, below[<<e.right, l.bus>>])

EvaluateLevel(n, below) ==
  [q \in TreesTo[n] \X Cursor |->
     IF q[1] \in Leaf THEN EvaluateLeaf(q[1], q[2])
                      ELSE EvaluateInner(q[1], q[2], below)]

EvaluateTo[n \in Nat] == EvaluateLevel(n, EvaluateTo[n - 1])

Evaluate(e, c) == EvaluateTo[MaxHeight][<<e, c>>]
=============================================================================
