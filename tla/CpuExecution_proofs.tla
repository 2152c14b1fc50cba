------------------------ MODULE CpuExecution_proofs ------------------------
(***************************************************************************)
(* Proofs about CpuExecution for any programs, any size of the stack and   *)
(* its pages and any quantum: calls with arguments included.               *)
(***************************************************************************)
EXTENDS CpuExecution, SequenceLemmas, FiniteSetTheorems
-----------------------------------------------------------------------------
(* The invariant. *)

Exits == {"none", "NO_ERRORES", "STACK_OVERFLOW", "ERROR_SIN_DEFINIR", "ERROR_SINTAXIS"}

\* What the block holds of a call.
Contexts ==
    [vars : Seq(Variables) \cup {Null}, args : Seq(Variables) \cup {Null}, retpos : Nat, retvar : Places]

\* The variables of the first k calls: where the next one starts.
Below(stack, k) == VarsInStack(SubSeq(stack, 1, k))

Room == StackSize * Cells

\* After every call there is an instruction to return to.
CallersGoOn(stack) == \A i \in 2 .. Len(stack) : stack[i].retpos + 1 < Len(code)

\* A process that goes on has an instruction to go on with, and so has its caller.
TurnFits ==
    /\ code \in Program
    /\ pcb \in [pc : 0 .. Len(code), exit : Exits, stack : Seq(Contexts)]
    /\ Stack # <<>>
    /\ DOMAIN memory = Places
    /\ turn \in [at : {"kernel", "cpu", "exit", "gone"}, left : -1 .. Quantum, finished : BOOLEAN]
    /\ turn.at \in {"kernel", "cpu"} /\ ~turn.finished => pcb.pc < Len(code)
    /\ turn.at = "kernel" => ~turn.finished
    /\ CallersGoOn(Stack)

\* Every variable has the cell that its number among all variables gives, and there are
\* no more variables than cells.
Numbered(stack) ==
    /\ \A i \in 1 .. Len(stack) : \A j \in 1 .. Len(Listed(stack[i].vars)) :
           stack[i].vars[j].at = Place(Below(stack, i - 1) + j - 1)
    /\ VarsInStack(stack) <= Room

IInv == TurnFits /\ Numbered(Stack)
-----------------------------------------------------------------------------
(* Counting variables. VarsInStack is a fold, which the library computes from  *)
(* the last element to the first by a recursive function on sets of positions. *)

\* How many variables a context has.
Held(c) == Len(Listed(c.vars))

\* A nonempty set of positions has a last one, and Max is it.
LEMMA MaxIsLast ==
    ASSUME NEW n \in Nat, NEW I \in SUBSET (1 .. n), I # {}
    PROVE  Max(I) \in I /\ \A i \in I : i <= Max(I)
<1> DEFINE D == {n - i : i \in I}
<1>0. D \subseteq Nat /\ D # {}
  <2>1. \A i \in I : n - i \in Nat
    OBVIOUS
  <2>2. PICK i \in I : TRUE
    OBVIOUS
  <2>3. n - i \in D
    OBVIOUS
  <2>. QED  BY <2>1, <2>3
<1>1. PICK d \in D : \A e \in D : d <= e
  <2>. HIDE DEF D
  <2>. QED  BY <1>0, LeastMember
<1>2. PICK m \in I : d = n - m
  OBVIOUS
<1>3. \A i \in I : i <= m
  <2> SUFFICES ASSUME NEW i \in I PROVE i <= m
    OBVIOUS
  <2>1. d <= n - i
    BY <1>1
  <2>. QED  BY <1>2, <2>1
<1>4. \E x \in I : \A y \in I : x >= y
  BY <1>3
<1>5. Max(I) \in I /\ \A y \in I : Max(I) >= y
  BY <1>4 DEF Max
<1>. QED  BY <1>5

\* The function that adds w from the last position of a set to the first.
IsTotal(f, n, w) ==
    f = [I \in SUBSET (1 .. n) |-> IF I = {} THEN 0 ELSE f[I \ {Max(I)}] + w[Max(I)]]

LEMMA TotalExists ==
    ASSUME NEW n \in Nat, NEW w
    PROVE  \E f : IsTotal(f, n, w)
<1> DEFINE Good(k) == \E f : IsTotal(f, k, w)
           Bad == {k \in 0 .. n : ~Good(k)}
<1>1. Good(0)
  <2>1. SUBSET (1 .. 0) = {{}}
    OBVIOUS
  <2> DEFINE e == [I \in SUBSET (1 .. 0) |-> 0]
  <2>2. IsTotal(e, 0, w)
    BY <2>1 DEF IsTotal
  <2>. QED  BY <2>2
<1>2. ASSUME NEW k \in 1 .. n, Good(k - 1)
      PROVE  Good(k)
  <2>1. PICK f : IsTotal(f, k - 1, w)
    BY <1>2
  <2> DEFINE g == [I \in SUBSET (1 .. k) |-> IF I = {} THEN 0 ELSE f[I \ {Max(I)}] + w[Max(I)]]
  <2>2. ASSUME NEW I \in SUBSET (1 .. k), I # {}
        PROVE  I \ {Max(I)} \in SUBSET (1 .. k - 1)
    <3>0. k \in Nat
      OBVIOUS
    <3>1. Max(I) \in I /\ \A i \in I : i <= Max(I)
      BY ONLY <2>2, <3>0, MaxIsLast
    <3>2. ASSUME NEW i \in I \ {Max(I)} PROVE i \in 1 .. k - 1
      <4>1. i \in 1 .. k /\ Max(I) \in 1 .. k /\ i <= Max(I) /\ i # Max(I)
        BY <3>1
      <4>. QED  BY <4>1
    <3>. QED  BY <3>2
  <2>3. ASSUME NEW I \in SUBSET (1 .. k - 1)
        PROVE  I \in SUBSET (1 .. k) /\ g[I] = f[I]
    <3>1. I \in SUBSET (1 .. k)
      OBVIOUS
    <3>2. f[I] = IF I = {} THEN 0 ELSE f[I \ {Max(I)}] + w[Max(I)]
      BY <2>1 DEF IsTotal
    <3>. QED  BY <3>1, <3>2
  <2>4. \A I \in SUBSET (1 .. k) : I # {} => g[I \ {Max(I)}] = f[I \ {Max(I)}]
    BY <2>2, <2>3
  <2>5. g = [I \in SUBSET (1 .. k) |-> IF I = {} THEN 0 ELSE g[I \ {Max(I)}] + w[Max(I)]]
    <3> DEFINE h == [I \in SUBSET (1 .. k) |-> IF I = {} THEN 0 ELSE g[I \ {Max(I)}] + w[Max(I)]]
    <3>1. \A I \in SUBSET (1 .. k) : g[I] = h[I]
      BY <2>4
    <3>. QED  BY <3>1
  <2>. QED  BY <2>5 DEF IsTotal
<1>3. Bad = {}
  <2>. HIDE DEF Good
  <2>1. SUFFICES ASSUME Bad # {} PROVE FALSE
    OBVIOUS
  <2>2. PICK m \in Bad : \A k \in Bad : m <= k
    <3>1. Bad \subseteq Nat
      OBVIOUS
    <3>. HIDE DEF Bad
    <3>. QED  BY <2>1, <3>1, LeastMember
  <2>3. m \in 1 .. n /\ m - 1 \in 0 .. n /\ ~(m <= m - 1)
    BY <1>1, <2>2
  <2>4. Good(m - 1)
    BY <2>2, <2>3
  <2>. QED  BY <1>2, <2>2, <2>3, <2>4
<1>. QED
  <2>. HIDE DEF Good
  <2>1. Good(n)
    BY <1>3
  <2>. QED  BY <2>1 DEF Good

\* So vars_in_stack is the value of such a function.
LEMMA CountIsTotal ==
    ASSUME NEW s, NEW n \in Nat, DOMAIN s = 1 .. n
    PROVE  \E f : /\ IsTotal(f, n, [i \in 1 .. n |-> Held(s[i])])
                  /\ VarsInStack(s) = f[1 .. n]
<1> DEFINE S == 1 .. n
           w == [i \in S |-> Held(s[i])]
           IsIt(f) == f = [I \in SUBSET S |-> IF I = {} THEN 0
                                              ELSE f[I \ {Max(I)}] + Len(Listed(s[Max(I)].vars))]
           total == CHOOSE f : IsIt(f)
<1>1. VarsInStack(s) = total[S]
  BY DEF VarsInStack, FoldLeft, MapThenFoldSet
<1>2. ASSUME NEW f
      PROVE  IsIt(f) <=> IsTotal(f, n, w)
  <2> DEFINE A == [I \in SUBSET S |-> IF I = {} THEN 0
                                      ELSE f[I \ {Max(I)}] + Len(Listed(s[Max(I)].vars))]
             B == [I \in SUBSET S |-> IF I = {} THEN 0 ELSE f[I \ {Max(I)}] + w[Max(I)]]
  <2>1. ASSUME NEW I \in SUBSET S PROVE A[I] = B[I]
    <3>1. I # {} => Max(I) \in S
      BY MaxIsLast
    <3>. QED  BY <3>1 DEF Held
  <2>2. A = B
    BY <2>1
  <2>. HIDE DEF w
  <2>. QED  BY <2>2 DEF IsTotal
<1>3. IsIt(total)
  <2>1. PICK f : IsTotal(f, n, w)
    <3>. HIDE DEF w
    <3>. QED  BY TotalExists
  <2>. HIDE DEF IsIt, w
  <2>. QED  BY <1>2, <2>1
<1>. QED
  <2>. HIDE DEF total, IsIt, w
  <2>1. IsTotal(total, n, w)
    BY <1>2, <1>3
  <2>. QED  BY <1>1, <2>1 DEF w

\* What is added up to a position needs nothing after it.
LEMMA TotalStep ==
    ASSUME NEW n \in Nat, NEW w, NEW f, IsTotal(f, n, w)
    PROVE  /\ f[1 .. 0] = 0
           /\ \A k \in 1 .. n : f[1 .. k] = f[1 .. k - 1] + w[k]
<1>1. \A I \in SUBSET (1 .. n) : f[I] = IF I = {} THEN 0 ELSE f[I \ {Max(I)}] + w[Max(I)]
  BY DEF IsTotal
<1>2. f[1 .. 0] = 0
  <2>1. 1 .. 0 = {} /\ 1 .. 0 \in SUBSET (1 .. n)
    OBVIOUS
  <2>. QED  BY <1>1, <2>1
<1>3. ASSUME NEW k \in 1 .. n
      PROVE  f[1 .. k] = f[1 .. k - 1] + w[k]
  <2>1. 1 .. k \in SUBSET (1 .. n) /\ 1 .. k # {} /\ k \in 1 .. k
    OBVIOUS
  <2>2. Max(1 .. k) \in 1 .. k /\ \A i \in 1 .. k : i <= Max(1 .. k)
    BY <2>1, MaxIsLast
  <2>3. Max(1 .. k) = k
    BY <2>1, <2>2
  <2>4. (1 .. k) \ {k} = 1 .. k - 1
    OBVIOUS
  <2>. QED  BY <1>1, <2>1, <2>3, <2>4
<1>. QED  BY <1>2, <1>3

LEMMA TotalsAgree ==
    ASSUME NEW n \in Nat, NEW w, NEW f, IsTotal(f, n, w),
           NEW m \in Nat, NEW v, NEW g, IsTotal(g, m, v),
           NEW k \in Nat, k <= n, k <= m, \A i \in 1 .. k : w[i] = v[i]
    PROVE  f[1 .. k] = g[1 .. k]
<1> DEFINE Bad == {i \in 0 .. k : f[1 .. i] # g[1 .. i]}
<1>1. f[1 .. 0] = 0 /\ \A i \in 1 .. n : f[1 .. i] = f[1 .. i - 1] + w[i]
  BY TotalStep
<1>2. g[1 .. 0] = 0 /\ \A i \in 1 .. m : g[1 .. i] = g[1 .. i - 1] + v[i]
  BY TotalStep
<1>3. Bad = {}
  <2>1. SUFFICES ASSUME Bad # {} PROVE FALSE
    OBVIOUS
  <2>2. PICK i \in Bad : \A j \in Bad : i <= j
    <3>1. Bad \subseteq Nat
      OBVIOUS
    <3>. HIDE DEF Bad
    <3>. QED  BY <2>1, <3>1, LeastMember
  <2>3. i \in 1 .. k /\ i \in 1 .. n /\ i \in 1 .. m /\ i - 1 \in 0 .. k
    <3>1. i \in 0 .. k /\ f[1 .. i] # g[1 .. i]
      BY <2>2
    <3>2. i # 0
      BY <1>1, <1>2, <3>1
    <3>. QED  BY <3>1, <3>2
  <2>4. ~(i <= i - 1)
    BY <2>3
  <2>5. f[1 .. i - 1] = g[1 .. i - 1]
    BY <2>2, <2>3, <2>4
  <2>6. w[i] = v[i]
    BY <2>3
  <2>7. f[1 .. i] = g[1 .. i]
    BY <1>1, <1>2, <2>3, <2>5, <2>6
  <2>. QED  BY <2>2, <2>7
<1>4. k \in 0 .. k
  OBVIOUS
<1>. QED  BY <1>3, <1>4
-----------------------------------------------------------------------------
(* The number of variables of the first calls. *)

LEMMA HeldIsNat ==
    ASSUME NEW c \in Contexts
    PROVE  /\ Listed(c.vars) \in Seq(Variables) /\ Listed(c.args) \in Seq(Variables)
           /\ Held(c) \in Nat
BY DEF Held, Listed, Contexts

\* Two stacks whose first k calls have as many variables each have as many in all.
LEMMA BelowSame ==
    ASSUME NEW s \in Seq(Contexts), NEW t \in Seq(Contexts), NEW k \in Nat,
           k <= Len(s), k <= Len(t), \A i \in 1 .. k : Held(s[i]) = Held(t[i])
    PROVE  Below(s, k) = Below(t, k)
<1> DEFINE a == SubSeq(s, 1, k)
           b == SubSeq(t, 1, k)
<1>1. /\ DOMAIN a = 1 .. k /\ \A i \in 1 .. k : a[i] = s[i]
      /\ DOMAIN b = 1 .. k /\ \A i \in 1 .. k : b[i] = t[i]
  OBVIOUS
<1>. HIDE DEF a, b
<1> DEFINE w == [i \in 1 .. k |-> Held(a[i])]
           v == [i \in 1 .. k |-> Held(b[i])]
<1>2. PICK f : IsTotal(f, k, w) /\ VarsInStack(a) = f[1 .. k]
  BY <1>1, CountIsTotal
<1>3. PICK g : IsTotal(g, k, v) /\ VarsInStack(b) = g[1 .. k]
  BY <1>1, CountIsTotal
<1>4. \A i \in 1 .. k : w[i] = v[i]
  BY <1>1
<1>5. f[1 .. k] = g[1 .. k]
  <2>. HIDE DEF w, v
  <2>1. k <= k
    OBVIOUS
  <2>. QED  BY ONLY k \in Nat, <1>2, <1>3, <1>4, <2>1, TotalsAgree
<1>. QED  BY <1>2, <1>3, <1>5 DEF Below, a, b

LEMMA BelowStep ==
    ASSUME NEW s \in Seq(Contexts)
    PROVE  /\ Below(s, 0) = 0
           /\ \A k \in 1 .. Len(s) : Below(s, k) = Below(s, k - 1) + Held(s[k])
           /\ VarsInStack(s) = Below(s, Len(s))
<1>1. ASSUME NEW k \in 0 .. Len(s)
      PROVE  \E f : /\ IsTotal(f, k, [i \in 1 .. k |-> Held(s[i])])
                    /\ Below(s, k) = f[1 .. k]
  <2> DEFINE a == SubSeq(s, 1, k)
  <2>1. DOMAIN a = 1 .. k /\ k \in Nat /\ \A i \in 1 .. k : a[i] = s[i]
    OBVIOUS
  <2>. HIDE DEF a
  <2>2. [i \in 1 .. k |-> Held(a[i])] = [i \in 1 .. k |-> Held(s[i])]
    BY <2>1
  <2>3. \E f : IsTotal(f, k, [i \in 1 .. k |-> Held(a[i])]) /\ VarsInStack(a) = f[1 .. k]
    BY <2>1, CountIsTotal
  <2>. QED  BY <2>2, <2>3 DEF Below, a
<1>2. Below(s, 0) = 0
  <2>1. 0 \in 0 .. Len(s) /\ 0 \in Nat
    OBVIOUS
  <2>2. PICK f : IsTotal(f, 0, [i \in 1 .. 0 |-> Held(s[i])]) /\ Below(s, 0) = f[1 .. 0]
    BY <1>1, <2>1
  <2>. QED  BY <2>1, <2>2, TotalStep
<1>3. ASSUME NEW k \in 1 .. Len(s)
      PROVE  Below(s, k) = Below(s, k - 1) + Held(s[k])
  <2> DEFINE w == [i \in 1 .. k |-> Held(s[i])]
             v == [i \in 1 .. k - 1 |-> Held(s[i])]
  <2>1. k \in 0 .. Len(s) /\ k - 1 \in 0 .. Len(s) /\ k \in Nat /\ k - 1 \in Nat /\ k \in 1 .. k
        /\ k - 1 <= k /\ k - 1 <= k - 1
    OBVIOUS
  <2>2. PICK f : IsTotal(f, k, w) /\ Below(s, k) = f[1 .. k]
    BY <1>1, <2>1
  <2>3. PICK g : IsTotal(g, k - 1, v) /\ Below(s, k - 1) = g[1 .. k - 1]
    BY <1>1, <2>1
  <2>4. \A i \in 1 .. k - 1 : w[i] = v[i]
    OBVIOUS
  <2>5. w[k] = Held(s[k])
    BY <2>1
  <2>. HIDE DEF w, v
  <2>6. f[1 .. k - 1] = g[1 .. k - 1]
    BY ONLY <2>1, <2>2, <2>3, <2>4, TotalsAgree
  <2>7. f[1 .. k] = f[1 .. k - 1] + w[k]
    BY <2>1, <2>2, TotalStep
  <2>. QED  BY <2>2, <2>3, <2>5, <2>6, <2>7
<1>4. SubSeq(s, 1, Len(s)) = s
  OBVIOUS
<1>. QED  BY <1>2, <1>3, <1>4 DEF Below

LEMMA BelowGrows ==
    ASSUME NEW s \in Seq(Contexts)
    PROVE  /\ \A k \in 0 .. Len(s) : Below(s, k) \in Nat
           /\ \A j \in 0 .. Len(s) : \A i \in 0 .. j : Below(s, i) <= Below(s, j)
           /\ VarsInStack(s) \in Nat
<1>1. /\ Below(s, 0) = 0
      /\ \A k \in 1 .. Len(s) : Below(s, k) = Below(s, k - 1) + Held(s[k])
      /\ VarsInStack(s) = Below(s, Len(s))
  BY BelowStep
<1>2. \A k \in 1 .. Len(s) : Held(s[k]) \in Nat
  BY HeldIsNat
<1> DEFINE Good(k) == Below(s, k) \in Nat /\ \A i \in 0 .. k : Below(s, i) <= Below(s, k)
           Bad == {k \in 0 .. Len(s) : ~Good(k)}
<1>3. Bad = {}
  <2>1. SUFFICES ASSUME Bad # {} PROVE FALSE
    OBVIOUS
  <2>2. PICK k \in Bad : \A j \in Bad : k <= j
    <3>1. Bad \subseteq Nat
      OBVIOUS
    <3>. HIDE DEF Bad
    <3>. QED  BY <2>1, <3>1, LeastMember
  <2>3. k # 0
    <3>1. Good(0)
      BY <1>1
    <3>. QED  BY <2>2, <3>1
  <2>4. k \in 1 .. Len(s) /\ k - 1 \in 0 .. Len(s) /\ ~(k <= k - 1)
    BY <2>2, <2>3
  <2>5. Good(k - 1)
    BY <2>2, <2>4
  <2>6. Below(s, k) \in Nat /\ Below(s, k - 1) <= Below(s, k)
    BY <1>1, <1>2, <2>4, <2>5
  <2>7. ASSUME NEW i \in 0 .. k PROVE Below(s, i) <= Below(s, k)
    <3>1. CASE i = k
      BY <2>6, <3>1
    <3>2. CASE i \in 0 .. k - 1
      <4>1. Below(s, i) <= Below(s, k - 1)
        BY <2>5, <3>2
      <4>2. Below(s, i) \in Nat
        <5>1. i \in 0 .. Len(s) /\ ~(k <= i)
          BY <2>4, <3>2
        <5>. QED  BY <2>2, <5>1
      <4>. QED  BY <2>5, <2>6, <4>1, <4>2
    <3>. QED  BY <2>4, <3>1, <3>2
  <2>. QED  BY <2>2, <2>6, <2>7
<1>4. Len(s) \in 0 .. Len(s)
  OBVIOUS
<1>. QED  BY <1>1, <1>3, <1>4
-----------------------------------------------------------------------------
(* The place of a variable. *)

LEMMA ProductGrows ==
    ASSUME NEW a \in Nat, NEW b \in Nat, NEW c \in Nat, a <= b
    PROVE  c * a <= c * b
<1>1. PICK d \in Nat : b = a + d
  <2>1. b - a \in Nat /\ b = a + (b - a)
    OBVIOUS
  <2>. QED  BY <2>1
<1>2. c * b = c * a + c * d
  BY <1>1
<1>3. c * d \in Nat /\ c * a \in Nat
  OBVIOUS
<1>. QED  BY <1>2, <1>3

LEMMA Division ==
    ASSUME NEW n \in Nat
    PROVE  /\ n \div Cells \in Nat /\ n % Cells \in 0 .. Cells - 1
           /\ n = Cells * (n \div Cells) + (n % Cells)
<1>1. Cells \in Nat /\ Cells > 0
  BY CpuConstants
<1>. QED  BY <1>1

\* The test of the overflow is the one that keeps every variable in the stack's pages.
LEMMA RoomIsLeft ==
    ASSUME NEW n \in Nat
    PROVE  /\ ~Overflows(n) => n < Room
           /\ n < Room => Place(n) \in Places
<1>1. Cells \in Nat /\ Cells > 0 /\ StackSize \in Nat /\ PageC \in Nat
  BY CpuConstants
<1>2. /\ n \div Cells \in Nat /\ n % Cells \in 0 .. Cells - 1
      /\ n = Cells * (n \div Cells) + (n % Cells)
  BY Division
<1>3. PICK q \in Nat : q = n \div Cells
  BY <1>2
<1>4. PICK r \in 0 .. Cells - 1 : r = n % Cells
  BY <1>2
<1>5. n = Cells * q + r
  BY <1>2, <1>3, <1>4
<1>6. Room = Cells * StackSize /\ Room \in Nat
  BY <1>1 DEF Room
<1>7. ASSUME q < StackSize PROVE n < Room
  <2>1. Cells * (q + 1) <= Cells * StackSize
    BY <1>1, <1>7, ProductGrows
  <2>2. Cells * (q + 1) = Cells * q + Cells
    BY <1>1
  <2>3. Cells * q \in Nat
    BY <1>1
  <2>. QED  BY ONLY <1>1, <1>4, <1>5, <1>6, <2>1, <2>2, <2>3
<1>8. ASSUME n < Room PROVE q < StackSize
  <2>1. SUFFICES ASSUME StackSize <= q PROVE FALSE
    BY <1>1
  <2>2. Cells * StackSize <= Cells * q
    BY <1>1, <2>1, ProductGrows
  <2>3. Cells * q \in Nat
    BY <1>1
  <2>. QED  BY ONLY <1>4, <1>5, <1>6, <1>8, <2>2, <2>3
<1>9. ~Overflows(n) => q < StackSize
  BY <1>1, <1>3 DEF Overflows
<1>10. q < StackSize => Place(n) \in Places
  <2>1. q < StackSize => PageC + q \in PageC .. PageC + StackSize - 1
    BY <1>1
  <2>2. Place(n) = [pag |-> PageC + q, off |-> r]
    BY <1>3, <1>4 DEF Place
  <2>. QED  BY <2>1, <2>2 DEF Places
<1>. QED  BY <1>7, <1>8, <1>9, <1>10

\* Two variables with different numbers have different cells.
LEMMA PlacesDiffer ==
    ASSUME NEW m \in Nat, NEW n \in Nat, Place(m) = Place(n)
    PROVE  m = n
<1>1. PageC + m \div Cells = PageC + n \div Cells /\ m % Cells = n % Cells
  BY DEF Place
<1>2. m \div Cells = n \div Cells
  BY <1>1, Division, CpuConstants
<1>. QED  BY <1>1, <1>2, Division
-----------------------------------------------------------------------------
(* What an instruction does to the numbers. *)

\* A variable of a numbered stack has a number below the room.
LEMMA NumbersFit ==
    ASSUME NEW s \in Seq(Contexts), Numbered(s),
           NEW i \in 1 .. Len(s), NEW j \in 1 .. Held(s[i])
    PROVE  /\ Below(s, i - 1) + j - 1 \in Nat
           /\ Below(s, i - 1) + j - 1 < Below(s, i)
           /\ Below(s, i) <= Room
           /\ Place(Below(s, i - 1) + j - 1) \in Places
<1>1. i - 1 \in 0 .. Len(s) /\ i \in 0 .. Len(s) /\ Len(s) \in 0 .. Len(s) /\ i \in 0 .. Len(s)
  OBVIOUS
<1>2. Held(s[i]) \in Nat
  BY HeldIsNat
<1>3. Below(s, i - 1) \in Nat /\ Below(s, i) \in Nat /\ Below(s, i) <= Below(s, Len(s))
      /\ VarsInStack(s) \in Nat
  BY <1>1, BelowGrows
<1>4. Below(s, i) = Below(s, i - 1) + Held(s[i]) /\ VarsInStack(s) = Below(s, Len(s))
  BY BelowStep
<1>5. VarsInStack(s) <= Room
  BY DEF Numbered
<1>6. Room \in Nat
  BY CpuConstants DEF Room
<1>7. Below(s, i - 1) + j - 1 \in Nat
  BY <1>2, <1>3
<1>8. Below(s, i - 1) + j - 1 < Below(s, i) /\ Below(s, i) <= Room
  BY <1>2, <1>3, <1>4, <1>5, <1>6
<1>9. Below(s, i - 1) + j - 1 < Room
  BY <1>3, <1>6, <1>7, <1>8
<1>. QED  BY <1>7, <1>8, <1>9, RoomIsLeft

\* The numbers depend on the lists of variables alone: an empty one counts as none.
LEMMA NumberedSame ==
    ASSUME NEW s \in Seq(Contexts), NEW t \in Seq(Contexts), Numbered(s),
           Len(t) <= Len(s),
           \A i \in 1 .. Len(t) : Listed(t[i].vars) = Listed(s[i].vars)
    PROVE  Numbered(t)
<1>1. Len(s) \in Nat /\ Len(t) \in Nat
  OBVIOUS
<1>2. \A i \in 1 .. Len(t) : Held(t[i]) = Held(s[i])
  BY DEF Held
<1>3. ASSUME NEW k \in 0 .. Len(t)
      PROVE  Below(t, k) = Below(s, k)
  <2>1. k \in Nat /\ k <= Len(t) /\ k <= Len(s) /\ \A i \in 1 .. k : Held(t[i]) = Held(s[i])
    BY <1>1, <1>2
  <2>. QED  BY <2>1, BelowSame
<1>4. ASSUME NEW i \in 1 .. Len(t), NEW j \in 1 .. Len(Listed(t[i].vars))
      PROVE  t[i].vars[j].at = Place(Below(t, i - 1) + j - 1)
  <2>1. i \in 1 .. Len(s) /\ i - 1 \in 0 .. Len(t)
    BY <1>1
  <2>2. j \in 1 .. Len(Listed(s[i].vars))
    BY <2>1
  <2>3. t[i].vars # Null /\ s[i].vars # Null
    BY <2>1, <2>2 DEF Listed
  <2>4. t[i].vars = s[i].vars
    BY <2>1, <2>3 DEF Listed
  <2>5. s[i].vars[j].at = Place(Below(s, i - 1) + j - 1)
    BY <2>1, <2>2 DEF Numbered
  <2>. QED  BY <1>3, <2>1, <2>4, <2>5
<1>5. VarsInStack(t) <= Room
  <2>1. Len(t) \in 0 .. Len(t) /\ Len(t) \in 0 .. Len(s) /\ Len(s) \in 0 .. Len(s)
        /\ Len(t) \in 0 .. Len(s) /\ Len(t) \in 0 .. Len(s)
    BY <1>1
  <2>2. VarsInStack(t) = Below(s, Len(t))
    BY <1>3, <2>1, BelowStep
  <2>3. VarsInStack(s) = Below(s, Len(s)) /\ VarsInStack(s) <= Room
    BY BelowStep DEF Numbered
  <2>4. Below(s, Len(t)) <= Below(s, Len(s)) /\ Below(s, Len(t)) \in Nat /\ Below(s, Len(s)) \in Nat
    BY <2>1, BelowGrows
  <2>5. Room \in Nat
    BY CpuConstants DEF Room
  <2>. QED  BY <2>2, <2>3, <2>4, <2>5
<1>. QED  BY <1>4, <1>5 DEF Numbered

LEMMA ContextReplaced ==
    ASSUME NEW c \in Contexts, NEW x, NEW y
    PROVE  [c EXCEPT !.vars = x, !.args = y]
               = [vars |-> x, args |-> y, retpos |-> c.retpos, retvar |-> c.retvar]
<1>1. PICK a \in Seq(Variables) \cup {Null}, b \in Seq(Variables) \cup {Null},
              p \in Nat, q \in Places :
        c = [vars |-> a, args |-> b, retpos |-> p, retvar |-> q]
  BY DEF Contexts
<1> DEFINE d == [c EXCEPT !.vars = x]
<1>2. d = [vars |-> x, args |-> b, retpos |-> p, retvar |-> q]
  BY <1>1
<1>. HIDE DEF d
<1>3. [d EXCEPT !.args = y] = [vars |-> x, args |-> y, retpos |-> p, retvar |-> q]
  BY <1>2
<1>4. c.retpos = p /\ c.retvar = q
  BY <1>1
<1>. QED  BY <1>3, <1>4 DEF d

\* cpu_definirVariable gives the new variable the next number.
LEMMA DefinedKeeps ==
    ASSUME NEW s \in Seq(Contexts), s # <<>>, Numbered(s), NEW id \in Name,
           ~Overflows(VarsInStack(s))
    PROVE  /\ Defined(s, id) \in Seq(Contexts) /\ Len(Defined(s, id)) = Len(s)
           /\ Numbered(Defined(s, id))
           /\ \A i \in 1 .. Len(s) : Defined(s, id)[i].retpos = s[i].retpos
<1> DEFINE t == Defined(s, id)
<1>1. PICK n \in Nat : n = Len(s)
  OBVIOUS
<1>2. n \in 1 .. n /\ s[n] \in Contexts
  BY <1>1
<1>3. PICK v \in Seq(Variables) : v = Listed(s[n].vars)
  BY <1>2, HeldIsNat
<1>4. PICK r \in Seq(Variables) : r = Listed(s[n].args)
  BY <1>2, HeldIsNat
<1>5. VarsInStack(s) \in Nat /\ VarsInStack(s) < Room
  BY BelowGrows, RoomIsLeft
<1>6. PICK p \in Places : p = Place(VarsInStack(s))
  BY <1>5, RoomIsLeft
<1> DEFINE w == Append(v, [id |-> id, at |-> p])
           c == [vars |-> w, args |-> r, retpos |-> s[n].retpos, retvar |-> s[n].retvar]
<1>7. w \in Seq(Variables) /\ Len(w) = Len(v) + 1 /\ w[Len(v) + 1].at = p
      /\ \A j \in 1 .. Len(v) : w[j] = v[j]
  <2>1. [id |-> id, at |-> p] \in Variables
    BY DEF Variables
  <2>. QED  BY <2>1
<1>8. s[n].retpos \in Nat /\ s[n].retvar \in Places
  BY <1>2 DEF Contexts
<1>9. c \in Contexts
  BY <1>7, <1>8 DEF Contexts
<1>10. t = [s EXCEPT ![n] = c]
  <2>1. [s[n] EXCEPT !.vars = Append(Listed(s[n].vars), [id |-> id, at |-> Place(VarsInStack(s))]),
                     !.args = Listed(s[n].args)] = c
    BY <1>2, <1>3, <1>4, <1>6, ContextReplaced
  <2>. QED  BY <1>1, <2>1 DEF Defined
<1>. HIDE DEF c, w
<1>11. t \in Seq(Contexts) /\ Len(t) = n /\ t[n] = c /\ \A i \in 1 .. n : i # n => t[i] = s[i]
  BY <1>1, <1>2, <1>9, <1>10
<1>. HIDE DEF t
<1>12. c.vars = w /\ c.retpos = s[n].retpos /\ Listed(w) = w
  BY <1>7, NullIsNoList DEF c, Listed
<1>13. Held(c) = Len(v) + 1 /\ Held(s[n]) = Len(v) /\ Len(v) \in Nat
  BY <1>3, <1>7, <1>12 DEF Held
<1>14. ASSUME NEW k \in 0 .. n - 1 PROVE Below(t, k) = Below(s, k)
  <2>1. k \in Nat /\ k <= Len(t) /\ k <= Len(s)
    BY <1>1, <1>11
  <2>2. \A i \in 1 .. k : Held(t[i]) = Held(s[i])
    BY <1>11
  <2>. QED  BY <1>11, <2>1, <2>2, BelowSame
<1>15. /\ n - 1 \in 0 .. n - 1 /\ n - 1 \in 0 .. Len(s) /\ n \in 1 .. Len(s) /\ n \in 1 .. Len(t)
  BY <1>1, <1>2, <1>11
<1>16. PICK b \in Nat : b = Below(s, n - 1)
  BY <1>15, BelowGrows
<1>17. VarsInStack(s) = b + Len(v) /\ VarsInStack(t) = b + Len(v) + 1
  <2>1. VarsInStack(s) = Below(s, n) /\ Below(s, n) = Below(s, n - 1) + Held(s[n])
    BY <1>1, <1>15, BelowStep
  <2>2. VarsInStack(t) = Below(t, n) /\ Below(t, n) = Below(t, n - 1) + Held(t[n])
    BY <1>11, <1>15, BelowStep
  <2>3. Below(t, n - 1) = b
    BY <1>14, <1>15, <1>16
  <2>. QED  BY <1>11, <1>13, <1>16, <2>1, <2>2, <2>3
<1>18. VarsInStack(t) <= Room
  <2>1. Room \in Nat
    BY CpuConstants DEF Room
  <2>. QED  BY <1>5, <1>13, <1>17, <2>1
<1>19. ASSUME NEW i \in 1 .. Len(t), NEW j \in 1 .. Len(Listed(t[i].vars))
       PROVE  t[i].vars[j].at = Place(Below(t, i - 1) + j - 1)
  <2>1. i \in 1 .. n /\ i \in 1 .. Len(s) /\ i - 1 \in 0 .. n - 1
    BY <1>1, <1>11
  <2>2. Below(t, i - 1) = Below(s, i - 1)
    BY <1>14, <2>1
  <2>3. CASE i # n
    <3>1. t[i] = s[i]
      BY <1>11, <2>1, <2>3
    <3>. QED  BY <2>1, <2>2, <3>1 DEF Numbered
  <2>4. CASE i = n
    <3>1. t[i].vars = w /\ j \in 1 .. Len(v) + 1
      BY <1>7, <1>11, <1>12, <2>4
    <3>2. CASE j = Len(v) + 1
      <4>1. Below(t, i - 1) + j - 1 = VarsInStack(s)
        BY <1>13, <1>16, <1>17, <2>2, <2>4, <3>2
      <4>. QED  BY <1>6, <1>7, <3>1, <3>2, <4>1
    <3>3. CASE j \in 1 .. Len(v)
      <4>1. s[n].vars # Null /\ s[n].vars = v
        BY <1>3, <3>3 DEF Listed
      <4>2. s[n].vars[j].at = Place(Below(s, n - 1) + j - 1)
        BY <1>3, <1>15, <3>3 DEF Numbered
      <4>. QED  BY <1>7, <2>2, <2>4, <3>1, <3>3, <4>1, <4>2
    <3>. QED  BY <1>13, <3>1, <3>2, <3>3
  <2>. QED  BY <2>3, <2>4
<1>20. \A i \in 1 .. n : t[i].retpos = s[i].retpos
  BY <1>11, <1>12
<1>. QED  BY <1>1, <1>11, <1>18, <1>19, <1>20 DEF Numbered, t

\* A call adds a context without variables.
LEMMA CalledKeeps ==
    ASSUME NEW s \in Seq(Contexts), Numbered(s), NEW pc \in Nat, NEW p \in Places
    PROVE  LET t == Append(s, [vars |-> Null, args |-> Null, retpos |-> pc, retvar |-> p])
           IN  /\ t \in Seq(Contexts) /\ Len(t) = Len(s) + 1 /\ t[Len(t)].vars = Null
               /\ Numbered(t) /\ t[Len(t)].retpos = pc
               /\ \A i \in 1 .. Len(s) : t[i] = s[i]
<1> DEFINE c == [vars |-> Null, args |-> Null, retpos |-> pc, retvar |-> p]
           t == Append(s, c)
<1>1. c \in Contexts
  BY DEF Contexts
<1>2. c.vars = Null /\ c.retpos = pc /\ Held(c) = 0
  BY DEF Held, Listed
<1>. HIDE DEF c
<1>3. PICK n \in Nat : n = Len(s)
  OBVIOUS
<1>4. /\ t \in Seq(Contexts) /\ Len(t) = n + 1 /\ t[n + 1] = c
      /\ \A i \in 1 .. n : t[i] = s[i]
  BY <1>1, <1>3
<1>. HIDE DEF t
<1>5. ASSUME NEW k \in 0 .. n PROVE Below(t, k) = Below(s, k)
  <2>1. k \in Nat /\ k <= Len(t) /\ k <= Len(s)
    BY <1>3, <1>4
  <2>2. \A i \in 1 .. k : Held(t[i]) = Held(s[i])
    BY <1>4
  <2>. QED  BY <1>4, <2>1, <2>2, BelowSame
<1>6. VarsInStack(t) = VarsInStack(s)
  <2>1. n + 1 \in 1 .. Len(t) /\ n \in 0 .. n /\ n + 1 - 1 = n /\ n \in 0 .. Len(s)
    BY <1>3, <1>4
  <2>2. VarsInStack(t) = Below(t, n + 1) /\ Below(t, n + 1) = Below(t, n) + Held(t[n + 1])
    BY <1>4, <2>1, BelowStep
  <2>3. VarsInStack(s) = Below(s, n) /\ Below(s, n) \in Nat
    BY <1>3, <2>1, BelowStep, BelowGrows
  <2>. QED  BY <1>2, <1>4, <1>5, <2>1, <2>2, <2>3
<1>7. ASSUME NEW i \in 1 .. Len(t), NEW j \in 1 .. Len(Listed(t[i].vars))
      PROVE  t[i].vars[j].at = Place(Below(t, i - 1) + j - 1)
  <2>1. i \in 1 .. n
    <3>1. i # n + 1
      BY <1>2, <1>4 DEF Held
    <3>. QED  BY <1>4, <3>1
  <2>2. t[i] = s[i] /\ i - 1 \in 0 .. n /\ i \in 1 .. Len(s)
    BY <1>3, <1>4, <2>1
  <2>. QED  BY <1>5, <2>2 DEF Numbered
<1>8. Numbered(t)
  BY <1>6, <1>7 DEF Numbered
<1>9. /\ t \in Seq(Contexts) /\ Len(t) = Len(s) + 1 /\ t[Len(t)].vars = Null
      /\ Numbered(t) /\ t[Len(t)].retpos = pc
      /\ \A i \in 1 .. Len(s) : t[i] = s[i]
  BY <1>2, <1>3, <1>4, <1>8
<1>. QED  BY <1>9 DEF t, c

\* The arguments of a call are not numbered.
LEMMA ArgumentsKeep ==
    ASSUME NEW s \in Seq(Contexts), s # <<>>, Numbered(s), NEW args \in Seq(Value),
           ~Overflows(VarsInStack(s))
    PROVE  /\ WithArguments(s, args) \in Seq(Contexts) /\ Len(WithArguments(s, args)) = Len(s)
           /\ Numbered(WithArguments(s, args))
           /\ \A i \in 1 .. Len(s) : WithArguments(s, args)[i].retpos = s[i].retpos
<1> DEFINE t == WithArguments(s, args)
<1>1. PICK n \in Nat : n = Len(s)
  OBVIOUS
<1>2. n \in 1 .. n /\ s[n] \in Contexts
  BY <1>1
<1>3. PICK v \in Seq(Variables) : v = Listed(s[n].vars)
  BY <1>2, HeldIsNat
<1>4. VarsInStack(s) \in Nat /\ VarsInStack(s) < Room
  BY BelowGrows, RoomIsLeft
<1>5. PICK p \in Places : p = Place(VarsInStack(s))
  BY <1>4, RoomIsLeft
<1> DEFINE w == [i \in DOMAIN args |-> [id |-> i, at |-> p]]
           c == [vars |-> v, args |-> w, retpos |-> s[n].retpos, retvar |-> s[n].retvar]
<1>6. w \in Seq(Variables)
  <2>1. Len(args) \in Nat /\ DOMAIN args = 1 .. Len(args)
    OBVIOUS
  <2>2. \A i \in 1 .. Len(args) : [id |-> i, at |-> p] \in Variables
    BY <2>1 DEF Variables
  <2>. QED  BY <2>1, <2>2
<1>7. s[n].retpos \in Nat /\ s[n].retvar \in Places
  BY <1>2 DEF Contexts
<1>8. c \in Contexts
  BY <1>6, <1>7 DEF Contexts
<1>9. t = [s EXCEPT ![n] = c]
  <2>1. [s[n] EXCEPT !.vars = Listed(s[n].vars),
                     !.args = [i \in DOMAIN args |-> [id |-> i, at |-> Place(VarsInStack(s))]]] = c
    <3>1. w = [i \in DOMAIN args |-> [id |-> i, at |-> Place(VarsInStack(s))]]
      BY <1>5
    <3>. HIDE DEF w
    <3>. QED  BY <1>2, <1>3, <3>1, ContextReplaced
  <2>. QED  BY <1>1, <2>1 DEF WithArguments
<1>10. c.vars = v /\ c.retpos = s[n].retpos
  OBVIOUS
<1>. HIDE DEF c, w
<1>11. t \in Seq(Contexts) /\ Len(t) = n /\ t[n] = c /\ \A i \in 1 .. n : i # n => t[i] = s[i]
  BY <1>1, <1>2, <1>8, <1>9
<1>. HIDE DEF t
<1>12. Listed(v) = Listed(s[n].vars)
  BY <1>3 DEF Listed
<1>13. \A i \in 1 .. Len(t) : Listed(t[i].vars) = Listed(s[i].vars)
  BY <1>10, <1>11, <1>12
<1>14. Numbered(t)
  <2>1. Len(t) <= Len(s)
    BY <1>1, <1>11
  <2>. QED  BY <1>11, <1>13, <2>1, NumberedSame
<1>15. \A i \in 1 .. n : t[i].retpos = s[i].retpos
  BY <1>10, <1>11
<1>. QED  BY <1>1, <1>11, <1>14, <1>15 DEF t

\* A return drops the last context.
LEMMA FrontKeeps ==
    ASSUME NEW s \in Seq(Contexts), s # <<>>, Numbered(s)
    PROVE  /\ Front(s) \in Seq(Contexts) /\ Len(Front(s)) = Len(s) - 1
           /\ \A i \in 1 .. Len(s) - 1 : Front(s)[i] = s[i]
           /\ Numbered(Front(s))
<1> DEFINE t == Front(s)
<1>1. PICK n \in Nat : n = Len(s) - 1
  OBVIOUS
<1>2. t \in Seq(Contexts) /\ Len(t) = n /\ \A i \in 1 .. n : t[i] = s[i]
  <2>1. 1 \in Int /\ n \in Int /\ \A i \in 1 .. n : s[i] \in Contexts
    BY <1>1
  <2>2. /\ SubSeq(s, 1, n) \in Seq(Contexts)
        /\ Len(SubSeq(s, 1, n)) = IF 1 <= n THEN n - 1 + 1 ELSE 0
        /\ \A i \in 1 .. n - 1 + 1 : SubSeq(s, 1, n)[i] = s[1 + i - 1]
    BY <2>1, SubSeqProperties
  <2>3. t = SubSeq(s, 1, n)
    BY <1>1 DEF Front
  <2>. HIDE DEF t
  <2>4. t \in Seq(Contexts) /\ Len(t) = n
    BY <2>2, <2>3
  <2>5. ASSUME NEW i \in 1 .. n PROVE t[i] = s[i]
    <3>1. i \in 1 .. n - 1 + 1 /\ 1 + i - 1 = i
      OBVIOUS
    <3>2. SubSeq(s, 1, n)[i] = s[1 + i - 1]
      BY <2>2, <3>1
    <3>. QED  BY <2>3, <3>1, <3>2
  <2>. QED  BY <2>4, <2>5
<1>. HIDE DEF t
<1>3. Len(t) <= Len(s) /\ \A i \in 1 .. Len(t) : Listed(t[i].vars) = Listed(s[i].vars)
  BY <1>1, <1>2
<1>4. Numbered(t)
  BY <1>2, <1>3, NumberedSame
<1>. QED  BY <1>1, <1>2, <1>4 DEF t

\* The trip as text keeps the variables of every call, although it is the number of
\* lists that says how often they are written, and loses the arguments.
LEMMA TripKeeps ==
    ASSUME NEW b \in [pc : Nat, exit : Exits, stack : Seq(Contexts)], Numbered(b.stack)
    PROVE  /\ Trip(b) \in [pc : {b.pc}, exit : {b.exit}, stack : Seq(Contexts)]
           /\ Len(Trip(b).stack) = Len(b.stack)
           /\ \A i \in 1 .. Len(b.stack) : Trip(b).stack[i].retpos = b.stack[i].retpos
           /\ Numbered(Trip(b).stack)
<1>1. PICK s \in Seq(Contexts) : s = b.stack
  OBVIOUS
<1>2. PICK n \in Nat : n = Len(s) /\ DOMAIN s = 1 .. n
  OBVIOUS
<1> DEFINE lists(i) == {l \in {"args", "vars"} : s[i][l] # Null}
           written(i) == [k \in 1 .. Cardinality(lists(i)) |-> s[i].vars]
           text == [i \in 1 .. n |->
                       [vars |-> written(i), retpos |-> s[i].retpos, retvar |-> s[i].retvar]]
           read(i) == IF written(i) = <<>> THEN Null ELSE Head(written(i))
           t == [i \in 1 .. n |-> [vars |-> read(i), args |-> Null,
                                   retpos |-> s[i].retpos, retvar |-> s[i].retvar]]
<1>3. PcbToString(b) = [b EXCEPT !.stack = text]
  BY <1>1, <1>2 DEF PcbToString
<1>4. Trip(b) = [b EXCEPT !.stack = t]
  <2>1. StringToPcb([b EXCEPT !.stack = text]) = [b EXCEPT !.stack = t]
    <3>1. [b EXCEPT !.stack = text].stack = text /\ DOMAIN text = 1 .. n
      OBVIOUS
    <3> DEFINE u == [i \in DOMAIN text |->
            [vars |-> IF text[i].vars = <<>> THEN Null ELSE Head(text[i].vars), args |-> Null,
             retpos |-> text[i].retpos, retvar |-> text[i].retvar]]
    <3>2. \A i \in 1 .. n : text[i].vars = written(i) /\ text[i].retpos = s[i].retpos
                            /\ text[i].retvar = s[i].retvar
      OBVIOUS
    <3>3. u = t
      <4>1. \A i \in 1 .. n : u[i] = t[i]
        <5>. HIDE DEF text, written
        <5>. QED  BY <3>1, <3>2
      <4>2. DOMAIN u = 1 .. n /\ DOMAIN t = 1 .. n
        OBVIOUS
      <4>3. u = [i \in 1 .. n |-> u[i]] /\ t = [i \in 1 .. n |-> t[i]]
        BY <4>2
      <4>. HIDE DEF u, t
      <4>. QED  BY <4>1, <4>3
    <3>4. StringToPcb([b EXCEPT !.stack = text]) = [[b EXCEPT !.stack = text] EXCEPT !.stack = u]
      <4>. HIDE DEF text
      <4>. QED  BY <3>1 DEF StringToPcb
    <3>. HIDE DEF text, u, t
    <3>. QED  BY <3>3, <3>4
  <2>. QED  BY <1>3, <2>1 DEF Trip
<1>5. ASSUME NEW i \in 1 .. n
      PROVE  read(i) = s[i].vars
  <2>1. PICK m : m = Cardinality(lists(i))
    OBVIOUS
  <2>2. m \in Nat /\ (s[i].vars # Null => m >= 1)
    <3>1. IsFiniteSet({"args", "vars"})
      <4>1. IsFiniteSet({"vars"} \cup {"args"})
        BY FS_AddElement, FS_Singleton
      <4>2. {"args", "vars"} = {"vars"} \cup {"args"}
        OBVIOUS
      <4>. QED  BY <4>1, <4>2
    <3>2. IsFiniteSet(lists(i)) /\ m \in Nat
      BY <2>1, <3>1, FS_Subset, FS_CardinalityType
    <3>3. s[i].vars # Null => lists(i) # {}
      OBVIOUS
    <3>. HIDE DEF lists
    <3>. QED  BY <2>1, <3>2, <3>3, FS_EmptySet
  <2>3. written(i) = [k \in 1 .. m |-> s[i].vars]
    BY <2>1
  <2>. HIDE DEF written, lists
  <2>4. CASE m = 0
    <3>1. written(i) = <<>>
      BY <2>3, <2>4
    <3>. QED  BY <2>2, <2>4, <3>1
  <2>5. CASE m >= 1
    <3>1. written(i) \in Seq({s[i].vars}) /\ Len(written(i)) = m
      BY <2>2, <2>3
    <3>2. written(i) # <<>>
      BY <2>2, <2>5, <3>1
    <3>3. Head(written(i)) \in {s[i].vars}
      BY <3>1, <3>2, HeadTailProperties
    <3>. QED  BY <3>2, <3>3
  <2>. QED  BY <2>2, <2>4, <2>5
<1>6. ASSUME NEW i \in 1 .. n
      PROVE  t[i] \in Contexts /\ t[i].vars = s[i].vars /\ t[i].retpos = s[i].retpos
  <2>1. s[i] \in Contexts
    BY <1>2
  <2>2. t[i] = [vars |-> s[i].vars, args |-> Null, retpos |-> s[i].retpos, retvar |-> s[i].retvar]
    <3>. HIDE DEF read
    <3>. QED  BY <1>5
  <2>. QED  BY <2>1, <2>2 DEF Contexts
<1>7. t \in Seq(Contexts) /\ Len(t) = n
  <2>1. DOMAIN t = 1 .. n
    OBVIOUS
  <2>2. t \in [1 .. n -> Contexts]
    BY <1>6, <2>1
  <2>. HIDE DEF t
  <2>. QED  BY <2>2
<1>. HIDE DEF t
<1>8. Numbered(t)
  <2>1. Len(t) <= Len(s) /\ \A i \in 1 .. Len(t) : Listed(t[i].vars) = Listed(s[i].vars)
    BY <1>2, <1>6, <1>7
  <2>. QED  BY <1>1, <1>7, <2>1, NumberedSame
<1>. QED  BY <1>1, <1>2, <1>4, <1>6, <1>7, <1>8
-----------------------------------------------------------------------------
(* What is found. *)

LEMMA IndexFits ==
    ASSUME NEW list, Listed(list) \in Seq(Variables), NEW id
    PROVE  /\ Index(list, id) \in 0 .. Len(Listed(list))
           /\ Index(list, id) # 0 => Listed(list)[Index(list, id)].id = id
<1>1. PICK s \in Seq(Variables) : s = Listed(list)
  OBVIOUS
<1> DEFINE I == {i \in 1 .. Len(s) : s[i].id = id}
<1>2. Index(list, id) = IF I # {} THEN Min(I) ELSE 0
  BY <1>1 DEF Index, SelectInSeq
<1>3. I \subseteq Nat /\ Len(s) \in Nat
  OBVIOUS
<1>4. I # {} => Min(I) \in I
  <2>. HIDE DEF I
  <2>. QED  BY <1>3, MinIsMember
<1>5. I # {} => Index(list, id) \in 1 .. Len(s) /\ s[Index(list, id)].id = id
  BY <1>2, <1>4
<1>. QED  BY <1>1, <1>2, <1>3, <1>5

\* The count over the contexts below finds the number of a variable.
LEMMA PositionCounts ==
    ASSUME NEW depth, NEW id
    PROVE  PositionIn(depth, id) = Place(Below(Stack, depth - 1) + Index(Stack[depth].vars, id) - 1)
BY DEF PositionIn, Below, VarsInStack

LEMMA PositionIsThere ==
    ASSUME IInv, NEW id, Known(id)
    PROVE  Position(id) \in Places
<1>1. PICK s \in Seq(Contexts) : s = Stack /\ s # <<>> /\ Numbered(s)
  BY DEF IInv, TurnFits, Stack
<1>2. PICK n \in Nat : n = Len(s) /\ n = Depth /\ n \in 1 .. Len(s)
  BY <1>1 DEF Depth
<1>3. s[n] \in Contexts
  BY <1>2, ElementOfSeq
<1>4. PICK j : j = Index(s[n].vars, id)
  OBVIOUS
<1>5. j \in 1 .. Held(s[n])
  <2>1. Held(s[n]) \in Nat
    BY <1>3, HeldIsNat
  <2>2. j \in 0 .. Held(s[n])
    BY <1>3, <1>4, HeldIsNat, IndexFits DEF Held
  <2>3. j # 0
    BY <1>1, <1>2, <1>4 DEF Known, Current
  <2>. QED  BY <2>1, <2>2, <2>3
<1>6. Place(Below(s, n - 1) + j - 1) \in Places
  BY <1>1, <1>2, <1>5, NumbersFit
<1>7. Position(id) = Place(Below(s, n - 1) + j - 1)
  BY <1>1, <1>2, <1>4, PositionCounts DEF Position
<1>. QED  BY <1>6, <1>7

\* The instruction of a process that goes on, and the one after it.
LEMMA InstrFits ==
    ASSUME IInv, turn.at \in {"kernel", "cpu"}, ~turn.finished
    PROVE  /\ pcb.pc \in Nat /\ Len(code) \in Nat /\ pcb.pc + 1 \in 1 .. Len(code)
           /\ Instr \in Instructions
           /\ Instr.op = "define" => Instr.id \in Name
           /\ Instr.op \in {"goto", "call"} /\ Instr.to # NoId =>
                  Instr.to \in Nat /\ Instr.to < Len(code)
           /\ Instr.op # "end" => pcb.pc + 1 < Len(code)
<1>1. /\ code \in Program /\ pcb.pc \in 0 .. Len(code) /\ pcb.pc < Len(code)
  BY DEF IInv, TurnFits
<1>2. /\ code \in Seq(Instructions) /\ code # <<>> /\ Last(code).op = "end"
      /\ \A i \in DOMAIN code :
            /\ code[i].op = "define" => code[i].id \in Name
            /\ code[i].op \in {"goto", "call"} /\ code[i].to # NoId => code[i].to < Len(code)
  BY <1>1, ProgramsAreCompiled
<1>3. PICK n \in Nat : n = Len(code) /\ DOMAIN code = 1 .. n
  BY <1>2
<1>4. PICK k \in 1 .. n : k = pcb.pc + 1
  BY <1>1, <1>3
<1>5. Instr = code[k] /\ code[k] \in Instructions
  BY <1>2, <1>3, <1>4 DEF Instr
<1>6. code[k].to \in Nat \cup {NoId}
  BY <1>5 DEF Instructions
<1>7. code[k].op # "end" => k # n
  BY <1>2, <1>3 DEF Last
<1>8. pcb.pc \in Nat /\ pcb.pc + 1 \in 1 .. Len(code)
  BY <1>1, <1>3, <1>4
<1>. QED  BY <1>2, <1>3, <1>4, <1>5, <1>6, <1>7, <1>8
-----------------------------------------------------------------------------
(* How an instruction ends. *)

LEMMA ExecutedKeeps ==
    ASSUME IInv, turn.at = "cpu", ~turn.finished, turn.left >= 0, UNCHANGED code,
           DOMAIN memory' = Places,
           NEW s \in Seq(Contexts), s # <<>>, Numbered(s), CallersGoOn(s),
           NEW n \in Int, n + 1 \in Nat, n + 1 < Len(code), Executed(s, n)
    PROVE  IInv'
<1>1. /\ code \in Program /\ pcb \in [pc : 0 .. Len(code), exit : Exits, stack : Seq(Contexts)]
      /\ turn \in [at : {"kernel", "cpu", "exit", "gone"}, left : -1 .. Quantum, finished : BOOLEAN]
      /\ Len(code) \in Nat /\ Quantum \in Nat
  BY InstrFits, CpuConstants DEF IInv, TurnFits
<1>2. /\ pcb' = [pcb EXCEPT !.stack = s, !.pc = n + 1]
      /\ turn' = [turn EXCEPT !.left = turn.left - 1]
  BY DEF Executed, Spent
<1>3. n + 1 \in 0 .. Len(code)
  BY <1>1
<1>4. /\ pcb' \in [pc : 0 .. Len(code), exit : Exits, stack : Seq(Contexts)]
      /\ pcb'.stack = s /\ pcb'.pc = n + 1
  BY <1>1, <1>2, <1>3
<1>5. turn.left - 1 \in -1 .. Quantum
  BY <1>1
<1>6. /\ turn' \in [at : {"kernel", "cpu", "exit", "gone"}, left : -1 .. Quantum, finished : BOOLEAN]
      /\ turn'.at = "cpu"
  BY <1>1, <1>2, <1>5
<1>7. Stack' = s
  BY <1>4 DEF Stack
<1>8. CallersGoOn(Stack)'
  BY <1>7 DEF CallersGoOn
<1>9. Numbered(Stack)'
  BY <1>7
<1>10. TurnFits'
  BY <1>1, <1>4, <1>6, <1>7, <1>8 DEF TurnFits
<1>. QED  BY <1>9, <1>10 DEF IInv

\* Any other end of an instruction leaves the stack alone and ends the process.
LEMMA EndKeeps ==
    ASSUME IInv, turn.at = "cpu", ~turn.finished, turn.left >= 0, UNCHANGED code,
           \/ Crashes
           \/ \E exit \in Exits : Finalizes(exit)
    PROVE  IInv'
<1>1. /\ code \in Program /\ pcb \in [pc : 0 .. Len(code), exit : Exits, stack : Seq(Contexts)]
      /\ turn \in [at : {"kernel", "cpu", "exit", "gone"}, left : -1 .. Quantum, finished : BOOLEAN]
      /\ Len(code) \in Nat /\ Quantum \in Nat /\ pcb.pc + 1 \in 0 .. Len(code)
      /\ DOMAIN memory = Places /\ Stack # <<>> /\ CallersGoOn(Stack) /\ Numbered(Stack)
  BY InstrFits, CpuConstants DEF IInv, TurnFits
<1>2. ASSUME Stack' = Stack
      PROVE  CallersGoOn(Stack)' /\ Numbered(Stack)' /\ Stack' # <<>>
  <2>1. CallersGoOn(Stack)'
    BY <1>1, <1>2 DEF CallersGoOn
  <2>2. Numbered(Stack)'
    BY <1>1, <1>2
  <2>. QED  BY <1>1, <1>2, <2>1, <2>2
<1>3. CASE Crashes
  <2>1. pcb' = pcb /\ memory' = memory /\ turn' = [turn EXCEPT !.at = "gone"]
    BY <1>3 DEF Crashes
  <2>2. Stack' = Stack
    BY <2>1 DEF Stack
  <2>3. /\ turn' \in [at : {"kernel", "cpu", "exit", "gone"}, left : -1 .. Quantum, finished : BOOLEAN]
        /\ turn'.at = "gone"
    BY <1>1, <2>1
  <2>4. TurnFits'
    BY <1>1, <1>2, <2>1, <2>2, <2>3 DEF TurnFits
  <2>. QED  BY <1>2, <2>2, <2>4 DEF IInv
<1>4. ASSUME NEW exit \in Exits, Finalizes(exit)
      PROVE  IInv'
  <2>1. /\ memory' = memory /\ pcb' = [pcb EXCEPT !.exit = exit, !.pc = pcb.pc + 1]
        /\ turn' = [turn EXCEPT !.left = turn.left - 1, !.finished = TRUE]
    BY <1>4 DEF Finalizes, Spent
  <2>2. /\ pcb' \in [pc : 0 .. Len(code), exit : Exits, stack : Seq(Contexts)]
        /\ Stack' = Stack
    BY <1>1, <2>1 DEF Stack
  <2>3. turn.left - 1 \in -1 .. Quantum
    BY <1>1
  <2>4. /\ turn' \in [at : {"kernel", "cpu", "exit", "gone"}, left : -1 .. Quantum, finished : BOOLEAN]
        /\ turn'.finished /\ turn'.at = "cpu"
    BY <1>1, <2>1, <2>3
  <2>5. TurnFits'
    BY <1>1, <1>2, <2>1, <2>2, <2>4 DEF TurnFits
  <2>. QED  BY <1>2, <2>2, <2>5 DEF IInv
<1>. QED  BY <1>3, <1>4
-----------------------------------------------------------------------------
(* Every step keeps the invariant. *)

LEMMA StackFits ==
    ASSUME IInv
    PROVE  /\ Stack \in Seq(Contexts) /\ Stack # <<>> /\ Numbered(Stack) /\ CallersGoOn(Stack)
           /\ Depth = Len(Stack) /\ Depth \in 1 .. Len(Stack) /\ Current \in Contexts
           /\ DOMAIN memory = Places
<1>1. Stack \in Seq(Contexts) /\ Stack # <<>>
  BY DEF IInv, TurnFits, Stack
<1>. HIDE DEF Stack
<1>2. Depth = Len(Stack) /\ Depth \in 1 .. Len(Stack)
  BY <1>1 DEF Depth
<1>3. Current \in Contexts
  BY <1>1, <1>2, ElementOfSeq DEF Current
<1>. QED  BY <1>1, <1>2, <1>3 DEF IInv, TurnFits

\* The CPU has an instruction to execute that does not end the program.
Going == turn.at = "cpu" /\ ~turn.finished /\ turn.left >= 0 /\ Instr.op # "end" /\ UNCHANGED code

LEMMA IsGoing ==
    ASSUME NEW op, Is(op), op # "end", UNCHANGED code
    PROVE  Going /\ Instr.op = op
BY DEF Is, Going, Instr

LEMMA StoreKeeps ==
    ASSUME IInv, NEW p, NEW bytes, Store(p, bytes)
    PROVE  DOMAIN memory' = Places
BY StackFits DEF Store

\* The next instruction with the same stack.
LEMMA NextKeeps ==
    ASSUME IInv, Going, Executed(Stack, pcb.pc),
           \/ UNCHANGED memory
           \/ \E p, bytes : Store(p, bytes)
    PROVE  IInv'
<1>1. DOMAIN memory' = Places
  BY StoreKeeps, StackFits
<1>2. PICK s \in Seq(Contexts) : s = Stack
  BY StackFits
<1>3. s # <<>> /\ Numbered(s) /\ CallersGoOn(s)
  BY <1>2, StackFits
<1>4. PICK n \in Int : n = pcb.pc /\ n + 1 \in Nat /\ n + 1 < Len(code)
  BY InstrFits DEF Going
<1>5. Executed(s, n)
  BY <1>2, <1>4
<1>. QED  BY <1>1, <1>3, <1>4, <1>5, ExecutedKeeps DEF Going

LEMMA UnknownKeeps ==
    ASSUME IInv, Going, Unknown
    PROVE  IInv'
BY EndKeeps DEF Unknown, Going, Exits

LEMMA DefinirVariableKeeps ==
    ASSUME IInv, DefinirVariable, UNCHANGED code
    PROVE  IInv'
<1>1. Going /\ Instr.op = "define"
  BY IsGoing DEF DefinirVariable
<1>2. CASE Overflows(VarsInStack(Stack))
  BY <1>1, <1>2, EndKeeps DEF DefinirVariable, Going, Exits
<1>3. CASE ~Overflows(VarsInStack(Stack))
  <2>1. PICK s \in Seq(Contexts) :
            s = Stack /\ s # <<>> /\ Numbered(s) /\ CallersGoOn(s) /\ ~Overflows(VarsInStack(s))
    BY <1>3, StackFits
  <2>2. PICK id \in Name : id = Instr.id
    BY <1>1, InstrFits DEF Going
  <2>3. PICK t \in Seq(Contexts) :
            /\ t = Defined(s, id) /\ Len(t) = Len(s) /\ Numbered(t)
            /\ \A i \in 1 .. Len(s) : t[i].retpos = s[i].retpos
    BY <2>1, DefinedKeeps
  <2>4. t # <<>>
    BY <2>1, <2>3
  <2>5. CallersGoOn(t)
    <3>1. \A i \in 2 .. Len(t) : i \in 1 .. Len(s) /\ i \in 2 .. Len(s)
      BY <2>3
    <3>. QED  BY <2>1, <2>3, <3>1 DEF CallersGoOn
  <2>6. PICK n \in Int : n = pcb.pc /\ n + 1 \in Nat /\ n + 1 < Len(code)
    BY <1>1, InstrFits DEF Going
  <2>7. Executed(t, n) /\ UNCHANGED memory
    BY <1>3, <2>1, <2>2, <2>3, <2>6 DEF DefinirVariable
  <2>8. DOMAIN memory' = Places
    BY <2>7, StackFits
  <2>. QED  BY <1>1, <2>3, <2>4, <2>5, <2>6, <2>7, <2>8, ExecutedKeeps DEF Going
<1>. QED  BY <1>2, <1>3

LEMMA AssignmentsKeep ==
    ASSUME IInv, UNCHANGED code,
           \/ Asignar \/ Copiar \/ CopiarArgumento
           \/ AsignarValorCompartida \/ ObtenerValorCompartida
    PROVE  IInv'
<1>1. CASE Asignar
  <2>1. Going
    BY <1>1, IsGoing DEF Asignar
  <2>. QED  BY <1>1, <2>1, NextKeeps, UnknownKeeps DEF Asignar
<1>2. CASE Copiar
  <2>1. Going
    BY <1>2, IsGoing DEF Copiar
  <2>. QED  BY <1>2, <2>1, NextKeeps, UnknownKeeps DEF Copiar
<1>3. CASE CopiarArgumento
  <2>1. Going
    BY <1>3, IsGoing DEF CopiarArgumento
  <2>. QED  BY <1>3, <2>1, NextKeeps, UnknownKeeps, EndKeeps DEF CopiarArgumento, Going
<1>4. CASE AsignarValorCompartida
  <2>1. Going
    BY <1>4, IsGoing DEF AsignarValorCompartida
  <2>. QED  BY <1>4, <2>1, NextKeeps, UnknownKeeps DEF AsignarValorCompartida
<1>5. CASE ObtenerValorCompartida
  <2>1. Going
    BY <1>5, IsGoing DEF ObtenerValorCompartida
  <2>. QED  BY <1>5, <2>1, NextKeeps, UnknownKeeps DEF ObtenerValorCompartida
<1>. QED  BY <1>1, <1>2, <1>3, <1>4, <1>5

LEMMA IrAlLabelKeeps ==
    ASSUME IInv, IrAlLabel, UNCHANGED code
    PROVE  IInv'
<1>1. Going /\ Instr.op = "goto"
  BY IsGoing DEF IrAlLabel
<1>2. CASE Instr.to = NoId
  BY <1>1, <1>2, EndKeeps DEF IrAlLabel, Going, Exits
<1>3. CASE Instr.to # NoId
  <2>1. PICK n \in Int : n = Instr.to - 1 /\ n + 1 \in Nat /\ n + 1 < Len(code)
    <3>1. Instr.to \in Nat /\ Instr.to < Len(code)
      BY <1>1, <1>3, InstrFits DEF Going
    <3>2. Instr.to - 1 \in Int /\ Instr.to - 1 + 1 = Instr.to
      BY <3>1
    <3>. QED  BY <3>1, <3>2
  <2>2. PICK s \in Seq(Contexts) : s = Stack /\ s # <<>> /\ Numbered(s) /\ CallersGoOn(s)
    BY StackFits
  <2>3. Executed(s, n) /\ UNCHANGED memory
    BY <1>3, <2>1, <2>2 DEF IrAlLabel
  <2>4. DOMAIN memory' = Places
    BY <2>3, StackFits
  <2>. QED  BY <1>1, <2>1, <2>2, <2>3, <2>4, ExecutedKeeps DEF Going
<1>. QED  BY <1>2, <1>3

LEMMA LlamarConRetornoKeeps ==
    ASSUME IInv, LlamarConRetorno, UNCHANGED code
    PROVE  IInv'
<1>1. Going /\ Instr.op = "call"
  BY IsGoing DEF LlamarConRetorno
<1>2. CASE ~Known(Instr.id)
  BY <1>1, <1>2, UnknownKeeps DEF LlamarConRetorno
<1>3. CASE Known(Instr.id) /\ Instr.to = NoId
  BY <1>1, <1>3, EndKeeps DEF LlamarConRetorno, Going
<1>4. CASE Known(Instr.id) /\ Instr.to # NoId
  <2>1. PICK n \in Int : n = Instr.to - 1 /\ n + 1 \in Nat /\ n + 1 < Len(code)
    <3>1. Instr.to \in Nat /\ Instr.to < Len(code)
      BY <1>1, <1>4, InstrFits DEF Going
    <3>2. Instr.to - 1 \in Int /\ Instr.to - 1 + 1 = Instr.to
      BY <3>1
    <3>. QED  BY <3>1, <3>2
  <2>2. PICK s \in Seq(Contexts) : s = Stack /\ s # <<>> /\ Numbered(s) /\ CallersGoOn(s)
    BY StackFits
  <2>3. PICK pc \in Nat : pc = pcb.pc /\ pc + 1 < Len(code)
    BY <1>1, InstrFits DEF Going
  <2>4. PICK p \in Places : p = Position(Instr.id)
    BY <1>4, PositionIsThere
  <2>5. PICK t \in Seq(Contexts) :
            t = Append(s, [vars |-> Null, args |-> Null, retpos |-> pc, retvar |-> p])
    BY <2>2, CalledKeeps
  <2>6. /\ Len(t) = Len(s) + 1 /\ t[Len(t)].retpos = pc /\ Numbered(t)
        /\ \A i \in 1 .. Len(s) : t[i] = s[i]
    BY <2>2, <2>5, CalledKeeps
  <2>7. t # <<>> /\ Len(s) \in Nat
    BY <2>2, <2>6
  <2>8. CallersGoOn(t)
    <3>1. ASSUME NEW i \in 2 .. Len(t) PROVE t[i].retpos + 1 < Len(code)
      <4>1. CASE i = Len(t)
        BY <2>3, <2>6, <4>1
      <4>2. CASE i # Len(t)
        <5>1. i \in 1 .. Len(s) /\ i \in 2 .. Len(s)
          BY <2>6, <2>7, <4>2
        <5>. QED  BY <2>2, <2>6, <5>1 DEF CallersGoOn
      <4>. QED  BY <4>1, <4>2
    <3>. QED  BY <3>1 DEF CallersGoOn
  <2>9. PICK args \in Seq(Value) : args = Instr.args
    BY <1>1, InstrFits DEF Going, Instructions
  <2>10. IF args = <<>> THEN Executed(t, n) /\ UNCHANGED memory
         ELSE IF Overflows(VarsInStack(t)) THEN Finalizes("STACK_OVERFLOW")
         ELSE Executed(WithArguments(t, args), n)
              /\ Store(Place(VarsInStack(t)), Encoded(Last(args)))
    BY <1>4, <2>1, <2>2, <2>3, <2>4, <2>5, <2>9 DEF LlamarConRetorno
  <2>11. CASE args = <<>>
    <3>1. DOMAIN memory' = Places
      BY <2>10, <2>11, StackFits
    <3>. QED  BY <1>1, <2>1, <2>6, <2>7, <2>8, <2>10, <2>11, <3>1, ExecutedKeeps DEF Going
  <2>12. CASE args # <<>> /\ Overflows(VarsInStack(t))
    BY <1>1, <2>10, <2>12, EndKeeps DEF Going, Exits
  <2>13. CASE args # <<>> /\ ~Overflows(VarsInStack(t))
    <3>1. PICK u \in Seq(Contexts) :
              /\ u = WithArguments(t, args) /\ Len(u) = Len(t) /\ Numbered(u)
              /\ \A i \in 1 .. Len(t) : u[i].retpos = t[i].retpos
      BY <2>6, <2>7, <2>13, ArgumentsKeep
    <3>2. u # <<>>
      BY <2>6, <2>7, <3>1
    <3>3. CallersGoOn(u)
      <4>1. \A i \in 2 .. Len(u) : i \in 1 .. Len(t) /\ i \in 2 .. Len(t)
        BY <3>1
      <4>. QED  BY <2>8, <3>1, <4>1 DEF CallersGoOn
    <3>4. Executed(u, n) /\ DOMAIN memory' = Places
      BY <2>10, <2>13, <3>1, StoreKeeps
    <3>. QED  BY <1>1, <2>1, <3>1, <3>2, <3>3, <3>4, ExecutedKeeps DEF Going
  <2>. QED  BY <2>11, <2>12, <2>13
<1>. QED  BY <1>2, <1>3, <1>4

LEMMA RetornarKeeps ==
    ASSUME IInv, Retornar, UNCHANGED code
    PROVE  IInv'
<1>1. Going /\ Instr.op = "return"
  BY IsGoing DEF Retornar
<1>2. CASE ~Known(Instr.from)
  BY <1>1, <1>2, UnknownKeeps DEF Retornar
<1>3. CASE Known(Instr.from) /\ Depth = 1
  BY <1>1, <1>3, EndKeeps DEF Retornar, Going
<1>4. CASE Known(Instr.from) /\ Depth # 1
  <2>1. PICK s \in Seq(Contexts) : s = Stack /\ s # <<>> /\ Numbered(s) /\ CallersGoOn(s)
    BY StackFits
  <2>2. PICK d \in Nat : d = Len(s) /\ d = Depth /\ d \in 2 .. Len(s) /\ s[d] \in Contexts
    <3>1. Depth = Len(s) /\ Depth \in 1 .. Len(s) /\ s[Depth] \in Contexts
      BY <2>1, StackFits DEF Current
    <3>. QED  BY <1>4, <3>1
  <2>3. PICK t \in Seq(Contexts) :
            /\ t = Front(s) /\ Len(t) = d - 1 /\ Numbered(t)
            /\ \A i \in 1 .. d - 1 : t[i] = s[i]
    <3>1. /\ Front(s) \in Seq(Contexts) /\ Len(Front(s)) = Len(s) - 1
          /\ \A i \in 1 .. Len(s) - 1 : Front(s)[i] = s[i]
          /\ Numbered(Front(s))
      BY <2>1, FrontKeeps
    <3>2. d = Len(s)
      BY <2>2
    <3>. QED  BY <3>1, <3>2
  <2>4. t # <<>>
    BY <2>2, <2>3
  <2>5. CallersGoOn(t)
    <3>1. \A i \in 2 .. Len(t) : i \in 1 .. d - 1 /\ i \in 2 .. Len(s)
      BY <2>2, <2>3
    <3>. QED  BY <2>1, <2>3, <3>1 DEF CallersGoOn
  <2>6. PICK n \in Int : n = Current.retpos /\ n + 1 \in Nat /\ n + 1 < Len(code)
    <3>1. Current = s[d] /\ s[d].retpos \in Nat /\ s[d].retpos + 1 < Len(code)
      BY <2>1, <2>2 DEF Current, Contexts, CallersGoOn
    <3>. QED  BY <3>1
  <2>7. Executed(t, n) /\ Store(Current.retvar, AsText(ValueOf(Instr.from)))
    BY <1>4, <2>1, <2>3, <2>6 DEF Retornar
  <2>8. DOMAIN memory' = Places
    BY <2>7, StoreKeeps
  <2>. QED  BY <1>1, <2>3, <2>4, <2>5, <2>6, <2>7, <2>8, ExecutedKeeps DEF Going
<1>. QED  BY <1>2, <1>3, <1>4

LEMMA EndsKeep ==
    ASSUME IInv, Finalizar \/ LlamarSinRetorno, UNCHANGED code
    PROVE  IInv'
BY EndKeeps DEF Finalizar, LlamarSinRetorno, Is, Exits

LEMMA TripsKeep ==
    ASSUME IInv, TaskFinished \/ ReceivePcb
    PROVE  IInv'
<1>1. /\ code \in Program /\ pcb \in [pc : 0 .. Len(code), exit : Exits, stack : Seq(Contexts)]
      /\ turn \in [at : {"kernel", "cpu", "exit", "gone"}, left : -1 .. Quantum, finished : BOOLEAN]
      /\ turn.at \in {"kernel", "cpu"} /\ ~turn.finished => pcb.pc < Len(code)
      /\ turn.at = "kernel" => ~turn.finished
      /\ code' = code /\ memory' = memory /\ pcb' = Trip(pcb) /\ Quantum \in Nat
  BY CpuConstants DEF IInv, TurnFits, TaskFinished, ReceivePcb
<1>2. Len(code) \in Nat
  BY <1>1, ProgramsAreCompiled
<1>3. PICK b \in [pc : Nat, exit : Exits, stack : Seq(Contexts)] : b = pcb /\ b.stack = Stack
  BY <1>1, <1>2 DEF Stack
<1>4. b.pc \in 0 .. Len(code) /\ Len(b.stack) \in Nat
  BY <1>1, <1>3
<1>5. Numbered(b.stack) /\ CallersGoOn(b.stack) /\ b.stack # <<>> /\ DOMAIN memory = Places
  BY <1>3, StackFits
<1>6. /\ pcb' \in [pc : {b.pc}, exit : {b.exit}, stack : Seq(Contexts)]
      /\ Len(pcb'.stack) = Len(b.stack)
      /\ \A i \in 1 .. Len(b.stack) : pcb'.stack[i].retpos = b.stack[i].retpos
      /\ Numbered(pcb'.stack)
  BY <1>1, <1>3, <1>5, TripKeeps
<1>7. PICK t \in Seq(Contexts) : t = pcb'.stack
  BY <1>6
<1>8. /\ pcb' \in [pc : 0 .. Len(code), exit : Exits, stack : Seq(Contexts)]
      /\ pcb'.pc = b.pc /\ Stack' = t
  BY <1>4, <1>6, <1>7 DEF Stack
<1>9. t # <<>>
  BY <1>4, <1>5, <1>6, <1>7
<1>10. CallersGoOn(Stack)'
  <2>1. ASSUME NEW i \in 2 .. Len(t) PROVE t[i].retpos + 1 < Len(code)
    <3>1. i \in 1 .. Len(b.stack) /\ i \in 2 .. Len(b.stack)
      BY <1>6, <1>7
    <3>. QED  BY <1>5, <1>6, <1>7, <3>1 DEF CallersGoOn
  <2>. QED  BY <1>1, <1>8, <2>1 DEF CallersGoOn
<1>11. Numbered(Stack)'
  BY <1>6, <1>7, <1>8
<1>12. /\ turn' \in [at : {"kernel", "cpu", "exit", "gone"}, left : -1 .. Quantum, finished : BOOLEAN]
       /\ turn'.at \in {"kernel", "cpu"} /\ ~turn'.finished => pcb'.pc < Len(code)
       /\ turn'.at = "kernel" => ~turn'.finished
  <2>1. CASE TaskFinished
    <3>1. CASE turn.finished
      <4>1. turn' = [turn EXCEPT !.at = "exit"]
        BY <2>1, <3>1 DEF TaskFinished
      <4>. QED  BY <1>1, <4>1
    <3>2. CASE ~turn.finished
      <4>1. turn' = [turn EXCEPT !.at = "kernel"] /\ turn.at = "cpu"
        BY <2>1, <3>2 DEF TaskFinished
      <4>. QED  BY <1>1, <1>3, <1>8, <3>2, <4>1
    <3>. QED  BY <3>1, <3>2
  <2>2. CASE ReceivePcb
    <3>1. turn' = [at |-> "cpu", left |-> Quantum, finished |-> FALSE] /\ turn.at = "kernel"
      BY <2>2 DEF ReceivePcb
    <3>2. Quantum \in -1 .. Quantum
      BY <1>1
    <3>. QED  BY <1>1, <1>3, <1>8, <3>1, <3>2
  <2>. QED  BY <2>1, <2>2
<1>13. TurnFits'
  BY <1>1, <1>5, <1>8, <1>9, <1>10, <1>12 DEF TurnFits
<1>. QED  BY <1>11, <1>13 DEF IInv

LEMMA InitFits == Init => IInv
<1>. SUFFICES ASSUME Init PROVE IInv
  OBVIOUS
<1> DEFINE c == [vars |-> Null, args |-> Null, retpos |-> 0, retvar |-> Place(0)]
<1>1. 0 < Room /\ 0 \in Nat /\ Room \in Nat
  <2>1. 1 * Cells <= StackSize * Cells /\ Cells \in Nat \ {0}
    BY CpuConstants, ProductGrows
  <2>. QED  BY <2>1, CpuConstants DEF Room
<1>2. Place(0) \in Places
  BY <1>1, RoomIsLeft
<1>3. c \in Contexts /\ c.vars = Null
  BY <1>2 DEF Contexts
<1>4. Stack = <<c>> /\ pcb.pc = 0 /\ pcb.exit = "none"
  BY DEF Init, Stack
<1>. HIDE DEF c
<1>5. PICK s \in Seq(Contexts) : s = Stack /\ Len(s) = 1 /\ s[1] = c
  <2>1. <<c>> \in Seq(Contexts) /\ Len(<<c>>) = 1 /\ <<c>>[1] = c
    BY <1>3
  <2>. QED  BY <1>4, <2>1
<1>6. Held(c) = 0
  BY <1>3 DEF Held, Listed
<1>7. Numbered(s)
  <2>1. VarsInStack(s) = 0
    <3>1. /\ Below(s, 0) = 0 /\ Below(s, 1) = Below(s, 0) + Held(s[1])
          /\ VarsInStack(s) = Below(s, 1)
      <4>1. 1 \in 1 .. Len(s) /\ 1 - 1 = 0
        BY <1>5
      <4>. QED  BY <1>5, <4>1, BelowStep
    <3>. QED  BY <1>5, <1>6, <3>1
  <2>2. \A i \in 1 .. Len(s) : Len(Listed(s[i].vars)) = 0
    BY <1>5, <1>6 DEF Held
  <2>. QED  BY <1>1, <2>1, <2>2 DEF Numbered
<1>8. CallersGoOn(Stack) /\ Stack # <<>>
  BY <1>5 DEF CallersGoOn
<1>9. code \in Program /\ code \in Seq(Instructions) /\ code # <<>>
  BY ProgramsAreCompiled DEF Init
<1>10. PICK n \in Nat : n = Len(code) /\ 0 < n
  BY <1>9
<1>11. pcb \in [pc : 0 .. Len(code), exit : Exits, stack : Seq(Contexts)]
  <2>1. pcb = [pc |-> 0, exit |-> "none", stack |-> s]
    BY <1>4, <1>5 DEF Init, Stack
  <2>. QED  BY <1>10, <2>1 DEF Exits
<1>12. DOMAIN memory = Places
  BY DEF Init
<1>13. /\ turn \in [at : {"kernel", "cpu", "exit", "gone"}, left : -1 .. Quantum, finished : BOOLEAN]
       /\ ~turn.finished
  BY CpuConstants DEF Init
<1>14. TurnFits
  BY <1>4, <1>8, <1>9, <1>10, <1>11, <1>12, <1>13 DEF TurnFits
<1>. QED  BY <1>5, <1>7, <1>14 DEF IInv

LEMMA StepKeeps == IInv /\ [Next]_vars => IInv'
<1>. SUFFICES ASSUME IInv, [Next]_vars PROVE IInv'
  OBVIOUS
<1>1. CASE UNCHANGED vars
  <2>1. Stack' = Stack /\ code' = code /\ pcb' = pcb /\ memory' = memory /\ turn' = turn
    BY <1>1 DEF vars, Stack
  <2>2. Numbered(Stack)'
    BY <2>1 DEF IInv
  <2>3. TurnFits'
    BY <2>1 DEF IInv, TurnFits, CallersGoOn
  <2>. QED  BY <2>2, <2>3 DEF IInv
<1>2. CASE Execute
  <2>1. Primitive /\ UNCHANGED code
    BY <1>2 DEF Execute
  <2>. QED  BY <2>1, DefinirVariableKeeps, AssignmentsKeep, IrAlLabelKeeps, LlamarConRetornoKeeps,
               RetornarKeeps, EndsKeep DEF Primitive
<1>3. CASE TaskFinished \/ ReceivePcb
  BY <1>3, TripsKeep
<1>. QED  BY <1>1, <1>2, <1>3 DEF Next

LEMMA Invariance == Spec => []IInv
<1>. QED  BY InitFits, StepKeeps, PTL DEF Spec
-----------------------------------------------------------------------------
(* The theorems. *)

\* Whatever a program does, on every error path of the primitives too, the block has a
\* place inside the stack's pages for every variable and for what every call returns
\* to, and a turn stays within the quantum.
THEOREM TypesAreKept == Spec => []TypeOK
<1>1. ASSUME IInv PROVE TypeOK
  <2>1. /\ pcb \in [pc : 0 .. Len(code), exit : Exits, stack : Seq(Contexts)]
        /\ turn \in [at : {"kernel", "cpu", "exit", "gone"}, left : -1 .. Quantum, finished : BOOLEAN]
        /\ DOMAIN memory = Places /\ Stack \in Seq(Contexts)
    BY <1>1, StackFits DEF IInv, TurnFits
  <2>2. ASSUME NEW i \in DOMAIN Stack
        PROVE  /\ \A list \in {Stack[i].vars, Stack[i].args} :
                      list # Null => \A j \in DOMAIN list : list[j].at \in Places
               /\ Stack[i].retpos \in Nat /\ Stack[i].retvar \in Places
    <3>1. Stack[i] \in Contexts
      BY <2>1
    <3>2. ASSUME NEW list \in {Stack[i].vars, Stack[i].args}, list # Null, NEW j \in DOMAIN list
          PROVE  list[j].at \in Places
      <4>1. list \in Seq(Variables)
        BY <3>1, <3>2 DEF Contexts
      <4>2. list[j] \in Variables
        BY <4>1
      <4>. QED  BY <4>2 DEF Variables
    <3>3. Stack[i].retpos \in Nat /\ Stack[i].retvar \in Places
      BY <3>1 DEF Contexts
    <3>. QED  BY <3>2, <3>3
  <2>. QED  BY <2>1, <2>2 DEF TypeOK, Exits
<1>. QED  BY <1>1, Invariance, PTL

\* Every variable of every call has a cell of its own, the one that counting finds, at
\* any depth of calls and after any number of trips as text: calls with arguments, which
\* the counts leave out, do not disturb the variables.
THEOREM VariablesStayApart == Spec => []VariablesAreApart
<1>1. ASSUME IInv PROVE VariablesAreApart
  <2> DEFINE Defs == {d \in (DOMAIN Stack) \X (1 .. StackSize * Cells) :
                          d[2] <= Len(Listed(Stack[d[1]].vars))}
             Of(d) == Stack[d[1]].vars[d[2]]
             Number(d) == Below(Stack, d[1] - 1) + d[2] - 1
  <2>1. PICK s \in Seq(Contexts) : s = Stack /\ Numbered(s)
    BY <1>1, StackFits
  <2>2. ASSUME NEW i \in 1 .. Len(s), NEW j \in 1 .. Held(s[i])
        PROVE  /\ s[i].vars[j].at = Place(Below(s, i - 1) + j - 1)
               /\ Below(s, i - 1) + j - 1 \in Nat
               /\ Below(s, i - 1) + j - 1 < Below(s, i)
    BY <2>1, NumbersFit DEF Numbered, Held
  <2>3. ASSUME NEW i \in 1 .. Len(s), NEW j \in 1 .. Held(s[i]),
               NEW k \in 1 .. Len(s), NEW m \in 1 .. Held(s[k]),
               s[i].vars[j].at = s[k].vars[m].at
        PROVE  i = k /\ j = m
    <3>1. PICK x \in Nat : x = Below(s, i - 1) + j - 1 /\ x < Below(s, i)
                           /\ s[i].vars[j].at = Place(x)
      BY <2>2
    <3>2. PICK y \in Nat : y = Below(s, k - 1) + m - 1 /\ y < Below(s, k)
                           /\ s[k].vars[m].at = Place(y)
      BY <2>2
    <3>3. x = y
      BY <2>3, <3>1, <3>2, PlacesDiffer
    <3>4. /\ Below(s, i - 1) \in Nat /\ Below(s, i) \in Nat
          /\ Below(s, k - 1) \in Nat /\ Below(s, k) \in Nat
      <4>1. i - 1 \in 0 .. Len(s) /\ i \in 0 .. Len(s) /\ k - 1 \in 0 .. Len(s) /\ k \in 0 .. Len(s)
        OBVIOUS
      <4>. QED  BY <4>1, BelowGrows
    <3>5. ~(i < k)
      <4>1. SUFFICES ASSUME i < k PROVE FALSE
        OBVIOUS
      <4>2. k - 1 \in 0 .. Len(s) /\ i \in 0 .. k - 1
        BY <4>1
      <4>3. Below(s, i) <= Below(s, k - 1)
        BY <4>2, BelowGrows
      <4>4. PICK p \in Nat : p = Below(s, k - 1)
        BY <3>4
      <4>5. PICK q \in Nat : q = Below(s, i)
        BY <3>4
      <4>6. x < q /\ y = p + m - 1 /\ q <= p /\ m >= 1 /\ m \in Int
        BY ONLY <3>1, <3>2, <4>3, <4>4, <4>5, m \in 1 .. Held(s[k])
      <4>. QED  BY ONLY <3>3, <4>6, x \in Nat, y \in Nat, p \in Nat, q \in Nat
    <3>6. ~(k < i)
      <4>1. SUFFICES ASSUME k < i PROVE FALSE
        OBVIOUS
      <4>2. i - 1 \in 0 .. Len(s) /\ k \in 0 .. i - 1
        BY <4>1
      <4>3. Below(s, k) <= Below(s, i - 1)
        BY <4>2, BelowGrows
      <4>4. PICK p \in Nat : p = Below(s, i - 1)
        BY <3>4
      <4>5. PICK q \in Nat : q = Below(s, k)
        BY <3>4
      <4>6. y < q /\ x = p + j - 1 /\ q <= p /\ j >= 1 /\ j \in Int
        BY ONLY <3>1, <3>2, <4>3, <4>4, <4>5, j \in 1 .. Held(s[i])
      <4>. QED  BY ONLY <3>3, <4>6, x \in Nat, y \in Nat, p \in Nat, q \in Nat
    <3>7. i = k
      BY <3>5, <3>6
    <3>. QED  BY <3>1, <3>2, <3>3, <3>4, <3>7
  <2>4. ASSUME NEW d \in Defs
        PROVE  /\ d = <<d[1], d[2]>> /\ d[1] \in 1 .. Len(s) /\ d[2] \in 1 .. Held(s[d[1]])
               /\ Of(d) = s[d[1]].vars[d[2]]
    <3>1. /\ d \in (DOMAIN Stack) \X (1 .. StackSize * Cells) /\ d[1] \in DOMAIN s
          /\ d[2] \in 1 .. StackSize * Cells /\ d[2] <= Held(s[d[1]])
      BY <2>1 DEF Held
    <3>2. d = <<d[1], d[2]>> /\ DOMAIN s = 1 .. Len(s)
      BY <3>1
    <3>3. Held(s[d[1]]) \in Nat /\ d[2] \in Nat /\ d[2] >= 1
      <4>1. StackSize * Cells \in Nat
        BY CpuConstants
      <4>. QED  BY <3>1, <4>1, HeldIsNat
    <3>. QED  BY <2>1, <3>1, <3>2, <3>3
  <2>5. ASSUME NEW d \in Defs, NEW e \in Defs, Of(d).at = Of(e).at
        PROVE  d = e
    <3>1. d[1] = e[1] /\ d[2] = e[2]
      <4>. HIDE DEF Defs, Of
      <4>1. PICK i \in 1 .. Len(s) : i = d[1]
        BY <2>4
      <4>2. PICK k \in 1 .. Len(s) : k = e[1]
        BY <2>4
      <4>3. PICK j \in 1 .. Held(s[i]) : j = d[2]
        BY <2>4, <4>1
      <4>4. PICK m \in 1 .. Held(s[k]) : m = e[2]
        BY <2>4, <4>2
      <4>5. s[i].vars[j].at = s[k].vars[m].at
        BY <2>4, <2>5, <4>1, <4>2, <4>3, <4>4
      <4>6. i = k /\ j = m
        BY <2>3, <4>5
      <4>. QED  BY <4>1, <4>2, <4>3, <4>4, <4>6
    <3>. HIDE DEF Defs, Of
    <3>. QED  BY <2>4, <3>1
  <2>6. ASSUME NEW d \in Defs, Index(Stack[d[1]].vars, Of(d).id) = d[2]
        PROVE  PositionIn(d[1], Of(d).id) = Of(d).at
    <3>1. PositionIn(d[1], Of(d).id)
              = Place(Below(Stack, d[1] - 1) + Index(Stack[d[1]].vars, Of(d).id) - 1)
      BY PositionCounts
    <3>2. Of(d).at = Place(Below(s, d[1] - 1) + d[2] - 1)
      <4>. HIDE DEF Defs, Of
      <4>. QED  BY <2>2, <2>4
    <3>. HIDE DEF Defs, Of
    <3>. QED  BY <2>1, <2>6, <3>1, <3>2
  <2>. QED  BY <2>5, <2>6 DEF VariablesAreApart
<1>. QED  BY <1>1, Invariance, PTL
=============================================================================
