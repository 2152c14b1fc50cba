---------------------------- MODULE CpuExecution ----------------------------
(***************************************************************************)
(* A program on the CPUs. A CPU receives the process control block as      *)
(* text, executes instructions until the quantum is spent or the program   *)
(* ends, and sends it back as text. The block has the stack index: for     *)
(* every call its arguments and variables, each with its page and offset,  *)
(* and where to return; the values are in the pages of the stack, in the   *)
(* memory process. Everything the parser does for one instruction is one   *)
(* step here: no other process writes those pages.                         *)
(***************************************************************************)
EXTENDS Integers, Sequences, SequencesExt, FiniteSetsExt

CONSTANTS
    Program,    \* the programs: sequences of instructions
    PageC,      \* page_c: the pages of code, which the stack comes after
    Cells,      \* frame_size / sizeof(int): the variables that fit in a page
    StackSize,  \* stack_size, in pages
    Quantum,    \* the quantum, with round robin
    Hash,       \* the byte '#'
    Value,      \* the integers, as sequences of bytes
    Name,       \* the names of variables
    NoId,       \* no variable, or no such label
    Null        \* NULL

ASSUME CpuConstants ==
    /\ PageC \in Nat /\ Cells \in Nat \ {0} /\ StackSize \in Nat \ {0} /\ Quantum \in Nat
    /\ Hash \in Nat \ {0}

Places == [pag : PageC .. PageC + StackSize - 1, off : 0 .. Cells - 1]

\* A variable or an argument of a call: arguments are numbered from 1 here.
Variables == [id : Name \cup Nat, at : Places]

Instructions ==
    [op : {"define", "assign", "copy", "argument", "set", "get", "goto", "call", "return", "end", "run"},
     id : Name \cup {NoId}, from : Name \cup {NoId} \cup Nat, to : Nat \cup {NoId},
     value : Value, args : Seq(Value)]

\* What the preprocessor makes of a text: labels are instructions of it, every
\* definition has a name, and the last line ends the program or its last function.
ASSUME ProgramsAreCompiled ==
    \A c \in Program :
        /\ c \in Seq(Instructions) /\ c # <<>> /\ Last(c).op = "end"
        /\ \A i \in DOMAIN c :
               /\ c[i].op = "define" => c[i].id \in Name
               /\ c[i].op \in {"goto", "call"} /\ c[i].to # NoId => c[i].to < Len(c)

ASSUME NullIsNoList == Null \notin Seq(Variables)

VARIABLES
    code,       \* the program
    pcb,        \* pc, i_stack and exit_code
    memory,     \* the bytes of each cell of the stack's pages
    shared,     \* the value of a shared variable, in the kernel
    turn        \* where the block is, what is left of the quantum, and finished

vars == <<code, pcb, memory, shared, turn>>

Zero == [i \in 1 .. 2 |-> 0]
-----------------------------------------------------------------------------
(* The block as text. *)

\* Mutated: what is written first is the arguments, still under the key of the variables.
PcbToStringArgs(b) ==
    [b EXCEPT !.stack = [i \in DOMAIN @ |->
        [vars |-> SelectSeq(<<@[i].args, @[i].vars>>, LAMBDA list : list # Null),
         retpos |-> @[i].retpos, retvar |-> @[i].retvar]]]

\* In the place of the arguments the variables are written, under their own key.
PcbToString(b) ==
    [b EXCEPT !.stack = [i \in DOMAIN @ |->
        [vars |-> [k \in 1 .. Cardinality({l \in {"args", "vars"} : @[i][l] # Null}) |-> @[i].vars],
         retpos |-> @[i].retpos, retvar |-> @[i].retvar]]]

\* Of two items with a key the first is found; none has that of the arguments.
StringToPcb(text) ==
    [text EXCEPT !.stack = [i \in DOMAIN @ |->
        [vars |-> IF @[i].vars = <<>> THEN Null ELSE Head(@[i].vars), args |-> Null,
         retpos |-> @[i].retpos, retvar |-> @[i].retvar]]]

Trip(b) == StringToPcb(PcbToString(b))
-----------------------------------------------------------------------------
(* Integers in memory. A message is text: it ends at the first zero byte, and  *)
(* its receiver, which copies it to memory from calloc, reads zeros after it.  *)

AsText(bytes) ==
    [i \in DOMAIN bytes |-> IF \E j \in 1 .. i : bytes[j] = 0 THEN 0 ELSE bytes[i]]

\* cpu_asignar sends '#' for zero, and memory_response_read_bytes_from_page takes it back.
Encoded(v) == [i \in DOMAIN v |-> IF v[i] = 0 THEN Hash ELSE v[i]]
Decoded(bytes) == [i \in DOMAIN bytes |-> IF AsText(bytes)[i] = Hash THEN 0 ELSE AsText(bytes)[i]]
-----------------------------------------------------------------------------
(* The stack. *)

Stack == pcb.stack
Depth == Len(Stack)
Current == Stack[Depth]
Listed(list) == IF list = Null THEN <<>> ELSE list

\* Mutated: the variables of the current context alone.
CountCurrent(stack) == Len(Listed(stack[Len(stack)].vars))

\* vars_in_stack: the arguments are not counted.
VarsInStack(stack) == FoldLeft(LAMBDA n, c : n + Len(Listed(c.vars)), 0, stack)

Place(n) == [pag |-> PageC + n \div Cells, off |-> n % Cells]

\* Mutated: the page after the last one is taken too.
OverflowsLate(n) == n \div Cells > StackSize

Overflows(n) == n \div Cells >= StackSize

\* cpu_definirVariable makes both lists, and puts a variable in its own.
Defined(stack, id) ==
    LET n == Len(stack)
        var == [id |-> id, at |-> Place(VarsInStack(stack))]
    IN  [stack EXCEPT ![n] = [stack[n] EXCEPT !.vars = Append(Listed(@), var), !.args = Listed(@)]]

\* Every argument goes in the other list: none is counted, and all get the same place.
WithArguments(stack, args) ==
    LET n == Len(stack)
        at == Place(VarsInStack(stack))
    IN  [stack EXCEPT ![n] = [stack[n] EXCEPT !.vars = Listed(@),
                                              !.args = [i \in DOMAIN args |-> [id |-> i, at |-> at]]]]

\* cpu_obtenerPosicionVariable: it counts the lists of its kind up to the variable.
Index(list, id) == SelectInSeq(Listed(list), LAMBDA v : v.id = id)
PositionIn(depth, id) ==
    Place(FoldLeft(LAMBDA n, c : n + Len(Listed(c.vars)), 0, SubSeq(Stack, 1, depth - 1))
            + Index(Stack[depth].vars, id) - 1)
ArgumentIn(depth, id) ==
    Place(FoldLeft(LAMBDA n, c : n + Len(Listed(c.args)), 0, SubSeq(Stack, 1, depth - 1))
            + Index(Stack[depth].args, id) - 1)
Position(id) == PositionIn(Depth, id)
Known(id) == Index(Current.vars, id) # 0
ValueOf(id) == Decoded(memory[Position(id)])
-----------------------------------------------------------------------------
(* The turns of the process. *)

\* Mutated: the loop tests the quantum and does not count it down.
NotSpent(left) == left

\* The loop goes on while quantum-- >= 0.
Spent(left) == left - 1

Is(op) == turn.at = "cpu" /\ ~turn.finished /\ turn.left >= 0 /\ code[pcb.pc + 1].op = op
Instr == code[pcb.pc + 1]

\* After every instruction comes pc++: the jumps go to the one before.
Executed(stack, pc) ==
    /\ pcb' = [pcb EXCEPT !.stack = stack, !.pc = pc + 1]
    /\ turn' = [turn EXCEPT !.left = Spent(@)]

Finalizes(exit) ==
    /\ pcb' = [pcb EXCEPT !.exit = exit, !.pc = @ + 1]
    /\ turn' = [turn EXCEPT !.left = Spent(@), !.finished = TRUE]
    /\ UNCHANGED <<memory, shared>>

\* The CPU reads through a null pointer: it is gone, and the program with it.
Crashes == turn' = [turn EXCEPT !.at = "gone"] /\ UNCHANGED <<pcb, memory, shared>>

\* A name that the context does not have, or a context with no list to look in.
Unknown == IF Current.vars = Null THEN Crashes ELSE Finalizes("ERROR_SIN_DEFINIR")

\* cpu_set_shared_var and cpu_get_shared_var, in the kernel.
SetSharedVar(v) == shared' = v
GetSharedVar == shared

Store(place, bytes) == memory' = [memory EXCEPT ![place] = bytes]
-----------------------------------------------------------------------------
(* The primitives. *)

DefinirVariable ==
    /\ Is("define")
    /\ IF Overflows(VarsInStack(Stack))
       THEN Finalizes("STACK_OVERFLOW")
       ELSE Executed(Defined(Stack, Instr.id), pcb.pc) /\ UNCHANGED <<memory, shared>>

Asignar ==
    /\ Is("assign")
    /\ IF Known(Instr.id)
       THEN Store(Position(Instr.id), Encoded(Instr.value)) /\ Executed(Stack, pcb.pc) /\ UNCHANGED shared
       ELSE Unknown

\* cpu_dereferenciar and cpu_asignar.
Copiar ==
    /\ Is("copy")
    /\ IF Known(Instr.id) /\ Known(Instr.from)
       THEN /\ Store(Position(Instr.id), Encoded(ValueOf(Instr.from)))
            /\ Executed(Stack, pcb.pc) /\ UNCHANGED shared
       ELSE Unknown

CopiarArgumento ==
    /\ Is("argument")
    /\ IF \E i \in DOMAIN Stack : Stack[i].args = Null THEN Crashes
       ELSE IF ~Known(Instr.id) \/ Index(Current.args, Instr.from) = 0 THEN Unknown
       ELSE /\ Store(Position(Instr.id), Encoded(Decoded(memory[ArgumentIn(Depth, Instr.from)])))
            /\ Executed(Stack, pcb.pc) /\ UNCHANGED shared

AsignarValorCompartida ==
    /\ Is("set")
    /\ IF Known(Instr.from)
       THEN SetSharedVar(ValueOf(Instr.from)) /\ Executed(Stack, pcb.pc) /\ UNCHANGED memory
       ELSE Unknown

ObtenerValorCompartida ==
    /\ Is("get")
    /\ IF Known(Instr.id)
       THEN Store(Position(Instr.id), Encoded(GetSharedVar)) /\ Executed(Stack, pcb.pc) /\ UNCHANGED shared
       ELSE Unknown

IrAlLabel ==
    /\ Is("goto")
    /\ IF Instr.to = NoId THEN Finalizes("ERROR_SIN_DEFINIR")
       ELSE Executed(Stack, Instr.to - 1) /\ UNCHANGED <<memory, shared>>

\* cpu_llamarConRetorno, and the definition and assignment of each argument.
LlamarConRetorno ==
    /\ Is("call")
    /\ IF ~Known(Instr.id) THEN Unknown
       ELSE IF Instr.to = NoId THEN Crashes
       ELSE LET called == Append(Stack, [vars |-> Null, args |-> Null, retpos |-> pcb.pc,
                                         retvar |-> Position(Instr.id)])
                args == Instr.args
            IN  IF args = <<>>
                THEN Executed(called, Instr.to - 1) /\ UNCHANGED <<memory, shared>>
                ELSE IF Overflows(VarsInStack(called)) THEN Finalizes("STACK_OVERFLOW")
                ELSE /\ Executed(WithArguments(called, args), Instr.to - 1)
                     /\ Store(Place(VarsInStack(called)), Encoded(Last(args)))
                     /\ UNCHANGED shared

\* The value is sent without '#' for its zeros.
Retornar ==
    /\ Is("return")
    /\ IF ~Known(Instr.from) THEN Unknown
       ELSE IF Depth = 1 THEN Crashes
       ELSE /\ Store(Current.retvar, AsText(ValueOf(Instr.from)))
            /\ Executed(Front(Stack), Current.retpos) /\ UNCHANGED shared

\* The program ends, in whatever context.
Finalizar == Is("end") /\ Finalizes("NO_ERRORES")

LlamarSinRetorno == Is("run") /\ Finalizes("ERROR_SINTAXIS")
-----------------------------------------------------------------------------
(* The loop around them. *)

Primitive ==
    \/ DefinirVariable \/ Asignar \/ Copiar \/ CopiarArgumento
    \/ AsignarValorCompartida \/ ObtenerValorCompartida
    \/ IrAlLabel \/ LlamarConRetorno \/ Retornar \/ Finalizar \/ LlamarSinRetorno

Execute == Primitive /\ UNCHANGED code

TaskFinished ==
    /\ turn.at = "cpu" /\ (turn.finished \/ turn.left < 0)
    /\ pcb' = Trip(pcb)
    /\ turn' = [turn EXCEPT !.at = IF turn.finished THEN "exit" ELSE "kernel"]
    /\ UNCHANGED <<code, memory, shared>>

ReceivePcb ==
    /\ turn.at = "kernel"
    /\ pcb' = Trip(pcb)
    /\ turn' = [at |-> "cpu", left |-> Quantum, finished |-> FALSE]
    /\ UNCHANGED <<code, memory, shared>>

Init ==
    /\ code \in Program
    /\ pcb = [pc |-> 0, exit |-> "none",
              stack |-> <<[vars |-> Null, args |-> Null, retpos |-> 0, retvar |-> Place(0)]>>]
    /\ memory = [p \in Places |-> Zero]
    /\ shared = Zero
    /\ turn = [at |-> "kernel", left |-> 0, finished |-> FALSE]

Next == Execute \/ TaskFinished \/ ReceivePcb

\* The CPU goes on executing, and sends the block back.
Fairness == WF_vars(Execute) /\ WF_vars(TaskFinished)

Spec == Init /\ [][Next]_vars
FairSpec == Spec /\ Fairness
-----------------------------------------------------------------------------
TypeOK ==
    /\ pcb.pc \in 0 .. Len(code)
    /\ pcb.exit \in {"none", "NO_ERRORES", "STACK_OVERFLOW", "ERROR_SIN_DEFINIR", "ERROR_SINTAXIS"}
    /\ \A i \in DOMAIN Stack :
           /\ \A list \in {Stack[i].vars, Stack[i].args} :
                  list # Null => \A j \in DOMAIN list : list[j].at \in Places
           /\ Stack[i].retpos \in Nat /\ Stack[i].retvar \in Places
    /\ DOMAIN memory = Places
    /\ turn.left \in -1 .. Quantum /\ turn.finished \in BOOLEAN
    /\ turn.at \in {"kernel", "cpu", "exit", "gone"}

\* Every variable of every call has a cell of its own, from its definition to the return,
\* and it is the one that counting finds: the count goes over contexts that are still
\* there and were read back from text at the turn of the process.
VariablesAreApart ==
    LET Defs == {d \in (DOMAIN Stack) \X (1 .. StackSize * Cells) : d[2] <= Len(Listed(Stack[d[1]].vars))}
        Of(d) == Stack[d[1]].vars[d[2]]
    IN  /\ \A d, e \in Defs : Of(d).at = Of(e).at => d = e
        /\ \A d \in Defs : Index(Stack[d[1]].vars, Of(d).id) = d[2] => PositionIn(d[1], Of(d).id) = Of(d).at

\* Every argument has a cell of its own, and it is the one that counting finds. It has
\* not: arguments are not counted when the next one, or a variable, is defined.
ArgumentsAreApart ==
    \A i \in DOMAIN Stack : \A j \in DOMAIN Listed(Stack[i].args) :
        LET arg == Stack[i].args[j]
        IN  /\ ArgumentIn(i, arg.id) = arg.at
            /\ \A k \in DOMAIN Listed(Stack[i].args) : Stack[i].args[k].at = arg.at => k = j
            /\ \A m \in DOMAIN Stack : \A k \in DOMAIN Listed(Stack[m].vars) : Stack[m].vars[k].at # arg.at

\* A turn ends: with round robin no program keeps a CPU (kernel_receive_pcb).
TurnsEnd == turn.at = "cpu" ~> turn.at # "cpu"

\* The variable that a call returns to, in the context below.
Into(i) ==
    LET list == Stack[i - 1].vars
    IN  list[SelectInSeq(list, LAMBDA v : v.at = Stack[i].retvar)].id

\* The values of a context, by their names.
Meaning(i) ==
    [value |-> [id \in {v.id : v \in ToSet(Listed(Stack[i].vars))} |-> Decoded(memory[PositionIn(i, id)])],
     args  |-> [k \in DOMAIN Listed(Stack[i].args) |-> Decoded(memory[ArgumentIn(i, k)])],
     retpos |-> Stack[i].retpos,
     into  |-> IF i = 1 THEN NoId ELSE Into(i)]

Machine == INSTANCE AnsisopMachine WITH
    pc <- pcb.pc,
    contexts <- [i \in DOMAIN Stack |-> Meaning(i)],
    ended <- pcb.exit # "none" \/ turn.at = "gone"

\* A program behaves as if it ran alone with named variables: neither the pages, nor the
\* turns, nor the trips of its block as text can be told from what it computes.
RunsAsWritten == Machine!Spec
=============================================================================
