--------------------------- MODULE AnsisopMachine ---------------------------
(***************************************************************************)
(* What running a program means, with no memory, turns or messages: each   *)
(* call has variables of its own, found by their names, and gives its      *)
(* value to a variable of the caller, which goes on after the call.        *)
(***************************************************************************)
EXTENDS Integers, Sequences

CONSTANTS
    Value,      \* what a variable may hold
    NoId        \* no variable

VARIABLES
    code,       \* the instructions
    pc,         \* the one that is next: the first is 0
    contexts,   \* the calls under way, the main program first
    shared,     \* the shared variable
    ended       \* nothing more is executed

vars == <<code, pc, contexts, shared, ended>>

Instr == code[pc + 1]
Top == contexts[Len(contexts)]
Known(id) == id \in DOMAIN Top.value
With(f, id, v) == [i \in DOMAIN f \cup {id} |-> IF i = id THEN v ELSE f[i]]
Gets(id, v) == contexts' = [contexts EXCEPT ![Len(contexts)].value = With(@, id, v)]
Advance == pc' = pc + 1 /\ UNCHANGED <<code, ended>>
Is(op) == ~ended /\ Instr.op = op

\* A new variable holds anything.
Define ==
    /\ Is("define") /\ Advance /\ UNCHANGED shared
    /\ IF Known(Instr.id) THEN UNCHANGED contexts ELSE \E v \in Value : Gets(Instr.id, v)

Assign ==
    /\ Is("assign") /\ Known(Instr.id) /\ Advance /\ UNCHANGED shared
    /\ Gets(Instr.id, Instr.value)

Copy ==
    /\ Is("copy") /\ Known(Instr.id) /\ Known(Instr.from) /\ Advance /\ UNCHANGED shared
    /\ Gets(Instr.id, Top.value[Instr.from])

CopyArgument ==
    /\ Is("argument") /\ Known(Instr.id) /\ Instr.from \in DOMAIN Top.args /\ Advance /\ UNCHANGED shared
    /\ Gets(Instr.id, Top.args[Instr.from])

SetShared ==
    /\ Is("set") /\ Known(Instr.from) /\ Advance /\ UNCHANGED contexts
    /\ shared' = Top.value[Instr.from]

GetShared ==
    /\ Is("get") /\ Known(Instr.id) /\ Advance /\ UNCHANGED shared
    /\ Gets(Instr.id, shared)

Goto ==
    /\ Is("goto") /\ pc' = Instr.to
    /\ UNCHANGED <<code, contexts, shared, ended>>

Call ==
    /\ Is("call") /\ Known(Instr.id) /\ pc' = Instr.to
    /\ contexts' = Append(contexts, [value |-> <<>>, args |-> Instr.args, retpos |-> pc, into |-> Instr.id])
    /\ UNCHANGED <<code, shared, ended>>

Return ==
    /\ Is("return") /\ Known(Instr.from) /\ Len(contexts) > 1
    /\ pc' = Top.retpos + 1
    /\ contexts' = LET n == Len(contexts) - 1
                   IN  [SubSeq(contexts, 1, n) EXCEPT ![n].value = With(@, Top.into, Top.value[Instr.from])]
    /\ UNCHANGED <<code, shared, ended>>

\* The program ends, by itself, by its mistake or for want of memory.
Stop == ~ended /\ ended' = TRUE /\ pc' \in {pc, pc + 1} /\ UNCHANGED <<code, contexts, shared>>

Init ==
    /\ pc = 0 /\ ended = FALSE /\ shared \in Value
    /\ contexts = <<[value |-> <<>>, args |-> <<>>, retpos |-> 0, into |-> NoId]>>

Next == Define \/ Assign \/ Copy \/ CopyArgument \/ SetShared \/ GetShared \/ Goto \/ Call \/ Return \/ Stop

Spec == Init /\ [][Next]_vars
=============================================================================
