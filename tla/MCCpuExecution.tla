--------------------------- MODULE MCCpuExecution ---------------------------
(* Instances of CpuExecution for TLC. *)
EXTENDS CpuExecution, TLC

CONSTANTS a, b

Ins(op, id, from, to, value, args) ==
    [op |-> op, id |-> id, from |-> from, to |-> to, value |-> value, args |-> args]
One == <<1, 0>>
Values == {<<0, 0>>, One}

Define(id) == Ins("define", id, NoId, 0, Zero, <<>>)
Assign(id, v) == Ins("assign", id, NoId, 0, v, <<>>)
CopyTo(id, from) == Ins("copy", id, from, 0, Zero, <<>>)
Argument(id, k) == Ins("argument", id, k, 0, Zero, <<>>)
SetShared(from) == Ins("set", NoId, from, 0, Zero, <<>>)
GetShared(id) == Ins("get", id, NoId, 0, Zero, <<>>)
Goto(to) == Ins("goto", NoId, NoId, to, Zero, <<>>)
Call(to, id, args) == Ins("call", id, NoId, to, Zero, args)
Return(from) == Ins("return", NoId, from, 0, Zero, <<>>)
End == Ins("end", NoId, NoId, 0, Zero, <<>>)
Run == Ins("run", NoId, NoId, 0, Zero, <<>>)

\* A program defines a, has two instructions, ends, and has a function of three more.
Main ==
    {Define(b), Assign(a, One), CopyTo(b, a), Call(4, a, <<>>), SetShared(b), GetShared(a),
     Goto(1), Goto(NoId), Return(a), Run}
Function ==
    {Define(b), Assign(b, One), Call(4, b, <<>>), GetShared(b), Argument(b, 1), SetShared(a),
     Return(b)}
Programs ==
    {<<Define(a)>> \o m \o <<End>> \o f \o <<End>> :
        m \in [1 .. 2 -> Main], f \in [1 .. 3 -> Function]}

\* The function takes one argument, and looks at it.
WithArgument ==
    {<<Define(a), Call(3, a, <<One>>), End, Define(b), Argument(b, 1), Return(b), End>>}
=============================================================================
