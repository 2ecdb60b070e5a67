----------------------------- MODULE MCAotAsync -----------------------------
(* Programs of one or two functions.  Those of the first kind are all that   *)
(* one can make of a leaf and a function that calls it twice, both of which  *)
(* the entry calls; the others show one thing each.                          *)
EXTENDS AotAsync

Instruction(op, x, args, fn) ==
  [op |-> op, x |-> x, args |-> args, fn |-> fn, void |-> FALSE]

Let(x)           == Instruction("let", x, <<>>, 0)
Log(x)           == Instruction("log", 1, <<x>>, 0)
CallOf(x, fn)    == Instruction("call", x, <<>>, fn)
CallWith(x, fn, p) == Instruction("call", x, <<p>>, fn)
Timer(x, ms)     == Instruction("timer", x, <<>>, ms)
Work(x)          == Instruction("work", x, <<>>, 0)
AwaitOf(x, p)    == Instruction("await", x, <<p>>, 0)
AwaitVoid(x, p)  == [AwaitOf(x, p) EXCEPT !.void = TRUE]
ReturnOf(args)   == Instruction("return", 1, args, 0)
Jump             == Instruction("jump", 1, <<>>, 0)
If(x)            == Instruction("branch", 1, <<x>>, 0)
Phi(x, args)     == Instruction("phi", x, args, 0)

Fn(blocks)      == [params |-> <<>>, promised |-> {}, blocks |-> blocks]
FnOf1(p, blocks) == [params |-> <<p>>, promised |-> {p}, blocks |-> blocks]

Prog(functions, entry) == [functions |-> functions, entry |-> entry]

-----------------------------------------------------------------------------
AtOnce   == Fn(<< <<Let(1), Log(1), ReturnOf(<<1>>)>> >>)
Sleeps   == Fn(<< <<Timer(1, 10), AwaitVoid(2, 1), ReturnOf(<<>>)>> >>)
Reads1   == Fn(<< <<Let(3), Work(1), AwaitOf(2, 1), ReturnOf(<<3>>)>> >>)
Twice    == Fn(<< <<Work(1), Timer(2, 5), AwaitVoid(3, 2), AwaitOf(4, 1),
                    ReturnOf(<<4>>)>> >>)
Leaves == {AtOnce, Sleeps, Reads1, Twice}

\* Calls function 1 twice, and waits for the calls in either order, or the one
\* before the other is made.
Callers ==
  { Fn(<< <<CallOf(1, 1), CallOf(2, 1), AwaitOf(3, 2), AwaitOf(4, 1), Log(4),
            ReturnOf(<<3>>)>> >>),
    Fn(<< <<CallOf(1, 1), CallOf(2, 1), AwaitOf(3, 1), AwaitOf(4, 2), Log(4),
            ReturnOf(<<4>>)>> >>),
    Fn(<< <<CallOf(1, 1), AwaitOf(3, 1), CallOf(2, 1), AwaitOf(4, 2), Log(4),
            ReturnOf(<<3>>)>> >>) }

Combined == {Prog(<<leaf, caller>>, <<0, 2, 1, 0>>) : leaf \in Leaves, caller \in Callers}

-----------------------------------------------------------------------------
\* Three callees that wait for one promise, of which it keeps two.
Waits == FnOf1(1, << <<AwaitOf(2, 1), Log(2), ReturnOf(<<2>>)>> >>)
Crowd == Prog(<<Waits, Fn(<< <<Work(1), CallWith(2, 1, 1), CallWith(3, 1, 1),
                               CallWith(4, 1, 1), AwaitOf(5, 2), AwaitOf(6, 4),
                               ReturnOf(<<5>>)>> >>)>>, <<2>>)
\* Of which the first is the caller.
Pair  == Prog(<<Waits, Fn(<< <<Timer(1, 5), CallWith(2, 1, 1), AwaitOf(3, 1),
                               AwaitOf(4, 2), ReturnOf(<<3>>)>> >>)>>, <<2>>)

Branches ==
  Prog(<<Fn(<< <<Let(1), If(1)>>,
               <<Timer(2, 5), AwaitVoid(3, 2), Jump>>,
               <<Timer(4, 1), AwaitVoid(5, 4), Jump>>,
               <<ReturnOf(<<>>)>> >>)>>, <<1>>)

Loop == Prog(<<Fn(<< <<Let(1), Jump>>, <<Let(2), If(2)>>,
                     <<Work(3), AwaitOf(4, 3), Jump>> >>)>>, <<1, 1>>)

Forward == Prog(<<Fn(<< <<CallOf(1, 2), AwaitOf(2, 1), ReturnOf(<<>>)>> >>), Sleeps>>,
                <<1>>)
Native == Prog(<<Fn(<< <<Instruction("native", 1, <<>>, 0), ReturnOf(<<1>>)>> >>)>>, <<1>>)

\* What a branch chose is awaited in its case, or in a later one.
Choice(rest) ==
  Prog(<<Fn(<< <<Let(1), If(1)>>, <<Work(2), Jump>>, <<Work(3), Jump>>,
               <<Phi(4, <<2, 3>>)>> \o rest >>)>>, <<1>>)

ChosenNow   == Choice(<<AwaitOf(5, 4), ReturnOf(<<>>)>>)
ChosenLater == Choice(<<Timer(6, 5), AwaitVoid(5, 6), AwaitOf(7, 4), ReturnOf(<<>>)>>)

ReadsVoid == Prog(<<Fn(<< <<Timer(1, 5), AwaitVoid(2, 1), ReturnOf(<<2>>)>> >>)>>, <<1>>)

MCPrograms == Combined \cup
  {Crowd, Pair, Branches, Loop, Forward, Native, ChosenNow, ChosenLater,
   ReadsVoid}

MCVars == 1..7
=============================================================================
