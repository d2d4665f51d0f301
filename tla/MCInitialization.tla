-------------------------- MODULE MCInitialization --------------------------
(* The inputs of the run of Initialization. *)
EXTENDS Initialization

C == Scalar(1)
I == Scalar(2)
Pair == Struct(<<M(1, I), M(2, I)>>)

Index(n) == Token("[", n)
Name(n)  == Token(".", n)
Str(n)   == Token("str", n)
Obj(n)   == Token("obj", n)

Of(ty, more, tokens) == [ty |-> ty, static |-> BOOLEAN, more |-> more, tokens |-> tokens]
Indexes == {Index(n) : n \in 0 .. 2}
Dots(n) == {Name(i) : i \in 1 .. n}

AllKits == {
  Of(I, {Index(0), Name(1)}, 9),
  Of(ArrayOf(I, 2), Indexes, 12),
  Of(ArrayOf(I, 0), Indexes, 12),
  Of(ArrayOf(C, 3), {Str(2), Str(3), Str(4), Str(5), Index(1)}, 12),
  Of(ArrayOf(C, 0), {Str(3), Index(1)}, 12),
  Of(ArrayOf(ArrayOf(I, 2), 2), Indexes \cup {Name(1)}, 12),
  Of(ArrayOf(ArrayOf(I, 2), 0), Indexes, 12),
  Of(ArrayOf(Pair, 2), Indexes \cup Dots(2) \cup {Obj(1)}, 12),
  Of(Pair, Dots(3) \cup {Obj(1), Index(0)}, 12),
  Of(Struct(<<M(1, ArrayOf(I, 2)), M(2, C)>>), Dots(2) \cup Indexes, 12),
  Of(Struct(<<M(1, C), M(0, Struct(<<M(2, I), M(3, C)>>))>>), Dots(3), 12),
  Of(Struct(<<M(1, Pair), M(3, I)>>), Dots(3) \cup {Obj(1)}, 12),
  Of(Struct(<<M(1, ArrayOf(C, 3)), M(2, C)>>), Dots(2) \cup {Str(2), Str(3), Str(4), Str(5), Index(2)}, 12),
  Of(Union(<<M(1, C), M(2, Pair)>>), Dots(2) \cup {Obj(1)}, 12),
  Of(Struct(<<M(0, Union(<<M(1, Pair), M(2, C)>>)), M(3, C)>>), Dots(3), 12)}

ObjectTypes == <<Pair>>
=============================================================================
