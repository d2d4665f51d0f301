----------------------------- MODULE Aggregates -----------------------------
(***************************************************************************)
(* The types of what is initialised, as values.  A type carries its size   *)
(* and alignment, in the smallest scalar; a struct or union its members    *)
(* with their offsets, and names, the names it can be asked for: those of  *)
(* its members and, through anonymous ones, of theirs.  A name is a        *)
(* number, 0 that of an anonymous member; an array of n = 0 has no bound.  *)
(***************************************************************************)
EXTENDS Naturals, Sequences, FiniteSetsExt, Folds

CONSTANTS
  Space,       \* bound: the units of memory
  Objects      \* the struct types of expressions, a sequence

Scalar(size) == [k |-> "scalar", size |-> size, align |-> size]
ArrayOf(of, n) ==
  [k |-> "array", of |-> of, n |-> n, size |-> n * of.size, align |-> of.align]

M(name, ty) == [name |-> name, ty |-> ty]

RoundUp(off, align) == ((off + align - 1) \div align) * align
AlignOf(ms) == Max({ms[i].ty.align : i \in DOMAIN ms})
NamesOf(ms) ==
  UNION {IF ms[i].name = 0 THEN ms[i].ty.names ELSE {ms[i].name} : i \in DOMAIN ms}

\* Where each member of a struct begins, and where the last ends.
Ends(ms) ==
  LET end[i \in 0 .. Len(ms)] ==
        IF i = 0 THEN 0 ELSE RoundUp(end[i - 1], ms[i].ty.align) + ms[i].ty.size
  IN  end
Record(k, ms, offs, size) ==
  [k |-> k, size |-> RoundUp(size, AlignOf(ms)), align |-> AlignOf(ms),
   members |-> [i \in DOMAIN ms |->
                  [name |-> ms[i].name, ty |-> ms[i].ty, off |-> offs[i]]],
   names |-> NamesOf(ms)]
Struct(ms) ==
  Record("struct", ms, [i \in DOMAIN ms |-> Ends(ms)[i] - ms[i].ty.size], Ends(ms)[Len(ms)])
Union(ms) ==
  Record("union", ms, [i \in DOMAIN ms |-> 0], Max({ms[i].ty.size : i \in DOMAIN ms}))

IsRecordTy(ty) == ty.k \in {"struct", "union"}
IsAggregate(ty) == ty.k # "scalar"
IsComplete(ty) == ty.k = "array" => ty.n # 0
IsCharArray(ty) == ty.k = "array" /\ ty.of = Scalar(1)

\* The member that has the name, or is anonymous and has one that has it.
Designated(ty, name) ==
  CHOOSE i \in DOMAIN ty.members :
    /\ \/ ty.members[i].name = name
       \/ ty.members[i].name = 0 /\ name \in ty.members[i].ty.names
    /\ \A j \in 1 .. i - 1 :
         /\ ty.members[j].name # name
         /\ ty.members[j].name = 0 => name \notin ty.members[j].ty.names

\* The member whose type is the one element of a union's LLVM type.
Represents(ty) ==
  LET size == Max({ty.members[i].ty.size : i \in DOMAIN ty.members})
      large == {i \in DOMAIN ty.members : ty.members[i].ty.size = size}
      plain == {i \in large : ~IsRecordTy(ty.members[i].ty)}
  IN  Min(IF plain = {} THEN large ELSE plain)

(* Memory: what each unit was last initialised with, 0 for nothing. *)
Zero(size) == [u \in 0 .. size - 1 |-> 0]
Units(off, size) == off .. off + size - 1
Fill(mem, off, size, v) ==
  [u \in DOMAIN mem |-> IF u \in Units(off, size) THEN v ELSE mem[u]]
Copy(mem, off, size, from) ==
  [u \in DOMAIN mem |-> IF u \in Units(off, size) THEN from[u] ELSE mem[u]]
=============================================================================
