---------------------------- MODULE LayoutProofs ----------------------------
(***************************************************************************)
(* For declarations of any length and depth, with members and bit-fields   *)
(* of any size: the index of a member finds its element, its offset is the *)
(* byte the generated code reaches, a member of a union is cast to its own *)
(* type, and no two members overlap unless a union says so.                *)
(*                                                                         *)
(* LayoutInv is about the elements: a struct only gets more of them.       *)
(* CountedInv is about the numbers counted beside them: offset_ is where   *)
(* the next element would start, an object's offset is the sum of the      *)
(* steps of its path, index_ is the number of members of a union.          *)
(* ApartInv is about any two members of a type that is open: each has a    *)
(* byte, and the bits from there on are its own, below those still free.   *)
(***************************************************************************)
EXTENDS StructLayout, SequenceTheorems, WellFoundedInduction, TLAPS

IsSeq(s) == \E S : s \in Seq(S)

Fields == {"isStruct", "complete", "members", "scope", "llvm", "offset", "align",
           "index", "used", "base", "spaces"}

HasFields(t) == t = [f \in Fields |-> t[f]]

IsType(t) ==
  /\ HasFields(t)
  /\ t.isStruct \in BOOLEAN /\ IsSeq(t.llvm)
  /\ t.isStruct => t.index = Len(t.llvm)

IsObject(o) ==
  /\ o = [f \in {"name", "type", "bits", "begin", "offset", "path"} |-> o[f]]
  /\ IsSeq(o.path) /\ o.path # <<>>

\* What the code does to a type: a struct keeps the elements it has.
Grows(t, u) ==
  /\ IsType(u) /\ u.isStruct = t.isStruct
  /\ t.isStruct => /\ Len(t.llvm) <= Len(u.llvm)
                   /\ \A i \in DOMAIN t.llvm : u.llvm[i] = t.llvm[i]

\* An object and the type its last step is in.
Found(o, ts) ==
  LET e == Last(o.path) IN
  /\ e.type \in DOMAIN ts
  /\ ts[e.type].isStruct =>
       IF o.bits # 0 THEN e.index + 1 \in 1..(Len(ts[e.type].llvm) + 1)
       ELSE /\ e.index + 1 \in DOMAIN ts[e.type].llvm
            /\ ts[e.type].llvm[e.index + 1] = o.type

LayoutInv ==
  /\ IsSeq(types) /\ \A T \in DOMAIN types : IsType(types[T])
  /\ open \in Seq(DOMAIN types) /\ (verdict = "ok" => open # <<>>)
  /\ IsSeq(objs) /\ \A o \in DOMAIN objs : IsObject(objs[o]) /\ Found(objs[o], types)

-----------------------------------------------------------------------------
(* Induction over the natural numbers, stated for a set instead of a       *)
(* predicate, so that it can be cited with S == {n \in Nat : ...}.         *)

\* A set that contains 0, and n + 1 with n, contains every number: one that it
\* does not would have a least one.
LEMMA NatSetInduction ==
  ASSUME NEW S, 0 \in S, \A n \in Nat : n \in S => n + 1 \in S
  PROVE  Nat \subseteq S
<1> SUFFICES ASSUME Nat \ S # {} PROVE FALSE
  OBVIOUS
<1>1. PICK n \in Nat \ S : \A m \in Nat \ S : ~(<<m, n>> \in OpToRel(<, Nat))
  BY NatLessThanWellFounded, WFMin
<1>2. n - 1 \in Nat /\ n - 1 < n /\ n = (n - 1) + 1
  OBVIOUS
<1>3. <<n - 1, n>> \in OpToRel(<, Nat)
  BY <1>2 DEF OpToRel
<1> QED
  BY <1>1, <1>2, <1>3

\* f is defined step by step: first for 0, and for every other number up to n
\* from the value before.
StepByStep(f, n, S, first, step) ==
  /\ f \in [0..n -> S] /\ f[0] = first
  /\ \A i \in 1..n : f[i] = step[i][f[i - 1]]

\* Such a function exists.
LEMMA Recursion ==
  ASSUME NEW n \in Nat, NEW S, NEW first \in S, NEW step \in [1..n -> [S -> S]]
  PROVE  \E f : StepByStep(f, n, S, first, step)
<1> DEFINE Upto(m, f) == f[0] = first /\ \A i \in 1..m : f[i] = step[i][f[i - 1]]
           Sizes == {m \in Nat : m <= n => \E f \in [0..m -> S] : Upto(m, f)}
<1> HIDE DEF Upto
<1>1. 0 \in Sizes
  <2> DEFINE f == [i \in 0..0 |-> first]
  <2>1. f \in [0..0 -> S] /\ Upto(0, f)
    BY DEF Upto
  <2> QED
    BY <2>1
<1>2. ASSUME NEW m \in Nat, m \in Sizes PROVE m + 1 \in Sizes
  <2>1. CASE m + 1 <= n
    <3>1. PICK f \in [0..m -> S] : Upto(m, f)
      BY <1>2, <2>1
    <3> DEFINE next == step[m + 1][f[m]]
               g == [i \in 0..(m + 1) |-> IF i = m + 1 THEN next ELSE f[i]]
    <3>2. next \in S
      <4>1. m + 1 \in 1..n /\ f[m] \in S
        BY <2>1
      <4> QED
        BY <4>1
    <3> HIDE DEF next
    <3>3. g \in [0..(m + 1) -> S]
      BY <3>2
    <3>4. ASSUME NEW i \in 1..(m + 1) PROVE g[i] = step[i][g[i - 1]]
      <4>1. g[i - 1] = f[i - 1]
        OBVIOUS
      <4>2. CASE i = m + 1
        BY <4>1, <4>2 DEF next
      <4>3. CASE i # m + 1
        <5>1. i \in 1..m /\ g[i] = f[i]
          BY <4>3
        <5> QED
          BY <3>1, <4>1, <5>1 DEF Upto
      <4> QED
        BY <4>2, <4>3
    <3>5. g[0] = first
      BY <3>1 DEF Upto
    <3> HIDE DEF g
    <3>6. Upto(m + 1, g)
      BY <3>4, <3>5 DEF Upto
    <3> QED
      BY <2>1, <3>3, <3>6
  <2>2. CASE ~(m + 1 <= n)
    BY <2>2
  <2> QED
    BY <2>1, <2>2
<1>3. Nat \subseteq Sizes
  <2> HIDE DEF Sizes
  <2> QED
    BY <1>1, <1>2, NatSetInduction
<1>4. n \in Nat /\ n <= n
  OBVIOUS
<1>5. PICK f \in [0..n -> S] : Upto(n, f)
  BY <1>3, <1>4
<1> QED
  BY <1>5 DEF Upto, StepByStep

-----------------------------------------------------------------------------
LEMMA AppendAny ==
  ASSUME NEW s, NEW e, IsSeq(s)
  PROVE  /\ IsSeq(Append(s, e)) /\ Len(s) \in Nat /\ DOMAIN s = 1..Len(s)
         /\ Len(Append(s, e)) = Len(s) + 1
         /\ DOMAIN Append(s, e) = 1..(Len(s) + 1)
         /\ Append(s, e)[Len(s) + 1] = e
         /\ \A i \in DOMAIN s : Append(s, e)[i] = s[i]
<1>1. PICK S : s \in Seq(S)
  BY DEF IsSeq
<1> DEFINE R == S \cup {e}
<1>2. s \in Seq(R) /\ e \in R
  BY <1>1
<1>3. Append(s, e) \in Seq(R)
  BY <1>2
<1> QED
  BY <1>2, <1>3 DEF IsSeq

LEMMA UpdateAny ==
  ASSUME NEW s, IsSeq(s), NEW k \in DOMAIN s, NEW e
  PROVE  LET u == [s EXCEPT ![k] = e]
         IN /\ IsSeq(u) /\ DOMAIN u = DOMAIN s
            /\ u[k] = e
            /\ \A i \in DOMAIN s : i # k => u[i] = s[i]
<1>1. PICK S : s \in Seq(S)
  BY DEF IsSeq
<1> DEFINE R == S \cup {e}
<1>2. s \in Seq(R) /\ e \in R
  BY <1>1
<1>3. [s EXCEPT ![k] = e] \in Seq(R)
  BY <1>2
<1> QED
  BY <1>2, <1>3 DEF IsSeq

LEMMA PrependAny ==
  ASSUME NEW s, NEW e, IsSeq(s), s # <<>>
  PROVE  /\ IsSeq(<<e>> \o s) /\ <<e>> \o s # <<>> /\ Last(<<e>> \o s) = Last(s)
<1>1. PICK S : s \in Seq(S)
  BY DEF IsSeq
<1> DEFINE R == S \cup {e}
<1>2. s \in Seq(R) /\ <<e>> \in Seq(R)
  BY <1>1
<1>3. <<e>> \o s \in Seq(R) /\ Len(<<e>> \o s) = 1 + Len(s)
  BY <1>2
<1>4. Len(s) \in Nat /\ Len(s) > 0
  BY <1>2
<1>5. (<<e>> \o s)[1 + Len(s)] = s[Len(s)]
  BY <1>2, <1>4
<1> QED
  BY <1>3, <1>4, <1>5 DEF IsSeq, Last

-----------------------------------------------------------------------------
\* Anything may be done to the other fields.
LEMMA Unchanged ==
  ASSUME NEW t, IsType(t), NEW u, u.isStruct = t.isStruct,
         u.llvm = t.llvm, u.index = t.index, HasFields(u)
  PROVE  Grows(t, u)
<1>1. IsSeq(t.llvm) /\ Len(t.llvm) \in Nat
  BY AppendAny DEF IsType
<1> QED
  BY <1>1 DEF Grows, IsType

LEMMA GrowsItself ==
  ASSUME NEW t, IsType(t) PROVE Grows(t, t)
BY Unchanged DEF IsType

LEMMA GrowsTwice ==
  ASSUME NEW t, NEW u, NEW v, IsType(t), Grows(t, u), Grows(u, v)
  PROVE  Grows(t, v)
<1>1. IsSeq(t.llvm) /\ IsSeq(u.llvm) /\ IsSeq(v.llvm)
  BY DEF Grows, IsType
<1>2. /\ Len(t.llvm) \in Nat /\ DOMAIN t.llvm = 1..Len(t.llvm)
      /\ Len(u.llvm) \in Nat /\ DOMAIN u.llvm = 1..Len(u.llvm)
      /\ Len(v.llvm) \in Nat /\ DOMAIN v.llvm = 1..Len(v.llvm)
  BY <1>1, AppendAny
<1> QED
  BY <1>2 DEF Grows

LEMMA PushSpaceGrows ==
  ASSUME NEW t, NEW bits, IsType(t), t.isStruct
  PROVE  Grows(t, PushSpace(t, bits))
<1> DEFINE e == GetBitFieldSpace(bits)
           u == PushSpace(t, bits)
<1> HIDE DEF e
<1>1. u = [t EXCEPT !.llvm = Append(t.llvm, e), !.index = t.index + 1]
  BY DEF PushSpace, e
<1>2. /\ u.isStruct = t.isStruct /\ u.llvm = Append(t.llvm, e) /\ u.index = t.index + 1
      /\ HasFields(u)
  BY <1>1 DEF IsType, HasFields, Fields
<1> HIDE DEF u
<1>3. /\ IsSeq(u.llvm) /\ Len(t.llvm) \in Nat
      /\ Len(u.llvm) = Len(t.llvm) + 1
      /\ \A i \in DOMAIN t.llvm : u.llvm[i] = t.llvm[i]
  BY <1>2, AppendAny DEF IsType
<1>4. u.isStruct \in BOOLEAN /\ u.index = Len(u.llvm)
  BY <1>2, <1>3 DEF IsType
<1>5. IsType(u)
  BY <1>2, <1>3, <1>4 DEF IsType
<1> QED
  BY <1>2, <1>3, <1>5 DEF Grows, u

\* A union has one element, whichever member it is for.
LEMMA UnionAny ==
  ASSUME NEW t, IsType(t), ~t.isStruct, NEW u, ~u.isStruct, u.isStruct \in BOOLEAN,
         HasFields(u), u.llvm = t.llvm \/ \E e : u.llvm = <<e>>
  PROVE  Grows(t, u)
<1>1. ASSUME NEW e PROVE IsSeq(<<e>>)
  <2>1. <<e>> \in Seq({e})
    OBVIOUS
  <2> QED
    BY <2>1 DEF IsSeq
<1>2. IsSeq(u.llvm)
  BY <1>1 DEF IsType
<1> QED
  BY <1>2 DEF Grows, IsType

LEMMA LargerGrows ==
  ASSUME NEW t, NEW type, IsType(t), ~t.isStruct
  PROVE  Grows(t, Larger(t, type))
<1> DEFINE u == Larger(t, type)
<1>1. /\ ~u.isStruct /\ u.isStruct \in BOOLEAN /\ HasFields(u)
      /\ u.llvm = t.llvm \/ u.llvm = <<type>>
  BY DEF Larger, IsType, HasFields, Fields
<1> QED
  BY <1>1, UnionAny

LEMMA AddBitFieldBeforeMemberGrows ==
  ASSUME NEW t, IsType(t)
  PROVE  Grows(t, AddBitFieldBeforeMember(t))
<1> DEFINE ended == [t EXCEPT !.used = 0, !.base = 0]
           pushed == PushSpace(ended, t.used)
           run == [pushed EXCEPT !.offset = @ + MakeAlign(t.used, 8) \div 8]
           filled == PushSpace(run, Padding(run) * 8)
           last == [filled EXCEPT !.offset = @ + Padding(run), !.spaces = @ + Padding(run)]
           larger == Larger(ended, GetBitFieldSpace(t.used))
           other == [larger EXCEPT !.index = @ + 1]
<1>1. Grows(t, ended) /\ IsType(ended)
  <2>1. /\ ended.isStruct = t.isStruct /\ ended.llvm = t.llvm /\ ended.index = t.index
        /\ HasFields(ended)
    BY DEF IsType, HasFields, Fields
  <2> QED
    BY <2>1, Unchanged DEF Grows
<1> HIDE DEF ended
<1>2. CASE t.used = 0
  BY <1>1, <1>2 DEF AddBitFieldBeforeMember, ended
<1>3. CASE t.used # 0 /\ ~t.isStruct
  <2>1. Grows(ended, larger)
    BY <1>1, <1>3, LargerGrows DEF Grows
  <2>2. /\ other.isStruct = larger.isStruct /\ other.llvm = larger.llvm /\ HasFields(other)
        /\ ~other.isStruct /\ other.isStruct \in BOOLEAN /\ IsType(larger)
    <3> HIDE DEF larger
    <3> QED
      BY <2>1, <1>1, <1>3 DEF Grows, IsType, HasFields, Fields
  <2>3. Grows(larger, other)
    BY <2>2, UnionAny
  <2>4. AddBitFieldBeforeMember(t) = other
    BY <1>3 DEF AddBitFieldBeforeMember, ended
  <2> QED
    BY <1>1, <2>1, <2>3, <2>4, GrowsTwice
<1>4. CASE t.used # 0 /\ t.isStruct
  <2>1. Grows(ended, pushed) /\ IsType(pushed) /\ pushed.isStruct
    BY <1>1, <1>4, PushSpaceGrows DEF Grows
  <2> HIDE DEF pushed
  <2>2. Grows(pushed, run) /\ IsType(run) /\ run.isStruct
    <3>1. /\ run.isStruct = pushed.isStruct /\ run.llvm = pushed.llvm
          /\ run.index = pushed.index /\ HasFields(run)
      BY <2>1 DEF IsType, HasFields, Fields
    <3> QED
      BY <2>1, <3>1, Unchanged DEF Grows
  <2>3. Grows(t, run)
    BY <1>1, <2>1, <2>2, GrowsTwice
  <2> HIDE DEF run
  <2>4. Grows(run, filled) /\ IsType(filled)
    BY <2>2, PushSpaceGrows DEF Grows
  <2> HIDE DEF filled
  <2>5. Grows(filled, last)
    <3>1. /\ last.isStruct = filled.isStruct /\ last.llvm = filled.llvm
          /\ last.index = filled.index /\ HasFields(last)
      BY <2>4 DEF IsType, HasFields, Fields
    <3> QED
      BY <2>4, <3>1, Unchanged
  <2>6. AddBitFieldBeforeMember(t) = IF Padding(run) = 0 THEN run ELSE last
    BY <1>4 DEF AddBitFieldBeforeMember, ended, pushed, run, filled
  <2> QED
    BY <2>2, <2>3, <2>4, <2>5, <2>6, GrowsTwice
<1> QED
  BY <1>2, <1>3, <1>4 DEF IsType

LEMMA FinishGrows ==
  ASSUME NEW t, NEW os, IsType(t)
  PROVE  Grows(t, Finish(t, os))
<1> DEFINE align == MaxOf(t.align, os[Last(t.members)].type.align)
           raised == [t EXCEPT !.align = align]
           full == IF t.used = 0 THEN t ELSE AddBitFieldBeforeMember(raised)
           u == Finish(t, os)
<1>1. Grows(t, raised) /\ IsType(raised)
  <2> HIDE DEF align
  <2>1. HasFields(t)
    BY DEF IsType
  <2>2. /\ raised.isStruct = t.isStruct /\ raised.llvm = t.llvm
        /\ raised.index = t.index /\ HasFields(raised)
    BY <2>1 DEF HasFields, Fields
  <2> QED
    BY <2>2, Unchanged DEF Grows
<1>2. u = [full EXCEPT !.complete = TRUE, !.members = u.members]
  <2>1. \E m : u = [full EXCEPT !.complete = TRUE, !.members = m]
    BY DEF Finish
  <2> HIDE DEF u, full
  <2> QED
    BY <2>1
<1> HIDE DEF raised, u
<1>3. Grows(raised, AddBitFieldBeforeMember(raised))
  BY <1>1, AddBitFieldBeforeMemberGrows
<1>4. Grows(t, full) /\ IsType(full)
  <2>1. Grows(t, AddBitFieldBeforeMember(raised))
    BY <1>1, <1>3, GrowsTwice
  <2>2. Grows(t, t)
    BY Unchanged DEF IsType
  <2> QED
    BY <2>1, <2>2 DEF Grows
<1> HIDE DEF full
<1>5. Grows(full, u)
  <2>1. HasFields(full)
    BY <1>4 DEF IsType
  <2>2. /\ u.isStruct = full.isStruct /\ u.llvm = full.llvm
        /\ u.index = full.index /\ HasFields(u)
    BY <1>2, <2>1 DEF HasFields, Fields
  <2> QED
    BY <1>4, <2>2, Unchanged
<1> QED
  BY <1>4, <1>5, GrowsTwice DEF u
\* The updates of other fields, one by one.

LEMMA OffsetOnly ==
  ASSUME NEW t, IsType(t), NEW v
  PROVE  Grows(t, [t EXCEPT !.offset = v])
<1> DEFINE u == [t EXCEPT !.offset = v]
<1>1. HasFields(t)
  BY DEF IsType
<1>2. /\ u.isStruct = t.isStruct /\ u.llvm = t.llvm
      /\ u.index = t.index /\ HasFields(u)
  BY <1>1 DEF HasFields, Fields
<1> QED
  BY <1>2, Unchanged

LEMMA AlignOnly ==
  ASSUME NEW t, IsType(t), NEW v
  PROVE  Grows(t, [t EXCEPT !.align = v])
<1> DEFINE u == [t EXCEPT !.align = v]
<1>1. HasFields(t)
  BY DEF IsType
<1>2. /\ u.isStruct = t.isStruct /\ u.llvm = t.llvm
      /\ u.index = t.index /\ HasFields(u)
  BY <1>1 DEF HasFields, Fields
<1> QED
  BY <1>2, Unchanged

LEMMA BaseOnly ==
  ASSUME NEW t, IsType(t), NEW v
  PROVE  Grows(t, [t EXCEPT !.base = v])
<1> DEFINE u == [t EXCEPT !.base = v]
<1>1. HasFields(t)
  BY DEF IsType
<1>2. /\ u.isStruct = t.isStruct /\ u.llvm = t.llvm
      /\ u.index = t.index /\ HasFields(u)
  BY <1>1 DEF HasFields, Fields
<1> QED
  BY <1>2, Unchanged

LEMMA UsedOnly ==
  ASSUME NEW t, IsType(t), NEW v
  PROVE  Grows(t, [t EXCEPT !.used = v])
<1> DEFINE u == [t EXCEPT !.used = v]
<1>1. HasFields(t)
  BY DEF IsType
<1>2. /\ u.isStruct = t.isStruct /\ u.llvm = t.llvm
      /\ u.index = t.index /\ HasFields(u)
  BY <1>1 DEF HasFields, Fields
<1> QED
  BY <1>2, Unchanged

LEMMA RunEnds ==
  ASSUME NEW t, IsType(t)
  PROVE  Grows(t, [t EXCEPT !.used = 0, !.base = 0])
<1> DEFINE u == [t EXCEPT !.used = 0, !.base = 0]
<1>1. HasFields(t)
  BY DEF IsType
<1>2. /\ u.isStruct = t.isStruct /\ u.llvm = t.llvm
      /\ u.index = t.index /\ HasFields(u)
  BY <1>1 DEF HasFields, Fields
<1> QED
  BY <1>2, Unchanged

LEMMA ScopeOnly ==
  ASSUME NEW t, IsType(t), NEW m, NEW v
  PROVE  Grows(t, [t EXCEPT !.members = m, !.scope = v])
<1> DEFINE u == [t EXCEPT !.members = m, !.scope = v]
<1>1. HasFields(t)
  BY DEF IsType
<1>2. /\ u.isStruct = t.isStruct /\ u.llvm = t.llvm
      /\ u.index = t.index /\ HasFields(u)
  BY <1>1 DEF HasFields, Fields
<1> QED
  BY <1>2, Unchanged

LEMMA InsertGrows ==
  ASSUME NEW t, NEW name, IsType(t)
  PROVE  Grows(t, Insert(t, name))
BY ScopeOnly DEF Insert

LEMMA AddSpaceGrows ==
  ASSUME NEW t, IsType(t), t.isStruct
  PROVE  Grows(t, AddSpace(t))
<1> DEFINE pushed == PushSpace(t, Padding(t) * 8)
<1>1. Grows(t, pushed) /\ IsType(pushed)
  BY PushSpaceGrows DEF Grows
<1>2. Grows(t, t)
  BY Unchanged DEF IsType
<1>3. AddSpace(t) = t \/ AddSpace(t) = [pushed EXCEPT !.offset = pushed.offset + Padding(t)]
  BY DEF AddSpace
<1> HIDE DEF pushed
<1> QED
  BY <1>1, <1>2, <1>3, OffsetOnly, GrowsTwice

LEMMA BitFieldPackedGrows ==
  ASSUME NEW t, IsType(t)
  PROVE  Grows(t, BitFieldPacked(t))
<1> DEFINE ended == [t EXCEPT !.used = 0, !.base = 0]
           pushed == PushSpace(ended, t.base)
<1>1. Grows(t, ended) /\ IsType(ended) /\ ended.isStruct = t.isStruct
  BY RunEnds DEF Grows
<1>2. CASE t.isStruct
  <2> HIDE DEF ended
  <2>1. Grows(ended, pushed) /\ IsType(pushed)
    BY <1>1, <1>2, PushSpaceGrows DEF Grows
  <2>2. BitFieldPacked(t) = [pushed EXCEPT !.offset = pushed.offset + t.base \div 8]
    BY <1>2 DEF BitFieldPacked, ended
  <2> HIDE DEF pushed
  <2> QED
    BY <1>1, <2>1, <2>2, OffsetOnly, GrowsTwice
<1>3. CASE ~t.isStruct
  BY <1>1, <1>3 DEF BitFieldPacked
<1> QED
  BY <1>2, <1>3

LEMMA AddSpaceBetweenBitFieldGrows ==
  ASSUME NEW t, IsType(t), t.isStruct
  PROVE  Grows(t, AddSpaceBetweenBitField(t))
<1> DEFINE rest == t.base - MakeAlign(t.used, 8)
           pushed == PushSpace(t, t.used)
           run == [pushed EXCEPT !.offset = @ + MakeAlign(t.used, 8) \div 8]
           filled == PushSpace(run, rest)
           moved == [filled EXCEPT !.offset = @ + GetBitFieldSpace(rest).size]
           last == [moved EXCEPT !.used = 0, !.base = 0]
<1>1. AddSpaceBetweenBitField(t) = last
  <2>1. AddSpaceBetweenBitField(t) =
          [filled EXCEPT !.offset = @ + GetBitFieldSpace(rest).size, !.used = 0, !.base = 0]
    BY DEF AddSpaceBetweenBitField
  <2> HIDE DEF filled, rest
  <2> QED
    BY <2>1
<1>2. Grows(t, pushed) /\ IsType(pushed)
  BY PushSpaceGrows DEF Grows
<1> HIDE DEF pushed, rest
<1>3. Grows(t, run) /\ IsType(run) /\ run.isStruct
  <2>1. Grows(pushed, run)
    BY <1>2, OffsetOnly
  <2> HIDE DEF run
  <2> QED
    BY <1>2, <2>1, GrowsTwice DEF Grows
<1> HIDE DEF run
<1>4. Grows(t, filled) /\ IsType(filled)
  <2>1. Grows(run, filled)
    BY <1>3, PushSpaceGrows
  <2> HIDE DEF filled
  <2> QED
    BY <1>3, <2>1, GrowsTwice DEF Grows
<1> HIDE DEF filled
<1>5. Grows(t, moved) /\ IsType(moved)
  <2>1. Grows(filled, moved)
    BY <1>4, OffsetOnly
  <2> HIDE DEF moved
  <2> QED
    BY <1>4, <2>1, GrowsTwice DEF Grows
<1> HIDE DEF moved
<1>6. Grows(t, last)
  BY <1>5, RunEnds, GrowsTwice
<1> QED
  BY <1>1, <1>6

LEMMA ReadyGrows ==
  ASSUME NEW t, NEW type, IsType(t)
  PROVE  Grows(t, Ready(t, type))
<1> DEFINE raised == [t EXCEPT !.align = MaxOf(@, type.align)]
<1>1. Grows(t, raised) /\ IsType(raised)
  BY AlignOnly DEF Grows
<1> HIDE DEF raised
<1>2. Grows(raised, AddBitFieldBeforeMember(raised))
  BY <1>1, AddBitFieldBeforeMemberGrows
<1>3. Ready(t, type) = AddBitFieldBeforeMember(raised)
  BY DEF Ready, raised
<1> QED
  BY <1>1, <1>2, <1>3, GrowsTwice

\* The element of a member is the next one.
LEMMA AddElementGrows ==
  ASSUME NEW t, NEW type, IsType(t)
  PROVE  /\ Grows(t, AddElement(t, type))
         /\ t.isStruct =>
              LET llvm == AddElement(t, type).llvm
              IN t.index + 1 \in DOMAIN llvm /\ llvm[t.index + 1] = type
<1> DEFINE added == AddLLVMType(t, type)
           offset == IF t.isStruct THEN MakeAlign(added.offset, type.align) + type.size
                     ELSE added.offset
           u == [added EXCEPT !.index = added.index + 1, !.offset = offset]
<1>1. AddElement(t, type) = u
  BY DEF AddElement
<1> HIDE DEF offset
<1>2. HasFields(t)
  BY DEF IsType
<1>3. CASE t.isStruct
  <2>1. added = [t EXCEPT !.llvm = Append(t.llvm, type)]
    BY <1>3 DEF AddLLVMType
  <2> HIDE DEF added
  <2>2. /\ HasFields(added) /\ added.isStruct = t.isStruct
        /\ added.llvm = Append(t.llvm, type) /\ added.index = t.index
    BY <1>2, <2>1 DEF HasFields, Fields
  <2>3. /\ HasFields(u) /\ u.isStruct = t.isStruct
        /\ u.llvm = Append(t.llvm, type) /\ u.index = t.index + 1
    BY <2>2 DEF HasFields, Fields
  <2> HIDE DEF u
  <2>4. /\ IsSeq(t.llvm) /\ IsSeq(u.llvm) /\ Len(t.llvm) \in Nat
        /\ Len(u.llvm) = Len(t.llvm) + 1 /\ DOMAIN u.llvm = 1..(Len(t.llvm) + 1)
        /\ u.llvm[Len(t.llvm) + 1] = type
        /\ \A i \in DOMAIN t.llvm : u.llvm[i] = t.llvm[i]
    BY <2>3, AppendAny DEF IsType
  <2>5. t.index = Len(t.llvm)
    BY <1>3 DEF IsType
  <2>6. Grows(t, u)
    BY <1>3, <2>3, <2>4, <2>5 DEF Grows, IsType
  <2> QED
    BY <1>1, <2>4, <2>5, <2>6
<1>4. CASE ~t.isStruct
  <2>1. Grows(t, added) /\ IsType(added) /\ ~added.isStruct
    <3>1. Grows(t, Larger(t, type))
      BY <1>4, LargerGrows
    <3>2. Grows(t, [t EXCEPT !.llvm = <<type>>])
      <4> DEFINE v == [t EXCEPT !.llvm = <<type>>]
      <4>1. HasFields(v) /\ v.isStruct = t.isStruct /\ v.llvm = <<type>>
        BY <1>2 DEF HasFields, Fields
      <4> HIDE DEF v
      <4>2. v.isStruct \in BOOLEAN /\ ~v.isStruct
        BY <4>1, <1>4 DEF IsType
      <4>3. Grows(t, v)
        BY <4>1, <4>2, <1>4, UnionAny
      <4> QED
        BY <4>3 DEF v
    <3>3. added = Larger(t, type) \/ added = [t EXCEPT !.llvm = <<type>>]
      BY <1>4 DEF AddLLVMType
    <3> HIDE DEF added
    <3> QED
      BY <1>4, <3>1, <3>2, <3>3 DEF Grows
  <2> HIDE DEF added
  <2>2. HasFields(added)
    BY <2>1 DEF IsType
  <2>3. HasFields(u) /\ u.isStruct = added.isStruct /\ u.llvm = added.llvm
    BY <2>2 DEF HasFields, Fields
  <2>4. Grows(added, u)
    <3> HIDE DEF u
    <3>1. u.isStruct \in BOOLEAN /\ ~u.isStruct
      BY <2>1, <2>3 DEF IsType
    <3> QED
      BY <2>1, <2>3, <3>1, UnionAny
  <2> HIDE DEF u
  <2> QED
    BY <1>1, <1>4, <2>1, <2>4, GrowsTwice
<1> QED
  BY <1>3, <1>4 DEF IsType

-----------------------------------------------------------------------------
\* What was found stays found.
LEMMA FoundStays ==
  ASSUME NEW o, NEW ts, NEW us, Found(o, ts), DOMAIN ts \subseteq DOMAIN us,
         \A T \in DOMAIN ts : IsType(ts[T]) /\ Grows(ts[T], us[T])
  PROVE  Found(o, us)
<1> DEFINE T == Last(o.path).type
           index == Last(o.path).index
<1>1. T \in DOMAIN ts /\ T \in DOMAIN us /\ IsType(ts[T]) /\ Grows(ts[T], us[T])
  BY DEF Found
<1>2. CASE us[T].isStruct
  <2>1. /\ ts[T].isStruct /\ IsSeq(ts[T].llvm) /\ IsSeq(us[T].llvm)
        /\ Len(ts[T].llvm) <= Len(us[T].llvm)
        /\ \A i \in DOMAIN ts[T].llvm : us[T].llvm[i] = ts[T].llvm[i]
    BY <1>1, <1>2 DEF Grows, IsType
  <2>2. /\ Len(ts[T].llvm) \in Nat /\ DOMAIN ts[T].llvm = 1..Len(ts[T].llvm)
        /\ Len(us[T].llvm) \in Nat /\ DOMAIN us[T].llvm = 1..Len(us[T].llvm)
    BY <2>1, AppendAny
  <2>3. IF o.bits # 0 THEN index + 1 \in 1..(Len(ts[T].llvm) + 1)
        ELSE index + 1 \in DOMAIN ts[T].llvm /\ ts[T].llvm[index + 1] = o.type
    BY <2>1 DEF Found
  <2>4. IF o.bits # 0 THEN index + 1 \in 1..(Len(us[T].llvm) + 1)
        ELSE index + 1 \in DOMAIN us[T].llvm /\ us[T].llvm[index + 1] = o.type
    <3> HIDE DEF index, T
    <3> QED
      BY <2>1, <2>2, <2>3
  <2> QED
    BY <1>1, <2>4 DEF Found
<1>3. CASE ~us[T].isStruct
  BY <1>1, <1>3 DEF Found
<1> QED
  BY <1>2, <1>3

LEMMA TypeStep ==
  ASSUME LayoutInv, NEW T \in DOMAIN types, NEW u, Grows(types[T], u),
         types' = [types EXCEPT ![T] = u]
  PROVE  /\ IsSeq(types') /\ DOMAIN types' = DOMAIN types /\ types'[T] = u
         /\ \A S \in DOMAIN types' : IsType(types'[S])
         /\ \A o : Found(o, types) => Found(o, types')
<1>1. /\ IsSeq(types') /\ DOMAIN types' = DOMAIN types /\ types'[T] = u
      /\ \A S \in DOMAIN types : S # T => types'[S] = types[S]
  BY UpdateAny DEF LayoutInv
<1>2. ASSUME NEW S \in DOMAIN types
      PROVE  IsType(types[S]) /\ Grows(types[S], types'[S])
  <2>1. IsType(types[S])
    BY DEF LayoutInv
  <2>2. Grows(types[S], types[S])
    BY <2>1, Unchanged DEF IsType
  <2> QED
    BY <1>1, <2>1, <2>2
<1>3. \A S \in DOMAIN types' : IsType(types'[S])
  BY <1>1, <1>2 DEF Grows
<1>4. ASSUME NEW o, Found(o, types) PROVE Found(o, types')
  BY <1>1, <1>2, <1>4, FoundStays
<1> QED
  BY <1>1, <1>3, <1>4

LEMMA NoObject ==
  ASSUME LayoutInv, NEW T \in DOMAIN types, NEW u, Grows(types[T], u),
         types' = [types EXCEPT ![T] = u], UNCHANGED <<objs, open, verdict>>
  PROVE  LayoutInv'
BY TypeStep DEF LayoutInv

LEMMA OneObject ==
  ASSUME LayoutInv, NEW T \in DOMAIN types, NEW u, Grows(types[T], u),
         types' = [types EXCEPT ![T] = u],
         NEW o, IsObject(o), Found(o, types'), objs' = Append(objs, o),
         open' \in Seq(DOMAIN types), verdict' = "ok" => open' # <<>>
  PROVE  LayoutInv'
<1>1. /\ IsSeq(types') /\ DOMAIN types' = DOMAIN types
      /\ \A S \in DOMAIN types' : IsType(types'[S])
      /\ \A x : Found(x, types) => Found(x, types')
  BY TypeStep
<1>2. /\ IsSeq(objs') /\ DOMAIN objs' = 1..(Len(objs) + 1) /\ Len(objs) \in Nat
      /\ DOMAIN objs = 1..Len(objs) /\ objs'[Len(objs) + 1] = o
      /\ \A i \in DOMAIN objs : objs'[i] = objs[i]
  BY AppendAny DEF LayoutInv
<1>3. ASSUME NEW i \in DOMAIN objs' PROVE IsObject(objs'[i]) /\ Found(objs'[i], types')
  <2>1. CASE i = Len(objs) + 1
    BY <1>2, <2>1
  <2>2. CASE i \in DOMAIN objs
    BY <1>1, <1>2, <2>2 DEF LayoutInv
  <2> QED
    BY <1>2, <2>1, <2>2
<1> QED
  BY <1>1, <1>2, <1>3 DEF LayoutInv

LEMMA ExitInv ==
  ASSUME NEW how, how # "ok", Exit(how)
  PROVE  LayoutInv'
<1>1. /\ types' = <<>> /\ objs' = <<>> /\ open' = <<>> /\ verdict' # "ok"
      /\ IsSeq(<<>>)
  <2>1. <<>> \in Seq({})
    OBVIOUS
  <2> QED
    BY <2>1 DEF Exit, IsSeq
<1> QED
  BY <1>1 DEF LayoutInv

\* A new object is in the type it was declared in.
LEMMA ObjectFound ==
  ASSUME NEW name, NEW type, NEW bits, NEW begin, NEW offset, NEW T, NEW index,
         NEW o, o = Object(name, type, bits, begin, offset, T, index)
  PROVE  /\ IsObject(o) /\ o.type = type /\ o.bits = bits
         /\ Last(o.path).type = T /\ Last(o.path).index = index
<1> DEFINE e == [type |-> T, index |-> index]
<1>1. /\ o = [f \in {"name", "type", "bits", "begin", "offset", "path"} |-> o[f]]
      /\ o.type = type /\ o.bits = bits /\ o.path = <<e>>
  BY DEF Object
<1>2. e.type = T /\ e.index = index
  OBVIOUS
<1> HIDE DEF e
<1>3. <<e>> \in Seq({e}) /\ <<e>> # <<>> /\ Last(<<e>>) = e
  BY DEF Last
<1> QED
  BY <1>1, <1>2, <1>3 DEF IsObject, IsSeq, e

\* A member that gets an element of its own: the element at index_, and still
\* there if the type goes on growing (u).
LEMMA NewElement ==
  ASSUME LayoutInv, NEW T \in DOMAIN types, NEW t, NEW type, Grows(types[T], t),
         NEW u, Grows(AddElement(t, type), u), types' = [types EXCEPT ![T] = u],
         NEW o, o.bits = 0, o.type = type, Last(o.path).type = T,
         t.isStruct => Last(o.path).index = t.index
  PROVE  Grows(types[T], u) /\ Found(o, types')
<1> DEFINE v == AddElement(t, type)
<1>1. IsType(types[T]) /\ IsType(t)
  BY DEF LayoutInv, Grows
<1>2. /\ Grows(t, v)
      /\ t.isStruct => t.index + 1 \in DOMAIN v.llvm /\ v.llvm[t.index + 1] = type
  BY <1>1, AddElementGrows
<1> HIDE DEF v
<1>3. Grows(t, u) /\ Grows(types[T], u)
  BY <1>1, <1>2, GrowsTwice DEF v
<1>4. types'[T] = u /\ DOMAIN types' = DOMAIN types
  BY <1>3, TypeStep
<1>5. CASE u.isStruct
  <2>1. t.isStruct /\ v.isStruct /\ IsSeq(v.llvm) /\ IsSeq(u.llvm)
    BY <1>2, <1>3, <1>5 DEF Grows, IsType, v
  <2>2. /\ Len(v.llvm) \in Nat /\ DOMAIN v.llvm = 1..Len(v.llvm)
        /\ Len(u.llvm) \in Nat /\ DOMAIN u.llvm = 1..Len(u.llvm)
    BY <2>1, AppendAny
  <2>3. Len(v.llvm) <= Len(u.llvm) /\ \A i \in DOMAIN v.llvm : u.llvm[i] = v.llvm[i]
    BY <2>1 DEF Grows, v
  <2>4. t.index + 1 \in DOMAIN u.llvm /\ u.llvm[t.index + 1] = type
    BY <1>2, <2>1, <2>2, <2>3
  <2> QED
    BY <1>3, <1>4, <2>1, <2>4 DEF Found
<1>6. CASE ~u.isStruct
  BY <1>3, <1>4, <1>6 DEF Found
<1> QED
  BY <1>5, <1>6

LEMMA MemberStep ==
  ASSUME LayoutInv, NEW T \in DOMAIN types, NEW type, NEW u,
         Grows(AddMember(T, type), u), types' = [types EXCEPT ![T] = u]
  PROVE  /\ Grows(types[T], u)
         /\ IsObject(MemberObject(T, type)) /\ Found(MemberObject(T, type), types')
<1> DEFINE r == Ready(types[T], type)
           t == Insert(r, Fresh)
           o == MemberObject(T, type)
<1>1. IsType(types[T])
  BY DEF LayoutInv
<1>2. Grows(types[T], r) /\ IsType(r)
  BY <1>1, ReadyGrows DEF Grows
<1>3. Grows(r, t) /\ t.index = r.index
  <2> HIDE DEF r
  <2>1. Grows(r, t)
    BY <1>2, InsertGrows
  <2>2. HasFields(r)
    BY <1>2 DEF IsType
  <2>3. t.index = r.index
    BY <2>2 DEF Insert, HasFields, Fields
  <2> QED
    BY <2>1, <2>3
<1>4. Grows(types[T], t)
  <2> HIDE DEF r, t
  <2> QED
    BY <1>1, <1>2, <1>3, GrowsTwice
<1>5. AddMember(T, type) = AddElement(t, type)
  BY DEF AddMember
<1>6. /\ IsObject(o) /\ o.bits = 0 /\ o.type = type
      /\ Last(o.path).type = T /\ Last(o.path).index = r.index
  <2> DEFINE offset == MakeAlign(r.offset, type.align) - r.spaces
  <2>1. o = Object(Fresh, type, 0, 0, offset, T, r.index)
    BY DEF MemberObject
  <2> HIDE DEF o, r, offset
  <2> QED
    BY <2>1, ObjectFound
<1> HIDE DEF r, t, o
<1>7. Grows(types[T], u) /\ Found(o, types')
  BY <1>3, <1>4, <1>5, <1>6, NewElement
<1> QED
  BY <1>6, <1>7 DEF o

LEMMA AddMemberIsType ==
  ASSUME LayoutInv, NEW T \in DOMAIN types, NEW type
  PROVE  IsType(AddMember(T, type))
<1>1. IsType(types[T])
  BY DEF LayoutInv
<1>2. IsType(Ready(types[T], type))
  BY <1>1, ReadyGrows DEF Grows
<1>3. IsType(Insert(Ready(types[T], type), Fresh))
  BY <1>2, InsertGrows DEF Grows
<1> QED
  BY <1>3, AddElementGrows DEF Grows, AddMember

-----------------------------------------------------------------------------
LEMMA TopIsType ==
  ASSUME LayoutInv, verdict = "ok"
  PROVE  Top \in DOMAIN types /\ IsType(This)
<1>1. open \in Seq(DOMAIN types) /\ open # <<>>
  BY DEF LayoutInv
<1>2. Last(open) \in DOMAIN types
  BY <1>1 DEF Last
<1> QED
  BY <1>2 DEF LayoutInv, Top, This

LEMMA OpenRecordInv ==
  ASSUME LayoutInv, NEW isStruct \in RecordKinds, OpenRecord(isStruct)
  PROVE  LayoutInv'
<1> DEFINE t == NewStructType(isStruct)
<1>1. /\ verdict = "ok" /\ types' = Append(types, t)
      /\ open' = Append(open, Len(types) + 1) /\ UNCHANGED <<objs, verdict>>
  BY DEF OpenRecord, Declaring
<1>2. IsType(t)
  <2>1. HasFields(t) /\ t.isStruct = isStruct /\ t.llvm = <<>> /\ t.index = 0
    BY DEF NewStructType, HasFields, Fields
  <2> HIDE DEF t
  <2>2. <<>> \in Seq({})
    OBVIOUS
  <2>3. isStruct \in BOOLEAN
    BY LayoutAssumption
  <2> QED
    BY <2>1, <2>2, <2>3 DEF IsType, IsSeq
<1> HIDE DEF t
<1>3. /\ IsSeq(types') /\ DOMAIN types' = 1..(Len(types) + 1)
      /\ DOMAIN types = 1..Len(types) /\ Len(types) \in Nat
      /\ types'[Len(types) + 1] = t
      /\ \A T \in DOMAIN types : types'[T] = types[T]
  BY <1>1, AppendAny DEF LayoutInv
<1>4. \A T \in DOMAIN types' : IsType(types'[T])
  <2> SUFFICES ASSUME NEW T \in DOMAIN types' PROVE IsType(types'[T])
    OBVIOUS
  <2>1. T = Len(types) + 1 \/ T \in DOMAIN types
    BY <1>3
  <2> QED
    BY <1>2, <1>3, <2>1 DEF LayoutInv
<1>5. \A o \in DOMAIN objs : Found(objs[o], types')
  <2> SUFFICES ASSUME NEW o \in DOMAIN objs PROVE Found(objs[o], types')
    OBVIOUS
  <2>1. \A T \in DOMAIN types : IsType(types[T]) /\ Grows(types[T], types'[T])
    BY <1>3, GrowsItself DEF LayoutInv
  <2>2. Found(objs[o], types) /\ DOMAIN types \subseteq DOMAIN types'
    BY <1>3 DEF LayoutInv
  <2> QED
    BY <2>1, <2>2, FoundStays
<1>6. open' \in Seq(DOMAIN types') /\ open' # <<>>
  <2>1. open \in Seq(DOMAIN types')
    BY <1>3 DEF LayoutInv
  <2>2. Len(types) + 1 \in DOMAIN types'
    BY <1>3
  <2> QED
    BY <1>1, <2>1, <2>2
<1> QED
  BY <1>1, <1>3, <1>4, <1>5, <1>6 DEF LayoutInv

LEMMA DeclareMemberInv ==
  ASSUME LayoutInv, NEW type, DeclareMember(type)
  PROVE  LayoutInv'
<1> DEFINE u == AddMember(Top, type)
           o == MemberObject(Top, type)
<1>1. /\ verdict = "ok" /\ objs' = Append(objs, o)
      /\ types' = [types EXCEPT ![Top] = u] /\ UNCHANGED <<open, verdict>>
  BY DEF DeclareMember, Declaring
<1>2. Top \in DOMAIN types
  BY <1>1, TopIsType
<1>3. Grows(u, u)
  BY <1>2, AddMemberIsType, GrowsItself
<1>4. Grows(types[Top], u) /\ IsObject(o) /\ Found(o, types')
  BY <1>1, <1>2, <1>3, MemberStep
<1> HIDE DEF u, o
<1>5. open' \in Seq(DOMAIN types) /\ (verdict' = "ok" => open' # <<>>)
  BY <1>1 DEF LayoutInv
<1> QED
  BY <1>1, <1>2, <1>4, <1>5, OneObject

LEMMA DeclareFlexibleInv ==
  ASSUME LayoutInv, NEW elem, DeclareFlexible(elem)
  PROVE  LayoutInv'
<1> DEFINE type == [Scalar(elem) EXCEPT !.size = 0]
           w == AddMember(Top, type)
           u == Finish(w, objs')
           o == MemberObject(Top, type)
<1>1. CASE Error
  BY <1>1, ExitInv DEF Error
<1>2. CASE ~Error
  <2>1. /\ verdict = "ok" /\ objs' = Append(objs, o)
        /\ types' = [types EXCEPT ![Top] = u] /\ UNCHANGED <<open, verdict>>
    BY <1>2 DEF DeclareFlexible, Declaring
  <2>2. Top \in DOMAIN types
    BY <2>1, TopIsType
  <2> HIDE DEF type
  <2>3. Grows(w, u)
    BY <2>2, AddMemberIsType, FinishGrows
  <2>4. Grows(types[Top], u) /\ IsObject(o) /\ Found(o, types')
    BY <2>1, <2>2, <2>3, MemberStep
  <2> HIDE DEF u, o
  <2>5. open' \in Seq(DOMAIN types) /\ (verdict' = "ok" => open' # <<>>)
    BY <2>1 DEF LayoutInv
  <2> QED
    BY <2>1, <2>2, <2>4, <2>5, OneObject
<1> QED
  BY <1>1, <1>2

-----------------------------------------------------------------------------
\* The type once a bit-field is in it, before and after a full run is ended.
Placed(t, name, size, bits) ==
  LET in == [Insert(t, name) EXCEPT !.used = @ + bits]
  IN IF t.isStruct THEN in ELSE Larger(in, Scalar(size))

Packed(t) == IF t.used = t.base THEN BitFieldPacked(t) ELSE t

LEMMA PlacedGrows ==
  ASSUME NEW t, IsType(t), NEW name, NEW size, NEW bits
  PROVE  Grows(t, Packed(Placed(t, name, size, bits)))
<1> DEFINE placed == Insert(t, name)
           in == [placed EXCEPT !.used = placed.used + bits]
           grown == Placed(t, name, size, bits)
           u == Packed(grown)
<1>1. Grows(t, placed) /\ IsType(placed)
  BY InsertGrows DEF Grows
<1>2. grown = IF t.isStruct THEN in ELSE Larger(in, Scalar(size))
  BY DEF Placed
<1> HIDE DEF placed
<1>3. Grows(placed, in) /\ IsType(in)
  BY <1>1, UsedOnly DEF Grows
<1> HIDE DEF in
<1>4. Grows(t, in) /\ in.isStruct = t.isStruct
  BY <1>1, <1>3, GrowsTwice DEF Grows
<1>5. Grows(in, grown) /\ IsType(grown)
  <2>1. Grows(in, in)
    BY <1>3, GrowsItself
  <2>2. ~t.isStruct => Grows(in, Larger(in, Scalar(size)))
    BY <1>3, <1>4, LargerGrows
  <2> QED
    BY <1>2, <2>1, <2>2 DEF Grows
<1> HIDE DEF grown
<1>6. Grows(t, grown)
  BY <1>4, <1>5, GrowsTwice
<1>7. Grows(grown, u)
  BY <1>5, BitFieldPackedGrows, GrowsItself DEF Packed
<1> HIDE DEF u
<1>8. Grows(t, u)
  BY <1>6, <1>7, GrowsTwice
<1> QED
  BY <1>8 DEF u, grown

\* t is the type when its run is chosen; the bit-field is in an element there
\* already is, or in the next.
LEMMA PlaceBitFieldInv ==
  ASSUME LayoutInv, verdict = "ok", NEW t, Grows(This, t),
         NEW name, NEW size, NEW bits, bits # 0, PlaceBitField(t, name, size, bits)
  PROVE  LayoutInv'
<1> DEFINE begin == IF t.isStruct THEN t.used ELSE 0
           u == Packed(Placed(t, name, size, bits))
           o == Object(name, Scalar(size), bits, begin, t.offset, Top, t.index)
<1>1. CASE Crash
  BY <1>1, ExitInv DEF Crash
<1>2. CASE ~Crash
  <2>1. /\ objs' = Append(objs, o) /\ types' = [types EXCEPT ![Top] = u]
        /\ UNCHANGED <<open, verdict>>
    BY <1>2 DEF PlaceBitField, Placed, Packed
  <2>2. Top \in DOMAIN types /\ This = types[Top] /\ IsType(This) /\ IsType(t)
    BY TopIsType DEF This, Grows
  <2>3. Grows(t, u)
    BY <2>2, PlacedGrows
  <2> HIDE DEF u
  <2>4. Grows(types[Top], u)
    BY <2>2, <2>3, GrowsTwice
  <2>5. types'[Top] = u /\ DOMAIN types' = DOMAIN types
    BY <2>1, <2>2, <2>4, TypeStep
  <2> DEFINE type == Scalar(size)
  <2> HIDE DEF type, begin
  <2>6. IsObject(o) /\ o.bits # 0 /\ Last(o.path).type = Top /\ Last(o.path).index = t.index
    <3>1. o = Object(name, type, bits, begin, t.offset, Top, t.index)
      BY DEF type
    <3> HIDE DEF o
    <3>2. IsObject(o) /\ o.bits = bits
      BY <3>1, ObjectFound
    <3>3. Last(o.path).type = Top /\ Last(o.path).index = t.index
      BY <3>1, ObjectFound
    <3> QED
      BY <3>2, <3>3
  <2> HIDE DEF o
  <2>7. u.isStruct => t.index + 1 \in 1..(Len(u.llvm) + 1)
    <3>1. IsSeq(t.llvm) /\ IsSeq(u.llvm)
      BY <2>2, <2>3 DEF Grows, IsType
    <3>2. Len(t.llvm) \in Nat /\ Len(u.llvm) \in Nat
      BY <3>1, AppendAny
    <3>3. u.isStruct => t.index = Len(t.llvm) /\ Len(t.llvm) <= Len(u.llvm)
      BY <2>2, <2>3 DEF Grows, IsType
    <3> QED
      BY <3>2, <3>3
  <2>8. Found(o, types')
    BY <2>2, <2>5, <2>6, <2>7 DEF Found
  <2>9. open' \in Seq(DOMAIN types) /\ (verdict' = "ok" => open' # <<>>)
    BY <2>1 DEF LayoutInv
  <2> QED
    BY <2>1, <2>2, <2>4, <2>6, <2>8, <2>9, OneObject
<1> QED
  BY <1>1, <1>2

LEMMA AlignedGrows ==
  ASSUME NEW size, NEW bits, IsType(This)
  PROVE  Grows(This, Aligned(size, bits))
<1>1. Grows(This, This)
  BY GrowsItself
<1>2. Grows(This, [This EXCEPT !.align = MaxOf(@, size)])
  BY AlignOnly
<1> QED
  BY <1>1, <1>2 DEF Aligned

\* The type a run is begun in, and the ones it goes on in.
Spaced(size, bits) ==
  IF This.isStruct /\ This.members # <<>> /\ objs[Last(This.members)].bits = 0
  THEN AddSpace(Aligned(size, bits)) ELSE Aligned(size, bits)

Started(size, bits) == [Spaced(size, bits) EXCEPT !.base = size * 8]

Skipped(size, bits) ==
  IF ~This.isStruct \/ size = 1 THEN Aligned(size, bits)
  ELSE AddSpaceBetweenBitField(Aligned(size, bits))

Widened(size, bits) == [Aligned(size, bits) EXCEPT !.base = MaxOf(@, size * 8)]

Renewed(size, bits) ==
  [AddSpaceBetweenBitField(Widened(size, bits)) EXCEPT !.base = size * 8]

LEMMA StartedGrows ==
  ASSUME NEW size, NEW bits, IsType(This)
  PROVE  Grows(This, Started(size, bits))
<1> DEFINE a == Aligned(size, bits)
           t == Spaced(size, bits)
<1>1. Grows(This, a) /\ IsType(a) /\ a.isStruct = This.isStruct
  BY AlignedGrows DEF Grows
<1>2. t = a \/ (This.isStruct /\ t = AddSpace(a))
  BY DEF Spaced
<1> HIDE DEF a, t
<1>3. Grows(This, t) /\ IsType(t)
  <2>1. This.isStruct => Grows(This, AddSpace(a))
    BY <1>1, AddSpaceGrows, GrowsTwice
  <2> QED
    BY <1>1, <1>2, <2>1 DEF Grows
<1>4. Grows(t, [t EXCEPT !.base = size * 8])
  BY <1>3, BaseOnly
<1> QED
  BY <1>3, <1>4, GrowsTwice DEF Started, t

LEMMA WidenedGrows ==
  ASSUME NEW size, NEW bits, IsType(This)
  PROVE  Grows(This, Widened(size, bits))
<1> DEFINE a == Aligned(size, bits)
<1>1. Grows(This, a) /\ IsType(a)
  BY AlignedGrows DEF Grows
<1> HIDE DEF a
<1>2. Grows(a, [a EXCEPT !.base = MaxOf(a.base, size * 8)])
  BY <1>1, BaseOnly
<1>3. Widened(size, bits) = [a EXCEPT !.base = MaxOf(a.base, size * 8)]
  BY DEF Widened, a
<1> QED
  BY <1>1, <1>2, <1>3, GrowsTwice

LEMMA SkippedGrows ==
  ASSUME NEW size, NEW bits, IsType(This)
  PROVE  Grows(This, Skipped(size, bits))
<1> DEFINE a == Aligned(size, bits)
<1>1. Grows(This, a) /\ IsType(a) /\ a.isStruct = This.isStruct
  BY AlignedGrows DEF Grows
<1> HIDE DEF a
<1>2. This.isStruct => Grows(This, AddSpaceBetweenBitField(a))
  BY <1>1, AddSpaceBetweenBitFieldGrows, GrowsTwice
<1> QED
  BY <1>1, <1>2 DEF Skipped, a

LEMMA RenewedGrows ==
  ASSUME NEW size, NEW bits, IsType(This), This.isStruct
  PROVE  Grows(This, Renewed(size, bits))
<1> DEFINE w == Widened(size, bits)
           apart == AddSpaceBetweenBitField(w)
<1>1. Grows(This, w) /\ IsType(w) /\ w.isStruct
  BY WidenedGrows DEF Grows
<1> HIDE DEF w
<1>2. Grows(This, apart) /\ IsType(apart)
  <2>1. Grows(w, apart)
    BY <1>1, AddSpaceBetweenBitFieldGrows
  <2> HIDE DEF apart
  <2> QED
    BY <1>1, <2>1, GrowsTwice DEF Grows
<1>3. Renewed(size, bits) = [apart EXCEPT !.base = size * 8]
  BY DEF Renewed, w
<1> HIDE DEF apart
<1>4. Grows(apart, [apart EXCEPT !.base = size * 8])
  BY <1>2, BaseOnly
<1> QED
  BY <1>2, <1>3, <1>4, GrowsTwice

LEMMA StartRunInv ==
  ASSUME LayoutInv, verdict = "ok", NEW name, NEW size, NEW bits,
         StartRun(name, size, bits)
  PROVE  LayoutInv'
<1> DEFINE based == Started(size, bits)
<1>1. \/ Crash
      \/ types' = [types EXCEPT ![Top] = based] /\ UNCHANGED <<objs, open, verdict>>
      \/ bits # 0 /\ PlaceBitField(based, name, size, bits)
  BY DEF StartRun, Started, Spaced
<1>2. Top \in DOMAIN types /\ This = types[Top] /\ IsType(This)
  BY TopIsType DEF This
<1>3. Grows(This, based)
  BY <1>2, StartedGrows
<1> HIDE DEF based
<1>4. CASE Crash
  BY <1>4, ExitInv DEF Crash
<1>5. CASE types' = [types EXCEPT ![Top] = based] /\ UNCHANGED <<objs, open, verdict>>
  BY <1>2, <1>3, <1>5, NoObject
<1>6. CASE bits # 0 /\ PlaceBitField(based, name, size, bits)
  BY <1>3, <1>6, PlaceBitFieldInv
<1> QED
  BY <1>1, <1>4, <1>5, <1>6

LEMMA ContinueRunInv ==
  ASSUME LayoutInv, verdict = "ok", NEW name, NEW size, NEW bits,
         ContinueRun(name, size, bits)
  PROVE  LayoutInv'
<1> DEFINE skipped == Skipped(size, bits)
           based == Widened(size, bits)
           anew == Renewed(size, bits)
<1>1. \/ types' = [types EXCEPT ![Top] = skipped] /\ UNCHANGED <<objs, open, verdict>>
      \/ bits # 0 /\ PlaceBitField(based, name, size, bits)
      \/ bits # 0 /\ This.isStruct /\ PlaceBitField(anew, name, size, bits)
  BY DEF ContinueRun, Skipped, Widened, Renewed
<1>2. Top \in DOMAIN types /\ This = types[Top] /\ IsType(This)
  BY TopIsType DEF This
<1>3. /\ Grows(This, skipped) /\ Grows(This, based)
      /\ This.isStruct => Grows(This, anew)
  BY <1>2, SkippedGrows, WidenedGrows, RenewedGrows
<1> HIDE DEF skipped, based, anew
<1>4. CASE types' = [types EXCEPT ![Top] = skipped] /\ UNCHANGED <<objs, open, verdict>>
  BY <1>2, <1>3, <1>4, NoObject
<1>5. CASE bits # 0 /\ PlaceBitField(based, name, size, bits)
  BY <1>3, <1>5, PlaceBitFieldInv
<1>6. CASE bits # 0 /\ This.isStruct /\ PlaceBitField(anew, name, size, bits)
  BY <1>3, <1>6, PlaceBitFieldInv
<1> QED
  BY <1>1, <1>4, <1>5, <1>6

LEMMA CloseRecordInv ==
  ASSUME LayoutInv, CloseRecord
  PROVE  LayoutInv'
<1>1. /\ verdict = "ok" /\ types' = [types EXCEPT ![Top] = Finish(This, objs)]
      /\ UNCHANGED <<objs, open, verdict>>
  BY DEF CloseRecord, Declaring
<1>2. Top \in DOMAIN types /\ This = types[Top] /\ IsType(This)
  BY <1>1, TopIsType DEF This
<1>3. Grows(types[Top], Finish(This, objs))
  BY <1>2, FinishGrows
<1> QED
  BY <1>1, <1>2, <1>3, NoObject

LEMMA OuterIsType ==
  ASSUME LayoutInv, Inside
  PROVE  /\ Outer \in DOMAIN types /\ verdict = "ok"
         /\ Front(open) \in Seq(DOMAIN types) /\ Front(open) # <<>>
<1>1. open \in Seq(DOMAIN types) /\ Len(open) \in Nat /\ Len(open) > 1 /\ verdict = "ok"
  BY DEF LayoutInv, Inside
<1>2. Len(open) - 1 \in DOMAIN open
  BY <1>1
<1>3. SubSeq(open, 1, Len(open) - 1) \in Seq(DOMAIN types)
  BY <1>1
<1>4. Len(SubSeq(open, 1, Len(open) - 1)) = Len(open) - 1
  BY <1>1
<1>5. Outer \in DOMAIN types
  BY <1>1, <1>2 DEF Outer
<1>6. SubSeq(open, 1, Len(open) - 1) # <<>>
  <2> DEFINE rest == SubSeq(open, 1, Len(open) - 1)
  <2>1. rest \in Seq(DOMAIN types) /\ Len(rest) > 0
    BY <1>1, <1>3, <1>4
  <2> HIDE DEF rest
  <2>2. rest # <<>>
    BY <2>1
  <2> QED
    BY <2>2 DEF rest
<1> QED
  BY <1>1, <1>3, <1>5, <1>6 DEF Front

LEMMA DeclareRecordInv ==
  ASSUME LayoutInv, DeclareRecord
  PROVE  LayoutInv'
<1> DEFINE type == Record(Top)
           u == AddMember(Outer, type)
           o == MemberObject(Outer, type)
<1>1. /\ Inside /\ objs' = Append(objs, o) /\ types' = [types EXCEPT ![Outer] = u]
      /\ open' = Front(open) /\ UNCHANGED verdict
  BY DEF DeclareRecord
<1>2. /\ Outer \in DOMAIN types /\ open' \in Seq(DOMAIN types)
      /\ open' # <<>>
  BY <1>1, OuterIsType
<1> HIDE DEF type
<1>3. Grows(u, u)
  BY <1>2, AddMemberIsType, GrowsItself
<1>4. Grows(types[Outer], u) /\ IsObject(o) /\ Found(o, types')
  BY <1>1, <1>2, <1>3, MemberStep
<1> HIDE DEF u, o
<1> QED
  BY <1>1, <1>2, <1>4, OneObject

\* The members of an anonymous type get one more step to their path, in front:
\* where their element is does not change.
LEMMA MovedObject ==
  ASSUME NEW o, NEW m, NEW e, IsObject(o), NEW offset,
         m = [o EXCEPT !.offset = offset, !.path = <<e>> \o o.path]
  PROVE  IsObject(m) /\ \A ts : Found(o, ts) => Found(m, ts)
<1>1. /\ m = [f \in {"name", "type", "bits", "begin", "offset", "path"} |-> m[f]]
      /\ m.type = o.type /\ m.bits = o.bits /\ m.path = <<e>> \o o.path
  <2>1. o = [f \in {"name", "type", "bits", "begin", "offset", "path"} |-> o[f]]
    BY DEF IsObject
  <2> QED
    BY <2>1
<1>2. IsSeq(m.path) /\ m.path # <<>> /\ Last(m.path) = Last(o.path)
  BY <1>1, PrependAny DEF IsObject
<1> QED
  BY <1>1, <1>2 DEF IsObject, Found

LEMMA MergeAnonymousInv ==
  ASSUME LayoutInv, MergeAnonymous
  PROVE  LayoutInv'
<1> DEFINE type   == Record(Top)
           t      == Ready(types[Outer], type)
           offset == MakeAlign(t.offset, type.align)
           inner  == This.scope
           Moved(o) == [objs[o] EXCEPT !.offset = @ + offset,
                                       !.path = <<[type |-> Outer, index |-> t.index]>> \o @]
           moved  == [o \in DOMAIN objs |-> IF o \in Range(inner) THEN Moved(o) ELSE objs[o]]
           scope  == [n \in DOMAIN t.scope \cup DOMAIN inner |->
                        IF n \in DOMAIN inner THEN inner[n] ELSE t.scope[n]]
           merged == [t EXCEPT !.members = Append(t.members, Fresh), !.scope = scope]
           u      == AddElement(merged, type)
           new    == Object(NoName, type, 0, 0, offset, Outer, t.index)
<1>1. CASE Error
  BY <1>1, ExitInv DEF Error
<1>2. CASE ~Error
  <2>1. /\ Inside /\ objs' = Append(moved, new)
        /\ types' = [types EXCEPT ![Outer] = u]
        /\ open' = Front(open) /\ UNCHANGED verdict
    BY <1>2 DEF MergeAnonymous
  <2>2. /\ Outer \in DOMAIN types /\ open' \in Seq(DOMAIN types)
        /\ open' # <<>> /\ IsType(types[Outer])
    BY <2>1, OuterIsType DEF LayoutInv
  <2>3. /\ IsSeq(moved) /\ DOMAIN moved = DOMAIN objs
        /\ \A o \in DOMAIN objs :
             IsObject(moved[o]) /\ \A ts : Found(objs[o], ts) => Found(moved[o], ts)
    <3>1. IsSeq(objs) /\ DOMAIN objs = 1..Len(objs) /\ Len(objs) \in Nat
      BY AppendAny DEF LayoutInv
    <3>2. moved \in [1..Len(objs) -> {moved[o] : o \in DOMAIN objs}]
      <4> HIDE DEF Moved
      <4> QED
        BY <3>1
    <3>3. IsSeq(moved)
      <4> DEFINE S == {moved[o] : o \in DOMAIN objs}
      <4> HIDE DEF moved, S
      <4>1. moved \in Seq(S)
        BY <3>1, <3>2 DEF S
      <4> QED
        BY <4>1 DEF IsSeq
    <3>4. ASSUME NEW o \in DOMAIN objs
          PROVE  IsObject(moved[o]) /\ \A ts : Found(objs[o], ts) => Found(moved[o], ts)
      <4>1. IsObject(objs[o])
        BY DEF LayoutInv
      <4> DEFINE e == [type |-> Outer, index |-> t.index]
                 where == objs[o].offset + offset
      <4>2. Moved(o) = [objs[o] EXCEPT !.offset = where, !.path = <<e>> \o objs[o].path]
        OBVIOUS
      <4>3. moved[o] = Moved(o) \/ moved[o] = objs[o]
        <5> HIDE DEF Moved
        <5> QED
          OBVIOUS
      <4> HIDE DEF Moved, moved, e, where
      <4> QED
        BY <4>1, <4>2, <4>3, MovedObject
    <3>5. DOMAIN moved = DOMAIN objs
      OBVIOUS
    <3> HIDE DEF moved
    <3> QED
      BY <3>3, <3>4, <3>5
  <2> HIDE DEF moved, type
  <2>4. Grows(types[Outer], t) /\ IsType(t)
    BY <2>2, ReadyGrows DEF Grows
  <2> HIDE DEF t
  <2>5. Grows(t, merged) /\ IsType(merged) /\ merged.index = t.index
    <3> HIDE DEF scope
    <3>1. Grows(t, merged)
      BY <2>4, ScopeOnly
    <3>2. HasFields(t)
      BY <2>4 DEF IsType
    <3>3. merged.index = t.index
      BY <3>2 DEF HasFields, Fields
    <3> QED
      BY <3>1, <3>3 DEF Grows
  <2> HIDE DEF merged, offset
  <2>6. Grows(types[Outer], merged) /\ Grows(u, u)
    BY <2>2, <2>4, <2>5, GrowsTwice, AddElementGrows, GrowsItself DEF Grows
  <2>7. /\ IsObject(new) /\ new.bits = 0 /\ new.type = type
        /\ Last(new.path).type = Outer /\ Last(new.path).index = t.index
    <3>1. new = Object(NoName, type, 0, 0, offset, Outer, t.index)
      OBVIOUS
    <3> HIDE DEF new
    <3> QED
      BY <3>1, ObjectFound
  <2> HIDE DEF new
  <2>8. Grows(types[Outer], u) /\ Found(new, types')
    BY <2>1, <2>2, <2>5, <2>6, <2>7, NewElement
  <2> HIDE DEF u
  <2>9. /\ IsSeq(types') /\ DOMAIN types' = DOMAIN types
        /\ \A S \in DOMAIN types' : IsType(types'[S])
        /\ \A x : Found(x, types) => Found(x, types')
    BY <2>1, <2>2, <2>8, TypeStep
  <2>10. /\ IsSeq(objs') /\ DOMAIN objs' = 1..(Len(moved) + 1) /\ Len(moved) \in Nat
         /\ DOMAIN moved = 1..Len(moved) /\ objs'[Len(moved) + 1] = new
         /\ \A i \in DOMAIN moved : objs'[i] = moved[i]
    BY <2>1, <2>3, AppendAny
  <2>11. ASSUME NEW i \in DOMAIN objs' PROVE IsObject(objs'[i]) /\ Found(objs'[i], types')
    <3>1. CASE i = Len(moved) + 1
      BY <2>7, <2>8, <2>10, <3>1
    <3>2. CASE i \in DOMAIN moved
      <4>1. i \in DOMAIN objs /\ Found(objs[i], types)
        BY <2>3, <3>2 DEF LayoutInv
      <4>2. Found(moved[i], types') /\ IsObject(moved[i])
        BY <2>3, <2>9, <4>1
      <4> QED
        BY <2>10, <3>2, <4>2
    <3> QED
      BY <2>10, <3>1, <3>2
  <2> QED
    BY <2>1, <2>2, <2>9, <2>10, <2>11 DEF LayoutInv
<1> QED
  BY <1>1, <1>2

-----------------------------------------------------------------------------
LEMMA LayoutInitInv == LayoutInit => LayoutInv
<1> SUFFICES ASSUME LayoutInit PROVE LayoutInv
  OBVIOUS
<1>1. PICK isStruct \in RecordKinds : types = <<NewStructType(isStruct)>>
  BY DEF LayoutInit
<1> DEFINE t == NewStructType(isStruct)
<1>2. <<>> \in Seq({})
  OBVIOUS
<1>3. IsType(t)
  <2>1. HasFields(t) /\ t.isStruct = isStruct /\ t.llvm = <<>> /\ t.index = 0
    BY DEF NewStructType, HasFields, Fields
  <2> HIDE DEF t
  <2>2. isStruct \in BOOLEAN
    BY LayoutAssumption
  <2> QED
    BY <1>2, <2>1, <2>2 DEF IsType, IsSeq
<1> HIDE DEF t
<1>4. types = <<t>>
  BY <1>1 DEF t
<1>5. types \in Seq({t}) /\ DOMAIN types = {1} /\ types[1] = t
  BY <1>4
<1>6. open = <<1>> /\ open \in Seq(DOMAIN types) /\ objs = <<>> /\ verdict = "ok"
  BY <1>5 DEF LayoutInit
<1>7. IsSeq(types) /\ IsSeq(objs)
  BY <1>2, <1>5, <1>6 DEF IsSeq
<1> QED
  BY <1>3, <1>5, <1>6, <1>7 DEF LayoutInv

LEMMA LayoutNextInv == LayoutInv /\ [LayoutNext]_layoutVars => LayoutInv'
<1> SUFFICES ASSUME LayoutInv, [LayoutNext]_layoutVars PROVE LayoutInv'
  OBVIOUS
<1>1. ASSUME NEW isStruct \in RecordKinds, OpenRecord(isStruct) PROVE LayoutInv'
  BY <1>1, OpenRecordInv
<1>2. ASSUME NEW type, DeclareMember(type) PROVE LayoutInv'
  BY <1>2, DeclareMemberInv
<1>3. ASSUME NEW elem, DeclareFlexible(elem) PROVE LayoutInv'
  BY <1>3, DeclareFlexibleInv
<1>4. CASE Refused
  BY <1>4, ExitInv DEF Refused, Error
<1>5. ASSUME NEW name, NEW size, NEW bits, DeclareBitField(name, size, bits)
      PROVE  LayoutInv'
  <2>1. verdict = "ok"
    BY <1>5 DEF DeclareBitField, Declaring
  <2>2. CASE Error
    BY <2>2, ExitInv DEF Error
  <2>3. CASE StartRun(name, size, bits)
    BY <2>1, <2>3, StartRunInv
  <2>4. CASE ContinueRun(name, size, bits)
    BY <2>1, <2>4, ContinueRunInv
  <2> QED
    BY <1>5, <2>2, <2>3, <2>4 DEF DeclareBitField
<1>6. CASE CloseRecord
  BY <1>6, CloseRecordInv
<1>7. CASE DeclareRecord
  BY <1>7, DeclareRecordInv
<1>8. CASE MergeAnonymous
  BY <1>8, MergeAnonymousInv
<1>9. CASE UNCHANGED layoutVars
  BY <1>9 DEF layoutVars, LayoutInv
<1> QED
  BY <1>1, <1>2, <1>3, <1>4, <1>5, <1>6, <1>7, <1>8, <1>9 DEF LayoutNext

LEMMA LayoutInvFinds == LayoutInv => IndexFindsElement
<1> SUFFICES ASSUME LayoutInv PROVE IndexFindsElement
  OBVIOUS
<1>1. ASSUME NEW T \in DOMAIN types, types[T].isStruct
      PROVE  types[T].index = Len(types[T].llvm)
  BY <1>1 DEF LayoutInv, IsType
<1>2. ASSUME NEW o \in DOMAIN objs, types[Last(objs[o].path).type].isStruct
      PROVE  LET T == Last(objs[o].path).type
                 i == Last(objs[o].path).index + 1
             IN IF objs[o].bits # 0 THEN i \in 1..(types[T].index + 1)
                ELSE i \in DOMAIN types[T].llvm /\ types[T].llvm[i] = objs[o].type
  <2>1. Found(objs[o], types)
    BY DEF LayoutInv
  <2> QED
    BY <1>1, <1>2, <2>1 DEF Found
<1> QED
  BY <1>1, <1>2 DEF IndexFindsElement

\* CreateStructGEP with the index of a member finds the element made for it, in
\* a struct of any members and bit-fields, nested and merged to any depth.
THEOREM IndexesFind == LayoutSpec => []IndexFindsElement
<1>1. LayoutInit => LayoutInv
  BY LayoutInitInv
<1>2. LayoutInv /\ [LayoutNext]_layoutVars => LayoutInv'
  BY LayoutNextInv
<1>3. LayoutInv => IndexFindsElement
  BY LayoutInvFinds
<1> QED
  BY <1>1, <1>2, <1>3, PTL DEF LayoutSpec

-----------------------------------------------------------------------------
\* The offsets of elements.

LEMMA AlignFacts ==
  ASSUME NEW n \in Nat, NEW a \in Aligns
  PROVE  /\ MakeAlign(n, a) \in Nat /\ n <= MakeAlign(n, a)
         /\ MakeAlign(0, a) = 0
<1>1. CASE a = 1
  BY <1>1 DEF MakeAlign
<1>2. CASE a = 2
  BY <1>2 DEF MakeAlign
<1>3. CASE a = 4
  BY <1>3 DEF MakeAlign
<1>4. CASE a = 8
  BY <1>4 DEF MakeAlign
<1>5. CASE a = 16
  BY <1>5 DEF MakeAlign
<1> QED
  BY <1>1, <1>2, <1>3, <1>4, <1>5 DEF Aligns

\* Where each element starts, given where the one before it does.
LEMMA ElementOffsets ==
  ASSUME NEW llvm \in Seq(LLVMTypes)
  PROVE  LET at == ElementOffset(llvm)
         IN \A i \in 1..Len(llvm) :
              /\ at[i] \in Nat
              /\ at[i] = MakeAlign(IF i = 1 THEN 0 ELSE at[i - 1] + llvm[i - 1].size,
                                   llvm[i].align)
<1> DEFINE n == Len(llvm)
           At(g, i) == MakeAlign(IF i = 1 THEN 0 ELSE g[i - 1] + llvm[i - 1].size,
                                 llvm[i].align)
           step == [i \in 1..n |-> [v \in Nat |->
                      MakeAlign(IF i = 1 THEN 0 ELSE v + llvm[i - 1].size, llvm[i].align)]]
           at == ElementOffset(llvm)
<1>1. n \in Nat /\ \A i \in 1..n : llvm[i].size \in Nat /\ llvm[i].align \in Aligns
  <2>1. \A i \in 1..Len(llvm) : llvm[i] \in LLVMTypes
    BY ElementOfSeq
  <2> QED
    BY <2>1 DEF LLVMTypes
<1>2. \A i \in 1..n, v \in Nat :
        MakeAlign(IF i = 1 THEN 0 ELSE v + llvm[i - 1].size, llvm[i].align) \in Nat
  <2> SUFFICES ASSUME NEW i \in 1..n, NEW v \in Nat
               PROVE  MakeAlign(IF i = 1 THEN 0 ELSE v + llvm[i - 1].size, llvm[i].align) \in Nat
    OBVIOUS
  <2>1. (IF i = 1 THEN 0 ELSE v + llvm[i - 1].size) \in Nat
    BY <1>1
  <2> QED
    BY <1>1, <2>1, AlignFacts
<1> HIDE DEF n
<1>3. step \in [1..n -> [Nat -> Nat]]
  BY <1>2
<1>4. PICK f : StepByStep(f, n, Nat, 0, step)
  <2> HIDE DEF step
  <2> QED
    BY <1>1, <1>3, Recursion
<1>5. ASSUME NEW i \in 1..n PROVE f[i] = At(f, i)
  <2>1. i - 1 \in 0..n
    BY <1>1
  <2>2. f[i - 1] \in Nat /\ f[i] = step[i][f[i - 1]]
    BY <1>4, <2>1 DEF StepByStep
  <2> QED
    BY <2>2
<1> DEFINE h == [i \in 1..n |-> f[i]]
<1>6. h = [i \in 1..n |-> At(h, i)]
  <2> SUFFICES ASSUME NEW i \in 1..n PROVE f[i] = At(h, i)
    OBVIOUS
  <2>1. i # 1 => h[i - 1] = f[i - 1]
    BY <1>1
  <2> QED
    BY <1>5, <2>1
<1>7. at = CHOOSE g : g = [i \in 1..n |-> At(g, i)]
  BY DEF ElementOffset, n
<1> HIDE DEF At, h
<1>8. at = [i \in 1..n |-> At(at, i)]
  BY <1>6, <1>7
<1> DEFINE Typed == {m \in Nat : \A i \in 1..n : i <= m => at[i] \in Nat}
<1>9. Nat \subseteq Typed
  <2> HIDE DEF at
  <2>1. 0 \in Typed
    BY <1>1
  <2>2. ASSUME NEW m \in Nat, m \in Typed PROVE m + 1 \in Typed
    <3>1. ASSUME NEW i \in 1..n, i = m + 1 PROVE at[i] \in Nat
      <4>1. at[i] = At(at, i)
        BY <1>8
      <4>2. CASE i = 1
        BY <1>2, <4>1, <4>2 DEF At
      <4>3. CASE i # 1
        <5>1. at[i - 1] \in Nat
          BY <1>1, <2>2, <3>1, <4>3
        <5> QED
          BY <1>2, <4>1, <5>1 DEF At
      <4> QED
        BY <4>2, <4>3
    <3> QED
      BY <1>1, <2>2, <3>1
  <2> HIDE DEF Typed
  <2> QED
    BY <2>1, <2>2, NatSetInduction
<1> HIDE DEF at
<1>10. ASSUME NEW i \in 1..n PROVE at[i] \in Nat /\ at[i] = At(at, i)
  <2>1. i \in Nat /\ i <= i
    BY <1>1
  <2>2. i \in Typed
    BY <1>9, <2>1
  <2>3. at[i] = At(at, i)
    BY <1>8
  <2> QED
    BY <2>1, <2>2, <2>3
<1> QED
  BY <1>10 DEF n, At, at

LEMMA OffsetsStay ==
  ASSUME NEW a \in Seq(LLVMTypes), NEW b \in Seq(LLVMTypes),
         Len(a) <= Len(b), \A i \in 1..Len(a) : b[i] = a[i]
  PROVE  \A i \in 1..Len(a) : ElementOffset(b)[i] = ElementOffset(a)[i]
<1> DEFINE p == ElementOffset(a)
           q == ElementOffset(b)
           Same == {m \in Nat : \A i \in 1..Len(a) : i <= m => q[i] = p[i]}
<1>1. /\ Len(a) \in Nat /\ Len(b) \in Nat
      /\ \A i \in 1..Len(a) :
           p[i] = MakeAlign(IF i = 1 THEN 0 ELSE p[i - 1] + a[i - 1].size, a[i].align)
      /\ \A i \in 1..Len(b) :
           q[i] = MakeAlign(IF i = 1 THEN 0 ELSE q[i - 1] + b[i - 1].size, b[i].align)
  BY ElementOffsets
<1> HIDE DEF p, q
<1>2. 0 \in Same
  BY <1>1
<1>3. ASSUME NEW m \in Nat, m \in Same PROVE m + 1 \in Same
  <2>1. ASSUME NEW i \in 1..Len(a), i = m + 1 PROVE q[i] = p[i]
    <3>1. i \in 1..Len(b) /\ b[i] = a[i]
      BY <1>1
    <3>2. CASE i = 1
      BY <1>1, <3>1, <3>2
    <3>3. CASE i # 1
      <4>1. i - 1 \in 1..Len(a) /\ i - 1 <= m
        BY <1>1, <2>1, <3>3
      <4>2. q[i - 1] = p[i - 1] /\ b[i - 1] = a[i - 1]
        BY <1>3, <4>1
      <4> QED
        BY <1>1, <3>1, <3>3, <4>2
    <3> QED
      BY <3>2, <3>3
  <2> QED
    BY <1>1, <1>3, <2>1
<1> HIDE DEF Same
<1>4. Nat \subseteq Same
  BY <1>2, <1>3, NatSetInduction
<1>5. ASSUME NEW i \in 1..Len(a) PROVE q[i] = p[i]
  <2>1. i \in Nat /\ i <= i
    BY <1>1
  <2> QED
    BY <1>4, <2>1 DEF Same
<1> QED
  BY <1>5 DEF p, q

\* Where the next element of an alignment of 1 would start.
End(llvm) ==
  IF Len(llvm) = 0 THEN 0 ELSE ElementOffset(llvm)[Len(llvm)] + llvm[Len(llvm)].size

LEMMA EndIsNat ==
  ASSUME NEW llvm \in Seq(LLVMTypes)
  PROVE  End(llvm) \in Nat
<1>1. CASE Len(llvm) = 0
  BY <1>1 DEF End
<1>2. CASE Len(llvm) # 0
  <2>1. Len(llvm) \in 1..Len(llvm)
    BY <1>2
  <2>2. ElementOffset(llvm)[Len(llvm)] \in Nat
    BY <2>1, ElementOffsets
  <2>3. llvm[Len(llvm)].size \in Nat
    <3>1. llvm[Len(llvm)] \in LLVMTypes
      BY <2>1, ElementOfSeq
    <3> QED
      BY <3>1 DEF LLVMTypes
  <2> QED
    BY <1>2, <2>2, <2>3 DEF End
<1> QED
  BY <1>1, <1>2

LEMMA AppendOffset ==
  ASSUME NEW llvm \in Seq(LLVMTypes), NEW e \in LLVMTypes,
         NEW u, u = Append(llvm, e)
  PROVE  /\ u \in Seq(LLVMTypes)
         /\ ElementOffset(u)[Len(llvm) + 1] = MakeAlign(End(llvm), e.align)
         /\ End(u) = MakeAlign(End(llvm), e.align) + e.size
<1> DEFINE n == Len(llvm)
<1>1. /\ n \in Nat /\ u \in Seq(LLVMTypes) /\ Len(u) = n + 1 /\ u[n + 1] = e
      /\ \A i \in 1..n : u[i] = llvm[i]
  OBVIOUS
<1>2. \A i \in 1..n : ElementOffset(u)[i] = ElementOffset(llvm)[i]
  <2> HIDE DEF n
  <2>1. Len(llvm) <= Len(u) /\ \A i \in 1..Len(llvm) : u[i] = llvm[i]
    BY <1>1 DEF n
  <2> QED
    BY <1>1, <2>1, OffsetsStay DEF n
<1>3. ElementOffset(u)[n + 1] =
        MakeAlign(IF n + 1 = 1 THEN 0 ELSE ElementOffset(u)[n] + u[n].size, e.align)
  <2> HIDE DEF n
  <2>1. n + 1 \in 1..Len(u) /\ (n + 1) - 1 = n
    BY <1>1
  <2>2. ElementOffset(u)[n + 1] =
          MakeAlign(IF n + 1 = 1 THEN 0 ELSE ElementOffset(u)[(n + 1) - 1] + u[(n + 1) - 1].size,
                    u[n + 1].align)
    BY <1>1, <2>1, ElementOffsets
  <2> QED
    BY <1>1, <2>1, <2>2
<1>4. (IF n + 1 = 1 THEN 0 ELSE ElementOffset(u)[n] + u[n].size) = End(llvm)
  <2>1. CASE n = 0
    BY <2>1 DEF End
  <2>2. CASE n # 0
    <3>1. n \in 1..n
      BY <1>1, <2>2
    <3> QED
      BY <1>1, <1>2, <2>2, <3>1 DEF End
  <2> QED
    BY <2>1, <2>2
<1>5. End(u) = ElementOffset(u)[n + 1] + e.size
  BY <1>1 DEF End
<1> QED
  BY <1>1, <1>3, <1>4, <1>5

LEMMA LLVMAlignFacts ==
  ASSUME NEW llvm \in Seq(LLVMTypes)
  PROVE  LLVMAlign(llvm) \in Aligns
<1> DEFINE S == {1} \cup {llvm[i].align : i \in DOMAIN llvm}
<1>1. S \subseteq Aligns /\ 1 \in S
  <2>1. \A i \in DOMAIN llvm : llvm[i] \in LLVMTypes
    BY ElementOfSeq
  <2> QED
    BY <2>1 DEF LLVMTypes, Aligns
<1>2. LLVMAlign(llvm) = CHOOSE x \in S : \A y \in S : x >= y
  BY DEF LLVMAlign, Max
<1> HIDE DEF S
<1>3. \E x \in S : \A y \in S : x >= y
  BY <1>1 DEF Aligns
<1> QED
  BY <1>1, <1>2, <1>3

LEMMA LLVMSizeFacts ==
  ASSUME NEW llvm \in Seq(LLVMTypes)
  PROVE  LLVMSize(llvm) \in Nat /\ End(llvm) <= LLVMSize(llvm)
<1>1. CASE llvm = <<>>
  BY <1>1 DEF LLVMSize, End
<1>2. CASE llvm # <<>>
  <2>1. Len(llvm) # 0
    BY <1>2
  <2>2. LLVMSize(llvm) = MakeAlign(End(llvm), LLVMAlign(llvm))
    BY <1>2, <2>1 DEF LLVMSize, End, Last
  <2> QED
    BY <2>2, EndIsNat, LLVMAlignFacts, AlignFacts
<1> QED
  BY <1>1, <1>2

-----------------------------------------------------------------------------
\* offset_ is counted right by every operation on a type.

\* offset_ is where the next element would start, counted by hand.
Measured(t) ==
  /\ t.llvm \in Seq(LLVMTypes) /\ (~t.isStruct => Len(t.llvm) <= 1)
  /\ t.offset \in Nat /\ t.align \in Aligns /\ t.spaces \in Nat
  /\ t.index \in Nat /\ t.used \in Nat /\ t.base \in {0, 8, 32}
  /\ t.offset = IF t.isStruct THEN End(t.llvm) ELSE 0

\* What a change of the elements leaves alone.
Keeps(t, u) ==
  /\ u.isStruct = t.isStruct /\ u.complete = t.complete
  /\ u.members = t.members /\ u.scope = t.scope

\* How many bits are taken in a type.
Room(t) == 8 * End(t.llvm) + (IF t.isStruct THEN t.used ELSE 0)

\* What the code does to a type with members in it: what was taken stays where
\* it is, and so does the run that is open.
Fills(t, u) ==
  /\ u.isStruct = t.isStruct
  /\ t.llvm \in Seq(LLVMTypes) /\ u.llvm \in Seq(LLVMTypes)
  /\ t.used \in Nat /\ u.used \in Nat /\ t.index \in Nat /\ u.index \in Nat
  /\ t.index <= u.index /\ Room(t) <= Room(u)
  /\ t.isStruct => /\ Len(t.llvm) <= Len(u.llvm)
                   /\ \A i \in 1..Len(t.llvm) : u.llvm[i] = t.llvm[i]
  /\ t.isStruct /\ t.used # 0 =>
       \/ u.llvm = t.llvm /\ u.used # 0
       \/ Len(t.llvm) + 1 <= Len(u.llvm) /\ u.llvm[Len(t.llvm) + 1].align = 1

LEMMA RoomIsNat ==
  ASSUME NEW t, t.llvm \in Seq(LLVMTypes), t.used \in Nat
  PROVE  Room(t) \in Nat
<1>1. End(t.llvm) \in Nat
  BY EndIsNat
<1> QED
  BY <1>1 DEF Room

LEMMA FillsSame ==
  ASSUME NEW t, Measured(t), NEW u, Measured(u), u.isStruct = t.isStruct, u.llvm = t.llvm,
         t.index <= u.index, t.used <= u.used \/ ~t.isStruct
  PROVE  Fills(t, u)
<1>1. /\ t.llvm \in Seq(LLVMTypes) /\ t.used \in Nat /\ u.used \in Nat
      /\ t.index \in Nat /\ u.index \in Nat
  BY DEF Measured
<1>2. End(t.llvm) \in Nat /\ Len(t.llvm) \in Nat
  BY <1>1, EndIsNat
<1>3. Room(t) <= Room(u)
  BY <1>1, <1>2 DEF Room
<1>4. t.isStruct /\ t.used # 0 => u.used # 0
  BY <1>1
<1> QED
  BY <1>1, <1>2, <1>3, <1>4 DEF Fills

LEMMA FillsItself ==
  ASSUME NEW t, Measured(t) PROVE Fills(t, t)
<1>1. t.index <= t.index /\ t.used <= t.used
  BY DEF Measured
<1> QED
  BY <1>1, FillsSame

LEMMA FillsTwice ==
  ASSUME NEW t, NEW u, NEW v, Fills(t, u), Fills(u, v)
  PROVE  Fills(t, v)
<1>1. /\ v.isStruct = t.isStruct
      /\ t.llvm \in Seq(LLVMTypes) /\ u.llvm \in Seq(LLVMTypes) /\ v.llvm \in Seq(LLVMTypes)
      /\ t.used \in Nat /\ u.used \in Nat /\ v.used \in Nat
      /\ t.index \in Nat /\ u.index \in Nat /\ v.index \in Nat
      /\ u.isStruct = t.isStruct
  BY DEF Fills
<1>2. Len(t.llvm) \in Nat /\ Len(u.llvm) \in Nat /\ Len(v.llvm) \in Nat
  BY <1>1
<1>3. t.index <= v.index
  BY <1>1 DEF Fills
<1>4. Room(t) <= Room(v)
  <2>1. Room(t) \in Nat /\ Room(u) \in Nat /\ Room(v) \in Nat
    BY <1>1, RoomIsNat
  <2>2. Room(t) <= Room(u) /\ Room(u) <= Room(v)
    BY DEF Fills
  <2> QED
    BY <2>1, <2>2
<1>5. ASSUME t.isStruct
      PROVE  /\ Len(t.llvm) <= Len(v.llvm)
             /\ \A i \in 1..Len(t.llvm) : v.llvm[i] = t.llvm[i]
  <2>1. /\ Len(t.llvm) <= Len(u.llvm) /\ Len(u.llvm) <= Len(v.llvm)
        /\ \A i \in 1..Len(t.llvm) : u.llvm[i] = t.llvm[i]
        /\ \A i \in 1..Len(u.llvm) : v.llvm[i] = u.llvm[i]
    BY <1>1, <1>5 DEF Fills
  <2>2. \A i \in 1..Len(t.llvm) : i \in 1..Len(u.llvm)
    BY <1>2, <2>1
  <2> QED
    BY <1>2, <2>1, <2>2
<1>6. ASSUME t.isStruct, t.used # 0
      PROVE  \/ v.llvm = t.llvm /\ v.used # 0
             \/ Len(t.llvm) + 1 <= Len(v.llvm) /\ v.llvm[Len(t.llvm) + 1].align = 1
  <2>1. CASE u.llvm = t.llvm /\ u.used # 0
    BY <1>1, <1>6, <2>1 DEF Fills
  <2>2. CASE Len(t.llvm) + 1 <= Len(u.llvm) /\ u.llvm[Len(t.llvm) + 1].align = 1
    <3>1. Len(t.llvm) + 1 \in 1..Len(u.llvm)
      BY <1>2, <2>2
    <3>2. v.llvm[Len(t.llvm) + 1] = u.llvm[Len(t.llvm) + 1] /\ Len(u.llvm) <= Len(v.llvm)
      BY <1>1, <1>6, <3>1 DEF Fills
    <3> QED
      BY <1>2, <2>2, <3>2
  <2> QED
    BY <1>6, <2>1, <2>2 DEF Fills
<1> QED
  BY <1>1, <1>3, <1>4, <1>5, <1>6 DEF Fills

\* An element of bytes more, where the run was or where there was none.
LEMMA FillsPush ==
  ASSUME NEW t, Measured(t), NEW u, Measured(u), u.isStruct = t.isStruct, t.isStruct,
         NEW e \in LLVMTypes, e.align = 1, t.used <= 8 * e.size,
         u.llvm = Append(t.llvm, e), t.index <= u.index
  PROVE  Fills(t, u)
<1>1. /\ t.llvm \in Seq(LLVMTypes) /\ u.llvm \in Seq(LLVMTypes)
      /\ t.used \in Nat /\ u.used \in Nat /\ t.index \in Nat /\ u.index \in Nat
  BY DEF Measured
<1>2. /\ Len(t.llvm) \in Nat /\ Len(u.llvm) = Len(t.llvm) + 1
      /\ u.llvm[Len(t.llvm) + 1] = e
      /\ \A i \in 1..Len(t.llvm) : u.llvm[i] = t.llvm[i]
  BY <1>1
<1>3. Room(t) <= Room(u)
  <2> DEFINE s == t.llvm
             w == u.llvm
  <2>1. s \in Seq(LLVMTypes) /\ w = Append(s, e)
    BY <1>1
  <2> HIDE DEF s, w
  <2>2. End(w) = MakeAlign(End(s), e.align) + e.size
    BY <2>1, AppendOffset
  <2>3. End(s) \in Nat /\ MakeAlign(End(s), 1) = End(s)
    BY <2>1, EndIsNat DEF MakeAlign
  <2>4. e.size \in Nat
    BY DEF LLVMTypes
  <2>5. End(w) = End(s) + e.size
    BY <2>2, <2>3
  <2> QED
    BY <1>1, <2>3, <2>4, <2>5 DEF Room, s, w
<1> QED
  BY <1>1, <1>2, <1>3 DEF Fills

\* The one element of a union.
LEMMA EndOfOne ==
  ASSUME NEW llvm \in Seq(LLVMTypes), Len(llvm) = 1
  PROVE  End(llvm) = llvm[1].size
<1>1. 1 \in 1..Len(llvm) /\ llvm[1] \in LLVMTypes
  OBVIOUS
<1>2. ElementOffset(llvm)[1] = MakeAlign(0, llvm[1].align)
  BY <1>1, ElementOffsets
<1>3. MakeAlign(0, llvm[1].align) = 0 /\ llvm[1].size \in Nat
  BY <1>1, AlignFacts DEF LLVMTypes
<1> QED
  BY <1>2, <1>3 DEF End

LEMMA FillsUnion ==
  ASSUME NEW t, Measured(t), NEW u, Measured(u), u.isStruct = t.isStruct, ~t.isStruct,
         End(t.llvm) <= End(u.llvm), t.index <= u.index
  PROVE  Fills(t, u)
<1>1. /\ t.llvm \in Seq(LLVMTypes) /\ u.llvm \in Seq(LLVMTypes)
      /\ t.used \in Nat /\ u.used \in Nat /\ t.index \in Nat /\ u.index \in Nat
  BY DEF Measured
<1>2. End(t.llvm) \in Nat /\ End(u.llvm) \in Nat
  BY <1>1, EndIsNat
<1>3. Room(t) <= Room(u)
  BY <1>2 DEF Room
<1> QED
  BY <1>1, <1>3 DEF Fills

LEMMA SpaceFacts ==
  ASSUME NEW bits \in Int
  PROVE  LET e == GetBitFieldSpace(bits)
         IN /\ e \in LLVMTypes /\ e.align = 1 /\ e.size \in Nat
            /\ bits > 0 => e.size = MakeAlign(bits, 8) \div 8
<1> DEFINE n == IF bits <= 8 THEN 1 ELSE (bits + 7) \div 8
<1>1. n \in Nat
  OBVIOUS
<1>2. bits > 0 => n = MakeAlign(bits, 8) \div 8
  BY DEF MakeAlign
<1>3. GetBitFieldSpace(bits) = [size |-> n, align |-> 1, rec |-> 0]
  BY DEF GetBitFieldSpace, Chars
<1> HIDE DEF n
<1>4. 0 \in 0..MaxTypes /\ 1 \in Aligns
  BY LayoutAssumption DEF Aligns
<1> QED
  BY <1>1, <1>2, <1>3, <1>4 DEF LLVMTypes

\* A whole number of bytes fills as many.
LEMMA BytesFill ==
  ASSUME NEW n \in Nat, n > 0
  PROVE  GetBitFieldSpace(n * 8).size = n
<1>1. n * 8 \in Int /\ n * 8 > 0 /\ MakeAlign(n * 8, 8) = n * 8 /\ (n * 8) \div 8 = n
  BY DEF MakeAlign
<1> QED
  BY <1>1, SpaceFacts

LEMMA PushMeasured ==
  ASSUME NEW t, Measured(t), t.isStruct, NEW bits \in Int,
         NEW u, Keeps(t, u), u.align \in Aligns,
         u.llvm = Append(t.llvm, GetBitFieldSpace(bits)),
         u.offset = t.offset + GetBitFieldSpace(bits).size, u.index = t.index + 1,
         u.spaces \in Nat, u.used \in Nat, u.base \in {0, 8, 32}
  PROVE  /\ Measured(u)
         /\ t.used <= 8 * GetBitFieldSpace(bits).size => Fills(t, u)
<1> DEFINE e == GetBitFieldSpace(bits)
<1>1. e \in LLVMTypes /\ e.align = 1 /\ e.size \in Nat
  BY SpaceFacts
<1> HIDE DEF e
<1>2. u.llvm \in Seq(LLVMTypes) /\ End(u.llvm) = MakeAlign(End(t.llvm), 1) + e.size
  <2> DEFINE before == t.llvm
             after == u.llvm
  <2>1. after = Append(before, e) /\ before \in Seq(LLVMTypes)
    BY DEF Measured, e
  <2> HIDE DEF before, after
  <2>2. after \in Seq(LLVMTypes) /\ End(after) = MakeAlign(End(before), 1) + e.size
    BY ONLY <1>1, <2>1, AppendOffset
  <2> QED
    BY <2>2 DEF before, after
<1>3. End(t.llvm) \in Nat /\ MakeAlign(End(t.llvm), 1) = End(t.llvm)
  BY EndIsNat DEF MakeAlign, Measured
<1>4. u.offset = End(u.llvm) /\ u.offset \in Nat
  BY <1>1, <1>2, <1>3 DEF Measured, e
<1>5. Measured(u)
  BY <1>2, <1>4 DEF Measured, Keeps
<1>6. ASSUME t.used <= 8 * e.size PROVE Fills(t, u)
  <2>1. /\ u.llvm = Append(t.llvm, e) /\ t.index <= u.index /\ u.isStruct = t.isStruct
    BY DEF Measured, Keeps, e
  <2> QED
    BY <1>1, <1>5, <1>6, <2>1, FillsPush
<1> QED
  BY <1>5, <1>6 DEF e

\* The larger one wins.
LEMMA LargerRoom ==
  ASSUME NEW llvm \in Seq(LLVMTypes), Len(llvm) <= 1, NEW type \in LLVMTypes
  PROVE  LET s == IF llvm = <<>> \/ type.size > Last(llvm).size THEN <<type>> ELSE llvm
         IN /\ Len(s) <= 1
            /\ End(llvm) <= End(s) /\ type.size <= End(s)
<1>1. type.size \in Nat
  BY DEF LLVMTypes
<1>2. End(<<type>>) = type.size
  <2> DEFINE s == <<type>>
  <2>1. s \in Seq(LLVMTypes) /\ Len(s) = 1 /\ s[1] = type
    OBVIOUS
  <2> HIDE DEF s
  <2>2. End(s) = type.size
    BY <2>1, EndOfOne
  <2> QED
    BY <2>2 DEF s
<1>3. CASE llvm = <<>>
  <2>1. End(llvm) = 0
    BY <1>3 DEF End
  <2> QED
    BY <1>1, <1>2, <1>3, <2>1
<1>4. CASE llvm # <<>>
  <2>1. Len(llvm) = 1
    <3> DEFINE n == Len(llvm)
    <3>1. n \in Nat /\ n # 0 /\ n <= 1
      BY <1>4
    <3> HIDE DEF n
    <3>2. n = 1
      BY <3>1
    <3> QED
      BY <3>2 DEF n
  <2>2. llvm[1] \in LLVMTypes /\ Last(llvm) = llvm[1]
    BY <2>1 DEF Last
  <2>3. End(llvm) = Last(llvm).size /\ Last(llvm).size \in Nat
    BY <2>1, <2>2, EndOfOne DEF LLVMTypes
  <2>4. CASE type.size > Last(llvm).size
    BY <1>1, <1>2, <2>3, <2>4
  <2>5. CASE ~(type.size > Last(llvm).size)
    <3>1. type.size <= End(llvm) /\ End(llvm) <= End(llvm)
      BY <1>1, <2>3, <2>5
    <3> QED
      BY <1>4, <2>1, <2>5, <3>1
  <2> QED
    BY <2>4, <2>5
<1> QED
  BY <1>3, <1>4

LEMMA LargerMeasured ==
  ASSUME NEW t, IsType(t), Measured(t), ~t.isStruct, NEW type \in LLVMTypes
  PROVE  LET u == Larger(t, type)
         IN /\ u.llvm \in Seq(LLVMTypes) /\ HasFields(u)
            /\ \A f \in Fields : f # "llvm" => u[f] = t[f]
            /\ Len(u.llvm) <= 1
            /\ End(t.llvm) <= End(u.llvm) /\ type.size <= End(u.llvm)
<1> DEFINE u == Larger(t, type)
           llvm == IF t.llvm = <<>> \/ type.size > Last(t.llvm).size THEN <<type>> ELSE t.llvm
<1>1. u = [t EXCEPT !.llvm = llvm]
  BY DEF Larger
<1>2. llvm \in Seq(LLVMTypes)
  BY DEF Measured
<1>3. /\ Len(llvm) <= 1 /\ End(t.llvm) <= End(llvm) /\ type.size <= End(llvm)
  BY LargerRoom DEF Measured
<1> HIDE DEF llvm
<1>4. HasFields(t)
  BY DEF IsType
<1>5. /\ u.llvm = llvm /\ HasFields(u)
      /\ \A f \in Fields : f # "llvm" => u[f] = t[f]
  BY <1>1, <1>4 DEF HasFields, Fields
<1> QED
  BY <1>2, <1>3, <1>5

LEMMA BeforeMemberMeasured ==
  ASSUME NEW t, IsType(t), Measured(t)
  PROVE  LET u == AddBitFieldBeforeMember(t)
         IN /\ Measured(u) /\ Keeps(t, u) /\ u.used = 0 /\ u.base = 0
            /\ t.spaces <= u.spaces /\ Fills(t, u)
            /\ t.used = 0 => u.index = t.index
<1> DEFINE ended == [t EXCEPT !.used = 0, !.base = 0]
           run == [PushSpace(ended, t.used) EXCEPT !.offset = @ + MakeAlign(t.used, 8) \div 8]
           last == [PushSpace(run, Padding(run) * 8) EXCEPT
                      !.offset = @ + Padding(run), !.spaces = @ + Padding(run)]
           other == [Larger(ended, GetBitFieldSpace(t.used)) EXCEPT !.index = @ + 1]
           u == AddBitFieldBeforeMember(t)
<1>1. HasFields(t)
  BY DEF IsType
<1>2. /\ HasFields(ended) /\ Keeps(t, ended) /\ ended.used = 0 /\ ended.base = 0
      /\ ended.llvm = t.llvm /\ ended.offset = t.offset /\ ended.index = t.index
      /\ ended.spaces = t.spaces /\ ended.align = t.align
  BY <1>1 DEF HasFields, Fields, Keeps
<1> HIDE DEF ended
<1>3. Measured(ended) /\ IsType(ended)
  <2>1. Measured(ended)
    BY <1>2 DEF Keeps, Measured
  <2> QED
    BY <1>2, <2>1 DEF IsType, Keeps
<1>4. CASE t.used = 0
  <2>1. u = ended
    BY <1>4 DEF AddBitFieldBeforeMember, ended
  <2>2. Fills(t, u)
    <3>1. ended.isStruct = t.isStruct /\ t.index <= ended.index /\ t.used <= ended.used
      BY <1>2, <1>4 DEF Keeps, Measured
    <3> QED
      BY <1>2, <1>3, <2>1, <3>1, FillsSame
  <2> QED
    BY <1>2, <1>3, <2>1, <2>2 DEF Measured
<1>5. CASE t.used # 0 /\ ~t.isStruct
  <2>1. GetBitFieldSpace(t.used) \in LLVMTypes
    BY SpaceFacts DEF Measured
  <2> DEFINE larger == Larger(ended, GetBitFieldSpace(t.used))
  <2>2. /\ larger.llvm \in Seq(LLVMTypes) /\ HasFields(larger)
        /\ \A f \in Fields : f # "llvm" => larger[f] = ended[f]
        /\ Len(larger.llvm) <= 1 /\ End(ended.llvm) <= End(larger.llvm)
    BY <1>2, <1>3, <1>5, <2>1, LargerMeasured DEF Keeps
  <2> HIDE DEF larger
  <2>3. /\ Keeps(ended, other) /\ other.llvm = larger.llvm /\ other.offset = ended.offset
        /\ other.index = ended.index + 1 /\ other.used = 0 /\ other.base = 0
        /\ other.spaces = ended.spaces /\ other.align = ended.align
    BY <1>2, <2>2 DEF HasFields, Fields, Keeps, larger
  <2>4. u = other
    BY <1>5 DEF AddBitFieldBeforeMember, ended
  <2> HIDE DEF u, other
  <2>5. Measured(other)
    BY <1>2, <1>3, <1>5, <2>2, <2>3 DEF Measured, Keeps
  <2>6. Fills(t, other)
    <3>1. /\ other.isStruct = t.isStruct /\ End(t.llvm) <= End(other.llvm)
          /\ t.index <= other.index
      BY <1>2, <2>2, <2>3 DEF Measured, Keeps
    <3> QED
      BY <1>5, <2>5, <3>1, FillsUnion
  <2> QED
    BY <1>2, <1>3, <1>5, <2>3, <2>4, <2>5, <2>6 DEF Measured, Keeps, u
<1>6. CASE t.used # 0 /\ t.isStruct
  <2>1. /\ t.used \in Nat /\ t.used \in Int /\ t.used > 0
        /\ GetBitFieldSpace(t.used).size = MakeAlign(t.used, 8) \div 8
    BY <1>6, SpaceFacts DEF Measured
  <2>2. /\ HasFields(run) /\ Keeps(ended, run) /\ run.used = 0 /\ run.base = 0
        /\ run.llvm = Append(ended.llvm, GetBitFieldSpace(t.used))
        /\ run.offset = ended.offset + MakeAlign(t.used, 8) \div 8
        /\ run.index = ended.index + 1 /\ run.spaces = ended.spaces
        /\ run.align = ended.align
    BY <1>2 DEF HasFields, Fields, Keeps, PushSpace
  <2> HIDE DEF run
  <2>3. Measured(run)
    <3>1. /\ ended.isStruct /\ ended.spaces \in Nat
          /\ run.isStruct = ended.isStruct /\ run.align \in Aligns
      BY <1>2, <1>3, <1>6, <2>2 DEF Keeps, Measured
    <3>2. run.offset = ended.offset + GetBitFieldSpace(t.used).size
      BY <2>1, <2>2
    <3> QED
      BY <1>3, <2>1, <2>2, <3>1, <3>2, PushMeasured
  <2>4. Fills(t, run)
    <3>1. /\ Keeps(t, run) /\ run.isStruct = t.isStruct
          /\ run.llvm = Append(t.llvm, GetBitFieldSpace(t.used))
          /\ run.offset = t.offset + GetBitFieldSpace(t.used).size
          /\ run.index = t.index + 1
      BY <1>2, <2>1, <2>2 DEF Keeps
    <3>2. /\ run.align \in Aligns /\ run.spaces \in Nat /\ run.used \in Nat
          /\ run.base \in {0, 8, 32}
      BY <2>3 DEF Measured
    <3>3. t.used <= 8 * GetBitFieldSpace(t.used).size
      BY <2>1 DEF MakeAlign
    <3> QED
      BY <1>6, <2>1, <3>1, <3>2, <3>3, PushMeasured
  <2>5. /\ u = IF Padding(run) = 0 THEN run ELSE last
    BY <1>6 DEF AddBitFieldBeforeMember, ended, run
  <2>6. Padding(run) \in Nat
    <3>1. MakeAlign(run.offset, run.align) \in Nat /\ run.offset <= MakeAlign(run.offset, run.align)
      BY <2>3, AlignFacts DEF Measured
    <3> QED
      BY <2>3, <3>1 DEF Padding, Measured
  <2>7. CASE Padding(run) = 0
    <3>1. u = run
      BY <2>5, <2>7
    <3> HIDE DEF u
    <3>2. ended.spaces <= run.spaces
      BY <1>3, <2>2 DEF Measured
    <3> QED
      BY <1>2, <1>6, <2>2, <2>3, <2>4, <3>1, <3>2 DEF Keeps, u
  <2>8. CASE Padding(run) # 0
    <3> DEFINE p == Padding(run)
    <3>1. p \in Nat /\ p > 0 /\ p * 8 \in Int /\ GetBitFieldSpace(p * 8).size = p
      BY <2>6, <2>8, BytesFill
    <3> HIDE DEF p
    <3>2. last = [PushSpace(run, p * 8) EXCEPT !.offset = @ + p, !.spaces = @ + p]
      BY DEF p
    <3>3. /\ Keeps(run, last) /\ last.used = 0 /\ last.base = 0
          /\ last.llvm = Append(run.llvm, GetBitFieldSpace(p * 8))
          /\ last.offset = run.offset + p
          /\ last.index = run.index + 1 /\ last.spaces = run.spaces + p
          /\ last.align = run.align
      <4> HIDE DEF last
      <4> QED
        BY <2>2, <3>2 DEF HasFields, Fields, Keeps, PushSpace
    <3>4. u = last
      BY <2>5, <2>8
    <3> HIDE DEF u, last
    <3>5. /\ run.isStruct /\ run.spaces \in Nat
          /\ last.isStruct = run.isStruct /\ last.align \in Aligns
      BY <1>2, <1>6, <2>2, <2>3, <3>3 DEF Keeps, Measured
    <3>6. last.spaces \in Nat /\ run.spaces <= last.spaces
      BY <3>1, <3>3, <3>5
    <3>7. last.offset = run.offset + GetBitFieldSpace(p * 8).size
      BY <3>1, <3>3
    <3>8. run.used = 0 /\ run.used <= 8 * GetBitFieldSpace(p * 8).size
      BY <2>2, <3>1
    <3>9. Measured(last) /\ Fills(run, last)
      BY <2>3, <3>1, <3>3, <3>5, <3>6, <3>7, <3>8, PushMeasured, SMTT(30)
    <3>10. Fills(t, last)
      BY <2>4, <3>9, FillsTwice
    <3> QED
      BY <1>2, <1>6, <2>2, <3>3, <3>4, <3>6, <3>9, <3>10 DEF Keeps, u
  <2> QED
    BY <2>7, <2>8
<1> QED
  BY <1>4, <1>5, <1>6

LEMMA MaxAlign ==
  ASSUME NEW a \in Aligns, NEW b \in Aligns
  PROVE  MaxOf(a, b) \in Aligns
BY DEF MaxOf

LEMMA ReadyMeasured ==
  ASSUME NEW t, IsType(t), Measured(t), NEW type \in LLVMTypes
  PROVE  LET u == Ready(t, type)
         IN /\ Measured(u) /\ Keeps(t, u) /\ u.used = 0 /\ u.base = 0
            /\ t.spaces <= u.spaces /\ Fills(t, u)
            /\ t.used = 0 => u.index = t.index
<1> DEFINE align == MaxOf(t.align, type.align)
           raised == [t EXCEPT !.align = align]
           u == AddBitFieldBeforeMember(raised)
<1>1. align \in Aligns
  BY MaxAlign DEF Measured, LLVMTypes
<1> HIDE DEF align
<1>2. /\ HasFields(raised) /\ Keeps(t, raised) /\ raised.llvm = t.llvm
      /\ raised.offset = t.offset /\ raised.index = t.index /\ raised.align = align
      /\ raised.spaces = t.spaces /\ raised.used = t.used /\ raised.base = t.base
  BY DEF IsType, HasFields, Fields, Keeps
<1>3. Ready(t, type) = u
  BY DEF Ready, align
<1> HIDE DEF raised
<1>4. IsType(raised) /\ Measured(raised)
  BY <1>1, <1>2 DEF IsType, Measured, Keeps
<1>5. /\ Measured(u) /\ Keeps(raised, u) /\ u.used = 0 /\ u.base = 0
      /\ raised.spaces <= u.spaces /\ Fills(raised, u)
      /\ raised.used = 0 => u.index = raised.index
  BY <1>4, BeforeMemberMeasured
<1> HIDE DEF u
<1>6. Fills(t, raised)
  <2>1. raised.isStruct = t.isStruct /\ t.index <= raised.index /\ t.used <= raised.used
    BY <1>2 DEF Keeps, Measured
  <2> QED
    BY <1>2, <1>4, <2>1, FillsSame
<1>7. Fills(t, u)
  BY <1>5, <1>6, FillsTwice
<1> QED
  BY <1>2, <1>3, <1>5, <1>7 DEF Keeps

LEMMA AddSpaceMeasured ==
  ASSUME NEW t, IsType(t), Measured(t), t.isStruct
  PROVE  LET u == AddSpace(t)
         IN /\ Measured(u) /\ Keeps(t, u) /\ u.used = t.used /\ u.base = t.base
            /\ u.spaces = t.spaces
            /\ t.used = 0 => Fills(t, u)
<1> DEFINE p == Padding(t)
           u == AddSpace(t)
           moved == [PushSpace(t, p * 8) EXCEPT !.offset = @ + p]
<1>1. p \in Nat
  <2>1. MakeAlign(t.offset, t.align) \in Nat /\ t.offset <= MakeAlign(t.offset, t.align)
    BY AlignFacts DEF Measured
  <2> QED
    BY <2>1 DEF Padding, Measured
<1>2. u = IF p = 0 THEN t ELSE moved
  BY DEF AddSpace
<1> HIDE DEF p, u
<1>3. CASE p = 0
  BY <1>2, <1>3, FillsItself DEF Keeps, u
<1>4. CASE p # 0
  <2>1. p * 8 \in Int /\ GetBitFieldSpace(p * 8).size = p
    BY <1>1, <1>4, BytesFill
  <2>2. /\ Keeps(t, moved) /\ moved.used = t.used /\ moved.base = t.base
        /\ moved.llvm = Append(t.llvm, GetBitFieldSpace(p * 8))
        /\ moved.offset = t.offset + p /\ moved.align = t.align
        /\ moved.index = t.index + 1 /\ moved.spaces = t.spaces
    BY DEF IsType, HasFields, Fields, Keeps, PushSpace
  <2> HIDE DEF moved
  <2>3. /\ moved.isStruct = t.isStruct /\ moved.align \in Aligns
        /\ moved.spaces \in Nat /\ moved.used \in Nat /\ moved.base \in {0, 8, 32}
        /\ moved.offset = t.offset + GetBitFieldSpace(p * 8).size
    BY <2>1, <2>2 DEF Keeps, Measured
  <2>4. Measured(moved)
    BY <2>1, <2>2, <2>3, PushMeasured
  <2>5. ASSUME t.used = 0 PROVE Fills(t, moved)
    <3>1. t.used <= 8 * GetBitFieldSpace(p * 8).size
      BY <1>1, <2>1, <2>5
    <3> QED
      BY <2>1, <2>2, <2>3, <3>1, PushMeasured
  <2> QED
    BY <1>2, <1>4, <2>2, <2>4, <2>5 DEF u
<1> QED
  BY <1>3, <1>4 DEF u

LEMMA PackedMeasured ==
  ASSUME NEW t, IsType(t), Measured(t), t.base # 0
  PROVE  LET u == BitFieldPacked(t)
         IN /\ Measured(u) /\ Keeps(t, u) /\ u.used = 0 /\ u.base = 0
            /\ u.spaces = t.spaces
            /\ t.used <= t.base => Fills(t, u)
            /\ ~t.isStruct => u.index = t.index
<1> DEFINE ended == [t EXCEPT !.used = 0, !.base = 0]
           pushed == [PushSpace(ended, t.base) EXCEPT !.offset = @ + t.base \div 8]
           u == BitFieldPacked(t)
<1>1. u = IF t.isStruct THEN pushed ELSE ended
  BY DEF BitFieldPacked
<1> HIDE DEF u
<1>2. CASE t.isStruct
  <2>1. /\ t.base \in Int /\ GetBitFieldSpace(t.base).size = t.base \div 8
        /\ t.base = 8 * (t.base \div 8)
    <3>1. t.base = 8 \/ t.base = 32
      BY DEF Measured
    <3>2. /\ t.base \in Int /\ t.base > 0 /\ MakeAlign(t.base, 8) = t.base
          /\ t.base = 8 * (t.base \div 8)
      BY <3>1 DEF MakeAlign
    <3> QED
      BY <3>2, SpaceFacts
  <2>2. /\ Keeps(t, pushed) /\ pushed.used = 0 /\ pushed.base = 0
        /\ pushed.llvm = Append(t.llvm, GetBitFieldSpace(t.base))
        /\ pushed.offset = t.offset + t.base \div 8 /\ pushed.align = t.align
        /\ pushed.index = t.index + 1 /\ pushed.spaces = t.spaces
    BY DEF IsType, HasFields, Fields, Keeps, PushSpace
  <2> HIDE DEF pushed
  <2>3. /\ pushed.isStruct = t.isStruct /\ pushed.align \in Aligns
        /\ pushed.spaces \in Nat /\ pushed.used \in Nat /\ pushed.base \in {0, 8, 32}
        /\ pushed.offset = t.offset + GetBitFieldSpace(t.base).size
    BY <2>1, <2>2 DEF Keeps, Measured
  <2>4. Measured(pushed)
    BY <1>2, <2>1, <2>2, <2>3, PushMeasured
  <2>5. ASSUME t.used <= t.base PROVE Fills(t, pushed)
    <3>1. t.used <= 8 * GetBitFieldSpace(t.base).size
      BY <2>1, <2>5
    <3> QED
      BY <1>2, <2>1, <2>2, <2>3, <3>1, PushMeasured
  <2> QED
    BY <1>1, <1>2, <2>2, <2>4, <2>5 DEF u
<1>3. CASE ~t.isStruct
  <2>1. /\ Keeps(t, ended) /\ ended.used = 0 /\ ended.base = 0 /\ ended.llvm = t.llvm
        /\ ended.offset = t.offset /\ ended.align = t.align
        /\ ended.index = t.index /\ ended.spaces = t.spaces
    BY DEF IsType, HasFields, Fields, Keeps
  <2> HIDE DEF ended
  <2>2. Measured(ended)
    BY <2>1 DEF Keeps, Measured
  <2>3. Fills(t, ended)
    <3>1. ended.isStruct = t.isStruct /\ t.index <= ended.index
      BY <2>1 DEF Keeps, Measured
    <3> QED
      BY <1>3, <2>1, <2>2, <3>1, FillsSame
  <2> QED
    BY <1>1, <1>3, <2>1, <2>2, <2>3 DEF u
<1> QED
  BY <1>2, <1>3

LEMMA SpaceBetweenMeasured ==
  ASSUME NEW t, IsType(t), Measured(t), t.isStruct, t.used # 0
  PROVE  LET u == AddSpaceBetweenBitField(t)
         IN /\ Measured(u) /\ Keeps(t, u) /\ u.used = 0 /\ u.base = 0
            /\ u.spaces = t.spaces /\ Fills(t, u)
<1> DEFINE rest == t.base - MakeAlign(t.used, 8)
           run == [PushSpace(t, t.used) EXCEPT !.offset = @ + MakeAlign(t.used, 8) \div 8]
           last == [PushSpace(run, rest) EXCEPT
                      !.offset = @ + GetBitFieldSpace(rest).size, !.used = 0, !.base = 0]
<1>1. AddSpaceBetweenBitField(t) = last
  BY DEF AddSpaceBetweenBitField
<1>2. /\ t.used \in Nat /\ t.used \in Int /\ t.used > 0
      /\ GetBitFieldSpace(t.used).size = MakeAlign(t.used, 8) \div 8
  BY SpaceFacts DEF Measured
<1>3. rest \in Int
  <2>1. 8 \in Aligns /\ MakeAlign(t.used, 8) \in Nat
    BY <1>2, AlignFacts DEF Aligns
  <2> QED
    BY <2>1 DEF Measured
<1> HIDE DEF rest
<1>4. /\ HasFields(run) /\ Keeps(t, run) /\ run.used = t.used /\ run.base = t.base
      /\ run.llvm = Append(t.llvm, GetBitFieldSpace(t.used))
      /\ run.offset = t.offset + MakeAlign(t.used, 8) \div 8 /\ run.align = t.align
      /\ run.index = t.index + 1 /\ run.spaces = t.spaces
  BY DEF IsType, HasFields, Fields, Keeps, PushSpace
<1>5. Measured(run)
  <2> HIDE DEF run
  <2>1. /\ run.isStruct = t.isStruct /\ run.align \in Aligns
        /\ run.spaces \in Nat /\ run.used \in Nat /\ run.base \in {0, 8, 32}
        /\ run.offset = t.offset + GetBitFieldSpace(t.used).size
    BY <1>2, <1>4 DEF Keeps, Measured
  <2> QED
    BY <1>2, <1>4, <2>1, PushMeasured
<1> HIDE DEF run
<1> DEFINE e == GetBitFieldSpace(rest)
<1>6. /\ Keeps(run, last) /\ last.used = 0 /\ last.base = 0
      /\ last.llvm = Append(run.llvm, e)
      /\ last.offset = run.offset + e.size /\ last.align = run.align
      /\ last.index = run.index + 1 /\ last.spaces = run.spaces
  <2> HIDE DEF e
  <2>1. last = [PushSpace(run, rest) EXCEPT !.offset = @ + e.size, !.used = 0, !.base = 0]
    BY DEF e
  <2>2. PushSpace(run, rest) = [run EXCEPT !.llvm = Append(@, e), !.index = @ + 1]
    BY DEF PushSpace, e
  <2> HIDE DEF last
  <2> QED
    BY <1>4, <2>1, <2>2 DEF HasFields, Fields, Keeps
<1> HIDE DEF last
<1>7. Measured(last)
  <2>1. /\ last.isStruct = run.isStruct /\ run.isStruct /\ last.align \in Aligns
        /\ last.spaces \in Nat /\ last.used \in Nat /\ last.base \in {0, 8, 32}
    BY <1>4, <1>5, <1>6 DEF Keeps, Measured
  <2> QED
    BY <1>3, <1>5, <1>6, <2>1, PushMeasured
\* The bits of the run are in its element now.
<1> DEFINE empty == [run EXCEPT !.used = 0]
<1>8. /\ Keeps(run, empty) /\ empty.used = 0 /\ empty.base = run.base
      /\ empty.llvm = run.llvm /\ empty.offset = run.offset /\ empty.align = run.align
      /\ empty.index = run.index /\ empty.spaces = run.spaces
  BY <1>4 DEF HasFields, Fields, Keeps
<1> HIDE DEF empty
<1>9. Measured(empty) /\ Fills(t, empty)
  <2>1. /\ Keeps(t, empty) /\ empty.isStruct = t.isStruct /\ empty.align \in Aligns
        /\ empty.spaces \in Nat /\ empty.used \in Nat /\ empty.base \in {0, 8, 32}
        /\ empty.llvm = Append(t.llvm, GetBitFieldSpace(t.used))
        /\ empty.offset = t.offset + GetBitFieldSpace(t.used).size
        /\ empty.index = t.index + 1
    BY <1>2, <1>4, <1>5, <1>8 DEF Keeps, Measured
  <2>2. t.used <= 8 * GetBitFieldSpace(t.used).size
    BY <1>2 DEF MakeAlign
  <2> QED
    BY <1>2, <2>1, <2>2, PushMeasured
<1>10. Fills(empty, last)
  <2>1. /\ Keeps(empty, last) /\ last.isStruct = empty.isStruct /\ empty.isStruct
        /\ last.align \in Aligns
        /\ last.spaces \in Nat /\ last.used \in Nat /\ last.base \in {0, 8, 32}
        /\ last.llvm = Append(empty.llvm, GetBitFieldSpace(rest))
        /\ last.offset = empty.offset + GetBitFieldSpace(rest).size
        /\ last.index = empty.index + 1
    BY <1>4, <1>6, <1>7, <1>8 DEF Keeps, Measured, e
  <2>2. empty.used <= 8 * GetBitFieldSpace(rest).size
    BY <1>3, <1>8, SpaceFacts
  <2> QED
    BY <1>3, <1>9, <2>1, <2>2, PushMeasured
<1>11. Fills(t, last)
  BY <1>9, <1>10, FillsTwice
<1> QED
  BY <1>1, <1>4, <1>6, <1>7, <1>11 DEF Keeps

\* An element of any alignment, where no run is open.
LEMMA FillsElement ==
  ASSUME NEW t, Measured(t), t.used = 0, t.isStruct, NEW u, Measured(u),
         u.isStruct = t.isStruct, NEW type, u.llvm = Append(t.llvm, type),
         t.index <= u.index, End(t.llvm) <= End(u.llvm)
  PROVE  Fills(t, u)
<1>1. /\ t.llvm \in Seq(LLVMTypes) /\ u.llvm \in Seq(LLVMTypes)
      /\ t.used \in Nat /\ u.used \in Nat /\ t.index \in Nat /\ u.index \in Nat
  BY DEF Measured
<1>2. /\ Len(t.llvm) \in Nat /\ Len(u.llvm) = Len(t.llvm) + 1
      /\ \A i \in 1..Len(t.llvm) : u.llvm[i] = t.llvm[i]
  BY <1>1
<1>3. Room(t) <= Room(u)
  <2>1. End(t.llvm) \in Nat /\ End(u.llvm) \in Nat
    BY <1>1, EndIsNat
  <2> QED
    BY <1>1, <2>1 DEF Room
<1> QED
  BY <1>1, <1>2, <1>3 DEF Fills

LEMMA ElementMeasured ==
  ASSUME NEW t, IsType(t), Measured(t), NEW type \in LLVMTypes
  PROVE  LET u == AddElement(t, type)
         IN /\ Measured(u) /\ Keeps(t, u) /\ u.used = t.used /\ u.base = t.base
            /\ u.spaces = t.spaces /\ u.index = t.index + 1
            /\ t.isStruct => ElementOffset(u.llvm)[t.index + 1]
                               = MakeAlign(t.offset, type.align)
            /\ t.used = 0 => Fills(t, u)
            /\ t.isStruct => /\ t.offset <= MakeAlign(t.offset, type.align)
                             /\ MakeAlign(t.offset, type.align) + type.size = End(u.llvm)
            /\ ~t.isStruct => type.size <= End(u.llvm)
<1> DEFINE added == AddLLVMType(t, type)
           offset == IF t.isStruct THEN MakeAlign(added.offset, type.align) + type.size
                     ELSE added.offset
           u == [added EXCEPT !.index = @ + 1, !.offset = offset]
<1>1. AddElement(t, type) = u
  BY DEF AddElement
<1>2. type.size \in Nat /\ type.align \in Aligns
  BY DEF LLVMTypes
<1>3. /\ HasFields(added) /\ \A f \in Fields : f # "llvm" => added[f] = t[f]
      /\ added.llvm \in Seq(LLVMTypes)
      /\ t.isStruct => added.llvm = Append(t.llvm, type)
      /\ ~t.isStruct => /\ Len(added.llvm) <= 1 /\ End(t.llvm) <= End(added.llvm)
                        /\ type.size <= End(added.llvm)
  <2>1. CASE t.isStruct
    <3> DEFINE s == Append(t.llvm, type)
    <3>1. added = [t EXCEPT !.llvm = s]
      BY <2>1 DEF AddLLVMType
    <3>2. s \in Seq(LLVMTypes)
      BY DEF Measured
    <3> HIDE DEF added, s
    <3>3. HasFields(added) /\ added.llvm = s /\ \A f \in Fields : f # "llvm" => added[f] = t[f]
      BY <3>1 DEF IsType, HasFields, Fields
    <3> QED
      BY <2>1, <3>2, <3>3 DEF s
  <2>2. CASE ~t.isStruct
    <3>1. \/ /\ added = [t EXCEPT !.llvm = <<type>>]
             /\ t.llvm # <<>> /\ Last(t.llvm).size = type.size
          \/ added = Larger(t, type)
      BY <2>2 DEF AddLLVMType
    <3> HIDE DEF added
    <3>2. CASE /\ added = [t EXCEPT !.llvm = <<type>>]
               /\ t.llvm # <<>> /\ Last(t.llvm).size = type.size
      <4>1. <<type>> \in Seq(LLVMTypes) /\ Len(<<type>>) = 1 /\ <<type>>[1] = type
        OBVIOUS
      <4> DEFINE s == <<type>>
      <4> HIDE DEF s
      <4>2. added = [t EXCEPT !.llvm = s] /\ s \in Seq(LLVMTypes)
        BY <3>2, <4>1 DEF s
      <4>3. End(s) = type.size
        BY <4>1, EndOfOne DEF s
      <4>4. End(t.llvm) = type.size
        <5> DEFINE n == Len(t.llvm)
        <5>1. t.llvm \in Seq(LLVMTypes) /\ n \in Nat /\ n # 0 /\ n <= 1
          BY <2>2, <3>2 DEF Measured
        <5> HIDE DEF n
        <5>2. n = 1
          BY <5>1
        <5> QED
          BY <3>2, <5>1, <5>2, EndOfOne DEF n, Last
      <4>5. Len(s) <= 1 /\ End(t.llvm) <= End(s) /\ type.size <= End(s)
        BY <1>2, <4>1, <4>3, <4>4 DEF s
      <4> QED
        BY <2>2, <4>2, <4>5 DEF IsType, HasFields, Fields
    <3>3. CASE added = Larger(t, type)
      BY <2>2, <3>3, LargerMeasured
    <3> QED
      BY <3>1, <3>2, <3>3
  <2> QED
    BY <2>1, <2>2
<1> HIDE DEF added
<1>4. /\ Keeps(t, u) /\ u.used = t.used /\ u.base = t.base /\ u.spaces = t.spaces
      /\ u.index = t.index + 1 /\ u.llvm = added.llvm /\ u.align = t.align
      /\ u.offset = IF t.isStruct THEN MakeAlign(t.offset, type.align) + type.size
                    ELSE t.offset
  BY <1>3 DEF HasFields, Fields, Keeps
<1> HIDE DEF u
<1>5. CASE t.isStruct
  <2>1. t.llvm \in Seq(LLVMTypes) /\ u.llvm = Append(t.llvm, type)
    BY <1>3, <1>4, <1>5 DEF Measured
  <2>2. /\ ElementOffset(u.llvm)[Len(t.llvm) + 1] = MakeAlign(End(t.llvm), type.align)
        /\ End(u.llvm) = MakeAlign(End(t.llvm), type.align) + type.size
    BY <2>1, AppendOffset
  <2>3. t.offset = End(t.llvm) /\ t.index = Len(t.llvm)
    BY <1>5 DEF Measured, IsType
  <2>4. /\ MakeAlign(t.offset, type.align) \in Nat
        /\ t.offset <= MakeAlign(t.offset, type.align) /\ t.offset \in Nat
    BY <1>2, AlignFacts DEF Measured
  <2>5. Measured(u)
    BY <1>2, <1>3, <1>4, <1>5, <2>2, <2>3, <2>4 DEF Measured, Keeps
  <2>6. ASSUME t.used = 0 PROVE Fills(t, u)
    <3>1. /\ u.isStruct = t.isStruct /\ t.index <= u.index
          /\ End(t.llvm) <= End(u.llvm)
      BY <1>2, <1>4, <2>2, <2>3, <2>4 DEF Keeps, Measured
    <3> QED
      BY <1>5, <2>1, <2>5, <2>6, <3>1, FillsElement
  <2> QED
    BY <1>1, <1>4, <1>5, <2>2, <2>3, <2>4, <2>5, <2>6
<1>6. CASE ~t.isStruct
  <2>1. Measured(u)
    BY <1>3, <1>4, <1>6 DEF Measured, Keeps
  <2>2. Fills(t, u)
    <3>1. u.isStruct = t.isStruct /\ End(t.llvm) <= End(u.llvm) /\ t.index <= u.index
      BY <1>3, <1>4, <1>6 DEF Measured, Keeps
    <3> QED
      BY <1>6, <2>1, <3>1, FillsUnion
  <2> QED
    BY <1>1, <1>3, <1>4, <1>6, <2>1, <2>2
<1> QED
  BY <1>5, <1>6

-----------------------------------------------------------------------------
\* The members a type has.

\* The members and the scope are objects there are; a run has a member.
Refers(t, n) ==
  /\ t.members \in Seq(1..n)
  /\ \A x \in DOMAIN t.scope : t.scope[x] \in 1..n
  /\ t.used # 0 => t.members # <<>>

\* A run is begun over a storage unit that is not full.
InRun(t) == t.used = 0 \/ t.used < t.base

LEMMA NamedFacts ==
  ASSUME NEW S, NEW members \in Seq(S), NEW os
  PROVE  /\ Named(members, os) \in Seq(S)
         /\ (\A k \in 1..Len(members) : os[members[k]].bits = 0)
              => Named(members, os) = members
<1> DEFINE n == Len(members)
           Stays(o) == os[o].name # NoName \/ os[o].bits = 0
           Next(i, s) == IF Stays(members[i]) THEN Append(s, members[i]) ELSE s
           step == [i \in 1..n |-> [s \in Seq(S) |-> Next(i, s)]]
           Kept(g, i) == IF i = 0 THEN <<>> ELSE Next(i, g[i - 1])
           kept == CHOOSE g : g = [i \in 0..n |-> Kept(g, i)]
<1>1. n \in Nat /\ \A i \in 1..n : members[i] \in S
  OBVIOUS
<1>2. Named(members, os) = kept[n]
  BY DEF Named
<1> HIDE DEF n
<1>3. step \in [1..n -> [Seq(S) -> Seq(S)]]
  <2> HIDE DEF Stays
  <2> QED
    BY <1>1
<1>4. PICK f : StepByStep(f, n, Seq(S), <<>>, step)
  <2> HIDE DEF step
  <2>1. <<>> \in Seq(S)
    OBVIOUS
  <2> QED
    BY <1>1, <1>3, <2>1, Recursion
<1> HIDE DEF Stays
<1>5. f = [i \in 0..n |-> Kept(f, i)]
  <2>1. f \in [0..n -> Seq(S)] /\ f[0] = <<>>
    BY <1>4 DEF StepByStep
  <2>2. ASSUME NEW i \in 1..n PROVE f[i] = Next(i, f[i - 1])
    <3>1. i - 1 \in 0..n
      BY <1>1
    <3>2. f[i - 1] \in Seq(S) /\ f[i] = step[i][f[i - 1]]
      BY <1>4, <2>1, <3>1 DEF StepByStep
    <3> HIDE DEF Next
    <3> QED
      BY <3>2
  <2>3. ASSUME NEW i \in 0..n PROVE f[i] = Kept(f, i)
    <3>1. CASE i = 0
      BY <2>1, <3>1
    <3>2. CASE i # 0
      BY <1>1, <2>2, <3>2
    <3> QED
      BY <3>1, <3>2
  <2> HIDE DEF Kept
  <2> QED
    BY <2>1, <2>3
<1> HIDE DEF Kept
<1>6. kept = [i \in 0..n |-> Kept(kept, i)]
  BY <1>5
<1> HIDE DEF kept, Next
<1>7. \A i \in 0..n : kept[i] = IF i = 0 THEN <<>> ELSE Next(i, kept[i - 1])
  BY <1>6 DEF Kept
<1> DEFINE All == \A k \in 1..n : os[members[k]].bits = 0
           Upto(m) == /\ kept[m] \in Seq(S)
                      /\ All => kept[m] = SubSeq(members, 1, m)
           Right == {m \in Nat : m <= n => Upto(m)}
<1>8. 0 \in Right
  <2>1. kept[0] = <<>> /\ SubSeq(members, 1, 0) = <<>> /\ <<>> \in Seq(S)
    BY <1>1, <1>7
  <2> QED
    BY <2>1
<1>9. ASSUME NEW m \in Nat, m \in Right PROVE m + 1 \in Right
  <2>1. CASE m + 1 <= n
    <3>1. Upto(m) /\ kept[m + 1] = Next(m + 1, kept[m]) /\ m + 1 \in 1..n
      BY <1>1, <1>7, <1>9, <2>1
    <3>2. kept[m + 1] \in Seq(S)
      BY <1>1, <3>1 DEF Next
    <3>3. ASSUME All PROVE kept[m + 1] = SubSeq(members, 1, m + 1)
      <4>1. Stays(members[m + 1])
        BY <3>1, <3>3 DEF Stays
      <4>2. kept[m + 1] = Append(SubSeq(members, 1, m), members[m + 1])
        BY <3>1, <3>3, <4>1 DEF Next
      <4>3. SubSeq(members, 1, m + 1) = Append(SubSeq(members, 1, m), members[m + 1])
        BY <1>1, <2>1 DEF n
      <4> QED
        BY <4>2, <4>3
    <3> QED
      BY <2>1, <3>2, <3>3
  <2>2. CASE ~(m + 1 <= n)
    BY <2>2
  <2> QED
    BY <2>1, <2>2
<1>10. Nat \subseteq Right
  <2> HIDE DEF Right
  <2> QED
    BY <1>8, <1>9, NatSetInduction
<1>11. Upto(n)
  <2>1. n \in Nat /\ n <= n
    BY <1>1
  <2> QED
    BY <1>10, <2>1
<1>12. SubSeq(members, 1, n) = members
  BY DEF n
<1> QED
  BY <1>2, <1>11, <1>12 DEF n

LEMMA FinishMeasured ==
  ASSUME NEW t, IsType(t), Measured(t), NEW os, NEW n, Refers(t, n),
         \A o \in 1..n : os[o].type \in LLVMTypes
  PROVE  LET u == Finish(t, os)
         IN /\ Measured(u) /\ u.used = 0 /\ u.isStruct = t.isStruct
            /\ u.scope = t.scope /\ u.members = Named(t.members, os)
            /\ t.spaces <= u.spaces /\ Fills(t, u) /\ u.complete
            /\ t.used = 0 => /\ u.index = t.index /\ u.llvm = t.llvm
                             /\ u.spaces = t.spaces
<1> DEFINE align == MaxOf(t.align, os[Last(t.members)].type.align)
           raised == [t EXCEPT !.align = align]
           full == IF t.used = 0 THEN t ELSE AddBitFieldBeforeMember(raised)
           u == Finish(t, os)
<1>1. /\ Measured(full) /\ HasFields(full) /\ Keeps(t, full) /\ full.used = 0
      /\ t.spaces <= full.spaces /\ Fills(t, full)
      /\ t.used = 0 => full = t
  <2>1. CASE t.used = 0
    BY <2>1, FillsItself DEF Measured, Keeps, IsType
  <2>2. CASE t.used # 0
    <3>1. align \in Aligns
      <4>1. Last(t.members) \in 1..n
        <5>1. t.members \in Seq(1..n) /\ t.members # <<>>
          BY <2>2 DEF Refers
        <5>2. Len(t.members) \in 1..Len(t.members)
          BY <5>1
        <5> QED
          BY <5>1, <5>2, ElementOfSeq DEF Last
      <4>2. os[Last(t.members)].type.align \in Aligns
        BY <4>1 DEF LLVMTypes
      <4> QED
        BY <4>2, MaxAlign DEF Measured
    <3> HIDE DEF align
    <3>2. /\ HasFields(raised) /\ Keeps(t, raised) /\ raised.llvm = t.llvm
          /\ raised.offset = t.offset /\ raised.index = t.index /\ raised.align = align
          /\ raised.spaces = t.spaces /\ raised.used = t.used /\ raised.base = t.base
      BY DEF IsType, HasFields, Fields, Keeps
    <3> HIDE DEF raised
    <3>3. IsType(raised) /\ Measured(raised)
      BY <3>1, <3>2 DEF IsType, Measured, Keeps
    <3> DEFINE v == AddBitFieldBeforeMember(raised)
    <3>4. /\ Measured(v) /\ Keeps(raised, v) /\ v.used = 0
          /\ raised.spaces <= v.spaces /\ HasFields(v) /\ Fills(raised, v)
      BY <3>3, BeforeMemberMeasured, AddBitFieldBeforeMemberGrows DEF Grows, IsType
    <3> HIDE DEF v
    <3>5. full = v
      BY <2>2 DEF v
    <3> HIDE DEF full
    <3>6. Fills(t, v)
      <4>1. raised.isStruct = t.isStruct /\ t.index <= raised.index /\ t.used <= raised.used
        BY <3>2 DEF Keeps, Measured
      <4>2. Fills(t, raised)
        BY <3>2, <3>3, <4>1, FillsSame
      <4> QED
        BY <3>4, <4>2, FillsTwice
    <3> QED
      BY <2>2, <3>2, <3>4, <3>5, <3>6 DEF Keeps
  <2> QED
    BY <2>1, <2>2
<1> DEFINE named == Named(t.members, os)
<1>2. u = [full EXCEPT !.complete = TRUE, !.members = named]
  <2>1. u = [full EXCEPT !.complete = TRUE, !.members = Named(full.members, os)]
    BY DEF Finish
  <2> HIDE DEF full, u
  <2> QED
    BY <1>1, <2>1 DEF Keeps
<1> HIDE DEF full, named
<1>3. /\ u.isStruct = full.isStruct /\ u.llvm = full.llvm /\ u.offset = full.offset
      /\ u.align = full.align /\ u.spaces = full.spaces /\ u.index = full.index
      /\ u.used = full.used /\ u.base = full.base /\ u.scope = full.scope
      /\ u.members = named /\ u.complete
  <2> HIDE DEF u
  <2> QED
    BY <1>1, <1>2 DEF HasFields, Fields
<1> HIDE DEF u
<1>4. Measured(u)
  BY <1>1, <1>3 DEF Measured
<1>5. Fills(t, u)
  <2>1. full.index <= u.index /\ full.used <= u.used
    BY <1>1, <1>3 DEF Measured
  <2>2. Fills(full, u)
    BY <1>1, <1>3, <1>4, <2>1, FillsSame
  <2> QED
    BY <1>1, <2>2, FillsTwice
<1> QED
  BY <1>1, <1>3, <1>4, <1>5 DEF Keeps, u, named

\* An object more to be found by its name, and nothing lost but a name of it.
Gains(t, u, o) ==
  /\ u.complete = t.complete
  /\ \A x \in DOMAIN u.scope :
       u.scope[x] = o \/ (x \in DOMAIN t.scope /\ u.scope[x] = t.scope[x])

\* size bits at the bit at, of what was not taken before.
Takes(t, u, at, size) ==
  /\ at \in Nat /\ size \in Nat /\ at + size <= Room(u)
  /\ t.isStruct => Room(t) <= at

LEMMA InsertFacts ==
  ASSUME NEW t, IsType(t), Measured(t), NEW name, NEW n, Refers(t, n), n = Len(objs), n \in Nat
  PROVE  LET u == Insert(t, name)
         IN /\ Measured(u) /\ IsType(u) /\ Refers(u, n + 1) /\ u.members # <<>>
            /\ u.isStruct = t.isStruct /\ u.members = Append(t.members, n + 1)
            /\ u.used = t.used /\ u.base = t.base /\ u.spaces = t.spaces
            /\ u.index = t.index /\ u.offset = t.offset
            /\ u.llvm = t.llvm /\ Gains(t, u, n + 1)
<1> DEFINE u == Insert(t, name)
           members == Append(t.members, n + 1)
           scope == [x \in DOMAIN t.scope \cup {name} |->
                       IF x = name THEN n + 1 ELSE t.scope[x]]
<1>1. u = [t EXCEPT !.members = members, !.scope = scope]
  BY DEF Insert, Fresh
<1>2. members \in Seq(1..(n + 1)) /\ members # <<>>
  <2>1. t.members \in Seq(1..n) /\ 1..n \subseteq 1..(n + 1) /\ n + 1 \in 1..(n + 1)
    BY DEF Refers
  <2>2. t.members \in Seq(1..(n + 1))
    BY <2>1, SeqMonotonic
  <2> QED
    BY <2>1, <2>2
<1>3. \A x \in DOMAIN scope : scope[x] \in 1..(n + 1)
  BY DEF Refers
<1> HIDE DEF members, scope, u
<1>4. /\ HasFields(u) /\ u.isStruct = t.isStruct /\ u.llvm = t.llvm /\ u.offset = t.offset
      /\ u.align = t.align /\ u.spaces = t.spaces /\ u.index = t.index
      /\ u.used = t.used /\ u.base = t.base /\ u.scope = scope /\ u.members = members
      /\ u.complete = t.complete
  BY <1>1 DEF IsType, HasFields, Fields
<1>5. Measured(u) /\ IsType(u)
  BY <1>4 DEF Measured, IsType
<1>6. Refers(u, n + 1)
  BY <1>2, <1>3, <1>4 DEF Refers
<1>7. Gains(t, u, n + 1)
  BY <1>4 DEF Gains, scope
<1> QED
  BY <1>2, <1>4, <1>5, <1>6, <1>7 DEF u, members

-----------------------------------------------------------------------------
\* The way to an object.

\* Types that went on growing.
Later(ts, us) ==
  /\ DOMAIN ts \subseteq DOMAIN us
  /\ \A T \in DOMAIN ts :
       /\ IsType(ts[T]) /\ Grows(ts[T], us[T])
       /\ Measured(ts[T]) /\ Measured(us[T]) /\ ts[T].spaces <= us[T].spaces

Unpadded(ts) == \A T \in DOMAIN ts : ts[T].spaces = 0

\* The element a step of a path leads to is there, and this is how far it leads.
Reached(e, ts) ==
  /\ e.type \in DOMAIN ts
  /\ ts[e.type].isStruct => e.index + 1 \in 1..Len(ts[e.type].llvm)

Leap(e, ts) ==
  IF ts[e.type].isStruct THEN ElementOffset(ts[e.type].llvm)[e.index + 1] ELSE 0

\* f is what is left of the way to the object at each step of its path.
Leads(f, o, ts) ==
  /\ f \in [1..(Len(o.path) + 1) -> Int]
  /\ f[Len(o.path) + 1] = 0 /\ f[1] = o.offset
  /\ \A k \in 1..Len(o.path) : f[k] = Leap(o.path[k], ts) + f[k + 1]

ObjectFits(o, ts) ==
  /\ o.type \in LLVMTypes /\ o.offset \in Int /\ o.path \in Seq(Entries)
  /\ o.bits = 0 =>
       /\ \A k \in 1..Len(o.path) : Reached(o.path[k], ts)
       /\ Unpadded(ts) => \E f : Leads(f, o, ts)

LEMMA ReachedStays ==
  ASSUME NEW e, NEW ts, NEW us, Reached(e, ts), Later(ts, us)
  PROVE  Reached(e, us) /\ Leap(e, us) = Leap(e, ts)
<1> DEFINE t == ts[e.type]
           u == us[e.type]
<1>1. /\ e.type \in DOMAIN us /\ u.isStruct = t.isStruct
      /\ t.llvm \in Seq(LLVMTypes) /\ u.llvm \in Seq(LLVMTypes)
      /\ t.isStruct => /\ Len(t.llvm) <= Len(u.llvm)
                       /\ \A i \in DOMAIN t.llvm : u.llvm[i] = t.llvm[i]
  BY DEF Reached, Later, Grows, Measured
<1> HIDE DEF t, u
<1>2. CASE t.isStruct
  <2>1. /\ Len(t.llvm) \in Nat /\ Len(u.llvm) \in Nat /\ Len(t.llvm) <= Len(u.llvm)
        /\ \A i \in 1..Len(t.llvm) : u.llvm[i] = t.llvm[i]
        /\ e.index + 1 \in 1..Len(t.llvm)
    BY <1>1, <1>2 DEF Reached, t
  <2>2. ElementOffset(u.llvm)[e.index + 1] = ElementOffset(t.llvm)[e.index + 1]
    BY <1>1, <2>1, OffsetsStay
  <2>3. e.index + 1 \in 1..Len(u.llvm)
    BY <2>1
  <2> QED
    BY <1>1, <1>2, <2>2, <2>3 DEF Reached, Leap, t, u
<1>3. CASE ~t.isStruct
  BY <1>1, <1>3 DEF Reached, Leap, t, u
<1> QED
  BY <1>2, <1>3

LEMMA UnpaddedBefore ==
  ASSUME NEW ts, NEW us, Later(ts, us), Unpadded(us)
  PROVE  Unpadded(ts)
<1> SUFFICES ASSUME NEW T \in DOMAIN ts PROVE ts[T].spaces = 0
  BY DEF Unpadded
<1>1. us[T].spaces = 0 /\ ts[T].spaces <= us[T].spaces /\ ts[T].spaces \in Nat
  BY DEF Later, Unpadded, Measured
<1> QED
  BY <1>1

LEMMA FitsStays ==
  ASSUME NEW o, NEW ts, NEW us, ObjectFits(o, ts), Later(ts, us)
  PROVE  ObjectFits(o, us)
<1> SUFFICES ASSUME o.bits = 0
             PROVE  /\ \A k \in 1..Len(o.path) : Reached(o.path[k], us)
                    /\ Unpadded(us) => \E f : Leads(f, o, us)
  BY DEF ObjectFits
<1>1. \A k \in 1..Len(o.path) : Reached(o.path[k], ts)
  BY DEF ObjectFits
<1>2. \A k \in 1..Len(o.path) :
        Reached(o.path[k], us) /\ Leap(o.path[k], us) = Leap(o.path[k], ts)
  BY <1>1, ReachedStays
<1>3. ASSUME Unpadded(us) PROVE \E f : Leads(f, o, us)
  <2>1. Unpadded(ts)
    BY <1>3, UnpaddedBefore
  <2>2. PICK f : Leads(f, o, ts)
    BY <2>1 DEF ObjectFits
  <2>3. Leads(f, o, us)
    BY <1>2, <2>2 DEF Leads
  <2> QED
    BY <2>3
<1> QED
  BY <1>2, <1>3

\* A member that was just declared.
LEMMA NewFits ==
  ASSUME NEW o, NEW ts, NEW e \in Entries, o.path = <<e>>, o.type \in LLVMTypes,
         o.offset \in Int,
         o.bits = 0 => /\ Reached(e, ts)
                       /\ Unpadded(ts) => o.offset = Leap(e, ts)
  PROVE  ObjectFits(o, ts)
<1>1. o.path \in Seq(Entries) /\ Len(o.path) = 1 /\ o.path[1] = e
  OBVIOUS
<1>2. ASSUME o.bits = 0, Unpadded(ts) PROVE \E f : Leads(f, o, ts)
  <2> DEFINE f == [k \in 1..2 |-> IF k = 1 THEN o.offset ELSE 0]
  <2>1. f \in [1..2 -> Int] /\ f[1] = o.offset /\ f[2] = 0
    OBVIOUS
  <2>2. f[1] = Leap(o.path[1], ts) + f[2]
    BY <1>1, <1>2, <2>1
  <2> HIDE DEF f
  <2>3. Leads(f, o, ts)
    BY <1>1, <2>1, <2>2 DEF Leads
  <2> QED
    BY <2>3
<1> QED
  BY <1>1, <1>2 DEF ObjectFits

\* A member of an anonymous type gets one more step to its path, in front.
LEMMA MovedFits ==
  ASSUME NEW o, NEW m, NEW ts, NEW e \in Entries, NEW shift \in Nat, ObjectFits(o, ts),
         Reached(e, ts), Leap(e, ts) = shift,
         m.type = o.type, m.bits = o.bits, m.path = <<e>> \o o.path,
         m.offset = o.offset + shift
  PROVE  ObjectFits(m, ts)
<1> DEFINE n == Len(o.path)
<1>1. /\ o.path \in Seq(Entries) /\ n \in Nat /\ o.offset \in Int
      /\ o.type \in LLVMTypes
  BY DEF ObjectFits
<1>2. /\ m.path \in Seq(Entries) /\ Len(m.path) = n + 1 /\ m.path[1] = e
      /\ \A k \in 1..n : m.path[k + 1] = o.path[k]
  BY <1>1
<1> HIDE DEF n
<1>3. ASSUME m.bits = 0 PROVE \A k \in 1..Len(m.path) : Reached(m.path[k], ts)
  <2> SUFFICES ASSUME NEW k \in 1..Len(m.path) PROVE Reached(m.path[k], ts)
    OBVIOUS
  <2>1. CASE k = 1
    BY <1>2, <2>1
  <2>2. CASE k # 1
    <3>1. k - 1 \in 1..n /\ k = (k - 1) + 1
      BY <1>1, <1>2, <2>2
    <3>2. m.path[k] = o.path[k - 1]
      BY <1>2, <3>1
    <3> QED
      BY <1>3, <3>1, <3>2 DEF ObjectFits, n
  <2> QED
    BY <2>1, <2>2
<1>4. ASSUME m.bits = 0, Unpadded(ts) PROVE \E f : Leads(f, m, ts)
  <2>1. PICK g : Leads(g, o, ts)
    BY <1>4 DEF ObjectFits
  <2>2. /\ g \in [1..(n + 1) -> Int] /\ g[n + 1] = 0 /\ g[1] = o.offset
        /\ \A k \in 1..n : g[k] = Leap(o.path[k], ts) + g[k + 1]
    BY <2>1 DEF Leads, n
  <2> DEFINE f == [k \in 1..(n + 2) |-> IF k = 1 THEN m.offset ELSE g[k - 1]]
  <2>3. f \in [1..(n + 2) -> Int]
    BY <1>1, <2>2
  <2>4. f[n + 2] = 0 /\ f[1] = m.offset
    BY <1>1, <2>2
  <2>5. ASSUME NEW k \in 1..(n + 1) PROVE f[k] = Leap(m.path[k], ts) + f[k + 1]
    <3>1. f[k + 1] = g[k]
      BY <1>1
    <3>2. CASE k = 1
      <4>1. f[k] = o.offset + shift /\ g[k] = o.offset /\ Leap(m.path[k], ts) = shift
        BY <1>1, <1>2, <2>2, <3>2
      <4>2. o.offset + shift = shift + o.offset
        BY <1>1
      <4> HIDE DEF f
      <4>3. f[k] = shift + f[k + 1]
        BY <3>1, <4>1, <4>2
      <4> QED
        BY <4>1, <4>3
    <3>3. CASE k # 1
      <4>1. k - 1 \in 1..n /\ k = (k - 1) + 1 /\ f[k] = g[k - 1]
        BY <1>1, <3>3
      <4>2. m.path[k] = o.path[k - 1] /\ g[k - 1] = Leap(o.path[k - 1], ts) + g[k]
        BY <1>2, <2>2, <4>1
      <4> QED
        BY <3>1, <4>1, <4>2
    <3> QED
      BY <3>2, <3>3
  <2> HIDE DEF f
  <2>6. Len(m.path) + 1 = n + 2
    BY <1>1, <1>2
  <2>7. Leads(f, m, ts)
    BY <1>2, <2>3, <2>4, <2>5, <2>6 DEF Leads
  <2> QED
    BY <2>7
<1> QED
  BY <1>1, <1>2, <1>3, <1>4 DEF ObjectFits

\* The byte the generated code reaches: what is left of the way at its start.
LEMMA WayToAddress ==
  ASSUME NEW o, Len(objs[o].path) \in Nat, NEW f,
         f \in [1..(Len(objs[o].path) + 1) -> Int], f[Len(objs[o].path) + 1] = 0,
         \A k \in 1..Len(objs[o].path) : f[k] = Shift(objs[o].path[k]) + f[k + 1]
  PROVE  Address(o) = f[1]
<1> DEFINE path == objs[o].path
           n == Len(path)
           From(g, k) == IF k > n THEN 0 ELSE Shift(path[k]) + g[k + 1]
           from == CHOOSE g : g = [k \in 1..(n + 1) |-> From(g, k)]
<1>1. Address(o) = from[1]
  BY DEF Address
<1>2. /\ n \in Nat /\ f \in [1..(n + 1) -> Int] /\ f[n + 1] = 0
      /\ \A k \in 1..n : f[k] = Shift(path[k]) + f[k + 1]
  OBVIOUS
<1> HIDE DEF path, n
<1>3. f = [k \in 1..(n + 1) |-> From(f, k)]
  <2>1. ASSUME NEW k \in 1..(n + 1) PROVE f[k] = From(f, k)
    <3>1. CASE k = n + 1
      BY <1>2, <3>1
    <3>2. CASE k # n + 1
      BY <1>2, <3>2
    <3> QED
      BY <3>1, <3>2
  <2> HIDE DEF From
  <2> QED
    BY <1>2, <2>1
<1> HIDE DEF From
<1>4. from = [k \in 1..(n + 1) |-> From(from, k)]
  BY <1>3
<1> HIDE DEF from
<1>5. \A k \in 1..(n + 1) : from[k] = IF k > n THEN 0 ELSE Shift(path[k]) + from[k + 1]
  BY <1>4 DEF From
<1> DEFINE Same == {m \in Nat : m <= n => from[n + 1 - m] = f[n + 1 - m]}
<1>6. 0 \in Same
  <2>1. from[n + 1] = 0
    BY <1>2, <1>5
  <2> QED
    BY <1>2, <2>1
<1>7. ASSUME NEW m \in Nat, m \in Same PROVE m + 1 \in Same
  <2>1. CASE m + 1 <= n
    <3> DEFINE k == n + 1 - (m + 1)
    <3>1. k \in 1..n /\ k \in 1..(n + 1) /\ ~(k > n) /\ k + 1 = n + 1 - m
      BY <1>2, <2>1
    <3> HIDE DEF k
    <3>2. from[k + 1] = f[k + 1]
      BY <1>7, <2>1, <3>1, <1>2
    <3>3. from[k] = f[k]
      BY <1>2, <1>5, <3>1, <3>2
    <3> QED
      BY <3>3 DEF k
  <2>2. CASE ~(m + 1 <= n)
    BY <2>2
  <2> QED
    BY <2>1, <2>2
<1>8. n \in Same
  <2> HIDE DEF Same
  <2>1. Nat \subseteq Same
    BY <1>6, <1>7, NatSetInduction
  <2> QED
    BY <1>2, <2>1
<1>9. from[1] = f[1]
  BY <1>2, <1>8
<1> QED
  BY <1>1, <1>9

LEMMA LeadsToAddress ==
  ASSUME NEW o \in DOMAIN objs, NEW f, Leads(f, objs[o], types), Len(objs[o].path) \in Nat
  PROVE  Address(o) = objs[o].offset
<1>1. /\ f \in [1..(Len(objs[o].path) + 1) -> Int] /\ f[Len(objs[o].path) + 1] = 0
      /\ \A k \in 1..Len(objs[o].path) : f[k] = Shift(objs[o].path[k]) + f[k + 1]
      /\ f[1] = objs[o].offset
  BY DEF Leads, Leap, Shift
<1> QED
  BY <1>1, WayToAddress

-----------------------------------------------------------------------------
\* What is counted stays right in every step.

\* index_ counts the members of a union that has no bit-field.
UnionCounts(T, ts, os) ==
  LET t == ts[T] IN
    ~t.isStruct /\ (\A o \in DOMAIN os : os[o].bits # 0 => Last(os[o].path).type # T) =>
      /\ t.used = 0 /\ t.index = Len(t.members)
      /\ \A k \in 1..Len(t.members) :
           LET e == Last(os[t.members[k]].path) IN e.type = T /\ e.index = k - 1

CountedInv ==
  /\ verdict \in {"ok", "error", "crash"}
  /\ Len(types) <= MaxTypes
  /\ \A T \in DOMAIN types :
       Measured(types[T]) /\ InRun(types[T]) /\ Refers(types[T], Len(objs))
  /\ \A o \in DOMAIN objs : ObjectFits(objs[o], types)
  /\ \A T \in DOMAIN types : UnionCounts(T, types, objs)

LEMMA RefersStays ==
  ASSUME NEW t, NEW n \in Nat, NEW m \in Nat, n <= m, Refers(t, n)
  PROVE  Refers(t, m)
<1>1. 1..n \subseteq 1..m /\ t.members \in Seq(1..n)
  BY DEF Refers
<1>2. t.members \in Seq(1..m)
  BY <1>1, SeqMonotonic
<1> QED
  BY <1>1, <1>2 DEF Refers

LEMMA TypeLater ==
  ASSUME LayoutInv, CountedInv, NEW T \in DOMAIN types, NEW u, Grows(types[T], u),
         Measured(u), types[T].spaces <= u.spaces, types' = [types EXCEPT ![T] = u]
  PROVE  /\ Later(types, types') /\ DOMAIN types' = DOMAIN types
         /\ Len(types') = Len(types) /\ types'[T] = u
         /\ \A S \in DOMAIN types : S # T => types'[S] = types[S]
<1>1. /\ IsSeq(types) /\ IsSeq(types') /\ DOMAIN types' = DOMAIN types /\ types'[T] = u
      /\ \A S \in DOMAIN types : S # T => types'[S] = types[S]
  BY UpdateAny DEF LayoutInv
<1>2. Len(types') = Len(types)
  BY <1>1, AppendAny
<1>3. ASSUME NEW S \in DOMAIN types
      PROVE  /\ IsType(types[S]) /\ Grows(types[S], types'[S])
             /\ Measured(types[S]) /\ Measured(types'[S])
             /\ types[S].spaces <= types'[S].spaces
  <2>1. /\ IsType(types[S]) /\ Measured(types[S]) /\ Grows(types[S], types[S])
        /\ types[S].spaces \in Nat
    BY GrowsItself DEF LayoutInv, CountedInv, Measured
  <2>2. CASE S = T
    BY <1>1, <2>1, <2>2
  <2>3. CASE S # T
    BY <1>1, <2>1, <2>3
  <2> QED
    BY <2>2, <2>3
<1> QED
  BY <1>1, <1>2, <1>3 DEF Later

\* A step on one type.
LEMMA StepCounted ==
  ASSUME LayoutInv, CountedInv, NEW T \in DOMAIN types, NEW u, Grows(types[T], u),
         Measured(u), types[T].spaces <= u.spaces, types' = [types EXCEPT ![T] = u],
         InRun(u), Refers(u, Len(objs')), Len(objs) <= Len(objs'), IsSeq(objs'),
         \A o \in DOMAIN objs : /\ objs'[o].bits = objs[o].bits
                                /\ Last(objs'[o].path) = Last(objs[o].path),
         \A o \in DOMAIN objs' : ObjectFits(objs'[o], types'),
         UnionCounts(T, types', objs'), UNCHANGED verdict
  PROVE  CountedInv'
<1>1. /\ DOMAIN types' = DOMAIN types /\ Len(types') = Len(types) /\ types'[T] = u
      /\ \A S \in DOMAIN types : S # T => types'[S] = types[S]
  BY TypeLater
<1>2. /\ Len(objs) \in Nat /\ Len(objs') \in Nat /\ DOMAIN objs = 1..Len(objs)
      /\ DOMAIN objs' = 1..Len(objs') /\ DOMAIN objs \subseteq DOMAIN objs'
  BY AppendAny DEF LayoutInv
<1>3. ASSUME NEW S \in DOMAIN types', S # T
      PROVE  /\ Measured(types'[S]) /\ InRun(types'[S]) /\ Refers(types'[S], Len(objs'))
             /\ UnionCounts(S, types', objs')
  <2> DEFINE t == types[S]
  <2>1. types'[S] = t /\ Measured(t) /\ InRun(t) /\ Refers(t, Len(objs))
    BY <1>1, <1>3 DEF CountedInv
  <2>2. Refers(t, Len(objs'))
    BY <1>2, <2>1, RefersStays
  <2>3. UnionCounts(S, types', objs')
    <3> SUFFICES ASSUME ~t.isStruct,
                        \A o \in DOMAIN objs' :
                          objs'[o].bits # 0 => Last(objs'[o].path).type # S
                 PROVE  /\ t.used = 0 /\ t.index = Len(t.members)
                        /\ \A k \in 1..Len(t.members) :
                             LET e == Last(objs'[t.members[k]].path)
                             IN e.type = S /\ e.index = k - 1
      BY <2>1 DEF UnionCounts
    <3>1. \A o \in DOMAIN objs : objs[o].bits # 0 => Last(objs[o].path).type # S
      BY <1>2
    <3>2. UnionCounts(S, types, objs)
      BY <1>1 DEF CountedInv
    <3>3. \A k \in 1..Len(t.members) : t.members[k] \in DOMAIN objs
      BY <1>2, <2>1, ElementOfSeq DEF Refers
    <3> QED
      BY <3>1, <3>2, <3>3 DEF UnionCounts
  <2> QED
    BY <2>1, <2>2, <2>3
<1> QED
  BY <1>1, <1>3 DEF CountedInv

LEMMA NoObjectCounted ==
  ASSUME LayoutInv, CountedInv, NEW T \in DOMAIN types, NEW u, Grows(types[T], u),
         Measured(u), types[T].spaces <= u.spaces, types' = [types EXCEPT ![T] = u],
         InRun(u), Refers(u, Len(objs)), UnionCounts(T, types', objs),
         UNCHANGED <<objs, verdict>>
  PROVE  CountedInv'
<1>1. Later(types, types')
  BY TypeLater
<1>2. \A o \in DOMAIN objs : ObjectFits(objs[o], types')
  BY <1>1, FitsStays DEF CountedInv
<1>3. IsSeq(objs) /\ Len(objs) \in Nat
  BY AppendAny DEF LayoutInv
<1>4. objs' = objs /\ Len(objs) <= Len(objs') /\ UNCHANGED verdict
  BY <1>3
<1> QED
  BY <1>2, <1>3, <1>4, StepCounted

LEMMA OneObjectCounted ==
  ASSUME LayoutInv, CountedInv, NEW T \in DOMAIN types, NEW u, Grows(types[T], u),
         Measured(u), types[T].spaces <= u.spaces, types' = [types EXCEPT ![T] = u],
         InRun(u), Refers(u, Len(objs) + 1),
         NEW o, objs' = Append(objs, o), ObjectFits(o, types'),
         UnionCounts(T, types', objs'), UNCHANGED verdict
  PROVE  CountedInv'
<1>1. Later(types, types')
  BY TypeLater
<1>2. /\ IsSeq(objs') /\ Len(objs) \in Nat /\ Len(objs') = Len(objs) + 1
      /\ DOMAIN objs = 1..Len(objs) /\ DOMAIN objs' = 1..(Len(objs) + 1)
      /\ objs'[Len(objs) + 1] = o /\ \A i \in DOMAIN objs : objs'[i] = objs[i]
  BY AppendAny DEF LayoutInv
<1>3. ASSUME NEW i \in DOMAIN objs' PROVE ObjectFits(objs'[i], types')
  <2>1. CASE i = Len(objs) + 1
    BY <1>2, <2>1
  <2>2. CASE i \in DOMAIN objs
    BY <1>1, <1>2, <2>2, FitsStays DEF CountedInv
  <2> QED
    BY <1>2, <2>1, <2>2
<1>4. Len(objs) <= Len(objs') /\ Refers(u, Len(objs'))
  BY <1>2
<1> QED
  BY <1>2, <1>3, <1>4, StepCounted

LEMMA AddMemberFacts ==
  ASSUME LayoutInv, CountedInv, NEW T \in DOMAIN types, NEW type \in LLVMTypes
  PROVE  LET v == AddMember(T, type)
             r == Ready(types[T], type)
             o == MemberObject(T, type)
         IN /\ Measured(v) /\ IsType(v) /\ v.used = 0 /\ Refers(v, Len(objs) + 1)
            /\ v.isStruct = types[T].isStruct /\ types[T].spaces <= v.spaces
            /\ v.members = Append(types[T].members, Len(objs) + 1)
            /\ o.type = type /\ o.bits = 0 /\ o.offset \in Int
            /\ o.path = <<[type |-> T, index |-> r.index]>>
            /\ r.index \in Nat /\ v.index = r.index + 1
            /\ types[T].used = 0 => r.index = types[T].index
            /\ v.isStruct => r.index + 1 \in 1..Len(v.llvm)
            /\ v.spaces = 0 =>
                 o.offset = IF v.isStruct THEN ElementOffset(v.llvm)[r.index + 1] ELSE 0
            /\ Fills(types[T], v) /\ Gains(types[T], v, Len(objs) + 1) /\ o.begin = 0
            /\ LET at == IF v.isStruct THEN ElementOffset(v.llvm)[r.index + 1] ELSE 0
               IN at \in Nat /\ Takes(types[T], v, 8 * at, 8 * type.size)
<1> DEFINE t == types[T]
           r == Ready(t, type)
           n == Len(objs)
           w == Insert(r, n + 1)
           v == AddElement(w, type)
           o == MemberObject(T, type)
<1>1. /\ IsType(t) /\ Measured(t) /\ Refers(t, n) /\ n \in Nat
  BY AppendAny DEF LayoutInv, CountedInv
<1>2. AddMember(T, type) = v
  BY DEF AddMember, Fresh
<1>3. /\ o.type = type /\ o.bits = 0 /\ o.begin = 0 /\ o.path = <<[type |-> T, index |-> r.index]>>
      /\ o.offset = MakeAlign(r.offset, type.align) - r.spaces
  BY DEF MemberObject, Object
<1> HIDE DEF t, n, o
<1>4. /\ Measured(r) /\ Keeps(t, r) /\ r.used = 0 /\ r.base = 0
  BY <1>1, ReadyMeasured
<1>5. IsType(r)
  BY <1>1, ReadyGrows DEF Grows
<1>6. /\ t.spaces <= r.spaces /\ Fills(t, r)
      /\ t.used = 0 => r.index = t.index
  BY <1>1, ReadyMeasured
<1> HIDE DEF r
<1>7. Refers(r, n)
  BY <1>1, <1>4 DEF Keeps, Refers
<1>8. /\ Measured(w) /\ IsType(w) /\ Refers(w, n + 1)
      /\ w.isStruct = r.isStruct /\ w.members = Append(r.members, n + 1)
      /\ w.used = r.used /\ w.spaces = r.spaces /\ w.index = r.index /\ w.offset = r.offset
      /\ w.llvm = r.llvm /\ Gains(r, w, n + 1)
  BY <1>1, <1>4, <1>5, <1>7, InsertFacts DEF n
<1> HIDE DEF w
<1>9. /\ Measured(v) /\ Keeps(w, v) /\ v.used = w.used
      /\ v.spaces = w.spaces /\ v.index = w.index + 1
      /\ w.isStruct => ElementOffset(v.llvm)[w.index + 1] = MakeAlign(w.offset, type.align)
      /\ w.used = 0 => Fills(w, v)
      /\ w.isStruct => /\ w.offset <= MakeAlign(w.offset, type.align)
                       /\ MakeAlign(w.offset, type.align) + type.size = End(v.llvm)
      /\ ~w.isStruct => type.size <= End(v.llvm)
  BY <1>8, ElementMeasured
<1>10. /\ IsType(v)
       /\ w.isStruct => w.index + 1 \in DOMAIN v.llvm
  BY <1>8, AddElementGrows DEF Grows
<1> HIDE DEF v
<1>11. type.align \in Aligns
  BY DEF LLVMTypes
<1>12. /\ MakeAlign(r.offset, type.align) \in Nat /\ r.spaces \in Nat /\ r.index \in Nat
       /\ ~r.isStruct => MakeAlign(r.offset, type.align) = 0
  BY <1>4, <1>11, AlignFacts DEF Measured
<1>13. Refers(v, n + 1)
  BY <1>4, <1>8, <1>9 DEF Refers, Keeps
<1>14. v.isStruct => r.index + 1 \in 1..Len(v.llvm)
  <2>1. DOMAIN v.llvm = 1..Len(v.llvm)
    BY <1>9 DEF Measured
  <2> QED
    BY <1>8, <1>9, <1>10, <2>1 DEF Keeps
<1>15. v.spaces = 0 =>
         o.offset = IF v.isStruct THEN ElementOffset(v.llvm)[r.index + 1] ELSE 0
  BY <1>3, <1>8, <1>9, <1>12 DEF Keeps
<1>16. Fills(t, v)
  <2>1. Fills(r, w)
    <3>1. r.index <= w.index /\ r.used <= w.used
      BY <1>4, <1>8 DEF Measured
    <3> QED
      BY <1>4, <1>8, <3>1, FillsSame
  <2>2. Fills(w, v)
    BY <1>4, <1>8, <1>9
  <2> QED
    BY <1>6, <2>1, <2>2, FillsTwice
<1>17. Gains(t, v, n + 1)
  BY <1>4, <1>8, <1>9 DEF Gains, Keeps
<1>18. LET at == IF v.isStruct THEN ElementOffset(v.llvm)[r.index + 1] ELSE 0
       IN at \in Nat /\ Takes(t, v, 8 * at, 8 * type.size)
  <2> DEFINE at == IF v.isStruct THEN ElementOffset(v.llvm)[r.index + 1] ELSE 0
  <2>1. /\ v.used = 0 /\ v.isStruct = r.isStruct /\ r.isStruct = t.isStruct
        /\ w.isStruct = r.isStruct /\ r.used = 0
    BY <1>4, <1>8, <1>9 DEF Keeps
  <2>2. type.size \in Nat /\ End(v.llvm) \in Nat /\ End(r.llvm) \in Nat /\ Room(t) \in Nat
    BY <1>1, <1>4, <1>9, EndIsNat, RoomIsNat DEF LLVMTypes, Measured
  <2>3. Room(v) = 8 * End(v.llvm)
    BY <2>1, <2>2 DEF Room
  <2>4. Room(t) <= Room(r) /\ Room(r) = 8 * End(r.llvm)
    BY <1>6, <2>1, <2>2 DEF Fills, Room
  <2>5. CASE v.isStruct
    <3>1. at = MakeAlign(r.offset, type.align) /\ r.offset = End(r.llvm)
      BY <1>4, <1>8, <1>9, <2>1, <2>5 DEF Measured
    <3>2. at \in Nat /\ End(r.llvm) <= at /\ at + type.size = End(v.llvm)
      BY <1>8, <1>9, <1>12, <2>1, <2>5, <3>1
    <3> HIDE DEF at
    <3>3. 8 * at \in Nat /\ 8 * type.size \in Nat /\ 8 * at + 8 * type.size <= Room(v)
          /\ Room(t) <= 8 * at
      BY <2>2, <2>3, <2>4, <3>2
    <3> QED
      BY <3>2, <3>3 DEF Takes, at
  <2>6. CASE ~v.isStruct
    <3>1. at = 0 /\ type.size <= End(v.llvm)
      BY <1>9, <2>1, <2>6
    <3>2. 8 * at \in Nat /\ 8 * type.size \in Nat /\ 8 * at + 8 * type.size <= Room(v)
      BY <2>2, <2>3, <3>1
    <3> QED
      BY <2>1, <2>6, <3>1, <3>2 DEF Takes
  <2> QED
    BY <2>5, <2>6
<1> QED
  BY <1>2, <1>3, <1>4, <1>6, <1>8, <1>9, <1>10, <1>12, <1>13, <1>14, <1>15, <1>16, <1>17, <1>18
     DEF Keeps, t, r, n, o

LEMMA ScalarType ==
  ASSUME NEW n \in Aligns \cap Nat PROVE Scalar(n) \in LLVMTypes
BY LayoutAssumption DEF Scalar, LLVMTypes

LEMMA CharsType ==
  ASSUME NEW n \in Nat PROVE Chars(n) \in LLVMTypes
BY LayoutAssumption DEF Chars, LLVMTypes, Aligns

LEMMA TypeNumber ==
  ASSUME LayoutInv, CountedInv, NEW T \in DOMAIN types
  PROVE  T \in 1..MaxTypes /\ T \in 0..MaxTypes
<1>1. /\ DOMAIN types = 1..Len(types) /\ Len(types) \in Nat /\ Len(types) <= MaxTypes
      /\ MaxTypes \in Nat
  BY AppendAny, LayoutAssumption DEF LayoutInv, CountedInv
<1> QED
  BY <1>1

LEMMA RecordType ==
  ASSUME LayoutInv, CountedInv, NEW T \in DOMAIN types
  PROVE  Record(T) \in LLVMTypes
<1>1. types[T].llvm \in Seq(LLVMTypes)
  BY DEF CountedInv, Measured
<1> DEFINE size == LLVMSize(types[T].llvm)
           align == LLVMAlign(types[T].llvm)
<1>2. size \in Nat /\ align \in Aligns /\ T \in 0..MaxTypes
  BY <1>1, LLVMSizeFacts, LLVMAlignFacts, TypeNumber
<1>3. Record(T) = [size |-> size, align |-> align, rec |-> T]
  BY DEF Record
<1> HIDE DEF size, align
<1> QED
  BY <1>2, <1>3 DEF LLVMTypes

\* A member is where its offset says.
LEMMA MemberFits ==
  ASSUME LayoutInv, CountedInv, NEW T \in DOMAIN types, NEW type \in LLVMTypes,
         NEW u, u.isStruct = AddMember(T, type).isStruct, u.llvm = AddMember(T, type).llvm,
         u.spaces = AddMember(T, type).spaces, types' = [types EXCEPT ![T] = u]
  PROVE  ObjectFits(MemberObject(T, type), types')
<1> DEFINE v == AddMember(T, type)
           r == Ready(types[T], type)
           o == MemberObject(T, type)
           e == [type |-> T, index |-> r.index]
<1>1. /\ o.type = type /\ o.bits = 0 /\ o.offset \in Int
      /\ o.path = <<e>> /\ r.index \in Nat
      /\ v.isStruct => r.index + 1 \in 1..Len(v.llvm)
      /\ v.spaces = 0 =>
           o.offset = IF v.isStruct THEN ElementOffset(v.llvm)[r.index + 1] ELSE 0
  BY AddMemberFacts
<1> HIDE DEF v, r, o
<1>2. e \in Entries /\ e.type = T /\ e.index = r.index
  BY <1>1, TypeNumber DEF Entries
<1> HIDE DEF e
<1>3. /\ T \in DOMAIN types' /\ types'[T].isStruct = v.isStruct
      /\ types'[T].llvm = v.llvm /\ types'[T].spaces = v.spaces
  BY DEF v
<1>4. Reached(e, types')
  BY <1>1, <1>2, <1>3 DEF Reached
<1>5. ASSUME Unpadded(types') PROVE o.offset = Leap(e, types')
  <2>1. v.spaces = 0
    BY <1>3, <1>5 DEF Unpadded
  <2> QED
    BY <1>1, <1>2, <1>3, <2>1 DEF Leap
<1>6. ObjectFits(o, types')
  BY <1>1, <1>2, <1>4, <1>5, NewFits
<1> QED
  BY <1>6 DEF o

\* A member more that got the next index keeps the count of a union.
LEMMA OneMoreCounts ==
  ASSUME LayoutInv, CountedInv, NEW T \in DOMAIN types, NEW v, NEW index \in Nat,
         types'[T] = v, v.isStruct = types[T].isStruct, v.used = 0, v.index = index + 1,
         v.members = Append(types[T].members, Len(objs) + 1),
         types[T].used = 0 => index = types[T].index,
         DOMAIN objs' = 1..(Len(objs) + 1),
         Last(objs'[Len(objs) + 1].path) = [type |-> T, index |-> index],
         \A o \in DOMAIN objs : /\ objs'[o].bits = objs[o].bits
                                /\ Last(objs'[o].path) = Last(objs[o].path)
  PROVE  UnionCounts(T, types', objs')
<1> DEFINE t == types[T]
           n == Len(objs)
           c == Len(t.members)
<1>1. /\ n \in Nat /\ DOMAIN objs = 1..n
  BY AppendAny DEF LayoutInv
<1>2. t.members \in Seq(1..n) /\ UnionCounts(T, types, objs)
  BY DEF CountedInv, Refers
<1> HIDE DEF n
<1> SUFFICES ASSUME ~v.isStruct,
                    \A i \in DOMAIN objs' : objs'[i].bits # 0 => Last(objs'[i].path).type # T
             PROVE  /\ v.used = 0 /\ v.index = Len(v.members)
                    /\ \A k \in 1..Len(v.members) :
                         LET x == Last(objs'[v.members[k]].path) IN x.type = T /\ x.index = k - 1
  BY DEF UnionCounts
<1>3. \A i \in DOMAIN objs : objs[i].bits # 0 => Last(objs[i].path).type # T
  BY <1>1 DEF n
<1>4. /\ t.used = 0 /\ t.index = c
      /\ \A k \in 1..c :
           LET x == Last(objs[t.members[k]].path) IN x.type = T /\ x.index = k - 1
  BY <1>2, <1>3 DEF UnionCounts
<1>5. /\ c \in Nat /\ Len(v.members) = c + 1 /\ v.members[c + 1] = n + 1
      /\ \A k \in 1..c : v.members[k] = t.members[k] /\ t.members[k] \in 1..n
  <2>1. IsSeq(t.members) /\ DOMAIN t.members = 1..c
    BY <1>2 DEF IsSeq
  <2>2. \A k \in 1..c : t.members[k] \in 1..n
    BY <1>2, ElementOfSeq
  <2> QED
    BY <2>1, <2>2, AppendAny DEF n
<1>6. ASSUME NEW k \in 1..Len(v.members)
      PROVE  LET x == Last(objs'[v.members[k]].path) IN x.type = T /\ x.index = k - 1
  <2>1. t.used = 0 => index = t.index
    OBVIOUS
  <2> HIDE DEF c, t
  <2>2. CASE k = c + 1
    <3>1. Last(objs'[v.members[k]].path) = [type |-> T, index |-> index]
      BY <1>5, <2>2 DEF n
    <3>2. index = c /\ k - 1 = c
      BY <1>4, <1>5, <2>1, <2>2
    <3> QED
      BY <3>1, <3>2
  <2>3. CASE k \in 1..c
    <3>1. v.members[k] = t.members[k] /\ t.members[k] \in DOMAIN objs
      BY <1>1, <1>5, <2>3
    <3> QED
      BY <1>4, <2>3, <3>1
  <2> QED
    BY <1>5, <2>2, <2>3
<1> QED
  BY <1>4, <1>5, <1>6

LEMMA MemberCounts ==
  ASSUME LayoutInv, CountedInv, NEW T \in DOMAIN types, NEW type \in LLVMTypes,
         types'[T] = AddMember(T, type), objs' = Append(objs, MemberObject(T, type))
  PROVE  UnionCounts(T, types', objs')
<1> DEFINE v == AddMember(T, type)
           r == Ready(types[T], type)
           o == MemberObject(T, type)
           e == [type |-> T, index |-> r.index]
<1>1. /\ v.isStruct = types[T].isStruct /\ v.used = 0
      /\ v.members = Append(types[T].members, Len(objs) + 1)
      /\ o.path = <<e>> /\ r.index \in Nat /\ v.index = r.index + 1
      /\ types[T].used = 0 => r.index = types[T].index
  BY AddMemberFacts
<1>2. types'[T] = v /\ objs' = Append(objs, o)
  OBVIOUS
<1> HIDE DEF v, r, o
<1>3. /\ DOMAIN objs' = 1..(Len(objs) + 1) /\ objs'[Len(objs) + 1] = o
      /\ \A i \in DOMAIN objs : objs'[i] = objs[i]
  BY <1>2, AppendAny DEF LayoutInv
<1>4. Last(o.path) = e
  BY <1>1 DEF Last
<1> QED
  BY <1>1, <1>2, <1>3, <1>4, OneMoreCounts

LEMMA DeclareMemberCounted ==
  ASSUME LayoutInv, CountedInv, NEW type \in LLVMTypes, DeclareMember(type)
  PROVE  CountedInv'
<1> DEFINE v == AddMember(Top, type)
           o == MemberObject(Top, type)
<1>1. /\ verdict = "ok" /\ objs' = Append(objs, o)
      /\ types' = [types EXCEPT ![Top] = v] /\ UNCHANGED <<open, verdict>>
  BY DEF DeclareMember, Declaring
<1>2. Top \in DOMAIN types
  BY <1>1, TopIsType
<1>3. /\ Measured(v) /\ v.used = 0 /\ Refers(v, Len(objs) + 1)
      /\ types[Top].spaces <= v.spaces
  BY <1>2, AddMemberFacts
<1>4. Grows(types[Top], v)
  BY <1>1, <1>2, AddMemberIsType, GrowsItself, MemberStep
<1>5. types'[Top] = v
  BY <1>1, <1>2, <1>3, <1>4, TypeLater
<1>6. ObjectFits(o, types') /\ UnionCounts(Top, types', objs')
  BY <1>1, <1>2, <1>5, MemberFits, MemberCounts
<1> HIDE DEF v, o
<1> QED
  BY <1>1, <1>2, <1>3, <1>4, <1>6, OneObjectCounted DEF InRun

LEMMA DeclareRecordCounted ==
  ASSUME LayoutInv, CountedInv, DeclareRecord
  PROVE  CountedInv'
<1> DEFINE type == Record(Top)
           v == AddMember(Outer, type)
           o == MemberObject(Outer, type)
<1>1. /\ Inside /\ objs' = Append(objs, o) /\ types' = [types EXCEPT ![Outer] = v]
      /\ UNCHANGED verdict
  BY DEF DeclareRecord
<1>2. /\ Outer \in DOMAIN types /\ verdict = "ok"
  BY <1>1, OuterIsType
<1>3. type \in LLVMTypes
  BY <1>2, TopIsType, RecordType
<1> HIDE DEF type
<1>4. /\ Measured(v) /\ v.used = 0 /\ Refers(v, Len(objs) + 1)
      /\ types[Outer].spaces <= v.spaces
  BY <1>2, <1>3, AddMemberFacts
<1>5. Grows(types[Outer], v)
  BY <1>1, <1>2, AddMemberIsType, GrowsItself, MemberStep
<1>6. types'[Outer] = v
  BY <1>1, <1>2, <1>4, <1>5, TypeLater
<1>7. ObjectFits(o, types') /\ UnionCounts(Outer, types', objs')
  BY <1>1, <1>2, <1>3, <1>6, MemberFits, MemberCounts
<1> HIDE DEF v, o
<1> QED
  BY <1>1, <1>2, <1>4, <1>5, <1>7, OneObjectCounted DEF InRun

LEMMA FlexibleCounted ==
  ASSUME LayoutInv, CountedInv, NEW elem \in Scalars, DeclareFlexible(elem), ~Error
  PROVE  CountedInv'
<1> DEFINE type == [Scalar(elem) EXCEPT !.size = 0]
           v == AddMember(Top, type)
           u == Finish(v, objs')
           o == MemberObject(Top, type)
<1>1. /\ verdict = "ok" /\ objs' = Append(objs, o) /\ This.isStruct
      /\ types' = [types EXCEPT ![Top] = u] /\ UNCHANGED <<open, verdict>>
  BY DEF DeclareFlexible, Declaring
<1>2. Top \in DOMAIN types /\ types[Top].isStruct
  BY <1>1, TopIsType DEF This
<1>3. type \in LLVMTypes
  <2>1. elem \in Aligns /\ 0 \in 0..MaxTypes
    BY LayoutAssumption DEF Aligns
  <2> QED
    BY <2>1 DEF Scalar, LLVMTypes
<1> HIDE DEF type
<1>4. /\ Measured(v) /\ IsType(v) /\ v.used = 0 /\ Refers(v, Len(objs) + 1)
      /\ types[Top].spaces <= v.spaces /\ v.isStruct /\ o.type = type
  BY <1>2, <1>3, AddMemberFacts
<1> HIDE DEF v, o
<1>5. /\ Len(objs) \in Nat /\ DOMAIN objs = 1..Len(objs)
      /\ objs'[Len(objs) + 1] = o /\ \A i \in DOMAIN objs : objs'[i] = objs[i]
  BY <1>1, AppendAny DEF LayoutInv
<1>6. \A i \in 1..(Len(objs) + 1) : objs'[i].type \in LLVMTypes
  BY <1>3, <1>4, <1>5 DEF CountedInv, ObjectFits
<1>7. /\ Measured(u) /\ u.used = 0 /\ u.isStruct = v.isStruct
      /\ u.scope = v.scope /\ u.members = Named(v.members, objs')
      /\ u.llvm = v.llvm /\ u.spaces = v.spaces
  BY <1>4, <1>6, FinishMeasured
<1>8. Grows(types[Top], u)
  <2>1. Grows(v, u)
    BY <1>4, FinishGrows
  <2> QED
    BY <1>1, <1>2, <2>1, MemberStep DEF v
<1> HIDE DEF u
<1>9. types'[Top] = u
  BY <1>1, <1>2
<1>10. ObjectFits(o, types')
  BY <1>1, <1>2, <1>3, <1>7, MemberFits DEF v, o
<1>11. UnionCounts(Top, types', objs')
  BY <1>4, <1>7, <1>9 DEF UnionCounts
<1>12. Refers(u, Len(objs) + 1)
  <2>1. u.members \in Seq(1..(Len(objs) + 1))
    BY <1>4, <1>7, NamedFacts DEF Refers
  <2> QED
    BY <1>4, <1>7, <2>1 DEF Refers
<1> QED
  BY <1>1, <1>2, <1>4, <1>7, <1>8, <1>10, <1>11, <1>12, OneObjectCounted DEF InRun

LEMMA PlacedMeasured ==
  ASSUME NEW t, IsType(t), Measured(t), Len(objs) \in Nat, Refers(t, Len(objs)),
         NEW name, NEW size \in {1, 4}, NEW bits \in Nat, bits # 0,
         NEW u, u = Placed(t, name, size, bits)
  PROVE  /\ Measured(u) /\ IsType(u) /\ Refers(u, Len(objs) + 1)
         /\ u.isStruct = t.isStruct /\ u.spaces = t.spaces
         /\ u.members # <<>> /\ u.used # 0
         /\ u.index = t.index /\ (t.isStruct => u.llvm = t.llvm)
         /\ Fills(t, u) /\ Gains(t, u, Len(objs) + 1)
         /\ t.isStruct => Takes(t, u, 8 * End(t.llvm) + t.used, bits)
         /\ ~t.isStruct /\ bits <= 8 * size => Takes(t, u, 0, bits)
<1> DEFINE n == Len(objs)
           w == Insert(t, name)
           in == [w EXCEPT !.used = w.used + bits]
           type == Scalar(size)
<1>1. u = IF t.isStruct THEN in ELSE Larger(in, type)
  BY DEF Placed
<1>2. /\ Measured(w) /\ IsType(w) /\ Refers(w, n + 1) /\ w.members # <<>>
      /\ w.isStruct = t.isStruct /\ w.spaces = t.spaces
      /\ w.index = t.index /\ w.llvm = t.llvm /\ w.used = t.used
      /\ Gains(t, w, n + 1)
  <2>1. n = Len(objs) /\ n \in Nat /\ Refers(t, n)
    OBVIOUS
  <2> HIDE DEF n
  <2> QED
    BY <2>1, InsertFacts
<1>3. type \in LLVMTypes /\ type.size = size
  BY LayoutAssumption DEF Scalar, LLVMTypes, Aligns
<1> HIDE DEF w, type
<1>4. /\ HasFields(in) /\ Keeps(w, in) /\ in.llvm = w.llvm /\ in.offset = w.offset
      /\ in.align = w.align /\ in.index = w.index /\ in.spaces = w.spaces
      /\ in.base = w.base /\ in.used = w.used + bits
  BY <1>2 DEF IsType, HasFields, Fields, Keeps
<1> HIDE DEF in
<1>5. in.used \in Nat /\ in.used # 0
  <2>1. w.used \in Nat
    BY <1>2 DEF Measured
  <2> QED
    BY <1>4, <2>1
<1>6. Measured(in) /\ IsType(in)
  BY <1>2, <1>4, <1>5 DEF Measured, IsType, Keeps
<1>7. Refers(in, n + 1)
  BY <1>2, <1>4 DEF Refers, Keeps
<1>8. Fills(t, in)
  <2>1. in.isStruct = t.isStruct /\ t.index <= in.index /\ t.used <= in.used
    BY <1>2, <1>4, <1>6 DEF Keeps, Measured
  <2> QED
    BY <1>2, <1>4, <1>6, <2>1, FillsSame
<1>9. Gains(t, in, n + 1)
  BY <1>2, <1>4 DEF Gains, Keeps
<1>10. End(t.llvm) \in Nat /\ t.used \in Nat
  BY EndIsNat DEF Measured
<1>11. CASE t.isStruct
  <2>1. u = in
    BY <1>1, <1>11
  <2>2. Takes(t, in, 8 * End(t.llvm) + t.used, bits)
    <3>1. Room(t) = 8 * End(t.llvm) + t.used /\ Room(in) = 8 * End(t.llvm) + (t.used + bits)
      BY <1>2, <1>4, <1>11 DEF Room, Keeps
    <3> QED
      BY <1>10, <3>1 DEF Takes
  <2> QED
    BY <1>2, <1>4, <1>5, <1>6, <1>7, <1>11, <1>8, <1>9, <2>1, <2>2 DEF Keeps
<1>12. CASE ~t.isStruct
  <2>1. u = Larger(in, type) /\ ~in.isStruct
    BY <1>1, <1>2, <1>4, <1>12 DEF Keeps
  <2>2. /\ u.llvm \in Seq(LLVMTypes) /\ HasFields(u)
        /\ \A f \in Fields : f # "llvm" => u[f] = in[f]
        /\ Len(u.llvm) <= 1
        /\ End(in.llvm) <= End(u.llvm) /\ type.size <= End(u.llvm)
    BY <1>3, <1>6, <2>1, LargerMeasured
  <2>3. /\ Keeps(in, u) /\ u.offset = in.offset /\ u.align = in.align
        /\ u.index = in.index /\ u.spaces = in.spaces /\ u.base = in.base /\ u.used = in.used
    BY <2>2 DEF Fields, Keeps
  <2>4. Measured(u)
    BY <1>6, <2>1, <2>2, <2>3 DEF Measured, Keeps
  <2>5. Refers(u, n + 1)
    BY <1>7, <2>3 DEF Refers, Keeps
  <2>6. IsType(u)
    <3>1. Grows(in, u)
      BY <1>6, <2>1, LargerGrows
    <3> QED
      BY <3>1 DEF Grows
  <2>7. Fills(t, u)
    <3>1. u.isStruct = in.isStruct /\ in.index <= u.index
      BY <1>6, <2>3 DEF Keeps, Measured
    <3>2. Fills(in, u)
      BY <1>6, <2>1, <2>2, <2>4, <3>1, FillsUnion
    <3> QED
      BY <1>8, <3>2, FillsTwice
  <2>8. Gains(t, u, n + 1)
    BY <1>9, <2>3 DEF Gains, Keeps
  <2>9. ASSUME bits <= 8 * size PROVE Takes(t, u, 0, bits)
    <3>1. End(u.llvm) \in Nat /\ size <= End(u.llvm) /\ Room(u) = 8 * End(u.llvm)
      <4>1. End(u.llvm) \in Nat /\ ~u.isStruct
        BY <2>1, <2>2, <2>3, EndIsNat DEF Keeps
      <4> QED
        BY <1>3, <2>2, <4>1 DEF Room
    <3>2. bits <= Room(u)
      BY <2>9, <3>1
    <3> QED
      BY <1>12, <3>2 DEF Takes
  <2> QED
    BY <1>2, <1>4, <1>5, <1>12, <2>3, <2>4, <2>5, <2>6, <2>7, <2>8, <2>9 DEF Keeps
<1> QED
  BY <1>11, <1>12

LEMMA PlaceBitFieldCounted ==
  ASSUME LayoutInv, CountedInv, verdict = "ok",
         NEW t, Grows(This, t), Measured(t), This.spaces <= t.spaces,
         Refers(t, Len(objs)),
         NEW name, NEW size \in {1, 4}, NEW bits \in Nat, bits # 0,
         PlaceBitField(t, name, size, bits), ~Crash
  PROVE  CountedInv'
<1> DEFINE begin == IF t.isStruct THEN t.used ELSE 0
           grown == Placed(t, name, size, bits)
           u == Packed(grown)
           o == Object(name, Scalar(size), bits, begin, t.offset, Top, t.index)
           n == Len(objs)
<1>1. /\ grown.used <= grown.base
      /\ objs' = Append(objs, o) /\ types' = [types EXCEPT ![Top] = u]
      /\ UNCHANGED <<open, verdict>>
  BY DEF PlaceBitField, Placed, Packed
<1>2. Top \in DOMAIN types /\ This = types[Top] /\ IsType(This) /\ IsType(t)
  BY TopIsType DEF This, Grows
<1>3. Grows(types[Top], u)
  <2>1. Grows(t, u)
    BY <1>2, PlacedGrows
  <2> HIDE DEF u
  <2> QED
    BY <1>2, <2>1, GrowsTwice
<1>4. /\ n \in Nat /\ DOMAIN objs = 1..n /\ DOMAIN objs' = 1..(n + 1)
      /\ objs'[n + 1] = o
  BY <1>1, AppendAny DEF LayoutInv
<1>5. grown = Placed(t, name, size, bits)
  OBVIOUS
<1> HIDE DEF grown
<1>6. /\ Measured(grown) /\ IsType(grown) /\ Refers(grown, n + 1)
      /\ grown.isStruct = t.isStruct /\ grown.spaces = t.spaces
      /\ grown.members # <<>> /\ grown.used # 0
  <2>1. /\ Len(objs) \in Nat /\ IsType(t) /\ Measured(t) /\ Refers(t, Len(objs))
        /\ size \in {1, 4} /\ bits \in Nat /\ bits # 0
    BY <1>2, <1>4
  <2> QED
    BY ONLY <1>5, <2>1, PlacedMeasured, SMTT(60)
<1>7. /\ Measured(u) /\ Refers(u, n + 1) /\ InRun(u) /\ u.spaces = grown.spaces
  <2>1. CASE grown.used = grown.base
    <3>1. u = BitFieldPacked(grown) /\ grown.base # 0
      BY <1>6, <2>1 DEF Packed
    <3> HIDE DEF u
    <3>2. Measured(u) /\ Keeps(grown, u) /\ u.used = 0 /\ u.spaces = grown.spaces
      BY <1>6, <3>1, PackedMeasured
    <3> QED
      BY <1>6, <3>2 DEF Refers, Keeps, InRun
  <2>2. CASE grown.used # grown.base
    <3>1. u = grown /\ grown.used < grown.base
      BY <1>1, <1>6, <2>2 DEF Packed, Measured
    <3> QED
      BY <1>6, <3>1 DEF InRun
  <2> QED
    BY <2>1, <2>2
<1> HIDE DEF u
<1>8. types[Top].spaces <= u.spaces
  BY <1>2, <1>6, <1>7
<1>9. /\ o.type = Scalar(size) /\ o.bits = bits /\ o.offset = t.offset
      /\ o.path = <<[type |-> Top, index |-> t.index]>>
  BY DEF Object
<1> HIDE DEF o
<1>10. ObjectFits(o, types')
  <2> DEFINE e == [type |-> Top, index |-> t.index]
  <2>1. e \in Entries
    BY <1>2, TypeNumber DEF Entries, Measured
  <2>2. Scalar(size) \in LLVMTypes
    BY LayoutAssumption DEF Scalar, LLVMTypes, Aligns
  <2>3. t.offset \in Int
    BY DEF Measured
  <2> HIDE DEF e
  <2>4. o.path = <<e>> /\ o.bits # 0
    BY <1>9 DEF e
  <2> QED
    BY <1>9, <2>1, <2>2, <2>3, <2>4, NewFits
<1>11. UnionCounts(Top, types', objs')
  <2>1. objs'[n + 1].bits # 0 /\ n + 1 \in DOMAIN objs'
    BY <1>4, <1>9
  <2>2. Last(objs'[n + 1].path).type = Top
    BY <1>4, <1>9 DEF Last
  <2> QED
    BY <2>1, <2>2 DEF UnionCounts
<1> QED
  BY <1>1, <1>2, <1>3, <1>7, <1>8, <1>10, <1>11, OneObjectCounted

-----------------------------------------------------------------------------
LEMMA AlignedMeasured ==
  ASSUME IsType(This), Measured(This), NEW size \in {1, 4}, NEW bits
  PROVE  LET u == Aligned(size, bits)
         IN /\ Measured(u) /\ Keeps(This, u) /\ IsType(u)
            /\ u.used = This.used /\ u.base = This.base
            /\ u.spaces = This.spaces /\ u.index = This.index /\ Fills(This, u)
<1> DEFINE t == This
           align == MaxOf(t.align, size)
           raised == [t EXCEPT !.align = align]
           u == Aligned(size, bits)
<1>1. align \in Aligns
  <2>1. size \in Aligns
    BY DEF Aligns
  <2> QED
    BY <2>1, MaxAlign DEF Measured
<1>2. u = t \/ u = raised
  BY DEF Aligned
<1> HIDE DEF align, u, t
<1>3. IsType(t) /\ Measured(t)
  BY DEF t
<1>4. /\ HasFields(raised) /\ Keeps(t, raised) /\ raised.llvm = t.llvm
      /\ raised.offset = t.offset /\ raised.index = t.index /\ raised.align = align
      /\ raised.spaces = t.spaces /\ raised.used = t.used /\ raised.base = t.base
  BY <1>3 DEF IsType, HasFields, Fields, Keeps
<1> HIDE DEF raised
<1>5. IsType(raised) /\ Measured(raised)
  BY <1>1, <1>3, <1>4 DEF IsType, Measured, Keeps
<1>6. Keeps(t, t)
  BY DEF Keeps
<1>7. Fills(t, t) /\ Fills(t, raised)
  <2>1. raised.isStruct = t.isStruct /\ t.index <= raised.index /\ t.used <= raised.used
    BY <1>3, <1>4 DEF Keeps, Measured
  <2> QED
    BY <1>3, <1>4, <1>5, <2>1, FillsItself, FillsSame
<1> QED
  BY <1>2, <1>3, <1>4, <1>5, <1>6, <1>7 DEF t, u

LEMMA BaseMeasured ==
  ASSUME NEW t, IsType(t), Measured(t), NEW b \in {0, 8, 32}
  PROVE  LET u == [t EXCEPT !.base = b]
         IN /\ Measured(u) /\ Keeps(t, u) /\ IsType(u) /\ u.base = b
            /\ u.used = t.used /\ u.spaces = t.spaces /\ u.index = t.index
            /\ Fills(t, u)
<1> DEFINE u == [t EXCEPT !.base = b]
<1>1. /\ HasFields(u) /\ Keeps(t, u) /\ u.llvm = t.llvm /\ u.offset = t.offset
      /\ u.index = t.index /\ u.align = t.align /\ u.base = b
      /\ u.spaces = t.spaces /\ u.used = t.used
  BY DEF IsType, HasFields, Fields, Keeps
<1> HIDE DEF u
<1>2. IsType(u) /\ Measured(u)
  BY <1>1 DEF IsType, Measured, Keeps
<1>3. Fills(t, u)
  <2>1. u.isStruct = t.isStruct /\ t.index <= u.index /\ t.used <= u.used
    BY <1>1 DEF Keeps, Measured
  <2> QED
    BY <1>1, <1>2, <2>1, FillsSame
<1> QED
  BY <1>1, <1>2, <1>3 DEF u

LEMMA StartedMeasured ==
  ASSUME IsType(This), Measured(This), NEW size \in {1, 4}, NEW bits
  PROVE  LET u == Started(size, bits)
         IN /\ Measured(u) /\ Keeps(This, u) /\ u.used = This.used
            /\ u.spaces = This.spaces /\ (This.used = 0 => Fills(This, u))
            /\ ~This.isStruct => u.index = This.index
<1> DEFINE a == Aligned(size, bits)
           t == Spaced(size, bits)
           u == [t EXCEPT !.base = size * 8]
<1>1. /\ Measured(a) /\ Keeps(This, a) /\ IsType(a)
      /\ a.used = This.used /\ a.spaces = This.spaces /\ a.index = This.index
      /\ Fills(This, a)
  BY AlignedMeasured
<1>2. t = a \/ (This.isStruct /\ t = AddSpace(a))
  BY DEF Spaced
<1> HIDE DEF a, t
<1>3. /\ Measured(t) /\ Keeps(This, t) /\ IsType(t)
      /\ t.used = This.used /\ t.spaces = This.spaces
      /\ This.used = 0 => Fills(This, t)
      /\ ~This.isStruct => t.index = This.index
  <2>1. CASE t = a
    BY <1>1, <2>1
  <2>2. CASE This.isStruct /\ t = AddSpace(a)
    <3>1. a.isStruct
      BY <1>1, <2>2 DEF Keeps
    <3>2. IsType(t)
      BY <1>1, <2>2, <3>1, AddSpaceGrows DEF Grows
    <3>3. Measured(t) /\ Keeps(a, t) /\ t.used = a.used /\ t.spaces = a.spaces
      BY <1>1, <2>2, <3>1, AddSpaceMeasured
    <3>4. ASSUME This.used = 0 PROVE Fills(This, t)
      <4>1. Fills(a, t)
        BY <1>1, <2>2, <3>1, <3>4, AddSpaceMeasured
      <4> QED
        BY <1>1, <4>1, FillsTwice
    <3> QED
      BY <1>1, <2>2, <3>2, <3>3, <3>4 DEF Keeps
  <2> QED
    BY <1>2, <2>1, <2>2
<1>4. size * 8 \in {0, 8, 32}
  OBVIOUS
<1>5. /\ Measured(u) /\ Keeps(t, u)
      /\ u.used = t.used /\ u.spaces = t.spaces /\ u.index = t.index /\ Fills(t, u)
  BY <1>3, <1>4, BaseMeasured
<1>6. Started(size, bits) = u
  BY DEF Started, t
<1> HIDE DEF u
<1>7. This.used = 0 => Fills(This, u)
  BY <1>3, <1>5, FillsTwice
<1> QED
  BY <1>3, <1>5, <1>6, <1>7 DEF Keeps

LEMMA WidenedMeasured ==
  ASSUME IsType(This), Measured(This), NEW size \in {1, 4}, NEW bits
  PROVE  LET u == Widened(size, bits)
         IN /\ Measured(u) /\ Keeps(This, u) /\ IsType(u) /\ u.used = This.used
            /\ u.spaces = This.spaces /\ Fills(This, u)
<1> DEFINE a == Aligned(size, bits)
           b == MaxOf(a.base, size * 8)
           u == [a EXCEPT !.base = b]
<1>1. /\ Measured(a) /\ Keeps(This, a) /\ IsType(a)
      /\ a.used = This.used /\ a.spaces = This.spaces /\ Fills(This, a)
  BY AlignedMeasured
<1>2. Widened(size, bits) = u
  BY DEF Widened
<1> HIDE DEF a
<1>3. b \in {0, 8, 32}
  BY <1>1 DEF MaxOf, Measured
<1> HIDE DEF b
<1>4. /\ Measured(u) /\ Keeps(a, u) /\ IsType(u) /\ u.used = a.used /\ u.spaces = a.spaces
      /\ Fills(a, u)
  BY <1>1, <1>3, BaseMeasured
<1> HIDE DEF u
<1>5. Fills(This, u)
  BY <1>1, <1>4, FillsTwice
<1> QED
  BY <1>1, <1>2, <1>4, <1>5 DEF Keeps

LEMMA SkippedMeasured ==
  ASSUME IsType(This), Measured(This), NEW size \in {1, 4}, NEW bits, This.used # 0
  PROVE  LET u == Skipped(size, bits)
         IN /\ Measured(u) /\ Keeps(This, u) /\ u.spaces = This.spaces /\ Fills(This, u)
            /\ u.used = 0 \/ (u.used = This.used /\ u.base = This.base)
<1> DEFINE a == Aligned(size, bits)
           u == Skipped(size, bits)
<1>1. /\ Measured(a) /\ Keeps(This, a) /\ IsType(a)
      /\ a.used = This.used /\ a.spaces = This.spaces /\ a.base = This.base
      /\ Fills(This, a)
  BY AlignedMeasured
<1>2. u = a \/ (This.isStruct /\ u = AddSpaceBetweenBitField(a))
  BY DEF Skipped, IsType
<1> HIDE DEF a, u
<1>3. CASE u = a
  BY <1>1, <1>3 DEF u
<1>4. CASE This.isStruct /\ u = AddSpaceBetweenBitField(a)
  <2>1. a.isStruct /\ a.used # 0
    BY <1>1, <1>4 DEF Keeps
  <2>2. Measured(u) /\ Keeps(a, u) /\ u.used = 0 /\ u.spaces = a.spaces /\ Fills(a, u)
    BY <1>1, <1>4, <2>1, SpaceBetweenMeasured
  <2>3. Fills(This, u)
    BY <1>1, <2>2, FillsTwice
  <2> QED
    BY <1>1, <2>2, <2>3 DEF Keeps, u
<1> QED
  BY <1>2, <1>3, <1>4

LEMMA RenewedMeasured ==
  ASSUME IsType(This), Measured(This), NEW size \in {1, 4}, NEW bits, This.used # 0,
         This.isStruct
  PROVE  LET u == Renewed(size, bits)
         IN /\ Measured(u) /\ Keeps(This, u) /\ u.spaces = This.spaces /\ u.used = 0
            /\ Fills(This, u)
<1> DEFINE w == Widened(size, bits)
           apart == AddSpaceBetweenBitField(w)
           u == [apart EXCEPT !.base = size * 8]
<1>1. /\ Measured(w) /\ Keeps(This, w) /\ IsType(w)
      /\ w.used = This.used /\ w.spaces = This.spaces /\ Fills(This, w)
  BY WidenedMeasured
<1>2. Renewed(size, bits) = u
  BY DEF Renewed
<1> HIDE DEF w
<1>3. w.isStruct /\ w.used # 0
  BY <1>1 DEF Keeps
<1>4. /\ Measured(apart) /\ Keeps(w, apart) /\ apart.used = 0 /\ apart.spaces = w.spaces
      /\ IsType(apart) /\ Fills(w, apart)
  BY <1>1, <1>3, SpaceBetweenMeasured, AddSpaceBetweenBitFieldGrows DEF Grows
<1> HIDE DEF apart
<1>5. size * 8 \in {0, 8, 32}
  OBVIOUS
<1>6. /\ Measured(u) /\ Keeps(apart, u) /\ u.used = apart.used /\ u.spaces = apart.spaces
      /\ Fills(apart, u)
  BY <1>4, <1>5, BaseMeasured
<1> HIDE DEF u
<1>7. Fills(This, u)
  <2>1. Fills(This, apart)
    BY <1>1, <1>4, FillsTwice
  <2> QED
    BY <1>6, <2>1, FillsTwice
<1> QED
  BY <1>1, <1>2, <1>4, <1>6, <1>7 DEF Keeps

LEMMA ExitCounted ==
  ASSUME NEW how \in {"error", "crash"}, Exit(how)
  PROVE  CountedInv'
<1>1. types' = <<>> /\ objs' = <<>> /\ verdict' \in {"ok", "error", "crash"}
  BY DEF Exit
<1>2. MaxTypes \in Nat
  BY LayoutAssumption
<1> QED
  BY <1>1, <1>2 DEF CountedInv

LEMMA TopFacts ==
  ASSUME LayoutInv, CountedInv, verdict = "ok"
  PROVE  /\ Top \in DOMAIN types /\ This = types[Top] /\ IsType(This)
         /\ Measured(This) /\ InRun(This) /\ Refers(This, Len(objs))
         /\ UnionCounts(Top, types, objs)
BY TopIsType DEF CountedInv, This

LEMMA UnionSame ==
  ASSUME NEW T, UnionCounts(T, types, objs), NEW u, types'[T] = u,
         Keeps(types[T], u), u.used = types[T].used,
         ~u.isStruct => u.index = types[T].index
  PROVE  UnionCounts(T, types', objs)
BY DEF UnionCounts, Keeps

LEMMA StartRunCounted ==
  ASSUME LayoutInv, CountedInv, verdict = "ok", This.used = 0, ~Crash,
         NEW name, NEW size \in {1, 4}, NEW bits \in Nat, StartRun(name, size, bits)
  PROVE  CountedInv'
<1> DEFINE based == Started(size, bits)
           n == Len(objs)
<1>1. \/ types' = [types EXCEPT ![Top] = based] /\ UNCHANGED <<objs, open, verdict>>
      \/ bits # 0 /\ PlaceBitField(based, name, size, bits)
  BY DEF StartRun, Started, Spaced
<1>2. /\ Top \in DOMAIN types /\ This = types[Top] /\ IsType(This)
      /\ Measured(This) /\ Refers(This, n)
      /\ UnionCounts(Top, types, objs)
  BY TopFacts
<1>3. /\ Measured(based) /\ Keeps(This, based) /\ based.used = 0
      /\ based.spaces = This.spaces
      /\ ~This.isStruct => based.index = This.index
  BY <1>2, StartedMeasured
<1>4. Grows(This, based)
  BY <1>2, StartedGrows
<1> HIDE DEF based
<1>5. Refers(based, n) /\ InRun(based)
  BY <1>2, <1>3 DEF Refers, InRun, Keeps
<1>6. This.spaces <= based.spaces
  BY <1>2, <1>3 DEF Measured
<1>7. CASE types' = [types EXCEPT ![Top] = based] /\ UNCHANGED <<objs, open, verdict>>
  <2>1. types'[Top] = based
    BY <1>2, <1>7, <1>4, <1>3, <1>6, TypeLater
  <2>2. UnionCounts(Top, types', objs)
    BY <1>2, <1>3, <2>1, UnionSame DEF Keeps
  <2> QED
    BY <1>2, <1>3, <1>4, <1>5, <1>6, <1>7, <2>2, NoObjectCounted
<1>8. CASE bits # 0 /\ PlaceBitField(based, name, size, bits)
  BY <1>3, <1>4, <1>5, <1>6, <1>8, PlaceBitFieldCounted
<1> QED
  BY <1>1, <1>7, <1>8

LEMMA ContinueRunCounted ==
  ASSUME LayoutInv, CountedInv, verdict = "ok", This.used # 0, ~Crash,
         NEW name, NEW size \in {1, 4}, NEW bits \in Nat, ContinueRun(name, size, bits)
  PROVE  CountedInv'
<1> DEFINE skipped == Skipped(size, bits)
           based == Widened(size, bits)
           anew == Renewed(size, bits)
           n == Len(objs)
<1>1. \/ types' = [types EXCEPT ![Top] = skipped] /\ UNCHANGED <<objs, open, verdict>>
      \/ bits # 0 /\ PlaceBitField(based, name, size, bits)
      \/ bits # 0 /\ This.isStruct /\ PlaceBitField(anew, name, size, bits)
  BY DEF ContinueRun, Skipped, Widened, Renewed
<1>2. /\ Top \in DOMAIN types /\ This = types[Top] /\ IsType(This)
      /\ Measured(This) /\ InRun(This) /\ Refers(This, n)
      /\ UnionCounts(Top, types, objs)
  BY TopFacts
<1>3. CASE types' = [types EXCEPT ![Top] = skipped] /\ UNCHANGED <<objs, open, verdict>>
  <2>1. /\ Measured(skipped) /\ Keeps(This, skipped) /\ skipped.spaces = This.spaces
        /\ skipped.used = 0 \/ (skipped.used = This.used /\ skipped.base = This.base)
    BY <1>2, SkippedMeasured
  <2>2. Grows(This, skipped)
    BY <1>2, SkippedGrows
  <2> HIDE DEF skipped
  <2>3. Refers(skipped, n) /\ InRun(skipped) /\ This.spaces <= skipped.spaces
    BY <1>2, <2>1 DEF Refers, InRun, Keeps, Measured
  <2>4. types'[Top] = skipped
    BY <1>2, <1>3, <2>1, <2>2, <2>3, TypeLater
  <2>5. UnionCounts(Top, types', objs)
    BY <1>2, <2>1, <2>4 DEF UnionCounts, Keeps
  <2> QED
    BY <1>2, <1>3, <2>1, <2>2, <2>3, <2>5, NoObjectCounted
<1>4. CASE bits # 0 /\ PlaceBitField(based, name, size, bits)
  <2>1. /\ Measured(based) /\ Keeps(This, based) /\ based.used = This.used
        /\ based.spaces = This.spaces
    BY <1>2, WidenedMeasured
  <2>2. Grows(This, based)
    BY <1>2, WidenedGrows
  <2> HIDE DEF based
  <2>3. Refers(based, n) /\ This.spaces <= based.spaces
    BY <1>2, <2>1 DEF Refers, Keeps, Measured
  <2> QED
    BY <1>4, <2>1, <2>2, <2>3, PlaceBitFieldCounted
<1>5. CASE bits # 0 /\ This.isStruct /\ PlaceBitField(anew, name, size, bits)
  <2>1. Measured(anew) /\ Keeps(This, anew) /\ anew.used = 0 /\ anew.spaces = This.spaces
    BY <1>2, <1>5, RenewedMeasured
  <2>2. Grows(This, anew)
    BY <1>2, <1>5, RenewedGrows
  <2> HIDE DEF anew
  <2>3. Refers(anew, n) /\ This.spaces <= anew.spaces
    BY <1>2, <2>1 DEF Refers, Keeps, Measured
  <2> QED
    BY <1>5, <2>1, <2>2, <2>3, PlaceBitFieldCounted
<1> QED
  BY <1>1, <1>3, <1>4, <1>5

LEMMA CloseRecordCounted ==
  ASSUME LayoutInv, CountedInv, CloseRecord
  PROVE  CountedInv'
<1> DEFINE u == Finish(This, objs)
           n == Len(objs)
<1>1. /\ verdict = "ok" /\ types' = [types EXCEPT ![Top] = u]
      /\ UNCHANGED <<objs, open, verdict>>
  BY DEF CloseRecord, Declaring
<1>2. /\ Top \in DOMAIN types /\ This = types[Top] /\ IsType(This)
      /\ Measured(This) /\ InRun(This) /\ Refers(This, n)
      /\ UnionCounts(Top, types, objs)
  BY <1>1, TopFacts
<1>3. /\ n \in Nat /\ DOMAIN objs = 1..n
      /\ \A o \in 1..n : objs[o].type \in LLVMTypes
  BY AppendAny DEF LayoutInv, CountedInv, ObjectFits
<1>4. /\ Measured(u) /\ u.used = 0 /\ u.isStruct = This.isStruct
      /\ u.scope = This.scope /\ u.members = Named(This.members, objs)
      /\ This.spaces <= u.spaces
      /\ This.used = 0 => u.index = This.index
  BY <1>2, <1>3, FinishMeasured
<1>5. Grows(This, u)
  BY <1>2, FinishGrows
<1> HIDE DEF u
<1>6. This.members \in Seq(1..n)
  BY <1>2 DEF Refers
<1>7. /\ u.members \in Seq(1..n)
      /\ (\A k \in 1..Len(This.members) : objs[This.members[k]].bits = 0)
           => u.members = This.members
  BY <1>4, <1>6, NamedFacts
<1>8. Refers(u, n) /\ InRun(u)
  BY <1>2, <1>4, <1>7 DEF Refers, InRun
<1>9. types'[Top] = u
  BY <1>1, <1>2
<1>10. UnionCounts(Top, types', objs)
  <2> SUFFICES ASSUME ~This.isStruct,
                      \A o \in DOMAIN objs : objs[o].bits # 0 => Last(objs[o].path).type # Top
               PROVE  /\ u.used = 0 /\ u.index = Len(u.members)
                      /\ \A k \in 1..Len(u.members) :
                           LET e == Last(objs[u.members[k]].path)
                           IN e.type = Top /\ e.index = k - 1
    BY <1>4, <1>9 DEF UnionCounts
  <2>1. /\ This.used = 0 /\ This.index = Len(This.members)
        /\ \A k \in 1..Len(This.members) :
             LET e == Last(objs[This.members[k]].path) IN e.type = Top /\ e.index = k - 1
    BY <1>2 DEF UnionCounts
  <2>2. \A k \in 1..Len(This.members) : This.members[k] \in DOMAIN objs
    BY <1>3, <1>6, ElementOfSeq
  <2>3. u.members = This.members
    BY <1>7, <2>1, <2>2
  <2> QED
    BY <1>4, <2>1, <2>3
<1> QED
  BY <1>1, <1>2, <1>4, <1>5, <1>8, <1>10, NoObjectCounted

LEMMA NewTypeFacts ==
  ASSUME NEW isStruct \in BOOLEAN
  PROVE  LET t == NewStructType(isStruct)
         IN /\ IsType(t) /\ Measured(t) /\ InRun(t) /\ \A n : Refers(t, n)
            /\ t.isStruct = isStruct /\ t.used = 0 /\ t.index = 0 /\ t.members = <<>>
            /\ t.spaces = 0
<1> DEFINE t == NewStructType(isStruct)
<1>1. /\ HasFields(t) /\ t.isStruct = isStruct /\ t.llvm = <<>> /\ t.index = 0
      /\ t.used = 0 /\ t.members = <<>> /\ t.offset = 0 /\ t.align = 1
      /\ t.base = 0 /\ t.spaces = 0 /\ t.scope = [x \in {} |-> 0]
  BY DEF NewStructType, HasFields, Fields
<1> HIDE DEF t
<1>2. /\ \A S : <<>> \in Seq(S)
      /\ Len(<<>>) = 0 /\ 1 \in Aligns
  BY DEF Aligns
<1>3. End(t.llvm) = 0
  BY <1>1, <1>2 DEF End
<1>4. IsType(t) /\ Measured(t) /\ InRun(t)
  BY <1>1, <1>2, <1>3 DEF IsType, IsSeq, Measured, InRun
<1>5. ASSUME NEW n PROVE Refers(t, n)
  BY <1>1, <1>2 DEF Refers
<1> QED
  BY <1>1, <1>4, <1>5 DEF t

LEMMA OpenRecordCounted ==
  ASSUME LayoutInv, CountedInv, NEW isStruct \in RecordKinds, OpenRecord(isStruct)
  PROVE  CountedInv'
<1> DEFINE t == NewStructType(isStruct)
           n == Len(types)
<1>1. /\ verdict = "ok" /\ types' = Append(types, t) /\ n < MaxTypes
      /\ UNCHANGED <<objs, verdict>>
  BY DEF OpenRecord, Declaring
<1>2. isStruct \in BOOLEAN
  BY LayoutAssumption
<1>3. /\ IsType(t) /\ Measured(t) /\ InRun(t) /\ Refers(t, Len(objs))
      /\ t.used = 0 /\ t.index = 0 /\ t.members = <<>>
  BY <1>2, NewTypeFacts
<1> HIDE DEF t
<1>4. /\ Len(types') = n + 1 /\ DOMAIN types' = 1..(n + 1)
      /\ DOMAIN types = 1..n /\ n \in Nat /\ types'[n + 1] = t
      /\ \A T \in DOMAIN types : types'[T] = types[T]
  BY <1>1, AppendAny DEF LayoutInv
<1> HIDE DEF n
<1>5. Later(types, types')
  <2>1. ASSUME NEW T \in DOMAIN types
        PROVE  /\ IsType(types[T]) /\ Grows(types[T], types'[T])
               /\ Measured(types[T]) /\ Measured(types'[T])
               /\ types[T].spaces <= types'[T].spaces
    <3>1. IsType(types[T]) /\ Measured(types[T]) /\ types[T].spaces \in Nat
      BY DEF LayoutInv, CountedInv, Measured
    <3> QED
      BY <1>4, <3>1, GrowsItself
  <2> QED
    BY <1>4, <2>1 DEF Later
<1>6. \A o \in DOMAIN objs : ObjectFits(objs[o], types')
  BY <1>5, FitsStays DEF CountedInv
<1>7. ASSUME NEW T \in DOMAIN types'
      PROVE  /\ Measured(types'[T]) /\ InRun(types'[T]) /\ Refers(types'[T], Len(objs))
             /\ UnionCounts(T, types', objs)
  <2>1. CASE T = n + 1
    BY <1>3, <1>4, <2>1 DEF UnionCounts
  <2>2. CASE T \in DOMAIN types
    BY <1>4, <2>2 DEF CountedInv, UnionCounts
  <2> QED
    BY <1>4, <2>1, <2>2
<1>8. Len(types') <= MaxTypes
  BY <1>1, <1>4, LayoutAssumption DEF n
<1> QED
  BY <1>1, <1>6, <1>7, <1>8 DEF CountedInv

\* The type around an anonymous one, the members taken over.
Merged(t, inner) ==
  [t EXCEPT !.members = Append(@, Fresh),
            !.scope = [n \in DOMAIN @ \cup DOMAIN inner |->
                         IF n \in DOMAIN inner THEN inner[n] ELSE @[n]]]

Joins(t, u, inner) ==
  /\ u.complete = t.complete
  /\ \A x \in DOMAIN u.scope :
       \/ x \in DOMAIN inner /\ u.scope[x] = inner[x]
       \/ x \in DOMAIN t.scope /\ u.scope[x] = t.scope[x]

LEMMA MergedMeasured ==
  ASSUME LayoutInv, CountedInv, NEW T \in DOMAIN types, NEW type \in LLVMTypes,
         NEW inner, \A x \in DOMAIN inner : inner[x] \in 1..Len(objs)
  PROVE  LET t == Ready(types[T], type)
             v == AddElement(Merged(t, inner), type)
             offset == MakeAlign(t.offset, type.align)
         IN /\ Measured(v) /\ v.used = 0 /\ Refers(v, Len(objs) + 1)
            /\ Grows(types[T], v) /\ types[T].spaces <= v.spaces
            /\ v.isStruct = types[T].isStruct
            /\ v.members = Append(types[T].members, Len(objs) + 1)
            /\ t.index \in Nat /\ v.index = t.index + 1
            /\ types[T].used = 0 => t.index = types[T].index
            /\ v.isStruct => t.index + 1 \in 1..Len(v.llvm)
            /\ offset \in Nat
            /\ offset = IF v.isStruct THEN ElementOffset(v.llvm)[t.index + 1] ELSE 0
            /\ Fills(types[T], v) /\ Takes(types[T], v, 8 * offset, 8 * type.size)
            /\ Joins(types[T], v, inner)
<1> DEFINE n == Len(objs)
           t == Ready(types[T], type)
           members == Append(t.members, Fresh)
           scope == [x \in DOMAIN t.scope \cup DOMAIN inner |->
                       IF x \in DOMAIN inner THEN inner[x] ELSE t.scope[x]]
           m == Merged(t, inner)
           v == AddElement(m, type)
<1>1. /\ IsType(types[T]) /\ Measured(types[T]) /\ Refers(types[T], n) /\ n \in Nat
  BY AppendAny DEF LayoutInv, CountedInv
<1>2. /\ Measured(t) /\ Keeps(types[T], t) /\ t.used = 0 /\ t.base = 0
      /\ types[T].spaces <= t.spaces /\ Fills(types[T], t)
      /\ types[T].used = 0 => t.index = types[T].index
  BY <1>1, ReadyMeasured
<1>3. Grows(types[T], t) /\ IsType(t)
  BY <1>1, ReadyGrows DEF Grows
<1> HIDE DEF t
<1>4. m = [t EXCEPT !.members = members, !.scope = scope]
  BY DEF Merged
<1>5. members \in Seq(1..(n + 1)) /\ \A x \in DOMAIN scope : scope[x] \in 1..(n + 1)
  <2>1. t.members \in Seq(1..n) /\ 1..n \subseteq 1..(n + 1) /\ n + 1 \in 1..(n + 1)
    BY <1>1, <1>2 DEF Refers, Keeps
  <2>2. t.members \in Seq(1..(n + 1))
    BY <2>1, SeqMonotonic
  <2>3. \A x \in DOMAIN t.scope : t.scope[x] \in 1..n
    BY <1>1, <1>2 DEF Refers, Keeps
  <2> QED
    BY <2>1, <2>2, <2>3 DEF Fresh
<1> HIDE DEF members, scope, m
<1>6. Grows(t, m)
  BY <1>3, <1>4, ScopeOnly
<1>7. /\ HasFields(m) /\ m.isStruct = t.isStruct /\ m.llvm = t.llvm /\ m.offset = t.offset
      /\ m.align = t.align /\ m.spaces = t.spaces /\ m.index = t.index
      /\ m.used = t.used /\ m.base = t.base /\ m.members = members /\ m.scope = scope
      /\ m.complete = t.complete
  BY <1>3, <1>4 DEF IsType, HasFields, Fields
<1>8. Measured(m) /\ IsType(m)
  BY <1>2, <1>6, <1>7 DEF Measured, Grows
<1>9. /\ Measured(v) /\ Keeps(m, v) /\ v.used = m.used
      /\ v.spaces = m.spaces /\ v.index = m.index + 1
      /\ m.isStruct => ElementOffset(v.llvm)[m.index + 1] = MakeAlign(m.offset, type.align)
      /\ m.used = 0 => Fills(m, v)
      /\ m.isStruct => /\ m.offset <= MakeAlign(m.offset, type.align)
                       /\ MakeAlign(m.offset, type.align) + type.size = End(v.llvm)
      /\ ~m.isStruct => type.size <= End(v.llvm)
  BY <1>8, ElementMeasured
<1>10. /\ Grows(m, v)
       /\ m.isStruct => m.index + 1 \in DOMAIN v.llvm
  BY <1>8, AddElementGrows
<1> HIDE DEF v
<1>11. Grows(types[T], v)
  BY <1>1, <1>3, <1>6, <1>8, <1>10, GrowsTwice
<1>12. type.align \in Aligns
  BY DEF LLVMTypes
<1>13. /\ MakeAlign(t.offset, type.align) \in Nat /\ t.index \in Nat
       /\ ~t.isStruct => MakeAlign(t.offset, type.align) = 0
  BY <1>2, <1>12, AlignFacts DEF Measured
<1>14. Refers(v, n + 1)
  BY <1>2, <1>5, <1>7, <1>9 DEF Refers, Keeps
<1>15. v.isStruct => t.index + 1 \in 1..Len(v.llvm)
  <2>1. DOMAIN v.llvm = 1..Len(v.llvm)
    BY <1>9 DEF Measured
  <2> QED
    BY <1>7, <1>9, <1>10, <2>1 DEF Keeps
<1>16. MakeAlign(t.offset, type.align)
         = IF v.isStruct THEN ElementOffset(v.llvm)[t.index + 1] ELSE 0
  BY <1>7, <1>9, <1>13 DEF Keeps
<1>17. v.members = Append(types[T].members, n + 1)
  BY <1>2, <1>7, <1>9 DEF Keeps, members, Fresh
<1>18. Fills(types[T], v)
  <2>1. Fills(t, m)
    <3>1. t.index <= m.index /\ t.used <= m.used
      BY <1>2, <1>7 DEF Measured
    <3> QED
      BY <1>2, <1>7, <1>8, <3>1, FillsSame
  <2>2. Fills(m, v)
    BY <1>2, <1>7, <1>9
  <2> QED
    BY <1>2, <2>1, <2>2, FillsTwice
<1>19. Takes(types[T], v, 8 * MakeAlign(t.offset, type.align), 8 * type.size)
  <2> DEFINE at == MakeAlign(t.offset, type.align)
  <2>1. /\ v.used = 0 /\ v.isStruct = t.isStruct /\ t.isStruct = types[T].isStruct
        /\ m.isStruct = t.isStruct
    BY <1>2, <1>7, <1>9 DEF Keeps
  <2>2. /\ type.size \in Nat /\ End(v.llvm) \in Nat /\ End(t.llvm) \in Nat
        /\ Room(types[T]) \in Nat
    BY <1>1, <1>2, <1>9, EndIsNat, RoomIsNat DEF LLVMTypes, Measured
  <2>3. Room(v) = 8 * End(v.llvm)
    BY <2>1, <2>2 DEF Room
  <2>4. Room(types[T]) <= Room(t) /\ Room(t) = 8 * End(t.llvm)
    BY <1>2, <2>1, <2>2 DEF Fills, Room
  <2>5. CASE t.isStruct
    <3>1. t.offset = End(t.llvm)
      BY <1>2, <2>5 DEF Measured
    <3>2. at \in Nat /\ End(t.llvm) <= at /\ at + type.size = End(v.llvm)
      BY <1>7, <1>9, <1>13, <2>1, <2>5, <3>1
    <3> HIDE DEF at
    <3>3. /\ 8 * at \in Nat /\ 8 * type.size \in Nat /\ 8 * at + 8 * type.size <= Room(v)
          /\ Room(types[T]) <= 8 * at
      BY <2>2, <2>3, <2>4, <3>2
    <3> QED
      BY <3>3 DEF Takes, at
  <2>6. CASE ~t.isStruct
    <3>1. at = 0 /\ type.size <= End(v.llvm)
      BY <1>9, <1>13, <2>1, <2>6
    <3>2. 8 * at \in Nat /\ 8 * type.size \in Nat /\ 8 * at + 8 * type.size <= Room(v)
      BY <2>2, <2>3, <3>1
    <3> QED
      BY <2>1, <2>6, <3>1, <3>2 DEF Takes
  <2> QED
    BY <2>5, <2>6
<1>20. Joins(types[T], v, inner)
  BY <1>2, <1>7, <1>9 DEF Keeps, Joins, scope
<1> QED
  BY <1>2, <1>7, <1>9, <1>11, <1>13, <1>14, <1>15, <1>16, <1>17, <1>18, <1>19, <1>20
     DEF Keeps, t, m, v, n

LEMMA MergeAnonymousCounted ==
  ASSUME LayoutInv, CountedInv, MergeAnonymous, ~Error
  PROVE  CountedInv'
<1> DEFINE n      == Len(objs)
           type   == Record(Top)
           t      == Ready(types[Outer], type)
           offset == MakeAlign(t.offset, type.align)
           inner  == This.scope
           e      == [type |-> Outer, index |-> t.index]
           where(o) == objs[o].offset + offset
           Moved(o) == [objs[o] EXCEPT !.offset = where(o), !.path = <<e>> \o objs[o].path]
           moved  == [o \in DOMAIN objs |-> IF o \in Range(inner) THEN Moved(o) ELSE objs[o]]
           u      == AddElement(Merged(t, inner), type)
           new    == Object(NoName, type, 0, 0, offset, Outer, t.index)
<1>1. /\ Inside /\ objs' = Append(moved, new)
      /\ types' = [types EXCEPT ![Outer] = u] /\ UNCHANGED verdict
  BY DEF MergeAnonymous, Merged
<1>2. Outer \in DOMAIN types /\ verdict = "ok"
  BY <1>1, OuterIsType
<1>3. Top \in DOMAIN types /\ Refers(This, n)
  BY <1>2, TopFacts
<1>4. type \in LLVMTypes
  BY <1>3, RecordType
<1> HIDE DEF type
<1>5. \A x \in DOMAIN inner : inner[x] \in 1..n
  BY <1>3 DEF Refers
<1> HIDE DEF inner
<1>6. /\ Measured(u) /\ u.used = 0 /\ Refers(u, n + 1)
      /\ Grows(types[Outer], u) /\ types[Outer].spaces <= u.spaces
      /\ u.isStruct = types[Outer].isStruct
      /\ u.members = Append(types[Outer].members, n + 1)
      /\ t.index \in Nat /\ u.index = t.index + 1
      /\ types[Outer].used = 0 => t.index = types[Outer].index
      /\ u.isStruct => t.index + 1 \in 1..Len(u.llvm)
      /\ offset \in Nat
      /\ offset = IF u.isStruct THEN ElementOffset(u.llvm)[t.index + 1] ELSE 0
  BY <1>2, <1>4, <1>5, MergedMeasured
<1>7. /\ new.type = type /\ new.bits = 0 /\ new.path = <<e>> /\ new.offset = offset
  BY DEF Object
<1> HIDE DEF new, u, offset
<1>8. e \in Entries /\ e.type = Outer /\ e.index = t.index
  BY <1>2, <1>6, TypeNumber DEF Entries
<1>9. Later(types, types') /\ types'[Outer] = u /\ Outer \in DOMAIN types'
  BY <1>1, <1>2, <1>6, TypeLater
<1> HIDE DEF e, t
<1>10. Reached(e, types') /\ Leap(e, types') = offset
  BY <1>6, <1>8, <1>9 DEF Reached, Leap
<1>11. /\ n \in Nat /\ DOMAIN objs = 1..n /\ IsSeq(objs)
  BY AppendAny DEF LayoutInv
<1>12. ASSUME NEW o \in DOMAIN objs
       PROVE  /\ moved[o].bits = objs[o].bits
              /\ Last(moved[o].path) = Last(objs[o].path)
              /\ ObjectFits(moved[o], types')
  <2>1. IsObject(objs[o]) /\ ObjectFits(objs[o], types')
    BY <1>9, FitsStays DEF LayoutInv, CountedInv
  <2>2. moved[o] = objs[o] \/ moved[o] = Moved(o)
    <3> HIDE DEF Moved
    <3> QED
      OBVIOUS
  <2> HIDE DEF moved
  <2>3. CASE moved[o] = Moved(o)
    <3> DEFINE m == moved[o]
               x == objs[o]
               w == where(o)
    <3>1. m = [x EXCEPT !.offset = w, !.path = <<e>> \o x.path] /\ IsObject(x)
      BY <2>1, <2>3
    <3>2. w = x.offset + offset /\ ObjectFits(x, types')
      BY <2>1
    <3> HIDE DEF m, x, w
    <3>3. /\ m.type = x.type /\ m.bits = x.bits /\ m.offset = w
          /\ m.path = <<e>> \o x.path /\ Last(m.path) = Last(x.path)
      <4>1. x = [f \in {"name", "type", "bits", "begin", "offset", "path"} |-> x[f]]
        BY <3>1 DEF IsObject
      <4>2. /\ m.type = x.type /\ m.bits = x.bits /\ m.offset = w
            /\ m.path = <<e>> \o x.path
        BY <3>1, <4>1
      <4> QED
        BY <3>1, <4>2, PrependAny DEF IsObject
    <3>4. ObjectFits(m, types')
      BY <1>6, <1>8, <1>10, <3>2, <3>3, MovedFits
    <3> QED
      BY <3>3, <3>4 DEF m, x
  <2> QED
    BY <2>1, <2>2, <2>3
<1>13. IsSeq(moved) /\ Len(moved) = n
  <2> DEFINE S == {moved[o] : o \in DOMAIN objs}
  <2>1. moved \in [1..n -> S]
    <3> HIDE DEF Moved
    <3> QED
      BY <1>11
  <2> HIDE DEF moved, S, n
  <2>2. moved \in Seq(S) /\ Len(moved) = n
    BY <1>11, <2>1
  <2> QED
    BY <2>2 DEF IsSeq
<1> HIDE DEF moved
<1>14. /\ IsSeq(objs') /\ Len(objs') = n + 1 /\ DOMAIN objs' = 1..(n + 1)
       /\ objs'[n + 1] = new /\ \A o \in DOMAIN objs : objs'[o] = moved[o]
  BY <1>1, <1>11, <1>13, AppendAny
<1>15. ObjectFits(new, types')
  BY <1>4, <1>6, <1>7, <1>8, <1>10, NewFits
<1>16. \A o \in DOMAIN objs' : ObjectFits(objs'[o], types')
  <2>1. \A o \in 1..(n + 1) : o = n + 1 \/ o \in DOMAIN objs
    BY <1>11
  <2> QED
    BY <1>12, <1>14, <1>15, <2>1
<1>17. Last(objs'[n + 1].path) = [type |-> Outer, index |-> t.index]
  BY <1>7, <1>14 DEF Last, e
<1>18. UnionCounts(Outer, types', objs')
  BY <1>2, <1>6, <1>9, <1>12, <1>14, <1>17, OneMoreCounts
<1>19. InRun(u) /\ Refers(u, Len(objs')) /\ Len(objs) <= Len(objs')
  BY <1>6, <1>11, <1>14 DEF InRun
<1> QED
  BY <1>1, <1>2, <1>6, <1>12, <1>14, <1>16, <1>18, <1>19, StepCounted

-----------------------------------------------------------------------------
\* Where two paths part.

\* A set of numbers up to a bound has a largest.
LEMMA Largest ==
  ASSUME NEW S, S \subseteq Nat, S # {}, NEW n \in Nat, \A x \in S : x <= n
  PROVE  Max(S) \in S /\ \A y \in S : y <= Max(S)
<1> DEFINE Has(m) == (\E y \in S : y <= m) => \E x \in S : \A y \in S : y <= m => y <= x
           Good == {m \in Nat : Has(m)}
<1>1. 0 \in Good
  <2>1. ASSUME NEW y \in S, y <= 0 PROVE \A z \in S : z <= 0 => z <= y
    BY <2>1
  <2> QED
    BY <2>1
<1>2. ASSUME NEW m \in Nat, m \in Good PROVE m + 1 \in Good
  <2>1. CASE m + 1 \in S
    BY <2>1
  <2>2. CASE m + 1 \notin S
    <3>1. \A y \in S : y <= m + 1 => y <= m
      BY <2>2
    <3> QED
      BY <1>2, <3>1
  <2> QED
    BY <2>1, <2>2
<1> HIDE DEF Good
<1>3. Nat \subseteq Good
  BY <1>1, <1>2, NatSetInduction
<1>4. \E x \in S : \A y \in S : x >= y
  <2>1. Has(n)
    BY <1>3 DEF Good
  <2>2. PICK x \in S : \A y \in S : y <= n => y <= x
    BY <2>1
  <2> QED
    BY <2>2
<1>5. Max(S) = CHOOSE x \in S : \A y \in S : x >= y
  BY DEF Max
<1>6. Max(S) \in S /\ \A y \in S : Max(S) >= y
  BY <1>4, <1>5
<1> QED
  BY <1>6

\* How long two paths go together, the step they part at included.
Together(p, q, k) == k \in DOMAIN q /\ SubSeq(p, 1, k - 1) = SubSeq(q, 1, k - 1)

Fork(p, q) == Max({k \in DOMAIN p : Together(p, q, k)})

\* Paths that part in a union.
Shared(p, q, ts) == ~ts[p[Fork(p, q)].type].isStruct

\* Up to k the steps before are the same.
Alike(p, q, k) ==
  k \in 1..Len(p) /\ k \in 1..Len(q) /\ \A j \in 1..(k - 1) : p[j] = q[j]

LEMMA TogetherAlike ==
  ASSUME NEW S, NEW p \in Seq(S), NEW q \in Seq(S), NEW k
  PROVE  k \in DOMAIN p /\ Together(p, q, k) <=> Alike(p, q, k)
<1>1. /\ DOMAIN p = 1..Len(p) /\ DOMAIN q = 1..Len(q)
      /\ Len(p) \in Nat /\ Len(q) \in Nat
  OBVIOUS
<1>2. ASSUME k \in 1..Len(p), k \in 1..Len(q)
      PROVE  (SubSeq(p, 1, k - 1) = SubSeq(q, 1, k - 1))
               <=> \A j \in 1..(k - 1) : p[j] = q[j]
  <2> DEFINE a == SubSeq(p, 1, k - 1)
             b == SubSeq(q, 1, k - 1)
  <2>1. /\ a = [j \in 1..(k - 1) |-> p[j]] /\ b = [j \in 1..(k - 1) |-> q[j]]
    BY <1>1, <1>2
  <2> HIDE DEF a, b
  <2>2. ASSUME a = b, NEW j \in 1..(k - 1) PROVE p[j] = q[j]
    <3>1. a[j] = p[j] /\ b[j] = q[j]
      BY <2>1
    <3> QED
      BY <2>2, <3>1
  <2>3. (\A j \in 1..(k - 1) : p[j] = q[j]) => a = b
    BY <2>1
  <2> QED
    BY <2>2, <2>3 DEF a, b
<1> QED
  BY <1>1, <1>2 DEF Together, Alike

LEMMA ForkFacts ==
  ASSUME NEW S, NEW p \in Seq(S), NEW q \in Seq(S), p # <<>>, q # <<>>
  PROVE  /\ Fork(p, q) \in Nat /\ Alike(p, q, Fork(p, q))
         /\ \A k : Alike(p, q, k) => k <= Fork(p, q)
<1> DEFINE K == {k \in DOMAIN p : Together(p, q, k)}
<1>1. \A k : k \in K <=> Alike(p, q, k)
  BY TogetherAlike
<1>2. Len(p) \in Nat /\ Len(q) \in Nat /\ 1 <= Len(p) /\ 1 <= Len(q)
  OBVIOUS
<1>3. Fork(p, q) = Max(K)
  BY DEF Fork
<1> HIDE DEF K
<1>4. Alike(p, q, 1)
  BY <1>2 DEF Alike
<1>5. K \subseteq Nat /\ K # {} /\ \A k \in K : k <= Len(p)
  BY <1>1, <1>2, <1>4 DEF Alike
<1>6. Max(K) \in K /\ \A k \in K : k <= Max(K)
  BY <1>2, <1>5, Largest
<1> QED
  BY <1>1, <1>3, <1>5, <1>6

LEMMA ForkIs ==
  ASSUME NEW S, NEW p \in Seq(S), NEW q \in Seq(S), p # <<>>, q # <<>>,
         NEW k \in Nat, Alike(p, q, k), \A j : Alike(p, q, j) => j <= k
  PROVE  Fork(p, q) = k
<1>1. Fork(p, q) \in Nat /\ Fork(p, q) <= k /\ k <= Fork(p, q)
  BY ForkFacts
<1> QED
  BY <1>1

\* Paths that part at once.
LEMMA ForkAtOnce ==
  ASSUME NEW S, NEW p \in Seq(S), NEW q \in Seq(S), p # <<>>, q # <<>>,
         Len(p) = 1 \/ Len(q) = 1 \/ p[1] # q[1]
  PROVE  Fork(p, q) = 1
<1>1. Len(p) \in Nat /\ Len(q) \in Nat /\ 1 <= Len(p) /\ 1 <= Len(q)
  OBVIOUS
<1>2. Alike(p, q, 1)
  BY <1>1 DEF Alike
<1>3. ASSUME NEW k, Alike(p, q, k) PROVE k <= 1
  <2>1. k \in Nat /\ k <= Len(p) /\ k <= Len(q) /\ \A j \in 1..(k - 1) : p[j] = q[j]
    BY <1>1, <1>3 DEF Alike
  <2>2. ASSUME k > 1 PROVE p[1] = q[1] /\ Len(p) # 1 /\ Len(q) # 1
    <3>1. 1 \in 1..(k - 1)
      BY <2>1, <2>2
    <3>2. p[1] = q[1]
      BY <2>1, <3>1
    <3>3. Len(p) # 1 /\ Len(q) # 1
      <4> DEFINE a == Len(p)
                 b == Len(q)
      <4>1. a \in Nat /\ b \in Nat /\ k \in Nat /\ k <= a /\ k <= b /\ k > 1
        BY <1>1, <2>1, <2>2
      <4> HIDE DEF a, b
      <4>2. a # 1 /\ b # 1
        BY <4>1
      <4> QED
        BY <4>2 DEF a, b
    <3> QED
      BY <3>2, <3>3
  <2> QED
    BY <2>1, <2>2
<1> QED
  BY <1>2, <1>3, ForkIs

\* The path m is the step e and then p.
Ahead(e, p, m) == m = <<e>> \o p

\* The same step in front of both.
LEMMA ForkMoved ==
  ASSUME NEW p \in Seq(Entries), NEW q \in Seq(Entries), p # <<>>, q # <<>>,
         NEW e \in Entries,
         NEW m, Ahead(e, p, m), NEW n, Ahead(e, q, n)
  PROVE  Fork(m, n) = Fork(p, q) + 1 /\ m[Fork(m, n)] = p[Fork(p, q)]
<1> DEFINE f == Fork(p, q)
<1>1. /\ Len(p) \in Nat /\ Len(q) \in Nat /\ m \in Seq(Entries) /\ n \in Seq(Entries)
      /\ Len(m) = Len(p) + 1 /\ Len(n) = Len(q) + 1 /\ m # <<>> /\ n # <<>>
      /\ m[1] = e /\ n[1] = e
      /\ \A j \in 1..Len(p) : m[j + 1] = p[j]
      /\ \A j \in 1..Len(q) : n[j + 1] = q[j]
  BY DEF Ahead
<1>2. f \in Nat /\ Alike(p, q, f) /\ \A k : Alike(p, q, k) => k <= f
  BY ForkFacts
<1> HIDE DEF f
<1>3. Alike(m, n, f + 1)
  <2>1. ASSUME NEW j \in 1..f PROVE m[j] = n[j]
    <3>1. CASE j = 1
      BY <1>1, <3>1
    <3>2. CASE j # 1
      <4>1. j - 1 \in 1..(f - 1) /\ j - 1 \in 1..Len(p) /\ j - 1 \in 1..Len(q)
        BY <1>1, <1>2, <3>2 DEF Alike
      <4>2. p[j - 1] = q[j - 1]
        BY <1>2, <4>1 DEF Alike
      <4>3. m[(j - 1) + 1] = p[j - 1] /\ n[(j - 1) + 1] = q[j - 1] /\ (j - 1) + 1 = j
        BY <1>1, <4>1
      <4> QED
        BY <4>2, <4>3
    <3> QED
      BY <3>1, <3>2
  <2> QED
    BY <1>1, <1>2, <2>1 DEF Alike
<1>4. ASSUME NEW k, Alike(m, n, k) PROVE k <= f + 1
  <2>1. CASE k = 1
    BY <1>2, <2>1
  <2>2. CASE k # 1
    <3>1. k \in Nat /\ k - 1 \in 1..Len(p) /\ k - 1 \in 1..Len(q)
      BY <1>1, <1>4, <2>2 DEF Alike
    <3>2. ASSUME NEW j \in 1..((k - 1) - 1) PROVE p[j] = q[j]
      <4>1. j \in 1..Len(p) /\ j \in 1..Len(q) /\ j + 1 \in 1..(k - 1)
        BY <1>1, <3>1
      <4>2. m[j + 1] = n[j + 1]
        BY <1>4, <4>1 DEF Alike
      <4> QED
        BY <1>1, <4>1, <4>2
    <3>3. Alike(p, q, k - 1)
      BY <3>1, <3>2 DEF Alike
    <3> QED
      BY <1>2, <3>1, <3>3
  <2> QED
    BY <2>1, <2>2
<1> DEFINE c == f + 1
<1>5. c \in Nat /\ Alike(m, n, c) /\ \A k : Alike(m, n, k) => k <= c
  BY <1>2, <1>3, <1>4
<1>6. m \in Seq(Entries) /\ n \in Seq(Entries) /\ m # <<>> /\ n # <<>>
  BY <1>1
<1> HIDE DEF c
<1>7. Fork(m, n) = f + 1
  <2>1. Fork(m, n) = c
    BY ONLY <1>5, <1>6, ForkIs
  <2> QED
    BY <2>1 DEF c
<1>8. m[f + 1] = p[f]
  BY <1>1, <1>2 DEF Alike
<1> QED
  BY <1>7, <1>8 DEF f

\* How many bits a member has.
Span(o) == IF o.bits # 0 THEN o.bits ELSE 8 * o.type.size

\* A step of a path finds an element, or the run that becomes the next one.
Met(e, ts) ==
  /\ e.type \in DOMAIN ts
  /\ ts[e.type].isStruct =>
       \/ e.index + 1 \in 1..Len(ts[e.type].llvm)
       \/ e.index = Len(ts[e.type].llvm) /\ ts[e.type].used # 0

Spot(e, ts) ==
  IF ~ts[e.type].isStruct THEN 0
  ELSE IF e.index + 1 \in 1..Len(ts[e.type].llvm)
       THEN ElementOffset(ts[e.type].llvm)[e.index + 1]
  ELSE End(ts[e.type].llvm)

\* f is what is left of the way along a path.
Way(f, path, ts) ==
  /\ f \in [1..(Len(path) + 1) -> Nat] /\ f[Len(path) + 1] = 0
  /\ \A k \in 1..Len(path) : f[k] = Spot(path[k], ts) + f[k + 1]

LiesAt(path, n, ts) == \E f : Way(f, path, ts) /\ f[1] = n

LEMMA SpotStays ==
  ASSUME NEW e, NEW ts, NEW us, Met(e, ts), e.type \in DOMAIN us,
         Fills(ts[e.type], us[e.type])
  PROVE  Met(e, us) /\ Spot(e, us) = Spot(e, ts)
<1> DEFINE t == ts[e.type]
           u == us[e.type]
<1>1. /\ u.isStruct = t.isStruct /\ t.llvm \in Seq(LLVMTypes) /\ u.llvm \in Seq(LLVMTypes)
      /\ Fills(t, u)
  BY DEF Fills
<1> HIDE DEF t, u
<1>2. Len(t.llvm) \in Nat /\ Len(u.llvm) \in Nat
  BY <1>1
<1>3. CASE ~t.isStruct
  BY <1>1, <1>3 DEF Met, Spot, t, u
<1>4. CASE t.isStruct /\ e.index + 1 \in 1..Len(t.llvm)
  <2>1. /\ Len(t.llvm) <= Len(u.llvm) /\ \A i \in 1..Len(t.llvm) : u.llvm[i] = t.llvm[i]
    BY <1>1, <1>4 DEF Fills
  <2>2. ElementOffset(u.llvm)[e.index + 1] = ElementOffset(t.llvm)[e.index + 1]
    BY <1>1, <1>4, <2>1, OffsetsStay
  <2>3. e.index + 1 \in 1..Len(u.llvm)
    BY <1>2, <1>4, <2>1
  <2> QED
    BY <1>1, <1>4, <2>2, <2>3 DEF Met, Spot, t, u
<1>5. CASE t.isStruct /\ e.index + 1 \notin 1..Len(t.llvm)
  <2>1. e.index = Len(t.llvm) /\ t.used # 0
    BY <1>5 DEF Met, t
  <2>2. CASE u.llvm = t.llvm /\ u.used # 0
    BY <1>1, <1>5, <2>1, <2>2 DEF Met, Spot, t, u
  <2>3. CASE Len(t.llvm) + 1 <= Len(u.llvm) /\ u.llvm[Len(t.llvm) + 1].align = 1
    <3> DEFINE n == Len(t.llvm)
               at == ElementOffset(u.llvm)
    <3>1. /\ n \in Nat /\ n + 1 \in 1..Len(u.llvm) /\ (n + 1) - 1 = n
          /\ Len(t.llvm) <= Len(u.llvm) /\ \A i \in 1..Len(t.llvm) : u.llvm[i] = t.llvm[i]
      BY <1>1, <1>2, <1>5, <2>3 DEF Fills
    <3>2. at[n + 1] = MakeAlign(IF n + 1 = 1 THEN 0 ELSE at[(n + 1) - 1] + u.llvm[(n + 1) - 1].size,
                                u.llvm[n + 1].align)
      BY <1>1, <3>1, ElementOffsets
    <3>3. n # 0 => at[n] = ElementOffset(t.llvm)[n] /\ u.llvm[n] = t.llvm[n]
      <4>1. ASSUME n # 0 PROVE n \in 1..Len(t.llvm)
        BY <3>1, <4>1
      <4>2. \A i \in 1..Len(t.llvm) : at[i] = ElementOffset(t.llvm)[i]
        BY <1>1, <3>1, OffsetsStay
      <4> HIDE DEF n, at
      <4> QED
        BY <3>1, <4>1, <4>2
    <3>4. at[n + 1] = MakeAlign(End(t.llvm), 1)
      <4>1. CASE n = 0
        BY <2>3, <3>2, <4>1 DEF End
      <4>2. CASE n # 0
        <5>1. n + 1 # 1
          BY <3>1, <4>2
        <5> QED
          BY <2>3, <3>1, <3>2, <3>3, <4>2, <5>1 DEF End
      <4> QED
        BY <4>1, <4>2
    <3>5. MakeAlign(End(t.llvm), 1) = End(t.llvm)
      BY <1>1, EndIsNat DEF MakeAlign
    <3>6. e.index + 1 = n + 1 /\ e.index + 1 \in 1..Len(u.llvm)
      BY <2>1, <3>1
    <3> QED
      BY <1>1, <1>5, <3>4, <3>5, <3>6 DEF Met, Spot, t, u
  <2> QED
    BY <1>1, <1>5, <2>1, <2>2, <2>3 DEF Fills
<1> QED
  BY <1>3, <1>4, <1>5

LEMMA SpotIsNat ==
  ASSUME NEW e, NEW ts, Met(e, ts), ts[e.type].llvm \in Seq(LLVMTypes)
  PROVE  Spot(e, ts) \in Nat
BY EndIsNat, ElementOffsets DEF Spot

LEMMA ReachedMeets ==
  ASSUME NEW e, NEW ts, Reached(e, ts)
  PROVE  Met(e, ts)
BY DEF Reached, Met

LEMMA ReachedFills ==
  ASSUME NEW e, NEW ts, NEW us, Reached(e, ts), e.type \in DOMAIN us,
         Fills(ts[e.type], us[e.type])
  PROVE  Reached(e, us)
<1> DEFINE t == ts[e.type]
           u == us[e.type]
<1>1. /\ u.isStruct = t.isStruct /\ t.llvm \in Seq(LLVMTypes) /\ u.llvm \in Seq(LLVMTypes)
      /\ t.isStruct => Len(t.llvm) <= Len(u.llvm) /\ e.index + 1 \in 1..Len(t.llvm)
  BY DEF Fills, Reached
<1> HIDE DEF t, u
<1>2. Len(t.llvm) \in Nat /\ Len(u.llvm) \in Nat
  BY <1>1
<1>3. t.isStruct => e.index + 1 \in 1..Len(u.llvm)
  BY <1>1, <1>2
<1> QED
  BY <1>1, <1>3 DEF Reached, t, u

-----------------------------------------------------------------------------
\* Members that are apart.

\* o is in the type T, its bits among those taken; its path goes through types
\* that are closed, and through an element of T unless it is all of the path.
Within(o, T, n, ts) ==
  /\ o.path \in Seq(Entries) /\ o.path # <<>> /\ o.path[1].type = T
  /\ Met(o.path[1], ts) /\ \A k \in 2..Len(o.path) : Reached(o.path[k], ts)
  /\ Len(o.path) = 1 \/ o.path[1].index < ts[T].index
  /\ LiesAt(o.path, n, ts)
  /\ o.begin \in Nat /\ Span(o) \in Nat /\ 8 * n + o.begin + Span(o) <= Room(ts[T])

Clear(a, m, b, n) ==
  \/ 8 * m + a.begin + Span(a) <= 8 * n + b.begin
  \/ 8 * n + b.begin + Span(b) <= 8 * m + a.begin

\* at is the byte each object is at, in the type that is open around it.
Settled(T, at, ts, os) ==
  /\ \A a \in Range(ts[T].scope) : at[a] \in Nat /\ Within(os[a], T, at[a], ts)
  /\ \A a, b \in Range(ts[T].scope) :
       a # b /\ ~Shared(os[a].path, os[b].path, ts) => Clear(os[a], at[a], os[b], at[b])

\* What was there is there.
Filled(ts, us) ==
  /\ DOMAIN ts \subseteq DOMAIN us
  /\ \A T \in DOMAIN ts : Fills(ts[T], us[T])

LEMMA WithinMeets ==
  ASSUME NEW o, NEW T, NEW n, NEW ts, Within(o, T, n, ts)
  PROVE  /\ Len(o.path) \in Nat /\ 1 <= Len(o.path) /\ T \in DOMAIN ts
         /\ \A k \in 1..Len(o.path) : Met(o.path[k], ts)
<1>1. Len(o.path) \in Nat /\ 1 <= Len(o.path)
  BY DEF Within
<1>2. T \in DOMAIN ts
  BY DEF Within, Met
<1>3. ASSUME NEW k \in 1..Len(o.path) PROVE Met(o.path[k], ts)
  <2>1. CASE k = 1
    BY <2>1 DEF Within
  <2>2. CASE k # 1
    <3>1. k \in 2..Len(o.path)
      BY <1>1, <2>2
    <3> QED
      BY <3>1, ReachedMeets DEF Within
  <2> QED
    BY <2>1, <2>2
<1> QED
  BY <1>1, <1>2, <1>3

LEMMA WithinStays ==
  ASSUME NEW o, NEW T, NEW n \in Nat, NEW ts, NEW us, Within(o, T, n, ts), Filled(ts, us)
  PROVE  Within(o, T, n, us)
<1>1. /\ Len(o.path) \in Nat /\ 1 <= Len(o.path) /\ T \in DOMAIN ts
      /\ \A k \in 1..Len(o.path) : Met(o.path[k], ts)
  BY WithinMeets
<1>2. \A k \in 1..Len(o.path) :
        /\ o.path[k].type \in DOMAIN us
        /\ Fills(ts[o.path[k].type], us[o.path[k].type])
  BY <1>1 DEF Filled, Met
<1>3. \A k \in 1..Len(o.path) :
        Met(o.path[k], us) /\ Spot(o.path[k], us) = Spot(o.path[k], ts)
  BY <1>1, <1>2, SpotStays
<1>4. ASSUME NEW k \in 2..Len(o.path) PROVE Reached(o.path[k], us)
  <2>1. k \in 1..Len(o.path)
    BY <1>1
  <2> QED
    BY <1>2, <2>1, ReachedFills DEF Within
<1>5. LiesAt(o.path, n, us)
  <2>1. PICK f : Way(f, o.path, ts) /\ f[1] = n
    BY DEF Within, LiesAt
  <2>2. Way(f, o.path, us)
    BY <1>3, <2>1 DEF Way
  <2> QED
    BY <2>1, <2>2 DEF LiesAt
<1>6. Len(o.path) = 1 \/ o.path[1].index < us[T].index
  <2>1. CASE Len(o.path) = 1
    BY <2>1
  <2>2. CASE o.path[1].index < ts[T].index
    <3>1. ts[T].index \in Nat /\ us[T].index \in Nat /\ ts[T].index <= us[T].index
      BY <1>1 DEF Filled, Fills
    <3>2. o.path[1] \in Entries
      BY <1>1, ElementOfSeq DEF Within
    <3>3. o.path[1].index \in Nat
      BY <3>2 DEF Entries
    <3> QED
      BY <2>2, <3>1, <3>3
  <2> QED
    BY <2>1, <2>2 DEF Within
<1>7. 8 * n + o.begin + Span(o) <= Room(us[T])
  <2>1. Room(ts[T]) \in Nat /\ Room(us[T]) \in Nat /\ Room(ts[T]) <= Room(us[T])
    BY <1>1, RoomIsNat DEF Filled, Fills
  <2>2. o.begin \in Nat /\ Span(o) \in Nat /\ 8 * n + o.begin + Span(o) <= Room(ts[T])
    BY DEF Within
  <2> QED
    BY <2>1, <2>2
<1>8. 1 \in 1..Len(o.path)
  BY <1>1
<1> QED
  BY <1>3, <1>4, <1>5, <1>6, <1>7, <1>8 DEF Within

LEMMA SharedStays ==
  ASSUME NEW a, NEW m, NEW b, NEW n, NEW T, NEW ts, NEW us,
         Within(a, T, m, ts), Within(b, T, n, ts), Filled(ts, us)
  PROVE  Shared(a.path, b.path, us) <=> Shared(a.path, b.path, ts)
<1>1. /\ a.path \in Seq(Entries) /\ b.path \in Seq(Entries)
      /\ a.path # <<>> /\ b.path # <<>>
  BY DEF Within
<1> DEFINE k == Fork(a.path, b.path)
<1>2. k \in 1..Len(a.path)
  BY <1>1, ForkFacts DEF Alike
<1> HIDE DEF k
<1>3. Met(a.path[k], ts)
  BY <1>2, WithinMeets
<1>4. us[a.path[k].type].isStruct = ts[a.path[k].type].isStruct
  BY <1>3 DEF Met, Filled, Fills
<1> QED
  BY <1>4 DEF Shared, k

LEMMA StaysSettled ==
  ASSUME NEW T, NEW at, NEW bt, NEW ts, NEW us, NEW os, NEW vs,
         Settled(T, at, ts, os), Filled(ts, us),
         \A x \in DOMAIN us[T].scope :
           x \in DOMAIN ts[T].scope /\ us[T].scope[x] = ts[T].scope[x],
         \A a \in Range(ts[T].scope) : vs[a] = os[a] /\ bt[a] = at[a]
  PROVE  Settled(T, bt, us, vs)
<1>1. ASSUME NEW a \in Range(us[T].scope)
      PROVE  /\ a \in Range(ts[T].scope) /\ vs[a] = os[a] /\ bt[a] = at[a]
             /\ at[a] \in Nat /\ Within(os[a], T, at[a], ts) /\ Within(os[a], T, at[a], us)
  <2>1. a \in Range(ts[T].scope)
    BY DEF Range
  <2>2. at[a] \in Nat /\ Within(os[a], T, at[a], ts)
    BY <2>1 DEF Settled
  <2> QED
    BY <2>1, <2>2, WithinStays
<1>2. ASSUME NEW a \in Range(us[T].scope), NEW b \in Range(us[T].scope), a # b,
             ~Shared(vs[a].path, vs[b].path, us)
      PROVE  Clear(vs[a], bt[a], vs[b], bt[b])
  <2>1. ~Shared(os[a].path, os[b].path, ts)
    BY <1>1, <1>2, SharedStays
  <2>2. Clear(os[a], at[a], os[b], at[b])
    BY <1>1, <1>2, <2>1 DEF Settled
  <2> QED
    BY <1>1, <2>2
<1> QED
  BY <1>1, <1>2 DEF Settled

\* Bits that were not taken are clear of those that were.
LEMMA TakenClear ==
  ASSUME NEW t, t.llvm \in Seq(LLVMTypes), t.used \in Nat, t.isStruct, NEW u,
         NEW size, NEW o, NEW n \in Nat,
         Takes(t, u, 8 * n + o.begin, size), o.begin \in Nat, Span(o) = size,
         NEW a, NEW m \in Nat, a.begin \in Nat, Span(a) \in Nat,
         8 * m + a.begin + Span(a) <= Room(t)
  PROVE  Clear(o, n, a, m) /\ Clear(a, m, o, n)
<1>1. Room(t) \in Nat
  BY RoomIsNat
<1>2. 8 * m + a.begin + Span(a) <= 8 * n + o.begin
  BY <1>1 DEF Takes
<1> QED
  BY <1>2 DEF Clear

\* A way of one step.
LEMMA OneStep ==
  ASSUME NEW path, NEW e, path = <<e>>, NEW ts, Spot(e, ts) \in Nat
  PROVE  LiesAt(path, Spot(e, ts), ts)
<1> DEFINE n == Spot(e, ts)
           f == [k \in 1..2 |-> IF k = 1 THEN n ELSE 0]
<1>1. Len(path) = 1 /\ path[1] = e
  OBVIOUS
<1>2. f \in [1..2 -> Nat] /\ f[1] = n /\ f[2] = 0
  OBVIOUS
<1> HIDE DEF f
<1>3. Way(f, path, ts)
  BY <1>1, <1>2 DEF Way
<1> QED
  BY <1>2, <1>3 DEF LiesAt

\* A step more in front.
LEMMA MoreSteps ==
  ASSUME NEW path \in Seq(Entries), NEW n \in Nat, NEW ts, LiesAt(path, n, ts),
         NEW e \in Entries, Spot(e, ts) \in Nat
  PROVE  LiesAt(<<e>> \o path, Spot(e, ts) + n, ts)
<1> DEFINE c == Len(path)
           m == <<e>> \o path
           s == Spot(e, ts)
<1>1. /\ c \in Nat /\ Len(m) = c + 1 /\ m[1] = e /\ m \in Seq(Entries)
      /\ \A k \in 1..c : m[k + 1] = path[k]
  OBVIOUS
<1>2. PICK g : Way(g, path, ts) /\ g[1] = n
  BY DEF LiesAt
<1>3. /\ g \in [1..(c + 1) -> Nat] /\ g[c + 1] = 0
      /\ \A k \in 1..c : g[k] = Spot(path[k], ts) + g[k + 1]
  BY <1>2 DEF Way
<1> DEFINE f == [k \in 1..(c + 2) |-> IF k = 1 THEN s + n ELSE g[k - 1]]
<1> HIDE DEF c, m
<1>4. f \in [1..(c + 2) -> Nat]
  BY <1>1, <1>3
<1>5. f[1] = s + n /\ f[c + 2] = 0
  BY <1>1, <1>3
<1>6. ASSUME NEW k \in 1..(c + 1) PROVE f[k] = Spot(m[k], ts) + f[k + 1]
  <2>1. f[k + 1] = g[k]
    BY <1>1
  <2>2. CASE k = 1
    BY <1>1, <1>2, <1>5, <2>1, <2>2
  <2>3. CASE k # 1
    <3>1. k - 1 \in 1..c /\ (k - 1) + 1 = k
      BY <1>1, <2>3
    <3>2. f[k] = g[k - 1]
      BY <1>1, <2>3
    <3>3. m[(k - 1) + 1] = path[k - 1] /\ g[k - 1] = Spot(path[k - 1], ts) + g[(k - 1) + 1]
      BY <1>1, <1>3, <3>1
    <3> HIDE DEF f
    <3> QED
      BY <2>1, <3>1, <3>2, <3>3
  <2> QED
    BY <2>2, <2>3
<1> HIDE DEF f
<1>7. Len(m) + 1 = c + 2 /\ Len(m) = c + 1
  BY <1>1
<1>8. Way(f, m, ts)
  BY <1>4, <1>5, <1>6, <1>7 DEF Way
<1> QED
  BY <1>5, <1>8 DEF LiesAt, m

\* Its names are those it had, and new ones of the object n.
Names(t, u, n) ==
  \A x \in DOMAIN u.scope :
    u.scope[x] = n \/ (x \in DOMAIN t.scope /\ u.scope[x] = t.scope[x])

\* A member more.
LEMMA OneSettled ==
  ASSUME NEW T, NEW at, NEW bt, NEW ts, NEW us, NEW os, NEW vs, NEW n,
         Settled(T, at, ts, os), Filled(ts, us), T \in DOMAIN ts,
         Names(ts[T], us[T], n), n \notin Range(ts[T].scope),
         \A a \in Range(ts[T].scope) : vs[a] = os[a] /\ bt[a] = at[a],
         NEW e \in Entries, vs[n].path = <<e>>, e.type = T, Met(e, us),
         bt[n] = Spot(e, us), bt[n] \in Nat, vs[n].begin \in Nat,
         Takes(ts[T], us[T], 8 * bt[n] + vs[n].begin, Span(vs[n]))
  PROVE  Settled(T, bt, us, vs)
<1> DEFINE o == vs[n]
<1>1. /\ o.path \in Seq(Entries) /\ o.path # <<>> /\ Len(o.path) = 1 /\ o.path[1] = e
  OBVIOUS
<1>2. Within(o, T, bt[n], us)
  <2>1. LiesAt(o.path, bt[n], us)
    BY OneStep
  <2>2. \A k \in 2..Len(o.path) : FALSE
    BY <1>1
  <2> QED
    BY <1>1, <2>1, <2>2 DEF Within, Takes
<1>3. ASSUME NEW a \in Range(us[T].scope), a # n
      PROVE  /\ a \in Range(ts[T].scope) /\ vs[a] = os[a] /\ bt[a] = at[a]
             /\ at[a] \in Nat /\ Within(os[a], T, at[a], ts) /\ Within(os[a], T, at[a], us)
  <2>1. a \in Range(ts[T].scope)
    BY <1>3 DEF Range, Names
  <2>2. at[a] \in Nat /\ Within(os[a], T, at[a], ts)
    BY <2>1 DEF Settled
  <2> QED
    BY <2>1, <2>2, WithinStays
<1>4. ASSUME NEW a \in Range(us[T].scope), NEW b \in Range(us[T].scope), a # b,
             a # n, b # n, ~Shared(vs[a].path, vs[b].path, us)
      PROVE  Clear(vs[a], bt[a], vs[b], bt[b])
  <2>1. ~Shared(os[a].path, os[b].path, ts)
    BY <1>3, <1>4, SharedStays
  <2>2. Clear(os[a], at[a], os[b], at[b])
    BY <1>3, <1>4, <2>1 DEF Settled
  <2> QED
    BY <1>3, <1>4, <2>2
<1> HIDE DEF o
<1>5. ASSUME NEW a \in Range(us[T].scope), a # n
      PROVE  /\ ~Shared(vs[a].path, o.path, us) => Clear(vs[a], bt[a], o, bt[n])
             /\ ~Shared(o.path, vs[a].path, us) => Clear(o, bt[n], vs[a], bt[a])
  <2> DEFINE x == vs[a]
  <2>1. x = os[a] /\ bt[a] \in Nat /\ Within(x, T, bt[a], ts)
    BY <1>3, <1>5
  <2> HIDE DEF x
  <2>2. /\ us[T].isStruct = ts[T].isStruct /\ ts[T].llvm \in Seq(LLVMTypes)
        /\ ts[T].used \in Nat
    BY DEF Filled, Fills
  <2>3. CASE ts[T].isStruct
    <3>1. /\ x.begin \in Nat /\ Span(x) \in Nat
          /\ 8 * bt[a] + x.begin + Span(x) <= Room(ts[T])
      BY <2>1 DEF Within
    <3>2. Clear(o, bt[n], x, bt[a]) /\ Clear(x, bt[a], o, bt[n])
      BY <2>1, <2>2, <2>3, <3>1, TakenClear DEF o
    <3> QED
      BY <3>2 DEF x
  <2>4. CASE ~ts[T].isStruct
    <3>1. x.path \in Seq(Entries) /\ x.path # <<>> /\ x.path[1].type = T
      BY <2>1 DEF Within
    <3>2. Fork(x.path, o.path) = 1 /\ Fork(o.path, x.path) = 1
      BY <1>1, <3>1, ForkAtOnce
    <3>3. Shared(x.path, o.path, us) /\ Shared(o.path, x.path, us)
      BY <1>1, <2>2, <2>4, <3>1, <3>2 DEF Shared
    <3> QED
      BY <3>3 DEF x
  <2> QED
    BY <2>3, <2>4
<1>6. ASSUME NEW a \in Range(us[T].scope)
      PROVE  bt[a] \in Nat /\ Within(vs[a], T, bt[a], us)
  BY <1>2, <1>3 DEF o
<1>7. ASSUME NEW a \in Range(us[T].scope), NEW b \in Range(us[T].scope), a # b,
             ~Shared(vs[a].path, vs[b].path, us)
      PROVE  Clear(vs[a], bt[a], vs[b], bt[b])
  <2>1. CASE a # n /\ b # n
    BY <1>4, <1>7, <2>1
  <2>2. CASE a = n
    BY <1>5, <1>7, <2>2 DEF o
  <2>3. CASE b = n
    BY <1>5, <1>7, <2>3 DEF o
  <2> QED
    BY <2>1, <2>2, <2>3
<1> QED
  BY <1>6, <1>7 DEF Settled

\* A member of the type I, which is the element at e of T, is a member of T.
LEMMA MovedWithin ==
  ASSUME NEW T, NEW I, NEW ts, NEW us, Filled(ts, us), I \in DOMAIN ts, ts[I].used = 0,
         NEW o, NEW n \in Nat, Within(o, I, n, ts),
         NEW e \in Entries, e.type = T, Reached(e, us), e.index < us[T].index,
         NEW shift \in Nat, Spot(e, us) = shift,
         Room(us[T]) \in Nat, 8 * shift + Room(ts[I]) <= Room(us[T]),
         NEW m, m.path = <<e>> \o o.path, m.begin = o.begin, Span(m) = Span(o)
  PROVE  Within(m, T, shift + n, us)
<1>1. Within(o, I, n, us)
  BY WithinStays
<1>2. /\ o.path \in Seq(Entries) /\ o.path # <<>> /\ LiesAt(o.path, n, us)
      /\ Len(o.path) \in Nat /\ 1 <= Len(o.path)
  BY <1>1 DEF Within
<1>3. /\ m.path \in Seq(Entries) /\ m.path # <<>> /\ Len(m.path) = Len(o.path) + 1
      /\ m.path[1] = e /\ \A k \in 1..Len(o.path) : m.path[k + 1] = o.path[k]
  BY <1>2
<1>4. LiesAt(m.path, shift + n, us)
  BY <1>2, MoreSteps
<1>5. Reached(o.path[1], us)
  <2>1. Met(o.path[1], ts) /\ o.path[1].type = I
    BY DEF Within
  <2>2. Reached(o.path[1], ts)
    BY <2>1 DEF Met, Reached
  <2> QED
    BY <2>1, <2>2, ReachedFills DEF Filled
<1>6. ASSUME NEW k \in 2..Len(m.path) PROVE Reached(m.path[k], us)
  <2>1. k - 1 \in 1..Len(o.path) /\ (k - 1) + 1 = k
    BY <1>2, <1>3
  <2>2. m.path[(k - 1) + 1] = o.path[k - 1]
    BY <1>3, <2>1
  <2>3. Reached(o.path[k - 1], us)
    <3>1. CASE k - 1 = 1
      BY <1>5, <3>1
    <3>2. CASE k - 1 # 1
      <4>1. k - 1 \in 2..Len(o.path)
        BY <1>2, <2>1, <3>2
      <4> QED
        BY <1>1, <4>1 DEF Within
    <3> QED
      BY <3>1, <3>2
  <2> QED
    BY <2>1, <2>2, <2>3
<1>7. 8 * (shift + n) + m.begin + Span(m) <= Room(us[T])
  <2>1. /\ o.begin \in Nat /\ Span(o) \in Nat
        /\ 8 * n + o.begin + Span(o) <= Room(ts[I])
    BY DEF Within
  <2>2. Room(ts[I]) \in Nat
    BY RoomIsNat DEF Filled, Fills
  <2>3. 8 * shift + (8 * n + o.begin + Span(o)) <= Room(us[T])
    BY <2>1, <2>2
  <2> QED
    BY <2>1, <2>3
<1>8. Met(e, us)
  BY ReachedMeets
<1>9. m.begin \in Nat /\ Span(m) \in Nat
  BY DEF Within
<1> QED
  BY <1>3, <1>4, <1>6, <1>7, <1>8, <1>9 DEF Within

LEMMA MovedClear ==
  ASSUME NEW a, NEW b, NEW m \in Nat, NEW n \in Nat, Clear(a, m, b, n),
         a.begin \in Nat, b.begin \in Nat, Span(a) \in Nat, Span(b) \in Nat,
         NEW c, c.begin = a.begin, Span(c) = Span(a),
         NEW d, d.begin = b.begin, Span(d) = Span(b), NEW shift \in Nat
  PROVE  Clear(c, shift + m, d, shift + n)
BY DEF Clear

\* What comes after the bits that were taken.
LEMMA ClearAfter ==
  ASSUME NEW room \in Nat, NEW shift \in Nat, room <= 8 * shift,
         NEW b, NEW n \in Nat, b.begin \in Nat, Span(b) \in Nat,
         8 * n + b.begin + Span(b) <= room,
         NEW a, NEW m \in Nat, a.begin \in Nat
  PROVE  Clear(b, n, a, shift + m) /\ Clear(a, shift + m, b, n)
<1>1. 8 * n + b.begin + Span(b) <= 8 * (shift + m) + a.begin
  OBVIOUS
<1> QED
  BY <1>1 DEF Clear

\* The members of the anonymous type I among those of T.
LEMMA MergeSettled ==
  ASSUME NEW T, NEW I, NEW at, NEW bt, NEW ts, NEW us, NEW os, NEW vs,
         Settled(T, at, ts, os), Settled(I, at, ts, os), Filled(ts, us),
         T \in DOMAIN ts, I \in DOMAIN ts, T # I, ts[I].used = 0,
         Joins(ts[T], us[T], ts[I].scope),
         NEW e \in Entries, e.type = T, Reached(e, us),
         ts[T].index <= e.index, e.index < us[T].index,
         NEW shift \in Nat, Spot(e, us) = shift,
         NEW size \in Nat, Room(ts[I]) <= 8 * size,
         Takes(ts[T], us[T], 8 * shift, 8 * size),
         \A a \in Range(ts[T].scope) : vs[a] = os[a] /\ bt[a] = at[a],
         \A a \in Range(ts[I].scope) :
           /\ vs[a].path = <<e>> \o os[a].path /\ vs[a].begin = os[a].begin
           /\ Span(vs[a]) = Span(os[a]) /\ bt[a] = shift + at[a]
  PROVE  Settled(T, bt, us, vs)
<1> DEFINE Old == Range(ts[T].scope)
           New == Range(ts[I].scope)
<1>1. Range(us[T].scope) \subseteq Old \cup New
  BY DEF Range, Joins
<1>2. Room(us[T]) \in Nat /\ 8 * shift + Room(ts[I]) <= Room(us[T])
  <2>1. Room(us[T]) \in Nat /\ Room(ts[I]) \in Nat
    BY RoomIsNat DEF Filled, Fills
  <2> QED
    BY <2>1 DEF Takes
<1>3. ASSUME NEW a \in Old
      PROVE  /\ vs[a] = os[a] /\ bt[a] = at[a] /\ at[a] \in Nat
             /\ Within(os[a], T, at[a], ts) /\ Within(os[a], T, at[a], us)
  <2>1. at[a] \in Nat /\ Within(os[a], T, at[a], ts)
    BY <1>3 DEF Settled
  <2> QED
    BY <2>1, WithinStays
<1>4. ASSUME NEW a \in New
      PROVE  /\ at[a] \in Nat /\ Within(os[a], I, at[a], ts)
             /\ bt[a] = shift + at[a] /\ Within(vs[a], T, bt[a], us)
             /\ vs[a].path = <<e>> \o os[a].path /\ vs[a].begin = os[a].begin
             /\ Span(vs[a]) = Span(os[a])
  <2>1. at[a] \in Nat /\ Within(os[a], I, at[a], ts)
    BY <1>4 DEF Settled
  <2>2. /\ vs[a].path = <<e>> \o os[a].path /\ vs[a].begin = os[a].begin
        /\ Span(vs[a]) = Span(os[a]) /\ bt[a] = shift + at[a]
    BY <1>4
  <2> DEFINE m == vs[a]
             o == os[a]
             n == at[a]
  <2>3. /\ n \in Nat /\ Within(o, I, n, ts) /\ m.path = <<e>> \o o.path
        /\ m.begin = o.begin /\ Span(m) = Span(o)
    BY <2>1, <2>2
  <2> HIDE DEF m, o, n
  <2>4. 8 * shift + Room(ts[I]) <= Room(us[T]) /\ Room(us[T]) \in Nat
    BY <1>2
  <2>5. /\ Filled(ts, us) /\ I \in DOMAIN ts /\ ts[I].used = 0 /\ e \in Entries
        /\ e.type = T /\ Reached(e, us) /\ e.index < us[T].index
        /\ shift \in Nat /\ Spot(e, us) = shift
    OBVIOUS
  <2>6. Within(m, T, shift + n, us)
    BY ONLY <2>3, <2>4, <2>5, MovedWithin
  <2> QED
    BY <2>1, <2>2, <2>6 DEF m, n
<1>5. ASSUME NEW a \in Old, NEW b \in Old, a # b, ~Shared(vs[a].path, vs[b].path, us)
      PROVE  Clear(vs[a], bt[a], vs[b], bt[b])
  <2>1. ~Shared(os[a].path, os[b].path, ts)
    BY <1>3, <1>5, SharedStays
  <2>2. Clear(os[a], at[a], os[b], at[b])
    BY <1>5, <2>1 DEF Settled
  <2> QED
    BY <1>3, <1>5, <2>2
<1>6. ASSUME NEW a \in New, NEW b \in New, a # b, ~Shared(vs[a].path, vs[b].path, us)
      PROVE  Clear(vs[a], bt[a], vs[b], bt[b])
  <2> DEFINE p == os[a].path
             q == os[b].path
  <2>1. p \in Seq(Entries) /\ q \in Seq(Entries) /\ p # <<>> /\ q # <<>>
    BY <1>4, <1>6 DEF Within
  <2>2. vs[a].path = <<e>> \o p /\ vs[b].path = <<e>> \o q
    BY <1>4, <1>6
  <2> DEFINE m == <<e>> \o p
             n == <<e>> \o q
  <2> HIDE DEF p, q
  <2>3. e \in Entries /\ Ahead(e, p, m) /\ Ahead(e, q, n)
    BY DEF Ahead
  <2> HIDE DEF m, n
  <2>4. Fork(m, n) = Fork(p, q) + 1 /\ m[Fork(m, n)] = p[Fork(p, q)]
    BY ONLY <2>1, <2>3, ForkMoved
  <2>5. vs[a].path[Fork(vs[a].path, vs[b].path)] = p[Fork(p, q)]
    BY <2>2, <2>4 DEF m, n
  <2>6. ~Shared(p, q, us)
    BY <1>6, <2>5 DEF Shared
  <2>7. ~Shared(p, q, ts)
    BY <1>4, <1>6, <2>6, SharedStays DEF p, q
  <2>8. Clear(os[a], at[a], os[b], at[b])
    BY <1>6, <2>7 DEF Settled, p, q
  <2>9. /\ os[a].begin \in Nat /\ os[b].begin \in Nat
        /\ Span(os[a]) \in Nat /\ Span(os[b]) \in Nat
    BY <1>4, <1>6 DEF Within
  <2> DEFINE va == vs[a]
             vb == vs[b]
             oa == os[a]
             ob == os[b]
             na == at[a]
             nb == at[b]
  <2>10. /\ na \in Nat /\ nb \in Nat /\ Clear(oa, na, ob, nb)
        /\ va.begin = oa.begin /\ Span(va) = Span(oa)
        /\ vb.begin = ob.begin /\ Span(vb) = Span(ob)
        /\ oa.begin \in Nat /\ ob.begin \in Nat /\ Span(oa) \in Nat /\ Span(ob) \in Nat
    BY <1>4, <1>6, <2>8, <2>9
  <2> HIDE DEF va, vb, oa, ob, na, nb
  <2>11. Clear(va, shift + na, vb, shift + nb)
    BY <2>10, MovedClear
  <2> QED
    BY <1>4, <1>6, <2>11 DEF va, vb, na, nb
<1>7. ASSUME NEW a \in New, NEW b \in Old
      PROVE  /\ ~Shared(vs[a].path, vs[b].path, us) => Clear(vs[a], bt[a], vs[b], bt[b])
             /\ ~Shared(vs[b].path, vs[a].path, us) => Clear(vs[b], bt[b], vs[a], bt[a])
  <2>1. us[T].isStruct = ts[T].isStruct
    BY DEF Filled, Fills
  <2>2. /\ vs[b] = os[b] /\ bt[b] = at[b] /\ bt[b] \in Nat
        /\ Within(vs[b], T, bt[b], ts)
    BY <1>3, <1>7
  <2>3. /\ bt[a] = shift + at[a] /\ at[a] \in Nat /\ vs[a].begin = os[a].begin
        /\ Span(vs[a]) = Span(os[a]) /\ Within(os[a], I, at[a], ts)
    BY <1>4, <1>7
  <2>4. CASE ts[T].isStruct
    <3>1. /\ vs[b].begin \in Nat /\ Span(vs[b]) \in Nat
          /\ 8 * bt[b] + vs[b].begin + Span(vs[b]) <= Room(ts[T])
      BY <2>2 DEF Within
    <3>2. Room(ts[T]) \in Nat /\ Room(ts[T]) <= 8 * shift
      BY <2>4, RoomIsNat DEF Takes, Filled, Fills
    <3>3. os[a].begin \in Nat
      BY <2>3 DEF Within
    <3> DEFINE va == vs[a]
               vb == vs[b]
               m == at[a]
               n == bt[b]
    <3>4. /\ m \in Nat /\ n \in Nat /\ va.begin \in Nat
          /\ vb.begin \in Nat /\ Span(vb) \in Nat
          /\ 8 * n + vb.begin + Span(vb) <= Room(ts[T])
      BY <2>2, <2>3, <3>1, <3>3
    <3> HIDE DEF va, vb, m, n
    <3>5. Clear(vb, n, va, shift + m) /\ Clear(va, shift + m, vb, n)
      BY <3>2, <3>4, ClearAfter
    <3> QED
      BY <2>3, <3>5 DEF va, vb, m, n
  <2>5. CASE ~ts[T].isStruct
    <3> DEFINE p == vs[a].path
               q == vs[b].path
               r == os[a].path
    <3>1. /\ q \in Seq(Entries) /\ q # <<>> /\ q[1].type = T
          /\ Len(q) = 1 \/ q[1].index < ts[T].index
      BY <2>2 DEF Within
    <3>2. p \in Seq(Entries) /\ p # <<>> /\ p[1] = e
      <4>1. p = <<e>> \o r /\ r \in Seq(Entries)
        BY <1>4, <1>7 DEF Within
      <4> HIDE DEF p, r
      <4> QED
        BY <4>1
    <3> HIDE DEF p, q, r
    <3>3. Len(q) = 1 \/ p[1] # q[1]
      <4>1. ASSUME q[1].index < ts[T].index PROVE p[1] # q[1]
        <5>1. q[1] \in Entries
          BY <3>1
        <5>2. q[1].index \in Nat /\ e.index \in Nat /\ ts[T].index \in Nat
          BY <5>1 DEF Entries, Filled, Fills
        <5>3. q[1].index < e.index
          BY <4>1, <5>2
        <5> QED
          BY <3>2, <5>2, <5>3
      <4> QED
        BY <3>1, <4>1
    <3>4. Fork(p, q) = 1 /\ Fork(q, p) = 1
      BY <3>1, <3>2, <3>3, ForkAtOnce
    <3>5. Shared(p, q, us) /\ Shared(q, p, us)
      BY <2>1, <2>5, <3>1, <3>2, <3>4 DEF Shared
    <3> QED
      BY <3>5 DEF p, q
  <2> QED
    BY <2>4, <2>5
<1>8. ASSUME NEW a \in Range(us[T].scope)
      PROVE  bt[a] \in Nat /\ Within(vs[a], T, bt[a], us)
  <2>1. CASE a \in Old
    BY <1>3, <2>1
  <2>2. CASE a \in New
    BY <1>4, <2>2
  <2> QED
    BY <1>1, <2>1, <2>2
<1>9. ASSUME NEW a \in Range(us[T].scope), NEW b \in Range(us[T].scope), a # b,
             ~Shared(vs[a].path, vs[b].path, us)
      PROVE  Clear(vs[a], bt[a], vs[b], bt[b])
  <2> HIDE DEF Old, New
  <2>1. (a \in Old \/ a \in New) /\ (b \in Old \/ b \in New)
    BY <1>1
  <2>2. CASE a \in Old /\ b \in Old
    BY <1>5, <1>9, <2>2
  <2>3. CASE a \in New /\ b \in New
    BY <1>6, <1>9, <2>3
  <2>4. CASE a \in New /\ b \in Old
    BY <1>7, <1>9, <2>4
  <2>5. CASE a \in Old /\ b \in New
    BY <1>7, <1>9, <2>5
  <2> QED
    BY <2>1, <2>2, <2>3, <2>4, <2>5
<1> QED
  BY <1>8, <1>9 DEF Settled

-----------------------------------------------------------------------------
\* What is settled stays so in every step.

\* No type is open twice, a closed one has no run of bit-fields left, and there
\* is a byte for each object by which every open type has its members apart.
Distinct(s) == \A i, j \in DOMAIN s : i # j => s[i] # s[j]

ApartInv ==
  /\ Distinct(open)
  /\ \A T \in DOMAIN types : types[T].complete => types[T].used = 0
  /\ \E at : \A T \in Range(open) : Settled(T, at, types, objs)

LEMMA TypeFilled ==
  ASSUME LayoutInv, CountedInv, NEW T \in DOMAIN types, NEW u, Fills(types[T], u),
         types' = [types EXCEPT ![T] = u]
  PROVE  /\ Filled(types, types') /\ DOMAIN types' = DOMAIN types /\ types'[T] = u
         /\ \A S \in DOMAIN types : S # T => types'[S] = types[S]
<1>1. IsSeq(types)
  BY DEF LayoutInv
<1>2. /\ DOMAIN types' = DOMAIN types /\ types'[T] = u
      /\ \A S \in DOMAIN types : S # T => types'[S] = types[S]
  BY <1>1, UpdateAny
<1>3. ASSUME NEW S \in DOMAIN types PROVE Fills(types[S], types'[S])
  <2>1. CASE S = T
    BY <1>2, <2>1
  <2>2. CASE S # T
    BY <1>2, <2>2, FillsItself DEF CountedInv
  <2> QED
    BY <2>1, <2>2
<1> QED
  BY <1>2, <1>3 DEF Filled

LEMMA OpenTypes ==
  ASSUME LayoutInv
  PROVE  \A T \in Range(open) : T \in DOMAIN types
BY ElementOfSeq DEF LayoutInv, Range

\* A step that changes no object.
LEMMA SameObjects ==
  ASSUME LayoutInv, CountedInv, ApartInv, NEW T \in DOMAIN types, NEW u,
         Fills(types[T], u), u.scope = types[T].scope, u.complete => u.used = 0,
         types' = [types EXCEPT ![T] = u], UNCHANGED <<objs, open>>
  PROVE  ApartInv'
<1>1. /\ Filled(types, types') /\ DOMAIN types' = DOMAIN types /\ types'[T] = u
      /\ \A S \in DOMAIN types : S # T => types'[S] = types[S]
  BY TypeFilled
<1>2. PICK at : \A S \in Range(open) : Settled(S, at, types, objs)
  BY DEF ApartInv
<1>3. ASSUME NEW S \in Range(open) PROVE Settled(S, at, types', objs')
  <2>1. S \in DOMAIN types /\ Settled(S, at, types, objs)
    BY <1>2, OpenTypes
  <2>2. types'[S].scope = types[S].scope
    BY <1>1, <2>1
  <2>3. \A x \in DOMAIN types'[S].scope :
           x \in DOMAIN types[S].scope /\ types'[S].scope[x] = types[S].scope[x]
    BY <2>2
  <2>4. \A a \in Range(types[S].scope) : objs'[a] = objs[a] /\ at[a] = at[a]
    OBVIOUS
  <2> QED
    BY ONLY <1>1, <2>1, <2>3, <2>4, StaysSettled
<1>4. \A S \in DOMAIN types' : types'[S].complete => types'[S].used = 0
  BY <1>1 DEF ApartInv
<1>5. Distinct(open')
  BY DEF ApartInv
<1> QED
  BY <1>3, <1>4, <1>5 DEF ApartInv

\* A step that makes one, in the type T.
LEMMA OneMore ==
  ASSUME LayoutInv, CountedInv, ApartInv, NEW T \in Range(open), NEW u,
         Fills(types[T], u), Names(types[T], u, Len(objs) + 1), u.complete => u.used = 0,
         types' = [types EXCEPT ![T] = u],
         Range(open') \subseteq Range(open), Distinct(open'),
         NEW o, objs' = Append(objs, o),
         NEW e \in Entries, o.path = <<e>>, e.type = T, Met(e, types'), o.begin \in Nat,
         NEW n \in Nat, Spot(e, types') = n, Takes(types[T], u, 8 * n + o.begin, Span(o))
  PROVE  ApartInv'
<1>1. T \in DOMAIN types
  BY OpenTypes
<1>2. /\ Filled(types, types') /\ DOMAIN types' = DOMAIN types /\ types'[T] = u
      /\ \A S \in DOMAIN types : S # T => types'[S] = types[S]
  BY <1>1, TypeFilled
<1>3. PICK at : \A S \in Range(open) : Settled(S, at, types, objs)
  BY DEF ApartInv
<1> DEFINE new == Len(objs) + 1
           bt == [a \in 1..new |-> IF a = new THEN n ELSE at[a]]
<1>4. /\ Len(objs) \in Nat /\ DOMAIN objs = 1..Len(objs)
      /\ objs'[new] = o /\ \A a \in DOMAIN objs : objs'[a] = objs[a]
  BY AppendAny DEF LayoutInv
<1>5. ASSUME NEW S \in DOMAIN types, NEW a \in Range(types[S].scope)
      PROVE  a \in DOMAIN objs /\ a # new /\ objs'[a] = objs[a] /\ bt[a] = at[a]
  <2>1. a \in 1..Len(objs)
    BY DEF CountedInv, Refers, Range
  <2> QED
    BY <1>4, <2>1
<1>6. bt[new] = n
  BY <1>4
<1> HIDE DEF bt, new
<1>7. Settled(T, bt, types', objs')
  <2>1. /\ Settled(T, at, types, objs) /\ Names(types[T], types'[T], new)
        /\ new \notin Range(types[T].scope)
        /\ \A a \in Range(types[T].scope) : objs'[a] = objs[a] /\ bt[a] = at[a]
    BY <1>1, <1>2, <1>3, <1>5 DEF new
  <2>2. /\ objs'[new].path = <<e>> /\ e \in Entries /\ e.type = T /\ Met(e, types')
        /\ bt[new] = Spot(e, types') /\ bt[new] \in Nat /\ objs'[new].begin \in Nat
        /\ Takes(types[T], types'[T], 8 * bt[new] + objs'[new].begin, Span(objs'[new]))
    BY <1>2, <1>4, <1>6
  <2> QED
    BY ONLY <1>1, <1>2, <2>1, <2>2, OneSettled
<1>8. ASSUME NEW S \in Range(open), S # T PROVE Settled(S, bt, types', objs')
  <2>1. S \in DOMAIN types /\ Settled(S, at, types, objs)
    BY <1>3, OpenTypes
  <2>2. types'[S] = types[S]
    BY <1>2, <1>8, <2>1
  <2>3. \A x \in DOMAIN types'[S].scope :
           x \in DOMAIN types[S].scope /\ types'[S].scope[x] = types[S].scope[x]
    BY <2>2
  <2>4. \A a \in Range(types[S].scope) : objs'[a] = objs[a] /\ bt[a] = at[a]
    BY <1>5, <2>1
  <2> QED
    BY ONLY <1>2, <2>1, <2>3, <2>4, StaysSettled
<1>9. \A S \in DOMAIN types' : types'[S].complete => types'[S].used = 0
  BY <1>2 DEF ApartInv
<1>10. \A S \in Range(open') : Settled(S, bt, types', objs')
  BY <1>7, <1>8
<1> QED
  BY <1>9, <1>10 DEF ApartInv

LEMMA ExitApart ==
  ASSUME NEW how, Exit(how)
  PROVE  ApartInv'
<1>1. types' = <<>> /\ open' = <<>>
  BY DEF Exit
<1>2. DOMAIN types' = {} /\ DOMAIN open' = {}
  BY <1>1
<1>3. Range(open') = {}
  BY <1>2 DEF Range
<1>4. Distinct(open')
  BY <1>2 DEF Distinct
<1> QED
  BY <1>2, <1>3, <1>4 DEF ApartInv

LEMMA OpenRecordApart ==
  ASSUME LayoutInv, CountedInv, ApartInv, NEW isStruct \in RecordKinds, OpenRecord(isStruct)
  PROVE  ApartInv'
<1> DEFINE t == NewStructType(isStruct)
           n == Len(types) + 1
<1>1. /\ types' = Append(types, t) /\ open' = Append(open, n) /\ objs' = objs
  BY DEF OpenRecord
<1>2. t.used = 0 /\ DOMAIN t.scope = {}
  BY DEF NewStructType
<1> HIDE DEF t
<1>3. /\ DOMAIN types' = 1..n /\ DOMAIN types = 1..Len(types) /\ Len(types) \in Nat
      /\ types'[n] = t /\ \A T \in DOMAIN types : types'[T] = types[T]
  BY <1>1, AppendAny DEF LayoutInv
<1>4. /\ Len(open) \in Nat /\ DOMAIN open = 1..Len(open) /\ DOMAIN open' = 1..(Len(open) + 1)
      /\ open'[Len(open) + 1] = n /\ \A i \in DOMAIN open : open'[i] = open[i]
  <2>1. IsSeq(open)
    BY DEF LayoutInv, IsSeq
  <2> QED
    BY <1>1, <2>1, AppendAny
<1>5. n \notin DOMAIN types
  BY <1>3
<1>6. \A i \in DOMAIN open : open[i] \in DOMAIN types
  BY OpenTypes DEF Range
<1> HIDE DEF n
<1>7. Distinct(open')
  <2> SUFFICES ASSUME NEW i \in DOMAIN open', NEW j \in DOMAIN open', i # j
               PROVE  open'[i] # open'[j]
    BY DEF Distinct
  <2>1. i \in DOMAIN open \/ i = Len(open) + 1
    BY <1>4
  <2>2. j \in DOMAIN open \/ j = Len(open) + 1
    BY <1>4
  <2>3. \A a, b \in DOMAIN open : a # b => open[a] # open[b]
    BY DEF ApartInv, Distinct
  <2> QED
    BY <1>4, <1>5, <1>6, <2>1, <2>2, <2>3
<1>8. Filled(types, types')
  <2>1. ASSUME NEW T \in DOMAIN types PROVE Fills(types[T], types'[T]) /\ T \in DOMAIN types'
    BY <1>3, FillsItself DEF CountedInv, n
  <2> QED
    BY <2>1 DEF Filled
<1>9. \A T \in DOMAIN types' : types'[T].complete => types'[T].used = 0
  <2> SUFFICES ASSUME NEW T \in DOMAIN types', types'[T].complete PROVE types'[T].used = 0
    OBVIOUS
  <2>1. T \in DOMAIN types \/ T = n
    BY <1>3 DEF n
  <2> QED
    BY <1>2, <1>3, <2>1 DEF ApartInv
<1>10. PICK at : \A S \in Range(open) : Settled(S, at, types, objs)
  BY DEF ApartInv
<1>11. ASSUME NEW S \in Range(open') PROVE Settled(S, at, types', objs')
  <2>1. S \in Range(open) \/ S = n
    BY <1>4 DEF Range
  <2>2. CASE S = n
    <3>1. Range(types'[S].scope) = {}
      BY <1>2, <1>3, <2>2 DEF Range
    <3> QED
      BY <3>1 DEF Settled
  <2>3. CASE S \in Range(open)
    <3>1. Settled(S, at, types, objs) /\ types'[S] = types[S]
      BY <1>3, <1>10, <2>3, OpenTypes
    <3>2. /\ \A x \in DOMAIN types'[S].scope :
               x \in DOMAIN types[S].scope /\ types'[S].scope[x] = types[S].scope[x]
          /\ \A a \in Range(types[S].scope) : objs'[a] = objs[a] /\ at[a] = at[a]
      BY <1>1, <3>1
    <3> QED
      BY ONLY <1>8, <3>1, <3>2, StaysSettled
  <2> QED
    BY <2>1, <2>2, <2>3
<1> QED
  BY <1>7, <1>9, <1>11 DEF ApartInv

\* The brace that is closed last.
LEMMA TopOpen ==
  ASSUME LayoutInv, verdict = "ok"
  PROVE  Top \in Range(open)
<1>1. open \in Seq(DOMAIN types) /\ open # <<>> /\ Len(open) \in Nat
  BY DEF LayoutInv
<1>2. Len(open) \in DOMAIN open
  BY <1>1
<1> QED
  BY <1>2 DEF Top, Last, Range

LEMMA FrontOpen ==
  ASSUME LayoutInv, ApartInv, Inside
  PROVE  /\ Range(Front(open)) \subseteq Range(open) /\ Distinct(Front(open))
         /\ Outer \in Range(open) /\ Top \in Range(open) /\ Outer # Top
         /\ Top \notin Range(Front(open))
<1> DEFINE n == Len(open)
           front == Front(open)
<1>1. open \in Seq(DOMAIN types) /\ n \in Nat /\ n > 1 /\ DOMAIN open = 1..n
  BY DEF LayoutInv, Inside
<1>2. front = [i \in 1..(n - 1) |-> open[i]]
  BY <1>1 DEF Front
<1>3. DOMAIN front = 1..(n - 1) /\ \A i \in DOMAIN front : front[i] = open[i]
  BY <1>2
<1>4. Outer = open[n - 1] /\ Top = open[n]
  BY DEF Outer, Top, Last
<1> HIDE DEF n, front
<1>5. n \in DOMAIN open /\ n - 1 \in DOMAIN open /\ n - 1 # n
  BY <1>1
<1>6. \A i \in DOMAIN front : i \in DOMAIN open /\ i # n
  BY <1>1, <1>3
<1>7. \A i, j \in DOMAIN open : i # j => open[i] # open[j]
  BY DEF ApartInv, Distinct
<1>8. Range(front) \subseteq Range(open) /\ Distinct(front) /\ Top \notin Range(front)
  BY <1>3, <1>4, <1>5, <1>6, <1>7 DEF Range, Distinct
<1> QED
  BY <1>4, <1>5, <1>7, <1>8 DEF Range, front

\* A declaration of a member of the type T, which may end the declarations.
LEMMA MemberApart ==
  ASSUME LayoutInv, CountedInv, ApartInv, NEW T \in Range(open), NEW type \in LLVMTypes,
         NEW u, u.isStruct = AddMember(T, type).isStruct, u.llvm = AddMember(T, type).llvm,
         u.scope = AddMember(T, type).scope, u.used = 0,
         Fills(AddMember(T, type), u), types' = [types EXCEPT ![T] = u],
         objs' = Append(objs, MemberObject(T, type)),
         Range(open') \subseteq Range(open), Distinct(open')
  PROVE  ApartInv'
<1> DEFINE v == AddMember(T, type)
           r == Ready(types[T], type)
           o == MemberObject(T, type)
           e == [type |-> T, index |-> r.index]
           at == IF v.isStruct THEN ElementOffset(v.llvm)[r.index + 1] ELSE 0
<1>1. T \in DOMAIN types
  BY OpenTypes
<1>2. /\ o.type = type /\ o.bits = 0 /\ o.begin = 0 /\ o.path = <<e>> /\ r.index \in Nat
      /\ v.isStruct => r.index + 1 \in 1..Len(v.llvm)
      /\ Fills(types[T], v) /\ Gains(types[T], v, Len(objs) + 1)
      /\ at \in Nat /\ Takes(types[T], v, 8 * at, 8 * type.size)
  BY <1>1, AddMemberFacts
<1>3. e \in Entries /\ e.type = T /\ e.index = r.index
  BY <1>1, <1>2, TypeNumber DEF Entries
<1> HIDE DEF v, o, e, r
<1>4. Fills(types[T], u)
  BY <1>2, FillsTwice DEF v
<1>5. types'[T] = u /\ DOMAIN types' = DOMAIN types
  BY <1>1, <1>4, TypeFilled
<1>6. Met(e, types') /\ Spot(e, types') = at
  BY <1>1, <1>2, <1>3, <1>5 DEF Met, Spot, v
<1>7. Names(types[T], u, Len(objs) + 1)
  BY <1>2 DEF Names, Gains, v
<1> HIDE DEF at
<1>8. Span(o) = 8 * type.size /\ 8 * at + o.begin = 8 * at
  BY <1>2 DEF Span
<1>9. Takes(types[T], u, 8 * at + o.begin, Span(o))
  <2>1. Room(v) \in Nat /\ Room(u) \in Nat /\ Room(v) <= Room(u)
    BY RoomIsNat DEF Fills, v
  <2> QED
    BY <1>2, <1>8, <2>1 DEF Takes
<1>10. /\ LayoutInv /\ CountedInv /\ ApartInv /\ T \in Range(open)
       /\ u.complete => u.used = 0
       /\ types' = [types EXCEPT ![T] = u]
       /\ Range(open') \subseteq Range(open) /\ Distinct(open') /\ objs' = Append(objs, o)
  BY DEF o
<1>11. o.path = <<e>> /\ o.begin \in Nat /\ at \in Nat
  BY <1>2
<1> QED
  BY ONLY <1>3, <1>4, <1>6, <1>7, <1>9, <1>10, <1>11, OneMore

LEMMA DeclareMemberApart ==
  ASSUME LayoutInv, CountedInv, ApartInv, NEW type \in LLVMTypes, DeclareMember(type)
  PROVE  ApartInv'
<1> DEFINE v == AddMember(Top, type)
<1>1. /\ verdict = "ok" /\ objs' = Append(objs, MemberObject(Top, type))
      /\ types' = [types EXCEPT ![Top] = v] /\ open' = open
  BY DEF DeclareMember, Declaring
<1>2. Top \in Range(open) /\ Top \in DOMAIN types
  BY <1>1, TopOpen, TopIsType
<1>3. Measured(v) /\ v.used = 0
  BY <1>2, AddMemberFacts
<1>4. Fills(v, v)
  BY <1>3, FillsItself
<1>5. Range(open') \subseteq Range(open) /\ Distinct(open')
  BY <1>1 DEF ApartInv
<1> QED
  BY <1>1, <1>2, <1>3, <1>4, <1>5, MemberApart

LEMMA FlexibleApart ==
  ASSUME LayoutInv, CountedInv, ApartInv, NEW elem \in Scalars, DeclareFlexible(elem), ~Error
  PROVE  ApartInv'
<1> DEFINE type == [Scalar(elem) EXCEPT !.size = 0]
           o == MemberObject(Top, type)
           v == AddMember(Top, type)
           u == Finish(v, objs')
<1>1. /\ verdict = "ok" /\ objs' = Append(objs, o)
      /\ types' = [types EXCEPT ![Top] = u] /\ open' = open
  BY DEF DeclareFlexible, Declaring
<1>2. Top \in Range(open) /\ Top \in DOMAIN types
  BY <1>1, TopOpen, TopIsType
<1>3. type \in LLVMTypes
  <2>1. elem \in Aligns /\ 0 \in 0..MaxTypes
    BY LayoutAssumption DEF Aligns
  <2> QED
    BY <2>1 DEF Scalar, LLVMTypes
<1> HIDE DEF type
<1>4. /\ Measured(v) /\ IsType(v) /\ v.used = 0 /\ Refers(v, Len(objs) + 1) /\ o.type = type
  BY <1>2, <1>3, AddMemberFacts
<1> HIDE DEF v, o
<1>5. /\ Len(objs) \in Nat /\ DOMAIN objs = 1..Len(objs)
      /\ objs'[Len(objs) + 1] = o /\ \A i \in DOMAIN objs : objs'[i] = objs[i]
  BY <1>1, AppendAny DEF LayoutInv
<1>6. \A i \in 1..(Len(objs) + 1) : objs'[i].type \in LLVMTypes
  BY <1>3, <1>4, <1>5 DEF CountedInv, ObjectFits
<1>7. /\ u.used = 0 /\ u.isStruct = v.isStruct /\ u.scope = v.scope
      /\ u.llvm = v.llvm /\ Fills(v, u)
  BY <1>4, <1>6, FinishMeasured
<1> HIDE DEF u
<1>8. Range(open') \subseteq Range(open) /\ Distinct(open')
  BY <1>1 DEF ApartInv
<1> QED
  BY <1>1, <1>2, <1>3, <1>7, <1>8, MemberApart DEF v, o

LEMMA DeclareRecordApart ==
  ASSUME LayoutInv, CountedInv, ApartInv, DeclareRecord
  PROVE  ApartInv'
<1> DEFINE type == Record(Top)
           v == AddMember(Outer, type)
           o == MemberObject(Outer, type)
<1>1. /\ Inside /\ objs' = Append(objs, o) /\ types' = [types EXCEPT ![Outer] = v]
      /\ open' = Front(open)
  BY DEF DeclareRecord
<1>2. /\ Outer \in DOMAIN types /\ verdict = "ok" /\ Outer \in Range(open)
      /\ Range(open') \subseteq Range(open) /\ Distinct(open')
  BY <1>1, OuterIsType, FrontOpen
<1>3. type \in LLVMTypes
  BY <1>2, TopIsType, RecordType
<1> HIDE DEF type
<1>4. Measured(v) /\ v.used = 0
  BY <1>2, <1>3, AddMemberFacts
<1>5. Fills(v, v)
  BY <1>4, FillsItself
<1> QED
  BY <1>1, <1>2, <1>3, <1>4, <1>5, MemberApart

\* A bit-field is in the run that t has.
LEMMA PlaceBitFieldApart ==
  ASSUME LayoutInv, CountedInv, ApartInv, verdict = "ok", ~This.complete,
         NEW t, Grows(This, t), Measured(t), Keeps(This, t), Fills(This, t),
         Refers(t, Len(objs)),
         NEW name, NEW size \in {1, 4}, NEW bits \in Nat, bits # 0, bits <= 8 * size,
         PlaceBitField(t, name, size, bits), ~Crash
  PROVE  ApartInv'
<1> DEFINE begin == IF t.isStruct THEN t.used ELSE 0
           grown == Placed(t, name, size, bits)
           u == Packed(grown)
           e == [type |-> Top, index |-> t.index]
           o == Object(name, Scalar(size), bits, begin, t.offset, Top, t.index)
           at == IF t.isStruct THEN End(t.llvm) ELSE 0
           n == Len(objs)
           mid == [types EXCEPT ![Top] = grown]
<1>1. /\ grown.used <= grown.base
      /\ objs' = Append(objs, o) /\ types' = [types EXCEPT ![Top] = u] /\ open' = open
  BY DEF PlaceBitField, Placed, Packed
<1>2. /\ Top \in DOMAIN types /\ Top \in Range(open) /\ This = types[Top]
      /\ IsType(This) /\ IsType(t) /\ Measured(This)
  BY TopFacts, TopOpen DEF Grows
<1>3. n \in Nat
  BY AppendAny DEF LayoutInv
<1>4. grown = Placed(t, name, size, bits)
  OBVIOUS
<1> HIDE DEF grown
<1>5. /\ Measured(grown) /\ IsType(grown) /\ grown.isStruct = t.isStruct /\ grown.used # 0
      /\ grown.index = t.index /\ (t.isStruct => grown.llvm = t.llvm)
      /\ Fills(t, grown) /\ Gains(t, grown, n + 1)
      /\ t.isStruct => Takes(t, grown, 8 * End(t.llvm) + t.used, bits)
      /\ ~t.isStruct => Takes(t, grown, 0, bits)
  <2>1. /\ Len(objs) \in Nat /\ IsType(t) /\ Measured(t) /\ Refers(t, Len(objs))
        /\ size \in {1, 4} /\ bits \in Nat /\ bits # 0 /\ bits <= 8 * size
    BY <1>2, <1>3
  <2> QED
    BY ONLY <1>4, <2>1, PlacedMeasured, SMTT(60)
<1>6. o.bits = bits /\ o.begin = begin /\ o.path = <<e>>
  BY DEF Object
<1>7. e \in Entries /\ e.type = Top /\ e.index = t.index
  BY <1>2, TypeNumber DEF Entries, Measured
<1>8. at \in Nat /\ begin \in Nat
  BY EndIsNat DEF Measured
<1>9. Takes(t, grown, 8 * at + begin, bits)
  <2>1. CASE t.isStruct
    BY <1>5, <2>1
  <2>2. CASE ~t.isStruct
    BY <1>5, <2>2
  <2> QED
    BY <2>1, <2>2
<1> HIDE DEF e, o
<1>10. Fills(grown, u) /\ u.scope = grown.scope /\ u.complete = grown.complete
  <2>1. CASE grown.used = grown.base
    <3>1. u = BitFieldPacked(grown) /\ grown.base # 0 /\ grown.used <= grown.base
      BY <1>1, <1>5, <2>1 DEF Packed
    <3> HIDE DEF u
    <3>2. Keeps(grown, u) /\ Fills(grown, u)
      BY <1>5, <3>1, PackedMeasured
    <3> QED
      BY <3>2 DEF Keeps
  <2>2. CASE grown.used # grown.base
    <3>1. u = grown
      BY <2>2 DEF Packed
    <3> QED
      BY <1>5, <3>1, FillsItself
  <2> QED
    BY <2>1, <2>2
<1> HIDE DEF u
<1>11. Fills(This, grown) /\ Fills(This, u)
  BY <1>10, <1>5, FillsTwice
<1>12. types'[Top] = u /\ DOMAIN types' = DOMAIN types
  BY <1>1, <1>2, <1>11, TypeFilled
<1>13. DOMAIN mid = DOMAIN types /\ mid[Top] = grown
  BY <1>2, UpdateAny DEF LayoutInv
<1>14. Met(e, mid) /\ Spot(e, mid) = at
  <2> HIDE DEF mid
  <2>1. CASE ~t.isStruct
    BY <1>2, <1>5, <1>7, <1>13, <2>1 DEF Met, Spot
  <2>2. CASE t.isStruct
    <3>1. t.index = Len(t.llvm) /\ t.llvm \in Seq(LLVMTypes)
      BY <1>2, <2>2 DEF IsType, Measured
    <3>2. t.index + 1 \notin 1..Len(t.llvm)
      BY <3>1
    <3> QED
      BY <1>2, <1>5, <1>7, <1>13, <2>2, <3>1, <3>2 DEF Met, Spot
  <2> QED
    BY <2>1, <2>2
<1>15. Met(e, types') /\ Spot(e, types') = at
  BY <1>2, <1>7, <1>10, <1>12, <1>13, <1>14, SpotStays
<1>16. Names(This, u, n + 1) /\ ~u.complete
  BY <1>10, <1>5 DEF Names, Gains, Keeps
<1>17. Takes(This, u, 8 * at + begin, bits)
  <2>1. /\ Room(This) \in Nat /\ Room(t) \in Nat /\ Room(grown) \in Nat /\ Room(u) \in Nat
        /\ Room(This) <= Room(t) /\ Room(grown) <= Room(u) /\ t.isStruct = This.isStruct
    BY <1>5, <1>10, <1>5, RoomIsNat DEF Fills
  <2>2. 8 * at + begin \in Nat
    BY <1>8
  <2> DEFINE x == 8 * at + begin
  <2> HIDE DEF x
  <2>3. Takes(This, u, x, bits)
    BY <1>9, <2>1, <2>2 DEF Takes, x
  <2> QED
    BY <2>3 DEF x
<1>18. Span(o) = bits
  BY <1>6 DEF Span
<1>19. Range(open') \subseteq Range(open) /\ Distinct(open')
  BY <1>1 DEF ApartInv
<1>20. /\ LayoutInv /\ CountedInv /\ ApartInv /\ Top \in Range(open)
       /\ Fills(types[Top], u) /\ Names(types[Top], u, Len(objs) + 1)
       /\ u.complete => u.used = 0
  BY <1>2, <1>11, <1>16
<1>21. o.path = <<e>> /\ o.begin \in Nat /\ Takes(types[Top], u, 8 * at + o.begin, Span(o))
  BY <1>2, <1>6, <1>8, <1>17, <1>18
<1> HIDE DEF at
<1>22. at \in Nat /\ Spot(e, types') = at /\ Met(e, types') /\ e \in Entries /\ e.type = Top
  BY <1>7, <1>8, <1>15 DEF at
<1> QED
  BY ONLY <1>1, <1>19, <1>20, <1>21, <1>22, OneMore

LEMMA StartRunApart ==
  ASSUME LayoutInv, CountedInv, ApartInv, verdict = "ok", ~This.complete, This.used = 0,
         ~Crash, NEW name, NEW size \in {1, 4}, NEW bits \in Nat, bits <= 8 * size,
         StartRun(name, size, bits)
  PROVE  ApartInv'
<1> DEFINE based == Started(size, bits)
<1>1. \/ types' = [types EXCEPT ![Top] = based] /\ UNCHANGED <<objs, open>>
      \/ bits # 0 /\ PlaceBitField(based, name, size, bits)
  BY DEF StartRun, Started, Spaced
<1>2. /\ Top \in DOMAIN types /\ This = types[Top] /\ IsType(This)
      /\ Measured(This) /\ Refers(This, Len(objs))
  BY TopFacts
<1>3. /\ Measured(based) /\ Keeps(This, based) /\ based.used = 0 /\ Fills(This, based)
  BY <1>2, StartedMeasured
<1>4. Grows(This, based)
  BY <1>2, StartedGrows
<1> HIDE DEF based
<1>5. /\ Refers(based, Len(objs))
      /\ based.scope = types[Top].scope /\ Fills(types[Top], based)
  BY <1>2, <1>3 DEF Refers, Keeps
<1>6. CASE types' = [types EXCEPT ![Top] = based] /\ UNCHANGED <<objs, open>>
  BY <1>2, <1>3, <1>5, <1>6, SameObjects
<1>7. CASE bits # 0 /\ PlaceBitField(based, name, size, bits)
  BY <1>3, <1>4, <1>5, <1>7, PlaceBitFieldApart
<1> QED
  BY <1>1, <1>6, <1>7

LEMMA ContinueRunApart ==
  ASSUME LayoutInv, CountedInv, ApartInv, verdict = "ok", ~This.complete, This.used # 0,
         ~Crash, NEW name, NEW size \in {1, 4}, NEW bits \in Nat, bits <= 8 * size,
         ContinueRun(name, size, bits)
  PROVE  ApartInv'
<1> DEFINE skipped == Skipped(size, bits)
           based == Widened(size, bits)
           anew == Renewed(size, bits)
<1>1. \/ types' = [types EXCEPT ![Top] = skipped] /\ UNCHANGED <<objs, open>>
      \/ bits # 0 /\ PlaceBitField(based, name, size, bits)
      \/ bits # 0 /\ This.isStruct /\ PlaceBitField(anew, name, size, bits)
  BY DEF ContinueRun, Skipped, Widened, Renewed
<1>2. /\ Top \in DOMAIN types /\ This = types[Top] /\ IsType(This)
      /\ Measured(This) /\ Refers(This, Len(objs))
  BY TopFacts
<1>3. CASE types' = [types EXCEPT ![Top] = skipped] /\ UNCHANGED <<objs, open>>
  <2>1. Keeps(This, skipped) /\ Fills(This, skipped)
    BY <1>2, SkippedMeasured
  <2> HIDE DEF skipped
  <2>2. /\ skipped.scope = types[Top].scope /\ Fills(types[Top], skipped)
        /\ ~skipped.complete
    BY <1>2, <2>1 DEF Keeps
  <2> QED
    BY <1>2, <1>3, <2>2, SameObjects
<1>4. CASE bits # 0 /\ PlaceBitField(based, name, size, bits)
  <2>1. /\ Measured(based) /\ Keeps(This, based) /\ based.used = This.used
        /\ Fills(This, based)
    BY <1>2, WidenedMeasured
  <2>2. Grows(This, based)
    BY <1>2, WidenedGrows
  <2> HIDE DEF based
  <2>3. Refers(based, Len(objs))
    BY <1>2, <2>1 DEF Refers, Keeps
  <2> QED
    BY <1>4, <2>1, <2>2, <2>3, PlaceBitFieldApart
<1>5. CASE bits # 0 /\ This.isStruct /\ PlaceBitField(anew, name, size, bits)
  <2>1. Measured(anew) /\ Keeps(This, anew) /\ anew.used = 0 /\ Fills(This, anew)
    BY <1>2, <1>5, RenewedMeasured
  <2>2. Grows(This, anew)
    BY <1>2, <1>5, RenewedGrows
  <2> HIDE DEF anew
  <2>3. Refers(anew, Len(objs))
    BY <1>2, <2>1 DEF Refers, Keeps
  <2> QED
    BY <1>5, <2>1, <2>2, <2>3, PlaceBitFieldApart
<1> QED
  BY <1>1, <1>3, <1>4, <1>5

LEMMA CloseRecordApart ==
  ASSUME LayoutInv, CountedInv, ApartInv, CloseRecord
  PROVE  ApartInv'
<1> DEFINE u == Finish(This, objs)
<1>1. /\ verdict = "ok" /\ types' = [types EXCEPT ![Top] = u] /\ UNCHANGED <<objs, open>>
  BY DEF CloseRecord, Declaring
<1>2. /\ Top \in DOMAIN types /\ This = types[Top] /\ IsType(This)
      /\ Measured(This) /\ Refers(This, Len(objs))
  BY <1>1, TopFacts
<1>3. \A o \in 1..Len(objs) : objs[o].type \in LLVMTypes
  <2>1. DOMAIN objs = 1..Len(objs)
    BY AppendAny DEF LayoutInv
  <2> QED
    BY <2>1 DEF CountedInv, ObjectFits
<1>4. u.used = 0 /\ u.scope = This.scope /\ Fills(This, u)
  BY <1>2, <1>3, FinishMeasured
<1> HIDE DEF u
<1> QED
  BY <1>1, <1>2, <1>4, SameObjects

\* The bits that are taken in a type that is closed are bits of it.
LEMMA RoomFits ==
  ASSUME LayoutInv, CountedInv, NEW T \in DOMAIN types, types[T].used = 0
  PROVE  /\ Room(types[T]) \in Nat /\ Record(T).size \in Nat
         /\ Room(types[T]) <= 8 * Record(T).size
<1> DEFINE t == types[T]
<1>1. t.llvm \in Seq(LLVMTypes) /\ t.used = 0
  BY DEF CountedInv, Measured
<1>2. Record(T).size = LLVMSize(t.llvm)
  BY DEF Record
<1> HIDE DEF t
<1>3. End(t.llvm) \in Nat /\ LLVMSize(t.llvm) \in Nat /\ End(t.llvm) <= LLVMSize(t.llvm)
  BY <1>1, EndIsNat, LLVMSizeFacts
<1>4. Room(t) = 8 * End(t.llvm)
  BY <1>1, <1>3 DEF Room
<1> QED
  BY <1>2, <1>3, <1>4 DEF t

LEMMA MergeAnonymousApart ==
  ASSUME LayoutInv, CountedInv, ApartInv, MergeAnonymous, ~Error
  PROVE  ApartInv'
<1> DEFINE n      == Len(objs)
           type   == Record(Top)
           t      == Ready(types[Outer], type)
           offset == MakeAlign(t.offset, type.align)
           inner  == This.scope
           e      == [type |-> Outer, index |-> t.index]
           Moved(o) == [objs[o] EXCEPT !.offset = objs[o].offset + offset,
                                       !.path = <<e>> \o objs[o].path]
           moved  == [o \in DOMAIN objs |-> IF o \in Range(inner) THEN Moved(o) ELSE objs[o]]
           u      == AddElement(Merged(t, inner), type)
           new    == Object(NoName, type, 0, 0, offset, Outer, t.index)
<1>1. /\ Inside /\ objs' = Append(moved, new)
      /\ types' = [types EXCEPT ![Outer] = u] /\ open' = Front(open)
  BY DEF MergeAnonymous, Merged
<1>2. /\ Outer \in DOMAIN types /\ verdict = "ok" /\ This.complete
      /\ Outer \in Range(open) /\ Top \in Range(open) /\ Outer # Top
      /\ Range(open') \subseteq Range(open) /\ Distinct(open') /\ Top \notin Range(open')
  BY <1>1, OuterIsType, FrontOpen DEF Inside
<1>3. Top \in DOMAIN types /\ Refers(This, n) /\ This = types[Top]
  BY <1>2, TopFacts
<1>4. type \in LLVMTypes
  BY <1>3, RecordType
<1>5. types[Top].used = 0
  BY <1>2, <1>3 DEF ApartInv
<1>6. /\ Room(types[Top]) \in Nat /\ type.size \in Nat
      /\ Room(types[Top]) <= 8 * type.size
  BY <1>3, <1>5, RoomFits
<1> HIDE DEF type
<1>7. \A x \in DOMAIN inner : inner[x] \in 1..n
  BY <1>3 DEF Refers
<1>8. inner = types[Top].scope
  BY <1>3
<1> HIDE DEF inner
<1>9. /\ u.used = 0 /\ u.isStruct = types[Outer].isStruct
      /\ t.index \in Nat /\ u.index = t.index + 1
      /\ u.isStruct => t.index + 1 \in 1..Len(u.llvm)
      /\ offset \in Nat
      /\ offset = IF u.isStruct THEN ElementOffset(u.llvm)[t.index + 1] ELSE 0
  BY <1>2, <1>4, <1>7, MergedMeasured
<1>10. Fills(types[Outer], u) /\ Takes(types[Outer], u, 8 * offset, 8 * type.size)
  BY <1>2, <1>4, <1>7, MergedMeasured
<1>11. Joins(types[Outer], u, inner)
  BY <1>2, <1>4, <1>7, MergedMeasured
<1>12. types[Outer].index <= t.index
  BY <1>2, <1>4, ReadyMeasured DEF LayoutInv, CountedInv, Fills
<1> HIDE DEF u, offset, new
<1>13. e \in Entries /\ e.type = Outer /\ e.index = t.index
  BY <1>2, <1>9, TypeNumber DEF Entries
<1> HIDE DEF e, t
<1>14. /\ Filled(types, types') /\ DOMAIN types' = DOMAIN types /\ types'[Outer] = u
       /\ \A S \in DOMAIN types : S # Outer => types'[S] = types[S]
  BY <1>1, <1>2, <1>10, TypeFilled
<1>15. Reached(e, types') /\ Met(e, types') /\ Spot(e, types') = offset
  BY <1>2, <1>9, <1>13, <1>14 DEF Reached, Met, Spot
<1>16. n \in Nat /\ DOMAIN objs = 1..n /\ IsSeq(objs)
  BY AppendAny DEF LayoutInv
<1>17. IsSeq(moved) /\ Len(moved) = n /\ DOMAIN moved = DOMAIN objs
  <2> DEFINE S == {moved[o] : o \in DOMAIN objs}
  <2>1. moved \in [1..n -> S]
    <3> HIDE DEF Moved
    <3> QED
      BY <1>16
  <2>2. DOMAIN moved = DOMAIN objs
    OBVIOUS
  <2> HIDE DEF moved, S, n
  <2>3. moved \in Seq(S) /\ Len(moved) = n
    BY <1>16, <2>1
  <2> QED
    BY <2>3, <2>2 DEF IsSeq
<1>18. ASSUME NEW o \in DOMAIN objs
       PROVE  /\ o \notin Range(inner) => objs'[o] = objs[o]
              /\ o \in Range(inner) =>
                   /\ objs'[o].path = <<e>> \o objs[o].path
                   /\ objs'[o].begin = objs[o].begin /\ Span(objs'[o]) = Span(objs[o])
  <2>1. objs'[o] = moved[o]
    <3> HIDE DEF moved
    <3> QED
      BY <1>1, <1>17, AppendAny
  <2>2. /\ o \notin Range(inner) => moved[o] = objs[o]
        /\ o \in Range(inner) => moved[o] = Moved(o)
    <3> HIDE DEF Moved
    <3> QED
      OBVIOUS
  <2>3. /\ Moved(o).path = <<e>> \o objs[o].path /\ Moved(o).begin = objs[o].begin
        /\ Moved(o).bits = objs[o].bits /\ Moved(o).type = objs[o].type
    <3> DEFINE x == objs[o]
               m == [x EXCEPT !.offset = x.offset + offset, !.path = <<e>> \o x.path]
    <3>1. x = [f \in {"name", "type", "bits", "begin", "offset", "path"} |-> x[f]]
      BY DEF LayoutInv, IsObject
    <3> HIDE DEF x
    <3>2. /\ m.path = <<e>> \o x.path /\ m.begin = x.begin
          /\ m.bits = x.bits /\ m.type = x.type
      BY <3>1
    <3> QED
      BY <3>2 DEF x
  <2> HIDE DEF moved, Moved
  <2> QED
    BY <2>1, <2>2, <2>3 DEF Span
<1> HIDE DEF moved
<1>19. PICK at : \A S \in Range(open) : Settled(S, at, types, objs)
  BY DEF ApartInv
<1> DEFINE bt == [a \in 1..n |-> IF a \in Range(inner) THEN offset + at[a] ELSE at[a]]
<1>20. ASSUME NEW S \in Range(open), NEW a \in Range(types[S].scope)
       PROVE  /\ a \in DOMAIN objs
              /\ S # Top => objs'[a] = objs[a] /\ bt[a] = at[a]
  <2>1. S \in DOMAIN types
    BY OpenTypes
  <2>2. a \in 1..n
    BY <2>1 DEF CountedInv, Refers, Range
  <2>3. objs[a].path[1].type = S
    BY <1>19 DEF Settled, Within
  <2>4. a \in Range(inner) => objs[a].path[1].type = Top
    BY <1>2, <1>8, <1>19 DEF Settled, Within
  <2>5. S # Top => a \notin Range(inner)
    BY <2>3, <2>4
  <2> QED
    BY <1>16, <1>18, <2>2, <2>5
<1>21. \A a \in Range(inner) : bt[a] = offset + at[a] /\ a \in DOMAIN objs
  BY <1>2, <1>8, <1>16, <1>20
<1> HIDE DEF bt
<1>22. Settled(Outer, bt, types', objs')
  <2>1. /\ Settled(Outer, at, types, objs) /\ Settled(Top, at, types, objs)
        /\ Joins(types[Outer], types'[Outer], types[Top].scope)
        /\ types[Outer].index <= e.index /\ e.index < types'[Outer].index
        /\ Takes(types[Outer], types'[Outer], 8 * offset, 8 * type.size)
    BY <1>2, <1>8, <1>9, <1>10, <1>11, <1>12, <1>13, <1>14, <1>19
  <2>2. \A a \in Range(types[Outer].scope) : objs'[a] = objs[a] /\ bt[a] = at[a]
    BY <1>2, <1>20
  <2>3. \A a \in Range(types[Top].scope) :
          /\ objs'[a].path = <<e>> \o objs[a].path /\ objs'[a].begin = objs[a].begin
          /\ Span(objs'[a]) = Span(objs[a]) /\ bt[a] = offset + at[a]
    BY <1>8, <1>18, <1>21
  <2>4. offset \in Nat /\ type.size \in Nat
    BY <1>6, <1>9
  <2> QED
    BY ONLY <1>2, <1>3, <1>5, <1>6, <1>13, <1>14, <1>15, <2>1, <2>2, <2>3, <2>4, MergeSettled
<1>23. ASSUME NEW S \in Range(open'), S # Outer PROVE Settled(S, bt, types', objs')
  <2>1. S \in Range(open) /\ S # Top /\ S \in DOMAIN types /\ Settled(S, at, types, objs)
    BY <1>2, <1>19, OpenTypes
  <2>2. types'[S] = types[S]
    BY <1>14, <1>23, <2>1
  <2>3. \A x \in DOMAIN types'[S].scope :
           x \in DOMAIN types[S].scope /\ types'[S].scope[x] = types[S].scope[x]
    BY <2>2
  <2>4. \A a \in Range(types[S].scope) : objs'[a] = objs[a] /\ bt[a] = at[a]
    BY <1>20, <2>1
  <2> QED
    BY ONLY <1>14, <2>1, <2>3, <2>4, StaysSettled
<1>24. \A S \in DOMAIN types' : types'[S].complete => types'[S].used = 0
  BY <1>9, <1>14 DEF ApartInv
<1>25. \A S \in Range(open') : Settled(S, bt, types', objs')
  BY <1>22, <1>23
<1> QED
  BY <1>2, <1>24, <1>25 DEF ApartInv

LEMMA ApartInit == LayoutInit => ApartInv
<1> SUFFICES ASSUME LayoutInit PROVE ApartInv
  OBVIOUS
<1>1. PICK isStruct \in RecordKinds : types = <<NewStructType(isStruct)>>
  BY DEF LayoutInit
<1> DEFINE t == NewStructType(isStruct)
<1>2. t.used = 0 /\ DOMAIN t.scope = {}
  BY DEF NewStructType
<1> HIDE DEF t
<1>3. types = <<t>> /\ open = <<1>>
  BY <1>1 DEF t, LayoutInit
<1>4. DOMAIN types = {1} /\ types[1] = t /\ DOMAIN open = {1} /\ open[1] = 1
  BY <1>3
<1>5. Range(types[1].scope) = {} /\ Range(open) = {1}
  BY <1>2, <1>4 DEF Range
<1>6. \A at : Settled(1, at, types, objs)
  BY <1>5 DEF Settled
<1>7. Distinct(open)
  BY <1>4 DEF Distinct
<1> QED
  BY <1>2, <1>4, <1>5, <1>6, <1>7 DEF ApartInv

LEMMA ApartNext ==
  LayoutInv /\ CountedInv /\ ApartInv /\ [LayoutNext]_layoutVars => ApartInv'
<1> SUFFICES ASSUME LayoutInv, CountedInv, ApartInv, [LayoutNext]_layoutVars
             PROVE  ApartInv'
  OBVIOUS
<1>1. CASE Error \/ Crash
  BY <1>1, ExitApart DEF Error, Crash
<1>2. ASSUME NEW isStruct \in RecordKinds, OpenRecord(isStruct) PROVE ApartInv'
  BY <1>2, OpenRecordApart
<1>3. ASSUME NEW n \in Scalars, DeclareMember(Scalar(n)) PROVE ApartInv'
  <2>1. n \in Aligns \cap Nat
    BY LayoutAssumption DEF Aligns
  <2> QED
    BY <1>3, <2>1, ScalarType, DeclareMemberApart
<1>4. ASSUME NEW n \in Arrays, DeclareMember(Chars(n)) PROVE ApartInv'
  <2>1. n \in Nat
    BY LayoutAssumption
  <2> QED
    BY <1>4, <2>1, CharsType, DeclareMemberApart
<1>5. ASSUME NEW n \in Scalars, DeclareFlexible(n) PROVE ApartInv'
  BY <1>1, <1>5, FlexibleApart
<1>6. CASE Refused
  BY <1>1, <1>6 DEF Refused
<1>7. ASSUME NEW name, NEW size \in BitTypes, NEW bits \in BitWidths,
             DeclareBitField(name, size, bits)
      PROVE  ApartInv'
  <2>1. /\ verdict = "ok" /\ ~This.complete /\ size \in {1, 4} /\ bits \in Nat
    BY <1>7, LayoutAssumption DEF DeclareBitField, Declaring
  <2>2. CASE bits <= 8 * size /\ This.used = 0 /\ StartRun(name, size, bits)
    BY <1>1, <2>1, <2>2, StartRunApart
  <2>3. CASE bits <= 8 * size /\ This.used # 0 /\ ContinueRun(name, size, bits)
    BY <1>1, <2>1, <2>3, ContinueRunApart
  <2>4. ~(bits > size * 8) => bits <= 8 * size
    BY <2>1
  <2> QED
    BY <1>1, <1>7, <2>2, <2>3, <2>4 DEF DeclareBitField
<1>8. CASE CloseRecord
  BY <1>8, CloseRecordApart
<1>9. CASE DeclareRecord
  BY <1>9, DeclareRecordApart
<1>10. CASE MergeAnonymous
  BY <1>1, <1>10, MergeAnonymousApart
<1>11. CASE UNCHANGED layoutVars
  BY <1>11 DEF layoutVars, ApartInv
<1> QED
  BY <1>2, <1>3, <1>4, <1>5, <1>6, <1>7, <1>8, <1>9, <1>10, <1>11 DEF LayoutNext

\* In a type that is closed, at is the address.
LEMMA AtAddress ==
  ASSUME NEW o, NEW T, NEW n \in Nat, Within(objs[o], T, n, types), types[T].used = 0
  PROVE  Address(o) = n
<1> DEFINE path == objs[o].path
           c == Len(path)
<1>1. c \in Nat /\ path[1].type = T /\ Met(path[1], types)
      /\ \A k \in 2..c : Reached(path[k], types)
  BY DEF Within
<1>2. PICK f : Way(f, path, types) /\ f[1] = n
  BY DEF Within, LiesAt
<1>3. ASSUME NEW k \in 1..c PROVE Spot(path[k], types) = Shift(path[k])
  <2>1. Reached(path[k], types)
    <3>1. CASE k = 1
      BY <1>1, <3>1 DEF Met, Reached
    <3>2. CASE k # 1
      <4>1. k \in 2..c
        BY <1>1, <3>2
      <4> QED
        BY <1>1, <4>1
    <3> QED
      BY <3>1, <3>2
  <2> QED
    BY <2>1 DEF Reached, Spot, Shift
<1>4. /\ f \in [1..(c + 1) -> Int] /\ f[c + 1] = 0
      /\ \A k \in 1..c : f[k] = Shift(path[k]) + f[k + 1]
  BY <1>2, <1>3 DEF Way
<1>5. Address(o) = f[1]
  BY <1>1, <1>4, WayToAddress
<1> QED
  BY <1>2, <1>5

LEMMA ApartMembers == LayoutInv /\ CountedInv /\ ApartInv => MembersApart
<1> SUFFICES ASSUME LayoutInv, CountedInv, ApartInv, Laid
             PROVE  /\ \A a, b \in Leaves : a # b /\ ~ShareUnion(a, b) => Bits(a) \cap Bits(b) = {}
                    /\ \A o \in Leaves : Bits(o) \subseteq 0..(8 * Record(Top).size - 1)
  BY DEF MembersApart
<1>1. /\ verdict = "ok" /\ This.complete /\ This = types[Top]
      /\ Top \in DOMAIN types /\ Top \in Range(open)
  BY TopFacts, TopOpen DEF Laid
<1>2. types[Top].used = 0
  BY <1>1 DEF ApartInv
<1> DEFINE size == Record(Top).size
<1>3. /\ Room(types[Top]) \in Nat /\ size \in Nat /\ Room(types[Top]) <= 8 * size
  BY <1>1, <1>2, RoomFits
<1> HIDE DEF size
<1>4. PICK at : \A S \in Range(open) : Settled(S, at, types, objs)
  BY DEF ApartInv
<1>5. Settled(Top, at, types, objs) /\ Leaves = Range(types[Top].scope)
  BY <1>1, <1>4 DEF Leaves
<1>6. ASSUME NEW o \in Leaves
      PROVE  /\ at[o] \in Nat /\ objs[o].begin \in Nat /\ Span(objs[o]) \in Nat
             /\ Bits(o) = (8 * at[o] + objs[o].begin)
                            ..(8 * at[o] + objs[o].begin + Span(objs[o]) - 1)
             /\ 8 * at[o] + objs[o].begin + Span(objs[o]) <= 8 * size
  <2>1. at[o] \in Nat /\ Within(objs[o], Top, at[o], types)
    BY <1>5 DEF Settled
  <2>2. Address(o) = at[o]
    BY <1>2, <2>1, AtAddress
  <2>3. /\ objs[o].begin \in Nat /\ Span(objs[o]) \in Nat
        /\ 8 * at[o] + objs[o].begin + Span(objs[o]) <= Room(types[Top])
    BY <2>1 DEF Within
  <2>4. Bits(o) = (8 * at[o] + objs[o].begin)
                    ..(8 * at[o] + objs[o].begin + Span(objs[o]) - 1)
    BY <2>2 DEF Bits, Span
  <2>5. 8 * at[o] + objs[o].begin + Span(objs[o]) <= 8 * size
    <3> DEFINE x == 8 * at[o] + objs[o].begin + Span(objs[o])
    <3>1. x \in Nat /\ x <= Room(types[Top])
      BY <2>1, <2>3
    <3> HIDE DEF x
    <3>2. x <= 8 * size
      BY <1>3, <3>1
    <3> QED
      BY <3>2 DEF x
  <2> QED
    BY <2>1, <2>3, <2>4, <2>5
<1>7. ASSUME NEW a \in Leaves, NEW b \in Leaves, a # b, ~ShareUnion(a, b)
      PROVE  Bits(a) \cap Bits(b) = {}
  <2>1. ShareUnion(a, b) = Shared(objs[a].path, objs[b].path, types)
    BY DEF ShareUnion, Shared, Fork, Together
  <2>2. Clear(objs[a], at[a], objs[b], at[b])
    BY <1>5, <1>7, <2>1 DEF Settled
  <2> DEFINE x == 8 * at[a] + objs[a].begin
             y == 8 * at[b] + objs[b].begin
             p == Span(objs[a])
             q == Span(objs[b])
  <2>3. /\ at[a] \in Nat /\ objs[a].begin \in Nat /\ p \in Nat
        /\ at[b] \in Nat /\ objs[b].begin \in Nat /\ q \in Nat
    BY <1>6
  <2>4. x \in Nat /\ y \in Nat /\ p \in Nat /\ q \in Nat
    BY <2>3
  <2>5. Bits(a) = x..(x + p - 1)
    BY <1>6
  <2>6. Bits(b) = y..(y + q - 1)
    BY <1>6
  <2>7. x + p <= y \/ y + q <= x
    BY <2>2 DEF Clear
  <2> HIDE DEF x, y, p, q
  <2> QED
    BY <2>4, <2>7, <2>5, <2>6
<1>8. ASSUME NEW o \in Leaves PROVE Bits(o) \subseteq 0..(8 * size - 1)
  <2> DEFINE x == 8 * at[o] + objs[o].begin
             p == Span(objs[o])
  <2>1. x \in Nat /\ p \in Nat /\ Bits(o) = x..(x + p - 1) /\ x + p <= 8 * size
    BY <1>6
  <2> HIDE DEF x, p
  <2> QED
    BY <1>3, <2>1
<1> QED
  BY <1>7, <1>8 DEF size

-----------------------------------------------------------------------------
\* The theorems.

LEMMA CountedInit == LayoutInit => CountedInv
<1> SUFFICES ASSUME LayoutInit PROVE CountedInv
  OBVIOUS
<1>1. PICK isStruct \in RecordKinds : types = <<NewStructType(isStruct)>>
  BY DEF LayoutInit
<1> DEFINE t == NewStructType(isStruct)
<1>2. isStruct \in BOOLEAN
  BY LayoutAssumption
<1>3. /\ Measured(t) /\ InRun(t) /\ Refers(t, Len(objs))
      /\ t.used = 0 /\ t.index = 0 /\ t.members = <<>>
  BY <1>2, NewTypeFacts
<1> HIDE DEF t
<1>4. types = <<t>>
  BY <1>1 DEF t
<1>5. DOMAIN types = {1} /\ types[1] = t /\ Len(types) = 1
  BY <1>4
<1>6. objs = <<>> /\ verdict = "ok" /\ MaxTypes \in Nat \ {0}
  BY LayoutAssumption DEF LayoutInit
<1>7. UnionCounts(1, types, objs)
  BY <1>3, <1>5 DEF UnionCounts
<1> QED
  BY <1>3, <1>5, <1>6, <1>7 DEF CountedInv

LEMMA CountedNext == LayoutInv /\ CountedInv /\ [LayoutNext]_layoutVars => CountedInv'
<1> SUFFICES ASSUME LayoutInv, CountedInv, [LayoutNext]_layoutVars PROVE CountedInv'
  OBVIOUS
<1>1. CASE Error \/ Crash
  BY <1>1, ExitCounted DEF Error, Crash
<1>2. ASSUME NEW isStruct \in RecordKinds, OpenRecord(isStruct) PROVE CountedInv'
  BY <1>2, OpenRecordCounted
<1>3. ASSUME NEW n \in Scalars, DeclareMember(Scalar(n)) PROVE CountedInv'
  <2>1. n \in Aligns \cap Nat
    BY LayoutAssumption DEF Aligns
  <2> QED
    BY <1>3, <2>1, ScalarType, DeclareMemberCounted
<1>4. ASSUME NEW n \in Arrays, DeclareMember(Chars(n)) PROVE CountedInv'
  <2>1. n \in Nat
    BY LayoutAssumption
  <2> QED
    BY <1>4, <2>1, CharsType, DeclareMemberCounted
<1>5. ASSUME NEW n \in Scalars, DeclareFlexible(n) PROVE CountedInv'
  BY <1>1, <1>5, FlexibleCounted
<1>6. CASE Refused
  BY <1>1, <1>6 DEF Refused
<1>7. ASSUME NEW name, NEW size \in BitTypes, NEW bits \in BitWidths,
             DeclareBitField(name, size, bits)
      PROVE  CountedInv'
  <2>1. verdict = "ok" /\ size \in {1, 4} /\ bits \in Nat
    BY <1>7, LayoutAssumption DEF DeclareBitField, Declaring
  <2>2. CASE This.used = 0 /\ StartRun(name, size, bits)
    BY <1>1, <2>1, <2>2, StartRunCounted
  <2>3. CASE This.used # 0 /\ ContinueRun(name, size, bits)
    BY <1>1, <2>1, <2>3, ContinueRunCounted
  <2> QED
    BY <1>1, <1>7, <2>2, <2>3 DEF DeclareBitField
<1>8. CASE CloseRecord
  BY <1>8, CloseRecordCounted
<1>9. CASE DeclareRecord
  BY <1>9, DeclareRecordCounted
<1>10. CASE MergeAnonymous
  BY <1>1, <1>10, MergeAnonymousCounted
<1>11. CASE UNCHANGED layoutVars
  BY <1>11 DEF layoutVars, CountedInv
<1> QED
  BY <1>2, <1>3, <1>4, <1>5, <1>6, <1>7, <1>8, <1>9, <1>10, <1>11 DEF LayoutNext

LEMMA CountedTypes == LayoutInv /\ CountedInv => LayoutTypeOK
<1> SUFFICES ASSUME LayoutInv, CountedInv PROVE LayoutTypeOK
  OBVIOUS
<1>1. Range(open) \subseteq DOMAIN types
  BY ElementOfSeq DEF LayoutInv, Range
<1>2. ASSUME NEW o \in DOMAIN objs
      PROVE  /\ objs[o].type \in LLVMTypes /\ objs[o].offset \in Int
             /\ Range(objs[o].path) \subseteq Entries
  <2>1. ObjectFits(objs[o], types)
    BY DEF CountedInv
  <2> QED
    BY <2>1, ElementOfSeq DEF ObjectFits, Range
<1>3. ASSUME NEW T \in DOMAIN types
      PROVE  /\ Range(types[T].llvm) \subseteq LLVMTypes
             /\ Range(types[T].members) \subseteq DOMAIN objs
             /\ Range(types[T].scope) \subseteq DOMAIN objs
             /\ types[T].used \in 0..MaxOf(types[T].base - 1, 0)
  <2> DEFINE t == types[T]
  <2>1. Measured(t) /\ InRun(t) /\ Refers(t, Len(objs)) /\ DOMAIN objs = 1..Len(objs)
    BY AppendAny DEF LayoutInv, CountedInv
  <2> HIDE DEF t
  <2>2. Range(t.llvm) \subseteq LLVMTypes /\ Range(t.members) \subseteq DOMAIN objs
    BY <2>1, ElementOfSeq DEF Measured, Refers, Range
  <2>3. Range(t.scope) \subseteq DOMAIN objs
    BY <2>1 DEF Refers, Range
  <2>4. t.used \in 0..MaxOf(t.base - 1, 0)
    <3>1. t.used \in Nat /\ t.base \in Nat /\ (t.used = 0 \/ t.used < t.base)
      BY <2>1 DEF Measured, InRun
    <3> QED
      BY <3>1 DEF MaxOf
  <2> QED
    BY <2>2, <2>3, <2>4 DEF t
<1> QED
  BY <1>1, <1>2, <1>3 DEF LayoutTypeOK, LayoutInv, CountedInv

LEMMA CountedOffsets == LayoutInv /\ CountedInv => OffsetsAgree
<1> SUFFICES ASSUME LayoutInv, CountedInv, \A T \in DOMAIN types : types[T].spaces = 0,
                    Laid, NEW o \in Leaves, objs[o].bits = 0
             PROVE  objs[o].offset = Address(o)
  BY DEF OffsetsAgree, OffsetofIsAddress
<1>1. Refers(This, Len(objs)) /\ DOMAIN objs = 1..Len(objs)
  BY TopFacts, AppendAny DEF Laid, LayoutInv
<1>2. o \in DOMAIN objs
  BY <1>1 DEF Leaves, Range, Refers
<1>3. ObjectFits(objs[o], types) /\ Unpadded(types)
  BY <1>2 DEF CountedInv, Unpadded
<1>4. PICK f : Leads(f, objs[o], types)
  BY <1>3 DEF ObjectFits
<1>5. Len(objs[o].path) \in Nat
  BY <1>3 DEF ObjectFits
<1> QED
  BY <1>2, <1>4, <1>5, LeadsToAddress

LEMMA CountedCasts == LayoutInv /\ CountedInv => CastsToMember
<1> SUFFICES ASSUME LayoutInv, CountedInv, Laid, ~This.isStruct, ~HasBitField(Top),
                    NEW o \in Range(This.members)
             PROVE  LET i == Last(objs[o].path).index + 1
                    IN i \in DOMAIN This.members /\ objs[This.members[i]].type = objs[o].type
  BY DEF CastsToMember
<1>1. /\ This = types[Top] /\ Refers(This, Len(objs)) /\ UnionCounts(Top, types, objs)
  BY TopFacts DEF Laid
<1>2. \A k \in 1..Len(This.members) : Last(objs[This.members[k]].path).index = k - 1
  BY <1>1 DEF UnionCounts, HasBitField
<1>3. DOMAIN This.members = 1..Len(This.members) /\ Len(This.members) \in Nat
  BY <1>1 DEF Refers
<1>4. PICK k \in 1..Len(This.members) : This.members[k] = o
  BY <1>3 DEF Range
<1>5. Last(objs[o].path).index + 1 = k
  BY <1>2, <1>3, <1>4
<1> QED
  BY <1>3, <1>4, <1>5

LEMMA LayoutCounted == LayoutSpec => [](LayoutInv /\ CountedInv)
<1>1. LayoutInit => LayoutInv /\ CountedInv
  BY LayoutInitInv, CountedInit
<1>2. (LayoutInv /\ CountedInv) /\ [LayoutNext]_layoutVars => (LayoutInv /\ CountedInv)'
  BY LayoutNextInv, CountedNext
<1> QED
  BY <1>1, <1>2, PTL DEF LayoutSpec

\* The types of the state, for structs and unions of any members, sizes and
\* widths: the lists refer to objects there are, a run of bit-fields is shorter
\* than its storage unit.
THEOREM LayoutTypes == LayoutSpec => []LayoutTypeOK
BY LayoutCounted, CountedTypes, PTL

\* offsetof and the debug information name the byte the generated code uses, as
\* long as no run of bit-fields was filled up.
THEOREM OffsetsReach == LayoutSpec => []OffsetsAgree
BY LayoutCounted, CountedOffsets, PTL

\* A member of a union without bit-fields is reached by a cast to its own type.
THEOREM CastsFind == LayoutSpec => []CastsToMember
BY LayoutCounted, CountedCasts, PTL

\* Members of a struct or union do not overlap unless a union says so, and none
\* sticks out of the type, however they are nested, merged and packed.
THEOREM MembersStayApart == LayoutSpec => []MembersApart
<1>1. LayoutInit => ApartInv
  BY ApartInit
<1>2. LayoutInv /\ CountedInv /\ ApartInv /\ [LayoutNext]_layoutVars => ApartInv'
  BY ApartNext
<1>3. LayoutInv /\ CountedInv /\ ApartInv => MembersApart
  BY ApartMembers
<1> QED
  BY <1>1, <1>2, <1>3, LayoutCounted, PTL DEF LayoutSpec
=============================================================================
