---------------------------- MODULE StructLayout ----------------------------
(***************************************************************************)
(* How the parser lays out a struct or union (StructType in type.cpp,      *)
(* ParseStructDeclList and ParseBitField in parse_decl.cpp).               *)
(*                                                                         *)
(* kcc keeps two layouts of a type side by side: the byte offsets that     *)
(* offsetof and the debug information use, and the element list of an LLVM *)
(* struct, with an index into it for each member, that the generated code  *)
(* uses.  Bit-fields have no element of their own: they are packed into a  *)
(* run of bytes that becomes an element when the run ends, so each         *)
(* declaration must first end the run before it.                           *)
(*                                                                         *)
(* types[T] is a StructType, objs[o] the ObjectExpr of a member, open the  *)
(* types whose braces are open, innermost last.                            *)
(***************************************************************************)
EXTENDS Integers, SequencesExt

CONSTANTS
  Scalars,     \* the sizes of scalar member types; each aligned to its size
  Arrays,      \* the sizes of arrays of char
  BitTypes,    \* the widths in bytes of the types of bit-fields: char, int
  BitWidths,   \* the widths bit-fields are declared with
  RecordKinds, \* the values of is_struct_: may there be structs, unions?
  MaxObjs,     \* bound on the number of members
  MaxTypes     \* bound on the number of struct and union types

ASSUME LayoutAssumption ==
  /\ Scalars \subseteq {1, 2, 4, 8, 16}
  /\ Arrays \subseteq Nat \ {0}
  /\ BitTypes \subseteq {1, 4}
  /\ BitWidths \subseteq Nat
  /\ RecordKinds \subseteq BOOLEAN
  /\ MaxObjs \in Nat /\ MaxTypes \in Nat \ {0}

VARIABLES
  types,   \* the StructTypes, by number
  objs,    \* the members' ObjectExprs, by number
  open,    \* the types under construction, innermost last
  verdict  \* "ok", "error" (Error() was called) or "crash" (an assert failed)

layoutVars == <<types, objs, open, verdict>>

\* A name is the number of the first object it was given to; declaring it again
\* is one of the errors of Refused.
NoName == 0
Fresh  == Len(objs) + 1

MaxOf(a, b) == IF a > b THEN a ELSE b

-----------------------------------------------------------------------------
\* LLVM's part: getTypeAllocSize, getStructLayout, CreateStructGEP.
Scalar(n)  == [size |-> n, align |-> n, rec |-> 0]
Chars(n)   == [size |-> n, align |-> 1, rec |-> 0]

\* The sum rounded up to a multiple of align.
MakeAlign(offset, align) ==
  IF offset % align = 0 THEN offset ELSE offset + align - (offset % align)

\* Where each element starts, and where the element after the last would.
ElementOffset(llvm) ==
  LET at[i \in 1..Len(llvm)] ==
        MakeAlign(IF i = 1 THEN 0 ELSE at[i - 1] + llvm[i - 1].size, llvm[i].align)
  IN at

LLVMAlign(llvm) == Max({1} \cup {llvm[i].align : i \in DOMAIN llvm})

LLVMSize(llvm) ==
  IF llvm = <<>> THEN 0
  ELSE MakeAlign(ElementOffset(llvm)[Len(llvm)] + Last(llvm).size, LLVMAlign(llvm))

-----------------------------------------------------------------------------
\* width_ has no field here: for a struct it is MakeAlign(offset, align), set
\* anew where it is read, and nobody reads that of a union.
NewStructType(isStruct) ==
  [isStruct |-> isStruct, complete |-> FALSE,
   members  |-> <<>>,               \* members_, as numbers of objects
   scope    |-> [n \in {} |-> 0],   \* scope_: the object a name stands for
   llvm     |-> <<>>,               \* llvm_types_
   offset   |-> 0, align |-> 1, index |-> 0,
   used     |-> 0,                  \* bit_field_used_width_
   base     |-> 0,                  \* bit_field_base_type_width_
   spaces   |-> 0]                  \* bit_field_space_count_

Padding(t) == MakeAlign(t.offset, t.align) - t.offset

\* An int8 holds every width it is called with: padding is below 16 bytes.
GetBitFieldSpace(bits) == Chars(IF bits <= 8 THEN 1 ELSE (bits + 7) \div 8)

PushSpace(t, bits) ==
  [t EXCEPT !.llvm = Append(@, GetBitFieldSpace(bits)), !.index = @ + 1]

\* Most union members compete for the one element: the larger one wins.
Larger(t, type) ==
  [t EXCEPT !.llvm =
    IF @ = <<>> \/ type.size > Last(@).size THEN <<type>> ELSE @]

AddLLVMType(t, type) ==
  IF t.isStruct THEN [t EXCEPT !.llvm = Append(@, type)]
  ELSE IF t.llvm # <<>> /\ Last(t.llvm).size = type.size
          /\ Last(t.llvm).rec # 0 /\ type.rec = 0
       THEN [t EXCEPT !.llvm = <<type>>]
  ELSE Larger(t, type)

\* Ends the run of bit-fields a declaration of another kind comes after, and
\* fills up to the alignment this declaration has.
AddBitFieldBeforeMember(t) ==
  LET ended  == [t EXCEPT !.used = 0, !.base = 0]
      run    == [PushSpace(ended, t.used) EXCEPT
                   !.offset = @ + MakeAlign(t.used, 8) \div 8]
  IN IF t.used = 0 THEN ended
     ELSE IF ~t.isStruct
       THEN [Larger(ended, GetBitFieldSpace(t.used)) EXCEPT !.index = @ + 1]
     ELSE IF Padding(run) = 0 THEN run
     ELSE [PushSpace(run, Padding(run) * 8) EXCEPT
             !.offset = @ + Padding(run), !.spaces = @ + Padding(run)]

AddSpace(t) ==
  IF Padding(t) = 0 THEN t
  ELSE [PushSpace(t, Padding(t) * 8) EXCEPT !.offset = @ + Padding(t)]

\* Mutant: the bits that are packed away are still counted.
BitFieldPackedCounting(t) ==
  IF t.isStruct
  THEN [PushSpace([t EXCEPT !.base = 0], t.base) EXCEPT !.offset = @ + t.base \div 8]
  ELSE [t EXCEPT !.base = 0]

\* The run has filled its storage unit.
BitFieldPacked(t) ==
  LET ended == [t EXCEPT !.used = 0, !.base = 0]
  IN IF t.isStruct
     THEN [PushSpace(ended, t.base) EXCEPT !.offset = @ + t.base \div 8]
     ELSE ended

\* The next bit-field needs a new unit: fills what is left of this one.
AddSpaceBetweenBitField(t) ==
  LET rest == t.base - MakeAlign(t.used, 8)
      run  == [PushSpace(t, t.used) EXCEPT
                 !.offset = @ + MakeAlign(t.used, 8) \div 8]
  IN [PushSpace(run, rest) EXCEPT
        !.offset = @ + GetBitFieldSpace(rest).size, !.used = 0, !.base = 0]

-----------------------------------------------------------------------------
\* The members that are not unnamed bit-fields, os being their objects.
Named(members, os) ==
  LET Stays(o) == os[o].name # NoName \/ os[o].bits = 0
      kept[i \in 0..Len(members)] ==
        IF i = 0 THEN <<>>
        ELSE IF Stays(members[i]) THEN Append(kept[i - 1], members[i]) ELSE kept[i - 1]
  IN kept[Len(members)]

\* SetComplete(true).  Unnamed bit-fields leave members_ and keep their place in
\* llvm_types_.
Finish(t, os) ==
  LET last == os[Last(t.members)].type.align
      full == IF t.used = 0 THEN t
              ELSE AddBitFieldBeforeMember([t EXCEPT !.align = MaxOf(@, last)])
  IN [full EXCEPT !.complete = TRUE, !.members = Named(@, os)]

Object(name, type, bits, begin, offset, T, index) ==
  [name |-> name, type |-> type, bits |-> bits, begin |-> begin,
   offset |-> offset, path |-> <<[type |-> T, index |-> index]>>]

\* members_.push_back(member); scope_->InsertUsual(member), for a new member.
Insert(t, name) ==
  [t EXCEPT !.members = Append(@, Fresh),
            !.scope = [n \in DOMAIN @ \cup {name} |-> IF n = name THEN Fresh ELSE @[n]]]

\* Mutant: the member is declared while the run before it is still open.
ReadyInRun(t, type) == [t EXCEPT !.align = MaxOf(@, type.align)]

\* The alignment is raised first: it decides how a run is filled up.
Ready(t, type) == AddBitFieldBeforeMember([t EXCEPT !.align = MaxOf(@, type.align)])

\* Mutant: the next offset is where this member would end without alignment.
AddElementUnaligned(t, type) ==
  [AddLLVMType(t, type) EXCEPT
     !.index = @ + 1, !.offset = IF t.isStruct THEN @ + type.size ELSE @]

\* Mutant: a union has one element, so its members are not counted.
AddElementOfStruct(t, type) ==
  [AddLLVMType(t, type) EXCEPT
     !.index = IF t.isStruct THEN @ + 1 ELSE @,
     !.offset = IF t.isStruct THEN MakeAlign(@, type.align) + type.size ELSE @]

AddElement(t, type) ==
  [AddLLVMType(t, type) EXCEPT
     !.index = @ + 1,
     !.offset = IF t.isStruct THEN MakeAlign(@, type.align) + type.size ELSE @]

\* Mutant: index_ is read before the run of bit-fields is ended.
MemberObjectEarly(T, type) ==
  LET t == Ready(types[T], type)
  IN Object(Fresh, type, 0, 0, MakeAlign(t.offset, type.align) - t.spaces,
            T, types[T].index)

\* The padding around bit-fields is taken off the offset.
MemberObject(T, type) ==
  LET t == Ready(types[T], type)
  IN Object(Fresh, type, 0, 0, MakeAlign(t.offset, type.align) - t.spaces, T, t.index)

AddMember(T, type) == AddElement(Insert(Ready(types[T], type), Fresh), type)

-----------------------------------------------------------------------------
Top  == Last(open)
This == types[Top]
Declaring == verdict = "ok" /\ ~This.complete

\* The process ends.
Exit(how) == verdict' = how /\ types' = <<>> /\ objs' = <<>> /\ open' = <<>>
Error == Exit("error")
Crash == Exit("crash")

Record(T) == [size |-> LLVMSize(types[T].llvm), align |-> LLVMAlign(types[T].llvm), rec |-> T]

\* struct { or union {, as the specifier of a member.
OpenRecord(isStruct) ==
  /\ Declaring /\ Len(types) < MaxTypes
  /\ types' = Append(types, NewStructType(isStruct))
  /\ open' = Append(open, Len(types) + 1)
  /\ UNCHANGED <<objs, verdict>>

DeclareMember(type) ==
  /\ Declaring /\ Len(objs) < MaxObjs
  /\ objs' = Append(objs, MemberObject(Top, type))
  /\ types' = [types EXCEPT ![Top] = AddMember(Top, type)]
  /\ UNCHANGED <<open, verdict>>

\* An array without a size: the last member of a struct that has another, and
\* the end of its declarations.
DeclareFlexible(elem) ==
  LET type == [Scalar(elem) EXCEPT !.size = 0]
  IN /\ Declaring /\ Len(objs) < MaxObjs
     /\ \/ (~This.isStruct \/ This.members = <<>>) /\ Error
        \/ /\ This.isStruct /\ This.members # <<>>
           /\ objs' = Append(objs, MemberObject(Top, type))
           /\ types' = [types EXCEPT ![Top] = Finish(AddMember(Top, type), objs')]
           /\ UNCHANGED <<open, verdict>>

\* A name for the second time; a function; no declarator; a bit-field of a type
\* that is neither char nor int.
Refused == verdict = "ok" /\ (~This.complete \/ Len(open) > 1) /\ Error

-----------------------------------------------------------------------------
\* AddBitField, once t has a run that the bit-field goes into.
PlaceBitField(t, name, size, bits) ==
  LET begin == IF t.isStruct THEN t.used ELSE 0
      in    == [Insert(t, name) EXCEPT !.used = @ + bits]
      grown == IF t.isStruct THEN in ELSE Larger(in, Scalar(size))
  IN \/ grown.used > grown.base /\ Crash
     \/ /\ grown.used <= grown.base
        /\ objs' = Append(objs,
             Object(name, Scalar(size), bits, begin, t.offset, Top, t.index))
        /\ types' = [types EXCEPT ![Top] =
             IF grown.used = grown.base THEN BitFieldPacked(grown) ELSE grown]
        /\ UNCHANGED <<open, verdict>>

Aligned(size, bits) ==
  IF bits = 0 \/ bits > 8 THEN [This EXCEPT !.align = MaxOf(@, size)] ELSE This

\* The first of a run.
StartRun(name, size, bits) ==
  LET t == IF This.isStruct /\ This.members # <<>> /\ objs[Last(This.members)].bits = 0
           THEN AddSpace(Aligned(size, bits)) ELSE Aligned(size, bits)
      based == [t EXCEPT !.base = size * 8]
  IN \/ t.base # 0 /\ Crash
     \/ /\ t.base = 0 /\ bits = 0
        /\ types' = [types EXCEPT ![Top] = based]
        /\ UNCHANGED <<objs, open, verdict>>
     \/ t.base = 0 /\ bits # 0 /\ PlaceBitField(based, name, size, bits)

ContinueRun(name, size, bits) ==
  LET t == Aligned(size, bits)
      based == [t EXCEPT !.base = MaxOf(@, size * 8)]
      fits  == based.used + bits <= based.base \/ ~This.isStruct
  IN \/ /\ bits = 0
        /\ types' = [types EXCEPT ![Top] =
             IF ~This.isStruct \/ size = 1 THEN t ELSE AddSpaceBetweenBitField(t)]
        /\ UNCHANGED <<objs, open, verdict>>
     \/ bits # 0 /\ fits /\ PlaceBitField(based, name, size, bits)
     \/ /\ bits # 0 /\ ~fits
        /\ PlaceBitField([AddSpaceBetweenBitField(based) EXCEPT !.base = size * 8],
                         name, size, bits)

DeclareBitField(name, size, bits) ==
  LET invalid == \/ bits = 0 /\ name # NoName
                 \/ bits > size * 8
  IN /\ Declaring /\ Len(objs) < MaxObjs
     /\ \/ invalid /\ Error
        \/ ~invalid /\ This.used = 0 /\ StartRun(name, size, bits)
        \/ ~invalid /\ This.used # 0 /\ ContinueRun(name, size, bits)

-----------------------------------------------------------------------------
\* The right brace.
CloseRecord ==
  /\ Declaring
  /\ types' = [types EXCEPT ![Top] = Finish(This, objs)]
  /\ UNCHANGED <<objs, open, verdict>>

Outer == open[Len(open) - 1]
Inside == verdict = "ok" /\ This.complete /\ Len(open) > 1

\* struct { ... } name;
DeclareRecord ==
  /\ Inside /\ Len(objs) < MaxObjs
  /\ objs' = Append(objs, MemberObject(Outer, Record(Top)))
  /\ types' = [types EXCEPT ![Outer] = AddMember(Outer, Record(Top))]
  /\ open' = Front(open)
  /\ UNCHANGED verdict

\* struct { ... }; its members become members of the type around it.
MergeAnonymous ==
  LET t      == Ready(types[Outer], Record(Top))
      offset == MakeAlign(t.offset, Record(Top).align)
      inner  == This.scope
      Moved(o) == [objs[o] EXCEPT !.offset = @ + offset,
                                  !.path = <<[type |-> Outer, index |-> t.index]>> \o @]
  IN /\ Inside /\ Len(objs) < MaxObjs
     /\ \/ DOMAIN inner \cap DOMAIN t.scope # {} /\ Error
        \/ /\ DOMAIN inner \cap DOMAIN t.scope = {}
           /\ objs' = Append([o \in DOMAIN objs |->
                                IF o \in Range(inner) THEN Moved(o) ELSE objs[o]],
                             Object(NoName, Record(Top), 0, 0, offset, Outer, t.index))
           /\ types' = [types EXCEPT ![Outer] =
                AddElement([t EXCEPT
                  !.members = Append(@, Fresh),
                  !.scope = [n \in DOMAIN @ \cup DOMAIN inner |->
                               IF n \in DOMAIN inner THEN inner[n] ELSE @[n]]],
                  Record(Top))]
           /\ open' = Front(open)
           /\ UNCHANGED verdict

-----------------------------------------------------------------------------
LayoutInit ==
  /\ \E isStruct \in RecordKinds : types = <<NewStructType(isStruct)>>
  /\ objs = <<>> /\ open = <<1>> /\ verdict = "ok"

LayoutNext ==
  \/ \E isStruct \in RecordKinds : OpenRecord(isStruct)
  \/ \E n \in Scalars : DeclareMember(Scalar(n)) \/ DeclareFlexible(n)
  \/ \E n \in Arrays : DeclareMember(Chars(n))
  \/ Refused
  \/ \E name \in {Fresh, NoName}, size \in BitTypes, bits \in BitWidths :
       DeclareBitField(name, size, bits)
  \/ CloseRecord
  \/ DeclareRecord
  \/ MergeAnonymous

LayoutSpec == LayoutInit /\ [][LayoutNext]_layoutVars

-----------------------------------------------------------------------------
Aligns    == {1, 2, 4, 8, 16}
LLVMTypes == [size : Nat, align : Aligns, rec : 0..MaxTypes]
Entries   == [type : 1..MaxTypes, index : Nat]

\* The state is made of the types the code declares; a run of bit-fields is
\* only begun over a storage unit that can hold it.
LayoutTypeOK ==
  /\ verdict \in {"ok", "error", "crash"}
  /\ Range(open) \subseteq DOMAIN types
  /\ verdict = "ok" => open # <<>>
  /\ \A o \in DOMAIN objs :
       /\ objs[o].type \in LLVMTypes /\ objs[o].offset \in Int
       /\ Range(objs[o].path) \subseteq Entries
  /\ \A T \in DOMAIN types :
       /\ Range(types[T].llvm) \subseteq LLVMTypes
       /\ Range(types[T].members) \subseteq DOMAIN objs
       /\ Range(types[T].scope) \subseteq DOMAIN objs
       /\ types[T].used \in 0..MaxOf(types[T].base - 1, 0)

\* CreateStructGEP(ptr, index) finds the member: an object declared in a struct
\* has the index of the element made for it, however many elements of padding
\* and of bit-field runs came before (index_ is counted by hand beside every
\* push_back to llvm_types_, and taken before the element is there); for a
\* bit-field, of one that its run has become or becomes next.
IndexFindsElement ==
  /\ \A T \in DOMAIN types :
       types[T].isStruct => types[T].index = Len(types[T].llvm)
  /\ \A o \in DOMAIN objs :
       LET T == Last(objs[o].path).type
           i == Last(objs[o].path).index + 1
       IN types[T].isStruct =>
            IF objs[o].bits # 0 THEN i \in 1..(types[T].index + 1)
            ELSE i \in DOMAIN types[T].llvm /\ types[T].llvm[i] = objs[o].type

-----------------------------------------------------------------------------
\* What follows is about the type whose brace was just closed, Top.
Laid == verdict = "ok" /\ This.complete

Leaves == Range(This.scope)

\* How far a step along GetIndexs() leads; a union is a bitcast.
Shift(e) ==
  IF types[e.type].isStruct THEN ElementOffset(types[e.type].llvm)[e.index + 1] ELSE 0

\* The byte CodeGen::GetPtr reaches in all of them.
Address(o) ==
  LET path == objs[o].path
      from[k \in 1..(Len(path) + 1)] ==
        IF k > Len(path) THEN 0 ELSE Shift(path[k]) + from[k + 1]
  IN from[1]

HasBitField(T) ==
  \E o \in DOMAIN objs : objs[o].bits # 0 /\ Last(objs[o].path).type = T

\* The bits of the type that belong to a member.
Bits(o) ==
  LET first == 8 * Address(o) + objs[o].begin
      count == IF objs[o].bits # 0 THEN objs[o].bits ELSE 8 * objs[o].type.size
  IN first..(first + count - 1)

\* The innermost type around both members is a union.
ShareUnion(a, b) ==
  LET p == objs[a].path
      q == objs[b].path
      Together(k) == k \in DOMAIN q /\ SubSeq(p, 1, k - 1) = SubSeq(q, 1, k - 1)
  IN ~types[p[Max({k \in DOMAIN p : Together(k)})].type].isStruct

\* Members do not overlap unless a union says so, and none sticks out of the
\* type: packing, padding and merging leave each its own bits.
MembersApart ==
  Laid =>
    /\ \A a, b \in Leaves : a # b /\ ~ShareUnion(a, b) => Bits(a) \cap Bits(b) = {}
    /\ \A o \in Leaves : Bits(o) \subseteq 0..(8 * Record(Top).size - 1)

\* offsetof and the debug information name the byte the generated code uses,
\* for each member: as n1570 7.19 has it and test/usual/struct.c expects.
OffsetofIsAddress ==
  Laid => \A o \in Leaves : objs[o].bits = 0 => objs[o].offset = Address(o)

\* The same, as far as the code keeps it: in a type where no run of bit-fields
\* had to be filled up, whatever is nested, merged or packed in it.
OffsetsAgree == (\A T \in DOMAIN types : types[T].spaces = 0) => OffsetofIsAddress

\* A member of a union is reached by a cast to the type members_ has at its
\* index: index_ counts the members, as long as the union has no bit-field.
CastsToMember ==
  Laid /\ ~This.isStruct /\ ~HasBitField(Top) =>
    \A o \in Range(This.members) :
      LET i == Last(objs[o].path).index + 1
      IN i \in DOMAIN This.members /\ objs[This.members[i]].type = objs[o].type
=============================================================================
