---------------------------- MODULE MemberAccess ----------------------------
(***************************************************************************)
(* The code kcc generates to read and write the members of a variable,     *)
(* once StructLayout has laid out its type (GetPtr in code_gen.cpp;        *)
(* MemberRef, AssignOp, Assign and IncOrDec in code_gen_expr.cpp;          *)
(* GetBitField and GetBitFieldValue in llvm_common.cpp).                   *)
(*                                                                         *)
(* A bit-field is read as the 32-bit word at the address of its element    *)
(* and cut out by shifts; it is written by reading that word, clearing the *)
(* field, or-ing the new bits in and writing the word back.                *)
(*                                                                         *)
(* A number is the set of its one bits; mem holds the one bits of the      *)
(* variable and of the word after it.  Bit-fields of type char, for which  *)
(* the masks are 8 bits wide, are not modelled.                            *)
(***************************************************************************)
EXTENDS StructLayout

CONSTANTS
  Signed,    \* the bit-fields are signed
  Wide,      \* values are stored that need more bits than the field has
  MaxStores  \* bound on the number of stores

ASSUME AccessAssumption ==
  BitTypes \subseteq {4} /\ Signed \in BOOLEAN /\ Wide \in BOOLEAN /\ MaxStores \in Nat

VARIABLES
  at,      \* the first bit of each member's word, compiled into the code
  mem,     \* the memory: its one bits, or NoMemory before there is a variable
  stores,  \* how many stores have run
  asked    \* the last member stored to and the value, before any conversion

vars == <<layoutVars, at, mem, stores, asked>>

NoMemory == {-1}
Running  == mem # NoMemory

Word     == 0..31
Size     == 8 * Record(1).size
Shl(bits, n) == {b + n : b \in bits}

AccessInit ==
  /\ LayoutInit /\ at = <<>> /\ mem = NoMemory /\ stores = 0
  /\ asked = [of |-> 0, value |-> {}]

Declare == ~Running /\ LayoutNext /\ UNCHANGED <<at, mem, stores, asked>>

\* The type is complete: a variable of it, over memory of any content.
Define ==
  /\ ~Running /\ Laid /\ Len(open) = 1
  /\ mem' \in {{}, 0..(Size + 31)}
  /\ at' = [o \in Leaves |-> 8 * Address(o)]
  /\ UNCHANGED <<layoutVars, stores, asked>>

-----------------------------------------------------------------------------
\* GetPtr: a bitcast in a union is to the type members_ has at the index.
Reaches(o) ==
  \A k \in DOMAIN objs[o].path :
    LET e == objs[o].path[k]
        T == types[e.type]
        found == IF k = Len(objs[o].path) THEN objs[o].type
                 ELSE Record(objs[o].path[k + 1].type)
    IN \/ T.isStruct
       \/ /\ e.index + 1 \in DOMAIN T.members
          /\ objs[T.members[e.index + 1]].type = found

IsBitField(o) == objs[o].bits # 0
Width(o) == IF IsBitField(o) THEN objs[o].bits ELSE 8 * objs[o].type.size

\* What a load or a store through the pointer is of: i32 for a bit-field.
Loaded(o) == IF IsBitField(o) THEN Word ELSE 0..(Width(o) - 1)
Load(o)   == {b \in Loaded(o) : at[o] + b \in mem}

\* Mutant: the mask is as wide as the field, but not shifted to its place.
GetBitFieldUnshifted(word, begin, width) == {b \in word : b >= width}

\* The bits of the word that do not belong to the field.
GetBitField(word, begin, width) == {b \in word : b < begin \/ b >= begin + width}

\* Shifted to the top of the word and down again.
GetBitFieldValue(word, begin, width) ==
  LET top == Shl(word, 32 - (begin + width)) \cap Word
  IN {b \in Word : b + (32 - width) \in top \/ (Signed /\ 31 \in top /\ b >= width)}

MemberRef(o) ==
  IF IsBitField(o) THEN GetBitFieldValue(Load(o), objs[o].begin, objs[o].bits)
  ELSE Load(o)

\* Assign: the word to store.
Merged(o, rhs) ==
  LET begin == objs[o].begin IN
  IF IsBitField(o)
  THEN GetBitField(Load(o), begin, objs[o].bits) \cup (Shl(rhs, begin) \cap Word)
  ELSE rhs \cap Loaded(o)

Assign(o, rhs) ==
  /\ mem' = (mem \ Shl(Loaded(o), at[o])) \cup Shl(Merged(o, rhs), at[o])
  /\ asked' = [of |-> o, value |-> rhs]
  /\ stores' = stores + 1
  /\ UNCHANGED <<layoutVars, at>>

\* AddOp with 1, or with -1.
Incremented(bits, size) ==
  LET carry == Min(0..size \ bits)
  IN {b \in bits : b > carry} \cup ({carry} \cap 0..(size - 1))
Decremented(bits, size) ==
  LET borrow == Min(bits \cup {size})
  IN {b \in bits : b > borrow} \cup 0..(borrow - 1)

Fits(o, bits) == bits \subseteq 0..(Width(o) - 1)
Storable(o) ==
  /\ Running /\ stores < MaxStores /\ o \in Leaves /\ objs[o].name # NoName
  /\ objs[o].type.rec = 0 /\ objs[o].type.size = objs[o].type.align

\* 0, the largest number the member holds, and -1.
AssignOp(o) ==
  /\ Storable(o) /\ Reaches(o)
  /\ \E rhs \in {{}, 0..(Width(o) - 1), Word} : (Wide \/ Fits(o, rhs)) /\ Assign(o, rhs)

IncOrDec(o) ==
  LET size == Cardinality(Loaded(o))
  IN /\ Storable(o) /\ Reaches(o)
     /\ \E rhs \in {Incremented(MemberRef(o), size), Decremented(MemberRef(o), size)} :
          (Wide \/ Fits(o, rhs)) /\ Assign(o, rhs)

\* A pointer of another type: LLVM refuses the function that stores there.
Misses ==
  /\ ~Running /\ Laid /\ Len(open) = 1 /\ \E o \in Leaves : ~Reaches(o)
  /\ Crash /\ UNCHANGED <<at, mem, stores, asked>>

AccessNext ==
  \/ Declare
  \/ Define
  \/ Misses
  \/ \E o \in DOMAIN objs : AssignOp(o) \/ IncOrDec(o)

AccessSpec == AccessInit /\ [][AccessNext]_vars

-----------------------------------------------------------------------------
\* The variable behaves as n1570 says of its type: a store changes the member
\* it is to and nothing else, neither its neighbours in the same word nor what
\* lies behind the variable, and the value read back is the value stored.
Value(o) == IF Running THEN MemberRef(o) ELSE {}
Members  == IF Running THEN {o \in Leaves : objs[o].name # NoName} ELSE {}

C == INSTANCE Record WITH
  there  <- Running,
  val    <- [o \in Members |-> Value(o)],
  kind   <- [o \in Members |->
               [width |-> Width(o), signed |-> IsBitField(o) /\ Signed]],
  joint  <- {p \in Members \X Members : p[1] # p[2] /\ ShareUnion(p[1], p[2])},
  around <- IF Running THEN mem \ 0..(Size - 1) ELSE {}

IsRecord == C!Spec
=============================================================================
