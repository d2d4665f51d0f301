# A specification of kcc

kcc (`src/src`, about 12 000 lines of C++17) is a C11 compiler: clang's
preprocessor, a scanner, a recursive-descent parser that builds a typed tree and
the constants of initialisers, a code generator that builds LLVM IR through
`IRBuilder`, LLVM's optimiser and lld, under a driver that compiles each file in
a process of its own. This directory holds TLA+ models of it, the TLC runs that
check them on small instances, and proofs checked by TLAPS.

Paths below are relative to `src/src`.

## The system

| Component | State | Operations | Talks to |
|---|---|---|---|
| Driver (`main.cpp`, `util.cpp`, `link.cpp`, `obj_gen.cpp`) | lists of inputs, objects and files to remove; its children | `CommandLineCheck`, fork per file, `waitpid`, `RunKcc`, `Link`, `RemoveFiles` | starts everything below, one process per file; the file system |
| Preprocessor (`cpp.cpp`) | none of its own | `Cpp` | clang |
| Scanner (`lex.cpp`, `token`, `dict`, `encoding`, `location`) | the source, a position | `Tokenize` | parser |
| Statement parser (`parse_stmt.cpp`, `ParseFuncDef`) | `labels_`, `gotos_`, the call stack | one function per statement | tree, expression parser, scopes |
| Expression parser (`parse_expr.cpp`) | token index | one function per precedence level | tree, scopes, constant evaluation |
| Declarations (`parse_decl.cpp`, `parse.cpp`, `scope.cpp`) | chain of scopes: tags and ordinary names | `MakeDeclaration`, declarators, specifiers | types, tree |
| Initialisers (`parse_init.cpp`) | `indexs_`, the cursor into nested aggregates | runtime and constant initialisers | constant evaluation |
| Types (`type.cpp`) | struct layout: offset, width, alignment, bit-field fill | `AddMember`, `AddBitField`, `MergeAnonymous`, `Finish` | tree |
| Tree (`ast.cpp`) | the nodes | construction, `Check`, `Children` | everything |
| Constant evaluation (`calc.cpp`) | `val_` | one visit per expression | parser, code generator |
| Code generation (`code_gen*.cpp`) | the function, the insertion point, `break_continue_stack_`, `switch_inst_`, `labels_`, `result_`, the return block | one visit per node | tree, `IRBuilder` |
| Object files and link (`obj_gen.cpp`, `link.cpp`, `opt.cpp`) | temporary objects in `/tmp` | `ObjGen`, `Link` | LLVM, lld |
| Memory pools (`memory_pool.h`) | block list, next slot, last slot | `Allocate` | tree, types |
| Debug info, AST dump, diagnostics | | | |

### What is hard

* **The order of calls.** The parser and the code generator are sequential
  programs whose input is a program: every handler recurses into any other, and
  the shared state (the insertion point, the break/continue stack, the switch
  instruction, the label table, blocks that may be deleted, merged or replaced)
  has to be right for every nesting. Tests cover a few nestings.
* **Code that cannot run** is dropped, except that a label or a case may bring
  control back, except that declarations are generated all the same.
* **Folding.** Constant conditions take other paths than dynamic ones, and both
  must evaluate the operands that C evaluates and no others.
* **The driver** is the one concurrent part: a process per file, a link that
  must see every object whole, and temporary objects named after the source.

### What makes each component correct

* Statement parser: it builds a tree; a goto that was accepted has its label in
  the same function; a label is defined once.
* Code generation: a valid body gives a module the verifier accepts; the blocks
  do what the source says, evaluation by evaluation; no wrong body ends in an
  assertion or a null pointer; the internal stacks are balanced.
* Constant evaluation: a value only for what is a constant.
* Driver: an executable is the link of the whole objects of this run; success
  means every child succeeded; a failure leaves no output; it terminates.
* Struct layout: members do not overlap and lie inside the type; the index of a
  member finds its element, and the LLVM type has the offsets the layout promises.
* Access to members: a store changes the member it is to, to the value stored,
  and nothing else.
* Expressions: the value C defines, of C's type; the same value from constant
  evaluation and from the code; a branch that agrees with the value.
* Declarations: a name means what it means in C; a scope ends where it began; no
  entry is lost; the module has one symbol for one entity, with its linkage,
  type and initial value.
* Initialisers: every part of an object gets the value C gives it; an array without
  a bound its length; a designator that is put back is read where it belongs.
* Memory pools: slots are disjoint, aligned, and inside a block.

## The modules

```
Ast ── ParseStmt ──┐
  └─── CodeGen ────┴── Compile ── MCCompile          (TLC)
Ast ── SourceSemantics ──┘  (INSTANCE: the abstract specification)
ParseStmt ── ParseProofs ──┐
CodeGen ──── CodeGenProofs ┴── CompileProofs         (TLAPS)

Toolchain ──(INSTANCE)── Driver ──┬── MCDriver       (TLC)
                                  └── DriverProofs   (TLAPS)

StructLayout ──┬── MemberAccess ──(INSTANCE)── Record   (TLC)
               └── LayoutProofs                         (TLAPS)

CTypes ── IrValues ── TypedExpr ── ExprCode ──┐
   └───── CStandard ──────────────────────────┴── Expressions ── MCExpressions   (TLC)

Declarators ──┬── Scopes ── Symbols ──┐
              └── CNames ─────────────┴── Declarations ── MCDeclarations         (TLC)
Scopes ── ScopeProofs ──┐
Declarations ───────────┴── CouplingProofs ── DeclarationProofs                  (TLAPS)

Aggregates ──┬── Initializers ───┐
             └── CInitializers ──┴── Initialization ── MCInitialization          (TLC)
```

**Ast** is the tree of one function body, an arena of nodes, with the questions
the code generator asks of it: `Children`, `ContainsLabel`, and `Calc`, what
`CalcConstantExpr` answers. An expression is kept only as far as it steers
control. `Dyn` is any expression with an effect and a value unknown at compile
time, `Comma` is (effect, constant); types, arithmetic and lvalues are left out.

**ParseStmt** is `parse_stmt.cpp` and `ParseFuncDef`. One action per `Parse...`
function; `open` is the C++ call stack (what the active functions still
expect). The tokens are not written down: at each point the next construct is
any the grammar allows, within the `grammar` of this input, one of the constant
`Grammars`: its kinds of statements and expressions, the clauses of its `for`
and `return`, its constants, its labels, and its largest tree. So the bodies TLC
checks are all bodies of that make, built by the parser itself. The condition of a
`switch` is not a node: evaluating it is one event of the switch.

**CodeGen** is `code_gen.cpp`, `code_gen_stmt.cpp` and the control operators of
`code_gen_expr.cpp`. A handler is cut where it calls back into `EmitStmt`,
`Accept` or `EmitBranchOnBoolExpr`; each piece is an action and `todo` is the
call stack. `fn` is the LLVM function: its blocks with the events and the
terminator of each, the phi nodes, and `at`, `Builder.GetInsertBlock()`. What
IRBuilder does without an insertion point is kept: an instruction in no
block is still a user. `loose` has what such instructions use: the targets of
branches, which matter to `use_empty` and to `llvm::predecessors`, and `AnyValue`
when it is a value of the function or a global (a call, a store into a variable, a
comparison, a negation), for which `verifyModule` refuses the module
(`WellFormed`). An instruction over constants alone is folded and uses nothing (`Use`). A null pointer, a failed assertion or undefined behaviour
of LLVM is status "crash", `Error()` is "error", a module the verifier refuses is
"broken". The model has the assertions switched on; where one fails the release
build goes on into undefined behaviour.

**SourceSemantics** is the abstract specification: what a body means in C11
(6.8, 6.5.13 to 6.5.17; `doc/n1570.pdf`). It does not look at the code. A step
is one event (the evaluation of one expression with an effect), with an outcome
nobody knows at compile time.

**Compile** puts them in sequence, as `RunKcc` does, and adds a machine that
runs the blocks (`RunFunction`, `RunEvent`, `RunTerminator`, `RunReturn`: LLVM's
business, external). `Implements` is the refinement: the machine's events are a
behaviour of `SourceSemantics`. The refinement mapping is the identity on
`prog`, `event`, `outcome`, `turn`; everything else the machine, the parser and
the generator do is a stutter.

`Group` names sets of bodies that the code is known to compile wrongly, or that
are not valid C. A run lists in `Apart` the groups it leaves out; `AnyBody` leaves
out nothing.

| Group | What the code does |
|---|---|
| constant condition with an effect | `while (f(), 1)` and `do ... while (f(), 0)` lose the call (`code_gen_stmt.cpp:184,217`) |
| constant statement expression | `if (({ f(); 1; }))` loses the call: only the last statement is looked at (`calc.cpp:211`) |
| true constant other than 1 | `2 && f()` is taken for 0 (`code_gen_expr.cpp:667`) |
| unreachable initialiser | run `DeadInitialiser` below: `while (1) ; int x = f();` |
| value behind a jump | `if (({ return f(); g(); }))` drops `g();` and compares the value of `f()` in no block (`llvm_common.cpp:300`); `f() ? ({ return; 1; }) : 2` adds a value to a phi with a null block |

The last two are about one thing, what is emitted where there is no insertion
point, and `CutOff` says where that may be from the text alone: behind a
jump or a loop that may have no way out, or first in a switch, with no label in between.
So they leave out a little more than kcc refuses: a declaration behind
`if (0) while (1);`, for instance, where the loop is not generated.

**Driver** is `main()`, `CommandLineCheck`, `RunKcc` as far as it chooses and
writes a file, `ObjGen`, `Link` and `RemoveFiles`, for any set `Procs` of
invocations on one file system. `pc[p]` is where `main()` of invocation `p` is,
`job[p]` the lists `CommandLineCheck` makes, `child[p]` the processes it has
forked. A child runs, opens its product (which truncates what is there), closes
it, or fails, or is killed over the open file; the children of an invocation
that has failed go on. A path is a record of directory and of the name split at
its dots, so that `GetObjFile`, `replace_extension`, the globs and absolute
names do what they do in `std::filesystem`. `fs` says of each file which
compilations wrote into it and whether anybody still does; unlinking or
replacing an open file leaves the writer with a file without a name
(`Detached`). lld, which renames a finished executable into place, may fail at
any time. The order in which sources are forked is left open. `After[p]` are the
invocations `p` is started after, to model somebody who tries again.

**Toolchain** is the abstract specification: an invocation is asked for parts
and then either delivers a result of exactly these parts or gives up without
leaving a half-made one, and touches nobody else's. The refinement mapping takes
the invocation to be done when lld has renamed the executable (`pc = "remove"`)
and the result to be the executable, or with `-c`, `-S`, `-E` and their like the
files asked for, from the moment of success.

`RemoveFiles` has no failing case in the model. `std::filesystem::remove` throws
when the directory may not be written, and not for a file that is gone; `main()` comes
there only when each of its children has made its temporary object in that same
directory, and the model has no one who takes away the right to write there in
between (`Writable` is constant).

**StructLayout** is `StructType` (`type.cpp`) under `ParseStructDeclList` and
`ParseBitField` (`parse_decl.cpp`). `types[T]` has the fields of the class (`used`,
`base` and `spaces` are `bit_field_used_width_`, `bit_field_base_type_width_` and
`bit_field_space_count_`), `objs[o]` the `ObjectExpr` of a member, `path` its
`GetIndexs()`, `open` the types whose braces are open. One action for each thing
a member declaration can be: `DeclareMember`, `DeclareFlexible`,
`DeclareBitField`, `OpenRecord` with `DeclareRecord` or `MergeAnonymous` after
`CloseRecord`, and `Refused`; each with everything the code calls from there, so a
declaration first ends the run of bit-fields before it. What is declared is the
environment's choice. A type is its size and alignment; `width_` is left out,
because the code sets it anew where it reads it (and nobody reads a union's). A
name is fresh or empty; a name declared again is one of the errors of `Refused`.
LLVM's layout of the element list (`ElementOffset`, `LLVMSize`, `LLVMAlign`) is
external. Where an `assert` fails the verdict is "crash".

**MemberAccess** continues with the code generated for a variable of the type:
`GetPtr` (the path of indexes, a bitcast in a union), `MemberRef`, `AssignOp`,
`Assign`, `IncOrDec`, `GetBitField` and `GetBitFieldValue`. A number is the set of
its one bits, `mem` the one bits of the variable and of the 32 bits behind it,
since a bit-field is read and written as an `i32` wherever it is. A pointer whose
cast is to another type than the member's ends in the verifier (`Misses`, "crash").
Bit-fields of type `char` and `_Bool` are not in it: the code loads 32 bits of
them and masks 8 (`llvm_common.cpp:459`), so `IsRecord` does not hold for them.

**Record** is the abstract specification: a variable is a value for each member,
and an assignment changes one member, and those a union joins with it, to the
value converted to the member's width. The refinement mapping reads each member
through `MemberRef`; what is behind the variable must stay.

**CTypes** has the types of `type.cpp` as values, with `Equal`, `Compatible`,
`IntegerPromote` and `MaxType`; **IrValues** has what LLVM's instructions compute
(external), with poison for what they leave undefined. **TypedExpr** is `Check`
in `ast.cpp`: each operator refuses its operands or gives the node a type and the
operands their conversions (`CastTo`, `ConstantCastTo`). **ExprCode** is what
`code_gen_expr.cpp` computes for a node, by value and as a branch
(`EmitBranchOnBoolExpr`), and what `calc.cpp` folds it to. A node never changes
once it is made, so the three are fields of it. **CStandard** says of the same
expression whether C has it valid, its type and its value (C11 6.3 and 6.5);
it does not look at the code. A record has no cell of its own: a named record and
one loaded through a pointer (`code_gen_expr.cpp:392`) are both written as the place, since no
operator of the model looks inside. **Expressions** builds expressions from the
inside out as the parser does, on a stack of pairs of the two.

**Scopes** is `scope.cpp` and all that enters a name into a scope: `MakeDeclaration`,
parameter lists (`EnterProto`, `ExitProto`), bodies and blocks, `StructType::Get` and
`ParseStructDeclList`, `ParseEnumSpec`. `scopes[s]` is a `Scope`, with the chain
`parent_` makes; `open` the call stack of the parser; `code` the declarations,
definitions and uses handed to the code generator. **Symbols** is what becomes of
them: `CreateGlobalVar` and `Visit(IdentifierExpr)` make an LLVM symbol at the first
mention, which the parser itself may cause (`Mention`, an address in a constant
initialiser). **CNames** is C's view of the same text (6.2.1 to 6.2.3, 6.2.7, 6.7,
6.9): scopes, and entities with linkage, type and definition. **Declarations**
reads a translation unit with both at once; `stands` says which entity an
identifier of kcc stands for. **Declarators** has what both know of a declaration.

**Aggregates** has the types of what is initialised and the memory it has.
**Initializers** is `parse_init.cpp`, its six functions for run time and for
constants, with `InitLocalAggregate` of `code_gen.cpp`. `frames` is the call stack:
each call has its type, where its object begins, the index it has come to, whether
it took a brace, and `pc`, the call or test it goes on at. `toks` and `at` are what
the tokens are and which is next, so a `PutBack` is a step back in `at`; a whole
designator is one token, since what the parser puts back is always whole. `mem` is
what is initialised, unit by unit, each with the token it got its value from.
**CInitializers** is C's reading (6.7.9), one token at a time: `levels` are the
objects whose parts are being initialised, from the innermost out.
**Initialization** writes a text token by token, any that `kit` has; C reads each as
it is written, the parser reads on until it needs another (`Waits`).

In all three the reference is a second opinion and not a refinement: where the
readings are known to part the step is marked (`known`), nothing is claimed of what
follows, and the tables under "Known differences" have each case.

## The runs

The runs of the compiler proper use module `MCCompile`.

| Run | Bodies | Checks |
|---|---|---|
| `Flow` | 6 nodes of while, do, for, if, break, continue, goto, constants 0 and 1; and 6 nodes of `&&`, `\|\|`, `!`, `?:`, comma, constants 0, 1, 2 in if, while, for and declarations | `Accepted`, `Implements`, `MachineAdvances` (fairness) |
| `Jumps` | 7 nodes of switch, case, default, break, continue, while; 6 nodes of goto and label (two names), if, while, return with and without value; 6 nodes of declarations with if, while, goto, label, switch, case; and 8 nodes of `({ ... })` with if, goto, label, return inside, also under `&&` | `Accepted`, `Implements` |
| `AnyBody` | 5 nodes of every kind, valid or not | the parser's and the generator's invariants |

`Accepted`: a body that satisfies the constraints of C11 is compiled, to a
module the verifier accepts. `Implements`: the refinement above.
`LoopStackMatchesCalls`: `break_continue_stack_` holds exactly the constructs
whose bodies are being generated, innermost first (`Depth` counts them along the
call stack). `OpenInsertPoint`: nothing is
inserted behind a terminator. `AllTerminated`: a block that was left is
complete. `GotosResolved`, `TreeShape`: what the parser promises the generator.

*The bounds.* The body itself is a node. 6 nodes hold every two-deep nesting of
loops with a jump and a condition, 7 a switch in a switch or a loop in a switch
with two labels, 8 a statement expression under an operator with a jump inside.
Handlers only look one construct outwards (the top of a stack, the saved switch,
the next block), so an error in how two of them work together needs two of
them, an outer one, and a jump. Two truth values and the case labels are all the
outcomes the control flow can tell apart.

*Fairness.* `FairSpec` has `WF_vars(Run)`: a processor executes the compiled
function and the function waits for nothing. `MachineAdvances` says that while
the source has another event to come, the machine gets to it. An empty loop in
the source (`while (1);`) has no further event and is not asked to end.

The runs of the driver use module `MCDriver`.

| Run | Instance | Checks |
|---|---|---|
| `Invocations` | two at once: one with any of 22 command lines (every stage, named, globbed and library arguments, every refusal, an output it may not write), the other on a file of the same name in another directory, with a stale object in `/tmp` | `DriverTypeOK`, `LinkReady`, `NoSharing`, `TempsRemoved`, `Delivers`, `Terminates` (fairness) |

`LinkReady`: when `main()` comes to the link, each temporary object is whole, was
written by this invocation's own child and is open in nobody. `TempsRemoved`:
once a link was tried no temporary object is left. `Delivers` is the refinement
of `Toolchain`. `NoSharing` is a fact about the command lines and the names
`GetObjFile` makes of them, and what the theorems about several invocations
suppose. `ObjectsApart`: no two compilations write the same file, and none
writes over an executable. `OutputsApart`: no two links write the same file, no
library is something an invocation makes, and what is written through a stream
can be opened (`RunKcc` does not look whether it could).

*The bounds.* Two sources are enough for one child to fail while the other is at
any point of its life; a third would only repeat one of the two. Two invocations
are the least that can meet. What the sources hold does not matter to the
driver: a child may fail in any run.

*Fairness.* `FairSpec` has weak fairness for each `main()` and for the children
of each: they are processes the operating system schedules, each step of theirs
is enabled until taken, and the compilation of one source is taken to end.
`Terminates`: every invocation returns and every child ends.

The runs of the layout and of member access use the modules themselves.

| Run | Instance | Checks |
|---|---|---|
| `Layouts` | up to 4 members and 2 types: a scalar of 8 bytes, `char[3]`, bit-fields of type char and int and width 0, 4 and 28, named and unnamed, flexible arrays, a struct or union in a struct or union, with a name or anonymous | `LayoutTypeOK`, `IndexFindsElement`, `MembersApart`, `OffsetsAgree`, `CastsToMember` |
| `Fields` | up to 3 members and 2 types, with a scalar of 2 bytes, `char[3]` and signed int bit-fields of width 5 and 28; memory all zeros or all ones; 2 stores, of 0, the largest value, -1, or by `++` and `--`, that fit the member | `IsRecord` |

`IndexFindsElement`: `index_`, which is counted by hand beside every push to
`llvm_types_`, gives the element of the member. `MembersApart`: no bit of the type
belongs to two members unless a union says so, and none lies outside.
`OffsetsAgree`: the offset recorded is the byte the generated code uses, in types
where no run of bit-fields had to be filled up (run `Offsetof` has those).
`CastsToMember`: in a union without bit-fields the index finds the member in
`members_`. `IsRecord`: the refinement of `Record`.

*The bounds.* 4 and 28 fill a unit of 32 bits exactly, 28 and 28 do not fit, 4
and 4 fill a char; the scalar of 8 forces padding behind a run and `char[3]`
begins a run off its alignment. How a declaration ends the run before it only
depends on the fill state and on the last member, and four members reach every
such state (empty, open, just filled, padded before, padded between) with one
more behind it. Two types are one level of nesting; the theorem below covers any.
Two stores are a value and the neighbour that may damage it.

The runs of expressions, declarations and initialisers use `MCExpressions`,
`MCDeclarations` and `MCInitialization`.
A kit is what the inputs of a part of a run are made of.

| Run | Instance | Checks |
|---|---|---|
| `Expressions` | kit `arithmetic`: every operation on one or two operands of `_Bool`, every integer type and `double`, at the ends of each type, -1, 0 and 1; kit `pointers`: up to 3 operands and 2 operations over an array, integers, pointers, a `_Bool`, a `float`, a record, a function and null constants | `ValueRight`, `FoldAgrees`, `BranchesOnValue`, `OperandsAgree`, `AcceptsValid` |
| `Declarations` | kit `linking`: 6 steps, one name with every storage class, as integer, array of known and unknown bound and function, in a body, used and its address taken; kit `nesting`: 7 steps 3 deep in parameter lists, bodies, blocks and enumerators of two names; kit `tagging`: 7 steps 3 deep in structs, enums, parameter lists and blocks | `ScopesTypeOK`, `ScopeRestored`, `EntriesKept`, `AcceptsValid`, `Diagnosed`, `LookupAgrees`, `SymbolsRight` |
| `Initializers` | any text of up to 12 tokens, and what it needs to end, for a scalar, arrays with and without a bound, of `int`, `char`, arrays and structs, structs and unions in one another, named and anonymous: 15 types, each at run time and constant | `Initialised`, `AcceptsValid`, `Diagnosed`, `ReadsOn` (fairness) |

`ValueRight`: an expression C gives a value has that value and C's type.
`FoldAgrees`: the constant `calc.cpp` makes of an expression is the value its code
computes. `BranchesOnValue`: a branch on it goes the way its value says.
`OperandsAgree`: the operands of an instruction have one LLVM type.
`AcceptsValid`: nothing valid is refused. `ScopeRestored`: a parameter list, member
list, block or body ends in the scope it began in. `EntriesKept`: no entry of a
scope is overwritten by another entity's. `LookupAgrees`: a name or tag means
C's entity, of its type. `SymbolsRight`: wherever the file may end, each entity
has one symbol of its own, with its linkage, type and initial value, and the
verifier accepts them. `Diagnosed`: no broken constraint passes in silence.
`Initialised`: at the end of an initialiser each unit of memory has the value C
gives it, and an array without a bound C's number of elements. `ReadsOn`: the parser comes to
its next token and does not read what it put back for ever.

*The bounds.* The integer types are 2, 4, 6, 8 and 8 bits wide instead of 8, 16,
32, 64 and 64: the conversions look at rank, sign, and which width is larger, all
of which stay as they are, and every overflow happens. A floating value is a number of
halves, and no operation is asked for whose result is not one. Every conversion
happens between two operands, and the second operation shows what the first has
left (type, lvalue, constant). Linkage is merged between two declarations, over at most
one scope boundary, so three declarations, a function around them and a use are
what one name can meet; a third level of scopes is one between the declaration
and the use. In an initialiser the sizes are 1 for `char` and 2 for `int`, so that
there is padding; two elements or members have a first and a last, and 12 tokens
fill every type with a designator to go back by and an element too many. Two levels of types are
an inner list with or without a brace, which is all a list passes on to the one
around it; the indexes 0 to 2 have the first, the last and one that is not there.
`CHECK_DEADLOCK FALSE`: an expression, a file, an initialiser ends.

*Fairness.* `FairSpec` of `Initialization` has `WF_vars(Read)`: the parser is a
sequential program, and goes on as long as it has tokens.

### Known differences

What `known` marks in **Expressions**; what C says is in `CStandard`.

| Mark | What the code does |
|---|---|
| operand of type _Bool | `+`, `-`, `~`, `++`, `%` and the relations refuse a `_Bool` (`IsIntegerTy` and `IsRealTy` leave it out) |
| null constant that is no literal | only a literal 0 is a null pointer constant (`ast.cpp:94`), not `(void *)0` beside a function, `0L - 0` or an enumerator |
| constant that stops kcc | `0 && 1 / 0` ends in the error for a division by zero, `&local && x` in the assertion at `calc.cpp:322` |
| constant left of && | a constant other than 0 and 1 is taken for 0 |
| constant over an address | a constant that LLVM keeps as an expression over an address is neither zero nor one to `&&`, `\|\|` and `?:` |
| negative difference | `p - q` with `p` before `q` is a large positive number: the distance in bytes is divided as unsigned (`code_gen_expr.cpp:430`), though its type is `ptrdiff_t` (`ast.cpp:399`) |
| float to unsigned | constants are converted as if the target were signed |
| narrow increment | `++` of a signed `char` or `short` adds at its own width, where an overflow is poison, and not in `int` |
| void pointer in a condition | `c ? p : (void *)q` has p's type and not `void *` |
| _Bool argument | an argument beyond the prototype of a function with `...` stays `_Bool` |

What `known` marks in **Declarations**, and what the model leaves out for the same reason:

| Mark | What the code does |
|---|---|
| function in a block | `int f(void);` in a block is refused |
| extern in a block | `extern int x;` in a block becomes an uninitialised local when nothing with linkage is visible, or stands for a visible local |
| extern forgotten | `{ extern int a; int a; }` is accepted: the block keeps no entry of the first |
| extern initialised | a block's `extern int x = 1;` of a static is not diagnosed |
| array completed in a block | an array completed by an inner `extern` stays complete outside |
| function made external | `static int f(void); int f(void) {...}` makes `f` external, unless it was used between |
| defined twice | the second definition of an object or a function is not always diagnosed |
| address before the definition | `int x; int *p = &x; int x = 1;`: the symbol is made by the address, too early for the linkage, the value or the bound of the later declaration |
| member found | in a struct, a member's name hides the outer name for what the member list itself uses |
| tag alone | `struct S;` alone in an inner scope finds the outer tag |
| tag of another kind | one tag as an enum and as a struct is not diagnosed |
| tag or enumerator of a parameter list | not visible in the body |
| tag from outside a struct | a tag of the scope around, defined in a member list, is refused at its end |
| enumeration in a struct | its enumerators are not visible behind the struct |
| (left out) | a label named like a typedef; a storage class on a parameter or member, which dereferences a null pointer; a file's `int a[];` that stays without elements |

What `known` marks in **Initialization**:

| Mark | What the code does |
|---|---|
| array runs on | at run time an array without braces takes values behind its last element, right only when the object behind it is of the same type; `int a[][2] = {1, 2, 3, 4}` has one element and is written past its end; the third value of `int a[2] = {1, 2, 3}` is stored and not diagnosed |
| designator in a struct without braces | such a struct takes, or refuses, a designator that is for the list around it |
| designator behind the last part | a union in braces, and a constant array in braces that has its last element, refuse another designator |
| member designator in an array | `.n` is accepted in an array of structs, for its next element; in an array of arrays the comma before it is put back and read again for ever |
| initialised again | a constant made anew has forgotten the parts it had; a store to part of an object leaves the other parts as they were, where C has them zero |
| constant of another member | a constant union whose member is not the one its LLVM type is made of ends in an assertion of LLVM |
| string of another length | one shorter than the array is read past its end, or makes a constant of the wrong type; one that fits but for its terminator is refused |
| string in a list | a string that initialises an array inside a list at run time is dropped (`parse_init.cpp:176`) |
| struct without braces | `struct S s = 1;` is accepted |
| (left out) | an array type without a bound that has a name: `typedef int T[]; T a = {1}, b = {1, 2};` is completed once, by the first |

Three runs are expected to find a violation. Each checks one statement of the
documentation, of a comment or of an assertion that the code does not keep:

| Run | Shows |
|---|---|
| `DeadInitialiser` | `goto L; int x = f(); L: ;` makes a module the verifier refuses: the call and the store are in no block (`code_gen.cpp:469`) |
| `Retry` | the same command after a failure: a child left over from the first try truncates an object the second is about to link (`main.cpp:72`, `util.cpp:176`) |
| `Offsetof` | `offsetof` of a member behind a filled-up run of bit-fields is not where the generated code puts it (`type.cpp:953`); `test/usual/struct.c:279` expects the first |

Each property of a passing run has at least one mutant, a definition that could be a slip
in the code (a dropped pop, a branch to the wrong block, a terminator
forgotten), defined just before the definition it replaces; the property must
fail with it.

## The proofs

TLAPS proves, for every value of the constants and so for every body of every
size, valid or not, and for any number of invocations, sources and command
lines:

| Theorem | Property |
|---|---|
| `ParseTypes` | `Spec => []ParseTypeOK` |
| `ParsesTree` | `Spec => []TreeShape` |
| `ParsesCompleteTree` | `Spec => []ChildrenComplete` (of `ParseProofs`) |
| `ParserResolvesGotos` | `Spec => []GotosResolved` |
| `GeneratesTypes` | `Spec => []CodeGenTypeOK` |
| `GeneratesTerminated` | `Spec => []AllTerminated` |
| `GeneratesInOpenBlocks` | `Spec => []OpenInsertPoint` |
| `MatchesLoopStack` | `Spec => []LoopStackMatchesCalls` |
| `DriverTypes` | `Spec => []DriverTypeOK` (of `Driver`) |
| `LinksOwnObjects` | `Spec /\ []ObjectsApart => []LinkReady` |
| `RemovesTemps` | `Spec /\ []ObjectsApart => []TempsRemoved` |
| `KeepsContract` | `Spec /\ []NoSharing => Delivers` |
| `IndexesFind` | `LayoutSpec => []IndexFindsElement` (of `StructLayout`) |
| `OffsetsReach` | `LayoutSpec => []OffsetsAgree` |
| `CastsFind` | `LayoutSpec => []CastsToMember` |
| `MembersStayApart` | `LayoutSpec => []MembersApart` |
| `LayoutTypes` | `LayoutSpec => []LayoutTypeOK` |
| `ScopesTypes` | `ScopesSpec => []ScopesTypeOK` (of `Scopes`) |
| `ScopesRestored` | `ScopesSpec => []ScopeRestored` |
| `KeepsEntries` | `ScopesSpec => EntriesKept` |
| `ReadsAsScopes` | `Spec => ScopesSpec` (of `Declarations`) |
| `AcceptsFiles` | `Spec => []AcceptsValid` |
| `DiagnosesFiles` | `Spec => []Diagnosed` |
| `LooksUpAsC` | `Spec => []LookupAgrees` |

The only assumptions are those on the constants, `ParseAssumption`,
`CodeGenAssumption`, `DriverAssumption`, `LayoutAssumption`, `DeclaratorsAssumption`
and `KitsAssumption`. The three theorems of the driver that name `NoSharing` or
its first half also suppose it; run `Invocations` checks it for its command
lines, and run `Retry`, where two compilations do share a file, shows that it is
needed. The second half is only there for `KeepsContract`: two links to one file
would each find the other's result, and a stream that could not be opened gives
success without a file.

*The parser* (`ParseProofs`). `ParseInv` adds to the three properties what they
rest on: every expectation in `open`, every label and every goto names a node of
the right kind; a label registered under a name is a label of that name. A node
is appended with the number `Len(prog) + 1` and its parent is a node that exists;
that is why the numbers grow downwards. `TreeShape` alone is not inductive: a
new node needs its parent to be a node, which only the invariant on `open` says.
`ChildrenComplete` is about what is still missing while the descent is under way:
`KidsInv` gives each expectation in `open` the place among the children of its node it will
fill (`Slots`), behind those that are there and in the order in which they will
come, so that every place a node of that kind needs (`Least`) is filled or
somebody is on the way to it; the node of a list of items is the only one that gets more.

*The generator* (`CodeGenProofs`). `GenInv` strengthens `AllTerminated` and
`OpenInsertPoint` by the shape of the call stack: a block that ends in a
conditional branch is only ever current when the next piece on `todo` starts
another block. `AllTerminated` alone is not inductive, since leaving the current
block by `PushBlock` of another needs it to be terminated, and that follows from
which piece is on top. There is a lemma for each helper (`EmitBranch`,
`EmitBlock`, `EmitBranchThroughCleanup`, `ReplaceAllUses`, ...) and one step for
each of the 46 handlers. `LoopInv` is for the stack of loops and switches: that
its length is the number of constructs under way says nothing about a pop in the
middle, so there is a number for each piece of the call stack (`Counts`), how
many entries the pieces from there on have still to take off, and the entry it
will take is its own. Every handler either leaves `loops` alone and puts no piece
that pops on `todo` (`PopsNothing`), or pushes both, or pops both; `FinishLast` is
needed because a function that ends in the middle would forget the rest of
`todo`.

`GenTypes` strengthens `CodeGenTypeOK` by what each piece of the call stack was called for: a
piece that will ask for the body, the condition or an operand of its node has a node of
the tree, of a kind that has one (`Pieces`), and a piece that will branch has two
blocks to go to. It is inductive over a tree whose nodes have all their children
(`TreeOK`), with `LoopInv` for the handlers that pop: nothing is taken off an empty stack.

*The composition* (`CompileProofs`). `Inv` joins these invariants with `Untouched`,
nothing is on the call stack before the function was parsed. The parser does not
touch the generator's state, nor the other way round, and the machine touches
neither; `Parsed` shows that what the parser leaves (`ParseInv`, `KidsInv`) is a
`TreeOK`, which is all the generator's types need from it.

*The driver* (`DriverProofs`). `LinkReady` speaks of one moment of `main()`.
`LinkInv` adds what holds of each child before: while it writes, its product is
its own and unfinished; when it has ended well, whole, until `main()` is done
with it (`Kept`); and `main()` only leaves the loop of `waitpid` when every source has a
child and every child was reaped. `ObjectsApart` is what keeps the steps of all
other processes (`Open`, `Close`, `Link`, `RemoveFiles`) off that file (`Apart`,
`OwnWriter`, `FilesGo`). `TempsRemoved` needs little more (`TempsInv`), once it is known
that a child which could make a file again has been waited for.

`KeepsContract` is the refinement, step by step: each action of `Driver` is an
action of `Toolchain` or leaves its variables alone, under `RefInv`. What that adds is
where a file comes from (`OriginInv`: what is in the file system and was written by
somebody is an output of an invocation), that names are made of words (`PathInv`:
`replace_extension` gives an object a name no source has), and that success comes
after the last `waitpid` (`DoneInv`).

*The layout* (`LayoutProofs`). `IndexFindsElement` is not inductive: that a
declaration leaves the elements of all earlier members alone needs to know that
element lists only grow (`Grows`: each helper appends, and counts what it
appends), that a path ends in the type its member was declared in, and that the
numbers in `open`, `members` and `scope` are of types and objects that exist.
`LayoutInv` says so; there is one lemma for each helper of `StructType` and one
for each action.

`LayoutTypes`, `OffsetsReach` and `CastsFind` rest on `CountedInv`, about the numbers counted beside the
elements. `Measured`: `offset_` is where LLVM would put the next element, rounding
up as it goes (`End`), which each of the eight helpers has to keep by its own
arithmetic, whole bytes for a run of bits, `Padding` for an alignment. `ObjectFits`:
there are numbers, one for each step of a member's path, that start with its
offset, end with 0, and go down by what each step leads on, so that an anonymous
type that is merged only adds a step in front (`MovedFits`), and the
recursive `Address` comes out as the first of them (`LeadsToAddress`). `OffsetsStay`:
an element stays where it is when others come behind it. `UnionCounts`:
`index_` is the number of members, and the member at each place has its index,
as long as the union has no bit-field. `InRun` and `Refers` are what the counting
needs: a run is ended as soon as it is full, and has a member. `OffsetsAgree` itself is
not inductive for two reasons: it speaks of one type when its brace is closed,
and of no type whose bit-fields were filled up, and neither is known when the
member is declared.

`MembersApart` speaks of a type at the moment its brace is closed; `ApartInv` says
the same while it is being read, of every type that is open, those around it too.
There is a byte `at` for each object (`Settled`): its bits from there on
lie below `Room`, the bits the type has taken so far, and any two objects that do not
share a union are `Clear` of each other. A declaration keeps that when it takes its bits from what was free
(`Takes`) and moves nothing that was there (`Fills`, which each helper keeps: `Room`
only grows, elements stay, and a run that is open stays where it is or is
ended by an element that holds it). An anonymous type that is merged brings its
objects along, each further on by the byte the type is put at, and one step
deeper, with the same union around each pair (`ForkMoved`); its own `Room` is what it
takes from the type around it. That no type is open twice (`Distinct`) and that a
closed one has no run left are what makes the two differ. On the instance of
run `Layouts` TLC finds `Settled` true in every state with the byte each path leads to.

*Induction* (at the start of `LayoutProofs`). `NatSetInduction` is induction for a set of
numbers, from the fact that `<` is well-founded; the library states it for an
operator, which no prover here can instantiate. `Recursion` says that a function
defined step by step exists. With them the recursive functions `ElementOffset`,
`Named`, `Address` and `Depth` can be reasoned about; for that reason `StructLayout`
and `CodeGen` use recursive functions there, and no fold.

*The scopes* (`ScopeProofs`). None of the three properties is inductive. `SInv`
adds that the scope of a struct is a block (so that a member list that goes back
to a scope made elsewhere is still read in one), that only functions and objects
have linkage (so that what a declaration with linkage finds and does not refuse is no typedef), and that
an identifier of kind function has a function type (so that a compatible
declaration in its place is one too, which is what `EntriesKept` allows). `Kept`
and `KeptEntries` say what a step leaves alone; there is one lemma for each of
`Redeclare`, `DeclareNew`, `RedeclareTypedef`, `MakeStruct` and each action.
`ReadsAsScopes` (`DeclarationProofs`) shows that the steps taken together with C's are steps of
`Scopes`, so that the three hold of every translation unit, however long. The last
section of `ScopeProofs` says how scopes lie in each other (`ChainsOK`: what is
around a scope is the rest of its chain, the file at the end; a member list is
around other member lists only), which the next argument needs at every lookup.

*The declarations* (`CouplingProofs`, `DeclarationProofs`). `AcceptsValid`,
`Diagnosed` and `LookupAgrees` compare two readings of one file: kcc's chain of
scopes with its identifiers and types, and C's stack of scopes with its entities.
Each alone is far from inductive: whether the next declarator is refused depends
on what every earlier one left behind on both sides. `Coupled` says what that is,
as long as the file is `Claimed` (valid so far, no known difference met):

| Part | What it says |
|---|---|
| `CTablesOK`, `RangesOK` | C's tables are typed; every entry names an entity that exists, under its own name |
| `ChainsOK` | how the scopes of kcc lie in each other |
| `UsualOK` | a member list knows objects only, and its own; only at file scope has a name linkage |
| `TagTypesOK`, `UnopenedOK` | the tag of a struct is known around its member list; a list not yet read is empty |
| `OpenListsOK`, `OpenList` | the open member lists are the innermost of what is open, one inside the other; each has the names C has for it; no tag is in two of them |
| `NamesOK` | scope by scope, kcc and C have the same names, for the same entities and types; what only C has is an `extern` in a block, which kcc finds in the file instead |
| `TagsOK` | the same for tags, where the tags of a member list are in C those of the scope around it |
| `LinkedOK` | an entity with linkage is in C's file scope, with the type it has there |
| `StandsOK`, `StructsOK` | an identifier stands for an entity of its kind and linkage; one struct, one tag, one entity, complete in both or in neither |
| `ParamsOK` | the parameters a body would begin with are the same |

`Around` is what makes it work inside a struct: a member list is a scope in kcc
and none in C, so C's stack corresponds to the chain of the scope around the open
lists. From `Coupled`, `CoupledLookup` gives `LookupAgrees`; the lemmas on
`LinkageConflict`, `Refused` and `CConstraint` show that both sides judge a
declarator alike; and one lemma for each action (`FileDeclareHeld`,
`EndParametersHeld`, ..., `EndStructHeld`) shows that it is `Held`: where C allows
the step kcc does and `Coupled` holds after it, and where a constraint of C is broken
kcc says so. The inductive invariant `IInv` joins `SInv`, `Claimed => Coupled` and the
first two properties. Before it was proved TLC found `Claimed => Coupled` true in
every state of the instance of run `Declarations`, in an extra run with it as an
invariant (a module that extends `MCDeclarations` and `CouplingProofs`).

The hypothesis `known = {}` in the three properties is the one of the runs: a step that meets one
of the differences listed above adds it to `known` and `Next` takes no step after
it. What the theorems say is that these differences are all there are in what is
accepted, refused and looked up, for any names, tags and declarators of the model:
a file that meets none is read by kcc as by C. "Defined twice" and "address before the
definition" are in part about symbols, which the theorems do not speak of.

Only model-checked: the properties of `Expressions` (types are trees, and
`Equal` and `Compatible` recursions over them); those of `Initialization` (its
reference descends recursively into types, and `ReadsOn` is liveness); `SymbolsRight`
of `Declarations` (the symbols would have to be related to the entities one by
one, through `code`, where the theorems above relate the identifiers);
`NoSharing` of `Driver` (it depends on the command lines of an instance, and
`Retry` refutes it for others);
`IsRecord` (arithmetic on sets of bits); `Terminates`; `Implements` and `Accepted`
(their invariant would relate the blocks to the tree, node by node);
and `MachineAdvances` (liveness, like everything that needs `ENABLED`, is TLC's alone). RECURSIVE operators, and the library's `SelectSeq`
and folds, are out of the provers' reach.

## What is not modelled

In `Compile` an expression is one event, except for the operators that steer
control; in `Expressions` it is one expression and no statement. Compound
assignments, `_Generic`, compound literals, built-in functions, `long double`,
and volatile accesses. Combinations of type specifiers, `inline`, `_Alignas`, the grammar
of declarators. Names declared with the type of a struct, so that
`StructType::Compatible` (`type.cpp:847`) is not asked in `Scopes`
(`Expressions` has it, as `SameRecord`); unnamed parameters and bit-fields, which the code
enters under the empty name and nothing can look up. Bit-fields of type `char`
and `_Bool` in `MemberAccess`; attributes and `_Alignas` on members; member accesses through
a pointer; in initialisers bit-fields, wide strings, empty braces and flexible arrays. Values of case labels (duplicates are left to the
verifier) and case ranges. Variable-length scopes and the storage of locals.
`a ?: b`, whose condition is one node with two parents. Debug info. In the driver: the developer mode (`RunDev`), `-v`, timing,
options that are only passed on, a source named twice in two spellings, an
invocation that is itself killed. The tables above say which other components have no
module yet.

## The plan

In the order of what matters most to a user of the compiler:

1. **Ast, ParseStmt, CodeGen, SourceSemantics, Compile** with their proofs: done.
2. **Driver, Toolchain** with their proofs, the refinement too: done.
3. **StructLayout**, **MemberAccess**, **Record**: done, with the theorems
   about indexes, offsets, casts and overlaps. Left: a step of the refinement of `Record` for one word (`GetBitField` and
   `GetBitFieldValue` undo each other).
4. **CTypes** to **Expressions**: done. Left: member accesses inside larger
   expressions.
5. **Scopes**, **Symbols**, **CNames**, **Declarations** with their proofs: done,
   `LookupAgrees` for any scopes included. Left: `SymbolsRight`, by coupling
   the symbols to the entities as the identifiers are.
6. **Aggregates**, **Initializers**, **CInitializers**, **Initialization**: done.
   Left: bit-fields, over the types of `StructLayout`.
No module that is proved about, nor one it extends, declares a RECURSIVE
operator: walks of the tree are recursive functions over node numbers.
