------------------------------- MODULE Driver -------------------------------
(***************************************************************************)
(* The processes of kcc.  An invocation checks its command line, forks one *)
(* child per source, waits for them and links what they left under /tmp.   *)
(* Several invocations may be at work on one file system, and the children *)
(* of one that has failed go on.                                           *)
(***************************************************************************)
EXTENDS Naturals, Sequences

CONSTANTS
  Procs,        \* the invocations
  Commands,     \* Commands[p]: the command lines p may be given
  After,        \* After[p]: the invocations p is started after (a retry)
  Word,         \* what names and options are made of
  Disk,         \* the files there are at first
  Directories,  \* the directories there are (as sequences of names) ...
  Writable      \* ... and those of them kcc may make files in

VARIABLES
  pc,     \* where main() of each invocation is
  cmd,    \* its command line
  job,    \* what CommandLineCheck made of it
  child,  \* the processes it has forked, by source
  fs      \* the files: who wrote them, and whether nobody still does

vars == <<pc, cmd, job, child, fs>>

-----------------------------------------------------------------------------
\* A path: std::filesystem::path, its file name split at the dots.
Path == [root : BOOLEAN, dir : Seq(Word), name : Seq(Word)]
NoPath == [root |-> FALSE, dir |-> <<>>, name |-> <<>>]

\* cwd is where kcc is started, args its arguments without the options; out and
\* folders are the arguments of -o and -I.
CommandLine ==
  [cwd : Seq(Word), args : SUBSET Path, flags : SUBSET Word, out : Path,
   folders : SUBSET Seq(Word)]

ASSUME DriverAssumption ==
  /\ After \in [Procs -> SUBSET Procs]
  /\ Writable \subseteq Directories
  /\ \A p \in Procs : Commands[p] \subseteq CommandLine
  /\ Disk \subseteq Path
  /\ {"a", "out", "html", "ll", "s", "o"} \subseteq Word

Extension(f) == IF Len(f.name) > 1 THEN f.name[Len(f.name)] ELSE ""

\* The file the operating system finds for f in the directory cwd.
Resolve(cwd, f) ==
  [root |-> TRUE,
   dir  |-> SelectSeq(IF f.root THEN f.dir ELSE cwd \o f.dir, LAMBDA d : d # "."),
   name |-> f.name]

\* Mutant: the object has the name of the source without its directory.
GetObjFileFlat(f) == [root |-> TRUE, dir |-> <<"tmp">>, name |-> Append(f.name, "o")]

\* GetObjFile: "/tmp" / (f + ".o").  An absolute f replaces "/tmp".
GetObjFile(f) ==
  [root |-> TRUE,
   dir  |-> IF f.root THEN f.dir ELSE <<"tmp">> \o f.dir,
   name |-> Append(f.name, "o")]

\* GetFileName: replace_extension.
GetFileName(f, ext) ==
  [f EXCEPT !.name = Append(IF Len(@) > 1 THEN SubSeq(@, 1, Len(@) - 1) ELSE @, ext)]

-----------------------------------------------------------------------------
\* The options that end RunKcc early, in the order it looks at them.
Stages == <<"E", "emit-token", "emit-ast", "emit-llvm", "S", "c">>

DoNotLink(c) == \E i \in DOMAIN Stages : Stages[i] \in c.flags

Stage(c) ==
  IF DoNotLink(c)
  THEN LET First(i) == Stages[i] \in c.flags /\ \A j \in 1..i - 1 : Stages[j] \notin c.flags
       IN  Stages[CHOOSE i \in DOMAIN Stages : First(i)]
  ELSE "object"

OutputFilePath(c) ==
  IF c.out = NoPath /\ ~DoNotLink(c)
  THEN [root |-> FALSE, dir |-> <<>>, name |-> <<"a", "out">>] ELSE c.out

\* The file RunKcc writes for the source s: NoPath when it is the terminal.
Product(c, s) ==
  CASE Stage(c) = "object" -> GetObjFile(s)
    [] Stage(c) # "object" /\ c.out # NoPath -> c.out
    [] Stage(c) \in {"E", "emit-token"} /\ c.out = NoPath -> NoPath
    [] Stage(c) = "emit-ast" /\ c.out = NoPath -> GetFileName(s, "html")
    [] Stage(c) = "emit-llvm" /\ c.out = NoPath -> GetFileName(s, "ll")
    [] Stage(c) = "S" /\ c.out = NoPath -> GetFileName(s, "s")
    [] Stage(c) = "c" /\ c.out = NoPath -> GetFileName(s, "o")

Target(p, s) ==
  LET f == Product(cmd[p], s) IN IF f = NoPath THEN f ELSE Resolve(cmd[p].cwd, f)

Targets(p) == {Target(p, s) : s \in job[p].sources} \ {NoPath}

Exe(p) == Resolve(cmd[p].cwd, OutputFilePath(cmd[p]))

-----------------------------------------------------------------------------
\* Files.
Put(f, content) == [g \in DOMAIN fs \cup {f} |-> IF g = f THEN content ELSE fs[g]]
Without(F) == [g \in DOMAIN fs \ F |-> fs[g]]

\* The children that have f open.
Writers(f) ==
  UNION {{<<q, t>> : t \in {u \in DOMAIN child[q] : child[q][u].file = f}} : q \in Procs}

\* The files F are unlinked or replaced: who has one open writes to nowhere.
Detached(F) ==
  [q \in Procs |-> [t \in DOMAIN child[q] |->
     IF child[q][t].file \in F THEN [child[q][t] EXCEPT !.file = NoPath] ELSE child[q][t]]]

-----------------------------------------------------------------------------
\* CommandLineCheck.  "*.c" and "*.o" are read from the directory they name,
\* the current one (by its absolute path) when they name none.
IsGlob(a) == a.name \in {<<"*", "c">>, <<"*", "o">>}
Folder(c, a) ==
  IF ~a.root /\ a.dir = <<>> THEN [root |-> TRUE, dir |-> c.cwd, name |-> <<>>] ELSE a
Entries(c, a) ==
  {[Folder(c, a) EXCEPT !.name = f.name] :
     f \in {g \in DOMAIN fs : /\ g.dir = Resolve(c.cwd, Folder(c, a)).dir
                              /\ Extension(g) = Extension(a)}}

Named(c, exts) ==
  {a \in c.args : ~IsGlob(a) /\ Extension(a) \in exts}
    \cup UNION {Entries(c, a) : a \in {b \in c.args : IsGlob(b) /\ Extension(b) \in exts}}

Sources(c) == Named(c, {"c"})
Libraries(c) == Named(c, {"o", "so", "a"})

BadArgument(c, a) ==
  IF IsGlob(a)
  THEN Resolve(c.cwd, Folder(c, a)).dir \notin Directories
  ELSE \/ Resolve(c.cwd, a) \notin DOMAIN fs
       \/ Extension(a) \notin {"c", "so", "a", "o"}

Accepts(c) ==
  /\ \A a \in c.args : ~BadArgument(c, a)
  /\ Named(c, {"c", "o"}) # {}
  /\ c.folders \subseteq Directories
  /\ ~(c.out # NoPath /\ DoNotLink(c) /\ \E s, t \in Sources(c) : s # t)

Ended(p) == pc[p] \in {"ok", "failed"}

CommandLineCheck(p) ==
  /\ pc[p] = "check" /\ \A q \in After[p] : Ended(q)
  /\ IF Accepts(cmd[p])
     THEN /\ pc' = [pc EXCEPT ![p] = "fork"]
          /\ job' = [job EXCEPT ![p] =
               [sources |-> Sources(cmd[p]), libraries |-> Libraries(cmd[p])]]
     ELSE pc' = [pc EXCEPT ![p] = "failed"] /\ UNCHANGED job
  /\ UNCHANGED <<cmd, child, fs>>

-----------------------------------------------------------------------------
\* main().
Unforked(p) == job[p].sources \ DOMAIN child[p]

\* kcc forks in the order of the names; nothing here depends on it.
Fork(p) ==
  /\ pc[p] = "fork"
  /\ \E s \in Unforked(p) :
       child' = [child EXCEPT ![p] = [t \in DOMAIN child[p] \cup {s} |->
         IF t = s THEN [st |-> "run", file |-> NoPath] ELSE child[p][t]]]
  /\ UNCHANGED <<pc, cmd, job, fs>>

ForkFails(p) ==
  /\ pc[p] = "fork" /\ Unforked(p) # {}
  /\ pc' = [pc EXCEPT ![p] = "failed"]
  /\ UNCHANGED <<cmd, job, child, fs>>

AllForked(p) ==
  /\ pc[p] = "fork" /\ Unforked(p) = {}
  /\ pc' = [pc EXCEPT ![p] = "wait"]
  /\ UNCHANGED <<cmd, job, child, fs>>

\* Mutant: the status of a child is not looked at.
ReapAny(p) ==
  /\ pc[p] = "wait"
  /\ \E s \in DOMAIN child[p] :
       child[p][s].st \in {"ok", "bad"} /\ child' = [child EXCEPT ![p][s].st = "reaped"]
  /\ UNCHANGED <<pc, cmd, job, fs>>

\* Mutant: a child that fails is started again.
ReapRetrying(p) ==
  /\ pc[p] = "wait"
  /\ \E s \in DOMAIN child[p] :
       /\ child[p][s].st \in {"ok", "bad"}
       /\ child' = [child EXCEPT ![p][s].st = IF @ = "ok" THEN "reaped" ELSE "run"]
  /\ UNCHANGED <<pc, cmd, job, fs>>

Reap(p) ==
  /\ pc[p] = "wait"
  /\ \E s \in DOMAIN child[p] :
       \/ /\ child[p][s].st = "ok"
          /\ child' = [child EXCEPT ![p][s].st = "reaped"]
          /\ UNCHANGED pc
       \/ /\ child[p][s].st = "bad"
          /\ pc' = [pc EXCEPT ![p] = "failed"]
          /\ UNCHANGED child
  /\ UNCHANGED <<cmd, job, fs>>

\* Mutant: the loop ends when no child is ready (WNOHANG).
NoChildrenReady(p) ==
  /\ pc[p] = "wait" /\ \A s \in DOMAIN child[p] : child[p][s].st \notin {"ok", "bad"}
  /\ pc' = [pc EXCEPT ![p] = IF DoNotLink(cmd[p]) THEN "ok" ELSE "link"]
  /\ UNCHANGED <<cmd, job, child, fs>>

NoChildren(p) ==
  /\ pc[p] = "wait" /\ \A s \in DOMAIN child[p] : child[p][s].st = "reaped"
  /\ pc' = [pc EXCEPT ![p] = IF DoNotLink(cmd[p]) THEN "ok" ELSE "link"]
  /\ UNCHANGED <<cmd, job, child, fs>>

\* What Link hands to lld: the temporaries, then what the user named.
Linked(p) == Targets(p) \cup {Resolve(cmd[p].cwd, l) : l \in job[p].libraries}

\* lld writes the executable beside its place and renames it.
Link(p) ==
  /\ pc[p] = "link"
  /\ \A f \in Linked(p) : f \in DOMAIN fs /\ fs[f].whole
  /\ Exe(p).dir \in Writable
  /\ fs' = Put(Exe(p), [by |-> UNION {fs[f].by : f \in Linked(p)}, whole |-> TRUE])
  /\ child' = Detached({Exe(p)})
  /\ pc' = [pc EXCEPT ![p] = "remove"]
  /\ UNCHANGED <<cmd, job>>

\* It may find undefined symbols at any time, or be unable to write.
LinkFails(p) ==
  /\ pc[p] = "link"
  /\ \/ UNCHANGED <<fs, child>>
     \/ Exe(p).dir \in Writable /\ fs' = Without({Exe(p)}) /\ child' = Detached({Exe(p)})
  /\ pc' = [pc EXCEPT ![p] = "unlink"]
  /\ UNCHANGED <<cmd, job>>

\* Mutant: only a link that worked is cleaned up after.
RemoveFilesIfLinked(p) ==
  /\ pc[p] \in {"remove", "unlink"}
  /\ IF pc[p] = "remove"
     THEN fs' = Without(Targets(p)) /\ child' = Detached(Targets(p))
     ELSE UNCHANGED <<fs, child>>
  /\ pc' = [pc EXCEPT ![p] = IF pc[p] = "remove" THEN "ok" ELSE "failed"]
  /\ UNCHANGED <<cmd, job>>

\* filesystem::remove has nothing to throw: a file that is gone is no error, and
\* each of these was made by a child of p, in a directory of Writable.
RemoveFiles(p) ==
  /\ pc[p] \in {"remove", "unlink"}
  /\ fs' = Without(Targets(p))
  /\ child' = Detached(Targets(p))
  /\ pc' = [pc EXCEPT ![p] = IF pc[p] = "remove" THEN "ok" ELSE "failed"]
  /\ UNCHANGED <<cmd, job>>

Main(p) ==
  \/ CommandLineCheck(p) \/ Fork(p) \/ ForkFails(p) \/ AllForked(p)
  \/ Reap(p) \/ NoChildren(p) \/ Link(p) \/ LinkFails(p) \/ RemoveFiles(p)

-----------------------------------------------------------------------------
\* RunKcc, in the child for the source s.
Becomes(p, s, st, file) == child' = [child EXCEPT ![p][s] = [st |-> st, file |-> file]]

\* Error(), an exception or a signal before the product is opened.
ChildFails(p, s) == Becomes(p, s, "bad", NoPath) /\ UNCHANGED fs

ToTerminal(p, s) == Target(p, s) = NoPath /\ Becomes(p, s, "ok", NoPath) /\ UNCHANGED fs

Open(p, s) ==
  LET f == Target(p, s) IN
  /\ f # NoPath /\ f.dir \in Writable
  /\ Becomes(p, s, "write", f)
  /\ fs' = Put(f, [by |-> {<<p, s>>} \cup Writers(f), whole |-> FALSE])

\* Whether the product is written through a std::ofstream, which swallows what
\* is written to it when it cannot be opened.
Unchecked(p) == Stage(cmd[p]) \in {"E", "emit-token", "emit-ast"}

OpenFails(p, s) ==
  /\ Target(p, s) # NoPath /\ Target(p, s).dir \notin Writable
  /\ Becomes(p, s, IF Unchecked(p) THEN "ok" ELSE "bad", NoPath)
  /\ UNCHANGED fs

\* Mutant: the process goes on with its file open.
CloseLate(p, s) == Becomes(p, s, "ok", child[p][s].file) /\ UNCHANGED fs

Close(p, s) ==
  LET f == child[p][s].file IN
  /\ Becomes(p, s, "ok", NoPath)
  /\ fs' = IF f = NoPath THEN fs
           ELSE [fs EXCEPT ![f].whole = (Writers(f) = {<<p, s>>})]

\* The process dies over its open file, which stays as it is.
Killed(p, s) == Becomes(p, s, "bad", NoPath) /\ UNCHANGED fs

RunKcc(p, s) ==
  /\ \/ /\ child[p][s].st = "run"
        /\ ChildFails(p, s) \/ ToTerminal(p, s) \/ Open(p, s) \/ OpenFails(p, s)
     \/ /\ child[p][s].st = "write"
        /\ Close(p, s) \/ Killed(p, s)
  /\ UNCHANGED <<pc, cmd, job>>

Children(p) == \E s \in DOMAIN child[p] : RunKcc(p, s)

-----------------------------------------------------------------------------
NoJob == [sources |-> {}, libraries |-> {}]

Init ==
  /\ pc = [p \in Procs |-> "check"]
  /\ cmd \in {c \in [Procs -> UNION {Commands[p] : p \in Procs}] :
               \A p \in Procs : c[p] \in Commands[p]}
  /\ job = [p \in Procs |-> NoJob]
  /\ child = [p \in Procs |-> <<>>]
  /\ fs = [f \in Disk |-> [by |-> {}, whole |-> TRUE]]

Busy(p, s) == child[p][s].st \in {"run", "write"}

Over == \A p \in Procs : Ended(p) /\ \A s \in DOMAIN child[p] : ~Busy(p, s)

Finished == Over /\ UNCHANGED vars

Next == (\E p \in Procs : Main(p) \/ Children(p)) \/ Finished

Spec == Init /\ [][Next]_vars

\* The operating system runs every process, and the compilation of one source
\* ends: waitpid waits for nothing else.
FairSpec == Spec /\ \A p \in Procs : WF_vars(Main(p)) /\ WF_vars(Children(p))

-----------------------------------------------------------------------------
ChildState == {"run", "write", "ok", "bad", "reaped"}

\* Every variable has its type; a child belongs to a source of the job, and a
\* file that a child has open exists.
DriverTypeOK ==
  /\ pc \in [Procs -> {"check", "fork", "wait", "link", "remove", "unlink", "ok", "failed"}]
  /\ DOMAIN cmd = Procs /\ DOMAIN job = Procs /\ DOMAIN child = Procs
  /\ \A p \in Procs : DOMAIN child[p] \subseteq job[p].sources
  /\ \A p \in Procs : \A s \in DOMAIN child[p] :
       /\ child[p][s] \in [st : ChildState, file : DOMAIN fs \cup {NoPath}]
       /\ child[p][s].st # "write" => child[p][s].file = NoPath
  /\ \A f \in DOMAIN fs : DOMAIN fs[f] = {"by", "whole"} /\ fs[f].whole \in BOOLEAN

\* What belongs to p in the end: the executable, or the files it was told to
\* make instead, which are nobody's business before it has succeeded.
Absent == [by |-> {}, whole |-> FALSE]

Result(p) ==
  CASE ~DoNotLink(cmd[p]) -> IF Exe(p) \in DOMAIN fs THEN fs[Exe(p)] ELSE Absent
    [] DoNotLink(cmd[p]) /\ pc[p] = "ok" ->
         [by    |-> UNION {fs[f].by : f \in Targets(p) \cap DOMAIN fs},
          whole |-> \A f \in Targets(p) : f \in DOMAIN fs /\ fs[f].whole]
    [] OTHER -> Absent

Parts(p) == {<<p, s>> : s \in {t \in job[p].sources : Target(p, t) # NoPath}}

Verdict(p) ==
  CASE pc[p] = "check" -> "asked"
    [] pc[p] \in {"fork", "wait", "link"} -> "working"
    [] pc[p] \in {"remove", "ok"} -> "ok"
    [] pc[p] \in {"unlink", "failed"} -> "failed"

Contract == INSTANCE Toolchain WITH
  Part    <- Procs \X Path,
  verdict <- [p \in Procs |-> Verdict(p)],
  parts   <- [p \in Procs |-> Parts(p)],
  result  <- [p \in Procs |-> Result(p)]

\* main(), its children and the link together keep a compiler's contract: exit
\* status 0 comes with an executable (or, with -c and the like, with files)
\* made whole and of exactly the sources of this command line, not of an object
\* some earlier invocation left; any other status leaves no half-made one.
Delivers == Contract!Spec

\* RemoveFiles: once the link has been tried, whether it worked or not, none of
\* the temporary objects is left.
Waited(p) ==
  job[p].sources = DOMAIN child[p] /\ \A s \in DOMAIN child[p] : child[p][s].st = "reaped"

TempsRemoved ==
  \A p \in Procs : Ended(p) /\ Waited(p) /\ ~DoNotLink(cmd[p]) =>
    Targets(p) \cap DOMAIN fs = {}

\* What main() hands to lld after its waitpid loop: each object is there, was
\* written by this invocation's own child, and nobody is still writing it.
LinkReady ==
  \A p \in Procs : pc[p] = "link" => \A s \in job[p].sources :
    /\ Target(p, s) \in DOMAIN fs
    /\ fs[Target(p, s)] = [by |-> {<<p, s>>}, whole |-> TRUE]

\* No two compilations write the same file, and none writes over an executable.
ObjectsApart ==
  \A p, q \in Procs :
    /\ \A s \in job[p].sources, t \in job[q].sources :
         Target(p, s) = Target(q, t) /\ Target(p, s) # NoPath => p = q /\ s = t
    /\ ~DoNotLink(cmd[p]) => Exe(p) \notin Targets(q)

\* Nor do two links; none takes for a library what an invocation makes; and what
\* is written through a stream can be opened.
OutputsApart ==
  /\ \A p, q \in Procs :
       /\ ~DoNotLink(cmd[p]) /\ ~DoNotLink(cmd[q]) /\ Exe(p) = Exe(q) => p = q
       /\ \A l \in job[p].libraries :
            LET f == Resolve(cmd[p].cwd, l)
            IN  f \notin Targets(q) /\ (~DoNotLink(cmd[q]) => f # Exe(q))
  /\ \A p \in Procs : \A s \in job[p].sources : Unchecked(p) /\ Target(p, s) # NoPath =>
       Target(p, s).dir \in Writable

\* The files of the invocations are apart, as the names GetObjFile gives the
\* objects of different sources make them.
NoSharing == ObjectsApart /\ OutputsApart

\* Every invocation returns to its caller, whatever its children do, and every
\* child ends.
Terminates == <>Over
=============================================================================
