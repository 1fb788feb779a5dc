-------------------------------- MODULE Code --------------------------------
(***************************************************************************)
(* A user program as the system calls it makes, in order, with the tests   *)
(* it puts on their results.  A piece of code is a sequence of             *)
(* instructions.  An instruction of kind "call" makes a system call, puts  *)
(* its result into a variable and, when the program checks the result,     *)
(* says which results it accepts: with any other one the C program prints  *)
(* a complaint and exits with status 1.  The other kinds are the control   *)
(* structures of C; they have no effect outside the process.               *)
(*                                                                         *)
(* Variables are named by strings.  A descriptor, an address or a status   *)
(* is always given by the variable that holds it; the numerals and the     *)
(* names of addresses that occur in the programs are variables too, which  *)
(* Syscalls gives their values.  A path is a sequence of names, with "/"   *)
(* in front when it is absolute.  A file holds a sequence of units, each   *)
(* one byte and one disk block large (BSIZE = 1).                          *)
(***************************************************************************)
EXTENDS Integers, Sequences, SequencesExt

CONSTANTS PGSIZE,     \* Bytes in a page
          MAXFILE,    \* Blocks in the largest file
          NINODE      \* Inodes in memory

\* Results a program accepts: an interval.  -1 is every failure.
Most == 999
Whatever == <<-1, Most>>
Ok == <<0, Most>>
Fails == <<-1, -1>>
Some == <<1, Most>>
Nothing == <<-1, 0>>
Just(n) == <<n, n>>

Call(v, w, c) == [do |-> "call", v |-> v, want |-> w, c |-> c]
Do(c) == Call("_", Whatever, c)
Set(v, c) == Call(v, Whatever, c)
Must(c) == Call("_", Ok, c)
MustSet(v, c) == Call(v, Ok, c)
Cannot(c) == Call("_", Fails, c)
Gives(n, c) == Call("_", Just(n), c)

\* Control structures and assignments
If(v, w, a, b) == [do |-> "if", v |-> v, want |-> w, then |-> a, else |-> b]
While(c, w, body) == [do |-> "while", call |-> c, want |-> w, body |-> body]
Until(body, v, w) == [do |-> "until", body |-> body, v |-> v, want |-> w]
Forever(body) == [do |-> "forever", body |-> body]
\* Code that depends on what the process has read: a line of the shell, an
\* entry of the directory ls goes through, the lines grep has found
Expand(f, v) == [do |-> "expand", f |-> f, v |-> v]
Put(v, x) == [do |-> "put", v |-> v, x |-> x]
Apply(v, f, args) == [do |-> "apply", v |-> v, f |-> f, args |-> args]
Holds(v, x) == [do |-> "holds", v |-> v, x |-> x]
Repeat(v, body) == [do |-> "repeat", v |-> v, body |-> body]
Times(n, body) == FlattenSeq([i \in 1..n |-> body])
For(n, Body(_)) == FlattenSeq([i \in 1..n |-> Body(i)])
Each(s, Body(_)) == FlattenSeq([i \in 1..Len(s) |-> Body(s[i])])

\* System calls, as user/user.h declares them.  read() fills the variable
\* buf; the calls that end in At pass an address of the process's memory.
open(path, mode) == <<"open", path, mode>>
close(x) == <<"close", x>>
read(x, n) == <<"read", x, n>>
readv(x, v) == <<"readv", x, v>>
readAt(x, a, n) == <<"readAt", x, a, n>>
write(x, d) == <<"write", x, d>>
writev(x, v) == <<"writev", x, v>>
writeAt(x, a, n) == <<"writeAt", x, a, n>>
dup(x) == <<"dup", x>>
pipe(r, w) == <<"pipe", r, w>>
pipeAt(a) == <<"pipeAt", a>>
fstat(x) == <<"fstat", x>>
link(old, new) == <<"link", old, new>>
unlink(path) == <<"unlink", path>>
mkdir(path) == <<"mkdir", path>>
mknod(path) == <<"mknod", path>>
chdir(path) == <<"chdir", path>>
exec(path, argv) == <<"exec", path, argv>>
fork(child) == <<"fork", child>>
forkon == <<"forkon">>
exit(x) == <<"exit", x>>
wait(v) == <<"wait", v>>
kill(x) == <<"kill", x>>
getpid == <<"getpid">>
sleep == <<"sleep">>
sbrk(n) == <<"sbrk", n>>
sbrkto(x) == <<"sbrkto", x>>

\* What a process does to its own memory, or does without a call
load(a) == <<"load", a>>
store(a) == <<"store", a>>
clear(a) == <<"clear", a>>
\* Endless computation, one of several pieces of code by chance, the shell's
\* next line, and what printf() of an error message is for
spin == <<"spin">>
oneof(s) == <<"oneof", s>>
getcmd == <<"getcmd">>
complain == <<"complain">>

\* A string argument given by an address
At(a) == <<"*", a>>
\* A path of MAXPATH characters, and arguments of exec() that are larger
\* than a page, or whose address is not mapped, or 400 bytes long
LongPath == <<"xxx">>
BadArg == "bad"
LargeArg == "large"

Exit(x) == Do(exit(x))
CREATE == "O_CREATE"
WRONLY == "O_WRONLY"
RDWR == "O_RDWR"
TRUNC == "O_TRUNC"
=============================================================================
