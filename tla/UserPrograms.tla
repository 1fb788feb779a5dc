---------------------------- MODULE UserPrograms ----------------------------
(***************************************************************************)
(* The programs on the disk, except usertests: init, the shell with its    *)
(* parser, and the utilities.  Output to the console and messages are left *)
(* out; output to descriptor 1 that another program may read is not.       *)
(***************************************************************************)
EXTENDS Code, TLC, FiniteSets

CONSTANTS MAXARGS,    \* Arguments of a command (sh.c), the 0 included
          BUFSZ,      \* Bytes cat, wc and grep read at a time
          Patterns,   \* The characters of the words that serve as patterns
          WhatA, WhatB,   \* The alternatives of go() the two processes of grind draw from
          Rounds      \* Rounds of the loops of stressfs and of the tests

Numbered(base, i) == base \o ToString(i)
Without(s, n) == SubSeq(s, n + 1, Len(s))
Console == <<"console">>

(* init.c *)
initmain ==
  << Set("fd", open(Console, {RDWR})),
     If("fd", Fails, << Do(mknod(Console)), Do(open(Console, {RDWR})) >>, << >>),
     Do(dup("0")), Do(dup("0")),
     Forever(
       << MustSet("pid", fork(<< Do(exec(<<"sh">>, <<"sh">>)), Exit("1") >>)),
          Until(<< MustSet("wpid", wait("_")), Apply("other", "minus", <<"wpid", "pid">>) >>,
                "other", Just(0)) >>) >>

(***************************************************************************)
(* sh.c: the parser.  A line is the sequence of its tokens; ">>" is one.   *)
(* A parsing function returns the command and the tokens that are left, or *)
(* fails the way panic() does.                                             *)
(***************************************************************************)
symbols == {"<", ">", ">>", "|", "&", ";", "(", ")"}
Panic == <<"PANIC">>
execcmd(argv) == <<"EXEC", argv>>
redircmd(cmd, file, mode, fd) == <<"REDIR", cmd, file, mode, fd>>
pipecmd(left, right) == <<"PIPE", left, right>>
listcmd(left, right) == <<"LIST", left, right>>
backcmd(cmd) == <<"BACK", cmd>>

peek(s, toks) == s # << >> /\ Head(s) \in toks
Word(s) == s # << >> /\ Head(s) \notin symbols
Parsed(cmd, rest) == [cmd |-> cmd, rest |-> rest]

\* Where a redirection of kind tok goes
Redirected(cmd, tok, file) ==
  CASE tok = "<"  -> redircmd(cmd, file, { }, "0")
    [] tok = ">"  -> redircmd(cmd, file, {WRONLY, CREATE, TRUNC}, "1")
    [] tok = ">>" -> redircmd(cmd, file, {WRONLY, CREATE}, "1")

\* Goes on with the command and the rest, unless r has failed
Then(r, Go(_, _)) == IF r.cmd = Panic THEN r ELSE Go(r.cmd, r.rest)

RECURSIVE parseline(_), parsepipe(_), parseexec(_), parseredirs(_, _),
          Arguments(_, _, _), Ampersands(_, _)

parseredirs(cmd, s) ==
  IF ~peek(s, {"<", ">", ">>"}) THEN Parsed(cmd, s)
  ELSE IF ~Word(Tail(s)) THEN Parsed(Panic, s)
  ELSE parseredirs(Redirected(cmd, Head(s), s[2]), Without(s, 2))

\* The loop of parseexec(): redirections stand around the command whose
\* arguments are still being read, so the arguments are put in at the end.
RECURSIVE WithArgs(_, _)
WithArgs(cmd, argv) ==
  IF cmd[1] = "REDIR" THEN [cmd EXCEPT ![2] = WithArgs(@, argv)] ELSE execcmd(argv)

Arguments(cmd, argv, s) ==
  IF peek(s, {"|", ")", "&", ";"}) \/ s = << >> THEN Parsed(WithArgs(cmd, argv), s)
  ELSE IF ~Word(s) \/ Len(argv) + 1 >= MAXARGS THEN Parsed(Panic, s)
  ELSE Then(parseredirs(cmd, Tail(s)), LAMBDA c, t : Arguments(c, Append(argv, Head(s)), t))

parseblock(s) ==
  Then(parseline(Tail(s)),
       LAMBDA c, t : IF peek(t, {")"}) THEN parseredirs(c, Tail(t)) ELSE Parsed(Panic, t))

parseexec(s) ==
  IF peek(s, {"("}) THEN parseblock(s)
  ELSE Then(parseredirs(execcmd(<< >>), s), LAMBDA c, t : Arguments(c, << >>, t))

parsepipe(s) ==
  Then(parseexec(s), LAMBDA l, t :
    IF ~peek(t, {"|"}) THEN Parsed(l, t)
    ELSE Then(parsepipe(Tail(t)), LAMBDA r, u : Parsed(pipecmd(l, r), u)))

Ampersands(cmd, s) ==
  IF ~peek(s, {"&"}) THEN Parsed(cmd, s) ELSE Ampersands(backcmd(cmd), Tail(s))

parseline(s) ==
  Then(Then(parsepipe(s), Ampersands), LAMBDA l, t :
    IF ~peek(t, {";"}) THEN Parsed(l, t)
    ELSE Then(parseline(Tail(t)), LAMBDA r, u : Parsed(listcmd(l, r), u)))

parsecmd(s) ==
  Then(parseline(s), LAMBDA c, t : Parsed(IF t = << >> THEN c ELSE Panic, t)).cmd

(* sh.c: running a command *)
fork1(child) == << Set("pid", fork(child)), If("pid", Fails, << Exit("1") >>, << >>) >>

RECURSIVE runcmd(_)
runcmd(cmd) ==
  CASE cmd[1] = "PANIC" -> << Exit("1") >>
    [] cmd[1] = "EXEC"  -> IF cmd[2] = << >> THEN << Exit("1") >>
                           ELSE << Do(exec(<<cmd[2][1]>>, cmd[2])), Exit("0") >>
    [] cmd[1] = "REDIR" -> << Do(close(cmd[5])), Set("fd", open(<<cmd[3]>>, cmd[4])),
                              If("fd", Fails, << Exit("1") >>, << >>) >> \o runcmd(cmd[2])
    [] cmd[1] = "LIST"  -> fork1(runcmd(cmd[2])) \o << Do(wait("_")) >> \o runcmd(cmd[3])
    [] cmd[1] = "BACK"  -> fork1(runcmd(cmd[2])) \o << Exit("0") >>
    [] cmd[1] = "PIPE"  ->
         << Set("ok", pipe("p0", "p1")), If("ok", Fails, << Exit("1") >>, << >>) >>
         \o fork1(<< Do(close("1")), Do(dup("p1")), Do(close("p0")), Do(close("p1")) >>
                  \o runcmd(cmd[2]))
         \o fork1(<< Do(close("0")), Do(dup("p0")), Do(close("p0")), Do(close("p1")) >>
                  \o runcmd(cmd[3]))
         \o << Do(close("p0")), Do(close("p1")), Do(wait("_")), Do(wait("_")), Exit("0") >>

\* The body of the loop of main()
runline(l) ==
  IF Len(l) > 1 /\ l[1] = "cd" THEN << Do(chdir(<<l[2]>>)) >>
  ELSE fork1(runcmd(parsecmd(l))) \o << Do(wait("_")) >>

shmain ==
  << While(Set("fd", open(Console, {RDWR})), <<0, 2>>, << >>),
     If("fd", <<3, Most>>, << Do(close("fd")) >>, << >>),
     While(Set("ok", getcmd), Ok, << Expand("line", "line") >>),
     Exit("0") >>

(* echo.c: the blanks and the line end are writes of their own *)
echomain(argv) ==
  For(Len(argv) - 1,
      LAMBDA i : << Do(write("1", <<argv[i + 1]>>)),
                    Do(write("1", IF i + 1 < Len(argv) THEN <<" ">> ELSE <<"\n">>)) >>)

(* cat.c *)
cat(fd) ==
  << While(Set("n", read(fd, BUFSZ)), Some,
           << Set("w", writev("1", "buf")), Apply("d", "minus", <<"w", "n">>),
              If("d", Just(0), << >>, << Exit("1") >>) >>),
     If("n", Fails, << Exit("1") >>, << >>) >>

\* main() of cat, wc and grep: Body on descriptor 0, or on every file
OnFiles(files, Body(_)) ==
  IF files = << >> THEN Body("0") \o << Exit("0") >>
  ELSE Each(files, LAMBDA f : << Set("fd", open(<<f>>, { })),
                                 If("fd", Fails, << Exit("1") >>, << >>) >>
                              \o Body("fd") \o << Do(close("fd")) >>) \o << Exit("0") >>

catmain(argv) == OnFiles(Tail(argv), cat)

(* wc.c: lines, words and bytes; inword is carried from one read to the next *)
Blank == {" ", "\n"}
Counted(s, b) ==
  [l |-> s.l + (IF b = "\n" THEN 1 ELSE 0),
   w |-> s.w + (IF b \notin Blank /\ ~s.inword THEN 1 ELSE 0),
   c |-> s.c + 1,
   inword |-> b \notin Blank]
wc(fd) ==
  << Put("s", [l |-> 0, w |-> 0, c |-> 0, inword |-> FALSE]),
     While(Set("n", read(fd, BUFSZ)), Some, << Apply("s", "count", <<"s", "buf">>) >>),
     If("n", Fails, << Exit("1") >>, << >>),
     Apply("out", "report", <<"s">>), Do(writev("1", "out")) >>

wcmain(argv) == OnFiles(Tail(argv), wc)

(* grep.c: the matcher of Kernighan and Pike, on sequences of characters *)
RECURSIVE matchhere(_, _), matchstar(_, _, _), match(_, _)
matchhere(re, text) ==
  CASE re = << >> -> TRUE
    [] Len(re) > 1 /\ re[2] = "*" -> matchstar(re[1], Without(re, 2), text)
    [] re = <<"$">> -> text = << >>
    [] OTHER -> /\ text # << >>
                /\ re[1] \in {".", text[1]}
                /\ matchhere(Tail(re), Tail(text))

matchstar(c, re, text) ==
  \/ matchhere(re, text)
  \/ text # << >> /\ c \in {".", text[1]} /\ matchstar(c, re, Tail(text))

match(re, text) ==
  IF re # << >> /\ re[1] = "^" THEN matchhere(Tail(re), text)
  ELSE matchhere(re, text) \/ (text # << >> /\ match(re, Tail(text)))

\* The inner loop of grep(): the lines of the buffer that match, with their
\* line ends, and what is left of it after the last line end
RECURSIVE Lines(_, _)
Lines(re, b) ==
  LET q == SelectInSeq(b, LAMBDA ch : ch = "\n")
      more == Lines(re, Without(b, q))
  IN  IF q = 0 THEN [out |-> << >>, left |-> b]
      ELSE [more EXCEPT !.out = (IF match(re, SubSeq(b, 1, q - 1)) THEN <<SubSeq(b, 1, q)>>
                                 ELSE << >>) \o @]

\* The characters of an argument that serves as a pattern
Chars(w) == IF w \in DOMAIN Patterns THEN Patterns[w] ELSE <<w>>

grep(pattern, fd) ==
  << Put("m", << >>), Put("room", BUFSZ - 1),
     While(Set("n", readv(fd, "room")), Some,
           << Apply("found", "lines", <<pattern, "m", "buf">>),
              Apply("m", "left", <<"found">>), Apply("room", "room", <<"m">>),
              Expand("output", "found") >>) >>

grepmain(argv) ==
  IF Len(argv) <= 1 THEN << Exit("1") >>
  ELSE << Put("pattern", Chars(argv[2])) >>
       \o OnFiles(Without(argv, 2), LAMBDA fd : grep("pattern", fd))

(* ls.c, for one directory: an entry is printed when stat() finds it *)
entry(dir, de) ==
  IF de.inum = 0 THEN << >>
  ELSE << Set("fd1", open(Append(dir, de.name), { })),
          If("fd1", Ok, << Set("ok", fstat("fd1")), Do(close("fd1")),
                           Do(write("1", <<de.name>>)) >>, << >>) >>
ls(path) ==
  << Put("dir", path), Set("fd", open(path, { })),
     If("fd", Fails, << Exit("0") >>, << >>),
     Set("ok", fstat("fd")),
     If("st_type", Just(1),
        << While(Set("n", read("fd", 1)), Some, << Expand("entry", "buf") >>) >>,
        << Do(write("1", path)) >>),
     Do(close("fd")), Exit("0") >>
lsmain(argv) == IF Len(argv) < 2 THEN ls(<<".">>) ELSE ls(<<argv[2]>>)

(* ln.c, rm.c, mkdir.c, kill.c and zombie.c *)
lnmain(argv) ==
  IF Len(argv) # 3 THEN << Exit("1") >> ELSE << Do(link(<<argv[2]>>, <<argv[3]>>)), Exit("0") >>
\* for every argument, until it fails for one
UntilFails(argv, C(_)) ==
  IF Len(argv) < 2 THEN << Exit("1") >>
  ELSE Each(Tail(argv), LAMBDA f : << Set("ok", C(f)), If("ok", Fails, << Exit("0") >>, << >>) >>)
       \o << Exit("0") >>
rmmain(argv) == UntilFails(argv, LAMBDA f : unlink(<<f>>))
mkdirmain(argv) == UntilFails(argv, LAMBDA f : mkdir(<<f>>))
killmain(argv) ==
  IF Len(argv) < 2 THEN << Exit("1") >>
  ELSE Each(Tail(argv), LAMBDA n : << Do(kill(n)) >>) \o << Exit("0") >>
zombiemain ==
  << Set("pid", fork(<< Exit("0") >>)), If("pid", Some, << Do(sleep) >>, << >>), Exit("0") >>

(* stressfs.c: a chain of Rounds + 1 processes, each with a file of its own *)
Stress(i) ==
  LET path == <<Numbered("stressfs", i)>>
  IN  << Set("fd", open(path, {CREATE, RDWR})) >> \o Times(Rounds, << Do(write("fd", <<"a">>)) >>)
      \o << Do(close("fd")), Set("fd", open(path, { })) >>
      \o Times(Rounds, << Do(read("fd", 1)) >>)
      \o << Do(close("fd")), Do(wait("_")), Exit("0") >>
Chain[i \in 0..Rounds] ==
  IF i = Rounds THEN Stress(i)
  ELSE << Set("pid", fork(Chain[i + 1])), If("pid", Some, Stress(i), Chain[i + 1]) >>
stressfsmain == Chain[0]

(* forktest.c: fork until the process table is full, and collect them all *)
forkmany ==
  << Put("n", 0),
     While(Set("pid", fork(<< Exit("0") >>)), Some, << Apply("n", "inc", <<"n">>) >>) >>
waitmany == << Repeat("n", << Must(wait("_")) >>), Cannot(wait("_")) >>
forktestmain == forkmany \o waitmany \o << Exit("0") >>

(***************************************************************************)
(* grind.c: two processes make random calls in one directory.  Each makes  *)
(* one of them; the loops of go() and of main() never end.                 *)
(***************************************************************************)
OpenClose(path) == << Set("t", open(path, {CREATE, RDWR})), Do(close("t")) >>
Forked(child) == << MustSet("pid", fork(child)), Do(wait("_")) >>
Pipeline ==
  << Must(pipe("a0", "a1")), Must(pipe("b0", "b1")),
     MustSet("pid1", fork(<< Do(close("b0")), Do(close("b1")), Do(close("a0")), Do(close("1")),
                             Gives(1, dup("a1")), Do(close("a1")),
                             Do(exec(<<"grindir", "..", "echo">>, <<"echo", "hi">>)), Exit("2") >>)),
     MustSet("pid2", fork(<< Do(close("a1")), Do(close("b0")), Do(close("0")),
                             Gives(0, dup("a0")), Do(close("a0")), Do(close("1")),
                             Gives(1, dup("b1")), Do(close("b1")),
                             Do(exec(<<"/", "cat">>, <<"cat">>)), Exit("2") >>)),
     Do(close("a0")), Do(close("a1")), Do(close("b1")), Put("all", << >>) >>
  \o Times(2, << Do(read("b0", 1)), Apply("all", "append", <<"all", "buf">>) >>)
  \o << Do(close("b0")), Do(wait("st1")), Do(wait("st2")),
        Holds("st1", 0), Holds("st2", 0), Holds("all", <<"hi", "\n">>) >>

\* The alternatives of go(), in its order; the first does nothing
What ==
  << << >>,
     OpenClose(<<"grindir", "..", "a">>),
     OpenClose(<<"grindir", "..", "grindir", "..", "b">>),
     << Do(unlink(<<"grindir", "..", "a">>)) >>,
     << Must(chdir(<<"grindir">>)), Do(unlink(<<"..", "b">>)), Do(chdir(<<"/">>)) >>,
     << Do(close("fd")), Set("fd", open(<<"/", "grindir", "..", "a">>, {CREATE, RDWR})) >>,
     << Do(close("fd")), Set("fd", open(<<"/", ".", "grindir", ".", "..", "b">>, {CREATE, RDWR})) >>,
     << Do(write("fd", <<"z">>)) >>,
     << Do(read("fd", 1)) >>,
     << Do(mkdir(<<"grindir", "..", "a">>)) >> \o OpenClose(<<"a", "..", "a", ".", "a">>)
        \o << Do(unlink(<<"a", "a">>)) >>,
     << Do(mkdir(<<"/", "..", "b">>)) >> \o OpenClose(<<"grindir", "..", "b", "b">>)
        \o << Do(unlink(<<"b", "b">>)) >>,
     << Do(unlink(<<"b">>)), Do(link(<<"..", "grindir", ".", "..", "a">>, <<"..", "b">>)) >>,
     << Do(unlink(<<"..", "grindir", "..", "a">>)),
        Do(link(<<"..", ".", "b">>, <<"/", "grindir", "..", "a">>)) >>,
     Forked(<< Exit("0") >>),
     Forked(<< Do(forkon), Do(forkon), Exit("0") >>),
     << Do(sbrk(PGSIZE + 1)) >>,
     << Do(sbrkto("break0")) >>,
     << MustSet("pid", fork(OpenClose(<<"a">>) \o << Exit("0") >>)),
        Must(chdir(<<"..", "grindir", "..">>)), Do(kill("pid")), Do(wait("_")) >>,
     Forked(<< Set("me", getpid), Do(kill("me")), Exit("0") >>),
     << Must(pipe("p0", "p1")),
        MustSet("pid", fork(<< Do(forkon), Do(forkon), Gives(1, write("p1", <<"x">>)),
                               Gives(1, read("p0", 1)), Exit("0") >>)),
        Do(close("p0")), Do(close("p1")), Do(wait("_")) >>,
     Forked(<< Do(unlink(<<"a">>)), Do(mkdir(<<"a">>)), Do(chdir(<<"a">>)), Do(unlink(<<"..", "a">>)),
               Set("fd", open(<<"x">>, {CREATE, RDWR})), Do(unlink(<<"x">>)), Exit("0") >>),
     << Do(unlink(<<"c">>)), MustSet("fd1", open(<<"c">>, {CREATE, RDWR})),
        Gives(1, write("fd1", <<"x">>)), Must(fstat("fd1")), Holds("st_size", 1),
        Do(close("fd1")), Do(unlink(<<"c">>)) >>,
     Pipeline >>

go(alternatives) ==
  << Put("fd", -1), Set("break0", sbrk(0)), Do(mkdir(<<"grindir">>)), Must(chdir(<<"grindir">>)),
     Do(chdir(<<"/">>)), Do(oneof([i \in 1..Len(alternatives) |-> What[alternatives[i]]])), Exit("0") >>

iter ==
  << Do(unlink(<<"a">>)), Do(unlink(<<"b">>)),
     MustSet("pid1", fork(go(WhatA))), MustSet("pid2", fork(go(WhatB))),
     Put("st1", -1), Do(wait("st1")),
     If("st1", Just(0), << >>, << Do(kill("pid1")), Do(kill("pid2")) >>),
     Do(wait("_")), Exit("0") >>

grindmain == << Set("pid", fork(iter)), If("pid", Some, << Do(wait("_")) >>, << >>), Do(sleep) >>
=============================================================================
