----------------------------- MODULE UserTests ------------------------------
(***************************************************************************)
(* usertests.c, one definition for each test.  A test accepts the results  *)
(* the C code accepts; loops run Rounds times, over names and sizes that   *)
(* are as many times smaller.                                              *)
(***************************************************************************)
EXTENDS UserPrograms

CONSTANTS NINODES,      \* Inodes on the disk
          FREEBLOCKS,   \* At least the free blocks of the disk
          WRAP          \* The size of the address space

Wild == <<"KERNBASE", "TRAPFRAME", "TRAMPOLINE", "MAXVA", "TOP">>
WildOrText == <<"0">> \o Wild
Two == 2 * PGSIZE
Child(v, code) == MustSet(v, fork(code))
\* a child must be waited for and its status is passed on
PassOn == << Do(wait("xst")), Exit("xst") >>
WaitZero == << Do(wait("xst")), If("xst", Just(0), << >>, << Do(complain) >>) >>

(* Addresses that are not the process's *)
copyin ==
  Each(Wild, LAMBDA a :
    << MustSet("fd", open(<<"copyin1">>, {CREATE, WRONLY})), Cannot(writeAt("fd", a, Two)),
       Do(close("fd")), Do(unlink(<<"copyin1">>)),
       Call("_", Nothing, writeAt("1", a, Two)),
       Must(pipe("r", "w")), Call("_", Nothing, writeAt("w", a, Two)),
       Do(close("r")), Do(close("w")) >>)

copyout ==
  Each(WildOrText, LAMBDA a :
    << MustSet("fd", open(<<"README">>, { })), Call("_", Nothing, readAt("fd", a, Two)),
       Do(close("fd")),
       Must(pipe("r", "w")), Gives(1, write("w", <<"x">>)), Call("_", Nothing, readAt("r", a, Two)),
       Do(close("r")), Do(close("w")) >>)

copyinstr1 == Each(Wild, LAMBDA a : << Cannot(open(At(a), {CREATE, WRONLY})) >>)

\* the calls copyinstr2() and copyinstr3() make with a string they must refuse
Refused(b) ==
  << Cannot(unlink(b)), Cannot(open(b, {CREATE, WRONLY})), Cannot(link(b, b)),
     Cannot(exec(b, <<"xx">>)) >>

copyinstr2 ==
  Refused(LongPath)
  \o << Child("pid", << Cannot(exec(<<"echo">>, <<BadArg, BadArg, BadArg>>)), Exit("747") >>),
        Do(wait("st")), Holds("st", 747) >>

copyinstr3 ==
  << Do(sbrk(Two)), Set("top", sbrk(0)), Apply("top", "pageup", <<"top">>), Do(sbrkto("top")),
     Apply("b", "dec", <<"top">>), Do(store("b")) >> \o Refused(At("b"))

rwsbrk ==
  << MustSet("a", sbrk(Two)), Must(sbrk(-Two)), Apply("a1", "nextpage", <<"a">>),
     MustSet("fd", open(<<"rwsbrk">>, {CREATE, WRONLY})), Cannot(writeAt("fd", "a1", 1)),
     Do(close("fd")), Do(unlink(<<"rwsbrk">>)),
     MustSet("fd", open(<<"README">>, { })), Cannot(readAt("fd", "a1", 1)),
     Do(close("fd")), Exit("0") >>

(* O_TRUNC *)
truncfile == <<"truncfile">>
truncate1 ==
  << Do(unlink(truncfile)), Set("fd1", open(truncfile, {CREATE, WRONLY, TRUNC})),
     Do(write("fd1", <<"a", "b">>)), Do(close("fd1")),
     Set("fd2", open(truncfile, { })), Gives(2, read("fd2", 8)),
     Set("fd1", open(truncfile, {WRONLY, TRUNC})),
     Set("fd3", open(truncfile, { })), Gives(0, read("fd3", 8)), Gives(0, read("fd2", 8)),
     Do(write("fd1", <<"a", "b", "c">>)), Gives(3, read("fd3", 8)), Gives(1, read("fd2", 8)),
     Do(unlink(truncfile)), Do(close("fd1")), Do(close("fd2")), Do(close("fd3")) >>

truncate2 ==
  << Do(unlink(truncfile)), Set("fd1", open(truncfile, {CREATE, TRUNC, WRONLY})),
     Do(write("fd1", <<"a", "b">>)), Set("fd2", open(truncfile, {TRUNC, WRONLY})),
     Cannot(write("fd1", <<"x">>)),
     Do(unlink(truncfile)), Do(close("fd1")), Do(close("fd2")) >>

truncate3 ==
  << Set("t", open(truncfile, {CREATE, TRUNC, WRONLY})), Do(close("t")),
     Child("pid", Times(Rounds,
       << MustSet("fd", open(truncfile, {WRONLY})), Gives(2, write("fd", <<"1", "2">>)),
          Do(close("fd")), Set("fd", open(truncfile, { })), Do(read("fd", 8)), Do(close("fd")) >>)
       \o << Exit("0") >>) >>
  \o Times(Rounds, << MustSet("fd", open(truncfile, {CREATE, WRONLY, TRUNC})),
                      Gives(1, write("fd", <<"x">>)), Do(close("fd")) >>)
  \o << Do(wait("xst")), Do(unlink(truncfile)), Exit("xst") >>

(* iput() of a directory or file whose name is gone *)
iputtest ==
  << Must(mkdir(<<"iputdir">>)), Must(chdir(<<"iputdir">>)), Must(unlink(<<"..", "iputdir">>)),
     Must(chdir(<<"/">>)) >>
exitiputtest ==
  << Child("pid", << Must(mkdir(<<"iputdir">>)), Must(chdir(<<"iputdir">>)),
                     Must(unlink(<<"..", "iputdir">>)), Exit("0") >>) >> \o PassOn
openiputtest ==
  << Must(mkdir(<<"oidir">>)),
     Child("pid", << Cannot(open(<<"oidir">>, {RDWR})), Exit("0") >>),
     Do(sleep), Gives(0, unlink(<<"oidir">>)) >> \o PassOn

(* Files *)
opentest ==
  << MustSet("fd", open(<<"echo">>, { })), Do(close("fd")), Cannot(open(<<"doesnotexist">>, { })) >>

writetest ==
  << MustSet("fd", open(<<"small">>, {CREATE, RDWR})) >>
  \o Times(Rounds, << Gives(1, write("fd", <<"a">>)), Gives(1, write("fd", <<"b">>)) >>)
  \o << Do(close("fd")), MustSet("fd", open(<<"small">>, { })),
        Gives(2 * Rounds, read("fd", 2 * Rounds)), Do(close("fd")), Must(unlink(<<"small">>)) >>

writebig ==
  << MustSet("fd", open(<<"big">>, {CREATE, RDWR})) >>
  \o For(MAXFILE, LAMBDA i : << Gives(1, write("fd", <<ToString(i)>>)) >>)
  \o << Do(close("fd")), MustSet("fd", open(<<"big">>, { })) >>
  \o For(MAXFILE, LAMBDA i : << Gives(1, read("fd", 1)), Holds("buf", <<ToString(i)>>) >>)
  \o << Gives(0, read("fd", 1)), Do(close("fd")), Must(unlink(<<"big">>)) >>

createtest ==
  For(Rounds, LAMBDA i : << Set("fd", open(<<Numbered("a", i)>>, {CREATE, RDWR})), Do(close("fd")) >>)
  \o For(Rounds, LAMBDA i : << Do(unlink(<<Numbered("a", i)>>)) >>)

dirtest ==
  << Must(mkdir(<<"dir0">>)), Must(chdir(<<"dir0">>)), Must(chdir(<<"..">>)), Must(unlink(<<"dir0">>)) >>

exectest ==
  << Do(unlink(<<"echo-ok">>)),
     Child("pid", << Do(close("1")), Gives(1, open(<<"echo-ok">>, {CREATE, WRONLY})),
                     Must(exec(<<"echo">>, <<"echo", "OK">>)) >>),
     Set("wpid", wait("xst")), If("xst", Just(0), << >>, << Exit("xst") >>),
     MustSet("fd", open(<<"echo-ok">>, { })), Gives(1, read("fd", 1)),
     Do(unlink(<<"echo-ok">>)), Holds("buf", <<"OK">>), Exit("0") >>

(* Pipes and processes *)
Numerals == <<"1", "2", "3", "4", "5", "6">>
PipeData == SubSeq(Numerals, 1, 3 * Rounds)
\* the reader asks for 1, then 2, then always 4 bytes
pipe1 ==
  << Gives(0, pipe("r", "w")),
     Child("pid", << Do(close("r")) >>
       \o For(Rounds, LAMBDA i : << Gives(3, write("w", SubSeq(PipeData, 3 * i - 2, 3 * i))) >>)
       \o << Exit("0") >>),
     Do(close("w")), Put("cc", 1), Put("all", << >>),
     While(Set("n", readv("r", "cc")), Some,
           << Apply("all", "append", <<"all", "buf">>), Apply("cc", "double", <<"cc">>) >>),
     Holds("all", PipeData), Do(close("r")) >> \o PassOn

killstatus ==
  Times(Rounds, << Child("pid1", << Do(getpid), Do(spin) >>), Do(sleep),
                   Do(kill("pid1")), Do(wait("xst")), Holds("xst", -1) >>) \o << Exit("0") >>

preempt ==
  << Child("pid1", << Do(spin) >>), Child("pid2", << Do(spin) >>), Do(pipe("r", "w")),
     Child("pid3", << Do(close("r")), Gives(1, write("w", <<"x">>)), Do(close("w")), Do(spin) >>),
     Do(close("w")), Gives(1, read("r", 8)), Do(close("r")),
     Do(kill("pid1")), Do(kill("pid2")), Do(kill("pid3")),
     Do(wait("_")), Do(wait("_")), Do(wait("_")) >>

exitwait ==
  For(Rounds, LAMBDA i :
    << Child("pid", << Exit(Numerals[i]) >>), Set("wpid", wait("xst")),
       Apply("d", "minus", <<"wpid", "pid">>), Holds("d", 0), Holds("xst", i) >>)

reparent ==
  << Set("master", getpid) >>
  \o Times(Rounds,
       << Child("pid", << Set("pid2", fork(<< Exit("0") >>)),
                          If("pid2", Fails, << Do(kill("master")), Exit("1") >>, << >>), Exit("0") >>),
          Set("wpid", wait("_")), Apply("d", "minus", <<"wpid", "pid">>), Holds("d", 0) >>)
  \o << Exit("0") >>

twochildren ==
  Times(Rounds, << Child("pid1", << Exit("0") >>), Child("pid2", << Exit("0") >>),
                   Do(wait("_")), Do(wait("_")) >>)

forkfork ==
  Times(2, << Child("pid", Times(Rounds,
                << Set("pid1", fork(<< Exit("0") >>)), If("pid1", Fails, << Exit("1") >>, << >>),
                   Do(wait("_")) >>) \o << Exit("0") >>) >>)
  \o Times(2, WaitZero)

StopForking == << Set("t", open(<<"stopforking">>, {CREATE, RDWR})), Do(close("t")) >>
forkforkfork ==
  << Do(unlink(<<"stopforking">>)),
     Child("pid", << Forever(<< Set("fd", open(<<"stopforking">>, { })),
                                If("fd", Ok, << Exit("0") >>, << >>),
                                Set("pid", forkon), If("pid", Fails, StopForking, << >>) >>) >>),
     Do(sleep) >> \o StopForking \o << Do(wait("_")), Do(sleep) >>

reparent2 ==
  << Child("pid1", << Do(forkon), Do(forkon), Exit("0") >>), Do(wait("_")), Exit("0") >>

\* malloc() takes its memory from the break and never gives it back (Umalloc)
mem ==
  << Set("pid", fork(<< While(Set("m", sbrk(PGSIZE)), Ok, << Do(store("m")) >>), Exit("0") >>)),
     Do(wait("xst")), If("xst", Fails, << Exit("0") >>, << >>), Exit("xst") >>

(* Files shared by processes *)
sharedfd ==
  LET file == <<"sharedfd">>
  IN  << Do(unlink(file)), MustSet("fd", open(file, {CREATE, RDWR})),
         Set("pid", fork(Times(Rounds, << Gives(1, write("fd", <<"c">>)) >>) \o << Exit("0") >>)) >>
      \o Times(Rounds, << Gives(1, write("fd", <<"p">>)) >>)
      \o << Do(wait("xst")), If("xst", Just(0), << >>, << Exit("xst") >>),
            Do(close("fd")), MustSet("fd", open(file, { })), Put("all", << >>),
            While(Set("n", read("fd", 1)), Some, << Apply("all", "append", <<"all", "buf">>) >>),
            Do(close("fd")), Do(unlink(file)),
            Apply("nc", "countc", <<"all">>), Apply("np", "countp", <<"all">>),
            Holds("nc", Rounds), Holds("np", Rounds), Exit("0") >>

\* NCHILD is 2 here and in createdelete() and manywrites()
fourfiles ==
  For(2, LAMBDA i :
    << Do(unlink(<<Numbered("f", i)>>)),
       Child("pid", << MustSet("fd", open(<<Numbered("f", i)>>, {CREATE, RDWR})) >>
         \o Times(Rounds, << Gives(1, write("fd", <<Numerals[i]>>)) >>) \o << Exit("0") >>) >>)
  \o Times(2, << Do(wait("xst")), If("xst", Just(0), << >>, << Exit("xst") >>) >>)
  \o For(2, LAMBDA i :
    << Set("fd", open(<<Numbered("f", i)>>, { })), Gives(Rounds, read("fd", 8)),
       Holds("buf", [j \in 1..Rounds |-> Numerals[i]]), Gives(0, read("fd", 8)),
       Do(close("fd")), Do(unlink(<<Numbered("f", i)>>)) >>)

\* N = 4: every child removes its file 1
createdelete ==
  LET name(pi, i) == <<Numbered(IF pi = 1 THEN "p" ELSE "q", i)>>
      Both(Body(_, _)) == For(4, LAMBDA i : For(2, LAMBDA pi : Body(pi, i - 1)))
      New(pi, i) == << MustSet("fd", open(name(pi, i), {CREATE, RDWR})), Do(close("fd")) >>
  IN  For(2, LAMBDA pi :
        << Child("pid", New(pi, 0) \o New(pi, 1) \o New(pi, 2)
                        \o << Must(unlink(name(pi, 1))) >> \o New(pi, 3)
                        \o << Exit("0") >>) >>)
      \o Times(2, WaitZero)
      \o Both(LAMBDA pi, i : IF i = 1 THEN << Cannot(open(name(pi, i), { })) >>
                             ELSE << MustSet("fd", open(name(pi, i), { })), Do(close("fd")) >>)
      \o Both(LAMBDA pi, i : << Do(unlink(name(pi, i))) >>)

unlinkread ==
  LET file == <<"unlinkread">>
  IN  << MustSet("fd", open(file, {CREATE, RDWR})), Do(write("fd", <<"h", "e">>)), Do(close("fd")),
         MustSet("fd", open(file, {RDWR})), Gives(0, unlink(file)),
         Set("fd1", open(file, {CREATE, RDWR})), Do(write("fd1", <<"y">>)), Do(close("fd1")),
         Gives(2, read("fd", 8)), Holds("buf", <<"h", "e">>), Gives(2, writev("fd", "buf")),
         Do(close("fd")), Do(unlink(file)) >>

linktest ==
  << Do(unlink(<<"lf1">>)), Do(unlink(<<"lf2">>)), MustSet("fd", open(<<"lf1">>, {CREATE, RDWR})),
     Gives(2, write("fd", <<"h", "e">>)), Do(close("fd")),
     Must(link(<<"lf1">>, <<"lf2">>)), Do(unlink(<<"lf1">>)), Cannot(open(<<"lf1">>, { })),
     MustSet("fd", open(<<"lf2">>, { })), Gives(2, read("fd", 8)), Do(close("fd")),
     Cannot(link(<<"lf2">>, <<"lf2">>)), Do(unlink(<<"lf2">>)),
     Cannot(link(<<"lf2">>, <<"lf1">>)), Cannot(link(<<".">>, <<"lf1">>)) >>

\* N = 7: by i % 3 and i % 5, one of the two or both link to C0
concreate ==
  LET file(i) == <<Numbered("C", i)>>
      New(i) == << MustSet("fd", open(file(i), {CREATE, RDWR})), Do(close("fd")) >>
      Link(i) == << Do(link(file(0), file(i))) >>
      Opens(i) == Times(Rounds, << Set("t", open(file(i), { })), Do(close("t")) >>)
      Unlinks(i) == Times(Rounds, << Do(unlink(file(i))) >>)
      All(Body(_)) == For(7, LAMBDA i : Body(i - 1))
  IN  All(LAMBDA i :
        << Do(unlink(file(i))),
           Set("pid", fork((IF i % 5 = 1 THEN Link(i) ELSE New(i)) \o << Exit("0") >>)) >>
        \o (IF i % 3 = 1 THEN Link(i) ELSE New(i)) \o WaitZero)
      \o << Set("fd", open(<<".">>, { })), Put("all", << >>),
            While(Set("n", read("fd", 1)), Some, << Apply("all", "append", <<"all", "buf">>) >>),
            Do(close("fd")), Apply("n", "Ccount", <<"all">>), Holds("n", 7),
            Apply("fa", "Cfiles", <<"all">>), Holds("fa", {file(i)[1] : i \in 0..6}) >>
      \o All(LAMBDA i :
        << Child("pid", (IF i % 3 = 0 THEN Opens(i) ELSE Unlinks(i)) \o << Exit("0") >>) >>
        \o (IF i % 3 = 1 THEN Opens(i) ELSE Unlinks(i)) \o << Do(wait("_")) >>)

\* x decides which of the three a process does next
linkunlink ==
  LET Any3 == << << Set("t", open(<<"x">>, {RDWR, CREATE})), Do(close("t")) >>,
                 << Do(link(<<"cat">>, <<"x">>)) >>,
                 << Do(unlink(<<"x">>)) >> >>
      Loop == Times(Rounds, << Do(oneof(Any3)) >>)
  IN  << Do(unlink(<<"x">>)), Child("pid", Loop \o << Exit("0") >>) >> \o Loop \o << Do(wait("_")) >>

dd(path) == <<"dd">> \o path
subdir ==
  << Do(unlink(<<"ff">>)), Gives(0, mkdir(dd(<< >>))),
     MustSet("fd", open(dd(<<"ff">>), {CREATE, RDWR})), Do(write("fd", <<"f", "f">>)), Do(close("fd")),
     Cannot(unlink(dd(<< >>))), Gives(0, mkdir(<<"/", "dd", "dd">>)),
     MustSet("fd", open(dd(<<"dd", "ff">>), {CREATE, RDWR})), Do(write("fd", <<"F", "F">>)),
     Do(close("fd")), MustSet("fd", open(dd(<<"dd", "..", "ff">>), { })),
     Gives(2, read("fd", 8)), Holds("buf", <<"f", "f">>), Do(close("fd")),
     Gives(0, link(dd(<<"dd", "ff">>), dd(<<"dd", "ffff">>))), Gives(0, unlink(dd(<<"dd", "ff">>))),
     Cannot(open(dd(<<"dd", "ff">>), { })),
     Gives(0, chdir(dd(<< >>))), Gives(0, chdir(dd(<<"..", "..", "dd">>))),
     Gives(0, chdir(dd(<<"..", "..", "..", "dd">>))), Gives(0, chdir(<<".", "..">>)),
     MustSet("fd", open(dd(<<"dd", "ffff">>), { })), Gives(2, read("fd", 8)), Do(close("fd")),
     Cannot(open(dd(<<"dd", "ff">>), { })) >>
  \o Each(<< <<"ff", "ff">>, <<"xx", "ff">> >>, LAMBDA f : << Cannot(open(dd(f), {CREATE, RDWR})) >>)
  \o Each(<< {CREATE}, {RDWR}, {WRONLY} >>, LAMBDA mode : << Cannot(open(dd(<< >>), mode)) >>)
  \o << Cannot(link(dd(<<"ff", "ff">>), dd(<<"dd", "xx">>))),
        Cannot(link(dd(<<"xx", "ff">>), dd(<<"dd", "xx">>))),
        Cannot(link(dd(<<"ff">>), dd(<<"dd", "ffff">>))) >>
  \o Each(<< <<"ff", "ff">>, <<"xx", "ff">>, <<"dd", "ffff">> >>, LAMBDA f : << Cannot(mkdir(dd(f))) >>)
  \o << Cannot(unlink(dd(<<"xx", "ff">>))), Cannot(unlink(dd(<<"ff", "ff">>))),
        Cannot(chdir(dd(<<"ff">>))), Cannot(chdir(dd(<<"xx">>))),
        Gives(0, unlink(dd(<<"dd", "ffff">>))), Gives(0, unlink(dd(<<"ff">>))),
        Cannot(unlink(dd(<< >>))), Must(unlink(dd(<<"dd">>))), Must(unlink(dd(<< >>))) >>

bigwrite ==
  << Do(unlink(<<"bigwrite">>)) >>
  \o Each(<< 3, 6 >>, LAMBDA sz :
       << MustSet("fd", open(<<"bigwrite">>, {CREATE, RDWR})) >>
       \o Times(2, << Gives(sz, write("fd", SubSeq(Numerals, 1, sz))) >>)
       \o << Do(close("fd")), Do(unlink(<<"bigwrite">>)) >>)

bigfile ==
  LET file == <<"bigfile.dat">>
  IN  << Do(unlink(file)), MustSet("fd", open(file, {CREATE, RDWR})) >>
      \o For(Rounds, LAMBDA i : << Gives(2, write("fd", <<Numerals[i], Numerals[i]>>)) >>)
      \o << Do(close("fd")), MustSet("fd", open(file, { })) >>
      \o For(2 * Rounds, LAMBDA i : << Gives(1, read("fd", 1)),
                                       Holds("buf", <<Numerals[(i + 1) \div 2]>>) >>)
      \o << Gives(0, read("fd", 1)), Do(close("fd")), Do(unlink(file)) >>

\* a name of DIRSIZ characters and one that is longer and agrees with it so far
s14 == "12345678901234"
s15 == "123456789012345"
fourteen ==
  << Gives(0, mkdir(<<s14>>)), Gives(0, mkdir(<<s14, s15>>)),
     MustSet("fd", open(<<s15, s15, s15>>, {CREATE})), Do(close("fd")),
     MustSet("fd", open(<<s14, s14, s14>>, { })), Do(close("fd")),
     Cannot(mkdir(<<s14, s14>>)), Cannot(mkdir(<<s15, s14>>)) >>
  \o Each(<< <<s15, s14>>, <<s14, s14>>, <<s14, s14, s14>>, <<s15, s15, s15>>, <<s14, s15>>, <<s14>> >>,
          LAMBDA path : << Do(unlink(path)) >>)

rmdot ==
  << Gives(0, mkdir(<<"dots">>)), Gives(0, chdir(<<"dots">>)),
     Cannot(unlink(<<".">>)), Cannot(unlink(<<"..">>)), Gives(0, chdir(<<"/">>)),
     Cannot(unlink(<<"dots", ".">>)), Cannot(unlink(<<"dots", "..">>)), Gives(0, unlink(<<"dots">>)) >>

dirfile ==
  LET xx == <<"dirfile", "xx">>
  IN  << MustSet("fd", open(<<"dirfile">>, {CREATE})), Do(close("fd")),
         Cannot(chdir(<<"dirfile">>)), Cannot(open(xx, { })), Cannot(open(xx, {CREATE})),
         Cannot(mkdir(xx)), Cannot(unlink(xx)), Cannot(link(<<"README">>, xx)),
         Gives(0, unlink(<<"dirfile">>)),
         Cannot(open(<<".">>, {RDWR})), Set("fd", open(<<".">>, { })),
         Call("_", Nothing, write("fd", <<"x">>)), Do(close("fd")) >>

iref ==
  Times(NINODE + 1,
    << Gives(0, mkdir(<<"irefd">>)), Gives(0, chdir(<<"irefd">>)),
       Do(mkdir(<< >>)), Do(link(<<"README">>, << >>)),
       Set("fd", open(<< >>, {CREATE})), If("fd", Ok, << Do(close("fd")) >>, << >>),
       Set("fd", open(<<"xx">>, {CREATE})), If("fd", Ok, << Do(close("fd")) >>, << >>),
       Do(unlink(<<"xx">>)) >>)
  \o Times(NINODE + 1, << Do(chdir(<<"..">>)), Do(unlink(<<"irefd">>)) >>)
  \o << Do(chdir(<<"/">>)) >>

forktest == forkmany \o << If("n", Just(0), << Do(complain) >>, << >>) >> \o waitmany

(* Memory.  BIG is larger than a process and TOOMUCH larger than memory. *)
sbrkbasic ==
  << Child("pid", << Set("a", sbrkto("TOOMUCH")), If("a", Fails, << Exit("0") >>, << >>), Exit("1") >>),
     Do(wait("xst")), If("xst", Just(1), << Do(complain) >>, << >>), Set("a", sbrk(0)) >>
  \o Times(PGSIZE + 1,
       << Set("b", sbrk(1)), Apply("d", "minus", <<"b", "a">>), Holds("d", 0), Do(store("b")),
          Apply("a", "inc", <<"b">>) >>)
  \o << MustSet("pid", forkon), Do(sbrk(1)), Set("c", sbrk(1)),
        Apply("d", "minus", <<"c", "a">>), Holds("d", 1),
        If("pid", Just(0), << Exit("0") >>, << >>) >> \o PassOn

sbrkmuch ==
  << Set("oldbrk", sbrk(0)), MustSet("p", sbrkto("BIG")),
     Apply("d", "minus", <<"p", "oldbrk">>), Holds("d", 0), Do(store("p")),
     Set("a", sbrk(0)), Apply("lastaddr", "dec", <<"a">>), Do(store("lastaddr")),
     Must(sbrk(-PGSIZE)), Set("c", sbrk(0)), Apply("d", "minus", <<"a", "c">>), Holds("d", PGSIZE),
     Set("a", sbrk(PGSIZE)), Apply("d", "minus", <<"a", "c">>), Holds("d", 0),
     Set("a", sbrk(0)), Apply("d", "minus", <<"a", "c">>), Holds("d", PGSIZE),
     Gives(0, load("lastaddr")),
     Set("c", sbrkto("oldbrk")), Apply("d", "minus", <<"a", "c">>), Holds("d", 0) >>

\* a child that does what the kernel must kill it for
Killed(i) == << Child("pid", << Do(i), Do(complain) >>), Do(wait("xst")), Holds("xst", -1) >>
kernmem == Killed(load("KERNBASE"))
MAXVAplus == Each(<<"MAXVA", "TOP">>, LAMBDA a : Killed(store(a)))
nowrite == Each(WildOrText, LAMBDA a : Killed(store(a))) \o << Exit("0") >>
stacktest == Killed(load("BELOWSP")) \o << Exit("0") >>

sbrkfail ==
  LET pid(i) == Numbered("pid", i)
  IN  << Gives(0, pipe("r", "w")) >>
      \o For(2, LAMBDA i :
           << Set(pid(i), fork(<< Do(sbrkto("BIG")), Do(write("w", <<"x">>)), Do(spin) >>)),
              If(pid(i), Ok, << Do(read("r", 1)) >>, << >>) >>)
      \o << Set("c", sbrk(PGSIZE)) >>
      \o For(2, LAMBDA i : << If(pid(i), Ok, << Do(kill(pid(i))), Do(wait("_")) >>, << >>) >>)
      \o << If("c", Fails, << Do(complain) >>, << >>) >>
      \o << Child("pid", << Set("a", sbrk(0)), Do(sbrkto("TOOMUCH")), Do(load("a")), Do(complain) >>),
            Do(wait("xst")), If("xst", Just(2), << >>, << Holds("xst", -1) >>) >>

sbrkarg ==
  << Set("a", sbrk(PGSIZE)), Set("fd", open(<<"sbrk">>, {CREATE, WRONLY})), Do(unlink(<<"sbrk">>)),
     If("fd", Fails, << Do(complain) >>, << >>), Must(writeAt("fd", "a", PGSIZE)), Do(close("fd")),
     Set("a", sbrk(PGSIZE)), Gives(0, pipeAt("a")) >>

validatetest ==
  Each(<<"0", "DATA", "BELOWSP", "KERNBASE">>, LAMBDA p : << Cannot(link(<<"nosuchfile">>, At(p))) >>)
bsstest == << Gives(0, load("DATA")) >>

bigargtest ==
  << Do(unlink(<<"bigarg-ok">>)),
     Child("pid", << Do(exec(<<"echo">>, [i \in 1..4 |-> LargeArg])),
                     Set("fd", open(<<"bigarg-ok">>, {CREATE})), Do(close("fd")), Exit("0") >>),
     Do(wait("xst")), If("xst", Just(0), << >>, << Exit("xst") >>),
     MustSet("fd", open(<<"bigarg-ok">>, { })), Do(close("fd")) >>

argptest ==
  << MustSet("fd", open(<<"init">>, { })), Set("a", sbrk(0)), Apply("a", "dec", <<"a">>),
     Do(readAt("fd", "a", -1)), Do(close("fd")) >>
pgbug == << Do(exec(At("TOP"), << >>)), Do(pipeAt("TOP")), Exit("0") >>

sbrkbugs ==
  Each(<< << Do(sbrkto("0")), Exit("0") >>,
          << Do(sbrkto("3")), Exit("0") >>,
          << Do(sbrkto("MIDPAGE")), Do(sbrk(-1)), Exit("0") >> >>,
       LAMBDA child : << Child("pid", child), Do(wait("_")) >>) \o << Exit("0") >>

sbrklast ==
  << Set("top", sbrk(0)), Apply("top", "pageup", <<"top">>), Do(sbrkto("top")),
     Do(sbrk(PGSIZE)), Do(sbrk(1)), Do(sbrk(-2)),
     Set("top", sbrk(0)), Apply("p", "dec", <<"top">>), Do(store("p")),
     Set("fd", open(At("p"), {RDWR, CREATE})), Do(writeAt("fd", "p", 1)), Do(close("fd")),
     Set("fd", open(At("p"), {RDWR})), Do(clear("p")), Do(readAt("fd", "p", 1)), Gives(1, load("p")) >>
\* an amount whose sum with the size of the process wraps around
sbrk8000 ==
  << Do(sbrk(-(WRAP \div 2))), Set("top", sbrk(0)), Apply("a", "dec", <<"top">>), Do(load("a")), Do(store("a")) >>
badarg == Times(Rounds, << Do(exec(<<"echo">>, <<BadArg>>)) >>) \o << Exit("0") >>

(* The slow tests *)
bigdir ==
  << Do(unlink(<<"bd">>)), MustSet("fd", open(<<"bd">>, {CREATE})), Do(close("fd")) >>
  \o For(4, LAMBDA i : << Gives(0, link(<<"bd">>, <<Numbered("x", i)>>)) >>)
  \o << Do(unlink(<<"bd">>)) >>
  \o For(4, LAMBDA i : << Gives(0, unlink(<<Numbered("x", i)>>)) >>)

manywrites ==
  For(2, LAMBDA ci : << Child("pid",
       << Do(unlink(<<Numbered("b", ci)>>)) >>
       \o Times(Rounds,
            Times(ci, << MustSet("fd", open(<<Numbered("b", ci)>>, {CREATE, RDWR})),
                         Gives(3, write("fd", <<"m", "m", "m">>)), Do(close("fd")) >>)
            \o << Do(unlink(<<Numbered("b", ci)>>)) >>)
       \o << Do(unlink(<<Numbered("b", ci)>>)), Exit("0") >>) >>)
  \o Times(2, << Do(wait("st")), If("st", Just(0), << >>, << Exit("st") >>) >>) \o << Exit("0") >>

\* more rounds than there are free blocks
badwrite ==
  LET junk == <<"junk">>
  IN  << Do(unlink(junk)) >>
      \o Times(FREEBLOCKS,
           << MustSet("fd", open(junk, {CREATE, WRONLY})), Do(writeAt("fd", "TOP", 1)), Do(close("fd")),
              Do(unlink(junk)) >>)
      \o << MustSet("fd", open(junk, {CREATE, WRONLY})), Gives(1, write("fd", <<"x">>)), Do(close("fd")),
            Do(unlink(junk)), Exit("0") >>

TakeAll == While(Set("a", sbrk(PGSIZE)), Ok, << Apply("a", "lastof", <<"a">>), Do(store("a")) >>)
\* avail takes the values around what exec() needs
execout ==
  Each(<< 0, 1, 4, 5, 6, 7 >>, LAMBDA avail :
    << Child("pid", << TakeAll >> \o Times(avail, << Do(sbrk(-PGSIZE)) >>)
                    \o << Do(close("1")), Do(exec(<<"echo">>, <<"echo", "x">>)), Exit("0") >>),
       Do(wait("_")) >>) \o << Exit("0") >>

\* nzz files are opened and closed, until one cannot be created
Zz(i) == <<Numbered("zz", i)>>
CreateUntil(nzz) ==
  LET From[i \in 1..nzz + 1] ==
        IF i > nzz THEN << >>
        ELSE << Do(unlink(Zz(i))), Set("fd", open(Zz(i), {CREATE, RDWR, TRUNC})),
                If("fd", Fails, << >>, << Do(close("fd")) >> \o From[i + 1]) >>
  IN  From[1]
UnlinkZz(nzz) == For(nzz, LAMBDA i : << Do(unlink(Zz(i))) >>)

diskfull ==
  LET big(i) == <<Numbered("big", i)>>
      \* fills file i, then the next unless the disk is full
      Fill[i \in 1..3] ==
        IF i > 2 THEN << >>
        ELSE << Do(unlink(big(i))), MustSet("fd", open(big(i), {CREATE, RDWR, TRUNC})),
                While(Set("n", write("fd", <<"z">>)), Some, << >>), Do(close("fd")) >> \o Fill[i + 1]
  IN  << Do(unlink(<<"diskfulldir">>)) >> \o Fill[1] \o CreateUntil(3)
      \o << Cannot(mkdir(<<"diskfulldir">>)), Do(unlink(<<"diskfulldir">>)) >>
      \o UnlinkZz(3) \o For(2, LAMBDA i : << Do(unlink(big(i))) >>)

outofinodes == CreateUntil(NINODES) \o UnlinkZz(NINODES)

(* The driver *)
T(f, s) == [f |-> f, s |-> s]
quicktests ==
  << T(copyin, "copyin"), T(copyout, "copyout"), T(copyinstr1, "copyinstr1"), T(copyinstr2, "copyinstr2"),
     T(copyinstr3, "copyinstr3"), T(rwsbrk, "rwsbrk"), T(truncate1, "truncate1"),
     T(truncate2, "truncate2"), T(truncate3, "truncate3"), T(openiputtest, "openiput"),
     T(exitiputtest, "exitiput"), T(iputtest, "iput"), T(opentest, "opentest"),
     T(writetest, "writetest"), T(writebig, "writebig"), T(createtest, "createtest"),
     T(dirtest, "dirtest"), T(exectest, "exectest"), T(pipe1, "pipe1"), T(killstatus, "killstatus"),
     T(preempt, "preempt"), T(exitwait, "exitwait"), T(reparent, "reparent"),
     T(twochildren, "twochildren"), T(forkfork, "forkfork"), T(forkforkfork, "forkforkfork"),
     T(reparent2, "reparent2"), T(mem, "mem"), T(sharedfd, "sharedfd"), T(fourfiles, "fourfiles"),
     T(createdelete, "createdelete"), T(unlinkread, "unlinkread"), T(linktest, "linktest"),
     T(concreate, "concreate"), T(linkunlink, "linkunlink"), T(subdir, "subdir"),
     T(bigwrite, "bigwrite"), T(bigfile, "bigfile"), T(fourteen, "fourteen"), T(rmdot, "rmdot"),
     T(dirfile, "dirfile"), T(iref, "iref"), T(forktest, "forktest"), T(sbrkbasic, "sbrkbasic"),
     T(sbrkmuch, "sbrkmuch"), T(kernmem, "kernmem"), T(MAXVAplus, "MAXVAplus"),
     T(sbrkfail, "sbrkfail"), T(sbrkarg, "sbrkarg"), T(validatetest, "validatetest"),
     T(bsstest, "bsstest"), T(bigargtest, "bigargtest"), T(argptest, "argptest"),
     T(stacktest, "stacktest"), T(nowrite, "nowrite"), T(pgbug, "pgbug"), T(sbrkbugs, "sbrkbugs"),
     T(sbrklast, "sbrklast"), T(sbrk8000, "sbrk8000"), T(badarg, "badarg") >>
slowtests ==
  << T(bigdir, "bigdir"), T(manywrites, "manywrites"), T(badwrite, "badwrite"), T(execout, "execout"),
     T(diskfull, "diskfull"), T(outofinodes, "outofinodes") >>

run(f) ==
  << MustSet("pid", fork(f \o << Exit("0") >>)), Do(wait("xst")),
     If("xst", Just(0), << >>, << Exit("1") >>) >>
runtests(tests, justone) == Each(tests, LAMBDA t : IF justone \in {"", t.s} THEN run(t.f) ELSE << >>)

countfree(n) ==
  << Set("ok", pipe("r", "w")), If("ok", Fails, << Exit("1") >>, << >>),
     Set("pid", fork(<< Do(close("r")),
                        While(Set("a", sbrk(PGSIZE)), Ok,
                              << Apply("a", "lastof", <<"a">>), Do(store("a")),
                                 Gives(1, write("w", <<"x">>)) >>), Exit("0") >>)),
     If("pid", Fails, << Exit("1") >>, << >>),
     Do(close("w")), Put(n, 0),
     While(MustSet("cc", read("r", 1)), Some, << Apply(n, "inc", <<n>>) >>),
     Do(close("r")), Do(wait("_")) >>

\* continuous = 0.  That pages or slots are missing is only reported: processes
\* a test has left behind may still run, or have to be collected by init, and
\* only the time the tests sleep makes that unlikely.
drivetests(quick, justone) ==
  countfree("free0") \o runtests(quicktests, justone)
  \o (IF quick THEN << >> ELSE runtests(slowtests, justone))
  \o countfree("free1")
  \o << Apply("d", "less", <<"free1", "free0">>), If("d", Just(1), << Exit("1") >>, << >>) >>

\* -c repeats the tests for ever; so does -C, which differs only after a test
\* that fails (not modelled).  No test has a name that starts with "-".
usertestsmain(argv) ==
  LET tests == {t.s : t \in ToSet(quicktests \o slowtests)}
  IN  CASE Len(argv) = 1 -> drivetests(FALSE, "") \o << Exit("0") >>
        [] Len(argv) = 2 /\ argv[2] = "-q" -> drivetests(TRUE, "") \o << Exit("0") >>
        [] Len(argv) = 2 /\ argv[2] = "-c" -> << Forever(drivetests(FALSE, "")) >>
        [] Len(argv) = 2 /\ argv[2] \in tests -> drivetests(FALSE, argv[2]) \o << Exit("0") >>
        [] OTHER -> << Exit("1") >>
=============================================================================
