----------------------------- MODULE MCPrograms -----------------------------
EXTENDS Syscalls

File(name, data) == [name |-> name, data |-> data]
Elf(name) == File(name, <<"ELF", name>>)
Disk(names) == << File("README", <<"r", "e">>), Elf("sh") >> \o [i \in 1..Len(names) |-> Elf(names[i])]
NoFiles == [x \in { } |-> << >>]
Job(lines, names, nproc, npages, leaves) ==
  [lines |-> lines, nproc |-> nproc, npages |-> npages, files |-> Disk(names), leaves |-> leaves]

\* Every test, each on a machine of its own
TestJob(t) ==
  LET nproc == CASE t = "forkfork" -> 9 [] t = "forkforkfork" -> 6 [] OTHER -> 7
  IN  Job(<< <<"usertests", t>> >>, <<"cat", "echo", "init", "usertests">>, nproc, 5 * nproc + 1, NoFiles)
TestJobs == {TestJob(t.s) : t \in ToSet(quicktests \o slowtests)}

\* Redirections, pipelines, lists, background commands, and lines that do not parse
ShellJobs ==
  { Job(<< <<"echo", "a", "b", ">", "f", ";", "cat", "f", "|", "wc", ">", "g">>, <<"echo", ">">> >>,
        <<"cat", "echo", "wc">>, 7, 42,
        ("f" :> <<"a", " ", "b", "\n">>) @@ ("g" :> <<"1", "2", "4">>)),
    Job(<< <<"(", "echo", "x", ";", "echo", "y", ")", ">", "f">>, <<"grep", "x", "f", ">", "g">>,
           <<"echo", "z", ">>", "f">> >>,
        <<"grep", "echo">>, 6, 42, ("f" :> <<"z", "\n", "y", "\n">>) @@ ("g" :> <<"x", "\n">>)),
    Job(<< <<"mkdir", "d">>, <<"ln", "README", "e">>, <<"cd", "d">>, <<"rm", "e">>, <<"cd", "..">>, <<"^D">>,
           <<"cat", ">", "g">>, <<"h", "\n">>, <<"^D">>, <<"ls", ">", "l">> >>,
        <<"mkdir", "ln", "rm", "cat", "ls">>, 6, 42, "g" :> <<"h", "\n">>),
    Job(<< <<"zombie", "&">>, <<"zombie">> >>, <<"zombie">>, 8, 42, NoFiles),
    Job(<< <<"stressfs">> >>, <<"stressfs">>, 8, 42, "stressfs0" :> <<"a", "a">>),
    Job(<< <<"forktest">>, <<"kill", "7">>, <<"cat", "nofile", "|", "cat">> >>,
        <<"forktest", "kill", "cat">>, 7, 42, NoFiles) }
MCPatterns == "x" :> <<"^", "x", "*", "$">>

\* grind without the alternatives that fork more than one process
GrindJob == Job(<< <<"grind">> >>, <<"grind", "echo", "cat">>, 8, 42, NoFiles)
MCWhatA == [i \in 1..14 |-> i] \o <<16, 17, 18, 19, 21, 22>>
MCWhatB == <<4, 6, 10, 13>>

MCJobs == TestJobs \cup ShellJobs \cup {GrindJob}
=============================================================================
