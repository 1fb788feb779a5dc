------------------------------ MODULE FileTree ------------------------------
(***************************************************************************)
(* The inode table, directories and path names (fs.c) under the system     *)
(* calls that change the tree: open, mkdir, link, unlink, chdir and close  *)
(* (sysfile.c, file.c), run by several processes, with crashes.            *)
(*                                                                         *)
(* dinode is what the file system's blocks say, through the buffer cache;  *)
(* durable is what the log has committed: end_op() commits when the last   *)
(* call leaves.  A directory is what its entries say: the names, and "..". *)
(* File content, sizes and block addresses are those of module FileBlocks. *)
(*                                                                         *)
(* A step runs from one acquisition of an inode's sleep lock, or of        *)
(* itable.lock, to the next: releasing a lock ends the step before it.     *)
(* iput() is a subroutine: its argument is arg, and k is where it returns. *)
(***************************************************************************)
EXTENDS Naturals, Sequences, FiniteSets, TLC

CONSTANTS Proc, Name,
          ninodes,      \* inodes on disk, the root being number 1
          NINODE,       \* entries of the inode table
          Calls,        \* the system calls made: op, path, and new for link()
          MaxCrash,
          NoProc

Inum == 1 .. ninodes
Slot == 1 .. NINODE
ROOTINO == 1

VARIABLES dinode, durable,      \* type, nlink and entries on disk
          inode,                \* the table: inum, ref, valid, type, nlink
          lock,                 \* the sleep lock of each entry
          st,                   \* each process: its call and where it is in it
          cwd, file,            \* its directory and its open file
          tx,                   \* the processes in a transaction
          crashes, panicked,
          astray                \* history: a removed directory was worked in

vars == <<dinode, durable, inode, lock, st, cwd, file, tx, crashes, panicked, astray>>

Elem == Name \cup {".."}
NoNode == [type |-> "none", nlink |-> 0, ents |-> [n \in Name |-> 0], up |-> 0]
Empty == [inum |-> 0, ref |-> 0, valid |-> FALSE, type |-> "none", nlink |-> 0]
Idle == [pc |-> "idle", op |-> "none", rest |-> <<>>, new |-> <<>>, name |-> "..",
         cur |-> 0, ip |-> 0, dp |-> 0, arg |-> 0, k |-> "idle"]

Node == [type : {"none", "file", "dir"}, nlink : 0 .. ninodes + Cardinality(Proc) + 1,
         ents : [Name -> {0} \cup Inum], up : {0} \cup Inum]

TypeOK ==
    /\ dinode \in [Inum -> Node] /\ durable \in [Inum -> Node]
    /\ \A s \in Slot : /\ inode[s].inum \in {0} \cup Inum /\ inode[s].ref \in Nat
                       /\ inode[s].valid \in BOOLEAN
    /\ lock \in [Slot -> Proc \cup {NoProc}]
    /\ cwd \in [Proc -> Slot] /\ file \in [Proc -> {0} \cup Slot]
    /\ tx \subseteq Proc /\ crashes \in 0 .. MaxCrash
    /\ panicked \in BOOLEAN /\ astray \in BOOLEAN
    /\ \A p \in Proc : st[p].pc = "idle" <=> p \notin tx

\* What mkfs writes: an empty root.
Mkfs == [i \in Inum |-> IF i = ROOTINO
                        THEN [NoNode EXCEPT !.type = "dir", !.nlink = 1, !.up = ROOTINO]
                        ELSE NoNode]

\* Every process starts in the root, as the children of init do.
Booted ==
    /\ inode = [s \in Slot |-> IF s = 1 THEN [Empty EXCEPT !.inum = ROOTINO, !.ref = Cardinality(Proc)]
                               ELSE Empty]
    /\ lock = [s \in Slot |-> NoProc]
    /\ st = [p \in Proc |-> Idle]
    /\ cwd = [p \in Proc |-> 1] /\ file = [p \in Proc |-> 0]
    /\ tx = {}

Init ==
    /\ dinode = Mkfs /\ durable = Mkfs /\ Booted
    /\ crashes = 0 /\ panicked = FALSE /\ astray = FALSE

-----------------------------------------------------------------------------
(* Helpers *)

\* A process goes on with some of its fields changed.
Go(p, r) == st' = [st EXCEPT ![p] = r @@ @]

Panic == panicked' = TRUE /\ UNCHANGED <<dinode, durable, inode, lock, st, cwd, file, tx, crashes>>

Least(S) == CHOOSE x \in S : \A y \in S : x <= y

\* iget(): the entry of inode i in table t, or an empty one, or 0 for a panic.
iget(t, i) ==
    LET hit == {s \in Slot : t[s].ref > 0 /\ t[s].inum = i}
        empty == {s \in Slot : t[s].ref = 0}
    IN  IF hit # {} THEN Least(hit) ELSE IF empty # {} THEN Least(empty) ELSE 0

\* ... and the table then.
Referenced(t, i) ==
    LET s == iget(t, i)
    IN  [t EXCEPT ![s] = IF @.ref > 0 THEN [@ EXCEPT !.ref = @ + 1]
                         ELSE [Empty EXCEPT !.inum = i, !.ref = 1]]

\* ref--.  What an entry without references holds is not used again.
Unreferenced(s) ==
    [inode EXCEPT ![s] = IF @.ref = 1 THEN Empty ELSE [@ EXCEPT !.ref = @ - 1]]

\* The table once ilock() has read entry s from the disk, if it had to.
Loaded(s) ==
    IF inode[s].valid THEN inode
    ELSE [inode EXCEPT ![s].valid = TRUE, ![s].type = dinode[inode[s].inum].type,
                       ![s].nlink = dinode[inode[s].inum].nlink]

\* ilock() can have entry s ...
Lockable(s) == lock[s] = NoProc
\* ... and does not panic.
Good(s) == inode[s].ref > 0 /\ Loaded(s)[s].type # "none"

Inode(s) == dinode[inode[s].inum]
dirlookup(s, n) == IF n = ".." THEN Inode(s).up ELSE Inode(s).ents[n]
isdirempty(s) == \A n \in Name : Inode(s).ents[n] = 0

Parent(p) == st[p].op \in {"create", "mkdir", "unlink", "link2"}
Bad(p) == IF st[p].op = "link2" THEN "link_bad" ELSE "end"
Put(s, then) == [pc |-> "iput", arg |-> s, k |-> then]

-----------------------------------------------------------------------------
(* iput() *)

\* Under itable.lock: to free the inode, its sleep lock is taken.  Had that to
\* wait, sched() would panic, for itable.lock is held.
iput(p) ==
    /\ st[p].pc = "iput"
    /\ LET s == st[p].arg IN
       IF inode[s].ref = 1 /\ inode[s].valid /\ inode[s].nlink = 0
       THEN IF lock[s] # NoProc THEN Panic
            ELSE /\ lock' = [lock EXCEPT ![s] = p]
                 /\ Go(p, [pc |-> "itrunc"])
                 /\ UNCHANGED <<dinode, durable, inode, cwd, file, tx, crashes, panicked>>
       ELSE /\ inode' = Unreferenced(s)
            /\ Go(p, [pc |-> st[p].k, arg |-> 0, k |-> "idle"])
            /\ UNCHANGED <<dinode, durable, lock, cwd, file, tx, crashes, panicked>>

\* itrunc(), type = 0, iupdate().
iputFree(p) ==
    /\ st[p].pc = "itrunc"
    /\ dinode' = [dinode EXCEPT ![inode[st[p].arg].inum] = NoNode]
    /\ inode' = [inode EXCEPT ![st[p].arg].type = "none"]
    /\ Go(p, [pc |-> "invalid"])
    /\ UNCHANGED <<durable, lock, cwd, file, tx, crashes, panicked>>

iputInvalidKept(p) ==                                           \* mutant
    /\ st[p].pc = "invalid"
    /\ lock' = [lock EXCEPT ![st[p].arg] = NoProc]
    /\ Go(p, [pc |-> "unref"])
    /\ UNCHANGED <<dinode, durable, inode, cwd, file, tx, crashes, panicked>>
\* valid = 0, releasesleep().
iputInvalid(p) ==
    /\ st[p].pc = "invalid"
    /\ inode' = [inode EXCEPT ![st[p].arg].valid = FALSE]
    /\ lock' = [lock EXCEPT ![st[p].arg] = NoProc]
    /\ Go(p, [pc |-> "unref"])
    /\ UNCHANGED <<dinode, durable, cwd, file, tx, crashes, panicked>>

iputUnref(p) ==
    /\ st[p].pc = "unref"
    /\ inode' = Unreferenced(st[p].arg)
    /\ Go(p, [pc |-> st[p].k, arg |-> 0, k |-> "idle"])
    /\ UNCHANGED <<dinode, durable, lock, cwd, file, tx, crashes, panicked>>

-----------------------------------------------------------------------------
(* Calls and transactions *)

\* begin_op() and the start of namex(): from the root, or from cwd.
Enter(p, o, path, new) ==
    LET s == IF path.abs THEN iget(inode, ROOTINO) ELSE cwd[p] IN
    /\ st[p].pc = "idle"
    /\ tx' = tx \cup {p}
    /\ IF s = 0 THEN panicked' = TRUE /\ UNCHANGED <<inode, st>>
       ELSE /\ inode' = IF path.abs THEN Referenced(inode, ROOTINO)
                        ELSE [inode EXCEPT ![s].ref = @ + 1]
            /\ Go(p, [pc |-> "walk", op |-> o, rest |-> path.elems, new |-> new, cur |-> s])
            /\ UNCHANGED panicked
    /\ UNCHANGED <<dinode, durable, lock, cwd, file, crashes>>

Call(p) ==
    \E c \in Calls : /\ c.op \in {"open", "create"} => file[p] = 0
                     /\ Enter(p, c.op, c.path, c.new)

\* fileclose() of the last reference to an open file.
Close(p) ==
    /\ st[p].pc = "idle" /\ file[p] # 0
    /\ tx' = tx \cup {p}
    /\ Go(p, [op |-> "close"] @@ Put(file[p], "end"))
    /\ file' = [file EXCEPT ![p] = 0]
    /\ UNCHANGED <<dinode, durable, inode, lock, cwd, crashes, panicked>>

EndOpEager(p) ==                                                \* mutant
    /\ st[p].pc = "end"
    /\ tx' = tx \ {p}
    /\ durable' = dinode
    /\ Go(p, Idle)
    /\ cwd' = IF st[p].op = "chdir" /\ st[p].ip # 0 THEN [cwd EXCEPT ![p] = st[p].ip] ELSE cwd
    /\ UNCHANGED <<dinode, inode, lock, file, crashes, panicked>>
\* end_op(): the last one out commits for all.  chdir() then changes cwd.
EndOp(p) ==
    /\ st[p].pc = "end"
    /\ tx' = tx \ {p}
    /\ durable' = IF tx = {p} THEN dinode ELSE durable
    /\ Go(p, Idle)
    /\ cwd' = IF st[p].op = "chdir" /\ st[p].ip # 0 THEN [cwd EXCEPT ![p] = st[p].ip] ELSE cwd
    /\ UNCHANGED <<dinode, inode, lock, file, crashes, panicked>>

\* Power fails: what is committed is all that is left, and it is mounted again.
Crash ==
    /\ crashes < MaxCrash
    /\ crashes' = crashes + 1
    /\ dinode' = durable /\ UNCHANGED <<durable, panicked>>
    /\ inode' = [s \in Slot |-> IF s = 1 THEN [Empty EXCEPT !.inum = ROOTINO, !.ref = Cardinality(Proc)]
                                ELSE Empty]
    /\ lock' = [s \in Slot |-> NoProc]
    /\ st' = [p \in Proc |-> Idle]
    /\ cwd' = [p \in Proc |-> 1] /\ file' = [p \in Proc |-> 0]
    /\ tx' = {}

-----------------------------------------------------------------------------
(* namex() *)

\* No element is left.
WalkEnd(p) ==
    /\ st[p].pc = "walk" /\ st[p].rest = <<>>
    /\ Go(p, IF Parent(p) THEN [cur |-> 0] @@ Put(st[p].cur, Bad(p))
             ELSE [pc |-> "found", ip |-> st[p].cur, cur |-> 0])
    /\ UNCHANGED <<dinode, durable, inode, lock, cwd, file, tx, crashes, panicked>>

\* ilock(), dirlookup() of one element, iunlock(); then iput().
WalkStep(p) ==
    LET s == st[p].cur
        t == Loaded(s)
        n == Head(st[p].rest)
        i == dirlookup(s, n)
        drop == [cur |-> 0, rest |-> <<>>] @@ Put(s, Bad(p))
    IN
    /\ st[p].pc = "walk" /\ st[p].rest # <<>> /\ Lockable(s)
    /\ IF ~Good(s) THEN Panic
       ELSE /\ CASE t[s].type # "dir" -> inode' = t /\ Go(p, drop) /\ UNCHANGED panicked
                 [] t[s].type = "dir" /\ Parent(p) /\ Len(st[p].rest) = 1 ->
                       /\ inode' = t /\ UNCHANGED panicked
                       /\ Go(p, [pc |-> "parent", dp |-> s, cur |-> 0, rest |-> <<>>, name |-> n])
                 [] OTHER ->
                       IF i = 0 THEN inode' = t /\ Go(p, drop) /\ UNCHANGED panicked
                       ELSE IF iget(t, i) = 0 THEN inode' = t /\ panicked' = TRUE /\ UNCHANGED st
                       ELSE /\ inode' = Referenced(t, i) /\ UNCHANGED panicked
                            /\ Go(p, [cur |-> iget(t, i), rest |-> Tail(st[p].rest)] @@ Put(s, "walk"))
            /\ UNCHANGED <<dinode, durable, lock, cwd, file, tx, crashes>>

-----------------------------------------------------------------------------
(* open() of an existing file, and chdir() *)

OpenFound(p) ==
    LET s == st[p].ip
        t == Loaded(s)
    IN
    /\ st[p].pc = "found" /\ st[p].op = "open" /\ Lockable(s)
    /\ IF ~Good(s) THEN Panic
       ELSE /\ inode' = t
            /\ \/ file' = [file EXCEPT ![p] = s] /\ Go(p, [pc |-> "end", ip |-> 0])
               \/ \* a directory, to be written, or no file structure is left
                  UNCHANGED file /\ Go(p, [ip |-> 0] @@ Put(s, "end"))
            /\ UNCHANGED <<dinode, durable, lock, cwd, tx, crashes, panicked>>

ChdirFound(p) ==
    LET s == st[p].ip
        t == Loaded(s)
    IN
    /\ st[p].pc = "found" /\ st[p].op = "chdir" /\ Lockable(s)
    /\ IF ~Good(s) THEN Panic
       ELSE /\ inode' = t
            /\ Go(p, IF t[s].type = "dir" THEN Put(cwd[p], "end")
                     ELSE [ip |-> 0] @@ Put(s, "end"))
            /\ UNCHANGED <<dinode, durable, lock, cwd, file, tx, crashes, panicked>>

-----------------------------------------------------------------------------
(* link() *)

LinkFound(p) ==
    LET s == st[p].ip
        t == Loaded(s)
    IN
    /\ st[p].pc = "found" /\ st[p].op = "link" /\ Lockable(s)
    /\ IF ~Good(s) THEN Panic
       ELSE IF t[s].type = "dir"
       THEN /\ inode' = t /\ Go(p, [ip |-> 0] @@ Put(s, "end"))
            /\ UNCHANGED <<dinode, durable, lock, cwd, file, tx, crashes, panicked>>
       ELSE /\ inode' = [t EXCEPT ![s].nlink = @ + 1]
            /\ dinode' = [dinode EXCEPT ![t[s].inum].nlink = t[s].nlink + 1]
            /\ Go(p, [pc |-> "link_walk"])
            /\ UNCHANGED <<durable, lock, cwd, file, tx, crashes, panicked>>

\* nameiparent(new) begins.
LinkWalk(p) ==
    LET path == st[p].new[1]
        s == IF path.abs THEN iget(inode, ROOTINO) ELSE cwd[p]
    IN
    /\ st[p].pc = "link_walk"
    /\ IF s = 0 THEN panicked' = TRUE /\ UNCHANGED <<inode, st>>
       ELSE /\ inode' = IF path.abs THEN Referenced(inode, ROOTINO)
                        ELSE [inode EXCEPT ![s].ref = @ + 1]
            /\ Go(p, [pc |-> "walk", op |-> "link2", rest |-> path.elems, new |-> <<>>, cur |-> s])
            /\ UNCHANGED panicked
    /\ UNCHANGED <<dinode, durable, lock, cwd, file, tx, crashes>>

\* dirlink(dp, name, ip->inum).  It fails when the name is there, after iget()
\* and iput() of what it names with dp locked, or when the disk is full.
LinkParent(p) ==
    LET s == st[p].dp
        t == Loaded(s)
        i == dirlookup(s, st[p].name)
    IN
    /\ st[p].pc = "parent" /\ st[p].op = "link2" /\ Lockable(s)
    /\ IF ~Good(s) THEN Panic
       ELSE IF i # 0
       THEN IF iget(t, i) = 0 THEN Panic
            ELSE /\ inode' = Referenced(t, i)
                 /\ lock' = [lock EXCEPT ![s] = p]
                 /\ Go(p, Put(iget(t, i), "bad_dp"))
                 /\ UNCHANGED <<dinode, durable, cwd, file, tx, crashes, panicked>>
       ELSE /\ inode' = t
            /\ \/ /\ dinode' = [dinode EXCEPT ![t[s].inum].ents[st[p].name] = inode[st[p].ip].inum]
                  /\ Go(p, [dp |-> 0] @@ Put(s, "put_ip"))
               \/ UNCHANGED dinode /\ Go(p, [dp |-> 0] @@ Put(s, "link_bad"))
            /\ UNCHANGED <<durable, lock, cwd, file, tx, crashes, panicked>>

\* bad: the link count goes back.
LinkBad(p) ==
    LET s == st[p].ip
        t == Loaded(s)
    IN
    /\ st[p].pc = "link_bad" /\ Lockable(s)
    /\ IF ~Good(s) THEN Panic
       ELSE /\ inode' = [t EXCEPT ![s].nlink = @ - 1]
            /\ dinode' = [dinode EXCEPT ![t[s].inum].nlink = t[s].nlink - 1]
            /\ Go(p, [ip |-> 0] @@ Put(s, "end"))
            /\ UNCHANGED <<durable, lock, cwd, file, tx, crashes, panicked>>

\* iput(ip) at the end of a call.
PutIp(p) ==
    /\ st[p].pc = "put_ip"
    /\ Go(p, [ip |-> 0] @@ Put(st[p].ip, "end"))
    /\ UNCHANGED <<dinode, durable, inode, lock, cwd, file, tx, crashes, panicked>>

\* iunlockput(dp) on a way out.
BadDp(p) ==
    /\ st[p].pc = "bad_dp"
    /\ lock' = [lock EXCEPT ![st[p].dp] = NoProc]
    /\ Go(p, [dp |-> 0] @@ Put(st[p].dp, Bad(p)))
    /\ UNCHANGED <<dinode, durable, inode, cwd, file, tx, crashes, panicked>>

-----------------------------------------------------------------------------
(* unlink() *)

\* dp stays locked from here to UnlinkIp.
UnlinkParent(p) ==
    LET s == st[p].dp
        t == Loaded(s)
        i == dirlookup(s, st[p].name)
    IN
    /\ st[p].pc = "parent" /\ st[p].op = "unlink" /\ Lockable(s)
    /\ IF ~Good(s) THEN Panic
       ELSE IF st[p].name = ".." \/ i = 0
       THEN /\ inode' = t /\ Go(p, [dp |-> 0] @@ Put(s, "end"))
            /\ UNCHANGED <<dinode, durable, lock, cwd, file, tx, crashes, panicked>>
       ELSE IF iget(t, i) = 0 THEN Panic
       ELSE /\ inode' = Referenced(t, i)
            /\ lock' = [lock EXCEPT ![s] = p]
            /\ Go(p, [pc |-> "unlink_ip", ip |-> iget(t, i)])
            /\ UNCHANGED <<dinode, durable, cwd, file, tx, crashes, panicked>>

\* The entry goes, dp is unlocked and put; ip stays locked.
UnlinkIp(p) ==
    LET s == st[p].ip
        d == st[p].dp
        t == Loaded(s)
        dir == t[s].type = "dir"
    IN
    /\ st[p].pc = "unlink_ip" /\ Lockable(s)
    /\ IF ~Good(s) \/ t[s].nlink < 1 THEN Panic
       ELSE IF dir /\ ~isdirempty(s)
       THEN /\ inode' = t /\ Go(p, [ip |-> 0] @@ Put(s, "bad_dp"))
            /\ UNCHANGED <<dinode, durable, lock, cwd, file, tx, crashes, panicked>>
       ELSE /\ inode' = [t EXCEPT ![d].nlink = IF dir THEN @ - 1 ELSE @]
            /\ dinode' = [dinode EXCEPT ![inode[d].inum].ents[st[p].name] = 0,
                                        ![inode[d].inum].nlink = IF dir THEN inode[d].nlink - 1 ELSE @]
            /\ lock' = [lock EXCEPT ![s] = p, ![d] = NoProc]
            /\ Go(p, [dp |-> 0] @@ Put(d, "unlink_end"))
            /\ UNCHANGED <<durable, cwd, file, tx, crashes, panicked>>

UnlinkEnd(p) ==
    LET s == st[p].ip IN
    /\ st[p].pc = "unlink_end"
    /\ inode' = [inode EXCEPT ![s].nlink = @ - 1]
    /\ dinode' = [dinode EXCEPT ![inode[s].inum].nlink = inode[s].nlink - 1]
    /\ lock' = [lock EXCEPT ![s] = NoProc]
    /\ Go(p, [ip |-> 0] @@ Put(s, "end"))
    /\ UNCHANGED <<durable, cwd, file, tx, crashes, panicked>>

-----------------------------------------------------------------------------
(* create(), for open() with O_CREATE and mkdir() *)

CreateParentHolding(p) ==                                       \* mutant
    LET s == st[p].dp
        t == Loaded(s)
        i == dirlookup(s, st[p].name)
    IN
    /\ st[p].pc = "parent" /\ st[p].op \in {"create", "mkdir"} /\ Lockable(s)
    /\ i # 0 /\ iget(t, i) # 0
    /\ inode' = Referenced(t, i)
    /\ lock' = [lock EXCEPT ![s] = p]
    /\ Go(p, [pc |-> "create_old", ip |-> iget(t, i)])
    /\ UNCHANGED <<dinode, durable, cwd, file, tx, crashes, panicked>>
\* The name is there: its inode is used, dp is unlocked and put.  Otherwise
\* ialloc() takes the first free inode, and dp stays locked to CreateIp.
CreateParent(p) ==
    LET s == st[p].dp
        t == Loaded(s)
        i == dirlookup(s, st[p].name)
        unused == {j \in Inum : dinode[j].type = "none"}
        j == Least(unused)
    IN
    /\ st[p].pc = "parent" /\ st[p].op \in {"create", "mkdir"} /\ Lockable(s)
    /\ IF ~Good(s) THEN Panic
       ELSE IF i # 0
       THEN IF iget(t, i) = 0 THEN Panic
            ELSE /\ inode' = Referenced(t, i)
                 /\ Go(p, [dp |-> 0, ip |-> iget(t, i)] @@ Put(s, "create_old"))
                 /\ UNCHANGED <<dinode, durable, lock, cwd, file, tx, crashes, panicked>>
       ELSE IF unused = {}
       THEN /\ inode' = t /\ Go(p, [dp |-> 0] @@ Put(s, "end"))
            /\ UNCHANGED <<dinode, durable, lock, cwd, file, tx, crashes, panicked>>
       ELSE IF iget(t, j) = 0 THEN Panic
       ELSE /\ dinode' = [dinode EXCEPT ![j] = [NoNode EXCEPT !.type =
                                           IF st[p].op = "mkdir" THEN "dir" ELSE "file"]]
            /\ inode' = Referenced(t, j)
            /\ lock' = [lock EXCEPT ![s] = p]
            /\ Go(p, [pc |-> "create_ip", ip |-> iget(t, j)])
            /\ UNCHANGED <<durable, cwd, file, tx, crashes, panicked>>

CreateOld(p) ==
    LET s == st[p].ip
        t == Loaded(s)
    IN
    /\ st[p].pc = "create_old" /\ Lockable(s)
    /\ IF ~Good(s) THEN Panic
       ELSE /\ inode' = t
            /\ IF st[p].op = "create" /\ t[s].type = "file"
               THEN lock' = [lock EXCEPT ![s] = p] /\ Go(p, [pc |-> "created"])
               ELSE UNCHANGED lock /\ Go(p, [ip |-> 0] @@ Put(s, "end"))
            /\ UNCHANGED <<dinode, durable, cwd, file, tx, crashes, panicked>>

\* The new inode and its entry in dp.
CreateIp(p) ==
    LET s == st[p].ip
        d == st[p].dp
        t == Loaded(s)
        i == t[s].inum
        dir == st[p].op = "mkdir"
        links == IF dir THEN inode[d].nlink + 1 ELSE inode[d].nlink
    IN
    /\ st[p].pc = "create_ip" /\ Lockable(s)
    /\ IF ~Good(s) THEN Panic
       ELSE /\ inode' = [t EXCEPT ![s].nlink = 1, ![d].nlink = links]
            /\ dinode' = [dinode EXCEPT ![i].nlink = 1,
                                        ![i].up = IF dir THEN inode[d].inum ELSE 0,
                                        ![inode[d].inum].ents[st[p].name] = i,
                                        ![inode[d].inum].nlink = links]
            /\ lock' = [lock EXCEPT ![s] = p, ![d] = NoProc]
            /\ Go(p, [dp |-> 0] @@ Put(d, "created"))
            /\ UNCHANGED <<durable, cwd, file, tx, crashes, panicked>>

\* fail: the disk is full when an entry is to be written.
CreateFail(p) ==
    LET s == st[p].ip
        t == Loaded(s)
    IN
    /\ st[p].pc = "create_ip" /\ Lockable(s) /\ Good(s)
    /\ inode' = [t EXCEPT ![s].nlink = 0]
    /\ dinode' = [dinode EXCEPT ![t[s].inum].nlink = 0]
    /\ Go(p, [ip |-> 0] @@ Put(s, "bad_dp"))
    /\ UNCHANGED <<durable, lock, cwd, file, tx, crashes, panicked>>

\* open() makes it the open file, or has no file structure; mkdir() puts it.
Created(p) ==
    LET s == st[p].ip IN
    /\ st[p].pc = "created"
    /\ lock' = [lock EXCEPT ![s] = NoProc]
    /\ \/ /\ st[p].op = "create"
          /\ file' = [file EXCEPT ![p] = s] /\ Go(p, [pc |-> "end", ip |-> 0])
       \/ UNCHANGED file /\ Go(p, [ip |-> 0] @@ Put(s, "end"))
    /\ UNCHANGED <<dinode, durable, inode, cwd, tx, crashes, panicked>>

-----------------------------------------------------------------------------
Step(p) ==
    \/ iput(p) \/ iputFree(p) \/ iputInvalid(p) \/ iputUnref(p)
    \/ EndOp(p) \/ WalkEnd(p) \/ WalkStep(p)
    \/ OpenFound(p) \/ ChdirFound(p)
    \/ LinkFound(p) \/ LinkWalk(p) \/ LinkParent(p) \/ LinkBad(p)
    \/ PutIp(p) \/ BadDp(p)
    \/ UnlinkParent(p) \/ UnlinkIp(p) \/ UnlinkEnd(p)
    \/ CreateParent(p) \/ CreateOld(p) \/ CreateIp(p) \/ CreateFail(p) \/ Created(p)

\* A step makes an entry in a directory that has no links left, or follows the
\* ".." of one.  create(), link() and namex() do not look at dp->nlink.
Strays ==
    \/ \E i \in Inum, n \in Name :
          /\ dinode[i].type = "dir" /\ dinode[i].nlink = 0
          /\ dinode[i].ents[n] = 0 /\ dinode'[i].ents[n] # 0
    \/ \E p \in Proc :
          /\ st[p].pc = "walk" /\ st[p].rest # <<>> /\ st'[p].pc = "iput"
          /\ Head(st[p].rest) = ".." /\ Inode(st[p].cur).nlink = 0

Next ==
    /\ ~panicked
    /\ \/ Crash
       \/ \E p \in Proc : Step(p) \/ Call(p) \/ Close(p)
    /\ astray' = (astray \/ Strays)

Safety == Init /\ [][Next]_vars

-----------------------------------------------------------------------------
(* Properties *)

\* The pointers to table entries that process p holds.  chdir() has given up
\* the old cwd by the time it ends.
Held(p) ==
    LET f == st[p] IN
    <<IF f.op = "chdir" /\ f.ip # 0 /\ f.pc = "end" THEN 0
      ELSE IF f.op = "chdir" /\ f.ip # 0 /\ f.arg = cwd[p] THEN 0 ELSE cwd[p],
      file[p], f.cur, f.ip, f.dp, f.arg>>

\* Every reference count is the number of pointers to the entry, so that none
\* leaks and none is dropped twice (fs.c:246-288, 336-362).
RefsMatch ==
    \A s \in Slot : inode[s].ref =
        Cardinality({<<p, x>> \in Proc \X (1 .. 6) : Held(p)[x] = s})

\* An inode has at most one entry in the table: ialloc() and iput() of the same
\* inode meet in the same entry (fs.c:198-277).
OneEntry ==
    \A s, u \in Slot : inode[s].ref > 0 /\ inode[u].ref > 0 /\ inode[s].inum = inode[u].inum
                       => s = u

\* A valid entry that nobody has locked is what the disk says.
CacheMatchesDisk ==
    \A s \in Slot : inode[s].ref > 0 /\ inode[s].valid /\ lock[s] = NoProc
                    => /\ inode[s].type = Inode(s).type
                       /\ inode[s].nlink = Inode(s).nlink

\* None of the panics of the layer: an inode without a type is never locked,
\* unlink never finds a link count of 0, iput() never waits for a sleep lock
\* with itable.lock held (fs.c:314-315, 345-347, sysfile.c:213-214), unless a
\* removed directory was worked in: its ".." may be freed before it is.
NoTreePanic == panicked => astray

Entries(d, i) == Cardinality({<<j, n>> \in Inum \X Name : d[j].type = "dir" /\ d[j].ents[n] = i})
Subdirs(d, i) == Cardinality({j \in Inum \ {ROOTINO} : d[j].type = "dir" /\ d[j].nlink > 0 /\ d[j].up = i})

\* In what is committed, the link count of an inode is the number of names it
\* has, one more for the root, and one for the ".." of each of its directories
\* ("Number of links to inode in file system", fs.h:36), unless an entry was
\* made in a removed directory, which is freed with it.
LinksCounted ==
    astray \/ \A i \in Inum : durable[i].type # "none" =>
        durable[i].nlink = Entries(durable, i) + Subdirs(durable, i)
                           + (IF i = ROOTINO THEN 1 ELSE 0)

Linked(d) == {i \in Inum : d[i].type = "dir" /\ d[i].nlink > 0}

\* In what is committed, a name in a directory that is itself linked names an
\* inode that is allocated and linked: no crash leaves a dangling name.
NoDanglingName ==
    \A i \in Linked(durable), n \in Name :
        LET j == durable[i].ents[n] IN j # 0 => durable[j].type # "none" /\ durable[j].nlink > 0

\* An allocated inode without links is in use, or was when power failed: "iput()
\* frees if the reference and link counts have fallen to zero" (fs.c:128-130).
UnlinkedIsInUse ==
    \A i \in Inum : dinode[i].type # "none" /\ dinode[i].nlink = 0
                    => \E s \in Slot : inode[s].ref > 0 /\ inode[s].inum = i

\* The entry whose sleep lock process p is about to take.
Wanted(p) ==
    CASE st[p].pc = "walk" /\ st[p].rest # <<>> -> st[p].cur
      [] st[p].pc = "parent" -> st[p].dp
      [] st[p].pc \in {"found", "link_bad", "unlink_ip", "create_old", "create_ip"} -> st[p].ip
      [] OTHER -> 0

\* Nobody waits in a circle, or for itself, for the locks of inodes, though
\* unlink() and create() hold one while they take another, and ".." leads from
\* a directory to the one above it (fs.c:661-662, sysfile.c:188-302).
NoLockCycle ==
    \A S \in SUBSET Proc \ {{}} :
        \E p \in S : Wanted(p) = 0 \/ lock[Wanted(p)] \notin S

\* The inode table: exact references, one entry for an inode, and entries that
\* agree with the disk; none of the panics that would tell otherwise.
InodesAccounted ==
    TypeOK /\ RefsMatch /\ OneEntry /\ CacheMatchesDisk /\ NoTreePanic

\* What is committed is a tree, whenever power fails.
TreeConsistent == LinksCounted /\ NoDanglingName
=============================================================================
