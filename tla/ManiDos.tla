------------------------------- MODULE ManiDos -------------------------------
(***************************************************************************)
(* ManiDOS, the DOS command interpreter: DEL, COPY and REN, batch files,   *)
(* pipelines, and CHKDSK.                                                  *)
(***************************************************************************)
EXTENDS Naturals, SequencesExt, FiniteSetsExt

-----------------------------------------------------------------------------
(* ManiDOS's file commands (userland/dos/commands.c): COPY, DEL and REN over *)
(* one FAT directory.  each_file opens the directory and reads one entry at  *)
(* a time while the command it runs for each changes that very directory;    *)
(* the descriptor's position counts entries (fat_readdir), and a new file    *)
(* takes the first free slot.  A file's data is a sequence of blocks.        *)

CONSTANTS Names,       \* file names
          Slots,       \* entries the directory has room for
          Capacity     \* blocks the disk has room for

VARIABLES slots,       \* the directory: a name or "" in each slot
          data,        \* each file's blocks
          cmd,         \* the command being run
          orig         \* ... and the files when it started

commandVars == <<slots, data, cmd, orig>>

Idle == [op |-> "none", args |-> <<>>, dest |-> "", arg |-> 0, pos |-> 0, src |-> "", off |-> 0,
         out |-> FALSE, copied |-> 0, err |-> FALSE, missing |-> FALSE]

Wild == "*"

LiveSlots == SelectSeq(slots, LAMBDA n : n # "")

Exists(n) == \E i \in 1 .. Slots : slots[i] = n

Used == FoldSet(LAMBDA n, sum : sum + Len(data[n]), 0, {n \in Names : Exists(n)})

FirstFree == CHOOSE i \in 1 .. Slots : slots[i] = "" /\ \A j \in 1 .. i - 1 : slots[j] # ""

Start(op, args, dest) ==
  /\ cmd = Idle
  /\ cmd' = [Idle EXCEPT !.op = op, !.args = args, !.dest = dest, !.arg = 1]
  /\ orig' = [files |-> ToSet(LiveSlots), data |-> data]
  /\ UNCHANGED <<slots, data>>

(* An argument is done with: the next one, or the end of the command, whose  *)
(* result stays.                                                             *)
NextArg(c) ==
  IF c.arg < Len(c.args) THEN [c EXCEPT !.arg = @ + 1, !.pos = 0]
  ELSE [c EXCEPT !.arg = 0, !.pos = 0, !.out = FALSE]

Arg == cmd.args[cmd.arg]

CommandRunning(op) == cmd.op = op /\ cmd.arg > 0 /\ cmd.src = ""

-----------------------------------------------------------------------------
(* del_one, for a name or for each entry read.                               *)
Unlink(n) == slots' = [i \in 1 .. Slots |-> IF slots[i] = n THEN "" ELSE slots[i]]

Del ==
  /\ CommandRunning("del") /\ UNCHANGED <<data, orig>>
  /\ \/ /\ Arg # Wild /\ Exists(Arg)
        /\ Unlink(Arg) /\ cmd' = NextArg(cmd)
     \/ /\ Arg # Wild /\ ~Exists(Arg)
        /\ cmd' = NextArg([cmd EXCEPT !.missing = TRUE]) /\ UNCHANGED slots
     \/ /\ Arg = Wild /\ cmd.pos < Len(LiveSlots)
        /\ Unlink(LiveSlots[cmd.pos + 1]) /\ cmd' = [cmd EXCEPT !.pos = @ + 1]
     \/ /\ Arg = Wild /\ cmd.pos >= Len(LiveSlots)
        /\ cmd' = NextArg([cmd EXCEPT !.missing = @ \/ cmd.pos = 0]) /\ UNCHANGED slots

(* cmd_ren: rename refuses a name that is taken.                             *)
Ren(n, new) ==
  /\ cmd = Idle /\ Exists(n) /\ n # new /\ ~Exists(new)
  /\ slots' = [i \in 1 .. Slots |-> IF slots[i] = n THEN new ELSE slots[i]]
  /\ data' = [data EXCEPT ![new] = data[n], ![n] = <<>>]
  /\ cmd' = [Idle EXCEPT !.op = "ren"]
  /\ orig' = [files |-> ToSet(LiveSlots), data |-> data]

-----------------------------------------------------------------------------
(* copy_one begins with source n: the destination is made or emptied when    *)
(* the first source has been opened.                                         *)
CopyOne(n, c) ==
  \/ /\ c.out
     /\ cmd' = [c EXCEPT !.src = n, !.off = 0]
     /\ UNCHANGED <<slots, data>>
  \/ /\ ~c.out /\ ~Exists(c.dest) /\ "" \notin ToSet(slots)
     /\ cmd' = (IF Arg = Wild THEN [c EXCEPT !.err = TRUE] ELSE NextArg([c EXCEPT !.err = TRUE]))
     /\ UNCHANGED <<slots, data>>
  \/ /\ ~c.out /\ (Exists(c.dest) \/ "" \in ToSet(slots))
     /\ slots' = IF Exists(c.dest) THEN slots ELSE [slots EXCEPT ![FirstFree] = c.dest]
     /\ data' = [data EXCEPT ![c.dest] = <<>>]
     /\ cmd' = [c EXCEPT !.src = n, !.off = 0, !.out = TRUE]

CopyNext ==
  /\ CommandRunning("copy") /\ UNCHANGED orig
  /\ \/ /\ Arg # Wild /\ Exists(Arg)
        /\ CopyOne(Arg, cmd)
     \/ /\ Arg # Wild /\ ~Exists(Arg)
        /\ cmd' = NextArg([cmd EXCEPT !.missing = TRUE]) /\ UNCHANGED <<slots, data>>
     \/ /\ Arg = Wild /\ cmd.pos < Len(LiveSlots)
        /\ CopyOne(LiveSlots[cmd.pos + 1], [cmd EXCEPT !.pos = @ + 1])
     \/ /\ Arg = Wild /\ cmd.pos >= Len(LiveSlots)
        /\ cmd' = NextArg([cmd EXCEPT !.missing = @ \/ cmd.pos = 0]) /\ UNCHANGED <<slots, data>>

(* copy_fd, a block at a time: done, written, or refused by a full disk.     *)
AfterCopy(c) == IF Arg = Wild THEN [c EXCEPT !.src = ""] ELSE NextArg([c EXCEPT !.src = ""])

CopyFdIgnoresFull ==
  /\ cmd.op = "copy" /\ cmd.src # "" /\ UNCHANGED <<slots, orig>>
  /\ IF cmd.off < Len(data[cmd.src]) /\ Used < Capacity
     THEN /\ data' = [data EXCEPT ![cmd.dest] = Append(@, data[cmd.src][cmd.off + 1])]
          /\ cmd' = [cmd EXCEPT !.off = @ + 1]
     ELSE cmd' = AfterCopy([cmd EXCEPT !.copied = @ + 1]) /\ UNCHANGED data

CopyFd ==
  /\ cmd.op = "copy" /\ cmd.src # "" /\ UNCHANGED <<slots, orig>>
  /\ \/ /\ cmd.off < Len(data[cmd.src]) /\ Used < Capacity
        /\ data' = [data EXCEPT ![cmd.dest] = Append(@, data[cmd.src][cmd.off + 1])]
        /\ cmd' = [cmd EXCEPT !.off = @ + 1]
     \/ /\ cmd.off < Len(data[cmd.src]) /\ Used >= Capacity
        /\ cmd' = AfterCopy([cmd EXCEPT !.err = TRUE]) /\ UNCHANGED data
     \/ /\ cmd.off = Len(data[cmd.src])
        /\ cmd' = AfterCopy([cmd EXCEPT !.copied = @ + 1]) /\ UNCHANGED data

-----------------------------------------------------------------------------
Args == {<<n>> : n \in Names \cup {Wild}} \cup ((Names \cup {Wild}) \X Names)

(* One command on every directory there can be.                              *)
CommandInit ==
         /\ slots \in {s \in [1 .. Slots -> Names \cup {""}] :
                         \A i, j \in 1 .. Slots : i # j /\ s[i] # "" => s[i] # s[j]}
         /\ data = [n \in Names |-> IF Exists(n) THEN <<n>> ELSE <<>>]
         /\ cmd = Idle /\ orig = [files |-> {}, data |-> data]

CommandNext ==
         \/ \E a \in Args : Start("del", a, "") \/ \E d \in Names : Start("copy", a, d)
         \/ \E n, m \in Names : Ren(n, m)
         \/ Del \/ CopyNext \/ CopyFd

CommandSpec == CommandInit /\ [][CommandNext]_commandVars

-----------------------------------------------------------------------------
(* COPY of named files that ends without an error has made the destination   *)
(* the sources one after the other, and whatever happens, also on a full     *)
(* disk, it changes no file that is not its destination; what it counts as   *)
(* copied are sources it has read to their ends (cmd_copy, copy_one).        *)
CopyTrue ==
  cmd.op = "copy" =>
    /\ \A n \in orig.files \ {cmd.dest} : Exists(n) /\ data[n] = orig.data[n]
    /\ (cmd.arg = 0 /\ ~cmd.err /\ ~cmd.missing /\ ToSet(cmd.args) \cap {Wild, cmd.dest} = {}) =>
         /\ data[cmd.dest] = FlattenSeq([i \in 1 .. Len(cmd.args) |-> orig.data[cmd.args[i]]])
         /\ cmd.copied = Len(cmd.args)

(* docs/dos.md: "*.* is everything", and DEL deletes the files it is given.  *)
DelDeletesAll ==
  (cmd.op = "del" /\ cmd.arg = 0 /\ Wild \in ToSet(cmd.args)) => Len(LiveSlots) = 0

-----------------------------------------------------------------------------
(* ManiDOS's batch files (userland/dos/batch.c): run_batch calls itself      *)
(* through run_line for each batch file a batch file starts, CALL or not.    *)
(* A line is a command; FOR and IF have commands of their own to run.        *)

CONSTANTS Scripts,     \* the sets of batch files to run: name -> lines
          MaxNesting

VARIABLES files, stack, echo, leaving,
          met          \* whether a batch file has been run, and the limit met

batchVars == <<files, stack, echo, leaving, met>>

Top == stack[Len(stack)]

Below == SubSeq(stack, 1, Len(stack) - 1)

(* load: the lines up to a ^Z.                                               *)
Load(bat) == LET eof == {i \in DOMAIN files[bat] : files[bat][i].op = "ctrl_z"}
             IN IF eof = {} THEN files[bat] ELSE SubSeq(files[bat], 1, Min(eof) - 1)

(* run_batch: refused at the limit; otherwise the caller is over unless it   *)
(* used CALL, even when the file then turns out to be missing.               *)
RunBatchKeeps(s, bat, call) ==
  IF Len(s) = MaxNesting \/ bat \notin DOMAIN files THEN s
  ELSE Append(s, [bat |-> bat, next |-> 1, done |-> FALSE, echo |-> echo, items |-> <<>>])

RunBatch(s, bat, call) ==
  IF Len(s) = MaxNesting THEN s
  ELSE LET over == IF call \/ s = <<>> THEN s ELSE [s EXCEPT ![Len(s)].done = TRUE]
       IN IF bat \notin DOMAIN files THEN over
          ELSE Append(over, [bat |-> bat, next |-> 1, done |-> FALSE, echo |-> echo, items |-> <<>>])

Refuses(s) == Len(s) = MaxNesting

(* batch_goto.                                                               *)
Goto(s, label) ==
  IF label = 0 \/ label > Len(Load(s[Len(s)].bat)) THEN [s EXCEPT ![Len(s)].done = TRUE]
  ELSE [s EXCEPT ![Len(s)].next = label]

(* if_command: what the condition leaves of the line.  ERRORLEVEL, EXIST and *)
(* a comparison may each be so or not.                                       *)
IfCommand(c, yes) == IF c.op # "if" THEN c
                     ELSE IF yes # c.negate THEN c.arg ELSE [op |-> "nop", arg |-> 0]

(* for_command: the command for each item of the set, collected first.       *)
ForCommand(s, c) == [s EXCEPT ![Len(s)].items = c.arg \o @]

-----------------------------------------------------------------------------
Prompt(bat) ==
  /\ stack = <<>> /\ ~leaving /\ met = "prompt"
  /\ stack' = RunBatch(<<>>, bat, FALSE)
  /\ met' = "batch"
  /\ UNCHANGED <<files, echo, leaving>>

(* run_line, for a command c with the batch files s.                         *)
RunLine(s, c) ==
  /\ stack' = CASE c.op = "call" -> RunBatch(s, c.arg, TRUE)
                [] c.op = "run" -> RunBatch(s, c.arg, FALSE)
                [] c.op = "goto" -> Goto(s, c.arg)
                [] c.op = "for" -> ForCommand(s, c)
                [] OTHER -> s
  /\ met' = IF c.op \in {"run", "call"} /\ Refuses(s) THEN "limit" ELSE met
  /\ leaving' = (c.op = "exit")
  /\ echo' = IF c.op = "echo_off" THEN FALSE ELSE echo
  /\ UNCHANGED <<files>>

(* One line of the batch file on top.                                        *)
Line ==
  /\ stack # <<>> /\ ~Top.done /\ ~leaving /\ Top.next <= Len(Load(Top.bat)) /\ Top.items = <<>>
  /\ \E yes \in BOOLEAN :
        RunLine([stack EXCEPT ![Len(stack)].next = @ + 1], IfCommand(Load(Top.bat)[Top.next], yes))

(* The next item of the FOR it runs, whether or not the file is over.        *)
ForItem ==
  /\ stack # <<>> /\ ~leaving /\ Top.items # <<>>
  /\ \E yes \in BOOLEAN : RunLine([stack EXCEPT ![Len(stack)].items = Tail(@)], IfCommand(Head(Top.items), yes))

(* The end of run_batch; back at the prompt ECHO is as it was.               *)
Return ==
  /\ stack # <<>>
  /\ leaving \/ (Top.items = <<>> /\ (Top.done \/ Top.next > Len(Load(Top.bat))))
  /\ stack' = Below
  /\ echo' = IF Len(stack) = 1 THEN Top.echo ELSE echo
  /\ UNCHANGED <<files, leaving, met>>

BatchInit ==
       /\ files \in Scripts /\ stack = <<>> /\ echo \in BOOLEAN
       /\ leaving = FALSE /\ met = "prompt"

BatchNext == Line \/ ForItem \/ Return \/ \E bat \in DOMAIN files : Prompt(bat)

BatchSpec == BatchInit /\ [][BatchNext]_batchVars

-----------------------------------------------------------------------------
(* What the user is promised: a stack of the batch files that go on, each    *)
(* with its next line (0: it is over) and the commands its FOR has still to  *)
(* run, where CALL pushes and starting one without CALL replaces the one on  *)
(* top.                                                                      *)
Going(bat, next, items) ==
  IF next \notin 1 .. Len(Load(bat)) /\ items = <<>> THEN <<>> ELSE <<<<bat, next, items>>>>

BatchRunning(s) ==
  FlattenSeq([i \in DOMAIN s |-> Going(s[i].bat, IF s[i].done THEN 0 ELSE s[i].next, s[i].items)])

Started(bat) == IF bat \in DOMAIN files THEN Going(bat, 1, <<>>) ELSE <<>>

Promise(r, yes) ==
  LET bat == r[Len(r)][1]
      at_line == r[Len(r)][2]
      items == r[Len(r)][3]
      rest == SubSeq(r, 1, Len(r) - 1)
      now == IfCommand(IF items # <<>> THEN Head(items) ELSE Load(bat)[at_line], yes)
      next == IF items # <<>> THEN at_line ELSE at_line + 1
      left == IF items # <<>> THEN Tail(items) ELSE <<>>
  IN CASE now.op = "call" -> rest \o Going(bat, next, left) \o Started(now.arg)
       [] now.op = "run" -> rest \o Going(bat, 0, left) \o Started(now.arg)
       [] now.op = "goto" -> rest \o Going(bat, IF at_line # 0 /\ now.arg <= Len(Load(bat)) THEN now.arg ELSE 0, left)
       [] now.op = "for" -> rest \o Going(bat, next, now.arg \o left)
       [] OTHER -> rest \o Going(bat, next, left)

(* As long as the nesting limit is not met, every line run is the next line  *)
(* of the batch file that is on top of that stack, or the next item of its   *)
(* FOR, and the stack changes as promised; a batch file without CALL takes   *)
(* the place of the one that started it (the comment that opens batch.c).    *)
BatchAsPromised ==
  (met' # "limit" /\ stack # <<>> /\ ~leaving') =>
     \/ BatchRunning(stack') = BatchRunning(stack)
     \/ /\ BatchRunning(stack) # <<>>
        /\ \E yes \in BOOLEAN : BatchRunning(stack') = Promise(BatchRunning(stack), yes)

-----------------------------------------------------------------------------
(* A ManiDOS command line (userland/dos/main.c, run_line): its stages, their *)
(* redirections and the pipes between them.  All but the last stage run in   *)
(* processes of their own, which inherit descriptors 0 and 1 only; the last  *)
(* one runs here, on the shell's own descriptors 0 and 1 redirected.         *)

CONSTANT MaxStages

VARIABLES line,        \* the stages: [in, out : BOOLEAN], a file redirection each
          at,          \* the stage to start next
          phase,       \* "start", "here" (the last one runs), "wait", "done"
          held,        \* descriptors the shell holds besides its own
          std,         \* what the shell's descriptors 0 and 1 are
          next_in,     \* the end of the pipe the next stage reads
          kids,        \* stages running apart: their descriptors 0 and 1
          pipe_failed

pipelineVars == <<line, at, phase, held, std, next_in, kids, pipe_failed>>

None == <<"none", 0>>
Tty == <<"tty", 0>>
File(i, way) == <<way, i>>
ReadEnd(i) == <<"r", i>>
WriteEnd(i) == <<"w", i>>

PipeEnds == {<<w, i>> : w \in {"r", "w"}, i \in 1 .. MaxStages}

LastStage == at = Len(line)

(* open_redirect and the pipe: what stage `at` reads and writes, or where    *)
(* that fails.  The stage's input is closed when its own file replaces it.   *)
InOf == IF line[at].in THEN File(at, "in") ELSE IF next_in # None THEN next_in ELSE Tty

OutOf == IF line[at].out THEN File(at, "out") ELSE IF LastStage THEN Tty ELSE WriteEnd(at)

Give(fd) == IF fd = Tty THEN {} ELSE {fd}

GiveUp(close) ==
  /\ phase' = "wait" /\ held' = held \ close /\ next_in' = None
  /\ UNCHANGED <<line, at, std, kids>>

InFails ==
  /\ phase = "start" /\ line[at].in
  /\ GiveUp({next_in}) /\ UNCHANGED pipe_failed

OutFails ==
  /\ phase = "start" /\ line[at].out
  /\ GiveUp({next_in}) /\ UNCHANGED pipe_failed

(* pipe() refused: the stage's input stays open.                             *)
PipeFails ==
  /\ phase = "start" /\ ~line[at].out /\ ~LastStage
  /\ phase' = "wait" /\ next_in' = None /\ pipe_failed' = TRUE
  /\ held' = (held \ {next_in}) \cup Give(InOf)
  /\ UNCHANGED <<line, at, std, kids>>

(* run_apart and spawn_with: the shell's own 0 and 1 are put back, then the  *)
(* stage's descriptors are closed.                                           *)
RunApartKeepsOut(ok) ==
  /\ phase = "start" /\ ~LastStage
  /\ kids' = IF ok THEN [kids EXCEPT ![at] = <<InOf, OutOf>>] ELSE kids
  /\ next_in' = IF line[at].out THEN None ELSE ReadEnd(at)
  /\ held' = (held \ {next_in}) \cup (IF line[at].out THEN {} ELSE {ReadEnd(at), WriteEnd(at)})
  /\ at' = at + 1
  /\ UNCHANGED <<line, phase, std, pipe_failed>>

RunApart(ok) ==
  /\ phase = "start" /\ ~LastStage
  /\ kids' = IF ok THEN [kids EXCEPT ![at] = <<InOf, OutOf>>] ELSE kids
  /\ next_in' = IF line[at].out THEN None ELSE ReadEnd(at)
  /\ held' = (held \ {next_in}) \cup (IF line[at].out THEN {} ELSE {ReadEnd(at)})
  /\ at' = at + 1
  /\ UNCHANGED <<line, phase, std, pipe_failed>>

(* run_here, until the command is done.                                      *)
RunHere ==
  /\ phase = "start" /\ LastStage
  /\ std' = <<InOf, OutOf>>
  /\ held' = (held \ {next_in}) \cup Give(InOf) \cup Give(OutOf)
             \cup (IF InOf = Tty THEN {} ELSE {<<"saved", 0>>})
             \cup (IF OutOf = Tty THEN {} ELSE {<<"saved", 1>>})
  /\ next_in' = None /\ phase' = "here"
  /\ UNCHANGED <<line, at, kids, pipe_failed>>

Holders(fd) == {i \in DOMAIN kids : fd \in {kids[i][1], kids[i][2]}}

(* A process is done reading once nobody can write to its pipe, and done     *)
(* writing when somebody reads or nobody ever will.                          *)
CanEnd(fds, me) ==
  /\ \A i \in 1 .. MaxStages : fds[1] = ReadEnd(i) =>
        WriteEnd(i) \notin held /\ Holders(WriteEnd(i)) \subseteq {me}
  /\ \A i \in 1 .. MaxStages : fds[2] = WriteEnd(i) =>
        \/ Holders(ReadEnd(i)) # {}
        \/ phase = "here" /\ std[1] = ReadEnd(i)
        \/ ReadEnd(i) \notin held

HereEnds ==
  /\ phase = "here" /\ CanEnd(std, 0)
  /\ std' = <<Tty, Tty>>
  /\ held' = held \ ({std[1], std[2]} \cup {<<"saved", 0>>, <<"saved", 1>>})
  /\ phase' = "wait"
  /\ UNCHANGED <<line, at, next_in, kids, pipe_failed>>

KidEnds(i) ==
  /\ kids[i] # <<None, None>> /\ CanEnd(kids[i], i)
  /\ kids' = [kids EXCEPT ![i] = <<None, None>>]
  /\ UNCHANGED <<line, at, phase, held, std, next_in, pipe_failed>>

Waited ==
  /\ phase = "wait" /\ \A i \in DOMAIN kids : kids[i] = <<None, None>>
  /\ phase' = "done"
  /\ UNCHANGED <<line, at, held, std, next_in, kids, pipe_failed>>

PipelineInit ==
          /\ line \in UNION {[1 .. n -> [in : BOOLEAN, out : BOOLEAN]] : n \in 1 .. MaxStages}
          /\ at = 1 /\ phase = "start" /\ held = {} /\ std = <<Tty, Tty>> /\ next_in = None
          /\ kids = [i \in 1 .. MaxStages |-> <<None, None>>] /\ pipe_failed = FALSE

PipelineNext ==
          \/ InFails \/ OutFails \/ PipeFails \/ RunHere \/ HereEnds \/ Waited
          \/ \E ok \in BOOLEAN : RunApart(ok)
          \/ \E i \in 1 .. MaxStages : KidEnds(i)

PipelineSpec == PipelineInit /\ [][PipelineNext]_pipelineVars

-----------------------------------------------------------------------------
(* The shell never waits for ever: when it waits for its stages or the last  *)
(* one runs, some process can finish, for no end of a pipe is held by a      *)
(* process that does not use it.  And after the line it holds what it held   *)
(* before, its own descriptors 0 and 1 back in place.  The one exception is  *)
(* a refused pipe(), which leaves the stage's input open, and with it a      *)
(* writer that may never finish.                                             *)
PipelineEnds ==
  /\ phase = "wait" => \/ pipe_failed
                       \/ \A i \in DOMAIN kids : kids[i] = <<None, None>>
                       \/ \E i \in DOMAIN kids : kids[i] # <<None, None>> /\ CanEnd(kids[i], i)
  /\ phase = "here" => \/ CanEnd(std, 0)
                       \/ \E i \in DOMAIN kids : kids[i] # <<None, None>> /\ CanEnd(kids[i], i)
  /\ phase = "done" => /\ std = <<Tty, Tty>>
                       /\ ~pipe_failed => held = {}
                       /\ Cardinality(held) <= 1

-----------------------------------------------------------------------------
(* CHKDSK (userland/dos/fat.c): one pass over the directories claims every   *)
(* chain, a second one over the table finds the clusters nobody claimed.     *)
(* A cluster of a directory holds one entry.                                 *)

CONSTANTS Clusters,    \* how many data clusters; they are 2 .. Clusters + 1
          Entries,     \* the directory entries a disk may have in its root
          SubEntries,  \* ... and in a cluster of a directory
          MaxDepth

VARIABLES disk, report

checkVars == <<disk, report>>

Units == 2 .. Clusters + 1
Free == 0
End == Clusters + 3
Bad == Clusters + 4

(* A link past the last cluster is the invalid one.                          *)
Links == {Free, End, Bad, Clusters + 2} \cup Units

EndMark == [kind |-> "end"]
Deleted == [kind |-> "deleted"]

Nothing == [seen |-> [c \in Units |-> "none"], problems |-> 0, file |-> 0, dir |-> 0]

Problem(k) == [k EXCEPT !.problems = @ + 1]

-----------------------------------------------------------------------------
RECURSIVE Follow(_, _, _, _)
Follow(k, c, dir, n) ==
  IF c < 2 \/ c = End THEN [k |-> k, n |-> n]
  ELSE IF c \notin Units \/ k.seen[c] # "none" THEN [k |-> Problem(k), n |-> n]
  ELSE LET claimed == [k EXCEPT !.seen[c] = IF dir THEN "dir" ELSE "file"]
       IN IF disk.fat[c] \in {Free, Bad} THEN [k |-> Problem(claimed), n |-> n + 1]
          ELSE Follow(claimed, disk.fat[c], dir, n + 1)

RECURSIVE Walk(_, _, _, _), WalkDir(_, _, _, _), CheckEntry(_, _, _)

(* walk: a run of entries; ended is the end marker.                          *)
Walk(k, entries, depth, i) ==
  IF i > Len(entries) THEN [k |-> k, ended |-> FALSE]
  ELSE IF entries[i].kind = "end" THEN [k |-> k, ended |-> TRUE]
  ELSE IF entries[i].kind = "deleted" THEN Walk(k, entries, depth, i + 1)
  ELSE Walk(CheckEntry(k, entries[i], depth), entries, depth, i + 1)

(* A directory's clusters along its chain, n of them.                        *)
WalkDir(k, c, n, depth) ==
  IF n = 0 THEN k
  ELSE LET w == Walk(k, <<disk.sub[c]>>, depth, 1)
       IN IF w.ended THEN w.k ELSE WalkDir(w.k, disk.fat[c], n - 1, depth)

CheckEntryNoSize(k, e, depth) ==
  LET f == Follow(k, e.first, e.kind = "dir", 0)
  IN IF e.kind = "dir"
     THEN LET d == [f.k EXCEPT !.dir = @ + f.n]
          IN IF depth >= MaxDepth THEN d ELSE WalkDir(d, e.first, f.n, depth + 1)
     ELSE [f.k EXCEPT !.file = @ + f.n]

CheckEntry(k, e, depth) ==
  LET f == Follow(k, e.first, e.kind = "dir", 0)
  IN IF e.kind = "dir"
     THEN LET d == [f.k EXCEPT !.dir = @ + f.n]
          IN IF depth >= MaxDepth THEN d ELSE WalkDir(d, e.first, f.n, depth + 1)
     ELSE LET d == [f.k EXCEPT !.file = @ + f.n]
          IN IF f.n # e.size THEN Problem(d) ELSE d

Lost(k) == {c \in Units : disk.fat[c] \notin {Free, Bad} /\ k.seen[c] = "none"}

FatCheck ==
  LET k == Walk(Nothing, disk.root, 0, 1).k
      lost == Cardinality(Lost(k))
  IN [problems |-> k.problems + (IF lost > 0 THEN 1 ELSE 0) + (IF disk.same THEN 0 ELSE 1),
      file |-> k.file, dir |-> k.dir, lost |-> lost,
      free |-> Cardinality({c \in Units : disk.fat[c] = Free}),
      bad |-> Cardinality({c \in Units : disk.fat[c] = Bad})]

CheckInit ==
       /\ disk \in [fat : [Units -> Links],
                    root : {<<e>> : e \in Entries} \cup (Entries \X Entries),
                    sub : {[c \in Units |-> s] : s \in SubEntries},
                    same : BOOLEAN]
       /\ Len(disk.root) = 2 => disk.same
       /\ report = <<>>

Chkdsk == report = <<>> /\ report' = <<FatCheck>> /\ UNCHANGED disk

CheckNext == Chkdsk

CheckSpec == CheckInit /\ [][CheckNext]_checkVars

-----------------------------------------------------------------------------
(* What a sound volume is, said without walking it: claims is the relation   *)
(* from each entry that exists to the clusters its chain has.                *)
RECURSIVE Reach(_, _)
Reach(S, n) == IF n = 0 THEN S
               ELSE Reach(S \cup {disk.fat[c] : c \in S \cap Units}, n - 1)

ChainOf(e) == IF e.first < 2 THEN {} ELSE Reach({e.first}, Clusters + 1)

WellEnded(e) == e.first >= 2 => /\ End \in ChainOf(e)
                                /\ ChainOf(e) \subseteq Units \cup {End}

(* The entries of a directory up to its end marker.                          *)
LiveEntries(s) == {i \in DOMAIN s : s[i].kind \in {"file", "dir"}
                                    /\ \A j \in 1 .. i : s[j].kind # "end"}

Things ==
  LET top == {<<i, disk.root[i]>> : i \in LiveEntries(disk.root)}
      inside == {<<c, disk.sub[c]>> :
                   c \in {u \in Units : disk.sub[u].kind = "file"
                                        /\ \E t \in top : t[2].kind = "dir" /\ u \in ChainOf(t[2])}}
  IN {<<"root", t>> : t \in top} \cup {<<"sub", t>> : t \in inside}

SoundVolume ==
  /\ \A x \in Things : WellEnded(x[2][2])
  /\ \A x, y \in Things : x # y => ChainOf(x[2][2]) \cap ChainOf(y[2][2]) \subseteq {End}
  /\ \A x \in Things : x[2][2].kind = "file" =>
                          Cardinality(ChainOf(x[2][2]) \ {End}) = x[2][2].size
  /\ \A u \in Units : disk.fat[u] \notin {Free, Bad} => \E x \in Things : u \in ChainOf(x[2][2])
  /\ disk.same

(* CHKDSK reports no problem exactly on the volumes that have none, and then *)
(* its byte counts add up to the whole disk (fat_check and the lines it      *)
(* prints).                                                                  *)
CheckTellsTruth ==
  \A i \in DOMAIN report :
    /\ (report[i].problems = 0) = SoundVolume
    /\ report[i].problems = 0 =>
         report[i].file + report[i].dir + report[i].lost + report[i].free + report[i].bad = Clusters
=============================================================================
