---------------------------- MODULE MCPrograms ----------------------------
(* One instance for TLC of every program that runs on ManiOS and stands       *)
(* alone: the parts of dosrun and of ManiDOS, the desktop with its libraries  *)
(* and applications, the command-line tools.  A behaviour runs one of them,   *)
(* `part`; the variables v1 .. v12 are that part's state, in the order of its *)
(* own variables, and those it has no use for stay 0.                         *)
EXTENDS Integers, SequencesExt, FiniteSets, TLC

VARIABLES part, v1, v2, v3, v4, v5, v6, v7, v8, v9, v10, v11, v12

-----------------------------------------------------------------------------
\* dosrun: its devices, its processor, its memory.
Device == INSTANCE DosDevices WITH
    \* A timer whose counter has two digits of base 2 and whose day has two ticks.
    chan <- v1, pit <- v2, pic <- v3, bda <- v4, clock <- v5, elapsed <- v6, raised <- v7,
    Byte <- 2, Hz <- 5, PerMs <- 3, Day <- 2, MaxTime <- 2,
    use <- v1, src <- v2, k <- v3, typed <- v4, got <- v5, MaxTyped <- 3,
    mem <- v1, cursor <- v2, active <- v3, text_seen <- v4, con <- v5,
    Rows <- 2, Cols <- 2, Pages <- {0, 1}, Chars <- {"x"}, Poked <- {2}, AnyOrder <- FALSE

Machine == INSTANCE DosMachine WITH
    \* Words of three bits; decimal adjustment on the values around its carries.
    insn <- v1, res <- v2,
    W <- 3, H <- 1, MaxCount <- 8, MemSize <- 4, StackSize <- 9, Bcd <- {0, 1, 9, 10, 45, 55, 90, 99},
    code <- v1, fl <- v2, stack <- v3, shadow <- v4, irr <- v5, isr <- v6, half <- v7, want <- v8,
    Status <- {0, 1, 2}, MaxDepth <- 3

\* A file of up to 20 bytes, a program or not, for a memory of 12 paragraphs of 2.
ProgramFiles ==
    {f \in [exe : BOOLEAN, header_ok : BOOLEAN, len : 0 .. 20, min : {0, 1, 5, 31}, max : {0, 2, 31},
            relocs : {{}, {0}, {3}, {0, 9}}] :
        f.exe \/ (f.header_ok /\ f.min = 0 /\ f.max = 0 /\ f.relocs = {})}
Mem == INSTANCE DosMemory WITH
    \* dosrun: a block chain of 11 paragraphs and programs two deep.
    arena <- v1, psp <- v2, memsize <- v3, parents <- v4,
    Paragraphs <- 11, Sizes <- {0, 1, 3}, EnvSize <- 1, ChildMin <- 2, ChildMax <- 4, MaxDepth <- 2,
    pool <- v1, xms <- v2, pages_of <- v3, ems <- v4, map <- v5, window <- v6, wrote <- v7,
    XmsSize <- 4, XmsHandles <- 3, EmsPages <- 3, EmsHandles <- 2, Frames <- 2, Values <- {"v"},
    file <- v1, step <- v2, asked <- v3, at <- v4, res <- v5,
    Para <- 2, Psp <- 2, PspSeg <- 3, Top <- 12, Max16 <- 31, ComMax <- 12, ComParas <- 8, Files <- ProgramFiles

-----------------------------------------------------------------------------
\* ManiDOS: a CD and a disk, drives lettered by group.
Disks == <<"cd0", "vd0">>
Group(d) == IF d = "vd0" THEN 1 ELSE 2
Files == INSTANCE DosFiles WITH
    \* Handles and control blocks, each set short enough to run out.
    proc <- v1, parents <- v2, fcb <- v3, open <- v4, state <- v5,
    Handles <- 3, FcbSlots <- 1, FindSlots <- 1, Fcbs <- {1, 2}, Dtas <- {1}, HostFds <- 3 .. 6, MaxDepth <- 1,
    under_n <- v1, dirs <- v2, mounts <- v3, cwd <- v4, current <- v5,
    Disks <- Disks, Group <- Group, Words <- {"n", "vd0", "..", "..."}, MaxWords <- 1, MaxDirs <- 5

\* Volumes with crossed, lost, looping and too long chains, whole ones among them.
FileAt(c, n) == [kind |-> "file", first |-> c, size |-> n]
RootEntries == {FileAt(0, 0), FileAt(2, 1), FileAt(2, 2), FileAt(3, 1), [kind |-> "dir", first |-> 2],
                [kind |-> "end"], [kind |-> "deleted"]}

\* Every pair of batch files, of two lines and of one.
Does(op, arg) == [op |-> op, arg |-> arg]
Unless(c) == [op |-> "if", arg |-> c, negate |-> TRUE]
Lines == {Does("nop", 0), Does("call", "a"), Does("call", "b"), Does("run", "a"), Does("run", "b"), Does("run", "c"),
          Does("goto", 1), Does("goto", 0), Does("exit", 0), Does("echo_off", 0), Does("ctrl_z", 0),
          Does("for", <<Does("run", "b"), Does("goto", 1)>>), Does("for", <<Does("call", "b"), Unless(Does("run", "a"))>>),
          Unless(Does("call", "b"))}
BatchFiles == {[a |-> p, b |-> q] : p \in Lines \X Lines, q \in {<<l>> : l \in Lines}}

Dos == INSTANCE ManiDos WITH
    slots <- v1, data <- v2, cmd <- v3, orig <- v4,
    Names <- {"a", "b", "c"}, Slots <- 3, Capacity <- 3,
    files <- v1, stack <- v2, echo <- v3, leaving <- v4, met <- v5,
    Scripts <- BatchFiles, MaxNesting <- 3,
    line <- v1, at <- v2, phase <- v3, held <- v4, std <- v5, next_in <- v6, kids <- v7,
    pipe_failed <- v8, MaxStages <- 3,
    disk <- v1, report <- v2, Clusters <- 3, Entries <- RootEntries,
    SubEntries <- {[kind |-> "end"], FileAt(4, 1)}, MaxDepth <- 2

-----------------------------------------------------------------------------
\* The desktop: two windows on two workspaces, a session file that opens them.
SessionFile == <<<<"run", "w1">>, <<"workspace", 2>>, <<"run", "w2">>>>

\* A window with a box in it, and a message over it.
WidgetTree == [root |-> "none", box |-> "root", a |-> "box", b |-> "root", msg |-> "none", ok |-> "msg"]

BoxShapes == [length : {3, 7, 8}, spacing : {0, 1},
              kids : UNION {[1 .. n -> [want : {0, 3}, expand : {0, 1, 2}]] : n \in 1 .. 3}]
Kit == INSTANCE Toolkit WITH
    alive <- v1, hidden <- v2, disabled <- v3, unfocusable <- v4, ui <- v5, dirty <- v6, stale <- v7,
    made <- v8, Parent <- WidgetTree,
    kind <- v1, w <- v2, size <- v3, shown <- v4,
    Kinds <- {"list", "text", "view", "entry", "box"}, TAB_COLS <- 2, MinThumb <- 1, MaxItems <- 4, MaxLen <- 3,
    EntryMax <- 3, Shapes <- [rows : {1, 2}, cols : {2}], Boxes <- BoxShapes

Desk == INSTANCE Windows WITH
    steps <- v1, d <- v2, win <- v3, heard <- v4, lost <- v5, session <- v6,
    Window <- {"w1", "w2"}, None <- "none", Workspaces <- {1, 2}, MAX_WINDOWS <- 2, EventQueue <- 3,
    Width <- 30, Height <- 26, BarH <- 3, HeadH <- 3, Gap <- 1, MinSize <- 2, MasterStep <- 60, MaxSteps <- 4,
    Begun <- {<<>>, <<"w1", "w2">>}, Script <- SessionFile,
    free <- v1, fds <- v2, out <- v3, window <- v4, pump <- v5, pipe <- v6, buf <- v7, canvas <- v8,
    pc <- v9, sent <- v10, handled <- v11,
    Sizes <- {1, 2}, Free <- {1, 3, 6}, PipeSize <- 3, BufSize <- 4, MaxEvents <- 3

\* A calculator of two digits and one decimal.
DigitKeys == [c \in {"0", "5", "9"} |-> IF c = "0" THEN 0 ELSE IF c = "5" THEN 5 ELSE 9]
App == INSTANCE Apps WITH
    \* A terminal of three columns and two rows, fresh or with its history full.
    scr <- v1, hist <- v2, esc <- v3, dirty <- v4, stale <- v5, gone <- v6, steps <- v7,
    MAX_COLS <- 3, MAX_ROWS <- 2, HISTORY <- 2, LINE_MAX <- 3, PARAMS <- 2, TabStop <- 2, MaxSteps <- 4,
    Sizes <- {<<2, 2>>, <<1, 2>>}, Before <- {<<>>, <<"nl", "x", "nl", "x", "x", "x">>},
    calc <- v1, sum <- v2, keys <- v3,
    INT_DIGITS <- 2, FRAC_DIGITS <- 1, Word <- 16384, MaxKeys <- 5, Digits <- DigitKeys,
    Operands <- {-999, -95, -5, 0, 1, 4, 5, 95, 333, 640, 990, 999}

-----------------------------------------------------------------------------
\* tsort: every graph on four nodes with some of seven arcs, with hints and without.
Arcs == {<<"a","b">>, <<"b","a">>, <<"b","c">>, <<"c","a">>, <<"c","d">>, <<"d","b">>, <<"d","c">>}
TsortInputs == {[names |-> FlattenSeq(SetToSeq(G)), hints |-> h] : G \in SUBSET Arcs, h \in {<<>>, <<"c", "a", "c">>}}
    \cup {[names |-> <<"a">>, hints |-> <<>>], [names |-> <<"a", "b", "a", "b", "a", "a">>, hints |-> <<"d">>]}

\* Five keys, three of them in one chain of a table of four.
HashOf == [a |-> 0, b |-> 4, c |-> 5, d |-> 8, e |-> 3]
Sorter == INSTANCE Tsort WITH
    phase <- v1, flag <- v2, input <- v3, arcs <- v4, refs <- v5, order <- v6, traverse <- v7,
    aux <- v8, remaining <- v9, out <- v10, cycle <- v11, cut <- v12,
    NodesInTable <- <<"b", "a", "d", "c">>, Inputs <- TsortInputs, NO_ORDER <- 9,
    table <- v1, entries <- v2, endless <- v3,
    Keys <- {"a", "b", "c", "d", "e"}, Hash <- HashOf, MINSIZE <- 4, MINDELETED <- 2

\* Command lines of words, clustered letters and long names, abbreviated and ambiguous.
Argument(k, l, n, e) == [kind |-> k, letters |-> l, name |-> n, eq |-> e]
Operand == Argument("word", <<>>, "", FALSE)
Arguments == {Operand, Argument("end", <<>>, "", FALSE), Argument("short", <<"a", "o">>, "", FALSE),
    Argument("short", <<"a", "z">>, "", FALSE), Argument("short", <<"o", "a">>, "", FALSE),
    Argument("short", <<"p">>, "", FALSE), Argument("long", <<>>, "al", FALSE), Argument("long", <<>>, "out", FALSE),
    Argument("long", <<>>, "ou", TRUE)}
CommandLines == SeqOf(Arguments, 3)
    \cup {<<Operand, Operand, x, y, Operand, z>> : x \in Arguments, y \in Arguments, z \in {Operand, Argument("long", <<>>, "out", FALSE)}}
LongNames == << [name |-> "all", arg |-> "no", val |-> "A"], [name |-> "also", arg |-> "no", val |-> "S"],
                [name |-> "out", arg |-> "required", val |-> "O"] >>
NamedBy == [n \in {"al", "out", "ou", ""} |-> IF n = "al" THEN {"all", "also"} ELSE IF n = "" THEN {} ELSE {"out"}]

\* Expressions of up to seven tokens over integers of three bits.
Op(o) == [op |-> o, num |-> FALSE, i |-> 0, word |-> o]
Numeral(i) == [op |-> "", num |-> TRUE, i |-> i, word |-> ""]
Word(t) == [op |-> "", num |-> FALSE, i |-> 0, word |-> t]
Few == {Numeral(-4), Numeral(-1), Numeral(3), Word("x")}
More == Few \cup {Word(""), Numeral(0), Numeral(2)}
AllOps == {"|", "&", "=", "!=", "<", ">", "<=", ">=", "+", "-", "*", "/", "%", ":"}
SomeOps == {"|", "&", "<", "-", "*", "%", ":"}
Expressions == {<<x, Op(o), y>> : x, y \in More, o \in AllOps}
    \cup {<<x, Op(o), y, Op(q), z>> : x, y, z \in Few, o, q \in SomeOps}
    \cup {<<Op("("), x, Op(o), y, Op(")"), Op(q), z>> : x, z \in Few, y \in {Numeral(3), Numeral(-1)}, o, q \in SomeOps}
    \cup {<<x, Op(o), Op("("), y, Op(q), z, Op(")")>> : x, z \in Few, y \in {Numeral(3), Numeral(-1)}, o, q \in SomeOps}
    \cup SeqOf({Numeral(3), Op("+"), Op("("), Op(")"), Op(":")}, 4)

Tool == INSTANCE Tools WITH
    words <- v1, mode <- v2, st <- v3, said <- v4, done <- v5,
    CommandLines <- CommandLines, Letters <- [a |-> "no", o |-> "required", p |-> "optional"], Long <- LongNames,
    Abbrev <- NamedBy,
    argv <- v1, result <- v2, Width <- 3, Commands <- Expressions,
    tool <- v1, flags <- v2, file <- v3, F <- v4, pc <- v5, out <- v6,
    Keys <- {0, 1, 2}, MaxLines <- 3

-----------------------------------------------------------------------------
\* The variables from the k-th on, unused by the part that runs: 0, and left so.
Idle12 == v12 = 0
Idle11 == v11 = 0 /\ Idle12
Idle10 == v10 = 0 /\ Idle11
Idle9 == v9 = 0 /\ Idle10
Idle8 == v8 = 0 /\ Idle9
Idle7 == v7 = 0 /\ Idle8
Idle6 == v6 = 0 /\ Idle7
Idle5 == v5 = 0 /\ Idle6
Idle4 == v4 = 0 /\ Idle5
Idle3 == v3 = 0 /\ Idle4
Idle2 == v2 = 0 /\ Idle3

Same12 == UNCHANGED v12
Same11 == UNCHANGED v11 /\ Same12
Same10 == UNCHANGED v10 /\ Same11
Same9 == UNCHANGED v9 /\ Same10
Same8 == UNCHANGED v8 /\ Same9
Same7 == UNCHANGED v7 /\ Same8
Same6 == UNCHANGED v6 /\ Same7
Same5 == UNCHANGED v5 /\ Same6
Same4 == UNCHANGED v4 /\ Same5
Same3 == UNCHANGED v3 /\ Same4
Same2 == UNCHANGED v2 /\ Same3

PInit ==
    \/ part = "arena" /\ Mem!ArenaInit /\ Idle5
    \/ part = "files" /\ Files!FilesInit /\ Idle6
    \/ part = "keyboard" /\ Device!KeyboardInit /\ Idle6
    \/ part = "timer" /\ Device!TimerInit /\ Idle8
    \/ part = "pools" /\ Mem!PoolsInit /\ Idle8
    \/ part = "screen" /\ Device!ScreenInit /\ Idle6
    \/ part = "cpu" /\ Machine!CpuInit /\ Idle3
    \/ part = "step" /\ Machine!StepInit /\ Idle9
    \/ part = "loader" /\ Mem!LoaderInit /\ Idle6
    \/ part = "drives" /\ Files!PathsInit /\ Idle6
    \/ part = "chkdsk" /\ Dos!CheckInit /\ Idle3
    \/ part = "commands" /\ Dos!CommandInit /\ Idle5
    \/ part = "batch" /\ Dos!BatchInit /\ Idle6
    \/ part = "pipeline" /\ Dos!PipelineInit /\ Idle9
    \/ part = "desktop" /\ Desk!DesktopInit /\ Idle7
    \/ part = "ui" /\ Kit!UiInit /\ Idle9
    \/ part = "widgets" /\ Kit!WidgetInit /\ Idle5
    \/ part = "libwin" /\ Desk!WinInit /\ Idle12
    \/ part = "term" /\ App!TermInit /\ Idle8
    \/ part = "calc" /\ App!CalcInit /\ Idle4
    \/ part = "tsort" /\ Sorter!TsortInit
    \/ part = "ohash" /\ Sorter!OhashInit /\ Idle4
    \/ part = "getopt" /\ Tool!GetOptInit /\ Idle6
    \/ part = "expr" /\ Tool!ExprInit /\ Idle3
    \/ part = "merging" /\ Tool!MergingInit /\ Idle7

PNext ==
    /\ UNCHANGED part
    /\ \/ part = "arena" /\ Mem!ArenaNext /\ Same5
       \/ part = "files" /\ Files!FilesNext /\ Same6
       \/ part = "keyboard" /\ Device!KeyboardNext /\ Same6
       \/ part = "timer" /\ Device!TimerNext /\ Same8
       \/ part = "pools" /\ Mem!PoolsNext /\ Same8
       \/ part = "screen" /\ Device!ScreenNext /\ Same6
       \/ part = "cpu" /\ Machine!CpuNext /\ Same3
       \/ part = "step" /\ Machine!StepNext /\ Same9
       \/ part = "loader" /\ Mem!LoaderNext /\ Same6
       \/ part = "drives" /\ Files!PathsNext /\ Same6
       \/ part = "chkdsk" /\ Dos!CheckNext /\ Same3
       \/ part = "commands" /\ Dos!CommandNext /\ Same5
       \/ part = "batch" /\ Dos!BatchNext /\ Same6
       \/ part = "pipeline" /\ Dos!PipelineNext /\ Same9
       \/ part = "desktop" /\ Desk!DesktopNext /\ Same7
       \/ part = "ui" /\ Kit!UiNext /\ Same9
       \/ part = "widgets" /\ Kit!WidgetNext /\ Same5
       \/ part = "libwin" /\ Desk!WinNext /\ Same12
       \/ part = "term" /\ App!TermNext /\ Same8
       \/ part = "calc" /\ App!CalcNext /\ Same4
       \/ part = "tsort" /\ Sorter!TsortNext
       \/ part = "ohash" /\ Sorter!OhashNext /\ Same4
       \/ part = "getopt" /\ Tool!GetOptNext /\ Same6
       \/ part = "expr" /\ Tool!ExprNext /\ Same3
       \/ part = "merging" /\ Tool!MergingNext /\ Same7

pvars == <<part, v1, v2, v3, v4, v5, v6, v7, v8, v9, v10, v11, v12>>
PSpec == PInit /\ [][PNext]_pvars

-----------------------------------------------------------------------------
\* dosrun gives memory out soundly: the block chain covers it (MCBs), every
\* XMS and EMS page has one owner and shows what was written to it,
\* and a program is loaded inside the block it was given (load_program_at).
DosMemorySound ==
    /\ part = "arena" => Mem!ArenaSound
    /\ part = "pools" => Mem!PoolsSound
    /\ part = "loader" => Mem!LoadedInItsBlock

\* dosrun's machine computes what an 80386 does (cpu.c), interrupts give the
\* flags back as they took them (cpu_step), and its timer loses no tick.
DosMachineTrue ==
    /\ part = "cpu" => Machine!CpuComputes
    /\ part = "step" => Machine!FlagsComeBack
    /\ part = "timer" => Device!TimerTrue

\* A DOS program gets the keys in the order typed, each once, whichever of the
\* four interfaces it uses, and the console shows the text page
\* it wrote.
DosConsoleTrue ==
    /\ part = "keyboard" => Device!KeysInOrder
    /\ part = "screen" => Device!ConsoleShowsSeen

\* Every descriptor of the host has one owner among handles, control blocks and
\* searches, a path reaches the directory it names on the drive it
\* names, CHKDSK reports what is wrong and only that,
\* and COPY and REN keep the data.
DosFilesTrue ==
    /\ part = "files" => Files!DescriptorsOwnedOnce
    /\ part = "drives" => Files!DrivesSound
    /\ part = "chkdsk" => Dos!CheckTellsTruth
    /\ part = "commands" => Dos!CopyTrue

\* A batch file runs on from where it called (batch.c), and a pipeline's stages
\* all end with its descriptors put back (run_line).
DosShellTrue ==
    [][/\ part = "batch" => Dos!BatchAsPromised
       /\ part = "pipeline" => (Dos!PipelineEnds)']_pvars

\* Windows, focus and workspaces agree (desktop), the widget tree refers to no
\* widget that is gone (ui.c), what a widget shows is in its text (widgets.c), and
\* a window's events reach its program in order (win.c).
DesktopTrue ==
    /\ part = "desktop" => Desk!DesktopSound
    /\ part = "ui" => Kit!UiSound
    /\ part = "widgets" => Kit!WidgetsSound
    /\ part = "libwin" => Desk!WindowTrue

\* The terminal's screen and history are what was written to it (term.c),
\* and the calculator's result is the true one or none (calc.c).
ApplicationsTrue ==
    /\ part = "term" => App!TerminalTrue
    /\ part = "calc" => App!CalculatesTrue

\* The tools print what they promise: tsort an order that breaks only cycles,
\* through a hash table that loses no key, comm, join and uniq every line they
\* should, expr the value or an error, getopt every option and operand.
ToolsTrue ==
    /\ part = "tsort" => Sorter!TsortTrue
    /\ part = "ohash" => Sorter!TableTrue
    /\ part = "getopt" => Tool!OptionsThenOperands
    /\ part = "expr" => Tool!ExprTrue
    /\ part = "merging" => Tool!MergedTrue
=============================================================================
