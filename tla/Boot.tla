-------------------------------- MODULE Boot --------------------------------
(***************************************************************************)
(* How ManiOS comes to run: the boot loader, and the installer that puts   *)
(* it on a disk.                                                           *)
(***************************************************************************)
EXTENDS Integers, Sequences, FiniteSets

-----------------------------------------------------------------------------
(* Stage 2 of the boot loader: its real-mode part (boot/stage2_entry.S), the *)
(* loading of the kernel (boot/stage2.c) and what the kernel takes over      *)
(* (zkt/kernel/multiboot.c).  The BIOS answers as it likes; memory is        *)
(* counted in units, of which the first holds everything below 1 MiB.        *)

CONSTANTS Headers,       \* boot area headers: [addr, total]
          Kernels,       \* kernels: the sequences of [paddr, memsz] of their segments
          Modes,         \* VESA mode lists: sequences of [w, h, fits, sets]
          Wants,         \* what gfx= asks for: <<w, h>>, or <<0, 0>>
          AREA_MIN, AREA_MAX, RUN_MEMORY,
          MemTop,        \* mem_upper is at most this
          BA_CMDLINE_MAX, Bounce, Budget, MaxKeys

VARIABLES pc,
          boot,          \* the machine and the header: see Init
          mem_upper,     \* memory above the first unit
          line,          \* how long the command line is
          fb,            \* the mode set, 0 if none
          left, dest,    \* sectors still to read, where the next go
          stack,         \* what the routine now running has on its stack, top first
          a20,
          memory,        \* what each unit holds: "area", "kernel" or "none"
          info,          \* the Multiboot information: command line and module
          keys

bootVars == <<pc, boot, mem_upper, line, fb, left, dest, stack, a20, memory, info, keys>>

Min2(a, b) == IF a < b THEN a ELSE b
Up(n, by) == (n + (by - 1)) \div by

(* fail: say why and stop; print_error: say why and return, to whatever is   *)
(* on top of the stack.                                                      *)
Fail == pc' = "halted" /\ UNCHANGED stack

PrintError ==
  /\ pc' = IF Head(stack) = "return" THEN "loading" ELSE "wild"
  /\ stack' = Tail(stack)

(* memory_map: E801h, else AH=88h, which knows no more than its own limit.   *)
MemoryMap(e801) ==
  /\ pc = "memory"
  /\ mem_upper' = IF e801 THEN boot.mem ELSE Min2(boot.mem, boot.mem88)
  /\ pc' = "prompt"
  /\ UNCHANGED <<boot, line, fb, left, dest, stack, a20, memory, info, keys>>

(* boot_prompt: the header's command line; a key within the time edits it.   *)
BootPrompt(key) ==
  /\ pc = "prompt"
  /\ line' = Min2(boot.cmd, BA_CMDLINE_MAX - 1)
  /\ pc' = IF key THEN "edit" ELSE "vbe"
  /\ UNCHANGED <<boot, mem_upper, fb, left, dest, stack, a20, memory, info, keys>>

Edit(key) ==
  /\ pc = "edit" /\ keys < MaxKeys
  /\ keys' = keys + 1
  /\ pc' = IF key = "enter" THEN "vbe" ELSE "edit"
  /\ line' = CASE key = "char" -> IF line < BA_CMDLINE_MAX - 1 THEN line + 1 ELSE line
               [] key = "rubout" -> IF line > 0 THEN line - 1 ELSE 0
               [] key = "escape" -> 0
               [] OTHER -> line
  /\ UNCHANGED <<boot, mem_upper, fb, left, dest, stack, a20, memory, info>>

(* vbe_probe: of the first Budget - 1 modes, the first of the biggest that   *)
(* fit in what was asked for; it may still fail to be set.                   *)
Usable(i) == boot.modes[i].fits /\ boot.modes[i].w <= boot.want[1] /\ boot.modes[i].h <= boot.want[2]
Size(i) == boot.modes[i].w * boot.modes[i].h
Scanned == 1 .. Min2(Len(boot.modes), Budget - 1)

BestMode ==
  LET good == {i \in Scanned : Usable(i) /\ Size(i) > 0}
  IN  IF good = {} THEN 0
      ELSE CHOOSE i \in good : \A j \in good : Size(j) < Size(i) \/ (Size(j) = Size(i) /\ i <= j)

VbeProbe(answers) ==
  /\ pc = "vbe"
  /\ fb' = IF boot.want[1] = 0 \/ boot.want[2] = 0 \/ ~answers \/ BestMode = 0 THEN 0
           ELSE IF boot.modes[BestMode].sets THEN BestMode ELSE 0
  /\ pc' = "load"
  /\ UNCHANGED <<boot, mem_upper, line, left, dest, stack, a20, memory, info, keys>>

(* load_area: is the header sane, is there memory for the area and to run    *)
(* in?  Then a buffer-full of sectors at a time.                             *)
LoadAreaRefused ==
  /\ pc = "load"
  /\ \/ boot.head.addr < AREA_MIN \/ boot.head.total > AREA_MAX
     \/ boot.head.addr + boot.head.total + RUN_MEMORY > mem_upper + 1
  /\ Fail
  /\ UNCHANGED <<boot, mem_upper, line, fb, left, dest, a20, memory, info, keys>>

LoadAreaAnyMemory ==
  /\ pc = "load"
  /\ boot.head.addr >= AREA_MIN /\ boot.head.total <= AREA_MAX
  /\ left' = Up(boot.head.total, boot.sector) /\ dest' = boot.head.addr
  /\ pc' = "loading" /\ stack' = <<>>
  /\ UNCHANGED <<boot, mem_upper, line, fb, a20, memory, info, keys>>

LoadArea ==
  /\ pc = "load"
  /\ boot.head.addr >= AREA_MIN /\ boot.head.total <= AREA_MAX
  /\ boot.head.addr + boot.head.total + RUN_MEMORY <= mem_upper + 1
  /\ left' = Up(boot.head.total, boot.sector) /\ dest' = boot.head.addr
  /\ pc' = "loading" /\ stack' = <<>>
  /\ UNCHANGED <<boot, mem_upper, line, fb, a20, memory, info, keys>>

Chunk == Min2(Bounce \div boot.sector, left)

(* read_chunk; INT 13h may fail.                                             *)
ReadChunk(ok) ==
  /\ pc = "loading" /\ left > 0
  /\ IF ok THEN pc' = "copy" /\ stack' = <<"registers", "return">> ELSE Fail
  /\ UNCHANGED <<boot, mem_upper, line, fb, left, dest, a20, memory, info, keys>>

(* copy_up: INT 15h AH=87h moves the chunk above 1 MiB; its registers are    *)
(* on the stack until it returns.                                            *)
CopyUp ==
  /\ pc = "copy"
  /\ memory' = [u \in DOMAIN memory |-> IF u \in dest .. dest + Chunk * boot.sector - 1
                                        THEN "area" ELSE memory[u]]
  /\ dest' = dest + Chunk * boot.sector
  /\ left' = left - Chunk
  /\ pc' = "loading" /\ stack' = <<>>
  /\ UNCHANGED <<boot, mem_upper, line, fb, a20, info, keys>>

CopyError ==
  /\ pc = "copy" /\ PrintError
  /\ UNCHANGED <<boot, mem_upper, line, fb, left, dest, a20, memory, info, keys>>

(* enable_a20: four ways, each tried when the one before did not help.       *)
EnableA20(on) ==
  /\ pc = "loading" /\ left = 0
  /\ a20' = on
  /\ IF on THEN pc' = "protected" /\ UNCHANGED stack ELSE Fail
  /\ UNCHANGED <<boot, mem_upper, line, fb, left, dest, memory, info, keys>>

(* load_kernel: each segment above 1 MiB and below the area; the file's      *)
(* bytes, the rest cleared.  stage2_main has checked the area first.         *)
SegmentGood(s) ==
  /\ s.paddr >= 1 /\ s.paddr <= boot.head.addr
  /\ s.memsz <= boot.head.addr - s.paddr

LoadKernel ==
  /\ pc = "protected" /\ ~boot.damaged
  /\ LET segs == boot.kernel
         good == \A i \in DOMAIN segs : segs[i].memsz = 0 \/ SegmentGood(segs[i])
     IN  IF good
         THEN /\ memory' = [u \in DOMAIN memory |->
                              IF \E i \in DOMAIN segs : u \in segs[i].paddr .. segs[i].paddr + segs[i].memsz - 1
                              THEN "kernel" ELSE memory[u]]
              /\ info' = [cmd |-> line, from |-> boot.head.addr, to |-> boot.head.addr + boot.head.total,
                          fb |-> fb]
              /\ pc' = "started" /\ UNCHANGED stack
         ELSE Fail /\ UNCHANGED <<memory, info>>
  /\ UNCHANGED <<boot, mem_upper, line, fb, left, dest, a20, keys>>

Stage2MainRefuses ==
  /\ pc = "protected" /\ boot.damaged /\ Fail
  /\ UNCHANGED <<boot, mem_upper, line, fb, left, dest, a20, memory, info, keys>>

BootInit ==
      /\ pc = "memory"
      /\ boot \in [head : Headers, kernel : Kernels, modes : Modes, want : Wants, damaged : BOOLEAN,
                   mem : {MemTop - 1, MemTop}, mem88 : {MemTop - 2}, sector : {1, 2}, cmd : {0, BA_CMDLINE_MAX}]
      /\ mem_upper = 0 /\ line = 0 /\ fb = 0 /\ left = 0 /\ dest = 0
      /\ stack = <<>> /\ a20 = FALSE /\ keys = 0
      /\ memory = [u \in 0 .. MemTop |-> "none"]
      /\ info = [cmd |-> 0, from |-> 0, to |-> 0, fb |-> 0]

BootNext ==
      \/ LoadAreaRefused \/ LoadArea \/ CopyUp \/ CopyError \/ LoadKernel \/ Stage2MainRefuses
      \/ \E b \in BOOLEAN : MemoryMap(b) \/ BootPrompt(b) \/ VbeProbe(b) \/ ReadChunk(b) \/ EnableA20(b)
      \/ \E key \in {"char", "rubout", "escape", "enter", "other"} : Edit(key)

BootSpec == BootInit /\ [][BootNext]_bootVars

-----------------------------------------------------------------------------
(* A kernel that starts finds what it was promised: every segment of it in   *)
(* memory, the whole boot area behind it untouched, as the module the        *)
(* Multiboot information names, and RUN_MEMORY beyond both; a command line   *)
(* that fits its buffer with its end; and, when it is told of a framebuffer, *)
(* a mode no bigger than asked for, no other of the usable ones bigger.      *)
KernelAsPromised ==
  /\ line < BA_CMDLINE_MAX
  /\ pc = "started" =>
       /\ a20 /\ ~boot.damaged
       /\ \A u \in info.from .. info.to - 1 : u \in DOMAIN memory /\ memory[u] = "area"
       /\ \A i \in DOMAIN boot.kernel :
            \A u \in boot.kernel[i].paddr .. boot.kernel[i].paddr + boot.kernel[i].memsz - 1 :
               u \in DOMAIN memory /\ memory[u] = "kernel"
       /\ info.to + RUN_MEMORY <= boot.mem + 1
       /\ memory[0] = "none"
       /\ info.fb # 0 => /\ Usable(info.fb)
                         /\ \A i \in Scanned : Usable(i) => Size(i) <= Size(info.fb)

(* "If the loader cannot go on, it says why (after `ManiOS boot loader: `)   *)
(* and stops" (docs/install.md): no failure sends it anywhere else.          *)
LoaderStops == pc # "wild"

-----------------------------------------------------------------------------
(* Installing ManiOS on a disk (userland/bin/install.c) and starting from it *)
(* (boot/mbr.S and the check stage2_main makes, boot/stage2.c), with a power *)
(* cut between any two writes.  The boot area is its header, the MBR code,   *)
(* stage 2 and the kernel; a block's content is the release it came from.    *)

CONSTANTS Release,       \* the release being installed
          Old,           \* another one
          Bad,           \* a block the disk does not give back as written
          Cmds           \* command lines

VARIABLES phase,         \* where install is, or "off", or how the boot ended
          at,            \* the block written next
          disk,          \* [mbr, blk, cmd]: the first sector, the boot area, its command line
          was,           \* the disk before install
          cmd,           \* the command line asked for
          whole          \* the disk is big enough, /dev/bootarea undamaged

installVars == <<phase, at, disk, was, cmd, whole>>

(* Block 1 is the header, 2 the MBR code, 3 and 4 stage 2, 5 and 6 the       *)
(* kernel.  The header's checksum is that of the other blocks of its release.*)
Block == 1 .. 6
Stage2 == {3, 4}
NoCmd == "none"

(* A disk with nothing of ManiOS's on it, or an earlier install.             *)
Disks == {[mbr |-> 0, blk |-> [b \in Block |-> 0], cmd |-> NoCmd]}
         \cup {[mbr |-> r, blk |-> [b \in Block |-> r], cmd |-> c] : r \in {Release, Old}, c \in Cmds}

(* main: refusals before anything is written, then the question.             *)
Refuse ==
  /\ phase = "start" /\ ~whole
  /\ phase' = "refused"
  /\ UNCHANGED <<at, disk, was, cmd, whole>>

Confirm(yes) ==
  /\ phase = "start" /\ whole
  /\ phase' = IF yes THEN "area" ELSE "refused"
  /\ UNCHANGED <<at, disk, was, cmd, whole>>

(* write_at, a piece at a time: the boot area, then the MBR.                 *)
WriteArea(what) ==
  /\ phase = "area" /\ at \in Block
  /\ disk' = [disk EXCEPT !.blk[at] = what, !.cmd = IF at = 1 THEN cmd ELSE @]
  /\ at' = at + 1
  /\ UNCHANGED <<phase, was, cmd, whole>>

WriteMbrFirst ==
  /\ phase = "area" /\ at = 1 /\ disk.mbr # Release
  /\ disk' = [disk EXCEPT !.mbr = Release]
  /\ UNCHANGED <<phase, at, was, cmd, whole>>

WriteMbr ==
  /\ phase = "area" /\ at \notin Block
  /\ disk' = [disk EXCEPT !.mbr = Release]
  /\ phase' = "check"
  /\ UNCHANGED <<at, was, cmd, whole>>

WriteFails ==
  /\ phase = "area"
  /\ phase' = "failed"
  /\ UNCHANGED <<at, disk, was, cmd, whole>>

(* same_at: everything read back and compared.                               *)
SameAt ==
  /\ phase = "check"
  /\ phase' = IF \A b \in Block : disk.blk[b] = Release THEN "done" ELSE "failed"
  /\ UNCHANGED <<at, disk, was, cmd, whole>>

PowerOff ==
  /\ phase \in {"start", "area", "check", "done", "failed", "refused"}
  /\ phase' = "off"
  /\ UNCHANGED <<at, disk, was, cmd, whole>>

(* mbr.S: the header's magic, then stage 2 as the header says, unchecked.    *)
(* stage2_main checks the rest; stage 2 itself half-overwritten may do       *)
(* anything (modelled as "undefined").                                       *)
Mbr ==
  IF disk.mbr = 0 THEN "not_manios"
  ELSE IF disk.blk[1] \in {0, Bad} THEN "bad_area"
  ELSE IF Bad \in {disk.blk[b] : b \in Stage2} \/ disk.blk[3] # disk.blk[4] THEN "undefined"
  ELSE "stage2"

Stage2Main ==
  IF \E b \in Block \ {1} : disk.blk[b] # disk.blk[1] THEN "damaged" ELSE "started"

Boot ==
  /\ phase = "off"
  /\ phase' = IF Mbr = "stage2" THEN Stage2Main ELSE Mbr
  /\ UNCHANGED <<at, disk, was, cmd, whole>>

InstallInit ==
         /\ phase = "start" /\ at = 1
         /\ disk \in Disks /\ was = disk
         /\ cmd \in Cmds /\ whole \in BOOLEAN

InstallNext ==
         \/ Refuse \/ WriteMbr \/ WriteFails \/ SameAt \/ PowerOff \/ Boot
         \/ \E yes \in BOOLEAN : Confirm(yes)
         \/ \E what \in {Release, Bad} : WriteArea(what)

InstallSpec == InstallInit /\ [][InstallNext]_installVars

-----------------------------------------------------------------------------
(* What starts from the disk is one release, whole, with a command line of   *)
(* its own; a new MBR never points at a half-written boot area, and a        *)
(* half-overwritten older ManiOS fails the loader's checksum rather than     *)
(* starting (M14-installer-release.md).  An install that says it is done has *)
(* installed everything, and one that was refused has left the disk alone.   *)
InstallSafe ==
  /\ phase = "started" => \A b \in Block : disk.blk[b] = disk.blk[1]
  /\ phase = "started" /\ disk.blk[1] # Release => disk = was
  /\ was.mbr = 0 /\ disk.mbr # 0 => \A b \in Block : disk.blk[b] \in {Release, Bad}
  /\ phase = "done" => disk.mbr = Release /\ disk.cmd = cmd /\ \A b \in Block : disk.blk[b] = Release
  /\ phase \in {"start", "refused"} => disk = was
=============================================================================
