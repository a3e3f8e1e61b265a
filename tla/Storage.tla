------------------------------- MODULE Storage -------------------------------
(***************************************************************************)
(* The disks of ZKT: fixed disks behind the block layer, and the media     *)
(* that can be exchanged.                                                  *)
(***************************************************************************)
EXTENDS Naturals, Sequences, FiniteSets

-----------------------------------------------------------------------------
(***************************************************************************)
(* The disks of ZKT beneath its block layer: device.c's bounds checks,     *)
(* mbr.c's partitions, and the three polled drivers, ata.c (IDE, by LBA or *)
(* CHS), ahci.c (SATA) and virtio_blk.c.  A transfer is split into         *)
(* commands of at most MaxSectors blocks, one at a time under the driver's *)
(* lock, each through a buffer the drive fills or empties; a write ends    *)
(* with a flush of the drive's cache.  A command the drive has not         *)
(* finished in TIMEOUT_MS is given up.  The drive itself is external.      *)
(***************************************************************************)

CONSTANTS Blocks,      \* the disk's block_count
          MaxSectors,  \* blocks of one command; a register's 0 stands for it
          Byte,        \* the values of a task-file register
          Heads,       \* the geometry of CHS addressing
          Sectors,
          Kinds,       \* the drivers: "ata", "chs", "sata", "vd"
          Tables,      \* partition tables: sequences of [type, start, count]
          Data,        \* what is written (block b is made holding b)
          MaxCount,    \* the longest transfer asked for
          MaxLate,     \* commands the drive may have in hand at once
          MaxCalls     \* transfers of a behaviour

VARIABLES disk,      \* [kind, flush]: the driver, and whether the drive has a cache
          parts,     \* the devices: the disk and its partitions, [start, count]
          medium,    \* what the drive's medium holds
          cache,     \* what its write cache holds: [block -> <<>> or <<data>>]
          call,      \* the transfer under way, <<>> or <<[...]>>
          dev,       \* the commands in the drive's hands
          used,      \* the answers of the drive nobody has looked at yet
          bounce,    \* the buffer
          want,      \* what each block may hold, after the answers given
          got,       \* the last read's answer, <<>> or <<[at, buf]>>
          calls,     \* transfers so far
          late       \* was a command given up that the drive still had?

diskVars == <<disk, parts, medium, cache, call, dev, used, bounce, want, got, calls, late>>

(* The drivers, by what they do differently.  flushes: a write ends with a *)
(* flush even if the drive did not say it has a cache; forgives: a flush   *)
(* the drive does not know is no error; takes_back: a command given up is  *)
(* taken from the drive.                                                   *)
(* ata.c read_sectors, write_sectors.                                      *)
Ata == [flushes |-> TRUE, forgives |-> TRUE, takes_back |-> FALSE]

(* ahci.c issue (which stops the port), sata_read, sata_write.             *)
Ahci == [flushes |-> TRUE, forgives |-> FALSE, takes_back |-> TRUE]

(* virtio_blk.c request, vd_read, vd_write.                                *)
VirtioBlk == [flushes |-> FALSE, forgives |-> FALSE, takes_back |-> FALSE]

Driver == [ata |-> Ata, chs |-> Ata, sata |-> Ahci, vd |-> VirtioBlk][disk.kind]
Block == 0 .. Blocks - 1
Least(a, b) == IF a < b THEN a ELSE b
Contents == [b \in Block |-> IF cache[b] = <<>> THEN medium[b] ELSE cache[b][1]]
NoCache == [b \in Block |-> <<>>]

(* mbr_scan: the entries that are partitions of this disk become devices.  *)
MbrScan(table) ==
  {[start |-> table[i].start, count |-> table[i].count] : i \in {j \in DOMAIN table :
     /\ table[j].type \notin {"none", "extended"} /\ table[j].count # 0
     /\ table[j].start # 0 /\ table[j].start < Blocks
     /\ table[j].count <= Blocks - table[j].start}}

DiskInit == /\ disk \in [kind : Kinds, flush : BOOLEAN]
            /\ parts \in {{[start |-> 0, count |-> Blocks]} \cup MbrScan(t) : t \in Tables}
            /\ medium = [b \in Block |-> b] /\ cache = NoCache
            /\ call = <<>> /\ dev = <<>> /\ used = <<>> /\ bounce = [i \in 1 .. MaxSectors |-> 0] /\ got = <<>> /\ calls = 0 /\ late = FALSE
            /\ want = [b \in Block |-> {medium[b]}]

(* device_read_blocks, device_write_blocks: does the device have them?     *)
InDevice(d, lba, count) == lba <= d.count /\ count <= d.count - lba

(* A transfer: bounds checked on the partition, then (partition_read,      *)
(* partition_write) on the disk at the partition's start.                  *)
Transfer(op, d, lba, count, data) ==
  /\ call = <<>> /\ d \in parts /\ count > 0 /\ InDevice(d, lba, count)
  /\ InDevice([start |-> 0, count |-> Blocks], d.start + lba, count)
  /\ call' = <<[op |-> op, at |-> d.start + lba, lba |-> d.start + lba, left |-> count,
                data |-> data, buf |-> <<>>, state |-> "issue"]>>
  /\ want' = IF op = "write" THEN [b \in Block |-> IF b \in d.start + lba .. (d.start + lba + count) - 1
                THEN want[b] \cup {data} ELSE want[b]] ELSE want
  /\ got' = <<>> /\ calls < MaxCalls /\ calls' = calls + 1
  /\ UNCHANGED <<disk, parts, medium, cache, dev, used, bounce, late>>

(* set_address: the task-file registers; by CHS the sector counts from 1.  *)
SetAddress(lba, n) ==
  LET rest == lba % (Heads * Sectors)
      cyl == lba \div (Heads * Sectors)
  IN IF disk.kind = "chs"
     THEN <<(rest % Sectors) + 1, cyl % Byte, cyl \div Byte, rest \div Sectors, n % MaxSectors>>
     ELSE <<lba % Byte, (lba \div Byte) % Byte, (lba \div (Byte * Byte)) % Byte,
            lba \div (Byte * Byte * Byte), n % MaxSectors>>

(* The drive's reading of the registers: external.                         *)
Addressed(r) ==
  [at |-> IF disk.kind = "chs"
          THEN ((r[2] + Byte * r[3]) * Heads + r[4]) * Sectors + (r[1] - 1)
          ELSE r[1] + Byte * (r[2] + Byte * (r[3] + Byte * r[4])),
   n |-> IF r[5] = 0 THEN MaxSectors ELSE r[5]]

(* One command of read_sectors, write_sectors, sata_read, sata_write,      *)
(* vd_read, vd_write; or the flush a write ends with.                      *)
Issue == /\ call # <<>> /\ call[1].state = "issue" /\ Len(dev) < MaxLate
         /\ LET c == call[1]
                n == Least(c.left, MaxSectors)
            IN IF c.left = 0
               THEN /\ dev' = Append(dev, [op |-> "flush", regs |-> SetAddress(0, 0)])
                    /\ call' = <<[c EXCEPT !.state = "flushing"]>> /\ UNCHANGED bounce
               ELSE /\ bounce' = IF c.op = "write" THEN [i \in 1 .. MaxSectors |-> IF i <= n THEN c.data ELSE bounce[i]] ELSE bounce
                    /\ dev' = Append(dev, [op |-> c.op, regs |-> SetAddress(c.at, n)])
                    /\ call' = <<[c EXCEPT !.state = "waiting"]>>
         /\ UNCHANGED <<disk, parts, medium, cache, used, want, got, calls, late>>

(* The drive performs its oldest command, or fails it: external.           *)
Drive(ok) ==
  /\ dev # <<>>
  /\ LET a == Addressed(Head(dev).regs)
         op == Head(dev).op
         hit(b) == b \in a.at .. (a.at + a.n) - 1
     IN /\ bounce' = IF ok /\ op = "read" 
                     THEN [i \in 1 .. MaxSectors |-> IF i <= a.n THEN Contents[(a.at + i) - 1] ELSE bounce[i]]
                     ELSE bounce
        /\ cache' = IF ok /\ op = "write" /\ disk.flush
                    THEN [b \in Block |-> IF hit(b) THEN <<bounce[(b - a.at) + 1]>> ELSE cache[b]]
                    ELSE IF ok /\ op = "flush" THEN NoCache ELSE cache
        /\ medium' = IF ok /\ op = "write" /\ ~disk.flush
                     THEN [b \in Block |-> IF hit(b) THEN bounce[(b - a.at) + 1] ELSE medium[b]]
                     ELSE IF ok /\ op = "flush" THEN Contents ELSE medium
  /\ dev' = Tail(dev) /\ used' = Append(used, ok)
  /\ UNCHANGED <<disk, parts, call, want, got, calls, late>>

(* The end of a transfer, with 0 or an error.                              *)
Finish(c, ok) ==
  /\ call' = <<>>
  /\ want' = IF ok /\ c.op = "write"
             THEN [b \in Block |-> IF b \in c.lba .. c.at - 1 THEN {c.data} ELSE want[b]] ELSE want
  /\ got' = IF ok /\ c.op = "read" THEN <<[at |-> c.lba, buf |-> c.buf]>> ELSE <<>>

AnsweredNoFlush ==
  /\ call # <<>> /\ used # <<>> /\ used' = Tail(used) /\ call[1].state = "waiting"
  /\ LET c == call[1]
         n == Least(c.left, MaxSectors)
         d == [c EXCEPT !.at = @ + n, !.left = @ - n, !.state = "issue",
                        !.buf = IF c.op = "read" THEN @ \o SubSeq(bounce, 1, n) ELSE @]
     IN IF ~Head(used) \/ d.left = 0 THEN Finish(d, Head(used)) ELSE call' = <<d>> /\ UNCHANGED <<want, got>>
  /\ UNCHANGED <<disk, parts, medium, cache, dev, bounce, calls, late>>

(* The status the polling loop sees: the drive's next answer.  A write     *)
(* goes on to the flush: always on ata and ahci, on virtio if the drive    *)
(* offers it.  An ata flush the drive aborts is taken for done.            *)
Answered ==
  /\ call # <<>> /\ used # <<>> /\ used' = Tail(used)
  /\ LET c == call[1]
         n == Least(c.left, MaxSectors)
         d == [c EXCEPT !.at = @ + n, !.left = @ - n, !.state = "issue",
                        !.buf = IF c.op = "read" THEN @ \o SubSeq(bounce, 1, n) ELSE @]
         flushes == c.op = "write" /\ (Driver.flushes \/ disk.flush)
     IN \/ c.state = "waiting" /\ ~Head(used) /\ Finish(c, FALSE)
        \/ c.state = "waiting" /\ Head(used) /\ d.left = 0 /\ ~flushes /\ Finish(d, TRUE)
        \/ /\ c.state = "waiting" /\ Head(used) /\ (d.left > 0 \/ flushes)
           /\ call' = <<d>> /\ UNCHANGED <<want, got>>
        \/ c.state = "flushing" /\ Finish(c, Head(used) \/ (Driver.forgives /\ ~disk.flush))
  /\ UNCHANGED <<disk, parts, medium, cache, dev, bounce, calls, late>>

(* TIMEOUT_MS is over: -EIO.  ahci.c's issue stops the port, which takes   *)
(* the command back; the other two leave it with the drive.                *)
TimedOut == /\ call # <<>> /\ call[1].state \in {"waiting", "flushing"} /\ used = <<>>
            /\ Finish(call[1], FALSE)
            /\ dev' = IF Driver.takes_back THEN <<>> ELSE dev
            /\ late' = (late \/ dev' # <<>>)
            /\ UNCHANGED <<disk, parts, medium, cache, used, bounce, calls>>

(* The power goes: what was only in the drive's cache is lost.             *)
PowerOff == /\ cache # NoCache /\ cache' = NoCache /\ dev' = <<>> /\ used' = <<>>
            /\ call' = <<>> /\ got' = <<>> /\ UNCHANGED <<disk, parts, medium, bounce, want, calls, late>>

DiskNext == \/ \E d \in parts, lba \in 0 .. Blocks, n \in 1 .. MaxCount :
                 \/ Transfer("read", d, lba, n, 0)
                 \/ \E v \in Data : Transfer("write", d, lba, n, v)
            \/ Issue \/ (\E ok \in BOOLEAN : Drive(ok)) \/ Answered \/ TimedOut \/ PowerOff

DiskSpec == DiskInit /\ [][DiskNext]_diskVars

(***************************************************************************)
(* Until a driver gives up a command its drive still has: a read that      *)
(* returns 0 has the blocks asked for, through the split into commands,    *)
(* the registers' encoding and the partition's offset; a write that        *)
(* returns 0 is on the medium, whatever the power does after (the flush    *)
(* write_sectors, sata_write and vd_write end with); no other block is     *)
(* touched.  On ahci this holds after a time-out too: issue stops the port *)
(* before it returns.                                                      *)
(***************************************************************************)
DiskTrue ==
  /\ disk.kind = "sata" => ~late
  /\ late \/ /\ \A b \in Block : medium[b] \in want[b] /\ Contents[b] \in want[b]
             /\ got # <<>> => \A i \in DOMAIN got[1].buf :
                  got[1].buf[i] = Contents[(got[1].at + i) - 1]

(* "One request at a time" (virtio_blk.c:8-10): the drive never holds two. *)
OneAtATime == disk.kind = "vd" => Len(dev) <= 1

-----------------------------------------------------------------------------
(***************************************************************************)
(* Drives whose disk may be exchanged: floppy.c, with its cache of whole   *)
(* cylinders and the drive's change line, and atapi.c, where the drive     *)
(* tells of a new disc by UNIT ATTENTION.  A transfer takes the driver's   *)
(* lock and goes by cylinder (floppy) or by command (CD); the disks, what  *)
(* they hold and when they are exchanged are external.  A disk is          *)
(* exchanged between transfers, or, with Anytime, between their steps.     *)
(***************************************************************************)

CONSTANTS Disk,       \* the disks one may put in
          NoDisk,
          Cylinders,  \* cylinders of a floppy; commands of a CD
          PerCylinder,\* its sectors
          Slots,      \* CACHE_SLOTS
          Anytime,    \* may a disk be exchanged while a transfer is under way?
          MaxChanges  \* disks put in

VARIABLES kind,     \* "fd" or "cd"
          inside,   \* the disk in the drive
          line,     \* the floppy's change line; the CD's pending UNIT ATTENTION
          holds,    \* what each floppy holds: [Disk -> [cylinder -> [sector -> value]]]
          drive,    \* struct drive [format, calibrated, cylinder]; struct atapi [measured]
          media_cache,    \* struct slot cache[], least recently used first
          media_call,     \* the transfer, <<>> or <<[...]>>
          told,     \* dev->media_changes since the last good read
          from,     \* the disk of the last good read
          good,     \* was what the last read returned on the disk in the drive?
          changes   \* disks put in so far

mediaVars == <<kind, inside, line, holds, drive, media_cache, media_call, told, from, good, changes>>

Cyl == 0 .. Cylinders - 1
Sector == 1 .. PerCylinder

MediaInit == /\ kind \in {"fd", "cd"} /\ inside = NoDisk /\ line = TRUE
             /\ holds = [d \in Disk |-> [c \in Cyl |-> [s \in Sector |-> "old"]]]
             /\ drive = [ready |-> FALSE, calibrated |-> FALSE, cylinder |-> 0]
             /\ media_cache = <<>> /\ media_call = <<>> /\ told = FALSE /\ from = NoDisk /\ good = TRUE /\ changes = 0

(* A disk is put in or taken out: external.  The floppy's change line and  *)
(* the CD's UNIT ATTENTION are raised.                                     *)
Exchange(d) == /\ Anytime \/ media_call = <<>>
               /\ d # inside /\ changes < MaxChanges /\ changes' = changes + 1
               /\ inside' = d /\ line' = (kind = "fd" \/ d # NoDisk)
               /\ UNCHANGED <<kind, holds, drive, media_cache, media_call, told, from, good>>

-----------------------------------------------------------------------------
(* floppy.c.  A command the controller does not finish in time, or that    *)
(* fails, leaves the head lost (send, result, sense, wait_irq, reset).     *)

(* recalibrate, seek: stepping clears the change line once a disk is in.   *)
Seek(d, cyl, ok) ==
  IF d.calibrated /\ d.cylinder = cyl THEN d
  ELSE [d EXCEPT !.calibrated = ok, !.cylinder = IF ok THEN cyl ELSE @]
Steps(d, cyl) == ~d.calibrated \/ d.cylinder # cyl

(* forget: no slot is this drive's any more.                               *)
Forget == <<>>

CheckChangeKeeps(ok) ==
  IF ~line THEN /\ UNCHANGED <<drive, media_cache, line>>
  ELSE /\ drive' = [ready |-> ok /\ inside # NoDisk, calibrated |-> ok, cylinder |-> 0]
       /\ line' = (inside = NoDisk) /\ UNCHANGED media_cache

(* detect: the first format that reads, or none.  check_change: a raised   *)
(* line means everything known of the disk is wrong.                       *)
CheckChange(ok) ==
  IF ~line THEN /\ UNCHANGED <<drive, media_cache, line>>
  ELSE /\ media_cache' = Forget
       /\ drive' = [ready |-> ok /\ inside # NoDisk, calibrated |-> ok, cylinder |-> 0]
       /\ line' = (inside = NoDisk)

(* rw: select, check_change, and -EIO without a readable disk.             *)
Rw(op, first, last, ok) ==
  /\ kind = "fd" /\ media_call = <<>> /\ CheckChange(ok)
  /\ media_call' = IF drive'.ready THEN <<[op |-> op, cyl |-> first, last |-> last]>> ELSE <<>>
  /\ UNCHANGED <<kind, inside, holds, told, from, good, changes>>

Cached(cyl) == {i \in DOMAIN media_cache : media_cache[i].cyl = cyl}
Without(i) == SubSeq(media_cache, 1, i - 1) \o SubSeq(media_cache, i + 1, Len(media_cache))
Advance == media_call' = IF media_call[1].cyl = media_call[1].last THEN <<>> ELSE <<[media_call[1] EXCEPT !.cyl = @ + 1]>>

(* The sectors of this cylinder the transfer is about: all of them but,    *)
(* on the last cylinder, only the first.                                   *)
Wanted == IF media_call[1].cyl = media_call[1].last THEN {1} ELSE Sector

(* cached, fill: a cylinder from its slot, which becomes the last used;    *)
(* else the whole cylinder is read and takes the least recently used slot. *)
(* If some of it does not read, only the sectors asked for are.            *)
ReadCylinder(whole, ok) ==
  /\ kind = "fd" /\ media_call # <<>> /\ media_call[1].op = "read"
  /\ LET cyl == media_call[1].cyl
         hit == Cached(cyl)
         now == [cyl |-> cyl, data |-> holds[inside][cyl]]
         i == CHOOSE j \in hit : TRUE
     IN IF hit # {}
        THEN /\ good' = \A s \in Wanted : inside # NoDisk /\ media_cache[i].data[s] = holds[inside][cyl][s]
             /\ media_cache' = Append(Without(i), media_cache[i])
             /\ UNCHANGED <<drive, line>> /\ Advance
        ELSE LET reads == inside # NoDisk /\ (whole \/ ok)
             IN /\ drive' = Seek(drive, cyl, reads)
                /\ line' = (line /\ ~(Steps(drive, cyl) /\ inside # NoDisk))
                /\ media_cache' = IF inside # NoDisk /\ whole
                                  THEN Append(IF Len(media_cache) = Slots THEN Tail(media_cache) ELSE media_cache, now)
                                  ELSE media_cache
                /\ good' = TRUE
                /\ IF reads THEN Advance ELSE media_call' = <<>>
  /\ UNCHANGED <<kind, inside, holds, told, from, changes>>

(* A write goes through to the disk; its slot is written too, or given up  *)
(* if the write failed after RETRIES tries, some sectors written.          *)
WriteCylinder(ok, done) ==
  /\ kind = "fd" /\ media_call # <<>> /\ media_call[1].op = "write" /\ inside # NoDisk
  /\ LET cyl == media_call[1].cyl
         hit == Cached(cyl)
         i == CHOOSE j \in hit : TRUE
         put(old, what) == [s \in Sector |-> IF s \in what THEN "new" ELSE old[s]]
     IN /\ done \subseteq Wanted /\ (ok => done = Wanted)
        /\ holds' = [holds EXCEPT ![inside][cyl] = put(@, done)]
        /\ media_cache' = IF hit = {} THEN media_cache
                          ELSE IF ok THEN Append(Without(i), [media_cache[i] EXCEPT !.data = put(@, Wanted)])
                          ELSE Without(i)
        /\ drive' = Seek(drive, cyl, ok)
        /\ line' = (line /\ ~Steps(drive, cyl))
        /\ IF ok THEN Advance ELSE media_call' = <<>>
  /\ UNCHANGED <<kind, inside, told, from, good, changes>>

(* The drive is empty: the write fails.                                    *)
WriteNothing == /\ kind = "fd" /\ media_call # <<>> /\ media_call[1].op = "write" /\ inside = NoDisk
                /\ media_call' = <<>> /\ drive' = [drive EXCEPT !.calibrated = FALSE]
                /\ media_cache' = SelectSeq(media_cache, LAMBDA s : s.cyl # media_call[1].cyl)
                /\ UNCHANGED <<kind, inside, line, holds, told, from, good, changes>>

-----------------------------------------------------------------------------
(* atapi.c.  command: what the drive answers, with the sense read after an *)
(* error, which also ends a UNIT ATTENTION.                                *)
Answer == IF inside = NoDisk THEN "not ready" ELSE IF line THEN "attention" ELSE "ok"

(* measure: up to three TEST UNIT READY past the UNIT ATTENTION, then READ *)
(* CAPACITY.                                                               *)
Measure(ok) == drive' = [drive EXCEPT !.ready = ok /\ inside # NoDisk]

(* cd_read: one READ(10).  A new disc fails the read: it was meant for the *)
(* old one.                                                                *)
CdStart(last) == /\ kind = "cd" /\ media_call = <<>> /\ media_call' = <<[op |-> "read", cyl |-> 0, last |-> last]>>
                 /\ UNCHANGED <<kind, inside, line, holds, drive, media_cache, told, from, good, changes>>

CdReadQuiet(ok) ==
  /\ kind = "cd" /\ media_call # <<>>
  /\ LET a == Answer
     IN \/ /\ a = "attention" /\ Measure(ok) /\ line' = FALSE /\ told' = told
           /\ media_call' = <<>> /\ UNCHANGED <<from, good>>
        \/ /\ a = "not ready" /\ drive' = [drive EXCEPT !.ready = FALSE] /\ told' = TRUE
           /\ media_call' = <<>> /\ UNCHANGED <<line, from, good>>
        \/ /\ a = "ok" /\ Advance /\ UNCHANGED <<drive, line>>
           /\ IF media_call' = <<>> THEN good' = (told \/ from = inside) /\ from' = inside /\ told' = FALSE
              ELSE UNCHANGED <<good, from, told>>
  /\ UNCHANGED <<kind, inside, holds, media_cache, changes>>

CdRead(ok) ==
  /\ kind = "cd" /\ media_call # <<>>
  /\ LET a == IF drive.ready THEN Answer ELSE "attention"
     IN \/ /\ a = "attention" /\ Measure(ok) /\ line' = FALSE /\ told' = TRUE
           /\ media_call' = <<>> /\ UNCHANGED <<from, good>>
        \/ /\ a = "not ready" /\ drive' = [drive EXCEPT !.ready = FALSE] /\ told' = TRUE
           /\ media_call' = <<>> /\ UNCHANGED <<line, from, good>>
        \/ /\ a = "ok" /\ Advance /\ UNCHANGED <<drive, line>>
           /\ IF media_call' = <<>> THEN good' = (told \/ from = inside) /\ from' = inside /\ told' = FALSE
              ELSE UNCHANGED <<good, from, told>>
  /\ UNCHANGED <<kind, inside, holds, media_cache, changes>>

(* cd_check_media, lost.                                                   *)
CdCheckMedia(ok) ==
  /\ kind = "cd" /\ media_call = <<>>
  /\ IF Answer = "attention" \/ (Answer = "ok" /\ ~drive.ready)
     THEN Measure(ok) /\ told' = TRUE /\ line' = FALSE
     ELSE /\ drive' = [drive EXCEPT !.ready = @ /\ Answer = "ok"]
          /\ told' = (told \/ drive.ready # drive'.ready) /\ UNCHANGED line
  /\ UNCHANGED <<kind, inside, holds, media_cache, media_call, from, good, changes>>

MediaNext == \/ \E d \in Disk \cup {NoDisk} : Exchange(d)
             \/ \E op \in {"read", "write"}, first, last \in Cyl, ok \in BOOLEAN :
                  first <= last /\ Rw(op, first, last, ok)
             \/ \E whole, ok \in BOOLEAN : ReadCylinder(whole, ok)
             \/ \E ok \in BOOLEAN, done \in SUBSET Sector : WriteCylinder(ok, done)
             \/ WriteNothing
             \/ \E last \in Cyl : CdStart(last)
             \/ \E ok \in BOOLEAN : CdRead(ok) \/ CdCheckMedia(ok)

MediaSpec == MediaInit /\ [][MediaNext]_mediaVars

(***************************************************************************)
(* A floppy read returns what the disk in the drive holds, and every       *)
(* cached cylinder of a disk not exchanged since is what the disk holds    *)
(* (check_change and forget, the write-through of rw).  A CD read that     *)
(* returns data of another disc than the last one did, does so only after  *)
(* media_changes has told the filesystems (cd_read, cd_check_media, lost). *)
(***************************************************************************)
MediaTrue ==
  /\ good
  /\ (kind = "fd" /\ ~line) => \A i \in DOMAIN media_cache : media_cache[i].data = holds[inside][media_cache[i].cyl]
  /\ Len(media_cache) <= Slots /\ \A i, j \in DOMAIN media_cache : media_cache[i].cyl = media_cache[j].cyl => i = j
=============================================================================
