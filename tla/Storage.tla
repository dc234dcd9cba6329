------------------------------ MODULE Storage ------------------------------
(***************************************************************************)
(* From power-on to file system blocks: partition_detect(1) and            *)
(* fat32_mount(1, 0) as kernel_main calls them, and then the disk accesses *)
(* of fat32.c: one FAT lookup, one FAT update in every copy, a cluster     *)
(* read or written. Every access is a call of the ATA driver (Ata).        *)
(*                                                                         *)
(* Module Fat32 is about the file operations and takes such an access as   *)
(* one step; here an access is taken apart and the FAT spans several       *)
(* sectors.                                                                *)
(***************************************************************************)
EXTENDS Ata, FiniteSets

CONSTANTS
  IMAGES,        \* disks: per sector its contents
  FAT_ENTRIES,   \* entries in a FAT sector (128 in the code)
  VALUES,        \* values written to FAT entries
  CONTENTS,      \* contents written to a sector of a cluster
  MAX_ACCESSES   \* bound: accesses per behaviour

FAT32Types == {"FAT32", "FAT32_LBA"}

\* A sector's boot signature, 0xAA55.
Signed(s) == s.kind \in {"mbr", "boot"} /\ s.signed

\* What the image builder makes of a partition: its sectors exist, the FATs fit into
\* it and have an entry for every cluster. fat32_mount checks none of this.
WellFormed(disk, slot) ==
  /\ slot.start \in Nat /\ slot.size \in Nat /\ slot.start \in DOMAIN disk
  /\ LET boot == disk[slot.start] IN Signed(boot) =>
       /\ boot.reserved \in Nat /\ boot.num_fats \in Nat \ {0} /\ boot.spf \in Nat
       /\ boot.spc \in Nat \ {0} /\ boot.total \in Nat
       /\ boot.reserved + boot.num_fats * boot.spf <= boot.total
       /\ boot.total <= slot.size
       /\ (boot.total - (boot.reserved + boot.num_fats * boot.spf)) \div boot.spc + 2
             <= boot.spf * FAT_ENTRIES
       /\ slot.start .. slot.start + slot.size - 1 \subseteq DOMAIN disk

ASSUME StorageAssumption ==
  /\ FAT_ENTRIES \in Nat \ {0}
  /\ MAX_ACCESSES \in Nat
  /\ \A disk \in IMAGES :
       /\ 0 \in DOMAIN disk /\ disk = [s \in DOMAIN disk |-> disk[s]]
       /\ Signed(disk[0]) =>
            /\ \A i \in 1 .. 4 : disk[0].slots[i].index = i - 1
            /\ disk[0].slots[1].type \in FAT32Types => WellFormed(disk, disk[0].slots[1])

VARIABLES
  image,        \* history: the disk as it was delivered
  stage,        \* how far kernel_main has come
  partitions,   \* the set of entries partitions[0 .. partition_count - 1]
  fs,           \* current_fs
  fatCache,     \* [sector, data]: fat_cache_sector and fat_sector_cache
  access,       \* the access in progress and its locals
  before,       \* history: the disk when the access began
  outcome,      \* history: what the last access returned
  torn,         \* history: a FAT update has failed
  accesses      \* counter for the bound

fsVars == <<image, stage, partitions, fs, fatCache, access, before, outcome,
            torn, accesses>>
vars == <<ataVars, fsVars>>

NotMounted == [start |-> 0, fat_start |-> 0, data_start |-> 0, spc |-> 1,
               spf |-> 0, num_fats |-> 0, total |-> 0]
NotCached == [sector |-> -1, data |-> <<>>]    \* 0xFFFFFFFF
NoAccess == [kind |-> "none", cluster |-> 0, value |-> 0, fat |-> 0]

Init ==
  /\ image \in IMAGES /\ AtaInit(image)
  /\ stage = "power_on" /\ partitions = {} /\ fs = NotMounted
  /\ fatCache = NotCached /\ access = NoAccess /\ before = image
  /\ outcome = "none" /\ torn = FALSE /\ accesses = 0

Read(lba, count) == [kind |-> "read", lba |-> lba, count |-> count, data |-> <<>>]
Write(lba, data) ==
  [kind |-> "write", lba |-> lba, count |-> Len(data), data |-> data]

\* The driver has returned a sector that has the signature.
GotSigned == IF result = "ok" THEN Signed(buf[1]) ELSE FALSE

\* The last driver call has come back, and the driver is left alone.
Returned == pc = "idle" /\ UNCHANGED ataVars
Unchanged(v) == UNCHANGED <<image, before, torn, accesses>> /\ UNCHANGED v

----------------------------------------------------------------------------
(* Boot *)

\* The table has four slots; the used ones are kept with their index.
UsedSlots(mbr) == {p \in {mbr.slots[i] : i \in 1 .. 4} : p.type # "UNUSED"}

\* partition_detect: read sector 0 ...
ReadMbr ==
  /\ stage = "power_on"
  /\ Call(Read(0, 1))
  /\ stage' = "mbr"
  /\ Unchanged(<<partitions, fs, fatCache, access, outcome>>)

\* ... and parse it. Without a table kernel_main does not try to mount.
ParseMbr ==
  /\ stage = "mbr" /\ Returned
  /\ \/ /\ ~GotSigned
        /\ stage' = "unmounted" /\ UNCHANGED partitions
     \/ /\ GotSigned
        /\ stage' = "table" /\ partitions' = UsedSlots(buf[1])
  /\ Unchanged(<<fs, fatCache, access, outcome>>)

\* partition_get_info: the partition of a slot, by index; the index is also held
\* against the number of partitions.
GetInfo(index) ==
  IF index >= Cardinality(partitions) THEN {} ELSE {p \in partitions : p.index = index}

\* fat32_mount: look the partition up and read its boot sector ...
Mount ==
  /\ stage = "table"
  /\ LET found == {p \in GetInfo(0) : p.type \in FAT32Types} IN
     \/ found = {} /\ stage' = "unmounted" /\ Returned /\ UNCHANGED fs
     \/ \E p \in found :
          /\ Call(Read(p.start, 1)) /\ stage' = "boot_sector"
          /\ fs' = [fs EXCEPT !.start = p.start]
  /\ Unchanged(<<partitions, fatCache, access, outcome>>)

\* Mutant of Geometry: one FAT copy is forgotten.
GeometryOneFat(start, boot) ==
  [start |-> start, fat_start |-> start + boot.reserved,
   data_start |-> start + boot.reserved + boot.spf,
   spc |-> boot.spc, spf |-> boot.spf, num_fats |-> boot.num_fats,
   total |-> (boot.total - (boot.reserved + boot.num_fats * boot.spf)) \div boot.spc]

\* current_fs from the boot sector.
Geometry(start, boot) ==
  [start |-> start, fat_start |-> start + boot.reserved,
   data_start |-> start + boot.reserved + boot.num_fats * boot.spf,
   spc |-> boot.spc, spf |-> boot.spf, num_fats |-> boot.num_fats,
   total |-> (boot.total - (boot.reserved + boot.num_fats * boot.spf)) \div boot.spc]

\* ... and take the geometry from it.
ParseBootSector ==
  /\ stage = "boot_sector" /\ Returned
  /\ \/ /\ ~GotSigned
        /\ stage' = "unmounted" /\ UNCHANGED fs
     \/ /\ GotSigned
        /\ stage' = "mounted" /\ fs' = Geometry(fs.start, buf[1])
  /\ Unchanged(<<partitions, fatCache, access, outcome>>)

----------------------------------------------------------------------------
(* Accesses *)

FirstCluster == 2
Clusters == FirstCluster .. fs.total + 1

fat32_cluster_to_lba(c) == fs.data_start + (c - FirstCluster) * fs.spc
SectorIndex(c) == c \div FAT_ENTRIES
EntryOffset(c) == c % FAT_ENTRIES
FatSector(copy, c) == fs.fat_start + copy * fs.spf + SectorIndex(c)

\* The access begins with a driver call.
Start(kind, c, v, request) ==
  /\ stage = "mounted" /\ access = NoAccess /\ accesses < MAX_ACCESSES
  /\ Call(request)
  /\ access' = [kind |-> kind, cluster |-> c, value |-> v, fat |-> 0]
  /\ before' = cache /\ outcome' = "none" /\ accesses' = accesses + 1
  /\ UNCHANGED <<image, stage, partitions, fs, fatCache, torn>>

\* The driver call the access waits for has come back.
Back(kind) ==
  /\ access.kind = kind /\ pc = "idle"
  /\ UNCHANGED <<image, stage, partitions, fs, before, accesses>>

End(how) == access' = NoAccess /\ outcome' = how /\ UNCHANGED ataVars

\* fat32_next_cluster: the cached sector answers when it is the right one;
\* otherwise it is read, and a failed read leaves the cache as it was.
NextCluster(c) ==
  /\ FatSector(0, c) # fatCache.sector
  /\ Start("lookup", c, 0, Read(FatSector(0, c), 1))

LookupDone ==
  /\ Back("lookup") /\ UNCHANGED torn
  /\ End(result)
  /\ fatCache' = IF result = "ok"
                 THEN [sector |-> FatSector(0, access.cluster), data |-> buf[1]]
                 ELSE fatCache

\* fat32_set_fat_entry: copy by copy, the sector is read, changed and written.
SetFatEntry(c, v) == Start("entry_read", c, v, Read(FatSector(0, c), 1))

WithEntry(sector) ==
  [sector EXCEPT !.entry[EntryOffset(access.cluster)] = access.value]

EntryRead ==
  /\ Back("entry_read") /\ UNCHANGED fatCache
  /\ \/ result # "ok" /\ End("fail") /\ torn' = TRUE
     \/ /\ result = "ok"
        /\ Call(Write(FatSector(access.fat, access.cluster), <<WithEntry(buf[1])>>))
        /\ access' = [kind |-> "entry_write", cluster |-> access.cluster,
                       value |-> access.value, fat |-> access.fat]
        /\ UNCHANGED <<outcome, torn>>

\* Mutant of LastFat: the second copy is not written.
LastFatFirst == TRUE

LastFat == access.fat + 1 = fs.num_fats

\* The cached sector follows when it is the one that was changed.
SyncCache ==
  IF fatCache.sector = FatSector(0, access.cluster)
  THEN [sector |-> fatCache.sector, data |-> WithEntry(fatCache.data)] ELSE fatCache

EntryWritten ==
  /\ Back("entry_write")
  /\ \/ result # "ok" /\ End("fail") /\ torn' = TRUE /\ UNCHANGED fatCache
     \/ result = "ok" /\ LastFat /\ End("ok") /\ fatCache' = SyncCache /\ UNCHANGED torn
     \/ /\ result = "ok" /\ ~LastFat
        /\ Call(Read(FatSector(access.fat + 1, access.cluster), 1))
        /\ access' = [kind |-> "entry_read", cluster |-> access.cluster,
                       value |-> access.value, fat |-> access.fat + 1]
        /\ UNCHANGED <<fatCache, outcome, torn>>

\* Directories and files are read and written a cluster at a time.
LoadCluster(c) == Start("cluster", c, 0, Read(fat32_cluster_to_lba(c), fs.spc))
StoreCluster(c, data) == Start("cluster", c, 0, Write(fat32_cluster_to_lba(c), data))
ClusterDone == Back("cluster") /\ End(result) /\ UNCHANGED <<fatCache, torn>>

----------------------------------------------------------------------------

BeginAccess ==
  \E c \in Clusters :
    \/ NextCluster(c)
    \/ \E v \in VALUES : SetFatEntry(c, v)
    \/ LoadCluster(c)
    \/ \E data \in [1 .. fs.spc -> CONTENTS] : StoreCluster(c, data)

Boot == ReadMbr \/ ParseMbr \/ Mount \/ ParseBootSector
ContinueAccess == LookupDone \/ EntryRead \/ EntryWritten \/ ClusterDone

Next ==
  \/ Boot \/ BeginAccess \/ ContinueAccess
  \/ (DriverStep \/ DriveStep) /\ UNCHANGED fsVars

\* The drive gets on with its command and the processor with its instructions: the
\* polls run with a counter, nothing in them waits for an interrupt.
Fairness ==
  /\ WF_vars(DriverStep /\ UNCHANGED fsVars)
  /\ WF_vars((DriveRequests \/ DriveFinishes \/ DriveFlushes) /\ UNCHANGED fsVars)
  /\ WF_vars(Boot \/ ContinueAccess)

Spec == Init /\ [][Next]_vars /\ Fairness

----------------------------------------------------------------------------
(* Properties *)

\* The type invariant: a partition that is kept is a used slot.
StorageTypeOK ==
  /\ AtaTypeOK
  /\ stage \in {"power_on", "mbr", "table", "boot_sector", "mounted", "unmounted"}
  /\ image \in IMAGES /\ DOMAIN before = DOMAIN image
  /\ cache = [s \in DOMAIN image |-> cache[s]]
  /\ \A p \in partitions : p.type # "UNUSED"
  /\ outcome \in {"none", "ok", "fail"}
  /\ accesses \in 0 .. MAX_ACCESSES

\* Through drive errors, timed-out polls and the late answers that follow them,
\* ata_read_sectors and ata_write_sectors serve requests as a block device does: a
\* call that returns its count has moved every sector it names, in order, and no
\* other sector has changed.
ServesBlocks == [][Blocks!BlockNext(result' = "ok")]_(Blocks!blockVars)

\* Where the image builder put things: the FAT copies and clusters of the first
\* partition, from the disk as delivered.
Volume == image[0].slots[1]
VolumeBoot == image[Volume.start]
FatRegion(copy) ==
  LET first == Volume.start + VolumeBoot.reserved + copy * VolumeBoot.spf
  IN first .. first + VolumeBoot.spf - 1
DataRegion ==
  Volume.start + VolumeBoot.reserved + VolumeBoot.num_fats * VolumeBoot.spf
    .. Volume.start + Volume.size - 1

\* Only the FAT32 partition of slot 0 is ever mounted, and every access then stays
\* where it belongs: FAT accesses in a copy of the FAT, cluster accesses in the data
\* region, both inside the partition, whatever lies beyond it.
StaysInRegion ==
  stage = "mounted" /\ access # NoAccess =>
    /\ Volume.type \in FAT32Types
    /\ \A lba \in req.lba .. req.lba + req.count - 1 :
         IF access.kind = "cluster" THEN lba \in DataRegion
         ELSE lba \in FatRegion(access.fat)

\* What kernel_main knows at each stage is what the disk as delivered says; it has
\* written nothing before the volume is mounted.
BootInOrder ==
  /\ stage # "mounted" =>
       /\ cache = image /\ req.kind = "read"
       /\ access = NoAccess /\ fatCache = NotCached
  /\ stage \in {"power_on", "mbr", "table"} => fs = NotMounted
  /\ stage = "mbr" => req = Read(0, 1)
  /\ stage \in {"table", "boot_sector", "mounted"} => Signed(image[0])
  /\ stage = "table" => partitions = UsedSlots(image[0])
  /\ stage \in {"boot_sector", "mounted"} => Volume.type \in FAT32Types
  /\ stage = "boot_sector" => fs.start = Volume.start /\ req = Read(Volume.start, 1)
  /\ stage = "mounted" => Signed(VolumeBoot) /\ fs = Geometry(Volume.start, VolumeBoot)

\* The disk after the first k copies of the FAT were updated, and after the first k
\* sectors of a cluster were written.
UpdatedCopies(k) ==
  [s \in DOMAIN before |->
     IF \E copy \in 0 .. k - 1 : s = FatSector(copy, access.cluster)
     THEN WithEntry(before[s]) ELSE before[s]]
StoredPart(k) ==
  LET first == fat32_cluster_to_lba(access.cluster)
  IN [s \in DOMAIN before |->
        IF s \in first .. first + k - 1 THEN req.data[s - first + 1] ELSE before[s]]

\* An access makes the driver calls it is made of, one after the other, and the disk
\* differs from what it was by those that were made. Nobody else calls the driver.
AccessInOrder ==
  /\ stage = "mounted" /\ access = NoAccess => pc = "idle"
  /\ access # NoAccess =>
       LET sector == FatSector(access.fat, access.cluster)
           first == fat32_cluster_to_lba(access.cluster)
       IN /\ access.cluster \in Clusters /\ access.fat \in 0 .. fs.num_fats - 1
          /\ \/ /\ access.kind = "lookup" /\ access.fat = 0
                /\ req = Read(sector, 1) /\ cache = before
             \/ /\ access.kind = "entry_read"
                /\ req = Read(sector, 1) /\ cache = UpdatedCopies(access.fat)
             \/ /\ access.kind = "entry_write"
                /\ req = Write(sector, <<WithEntry(before[sector])>>)
                /\ cache = UpdatedCopies(access.fat + n)
             \/ /\ access.kind = "cluster"
                /\ req = Read(first, fs.spc) /\ cache = before
             \/ /\ access.kind = "cluster"
                /\ req.kind = "write" /\ req.lba = first /\ req.count = fs.spc
                /\ cache = StoredPart(n)

\* The cached sector belongs to the first FAT, and is what that held when the last
\* access ended.
FatCacheTracks ==
  fatCache # NotCached =>
    /\ fatCache.sector \in FatRegion(0)
    /\ ~torn => fatCache.data = IF access = NoAccess THEN cache[fatCache.sector]
                                ELSE before[fatCache.sector]

\* The kernel's view of the disk is well formed, and no access of fat32.c ends up
\* outside the region it is meant for (partition_detect, fat32_init,
\* fat32_cluster_to_lba, fat32_set_fat_entry), because driver, drive and file system
\* agree at every step on how far an access has come.
StorageInv ==
  /\ StorageTypeOK /\ StaysInRegion
  /\ AtaInv /\ BootInOrder /\ AccessInOrder /\ FatCacheTracks

\* What an access leaves behind when it ends.
EndsInOrder ==
  access # NoAccess /\ access' = NoAccess =>
    /\ access.kind \in {"entry_read", "entry_write"} =>
         \E k \in 0 .. fs.num_fats :
           (outcome' = "ok" => k = fs.num_fats) /\ cache' = UpdatedCopies(k)
    /\ access.kind = "cluster" =>
         \E k \in 0 .. fs.spc :
           /\ outcome' = "ok" => k = fs.spc
           /\ cache' = IF req.kind = "write" THEN StoredPart(k) ELSE before

\* The outcomes of a FAT update that module Fat32 builds on: when fat32_set_fat_entry
\* returns 0, every copy has the new entry; when it fails, the copies that have it
\* come before those that have not, and nothing else on the disk has changed.
\* Likewise a cluster write: all of it, or a first part of it.
WritesInOrder == [][EndsInOrder]_vars

\* A write that returned its count is permanent. Holds for a drive that takes the
\* flush command whenever it comes; see DurableAlways for the others.
Durable ==
  pc = "idle" /\ result = "ok" /\ req.kind = "write" /\ device.overlap = "replace" =>
    \A i \in 1 .. req.count : media[req.lba + i - 1] = req.data[i]

DurableAlways ==
  pc = "idle" /\ result = "ok" /\ req.kind = "write" =>
    \A i \in 1 .. req.count : media[req.lba + i - 1] = req.data[i]

\* Boot never waits for the disk for ever, and neither does an access: every poll
\* is bounded.
EveryAccessReturns ==
  /\ <>(stage \in {"mounted", "unmounted"})
  /\ (access # NoAccess) ~> (access = NoAccess)
=============================================================================
