----------------------------- MODULE MCStorage -----------------------------
(* Small disks and drives: a partition of three clusters with two FATs of two *)
(* sectors, another partition behind it.                                      *)
EXTENDS Storage

Slot(index, type, start, size) ==
  [index |-> index, type |-> type, start |-> start, size |-> size]
Empty(index) == Slot(index, "UNUSED", 0, 0)
Mbr(signed, first, second) ==
  [kind |-> "mbr", signed |-> signed, slots |-> <<first, second, Empty(2), Empty(3)>>]
BootSector(signed) ==
  [kind |-> "boot", signed |-> signed, reserved |-> 1, num_fats |-> 2, spf |-> 2,
   spc |-> 2, total |-> 11]
FatTable == [kind |-> "fat", entry |-> [i \in 0 .. FAT_ENTRIES - 1 |-> 0]]
Data(v) == [kind |-> "data", value |-> v]

Disk(mbr, boot) ==
  [s \in 0 .. 13 |->
     IF s = 0 THEN mbr ELSE IF s = 2 THEN boot
     ELSE IF s \in 3 .. 6 THEN FatTable ELSE Data(0)]

Fat32First == Slot(0, "FAT32_LBA", 2, 11)
Other(index) == Slot(index, "LINUX", 13, 1)
GoodDisk == Disk(Mbr(TRUE, Fat32First, Other(1)), BootSector(TRUE))

Disks ==
  {GoodDisk,
   Disk(Mbr(FALSE, Fat32First, Other(1)), BootSector(TRUE)),
   Disk(Mbr(TRUE, Fat32First, Other(1)), BootSector(FALSE)),
   Disk(Mbr(TRUE, Other(0), Empty(1)), BootSector(TRUE)),
   Disk(Mbr(TRUE, Empty(0), Other(1)), BootSector(TRUE))}

Drive(overlap, slow, fails) ==
  [present |-> TRUE, overlap |-> overlap, slow |-> slow, fails |-> fails]
NoDrive == [Drive("ignore", FALSE, FALSE) EXCEPT !.present = FALSE]

Drives == {Drive("replace", TRUE, TRUE), Drive("ignore", FALSE, TRUE), NoDrive}
SlowDrive == {Drive("ignore", TRUE, FALSE)}
PlainDrive == {Drive("ignore", FALSE, FALSE)}
OneGoodDisk == {GoodDisk}
Writes == {Data(1)}

\* The drives of the run are among those the theorems are about.
ASSUME DrivesInTime == DEVICES = Drives => AnswerInTime
=============================================================================
