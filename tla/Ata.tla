-------------------------------- MODULE Ata --------------------------------
(***************************************************************************)
(* The ATA driver (drivers/storage/ata.c): PIO reads and writes with       *)
(* bounded polls of the status register, and the drive behind it.          *)
(*                                                                         *)
(* The drive is external and modelled from how the driver uses it: a       *)
(* command makes it busy; it then asks for or offers one sector at a time  *)
(* (DRQ), or reports an error, which stays in the status register until    *)
(* the next command. What it does with a command that arrives while one is *)
(* in progress differs between drives: "replace" abandons the old one,     *)
(* "ignore" drops the new one. A slow drive may take longer than any poll. *)
(***************************************************************************)
EXTENDS Integers, Sequences

CONSTANTS
  DEVICES,     \* drives: [present, overlap, slow, fails]
  MAX_FAULTS   \* bound: errors the drive reports per behaviour

ASSUME AtaAssumption ==
  /\ DEVICES \subseteq [present : BOOLEAN, overlap : {"replace", "ignore"},
                        slow : BOOLEAN, fails : BOOLEAN]
  /\ MAX_FAULTS \in Nat

VARIABLES
  device,   \* the drive that is attached
  st,       \* its status register: bsy, drq, err
  cmd,      \* the command it works on: kind, next sector, sectors left
  cache,    \* what it holds, per sector
  media,    \* what it has made permanent
  faults,   \* counter for the bound
  pc,       \* where the driver is; "idle" between calls
  req,      \* the call's arguments
  n,        \* its local "sector"
  buf,      \* what it has read so far
  result    \* what the last call returned: "none", "ok" (count) or "fail" (-1)

hardware == <<st, cmd, cache, media, faults>>
driver == <<pc, req, n, buf, result>>
ataVars == <<device, hardware, driver>>

Idle == [kind |-> "none", lba |-> 0, left |-> 0]
Quiet == [bsy |-> FALSE, drq |-> FALSE, err |-> FALSE]
Busy == [bsy |-> TRUE, drq |-> FALSE, err |-> FALSE]
DataRequest == [bsy |-> FALSE, drq |-> TRUE, err |-> FALSE]
Failed == [bsy |-> FALSE, drq |-> FALSE, err |-> TRUE]
NoRequest == [kind |-> "read", lba |-> 0, count |-> 0, data |-> <<>>]

\* The machine is switched on with this on the disk.
AtaInit(image) ==
  /\ device \in DEVICES
  /\ st = Quiet /\ cmd = Idle
  /\ cache = image /\ media = image
  /\ faults = 0
  /\ pc = "idle" /\ req = NoRequest /\ n = 0 /\ buf = <<>>
  /\ result = "none"

----------------------------------------------------------------------------
(* The drive (external) *)

\* The command register is written. The drive of the overlap "ignore" takes no
\* command while it is busy or in the middle of a transfer.
Command(kind, lba, count) ==
  IF device.overlap = "ignore" /\ (st.bsy \/ st.drq)
  THEN UNCHANGED <<st, cmd>>
  ELSE /\ st' = Busy
       /\ cmd' = [kind |-> kind, lba |-> lba, left |-> count]

\* A sector is ready to be read or the drive ready to take one.
DriveRequests ==
  /\ st.bsy /\ cmd.kind \in {"read", "write"} /\ cmd.left > 0
  /\ st' = DataRequest
  /\ UNCHANGED <<device, cmd, cache, media, faults, driver>>

\* The last sector of a write was taken in.
DriveFinishes ==
  /\ st.bsy /\ cmd.kind = "write" /\ cmd.left = 0
  /\ st' = Quiet /\ cmd' = Idle
  /\ UNCHANGED <<device, cache, media, faults, driver>>

\* CACHE FLUSH.
DriveFlushes ==
  /\ st.bsy /\ cmd.kind = "flush"
  /\ media' = cache
  /\ st' = Quiet /\ cmd' = Idle
  /\ UNCHANGED <<device, cache, faults, driver>>

\* The command ends with an error.
DriveFails ==
  /\ device.fails /\ st.bsy /\ faults < MAX_FAULTS
  /\ st' = Failed /\ cmd' = Idle
  /\ faults' = faults + 1
  /\ UNCHANGED <<device, cache, media, driver>>

----------------------------------------------------------------------------
(* The polls *)

\* ata_wait_bsy_clear returns 0; or -1, on an error or after its last iteration.
BsyClear == ~st.bsy /\ ~st.err
BsyFails == (~st.bsy /\ st.err) \/ (st.bsy /\ device.slow)

\* Mutant of DrqReady: the data request bit is not looked at.
DrqReadyEarly == ~st.bsy /\ ~st.err

\* Mutant of DrqFails: the poll has no limit.
DrqFailsOnError == st.err

\* ata_wait_drq likewise.
DrqReady == ~st.err /\ ~st.bsy /\ st.drq
DrqFails == st.err \/ (~st.drq /\ (~st.bsy \/ device.slow))

----------------------------------------------------------------------------
(* ata_read_sectors and ata_write_sectors *)

\* ata_device_exists: an empty channel reads as 0xFF and the call fails at once.
Call(r) ==
  /\ pc = "idle"
  /\ req' = r /\ n' = 0 /\ buf' = <<>>
  /\ IF device.present
     THEN pc' = "wait" /\ result' = "none"
     ELSE pc' = "idle" /\ result' = "fail"
  /\ UNCHANGED <<device, hardware>>

Return(r) == pc' = "idle" /\ result' = r /\ UNCHANGED <<req, n, buf>>
Step(at) == pc' = at /\ UNCHANGED <<req, n, buf, result>>

\* The controller must be idle before the drive is selected, and again after.
WaitIdle ==
  /\ pc = "wait"
  /\ \/ BsyClear /\ Step("selected")
     \/ BsyFails /\ Return("fail")
  /\ UNCHANGED <<device, hardware>>

\* Sector count, LBA and the command.
IssueCommand ==
  /\ pc = "selected"
  /\ \/ BsyClear /\ Command(req.kind, req.lba, req.count) /\ Step("sector")
     \/ BsyFails /\ Return("fail") /\ UNCHANGED <<st, cmd>>
  /\ UNCHANGED <<device, cache, media, faults>>

\* The loop is done.
ReturnCount ==
  /\ pc = "sector" /\ n = req.count
  /\ Return("ok")
  /\ UNCHANGED <<device, hardware>>

\* The drive after one more sector went through the data register.
NextSector ==
  /\ cmd' = IF cmd.kind = "read" /\ cmd.left = 1 THEN Idle
            ELSE [kind |-> cmd.kind, lba |-> cmd.lba + 1, left |-> cmd.left - 1]
  /\ st' = IF cmd'.kind = "none" THEN Quiet ELSE Busy

\* What inw returns when the drive offers no sector.
Noise == [kind |-> "noise"]

\* One sector of a read: 256 words from the data register.
ReadSector ==
  /\ pc = "sector" /\ req.kind = "read" /\ n < req.count
  /\ \/ /\ DrqReady
        /\ IF st.drq /\ cmd.kind = "read"
           THEN buf' = Append(buf, cache[cmd.lba]) /\ NextSector
           ELSE buf' = Append(buf, Noise) /\ UNCHANGED <<st, cmd>>
        /\ n' = n + 1
        /\ UNCHANGED <<pc, req, result>>
     \/ DrqFails /\ Return("fail") /\ UNCHANGED <<st, cmd>>
  /\ UNCHANGED <<device, cache, media, faults>>

\* One sector of a write: 256 words to the data register. A drive that offers a
\* sector of an earlier read, or takes none, drops them.
WriteSector ==
  /\ pc = "sector" /\ req.kind = "write" /\ n < req.count
  /\ \/ /\ DrqReady
        /\ IF st.drq /\ cmd.kind = "write"
           THEN cache' = [cache EXCEPT ![cmd.lba] = req.data[n + 1]] /\ NextSector
           ELSE UNCHANGED <<cache, st, cmd>>
        /\ n' = n + 1
        /\ pc' = "flush"
        /\ UNCHANGED <<req, buf, result>>
     \/ DrqFails /\ Return("fail") /\ UNCHANGED <<cache, st, cmd>>
  /\ UNCHANGED <<device, media, faults>>

\* Mutant of IssueFlush: no flush.
SkipFlush == pc = "flush" /\ Step("flushing") /\ UNCHANGED <<device, hardware>>

\* The flush command, after every sector.
IssueFlush ==
  /\ pc = "flush"
  /\ Command("flush", 0, 0)
  /\ Step("flushing")
  /\ UNCHANGED <<device, cache, media, faults>>

WaitFlushed ==
  /\ pc = "flushing"
  /\ \/ BsyClear /\ Step("sector")
     \/ BsyFails /\ Return("fail")
  /\ UNCHANGED <<device, hardware>>

DriveStep == DriveRequests \/ DriveFinishes \/ DriveFlushes \/ DriveFails
DriverStep ==
  \/ WaitIdle \/ IssueCommand \/ ReturnCount \/ ReadSector \/ WriteSector
  \/ IssueFlush \/ WaitFlushed

----------------------------------------------------------------------------
(* Properties *)

\* The type invariant of the driver and the drive.
AtaTypeOK ==
  /\ device \in DEVICES
  /\ st \in {Quiet, Busy, DataRequest, Failed}
  /\ cmd.kind \in {"none", "read", "write", "flush"} /\ cmd.left \in Nat
  /\ DOMAIN cache = DOMAIN media
  /\ pc \in {"idle", "wait", "selected", "sector", "flush", "flushing"}
  /\ req.kind \in {"read", "write"} /\ req.lba \in Nat /\ req.count \in Nat
  /\ n \in 0 .. req.count
  /\ result \in {"none", "ok", "fail"}

\* The drive has come as far with the driver's request as the driver.
InStep == cmd = [kind |-> req.kind, lba |-> req.lba + n, left |-> req.count - n]

\* What a drive works on or offers in the middle of a call is that call's request, or
\* the flush; between calls a drive that would drop the next command is done.
DriveInStep ==
  /\ pc = "sector" /\ st \in {Busy, DataRequest} => InStep /\ n < req.count
  /\ pc \in {"flush", "flushing"} /\ st = DataRequest => InStep /\ n < req.count
  /\ pc = "flush" /\ st = Busy => InStep
  /\ pc = "flushing" /\ st = Busy => InStep \/ cmd.kind = "flush"
  /\ pc \in {"idle", "wait", "selected"} /\ device.overlap = "ignore" =>
       st \in {Quiet, Failed}

\* The first n sectors of the request have gone through.
Transferred ==
  /\ pc \in {"flush", "flushing"} => req.kind = "write" /\ n > 0
  /\ pc \in {"wait", "selected"} => n = 0
  /\ pc # "idle" => req.count > 0
  /\ req.lba .. req.lba + req.count - 1 \subseteq DOMAIN cache
  /\ n = 0 => buf = <<>>
  /\ req.kind = "read" /\ n = 1 => buf = <<cache[req.lba]>>
  /\ req.kind = "write" => \A i \in 1 .. n : cache[req.lba + i - 1] = req.data[i]
  /\ pc = "idle" /\ result = "ok" => n = req.count

\* A drive that takes the flush is not gone on with before it has flushed.
Flushed ==
  req.kind = "write" /\ n > 0 /\ device.overlap = "replace" =>
    /\ pc = "flushing" =>
         \/ st = Busy /\ cmd.kind = "flush"
         \/ st = Failed
         \/ st = Quiet /\ media = cache
    /\ pc = "sector" \/ (pc = "idle" /\ result = "ok") => media = cache

\* Driver and drive are at the same place of the same request.
AtaInv == AtaTypeOK /\ DriveInStep /\ Transferred /\ Flushed

\* Drives that drop a command which comes too early answer within the polls.
AnswerInTime == \A d \in DEVICES : d.slow => d.overlap = "replace"

\* Through errors, timed-out polls and the late answers that follow them, the
\* driver serves requests as the file system expects: a successful read returned
\* the sectors asked for and a write touched no others.
Blocks == INSTANCE BlockDevice WITH
  store <- cache,
  active <- pc # "idle",
  request <- req,
  served <- n,
  buffer <- buf
=============================================================================
