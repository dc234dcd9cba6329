--------------------------- MODULE StorageProofs ---------------------------
(***************************************************************************)
(* Proofs about the storage stack, for every drive that answers in time or *)
(* takes any command, every well-formed disk and any number of accesses.   *)
(*                                                                         *)
(* First the driver and the drive: they agree on how far a request has     *)
(* come, whatever call came before and however it ended. Then the file     *)
(* system above: what it knows of the disk at each stage, and by how much  *)
(* an access in progress has changed it.                                   *)
(***************************************************************************)
EXTENDS Storage, TLAPS

----------------------------------------------------------------------------
(* The drive and the driver *)

\* The four values of the status register.
LEMMA StatusBits ==
  /\ ~Quiet.bsy /\ ~Quiet.drq /\ ~Quiet.err
  /\ Busy.bsy /\ ~Busy.drq /\ ~Busy.err
  /\ ~DataRequest.bsy /\ DataRequest.drq /\ ~DataRequest.err
  /\ ~Failed.bsy /\ ~Failed.drq /\ Failed.err
  /\ Quiet # Busy /\ Quiet # DataRequest /\ Quiet # Failed
  /\ Busy # DataRequest /\ Busy # Failed /\ DataRequest # Failed
BY DEF Quiet, Busy, DataRequest, Failed

\* What the polls find.
LEMMA Polls ==
  ASSUME st \in {Quiet, Busy, DataRequest, Failed}, device \in DEVICES, AnswerInTime
  PROVE  /\ BsyClear => st \in {Quiet, DataRequest}
         /\ DrqReady => st = DataRequest
         /\ BsyFails \/ DrqFails =>
              st \in {Quiet, Failed} \/ device.overlap # "ignore"
         /\ st.bsy => st = Busy
         /\ st.drq => st = DataRequest
<1>1. device.slow => device.overlap # "ignore"
  BY DEF AnswerInTime
<1>. QED BY <1>1, StatusBits DEF BsyClear, DrqReady, BsyFails, DrqFails

\* The types of the registers and locals.
LEMMA RequestTyped ==
  ASSUME AtaTypeOK
  PROVE  /\ req.lba \in Nat /\ req.count \in Nat /\ n \in Nat /\ n <= req.count
         /\ cmd.left \in Nat
BY DEF AtaTypeOK

\* A call begins with nothing transferred, whatever the drive is doing.
LEMMA CallKeeps ==
  ASSUME AtaInv, NEW r, r.kind \in {"read", "write"}, r.lba \in Nat, r.count \in Nat \ {0},
         r.lba .. r.lba + r.count - 1 \subseteq DOMAIN cache, Call(r)
  PROVE  AtaInv'
<1>1. /\ pc = "idle" /\ pc' \in {"wait", "idle"} /\ req' = r /\ n' = 0 /\ buf' = <<>>
      /\ result' \in {"none", "fail"}
      /\ UNCHANGED <<device, st, cmd, cache, media, faults>>
  BY DEF Call, hardware
<1>2. AtaTypeOK'
  BY <1>1 DEF AtaInv, AtaTypeOK
<1>3. DriveInStep'
  BY <1>1 DEF AtaInv, DriveInStep
<1>4. Transferred'
  BY <1>1 DEF Transferred
<1>5. Flushed'
  BY <1>1 DEF Flushed
<1>. QED BY <1>2, <1>3, <1>4, <1>5 DEF AtaInv

\* A call that gives up leaves an "ignore" drive with nothing to do.
LEMMA ReturnFailKeeps ==
  ASSUME AtaInv, AnswerInTime, BsyFails \/ DrqFails, Return("fail"),
         UNCHANGED <<device, st, cmd, cache, media, faults>>
  PROVE  AtaInv'
<1>1. /\ pc' = "idle" /\ result' = "fail" /\ UNCHANGED <<req, n, buf>>
      /\ st \in {Quiet, Failed} \/ device.overlap # "ignore"
  BY Polls DEF Return, AtaInv, AtaTypeOK
<1>2. AtaTypeOK'
  BY <1>1 DEF AtaInv, AtaTypeOK
<1>3. DriveInStep'
  BY <1>1 DEF DriveInStep
<1>4. Transferred'
  BY <1>1 DEF AtaInv, Transferred
<1>5. Flushed'
  BY <1>1 DEF Flushed
<1>. QED BY <1>2, <1>3, <1>4, <1>5 DEF AtaInv

LEMMA WaitIdleKeeps ==
  ASSUME AtaInv, AnswerInTime, WaitIdle
  PROVE  AtaInv'
<1>1. pc = "wait" /\ UNCHANGED <<device, st, cmd, cache, media, faults>>
  BY DEF WaitIdle, hardware
<1>2. CASE BsyClear /\ Step("selected")
  <2>1. pc' = "selected" /\ UNCHANGED <<req, n, buf, result>>
    BY <1>2 DEF Step
  <2>. QED BY <1>1, <2>1 DEF AtaInv, AtaTypeOK, DriveInStep, Transferred, Flushed
<1>3. CASE BsyFails /\ Return("fail")
  BY <1>1, <1>3, ReturnFailKeeps
<1>. QED BY <1>2, <1>3 DEF WaitIdle

LEMMA IssueCommandKeeps ==
  ASSUME AtaInv, AnswerInTime, IssueCommand
  PROVE  AtaInv'
<1>1. pc = "selected" /\ UNCHANGED <<device, cache, media, faults>>
  BY DEF IssueCommand
<1>2. CASE BsyClear /\ Command(req.kind, req.lba, req.count) /\ Step("sector")
  <2>1. pc' = "sector" /\ UNCHANGED <<req, n, buf, result>>
    BY <1>2 DEF Step
  <2>2. st \in {Quiet, DataRequest}
    BY <1>2, Polls DEF AtaInv, AtaTypeOK
  <2>3. ~(device.overlap = "ignore" /\ (st.bsy \/ st.drq))
    BY <1>1, <2>2, StatusBits DEF AtaInv, DriveInStep
  <2>4. st' = Busy /\ cmd' = [kind |-> req.kind, lba |-> req.lba, left |-> req.count]
    BY <1>2, <2>3 DEF Command
  <2>5. n = 0 /\ req.count > 0 /\ req.count \in Nat /\ req.lba \in Nat
    BY <1>1 DEF AtaInv, Transferred, AtaTypeOK
  <2>6. AtaTypeOK'
    BY <1>1, <2>1, <2>4, <2>5 DEF AtaInv, AtaTypeOK
  <2>7. DriveInStep'
    <3>1. InStep'
      BY <2>1, <2>4, <2>5 DEF InStep
    <3>. QED BY <2>1, <2>5, <3>1 DEF DriveInStep
  <2>8. Transferred' /\ Flushed'
    BY <1>1, <2>1, <2>5 DEF AtaInv, Transferred, Flushed
  <2>. QED BY <2>6, <2>7, <2>8 DEF AtaInv
<1>3. CASE BsyFails /\ Return("fail") /\ UNCHANGED <<st, cmd>>
  BY <1>1, <1>3, ReturnFailKeeps
<1>. QED BY <1>2, <1>3 DEF IssueCommand

LEMMA ReturnCountKeeps ==
  ASSUME AtaInv, AnswerInTime, ReturnCount
  PROVE  AtaInv'
<1>1. /\ pc = "sector" /\ n = req.count /\ pc' = "idle" /\ result' = "ok"
      /\ UNCHANGED <<device, st, cmd, cache, media, faults, req, n, buf>>
  BY DEF ReturnCount, Return, hardware
<1>2. AtaTypeOK'
  BY <1>1 DEF AtaInv, AtaTypeOK
<1>3. DriveInStep'
  <2>1. st \in {Quiet, Failed}
    <3>1. n \in Nat
      BY RequestTyped DEF AtaInv
    <3>. QED BY <1>1, <3>1 DEF AtaInv, AtaTypeOK, DriveInStep
  <2>. QED BY <1>1, <2>1 DEF DriveInStep
<1>4. Transferred' /\ Flushed'
  BY <1>1 DEF AtaInv, Transferred, Flushed
<1>. QED BY <1>2, <1>3, <1>4 DEF AtaInv

\* Where the drive is after a sector went through the data register.
LEMMA NextSectorInStep ==
  ASSUME AtaInv, InStep, n < req.count, NextSector, n' = n + 1, req' = req
  PROVE  /\ st' \in {Quiet, Busy}
         /\ st' = Busy => InStep' /\ (req.kind = "read" => n' < req.count)
         /\ cmd'.kind \in {"none", "read", "write", "flush"} /\ cmd'.left \in Nat
<1>1. /\ req.lba \in Nat /\ req.count \in Nat /\ n \in Nat /\ n <= req.count
      /\ req.kind \in {"read", "write"}
  BY RequestTyped DEF AtaInv, AtaTypeOK
<1>2. cmd.kind = req.kind /\ cmd.lba = req.lba + n /\ cmd.left = req.count - n
  BY DEF InStep
<1>3. CASE cmd.kind = "read" /\ cmd.left = 1
  BY <1>3, StatusBits DEF NextSector, Idle
<1>4. CASE ~(cmd.kind = "read" /\ cmd.left = 1)
  <2>1. cmd' = [kind |-> req.kind, lba |-> req.lba + n + 1, left |-> req.count - n - 1]
    BY <1>2, <1>4 DEF NextSector
  <2>2. req.lba + n + 1 = req.lba + n' /\ req.count - n - 1 = req.count - n'
    BY <1>1
  <2>3. InStep'
    BY <2>1, <2>2 DEF InStep
  <2>4. st' = Busy
    BY <1>1, <2>1 DEF NextSector
  <2>5. req.kind = "read" => n' < req.count
    BY <1>1, <1>2, <1>4
  <2>6. req.count - n - 1 \in Nat
    BY <1>1
  <2>. QED BY <1>1, <2>1, <2>3, <2>4, <2>5, <2>6
<1>. QED BY <1>3, <1>4

LEMMA ReadSectorKeeps ==
  ASSUME AtaInv, AnswerInTime, ReadSector
  PROVE  AtaInv'
<1>1. /\ pc = "sector" /\ req.kind = "read" /\ n < req.count
      /\ UNCHANGED <<device, cache, media, faults>>
  BY DEF ReadSector
<1>2. CASE DrqReady /\ ~DrqFails
  <2>1. st = DataRequest /\ st.drq
    BY <1>2, Polls, StatusBits DEF AtaInv, AtaTypeOK
  <2>2. InStep /\ cmd.kind = "read" /\ cmd.lba = req.lba + n
    BY <1>1, <2>1 DEF AtaInv, DriveInStep, InStep
  <2>3. /\ buf' = Append(buf, cache[req.lba + n]) /\ NextSector /\ n' = n + 1
        /\ UNCHANGED <<pc, req, result>>
    BY <1>2, <2>1, <2>2 DEF ReadSector
  <2>4. n \in Nat /\ req.count \in Nat /\ req.lba \in Nat
    BY RequestTyped DEF AtaInv
  <2>5. /\ st' \in {Quiet, Busy}
        /\ st' = Busy => InStep' /\ n' < req.count
        /\ cmd'.kind \in {"none", "read", "write", "flush"} /\ cmd'.left \in Nat
    BY <1>1, <2>2, <2>3, NextSectorInStep
  <2>6. AtaTypeOK'
    BY <1>1, <2>3, <2>4, <2>5 DEF AtaInv, AtaTypeOK
  <2>7. DriveInStep'
    BY <1>1, <2>3, <2>5, StatusBits DEF DriveInStep
  <2>8. Transferred'
    <3>1. ASSUME n' = 1 PROVE buf' = <<cache[req.lba]>>
      <4>1. n = 0 /\ req.lba + n = req.lba
        BY <2>3, <2>4, <3>1
      <4>2. buf = <<>>
        BY <4>1 DEF AtaInv, Transferred
      <4>. QED BY <2>3, <4>1, <4>2
    <3>2. n' # 0
      BY <2>3, <2>4
    <3>. QED BY <1>1, <2>3, <3>1, <3>2 DEF AtaInv, Transferred
  <2>9. Flushed'
    BY <1>1, <2>3 DEF Flushed
  <2>. QED BY <2>6, <2>7, <2>8, <2>9 DEF AtaInv
<1>3. CASE DrqFails
  <2>1. ~DrqReady
    BY <1>3 DEF DrqFails, DrqReady
  <2>2. Return("fail") /\ UNCHANGED <<st, cmd>>
    BY <2>1 DEF ReadSector
  <2>. QED BY <1>1, <1>3, <2>2, ReturnFailKeeps
<1>. QED BY <1>2, <1>3 DEF ReadSector

\* Within the cells of the request, the one that is written is the next.
LEMMA WriteSectorDoes ==
  ASSUME AtaInv, AnswerInTime, WriteSector
  PROVE  \/ DrqFails /\ Return("fail") /\ UNCHANGED <<device, hardware>>
         \/ /\ InStep /\ n < req.count /\ NextSector /\ n' = n + 1 /\ pc' = "flush"
            /\ cache' = [cache EXCEPT ![req.lba + n] = req.data[n + 1]]
            /\ UNCHANGED <<device, media, faults, req, buf, result>>
<1>1. /\ pc = "sector" /\ req.kind = "write" /\ n < req.count
      /\ UNCHANGED <<device, media, faults>>
  BY DEF WriteSector
<1>2. CASE DrqFails
  <2>1. ~DrqReady
    BY <1>2 DEF DrqFails, DrqReady
  <2>2. Return("fail") /\ UNCHANGED <<cache, st, cmd>>
    BY <2>1 DEF WriteSector
  <2>. QED BY <1>1, <1>2, <2>2 DEF hardware
<1>3. CASE DrqReady /\ ~DrqFails
  <2>1. st = DataRequest /\ st.drq
    BY <1>3, Polls, StatusBits DEF AtaInv, AtaTypeOK
  <2>2. InStep /\ cmd.kind = "write" /\ cmd.lba = req.lba + n
    BY <1>1, <2>1 DEF AtaInv, DriveInStep, InStep
  <2>. QED BY <1>1, <1>3, <2>1, <2>2 DEF WriteSector
<1>. QED BY <1>2, <1>3 DEF WriteSector

LEMMA WriteSectorKeeps ==
  ASSUME AtaInv, AnswerInTime, WriteSector
  PROVE  AtaInv'
<1>1. pc = "sector" /\ req.kind = "write" /\ n < req.count
  BY DEF WriteSector
<1>2. CASE DrqFails /\ Return("fail") /\ UNCHANGED <<device, hardware>>
  <2>1. UNCHANGED <<device, st, cmd, cache, media, faults>>
    BY <1>2 DEF hardware
  <2>. QED BY <1>2, <2>1, ReturnFailKeeps
<1>3. CASE /\ InStep /\ n < req.count /\ NextSector /\ n' = n + 1 /\ pc' = "flush"
           /\ cache' = [cache EXCEPT ![req.lba + n] = req.data[n + 1]]
           /\ UNCHANGED <<device, media, faults, req, buf, result>>
  <2>1. n \in Nat /\ req.count \in Nat /\ req.lba \in Nat
    BY RequestTyped DEF AtaInv
  <2>2. /\ st' \in {Quiet, Busy} /\ (st' = Busy => InStep')
        /\ cmd'.kind \in {"none", "read", "write", "flush"} /\ cmd'.left \in Nat
    BY <1>3, NextSectorInStep
  <2>3. AtaTypeOK'
    <3>1. DOMAIN cache' = DOMAIN cache /\ n' \in 0 .. req.count
      BY <1>3, <2>1
    <3>. QED BY <1>3, <2>2, <3>1 DEF AtaInv, AtaTypeOK
  <2>4. DriveInStep'
    BY <1>3, <2>2, StatusBits DEF DriveInStep
  <2>5. Transferred'
    <3>1. DOMAIN cache' = DOMAIN cache /\ n' > 0
      BY <1>3, <2>1
    <3>2. req.lba + n \in DOMAIN cache
      <4>1. req.lba + n \in req.lba .. req.lba + req.count - 1
        BY <1>1, <2>1
      <4>. QED BY <4>1 DEF AtaInv, Transferred
    <3>3. ASSUME NEW i \in 1 .. n' PROVE cache'[req.lba + i - 1] = req.data[i]
      <4>1. CASE i = n + 1
        <5>1. req.lba + i - 1 = req.lba + n
          BY <2>1, <4>1
        <5>. QED BY <1>3, <3>2, <4>1, <5>1
      <4>2. CASE i # n + 1
        <5>1. i \in 1 .. n /\ req.lba + i - 1 # req.lba + n
          BY <1>3, <2>1, <4>2
        <5>2. req.lba + i - 1 \in req.lba .. req.lba + req.count - 1
          BY <1>1, <2>1, <5>1
        <5>3. cache[req.lba + i - 1] = req.data[i] /\ req.lba + i - 1 \in DOMAIN cache
          BY <1>1, <5>1, <5>2 DEF AtaInv, Transferred
        <5>. QED BY <1>3, <5>1, <5>3
      <4>. QED BY <4>1, <4>2
    <3>. QED BY <1>1, <1>3, <3>1, <3>3 DEF AtaInv, Transferred
  <2>6. Flushed'
    BY <1>3 DEF Flushed
  <2>. QED BY <2>3, <2>4, <2>5, <2>6 DEF AtaInv
<1>. QED BY <1>2, <1>3, WriteSectorDoes

LEMMA IssueFlushKeeps ==
  ASSUME AtaInv, AnswerInTime, IssueFlush
  PROVE  AtaInv'
<1>1. /\ pc = "flush" /\ pc' = "flushing" /\ Command("flush", 0, 0)
      /\ UNCHANGED <<device, cache, media, faults, req, n, buf, result>>
  BY DEF IssueFlush, Step
<1>2. Transferred'
  BY <1>1 DEF AtaInv, Transferred
<1>3. CASE device.overlap = "ignore" /\ (st.bsy \/ st.drq)
  <2>1. UNCHANGED <<st, cmd>>
    BY <1>1, <1>3 DEF Command
  <2>2. AtaTypeOK'
    BY <1>1, <2>1 DEF AtaInv, AtaTypeOK
  <2>3. DriveInStep'
    BY <1>1, <2>1 DEF AtaInv, DriveInStep, InStep
  <2>4. Flushed'
    BY <1>1, <1>3 DEF Flushed
  <2>. QED BY <1>2, <2>2, <2>3, <2>4 DEF AtaInv
<1>4. CASE ~(device.overlap = "ignore" /\ (st.bsy \/ st.drq))
  <2>1. st' = Busy /\ cmd' = [kind |-> "flush", lba |-> 0, left |-> 0]
    BY <1>1, <1>4 DEF Command
  <2>2. AtaTypeOK'
    BY <1>1, <2>1 DEF AtaInv, AtaTypeOK
  <2>3. DriveInStep' /\ Flushed'
    BY <1>1, <2>1, StatusBits DEF DriveInStep, Flushed
  <2>. QED BY <1>2, <2>2, <2>3 DEF AtaInv
<1>. QED BY <1>3, <1>4

LEMMA WaitFlushedKeeps ==
  ASSUME AtaInv, AnswerInTime, WaitFlushed
  PROVE  AtaInv'
<1>1. pc = "flushing" /\ UNCHANGED <<device, st, cmd, cache, media, faults>>
  BY DEF WaitFlushed, hardware
<1>2. CASE BsyClear /\ Step("sector")
  <2>1. pc' = "sector" /\ UNCHANGED <<req, n, buf, result>>
    BY <1>2 DEF Step
  <2>2. st \in {Quiet, DataRequest}
    BY <1>2, Polls DEF AtaInv, AtaTypeOK
  <2>3. AtaTypeOK' /\ Transferred'
    BY <1>1, <2>1 DEF AtaInv, AtaTypeOK, Transferred
  <2>4. DriveInStep'
    BY <1>1, <2>1, <2>2, StatusBits DEF AtaInv, DriveInStep, InStep
  <2>5. Flushed'
    BY <1>1, <2>1, <2>2, StatusBits DEF AtaInv, Flushed
  <2>. QED BY <2>3, <2>4, <2>5 DEF AtaInv
<1>3. CASE BsyFails /\ Return("fail")
  BY <1>1, <1>3, ReturnFailKeeps
<1>. QED BY <1>2, <1>3 DEF WaitFlushed

\* Whatever the drive does by itself, it does for the request it works on.
LEMMA DriveStepKeeps ==
  ASSUME AtaInv, AnswerInTime, DriveStep
  PROVE  AtaInv' /\ UNCHANGED <<device, cache, driver>>
<1>1. UNCHANGED <<device, cache, pc, req, n, buf, result>>
  BY DEF DriveStep, DriveRequests, DriveFinishes, DriveFlushes, DriveFails, driver
<1>2. Transferred'
  BY <1>1 DEF AtaInv, Transferred
<1>3. /\ st = Busy
      /\ pc \in {"idle", "wait", "selected"} => device.overlap # "ignore"
  <2>1. st.bsy
    BY DEF DriveStep, DriveRequests, DriveFinishes, DriveFlushes, DriveFails
  <2>2. st = Busy
    BY <2>1, Polls DEF AtaInv, AtaTypeOK
  <2>. QED BY <2>2, StatusBits DEF AtaInv, DriveInStep
<1>4. n \in Nat /\ req.count \in Nat
  BY RequestTyped DEF AtaInv
<1>5. CASE DriveRequests
  <2>1. st' = DataRequest /\ cmd.kind # "flush" /\ cmd.left > 0 /\ UNCHANGED <<cmd, media>>
    BY <1>5 DEF DriveRequests
  <2>2. AtaTypeOK'
    BY <1>1, <2>1 DEF AtaInv, AtaTypeOK
  <2>3. DriveInStep'
    <3>1. InStep => n < req.count
      BY <1>4, <2>1 DEF InStep
    <3>2. pc \in {"sector", "flush", "flushing"} => InStep
      BY <1>3, <2>1 DEF AtaInv, DriveInStep
    <3>3. InStep => InStep'
      BY <1>1, <2>1 DEF InStep
    <3>. QED BY <1>1, <1>3, <2>1, <3>1, <3>2, <3>3, StatusBits DEF DriveInStep
  <2>4. Flushed'
    BY <1>1, <1>3, <2>1, StatusBits DEF AtaInv, Flushed
  <2>. QED BY <1>1, <1>2, <2>2, <2>3, <2>4 DEF AtaInv, driver
<1>6. CASE DriveFinishes
  <2>1. st' = Quiet /\ cmd' = Idle /\ cmd.kind # "flush" /\ media' = media
    BY <1>6 DEF DriveFinishes
  <2>2. AtaTypeOK'
    BY <1>1, <2>1 DEF AtaInv, AtaTypeOK, Idle
  <2>3. DriveInStep'
    BY <1>1, <2>1, StatusBits DEF DriveInStep
  <2>4. Flushed'
    BY <1>1, <1>3, <2>1, StatusBits DEF AtaInv, Flushed
  <2>. QED BY <1>1, <1>2, <2>2, <2>3, <2>4 DEF AtaInv, driver
<1>7. CASE DriveFlushes
  <2>1. st' = Quiet /\ cmd' = Idle /\ media' = cache
    BY <1>7 DEF DriveFlushes
  <2>2. AtaTypeOK'
    BY <1>1, <2>1 DEF AtaInv, AtaTypeOK, Idle
  <2>3. DriveInStep'
    BY <1>1, <2>1, StatusBits DEF DriveInStep
  <2>4. Flushed'
    BY <1>1, <2>1 DEF Flushed
  <2>. QED BY <1>1, <1>2, <2>2, <2>3, <2>4 DEF AtaInv, driver
<1>8. CASE DriveFails
  <2>1. st' = Failed /\ cmd' = Idle /\ media' = media
    BY <1>8 DEF DriveFails
  <2>2. AtaTypeOK'
    BY <1>1, <2>1 DEF AtaInv, AtaTypeOK, Idle
  <2>3. DriveInStep'
    BY <1>1, <2>1, StatusBits DEF DriveInStep
  <2>4. Flushed'
    BY <1>1, <2>1 DEF AtaInv, Flushed
  <2>. QED BY <1>1, <1>2, <2>2, <2>3, <2>4 DEF AtaInv, driver
<1>. QED BY <1>5, <1>6, <1>7, <1>8 DEF DriveStep

LEMMA DriverStepKeeps ==
  ASSUME AtaInv, AnswerInTime, DriverStep
  PROVE  AtaInv'
BY WaitIdleKeeps, IssueCommandKeeps, ReturnCountKeeps, ReadSectorKeeps, WriteSectorKeeps,
   IssueFlushKeeps, WaitFlushedKeeps DEF DriverStep

LEMMA StutterKeeps ==
  ASSUME AtaInv, UNCHANGED ataVars
  PROVE  AtaInv'
<1>1. UNCHANGED <<device, st, cmd, cache, media, faults, pc, req, n, buf, result>>
  BY DEF ataVars, hardware, driver
<1>. QED BY <1>1 DEF AtaInv, AtaTypeOK, DriveInStep, InStep, Transferred, Flushed

\* A call that has succeeded with one sector read has returned it.
LEMMA OneSectorRead ==
  ASSUME AtaInv, pc = "idle", result = "ok", NEW s, req = Read(s, 1)
  PROVE  buf[1] = cache[s]
<1>1. req.kind = "read" /\ req.lba = s /\ req.count = 1
  BY DEF Read
<1>2. n = 1
  BY <1>1 DEF AtaInv, Transferred
<1>. QED BY <1>1, <1>2 DEF AtaInv, Transferred

----------------------------------------------------------------------------
(* The layout of the volume *)

LEMMA Division ==
  ASSUME NEW x \in Nat, NEW q \in Nat \ {0}
  PROVE  x \div q \in Nat /\ (x \div q) * q <= x /\ x < (x \div q) * q + q
OBVIOUS

LEMMA DivisionBelow ==
  ASSUME NEW x \in Nat, NEW q \in Nat \ {0}, NEW y \in Nat, x < y * q
  PROVE  x \div q \in 0 .. y - 1
<1>1. PICK d \in Nat : d = x \div q /\ d * q <= x
  BY Division
<1>2. d * q < y * q
  BY <1>1
<1>3. d < y
  <2>. SUFFICES ASSUME d >= y PROVE FALSE
    BY <1>1
  <2>1. d * q >= y * q
    BY <1>1
  <2>. QED BY <1>1, <1>2, <2>1
<1>. QED BY <1>1, <1>3

LEMMA Product ==
  ASSUME NEW a \in Nat, NEW b \in Nat
  PROVE  a * b \in Nat
  OBVIOUS

\* The later of two blocks of the same size begins after the end of the earlier.
LEMMA BlocksApart ==
  ASSUME NEW i \in Nat, NEW j \in Nat, i < j, NEW q \in Nat
  PROVE  i * q \in Nat /\ j * q \in Nat /\ i * q + q <= j * q
<1>1. (i + 1) * q <= j * q
  BY SMT
<1>2. (i + 1) * q = i * q + q
  BY SMT
<1>. QED BY <1>1, <1>2

Mounted == image \in IMAGES /\ BootInOrder /\ stage = "mounted"

\* What fat32_mount has taken from the boot sector, and what is known of it.
LEMMA MountedGeometry ==
  ASSUME Mounted
  PROVE  /\ fs.fat_start \in Nat /\ fs.data_start \in Nat /\ fs.spc \in Nat \ {0}
         /\ fs.spf \in Nat /\ fs.num_fats \in Nat \ {0} /\ fs.total \in Nat
         /\ Volume.start \in Nat /\ Volume.size \in Nat /\ Volume.start <= fs.fat_start
         /\ fs.data_start = fs.fat_start + fs.num_fats * fs.spf
         /\ fs.total + 2 <= fs.spf * FAT_ENTRIES
         /\ fs.data_start + fs.total * fs.spc <= Volume.start + Volume.size
         /\ \A copy : FatRegion(copy) = fs.fat_start + copy * fs.spf
                                          .. fs.fat_start + copy * fs.spf + fs.spf - 1
         /\ DataRegion = fs.data_start .. Volume.start + Volume.size - 1
         /\ Volume.start .. Volume.start + Volume.size - 1 \subseteq DOMAIN image
<1>. DEFINE b == VolumeBoot
            v == Volume
            system == b.reserved + b.num_fats * b.spf
<1>1. /\ Signed(image[0]) /\ Volume.type \in FAT32Types /\ Signed(VolumeBoot)
      /\ fs = Geometry(Volume.start, VolumeBoot)
  BY DEF Mounted, BootInOrder
<1>2. WellFormed(image, v)
  BY <1>1, StorageAssumption DEF Mounted, Volume
<1>3. /\ v.start \in Nat /\ v.size \in Nat
      /\ b.reserved \in Nat /\ b.num_fats \in Nat \ {0} /\ b.spf \in Nat
      /\ b.spc \in Nat \ {0} /\ b.total \in Nat
      /\ system <= b.total /\ b.total <= v.size
      /\ (b.total - system) \div b.spc + 2 <= b.spf * FAT_ENTRIES
      /\ v.start .. v.start + v.size - 1 \subseteq DOMAIN image
  BY <1>1, <1>2 DEF WellFormed, VolumeBoot
<1>4. /\ fs.fat_start = v.start + b.reserved
      /\ fs.data_start = v.start + b.reserved + b.num_fats * b.spf
      /\ fs.spc = b.spc /\ fs.spf = b.spf /\ fs.num_fats = b.num_fats
      /\ fs.total = (b.total - system) \div b.spc
  BY <1>1 DEF Geometry
<1>5. /\ \A copy : FatRegion(copy) = v.start + b.reserved + copy * b.spf
                                       .. v.start + b.reserved + copy * b.spf + b.spf - 1
      /\ DataRegion = v.start + b.reserved + b.num_fats * b.spf .. v.start + v.size - 1
  BY DEF FatRegion, DataRegion
<1>. HIDE DEF b, v
<1>6. b.num_fats * b.spf \in Nat /\ system \in Nat /\ b.total - system \in Nat
  BY <1>3
<1>. HIDE DEF system
<1>7. /\ (b.total - system) \div b.spc \in Nat
      /\ ((b.total - system) \div b.spc) * b.spc <= b.total - system
  BY <1>3, <1>6, Division
<1>8. v.start + b.reserved + b.num_fats * b.spf = v.start + system
  BY <1>3, <1>6 DEF system
<1>9. fs.total * fs.spc \in Nat /\ fs.total * fs.spc <= b.total - system
  BY <1>3, <1>4, <1>7
<1>10. fs.data_start + fs.total * fs.spc <= v.start + v.size
  BY <1>3, <1>4, <1>6, <1>8, <1>9
<1>11. /\ fs.fat_start \in Nat /\ fs.data_start \in Nat /\ v.start <= fs.fat_start
       /\ fs.data_start = fs.fat_start + fs.num_fats * fs.spf
  BY <1>3, <1>4, <1>6
<1>12. fs.total \in Nat /\ fs.total + 2 <= fs.spf * FAT_ENTRIES
  BY <1>3, <1>4, <1>7
<1>13. /\ \A copy : FatRegion(copy) = fs.fat_start + copy * fs.spf
                                          .. fs.fat_start + copy * fs.spf + fs.spf - 1
       /\ DataRegion = fs.data_start .. v.start + v.size - 1
  BY <1>4, <1>5
<1>. QED BY <1>3, <1>4, <1>10, <1>11, <1>12, <1>13 DEF v

\* The copies of the FAT follow each other and the data follows them.
LEMMA RegionsApart ==
  ASSUME Mounted, NEW j \in 0 .. fs.num_fats - 1
  PROVE  /\ FatRegion(j) \subseteq Nat /\ FatRegion(j) \subseteq DOMAIN image
         /\ FatRegion(j) \intersect DataRegion = {}
         /\ \A k \in 0 .. fs.num_fats - 1 :
              j # k => FatRegion(j) \intersect FatRegion(k) = {}
<1>1. /\ fs.fat_start \in Nat /\ fs.data_start \in Nat /\ fs.spf \in Nat
      /\ fs.num_fats \in Nat /\ fs.total \in Nat /\ fs.spc \in Nat
      /\ Volume.start \in Nat /\ Volume.size \in Nat /\ Volume.start <= fs.fat_start
      /\ fs.data_start = fs.fat_start + fs.num_fats * fs.spf
      /\ fs.data_start + fs.total * fs.spc <= Volume.start + Volume.size
      /\ DataRegion = fs.data_start .. Volume.start + Volume.size - 1
      /\ Volume.start .. Volume.start + Volume.size - 1 \subseteq DOMAIN image
  BY MountedGeometry
<1>2. \A copy : FatRegion(copy) = fs.fat_start + copy * fs.spf
                                    .. fs.fat_start + copy * fs.spf + fs.spf - 1
  BY MountedGeometry
<1>3. PICK a \in Nat, m \in Nat :
        a = j * fs.spf /\ m = fs.num_fats * fs.spf /\ a + fs.spf <= m
  <2>1. j \in Nat /\ j < fs.num_fats
    BY <1>1
  <2>. QED BY <1>1, <2>1, BlocksApart
<1>4. PICK t \in Nat : t = fs.total * fs.spc
  BY <1>1
<1>5. fs.data_start = fs.fat_start + m /\ fs.data_start <= Volume.start + Volume.size
  <2>1. /\ fs.data_start = fs.fat_start + m
        /\ fs.data_start + t <= Volume.start + Volume.size
    BY <1>1, <1>3, <1>4, Zenon
  <2>2. fs.data_start \in Nat /\ Volume.start \in Nat /\ Volume.size \in Nat
    BY <1>1
  <2>. QED BY <2>1, <2>2
<1>6. FatRegion(j) = fs.fat_start + a .. fs.fat_start + a + fs.spf - 1
  BY <1>2, <1>3
<1>7. ASSUME NEW x \in FatRegion(j)
      PROVE  /\ x \in Nat /\ x \in Volume.start .. Volume.start + Volume.size - 1
             /\ x < fs.data_start
  <2>1. x \in Int /\ fs.fat_start + a <= x /\ x <= fs.fat_start + a + fs.spf - 1
    BY <1>1, <1>6
  <2>2. /\ fs.fat_start \in Nat /\ fs.data_start \in Nat /\ fs.spf \in Nat
        /\ Volume.start \in Nat /\ Volume.size \in Nat /\ Volume.start <= fs.fat_start
    BY <1>1
  <2>. QED BY <1>3, <1>5, <2>1, <2>2
<1>8. FatRegion(j) \intersect DataRegion = {}
  <2>1. \A x \in DataRegion : x >= fs.data_start
    BY <1>1
  <2>. QED BY <1>1, <1>7, <2>1
<1>9. ASSUME NEW k \in 0 .. fs.num_fats - 1, j # k, NEW x \in FatRegion(j), x \in FatRegion(k)
      PROVE  FALSE
  <2>1. PICK b \in Nat : b = k * fs.spf
    BY <1>1
  <2>2. x \in Int /\ fs.fat_start + a <= x /\ x <= fs.fat_start + a + fs.spf - 1
    BY <1>1, <1>6
  <2>3. FatRegion(k) = fs.fat_start + b .. fs.fat_start + b + fs.spf - 1
    BY <1>2, <2>1
  <2>4. fs.fat_start + b <= x /\ x <= fs.fat_start + b + fs.spf - 1
    BY <1>1, <1>9, <2>3
  <2>5. a + fs.spf <= b \/ b + fs.spf <= a
    <3>1. j \in Nat /\ k \in Nat /\ (j < k \/ k < j)
      BY <1>1, <1>9
    <3>. QED BY <1>1, <1>3, <2>1, <3>1, BlocksApart
  <2>6. fs.fat_start \in Nat /\ fs.spf \in Nat
    BY <1>1
  <2>. QED BY <2>2, <2>4, <2>5, <2>6
<1>. QED BY <1>1, <1>7, <1>8, <1>9

\* The sector of an entry lies in the copy it is meant for.
LEMMA FatSectorInRegion ==
  ASSUME Mounted, NEW copy \in 0 .. fs.num_fats - 1, NEW c \in Clusters
  PROVE  /\ FatSector(copy, c) \in FatRegion(copy)
         /\ FatSector(copy, c) \in Nat /\ FatSector(copy, c) \in DOMAIN image
<1>1. /\ fs.fat_start \in Nat /\ fs.spf \in Nat /\ fs.num_fats \in Nat /\ fs.total \in Nat
      /\ fs.total + 2 <= fs.spf * FAT_ENTRIES
      /\ FatRegion(copy) = fs.fat_start + copy * fs.spf
                             .. fs.fat_start + copy * fs.spf + fs.spf - 1
  BY MountedGeometry
<1>2. c \in Nat /\ c < fs.total + 2 /\ copy \in Nat /\ FAT_ENTRIES \in Nat \ {0}
  BY <1>1, StorageAssumption DEF Clusters, FirstCluster
<1>3. PICK e \in Nat, p \in Nat : e = fs.spf * FAT_ENTRIES /\ p = copy * fs.spf
  <2>1. fs.spf \in Nat /\ FAT_ENTRIES \in Nat /\ copy \in Nat
    BY <1>1, <1>2
  <2>. QED BY <2>1, Product, Zenon
<1>4. c < fs.spf * FAT_ENTRIES
  <2>1. c < fs.total + 2 /\ fs.total + 2 <= e /\ c \in Nat /\ fs.total \in Nat
    BY <1>1, <1>2, <1>3, Zenon
  <2>2. c < e
    BY <2>1
  <2>. QED BY <1>3, <2>2, Zenon
<1>5. SectorIndex(c) \in 0 .. fs.spf - 1
  <2>1. fs.spf \in Nat
    BY <1>1
  <2>. QED BY <1>2, <1>4, <2>1, DivisionBelow, Zenon DEF SectorIndex
<1>6. FatSector(copy, c) \in FatRegion(copy)
  <2>1. /\ FatSector(copy, c) = fs.fat_start + p + SectorIndex(c)
        /\ FatRegion(copy) = fs.fat_start + p .. fs.fat_start + p + fs.spf - 1
    BY <1>1, <1>3, Zenon DEF FatSector
  <2>2. fs.fat_start \in Nat /\ fs.spf \in Nat
    BY <1>1
  <2>3. PICK i \in Int : i = SectorIndex(c)
    BY <1>5
  <2>4. 0 <= i /\ i <= fs.spf - 1
    BY <1>5, <2>2, <2>3
  <2>. QED BY <2>1, <2>2, <2>3, <2>4
<1>. QED BY <1>6, RegionsApart

\* The sectors of a cluster lie in the data region, inside the partition.
LEMMA ClusterInRegion ==
  ASSUME Mounted, NEW c \in Clusters
  PROVE  /\ fat32_cluster_to_lba(c) \in Nat /\ fs.spc \in Nat \ {0}
         /\ fat32_cluster_to_lba(c) .. fat32_cluster_to_lba(c) + fs.spc - 1 \subseteq DataRegion
         /\ DataRegion \subseteq DOMAIN image
<1>1. /\ fs.fat_start \in Nat /\ fs.data_start \in Nat /\ fs.spc \in Nat \ {0}
      /\ fs.total \in Nat /\ fs.spf \in Nat /\ fs.num_fats \in Nat
      /\ fs.data_start = fs.fat_start + fs.num_fats * fs.spf
      /\ Volume.start \in Nat /\ Volume.size \in Nat /\ Volume.start <= fs.fat_start
      /\ fs.data_start + fs.total * fs.spc <= Volume.start + Volume.size
      /\ DataRegion = fs.data_start .. Volume.start + Volume.size - 1
      /\ Volume.start .. Volume.start + Volume.size - 1 \subseteq DOMAIN image
  BY MountedGeometry
<1>2. PICK d \in Nat : d = c - FirstCluster /\ d < fs.total
  BY <1>1 DEF Clusters, FirstCluster
<1>3. PICK a \in Nat, t \in Nat :
        a = d * fs.spc /\ t = fs.total * fs.spc /\ a + fs.spc <= t
  BY <1>1, <1>2, BlocksApart
<1>4. fat32_cluster_to_lba(c) = fs.data_start + a
  BY <1>2, <1>3 DEF fat32_cluster_to_lba
<1>5. Volume.start <= fs.data_start /\ fs.data_start + t <= Volume.start + Volume.size
  <2>1. PICK m \in Nat : m = fs.num_fats * fs.spf
    BY <1>1
  <2>2. /\ fs.data_start = fs.fat_start + m
        /\ fs.data_start + t <= Volume.start + Volume.size
    BY <1>1, <1>3, <2>1, Zenon
  <2>3. fs.fat_start \in Nat /\ Volume.start \in Nat /\ Volume.start <= fs.fat_start
    BY <1>1
  <2>. QED BY <2>2, <2>3
<1>6. DataRegion \subseteq DOMAIN image
  <2>1. /\ DataRegion = fs.data_start .. Volume.start + Volume.size - 1
        /\ Volume.start .. Volume.start + Volume.size - 1 \subseteq DOMAIN image
    BY <1>1
  <2>2. Volume.start \in Nat /\ fs.data_start \in Nat /\ Volume.size \in Nat
    BY <1>1
  <2>3. Volume.start <= fs.data_start
    BY <1>5
  <2>. QED BY <2>1, <2>2, <2>3
<1>7. fs.data_start \in Nat /\ fs.spc \in Nat /\ Volume.start \in Nat /\ Volume.size \in Nat
  BY <1>1
<1>8. \A x \in fs.data_start + a .. fs.data_start + a + fs.spc - 1 :
        x \in fs.data_start .. Volume.start + Volume.size - 1
  BY <1>3, <1>5, <1>7
<1>9. fs.data_start + a \in Nat
  BY <1>7
<1>. QED BY <1>1, <1>4, <1>6, <1>8, <1>9, Zenon

----------------------------------------------------------------------------
(* Steps of the driver and the drive under the file system *)

Core == StorageTypeOK /\ AtaInv /\ BootInOrder /\ AccessInOrder /\ FatCacheTracks

LEMMA MountedHere ==
  ASSUME Core, stage = "mounted"
  PROVE  Mounted
BY DEF Core, StorageTypeOK, Mounted

\* Only a mounted volume is accessed.
LEMMA AccessMeansMounted ==
  ASSUME Core, access # NoAccess
  PROVE  stage = "mounted" /\ Mounted
BY MountedHere DEF Core, BootInOrder

\* As long as nothing is written the file system's view stays right.
LEMMA FsSteady ==
  ASSUME Core, UNCHANGED fsVars, AtaInv', cache' = cache, req' = req,
         n' = n \/ req.kind = "read",
         pc' # "idle" => pc # "idle"
  PROVE  Core'
<1>1. UNCHANGED <<image, stage, partitions, fs, fatCache, access, before, outcome,
                  torn, accesses>>
  BY DEF fsVars
<1>2. StorageTypeOK'
  BY <1>1 DEF Core, StorageTypeOK, AtaInv
<1>3. BootInOrder'
  BY <1>1 DEF Core, BootInOrder, Volume, VolumeBoot
<1>4. FatCacheTracks'
  BY <1>1 DEF Core, FatCacheTracks, FatRegion, Volume, VolumeBoot
<1>5. AccessInOrder'
  <2>1. stage' = "mounted" /\ access' = NoAccess => pc' = "idle"
    BY <1>1 DEF Core, AccessInOrder
  <2>2. ASSUME access # NoAccess
        PROVE  LET sector == FatSector(access.fat, access.cluster)
                   first == fat32_cluster_to_lba(access.cluster)
               IN /\ access.cluster \in Clusters /\ access.fat \in 0 .. fs.num_fats - 1
                  /\ \/ /\ access.kind = "lookup" /\ access.fat = 0
                        /\ req = Read(sector, 1) /\ cache = before
                     \/ /\ access.kind = "entry_read"
                        /\ req = Read(sector, 1) /\ cache = UpdatedCopies(access.fat)
                     \/ /\ access.kind = "entry_write" /\ n' = n
                        /\ req = Write(sector, <<WithEntry(before[sector])>>)
                        /\ cache = UpdatedCopies(access.fat + n)
                     \/ /\ access.kind = "cluster"
                        /\ req = Read(first, fs.spc) /\ cache = before
                     \/ /\ access.kind = "cluster" /\ n' = n
                        /\ req.kind = "write" /\ req.lba = first /\ req.count = fs.spc
                        /\ cache = StoredPart(n)
    BY <2>2 DEF Core, AccessInOrder, Write
  <2>. QED BY <1>1, <2>1, <2>2
           DEF AccessInOrder, FatSector, SectorIndex, EntryOffset, fat32_cluster_to_lba,
               Clusters, UpdatedCopies, StoredPart, WithEntry, Read, Write
<1>. QED BY <1>2, <1>3, <1>4, <1>5 DEF Core

\* One more copy of the FAT is updated.
LEMMA NextCopyUpdated ==
  ASSUME DOMAIN before = DOMAIN cache, NEW k \in Nat, cache = UpdatedCopies(k),
         NEW s, s = FatSector(k, access.cluster), NEW f,
         f = [cache EXCEPT ![s] = WithEntry(before[s])]
  PROVE  f = UpdatedCopies(k + 1)
<1>1. \A x : (\E copy \in 0 .. k : x = FatSector(copy, access.cluster))
               <=> x = s \/ \E copy \in 0 .. k - 1 : x = FatSector(copy, access.cluster)
  <2>1. \A copy : copy \in 0 .. k <=> copy = k \/ copy \in 0 .. k - 1
    OBVIOUS
  <2>. QED BY <2>1, Zenon
<1>2. (k + 1) - 1 = k
  OBVIOUS
<1>3. UpdatedCopies(k + 1) =
        [x \in DOMAIN before |->
           IF \E copy \in 0 .. k : x = FatSector(copy, access.cluster)
           THEN WithEntry(before[x]) ELSE before[x]]
  BY <1>2 DEF UpdatedCopies
<1>4. ASSUME NEW x \in DOMAIN before
      PROVE  f[x] = IF \E copy \in 0 .. k : x = FatSector(copy, access.cluster)
                    THEN WithEntry(before[x]) ELSE before[x]
  <2>1. cache[x] = IF \E copy \in 0 .. k - 1 : x = FatSector(copy, access.cluster)
                   THEN WithEntry(before[x]) ELSE before[x]
    BY DEF UpdatedCopies
  <2>2. f[x] = IF x = s THEN WithEntry(before[s]) ELSE cache[x]
    OBVIOUS
  <2>. QED BY <1>1, <2>1, <2>2
<1>5. f = [x \in DOMAIN before |-> f[x]]
  OBVIOUS
<1>. QED BY <1>3, <1>4, <1>5

\* One more sector of a cluster is written.
LEMMA NextPartStored ==
  ASSUME DOMAIN before = DOMAIN cache, NEW k \in Nat, cache = StoredPart(k),
         NEW first \in Nat, first = fat32_cluster_to_lba(access.cluster), NEW f,
         f = [cache EXCEPT ![first + k] = req.data[k + 1]]
  PROVE  \A x \in DOMAIN before :
           f[x] = IF x \in first .. first + (k + 1) - 1 THEN req.data[x - first + 1] ELSE before[x]
<1>1. \A x : x \in first .. first + (k + 1) - 1 <=> x = first + k \/ x \in first .. first + k - 1
  OBVIOUS
<1>2. ASSUME NEW x \in DOMAIN before
      PROVE  f[x] = IF x \in first .. first + (k + 1) - 1 THEN req.data[x - first + 1] ELSE before[x]
  <2>1. cache[x] = IF x \in first .. first + k - 1 THEN req.data[x - first + 1] ELSE before[x]
    BY DEF StoredPart
  <2>2. f[x] = IF x = first + k THEN req.data[k + 1] ELSE cache[x]
    OBVIOUS
  <2>3. (first + k) - first + 1 = k + 1
    OBVIOUS
  <2>. QED BY <1>1, <2>1, <2>2, <2>3
<1>. QED BY <1>2

\* A sector is written: it is the next of the access in progress.
LEMMA FsWritten ==
  ASSUME Core, UNCHANGED fsVars, AtaInv', req.kind = "write", req' = req, pc # "idle",
         n < req.count, n' = n + 1,
         cache' = [cache EXCEPT ![req.lba + n] = req.data[n + 1]]
  PROVE  Core'
<1>1. UNCHANGED <<image, stage, partitions, fs, fatCache, access, before, outcome,
                  torn, accesses>>
  BY DEF fsVars
<1>2. DOMAIN cache' = DOMAIN cache /\ DOMAIN before = DOMAIN cache
  BY DEF Core, StorageTypeOK
<1>3. StorageTypeOK'
  BY <1>1, <1>2 DEF Core, StorageTypeOK, AtaInv
<1>4. stage = "mounted" /\ access # NoAccess
  BY DEF Core, BootInOrder, AccessInOrder
<1>5. BootInOrder'
  BY <1>1, <1>4 DEF Core, BootInOrder, Volume, VolumeBoot
<1>6. FatCacheTracks'
  BY <1>1, <1>4 DEF Core, FatCacheTracks, FatRegion, Volume, VolumeBoot
<1>7. n \in Nat /\ req.count \in Nat /\ req.lba \in Nat
  BY RequestTyped DEF Core, AtaInv
<1>8. AccessInOrder'
  <2>. DEFINE sector == FatSector(access.fat, access.cluster)
              first == fat32_cluster_to_lba(access.cluster)
  <2>1. /\ access.cluster \in Clusters /\ access.fat \in 0 .. fs.num_fats - 1
        /\ \/ /\ access.kind = "entry_write"
              /\ req = Write(sector, <<WithEntry(before[sector])>>)
              /\ cache = UpdatedCopies(access.fat + n)
           \/ /\ access.kind = "cluster"
              /\ req.kind = "write" /\ req.lba = first /\ req.count = fs.spc
              /\ cache = StoredPart(n)
    BY <1>4 DEF Core, AccessInOrder, Read
  <2>2. /\ sector' = sector /\ first' = first /\ Clusters' = Clusters
        /\ WithEntry(before[sector])' = WithEntry(before[sector])
        /\ \A k : UpdatedCopies(k)' = UpdatedCopies(k)
    BY <1>1 DEF FatSector, SectorIndex, EntryOffset, fat32_cluster_to_lba, Clusters,
                UpdatedCopies, WithEntry
  <2>3. CASE /\ access.kind = "entry_write"
             /\ req = Write(sector, <<WithEntry(before[sector])>>)
             /\ cache = UpdatedCopies(access.fat + n)
    <3>1. req.lba = sector /\ req.count = 1 /\ req.data[1] = WithEntry(before[sector])
      BY <2>3 DEF Write
    <3>2. n = 0 /\ n' = 1 /\ access.fat \in Nat
      <4>1. fs.num_fats \in Nat
        BY <1>4, MountedHere, MountedGeometry
      <4>. QED BY <1>7, <2>1, <3>1, <4>1
    <3>3. cache' = [cache EXCEPT ![sector] = WithEntry(before[sector])]
      <4>1. req.lba + n = sector /\ n + 1 = 1
        BY <1>7, <3>1, <3>2
      <4>. QED BY <3>1, <4>1
    <3>4. cache = UpdatedCopies(access.fat)
      <4>1. access.fat + n = access.fat
        BY <3>2
      <4>. QED BY <2>3, <4>1
    <3>. HIDE DEF sector, first
    <3>5. cache' = UpdatedCopies(access.fat + 1)
      BY <1>2, <3>2, <3>3, <3>4, NextCopyUpdated DEF sector
    <3>6. cache' = UpdatedCopies(access.fat + n)'
      BY <1>1, <2>2, <3>2, <3>5
    <3>7. req' = Write(sector, <<WithEntry(before[sector])>>)'
      BY <2>2, <2>3 DEF Write
    <3>. QED BY <1>1, <1>4, <2>1, <2>2, <2>3, <3>6, <3>7 DEF AccessInOrder, sector
  <2>4. CASE /\ access.kind = "cluster"
             /\ req.kind = "write" /\ req.lba = first /\ req.count = fs.spc
             /\ cache = StoredPart(n)
    <3>1. cache' = [cache EXCEPT ![first + n] = req.data[n + 1]]
      BY <2>4
    <3>2. first \in Nat /\ first = fat32_cluster_to_lba(access.cluster)
      BY <1>7, <2>4
    <3>. HIDE DEF sector, first
    <3>3. cache' = [x \in DOMAIN before |->
             IF x \in first .. first + (n + 1) - 1 THEN req.data[x - first + 1] ELSE before[x]]
      <4>1. PICK k \in Nat, g \in Nat : k = n /\ g = first
        BY <1>7, <3>2
      <4>2. cache = StoredPart(k) /\ g = fat32_cluster_to_lba(access.cluster)
        BY <2>4, <3>2, <4>1
      <4>3. cache' = [cache EXCEPT ![g + k] = req.data[k + 1]]
        BY <3>1, <4>1
      <4>4. \A x \in DOMAIN before : cache'[x] =
              IF x \in g .. g + (k + 1) - 1 THEN req.data[x - g + 1] ELSE before[x]
        BY <1>2, <4>2, <4>3, NextPartStored
      <4>5. cache' = [x \in DOMAIN before |-> cache'[x]]
        BY <1>2, <4>3
      <4>. QED BY <4>1, <4>4, <4>5
    <3>4. cache' = StoredPart(n)'
      BY <1>1, <2>2, <3>3 DEF StoredPart, first
    <3>. QED BY <1>1, <1>4, <2>1, <2>2, <2>4, <3>4 DEF AccessInOrder, first
  <2>. QED BY <2>1, <2>3, <2>4
<1>. QED BY <1>3, <1>5, <1>6, <1>8 DEF Core

LEMMA DriverStepUnderFs ==
  ASSUME Core, AnswerInTime, DriverStep, UNCHANGED fsVars
  PROVE  Core'
<1>1. AtaInv'
  BY DriverStepKeeps DEF Core
<1>2. pc # "idle"
  BY DEF DriverStep, WaitIdle, IssueCommand, ReturnCount, ReadSector, WriteSector,
         IssueFlush, WaitFlushed
<1>3. CASE WriteSector
  <2>1. CASE DrqFails /\ Return("fail") /\ UNCHANGED <<device, hardware>>
    <3>1. cache' = cache /\ req' = req /\ n' = n
      BY <2>1 DEF hardware, Return
    <3>. QED BY <1>1, <1>2, <3>1, FsSteady
  <2>2. CASE /\ InStep /\ n < req.count /\ NextSector /\ n' = n + 1 /\ pc' = "flush"
             /\ cache' = [cache EXCEPT ![req.lba + n] = req.data[n + 1]]
             /\ UNCHANGED <<device, media, faults, req, buf, result>>
    <3>1. req.kind = "write"
      BY <1>3 DEF WriteSector
    <3>. QED BY <1>1, <1>2, <2>2, <3>1, FsWritten
  <2>. QED BY <1>3, <2>1, <2>2, WriteSectorDoes DEF Core
<1>4. CASE ReadSector
  <2>1. req.kind = "read" /\ cache' = cache /\ req' = req
    BY <1>4 DEF ReadSector, Return
  <2>. QED BY <1>1, <1>2, <2>1, FsSteady
<1>5. CASE WaitIdle \/ IssueCommand \/ ReturnCount \/ IssueFlush \/ WaitFlushed
  <2>1. cache' = cache /\ req' = req /\ n' = n
    BY <1>5 DEF WaitIdle, IssueCommand, ReturnCount, IssueFlush, WaitFlushed, Return, Step,
                hardware
  <2>. QED BY <1>1, <1>2, <2>1, FsSteady
<1>. QED BY <1>3, <1>4, <1>5 DEF DriverStep

LEMMA DriveStepUnderFs ==
  ASSUME Core, AnswerInTime, DriveStep, UNCHANGED fsVars
  PROVE  Core'
<1>1. AtaInv' /\ UNCHANGED <<cache, driver>>
  BY DriveStepKeeps DEF Core
<1>2. UNCHANGED <<pc, req, n>>
  BY <1>1 DEF driver
<1>. QED BY <1>1, <1>2, FsSteady

----------------------------------------------------------------------------
(* Boot *)

\* Before the volume is mounted there is no access and nothing is cached.
LEMMA NothingBegun ==
  ASSUME Core, stage # "mounted", UNCHANGED <<image, before, fatCache, access>>,
         stage' = "mounted" => pc' = "idle"
  PROVE  access' = NoAccess /\ fatCache' = NotCached /\ AccessInOrder' /\ FatCacheTracks'
<1>1. access' = NoAccess /\ fatCache' = NotCached
  BY DEF Core, BootInOrder
<1>. QED BY <1>1 DEF AccessInOrder, FatCacheTracks

LEMMA ReadMbrKeeps ==
  ASSUME Core, ReadMbr
  PROVE  Core'
<1>1. /\ stage = "power_on" /\ stage' = "mbr" /\ Call(Read(0, 1))
      /\ UNCHANGED <<image, before, torn, accesses, partitions, fs, fatCache, access, outcome>>
  BY DEF ReadMbr, Unchanged
<1>2. 0 \in DOMAIN cache /\ cache' = cache /\ req' = Read(0, 1)
  BY <1>1, StorageAssumption DEF Core, StorageTypeOK, Call, hardware
<1>3. AtaInv'
  <2>1. /\ Read(0, 1).kind = "read" /\ Read(0, 1).lba = 0 /\ Read(0, 1).count = 1
    BY DEF Read
  <2>2. 0 .. 0 + 1 - 1 \subseteq DOMAIN cache
    BY <1>2
  <2>. QED BY <1>1, <2>1, <2>2, CallKeeps DEF Core
<1>4. StorageTypeOK'
  BY <1>1, <1>2, <1>3 DEF Core, StorageTypeOK, AtaInv
<1>5. BootInOrder'
  BY <1>1, <1>2 DEF Core, BootInOrder, Read
<1>6. AccessInOrder' /\ FatCacheTracks'
  BY <1>1, NothingBegun
<1>. QED BY <1>3, <1>4, <1>5, <1>6 DEF Core

LEMMA ParseMbrKeeps ==
  ASSUME Core, ParseMbr
  PROVE  Core'
<1>1. /\ stage = "mbr" /\ pc = "idle" /\ UNCHANGED ataVars
      /\ UNCHANGED <<image, before, torn, accesses, fs, fatCache, access, outcome>>
  BY DEF ParseMbr, Returned, Unchanged
<1>2. UNCHANGED <<device, st, cmd, cache, media, faults, pc, req, n, buf, result>>
  BY <1>1 DEF ataVars, hardware, driver
<1>3. AtaInv'
  BY <1>1, StutterKeeps DEF Core
<1>4. \/ stage' = "unmounted" /\ partitions' = partitions
      \/ stage' = "table" /\ Signed(image[0]) /\ partitions' = UsedSlots(image[0])
  <2>1. GotSigned => Signed(buf[1]) /\ buf[1] = image[0]
    <3>1. GotSigned => result = "ok" /\ Signed(buf[1])
      BY DEF GotSigned
    <3>2. req = Read(0, 1) /\ cache = image
      BY <1>1 DEF Core, BootInOrder
    <3>. QED BY <1>1, <3>1, <3>2, OneSectorRead DEF Core
  <2>. QED BY <2>1 DEF ParseMbr
<1>5. StorageTypeOK'
  <2>1. \A p \in partitions' : p.type # "UNUSED"
    BY <1>4 DEF Core, StorageTypeOK, UsedSlots
  <2>. QED BY <1>1, <1>2, <1>3, <1>4, <2>1 DEF Core, StorageTypeOK, AtaInv
<1>6. BootInOrder'
  BY <1>1, <1>2, <1>4 DEF Core, BootInOrder, UsedSlots
<1>7. AccessInOrder' /\ FatCacheTracks'
  BY <1>1, <1>4, NothingBegun
<1>. QED BY <1>3, <1>5, <1>6, <1>7 DEF Core

LEMMA MountKeeps ==
  ASSUME Core, Mount
  PROVE  Core'
<1>1. /\ stage = "table"
      /\ UNCHANGED <<image, before, torn, accesses, partitions, fatCache, access, outcome>>
  BY DEF Mount, Unchanged
<1>2. /\ image \in IMAGES /\ Signed(image[0]) /\ partitions = UsedSlots(image[0])
      /\ cache = image /\ fs = NotMounted /\ req.kind = "read"
  BY <1>1 DEF Core, StorageTypeOK, BootInOrder
<1>3. CASE stage' = "unmounted" /\ Returned /\ UNCHANGED fs
  <2>1. UNCHANGED <<device, st, cmd, cache, media, faults, pc, req, n, buf, result>>
    BY <1>3 DEF Returned, ataVars, hardware, driver
  <2>2. AtaInv'
    BY <1>3, StutterKeeps DEF Core, Returned
  <2>3. StorageTypeOK'
    BY <1>1, <1>3, <2>1, <2>2 DEF Core, StorageTypeOK, AtaInv
  <2>4. BootInOrder'
    BY <1>1, <1>3, <2>1 DEF Core, BootInOrder
  <2>5. AccessInOrder' /\ FatCacheTracks'
    BY <1>1, <1>3, NothingBegun
  <2>. QED BY <2>2, <2>3, <2>4, <2>5 DEF Core
<1>4. ASSUME NEW p \in GetInfo(0), p.type \in FAT32Types,
             Call(Read(p.start, 1)), stage' = "boot_sector", fs' = [fs EXCEPT !.start = p.start]
      PROVE  Core'
  <2>1. p = Volume
    <3>1. p \in UsedSlots(image[0]) /\ p.index = 0
      BY <1>2 DEF GetInfo
    <3>2. PICK i \in 1 .. 4 : p = image[0].slots[i]
      BY <3>1 DEF UsedSlots
    <3>3. image[0].slots[i].index = i - 1
      BY <1>2, StorageAssumption
    <3>4. i = 1
      BY <3>1, <3>2, <3>3
    <3>. QED BY <3>2, <3>4 DEF Volume
  <2>2. WellFormed(image, Volume)
    BY <1>2, <1>4, <2>1, StorageAssumption DEF Volume
  <2>3. p.start \in Nat /\ p.start \in DOMAIN cache
    BY <1>2, <2>1, <2>2 DEF WellFormed
  <2>4. AtaInv'
    <3>1. /\ Read(p.start, 1).kind = "read" /\ Read(p.start, 1).lba = p.start
          /\ Read(p.start, 1).count = 1
      BY DEF Read
    <3>2. p.start .. p.start + 1 - 1 \subseteq DOMAIN cache
      BY <2>3
    <3>. QED BY <1>4, <2>3, <3>1, <3>2, CallKeeps DEF Core
  <2>5. cache' = cache /\ req' = Read(Volume.start, 1)
    BY <1>4, <2>1 DEF Call, hardware
  <2>6. StorageTypeOK'
    BY <1>1, <1>4, <2>4, <2>5 DEF Core, StorageTypeOK, AtaInv
  <2>7. fs'.start = Volume.start
    BY <1>2, <1>4, <2>1 DEF NotMounted
  <2>8. Volume' = Volume
    BY <1>1 DEF Volume
  <2>9. BootInOrder'
    BY <1>1, <1>2, <1>4, <2>1, <2>5, <2>7, <2>8 DEF Core, BootInOrder, Read
  <2>10. AccessInOrder' /\ FatCacheTracks'
    BY <1>1, <1>4, NothingBegun
  <2>. QED BY <2>4, <2>6, <2>9, <2>10 DEF Core
<1>. QED BY <1>3, <1>4 DEF Mount

LEMMA ParseBootSectorKeeps ==
  ASSUME Core, ParseBootSector
  PROVE  Core'
<1>1. /\ stage = "boot_sector" /\ pc = "idle" /\ UNCHANGED ataVars
      /\ UNCHANGED <<image, before, torn, accesses, partitions, fatCache, access, outcome>>
  BY DEF ParseBootSector, Returned, Unchanged
<1>2. UNCHANGED <<device, st, cmd, cache, media, faults, pc, req, n, buf, result>>
  BY <1>1 DEF ataVars, hardware, driver
<1>3. AtaInv'
  BY <1>1, StutterKeeps DEF Core
<1>4. Volume' = Volume /\ VolumeBoot' = VolumeBoot
  BY <1>1 DEF Volume, VolumeBoot
<1>5. \/ stage' = "unmounted"
      \/ /\ stage' = "mounted" /\ Signed(VolumeBoot)
         /\ fs' = Geometry(Volume.start, VolumeBoot)
  <2>1. GotSigned => Signed(buf[1]) /\ buf[1] = VolumeBoot
    <3>1. GotSigned => result = "ok" /\ Signed(buf[1])
      BY DEF GotSigned
    <3>2. req = Read(Volume.start, 1) /\ cache = image
      BY <1>1 DEF Core, BootInOrder
    <3>. QED BY <1>1, <3>1, <3>2, OneSectorRead DEF Core, VolumeBoot
  <2>2. fs.start = Volume.start
    BY <1>1 DEF Core, BootInOrder
  <2>. QED BY <2>1, <2>2 DEF ParseBootSector
<1>6. StorageTypeOK'
  BY <1>1, <1>2, <1>3, <1>5 DEF Core, StorageTypeOK, AtaInv
<1>7. BootInOrder'
  BY <1>1, <1>2, <1>4, <1>5 DEF Core, BootInOrder, Geometry
<1>8. AccessInOrder' /\ FatCacheTracks'
  BY <1>1, <1>2, NothingBegun
<1>. QED BY <1>3, <1>6, <1>7, <1>8 DEF Core

----------------------------------------------------------------------------
(* Accesses *)

\* The first driver call of an access.
FirstCall(kind, c, r) ==
  \/ kind \in {"lookup", "entry_read"} /\ r = Read(FatSector(0, c), 1)
  \/ kind = "cluster" /\ r = Read(fat32_cluster_to_lba(c), fs.spc)
  \/ /\ kind = "cluster" /\ r.kind = "write" /\ r.lba = fat32_cluster_to_lba(c)
     /\ r.count = fs.spc

LEMMA StartKeeps ==
  ASSUME Core, NEW kind, NEW c \in Clusters, NEW v, NEW r, FirstCall(kind, c, r),
         Start(kind, c, v, r)
  PROVE  Core'
<1>1. /\ stage = "mounted" /\ access = NoAccess /\ accesses < MAX_ACCESSES /\ Call(r)
      /\ access' = [kind |-> kind, cluster |-> c, value |-> v, fat |-> 0]
      /\ before' = cache /\ outcome' = "none" /\ accesses' = accesses + 1
      /\ UNCHANGED <<image, stage, partitions, fs, fatCache, torn>>
  BY DEF Start
<1>2. Mounted
  BY <1>1, MountedHere
<1>3. /\ cache' = cache /\ req' = r /\ n' = 0
      /\ cache = [s \in DOMAIN image |-> cache[s]] /\ DOMAIN cache = DOMAIN image
  BY <1>1 DEF Call, hardware, Core, StorageTypeOK
<1>4. fs.num_fats \in Nat /\ 0 \in 0 .. fs.num_fats - 1 /\ fs.spc \in Nat \ {0}
  BY <1>2, MountedGeometry
<1>5. /\ r.kind \in {"read", "write"} /\ r.lba \in Nat /\ r.count \in Nat \ {0}
      /\ r.lba .. r.lba + r.count - 1 \subseteq DOMAIN cache
  <2>1. CASE r = Read(FatSector(0, c), 1)
    <3>1. r.kind = "read" /\ r.lba = FatSector(0, c) /\ r.count = 1
      BY <2>1 DEF Read
    <3>2. FatSector(0, c) \in Nat /\ FatSector(0, c) \in DOMAIN image
      BY <1>2, <1>4, FatSectorInRegion
    <3>. QED BY <1>3, <3>1, <3>2
  <2>2. CASE /\ r.kind \in {"read", "write"} /\ r.lba = fat32_cluster_to_lba(c)
             /\ r.count = fs.spc
    <3>1. /\ fat32_cluster_to_lba(c) \in Nat
          /\ fat32_cluster_to_lba(c) .. fat32_cluster_to_lba(c) + fs.spc - 1 \subseteq DOMAIN image
      BY <1>2, ClusterInRegion
    <3>. QED BY <1>3, <1>4, <2>2, <3>1
  <2>. QED BY <2>1, <2>2 DEF FirstCall, Read
<1>6. AtaInv'
  BY <1>1, <1>5, CallKeeps DEF Core
<1>7. kind \in {"lookup", "entry_read", "cluster"} /\ access' # NoAccess
  BY <1>1 DEF FirstCall, NoAccess
<1>8. StorageTypeOK'
  <2>1. accesses' \in 0 .. MAX_ACCESSES
    <3>1. accesses \in 0 .. MAX_ACCESSES
      BY DEF Core, StorageTypeOK
    <3>. QED BY <1>1, <3>1, StorageAssumption
  <2>. QED BY <1>1, <1>3, <1>6, <2>1 DEF Core, StorageTypeOK, AtaInv
<1>9. BootInOrder'
  BY <1>1 DEF Core, BootInOrder, Volume, VolumeBoot
<1>10. FatCacheTracks'
  BY <1>1, <1>7 DEF Core, FatCacheTracks, FatRegion, Volume, VolumeBoot
<1>11. AccessInOrder'
  <2>1. /\ FatSector(0, c)' = FatSector(0, c) /\ Clusters' = Clusters
        /\ fat32_cluster_to_lba(c)' = fat32_cluster_to_lba(c)
    BY <1>1 DEF FatSector, SectorIndex, fat32_cluster_to_lba, Clusters
  <2>2. UpdatedCopies(0)' = cache
    <3>1. \A x : ~\E copy \in 0 .. 0 - 1 : x = FatSector(copy, c)'
      OBVIOUS
    <3>. QED BY <1>1, <1>3, <3>1 DEF UpdatedCopies
  <2>3. StoredPart(0)' = cache
    <3>1. PICK first \in Nat : first = fat32_cluster_to_lba(c)
      BY <1>2, ClusterInRegion
    <3>2. \A x : x \notin first .. first + 0 - 1
      OBVIOUS
    <3>. QED BY <1>1, <1>3, <2>1, <3>1, <3>2 DEF StoredPart
  <2>4. access'.kind = kind /\ access'.cluster = c /\ access'.fat = 0
    BY <1>1
  <2>5. /\ access'.cluster \in Clusters' /\ access'.fat \in 0 .. fs'.num_fats - 1
    BY <1>1, <1>4, <2>1, <2>4
  <2>6. \/ /\ access'.kind = "lookup" /\ access'.fat = 0
           /\ req' = Read(FatSector(0, c), 1) /\ cache' = before'
        \/ /\ access'.kind = "entry_read"
           /\ req' = Read(FatSector(0, c), 1) /\ cache' = UpdatedCopies(0)'
        \/ /\ access'.kind = "cluster"
           /\ req' = Read(fat32_cluster_to_lba(c), fs.spc) /\ cache' = before'
        \/ /\ access'.kind = "cluster"
           /\ req'.kind = "write" /\ req'.lba = fat32_cluster_to_lba(c) /\ req'.count = fs.spc
           /\ cache' = StoredPart(0)'
    BY <1>1, <1>3, <2>2, <2>3, <2>4 DEF FirstCall
  <2>7. /\ FatSector(access.fat, access.cluster)' = FatSector(0, c)
        /\ fat32_cluster_to_lba(access.cluster)' = fat32_cluster_to_lba(c)
        /\ UpdatedCopies(access.fat)' = UpdatedCopies(0)'
        /\ StoredPart(n)' = StoredPart(0)'
    BY <1>1, <1>3, <2>4 DEF FatSector, SectorIndex, fat32_cluster_to_lba, UpdatedCopies,
                            StoredPart
  <2>8. \A s, k : Read(s, k)' = Read(s, k)
    BY DEF Read
  <2>. QED BY <1>1, <1>7, <2>5, <2>6, <2>7, <2>8 DEF AccessInOrder, Read
<1>. QED BY <1>6, <1>8, <1>9, <1>10, <1>11 DEF Core

\* fat32.c begins an access with one of these calls.
LEMMA BeginAccessKeeps ==
  ASSUME Core, BeginAccess
  PROVE  Core'
<1>1. PICK c \in Clusters :
        \/ NextCluster(c)
        \/ \E v \in VALUES : SetFatEntry(c, v)
        \/ LoadCluster(c)
        \/ \E data \in [1 .. fs.spc -> CONTENTS] : StoreCluster(c, data)
  BY DEF BeginAccess
<1>2. CASE NextCluster(c)
  BY <1>2, StartKeeps DEF NextCluster, FirstCall
<1>3. ASSUME NEW v \in VALUES, SetFatEntry(c, v) PROVE Core'
  BY <1>3, StartKeeps DEF SetFatEntry, FirstCall
<1>4. CASE LoadCluster(c)
  BY <1>4, StartKeeps DEF LoadCluster, FirstCall
<1>5. ASSUME NEW data \in [1 .. fs.spc -> CONTENTS], StoreCluster(c, data) PROVE Core'
  <2>1. fs.spc \in Nat
    <3>1. stage = "mounted"
      BY <1>5 DEF StoreCluster, Start
    <3>. QED BY <3>1, MountedHere, MountedGeometry
  <2>2. Len(data) = fs.spc
    BY <2>1
  <2>3. FirstCall("cluster", c, Write(fat32_cluster_to_lba(c), data))
    BY <2>2 DEF FirstCall, Write
  <2>. QED BY <1>5, <2>3, StartKeeps DEF StoreCluster
<1>. QED BY <1>1, <1>2, <1>3, <1>4, <1>5

\* What is known of the access in progress, without its kind.
LEMMA InAccess ==
  ASSUME Core, access # NoAccess
  PROVE  /\ stage = "mounted" /\ Mounted
         /\ access.cluster \in Clusters /\ access.fat \in 0 .. fs.num_fats - 1
         /\ access.fat \in Nat /\ fs.num_fats \in Nat \ {0}
         /\ DOMAIN before = DOMAIN image /\ DOMAIN cache = DOMAIN image
<1>1. stage = "mounted" /\ Mounted
  BY AccessMeansMounted
<1>2. access.cluster \in Clusters /\ access.fat \in 0 .. fs.num_fats - 1
  BY DEF Core, AccessInOrder
<1>3. fs.num_fats \in Nat \ {0}
  BY <1>1, MountedGeometry
<1>4. DOMAIN before = DOMAIN image /\ DOMAIN cache = DOMAIN image
  BY DEF Core, StorageTypeOK
<1>. QED BY <1>1, <1>2, <1>3, <1>4

\* The access ends.
LEMMA EndKeeps ==
  ASSUME Core, access # NoAccess, pc = "idle", access' = NoAccess,
         outcome' \in {"none", "ok", "fail"}, UNCHANGED ataVars,
         UNCHANGED <<image, stage, partitions, fs, before, accesses>>, FatCacheTracks'
  PROVE  Core'
<1>1. UNCHANGED <<device, st, cmd, cache, media, faults, pc, req, n, buf, result>>
  BY DEF ataVars, hardware, driver
<1>2. AtaInv'
  BY StutterKeeps DEF Core
<1>3. StorageTypeOK'
  BY <1>1, <1>2 DEF Core, StorageTypeOK, AtaInv
<1>4. stage = "mounted"
  BY InAccess
<1>5. BootInOrder'
  BY <1>1, <1>4 DEF Core, BootInOrder, Volume, VolumeBoot
<1>6. AccessInOrder'
  BY <1>1 DEF AccessInOrder
<1>. QED BY <1>2, <1>3, <1>5, <1>6 DEF Core

\* The access goes on with the next call.
LEMMA GoOnKeeps ==
  ASSUME Core, access # NoAccess, NEW kind, NEW k \in 0 .. fs.num_fats - 1, NEW s, NEW r,
         s = FatSector(k, access.cluster), cache = UpdatedCopies(k),
         \/ kind = "entry_read" /\ r = Read(s, 1)
         \/ kind = "entry_write" /\ r = Write(s, <<WithEntry(before[s])>>),
         Call(r),
         access' = [kind |-> kind, cluster |-> access.cluster, value |-> access.value,
                    fat |-> k],
         UNCHANGED <<image, stage, partitions, fs, fatCache, before, outcome, torn, accesses>>
  PROVE  Core'
<1>1. /\ stage = "mounted" /\ Mounted
      /\ access.cluster \in Clusters /\ fs.num_fats \in Nat /\ DOMAIN cache = DOMAIN image
  BY InAccess
<1>2. cache' = cache /\ req' = r /\ n' = 0
  BY DEF Call, hardware
<1>3. s \in Nat /\ s \in DOMAIN cache
  BY <1>1, FatSectorInRegion
<1>4. r.kind \in {"read", "write"} /\ r.lba = s /\ r.count = 1
  BY DEF Read, Write
<1>5. AtaInv'
  <2>1. r.lba .. r.lba + r.count - 1 \subseteq DOMAIN cache
    BY <1>3, <1>4
  <2>. QED BY <1>3, <1>4, <2>1, CallKeeps DEF Core
<1>6. StorageTypeOK'
  BY <1>2, <1>5 DEF Core, StorageTypeOK, AtaInv
<1>7. BootInOrder'
  BY <1>1 DEF Core, BootInOrder, Volume, VolumeBoot
<1>8. access' # NoAccess
  BY DEF NoAccess
<1>9. FatCacheTracks'
  BY <1>8 DEF Core, FatCacheTracks, FatRegion, Volume, VolumeBoot
<1>10. AccessInOrder'
  <2>1. access'.kind = kind /\ access'.cluster = access.cluster /\ access'.value = access.value
        /\ access'.fat = k /\ k + 0 = k
    BY <1>1
  <2>2. /\ FatSector(access.fat, access.cluster)' = s /\ Clusters' = Clusters
        /\ UpdatedCopies(access.fat)' = cache /\ UpdatedCopies(access.fat + n)' = cache
        /\ WithEntry(before[s])' = WithEntry(before[s])
    BY <1>2, <2>1 DEF FatSector, SectorIndex, EntryOffset, UpdatedCopies, WithEntry, Clusters
  <2>. QED BY <1>1, <1>2, <1>8, <2>1, <2>2 DEF AccessInOrder, Read, Write
<1>. QED BY <1>5, <1>6, <1>7, <1>9, <1>10 DEF Core

LEMMA LookupDoneKeeps ==
  ASSUME Core, LookupDone
  PROVE  Core'
<1>1. /\ access.kind = "lookup" /\ pc = "idle" /\ access' = NoAccess /\ outcome' = result
      /\ UNCHANGED ataVars /\ UNCHANGED <<image, stage, partitions, fs, before, accesses, torn>>
      /\ fatCache' = IF result = "ok"
                     THEN [sector |-> FatSector(0, access.cluster), data |-> buf[1]]
                     ELSE fatCache
  BY DEF LookupDone, Back, End
<1>2. access # NoAccess
  BY <1>1 DEF NoAccess
<1>3. /\ access.cluster \in Clusters /\ access.fat = 0 /\ Mounted /\ fs.num_fats \in Nat \ {0}
      /\ req = Read(FatSector(0, access.cluster), 1) /\ cache = before
  BY <1>1, <1>2, InAccess DEF Core, AccessInOrder
<1>4. FatSector(0, access.cluster) \in FatRegion(0)
  <2>1. 0 \in 0 .. fs.num_fats - 1
    BY <1>3
  <2>. QED BY <1>3, <2>1, FatSectorInRegion
<1>5. FatRegion(0)' = FatRegion(0) /\ cache' = cache
  BY <1>1 DEF FatRegion, Volume, VolumeBoot, ataVars, hardware
<1>6. FatCacheTracks'
  <2>1. CASE result = "ok"
    <3>1. buf[1] = cache[FatSector(0, access.cluster)]
      BY <1>1, <1>3, <2>1, OneSectorRead DEF Core
    <3>2. fatCache'.sector = FatSector(0, access.cluster) /\ fatCache'.data = buf[1]
      BY <1>1, <2>1
    <3>. QED BY <1>1, <1>4, <1>5, <3>1, <3>2 DEF FatCacheTracks
  <2>2. CASE result # "ok"
    BY <1>1, <1>2, <1>3, <1>5, <2>2 DEF Core, FatCacheTracks
  <2>. QED BY <2>1, <2>2
<1>7. outcome' \in {"none", "ok", "fail"}
  BY <1>1 DEF Core, AtaInv, AtaTypeOK
<1>. QED BY <1>1, <1>2, <1>6, <1>7, EndKeeps

\* An update that ends early is remembered.
LEMMA TornKeeps ==
  ASSUME Core, access # NoAccess, pc = "idle", End("fail"), torn' = TRUE, fatCache' = fatCache,
         UNCHANGED <<image, stage, partitions, fs, before, accesses>>
  PROVE  Core'
<1>1. FatRegion(0)' = FatRegion(0)
  BY DEF FatRegion, Volume, VolumeBoot
<1>2. FatCacheTracks'
  BY <1>1 DEF Core, FatCacheTracks
<1>. QED BY <1>2, EndKeeps DEF End

\* The copy that is next has not been changed.
LEMMA NextCopyUntouched ==
  ASSUME Core, access # NoAccess, cache = UpdatedCopies(access.fat),
         NEW s, s = FatSector(access.fat, access.cluster)
  PROVE  cache[s] = before[s]
<1>1. /\ Mounted /\ access.cluster \in Clusters /\ access.fat \in 0 .. fs.num_fats - 1
      /\ access.fat \in Nat /\ fs.num_fats \in Nat
      /\ DOMAIN before = DOMAIN image
  BY InAccess
<1>2. s \in FatRegion(access.fat) /\ s \in DOMAIN before
  BY <1>1, FatSectorInRegion
<1>3. ASSUME NEW copy \in 0 .. access.fat - 1 PROVE s # FatSector(copy, access.cluster)
  <2>1. copy \in 0 .. fs.num_fats - 1 /\ copy # access.fat
    BY <1>1
  <2>2. FatSector(copy, access.cluster) \in FatRegion(copy)
    BY <1>1, <2>1, FatSectorInRegion
  <2>3. FatRegion(access.fat) \intersect FatRegion(copy) = {}
    BY <1>1, <2>1, RegionsApart
  <2>. QED BY <1>2, <2>2, <2>3
<1>. QED BY <1>2, <1>3 DEF UpdatedCopies

LEMMA EntryReadKeeps ==
  ASSUME Core, EntryRead
  PROVE  Core'
<1>1. /\ access.kind = "entry_read" /\ pc = "idle" /\ fatCache' = fatCache
      /\ UNCHANGED <<image, stage, partitions, fs, before, accesses>>
  BY DEF EntryRead, Back
<1>2. access # NoAccess
  BY <1>1 DEF NoAccess
<1>3. CASE result # "ok" /\ End("fail") /\ torn' = TRUE
  BY <1>1, <1>2, <1>3, TornKeeps
<1>4. CASE /\ result = "ok"
           /\ Call(Write(FatSector(access.fat, access.cluster), <<WithEntry(buf[1])>>))
           /\ access' = [kind |-> "entry_write", cluster |-> access.cluster,
                         value |-> access.value, fat |-> access.fat]
           /\ UNCHANGED <<outcome, torn>>
  <2>1. PICK s : s = FatSector(access.fat, access.cluster)
    OBVIOUS
  <2>2. /\ access.fat \in 0 .. fs.num_fats - 1
        /\ req = Read(s, 1) /\ cache = UpdatedCopies(access.fat)
    BY <1>1, <1>2, <2>1 DEF Core, AccessInOrder
  <2>3. buf[1] = before[s]
    <3>1. buf[1] = cache[s]
      BY <1>1, <1>4, <2>2, OneSectorRead DEF Core
    <3>. QED BY <1>2, <2>1, <2>2, <3>1, NextCopyUntouched
  <2>4. Call(Write(s, <<WithEntry(before[s])>>))
    BY <1>4, <2>1, <2>3
  <2>. QED BY <1>1, <1>2, <1>4, <2>1, <2>2, <2>4, GoOnKeeps
<1>. QED BY <1>3, <1>4 DEF EntryRead

\* The cached sector after the last copy was updated.
LEMMA SyncCacheTracks ==
  ASSUME Core, access # NoAccess, cache = UpdatedCopies(fs.num_fats), cache' = cache,
         access' = NoAccess, fatCache' = SyncCache, UNCHANGED <<image, torn>>
  PROVE  FatCacheTracks'
<1>1. /\ Mounted /\ access.cluster \in Clusters /\ fs.num_fats \in Nat \ {0}
      /\ DOMAIN before = DOMAIN image
  BY InAccess
<1>2. FatRegion(0)' = FatRegion(0)
  BY DEF FatRegion, Volume, VolumeBoot
<1>3. 0 \in 0 .. fs.num_fats - 1
  BY <1>1
<1>4. FatSector(0, access.cluster) \in FatRegion(0) /\ FatSector(0, access.cluster) \in Nat
  BY <1>1, <1>3, FatSectorInRegion
<1>5. CASE fatCache = NotCached
  <2>1. fatCache.sector # FatSector(0, access.cluster)
    BY <1>4, <1>5 DEF NotCached
  <2>. QED BY <1>5, <2>1 DEF SyncCache, FatCacheTracks
<1>6. CASE fatCache # NotCached
  <2>1. /\ fatCache.sector \in FatRegion(0)
        /\ ~torn => fatCache.data = before[fatCache.sector]
    BY <1>6 DEF Core, FatCacheTracks
  <2>2. fatCache.sector \in DOMAIN before
    BY <1>1, <1>3, <2>1, RegionsApart
  <2>3. CASE fatCache.sector = FatSector(0, access.cluster)
    <3>1. fatCache'.sector = fatCache.sector /\ fatCache'.data = WithEntry(fatCache.data)
      BY <2>3 DEF SyncCache
    <3>2. cache[fatCache.sector] = WithEntry(before[fatCache.sector])
      BY <1>3, <2>2, <2>3 DEF UpdatedCopies
    <3>. QED BY <1>2, <2>1, <3>1, <3>2 DEF FatCacheTracks
  <2>4. CASE fatCache.sector # FatSector(0, access.cluster)
    <3>1. fatCache' = fatCache
      BY <2>4 DEF SyncCache
    <3>2. ASSUME NEW copy \in 0 .. fs.num_fats - 1
          PROVE  fatCache.sector # FatSector(copy, access.cluster)
      <4>1. CASE copy = 0
        BY <2>4, <4>1
      <4>2. CASE copy # 0
        <5>1. FatSector(copy, access.cluster) \in FatRegion(copy)
          BY <1>1, FatSectorInRegion
        <5>2. FatRegion(0) \intersect FatRegion(copy) = {}
          BY <1>1, <1>3, <4>2, RegionsApart
        <5>. QED BY <2>1, <5>1, <5>2
      <4>. QED BY <4>1, <4>2
    <3>3. cache[fatCache.sector] = before[fatCache.sector]
      BY <2>2, <3>2 DEF UpdatedCopies
    <3>. QED BY <1>2, <2>1, <3>1, <3>3 DEF FatCacheTracks
  <2>. QED BY <2>3, <2>4
<1>. QED BY <1>5, <1>6

LEMMA EntryWrittenKeeps ==
  ASSUME Core, EntryWritten
  PROVE  Core'
<1>1. /\ access.kind = "entry_write" /\ pc = "idle"
      /\ UNCHANGED <<image, stage, partitions, fs, before, accesses>>
  BY DEF EntryWritten, Back
<1>2. access # NoAccess
  BY <1>1 DEF NoAccess
<1>3. access.fat \in Nat /\ fs.num_fats \in Nat /\ access.fat \in 0 .. fs.num_fats - 1
  BY <1>2, InAccess
<1>4. result = "ok" => cache = UpdatedCopies(access.fat + 1)
  <2>1. /\ cache = UpdatedCopies(access.fat + n) /\ req.count = 1
    BY <1>1, <1>2 DEF Core, AccessInOrder, Write
  <2>. QED BY <1>1, <2>1 DEF Core, AtaInv, Transferred
<1>5. CASE result # "ok" /\ End("fail") /\ torn' = TRUE /\ UNCHANGED fatCache
  BY <1>1, <1>2, <1>5, TornKeeps
<1>6. CASE result = "ok" /\ LastFat /\ End("ok") /\ fatCache' = SyncCache /\ UNCHANGED torn
  <2>1. access.fat + 1 = fs.num_fats
    BY <1>6 DEF LastFat
  <2>2. access' = NoAccess /\ outcome' = "ok" /\ UNCHANGED ataVars /\ cache' = cache
    BY <1>6 DEF End, ataVars, hardware
  <2>3. FatCacheTracks'
    BY <1>1, <1>2, <1>4, <1>6, <2>1, <2>2, SyncCacheTracks
  <2>. QED BY <1>1, <1>2, <2>2, <2>3, EndKeeps
<1>7. CASE /\ result = "ok" /\ ~LastFat
           /\ Call(Read(FatSector(access.fat + 1, access.cluster), 1))
           /\ access' = [kind |-> "entry_read", cluster |-> access.cluster,
                         value |-> access.value, fat |-> access.fat + 1]
           /\ UNCHANGED <<fatCache, outcome, torn>>
  <2>1. PICK k \in 0 .. fs.num_fats - 1 : k = access.fat + 1
    BY <1>3, <1>7 DEF LastFat
  <2>2. cache = UpdatedCopies(k)
    BY <1>4, <1>7, <2>1
  <2>3. Call(Read(FatSector(k, access.cluster), 1))
    BY <1>7, <2>1
  <2>4. access' = [kind |-> "entry_read", cluster |-> access.cluster,
                   value |-> access.value, fat |-> k]
    BY <1>7, <2>1
  <2>. QED BY <1>1, <1>2, <1>7, <2>2, <2>3, <2>4, GoOnKeeps
<1>. QED BY <1>5, <1>6, <1>7 DEF EntryWritten

LEMMA ClusterDoneKeeps ==
  ASSUME Core, ClusterDone
  PROVE  Core'
<1>1. /\ access.kind = "cluster" /\ pc = "idle" /\ access' = NoAccess /\ outcome' = result
      /\ UNCHANGED ataVars
      /\ UNCHANGED <<image, stage, partitions, fs, before, accesses, fatCache, torn>>
  BY DEF ClusterDone, Back, End
<1>2. access # NoAccess
  BY <1>1 DEF NoAccess
<1>3. /\ Mounted /\ access.cluster \in Clusters /\ fs.num_fats \in Nat \ {0}
      /\ DOMAIN before = DOMAIN image
  BY <1>2, InAccess
<1>4. FatRegion(0)' = FatRegion(0) /\ cache' = cache
  BY <1>1 DEF FatRegion, Volume, VolumeBoot, ataVars, hardware
<1>5. FatCacheTracks'
  <2>. SUFFICES ASSUME fatCache # NotCached
                PROVE  cache[fatCache.sector] = before[fatCache.sector]
    BY <1>1, <1>2, <1>4 DEF Core, FatCacheTracks
  <2>1. fatCache.sector \in FatRegion(0)
    BY DEF Core, FatCacheTracks
  <2>2. /\ FatRegion(0) \intersect DataRegion = {} /\ FatRegion(0) \subseteq DOMAIN image
    <3>1. 0 \in 0 .. fs.num_fats - 1
      BY <1>3
    <3>. QED BY <1>3, <3>1, RegionsApart
  <2>3. CASE cache = before
    BY <2>3
  <2>4. CASE cache = StoredPart(n) /\ req.count = fs.spc
    <3>1. PICK first \in Nat : first = fat32_cluster_to_lba(access.cluster)
      BY <1>3, ClusterInRegion
    <3>2. first .. first + fs.spc - 1 \subseteq DataRegion /\ fs.spc \in Nat
      BY <1>3, <3>1, ClusterInRegion
    <3>3. n \in Nat /\ n <= fs.spc
      BY <2>4, RequestTyped DEF Core, AtaInv
    <3>4. \A x \in first .. first + n - 1 : x \in DataRegion
      BY <3>2, <3>3
    <3>. QED BY <1>3, <2>1, <2>2, <2>4, <3>1, <3>4 DEF StoredPart
  <2>. QED BY <1>1, <1>2, <2>3, <2>4 DEF Core, AccessInOrder
<1>6. outcome' \in {"none", "ok", "fail"}
  BY <1>1 DEF Core, AtaInv, AtaTypeOK
<1>. QED BY <1>1, <1>2, <1>5, <1>6, EndKeeps

----------------------------------------------------------------------------
(* The invariant *)

\* The machine is switched on with a drive that does nothing and a disk from the
\* image builder.
LEMMA InitCore ==
  ASSUME Init
  PROVE  Core
<1>1. /\ device \in DEVICES /\ st = Quiet /\ cmd = Idle /\ cache = image /\ media = image
      /\ pc = "idle" /\ req = NoRequest /\ n = 0 /\ buf = <<>> /\ result = "none"
  BY DEF Init, AtaInit
<1>2. /\ image \in IMAGES /\ stage = "power_on" /\ partitions = {} /\ fs = NotMounted
      /\ fatCache = NotCached /\ access = NoAccess /\ before = image
      /\ outcome = "none" /\ accesses = 0
  BY DEF Init
<1>3. AtaTypeOK
  BY <1>1 DEF AtaTypeOK, Idle, NoRequest
<1>4. DriveInStep
  BY <1>1, StatusBits DEF DriveInStep
<1>5. Transferred /\ Flushed
  <2>1. req.kind = "read" /\ req.lba = 0 /\ req.count = 0
    BY <1>1 DEF NoRequest
  <2>2. req.lba .. req.lba + req.count - 1 = {}
    BY <2>1
  <2>. QED BY <1>1, <2>1, <2>2 DEF Transferred, Flushed
<1>6. StorageTypeOK
  <2>1. cache = [s \in DOMAIN image |-> cache[s]]
    BY <1>1, <1>2, StorageAssumption, Zenon
  <2>2. accesses \in 0 .. MAX_ACCESSES
    BY <1>2, StorageAssumption
  <2>. QED BY <1>2, <1>3, <2>1, <2>2 DEF StorageTypeOK
<1>7. BootInOrder
  BY <1>1, <1>2 DEF BootInOrder, NoRequest
<1>8. AccessInOrder /\ FatCacheTracks
  BY <1>1, <1>2 DEF AccessInOrder, FatCacheTracks
<1>. QED BY <1>3, <1>4, <1>5, <1>6, <1>7, <1>8 DEF Core, AtaInv

\* Every step of the kernel, the driver and the drive keeps them in step.
LEMMA NextKeeps ==
  ASSUME Core, AnswerInTime, [Next]_vars
  PROVE  Core'
<1>1. CASE Boot
  BY <1>1, ReadMbrKeeps, ParseMbrKeeps, MountKeeps, ParseBootSectorKeeps DEF Boot
<1>2. CASE BeginAccess
  BY <1>2, BeginAccessKeeps
<1>3. CASE ContinueAccess
  BY <1>3, LookupDoneKeeps, EntryReadKeeps, EntryWrittenKeeps, ClusterDoneKeeps
     DEF ContinueAccess
<1>4. CASE DriverStep /\ UNCHANGED fsVars
  BY <1>4, DriverStepUnderFs
<1>5. CASE DriveStep /\ UNCHANGED fsVars
  BY <1>5, DriveStepUnderFs
<1>6. CASE UNCHANGED vars
  <2>1. UNCHANGED ataVars /\ UNCHANGED fsVars
    BY <1>6 DEF vars
  <2>2. AtaInv'
    BY <2>1, StutterKeeps DEF Core
  <2>3. cache' = cache /\ req' = req /\ n' = n /\ pc' = pc
    BY <2>1 DEF ataVars, hardware, driver
  <2>. QED BY <2>1, <2>2, <2>3, FsSteady
<1>. QED BY <1>1, <1>2, <1>3, <1>4, <1>5, <1>6 DEF Next

\* A driver call made for an access names sectors of the region of that access.
LEMMA CoreStaysInRegion ==
  ASSUME Core
  PROVE  StaysInRegion
<1>. SUFFICES ASSUME stage = "mounted", access # NoAccess
              PROVE  /\ Volume.type \in FAT32Types
                     /\ \A lba \in req.lba .. req.lba + req.count - 1 :
                          IF access.kind = "cluster" THEN lba \in DataRegion
                          ELSE lba \in FatRegion(access.fat)
  BY DEF StaysInRegion
<1>1. Volume.type \in FAT32Types
  BY DEF Core, BootInOrder
<1>2. /\ Mounted /\ access.cluster \in Clusters /\ access.fat \in 0 .. fs.num_fats - 1
  BY InAccess
<1>3. CASE access.kind = "cluster"
  <2>1. req.lba = fat32_cluster_to_lba(access.cluster) /\ req.count = fs.spc
    BY <1>3 DEF Core, AccessInOrder, Read
  <2>2. req.lba .. req.lba + req.count - 1 \subseteq DataRegion
    BY <1>2, <2>1, ClusterInRegion
  <2>. QED BY <1>1, <1>3, <2>2
<1>4. CASE access.kind # "cluster"
  <2>1. req.lba = FatSector(access.fat, access.cluster) /\ req.count = 1
    BY <1>4 DEF Core, AccessInOrder, Read, Write
  <2>2. req.lba \in Nat /\ req.lba \in FatRegion(access.fat)
    BY <1>2, <2>1, FatSectorInRegion
  <2>3. \A lba \in req.lba .. req.lba + req.count - 1 : lba = req.lba
    BY <2>1, <2>2
  <2>. QED BY <1>1, <1>4, <2>2, <2>3
<1>. QED BY <1>3, <1>4

LEMMA CoreIsInvariant ==
  ASSUME AnswerInTime
  PROVE  Spec => []Core
<1>1. Init => Core
  BY InitCore
<1>2. Core /\ [Next]_vars => Core'
  BY NextKeeps
<1>. QED BY <1>1, <1>2, PTL DEF Spec

\* Whatever disk the image builder delivered, whatever errors the drive reports and
\* however late it answers: driver, drive and fat32.c agree on how far an access has
\* come, and no access leaves its region. Drives that drop an early command must
\* answer within the polls (ata_wait_bsy_clear, ata_wait_drq).
THEOREM StorageInvariance ==
  ASSUME AnswerInTime
  PROVE  Spec => []StorageInv
<1>1. Core => StorageInv
  BY CoreStaysInRegion DEF Core, StorageInv
<1>. QED BY <1>1, CoreIsInvariant, PTL

\* A write for which ata_write_sectors returned its count survives a power cut, on a
\* drive that takes the flush command whenever it comes.
THEOREM WritesAreDurable ==
  ASSUME AnswerInTime
  PROVE  Spec => []Durable
<1>1. Core => Durable
  <2>. SUFFICES ASSUME Core, pc = "idle", result = "ok", req.kind = "write",
                       device.overlap = "replace", NEW i \in 1 .. req.count
                PROVE  media[req.lba + i - 1] = req.data[i]
    BY DEF Durable
  <2>1. n = req.count /\ cache[req.lba + i - 1] = req.data[i]
    BY DEF Core, AtaInv, Transferred
  <2>2. req.count \in Nat
    BY RequestTyped DEF Core, AtaInv
  <2>3. media = cache
    BY <2>1, <2>2 DEF Core, AtaInv, Flushed
  <2>. QED BY <2>1, <2>3
<1>. QED BY <1>1, CoreIsInvariant, PTL

----------------------------------------------------------------------------
(* What a step may do *)

\* An update of the FAT ends after a number of whole copies.
LEMMA UpdateEndsInOrder ==
  ASSUME Core, EntryRead \/ EntryWritten, access' = NoAccess
  PROVE  \E k \in 0 .. fs.num_fats :
           (outcome' = "ok" => k = fs.num_fats) /\ cache' = UpdatedCopies(k)
<1>1. access.kind \in {"entry_read", "entry_write"} /\ access # NoAccess /\ pc = "idle"
  BY DEF EntryRead, EntryWritten, Back, NoAccess
<1>2. access.fat \in Nat /\ fs.num_fats \in Nat /\ access.fat \in 0 .. fs.num_fats - 1
  BY <1>1, InAccess
<1>3. CASE EntryRead
  <2>1. outcome' = "fail" /\ UNCHANGED ataVars /\ access.kind = "entry_read"
    BY <1>3 DEF EntryRead, Back, End, NoAccess
  <2>2. cache' = cache /\ cache = UpdatedCopies(access.fat)
    BY <1>1, <2>1 DEF Core, AccessInOrder, ataVars, hardware
  <2>3. access.fat \in 0 .. fs.num_fats
    BY <1>2
  <2>. QED BY <2>1, <2>2, <2>3
<1>4. CASE EntryWritten
  <2>1. /\ access.kind = "entry_write" /\ UNCHANGED ataVars
        /\ \/ outcome' = "fail"
           \/ outcome' = "ok" /\ result = "ok" /\ LastFat
    BY <1>4 DEF EntryWritten, Back, End, NoAccess
  <2>2. /\ cache' = cache /\ cache = UpdatedCopies(access.fat + n) /\ req.count = 1
    BY <1>1, <2>1 DEF Core, AccessInOrder, ataVars, hardware, Write
  <2>3. n \in Nat /\ n <= 1
    BY <2>2, RequestTyped DEF Core, AtaInv
  <2>4. access.fat + n \in 0 .. fs.num_fats
    BY <1>2, <2>3
  <2>5. outcome' = "ok" => access.fat + n = fs.num_fats
    <3>1. result = "ok" => n = 1
      BY <1>1, <2>2 DEF Core, AtaInv, Transferred
    <3>. QED BY <2>1, <3>1 DEF LastFat
  <2>. QED BY <2>2, <2>4, <2>5
<1>. QED BY <1>3, <1>4

\* A cluster access ends after a first part of the cluster.
LEMMA ClusterEndsInOrder ==
  ASSUME Core, ClusterDone
  PROVE  \E k \in 0 .. fs.spc :
           /\ outcome' = "ok" => k = fs.spc
           /\ cache' = IF req.kind = "write" THEN StoredPart(k) ELSE before
<1>1. /\ access.kind = "cluster" /\ access # NoAccess /\ pc = "idle" /\ outcome' = result
      /\ cache' = cache
  BY DEF ClusterDone, Back, End, NoAccess, ataVars, hardware
<1>2. fs.spc \in Nat
  BY <1>1, InAccess, MountedGeometry
<1>3. CASE req.kind = "write"
  <2>1. req.count = fs.spc /\ cache = StoredPart(n)
    BY <1>1, <1>3 DEF Core, AccessInOrder, Read
  <2>2. n \in 0 .. fs.spc
    BY <1>2, <2>1, RequestTyped DEF Core, AtaInv
  <2>3. result = "ok" => n = fs.spc
    BY <1>1, <2>1 DEF Core, AtaInv, Transferred
  <2>. QED BY <1>1, <1>3, <2>1, <2>2, <2>3
<1>4. CASE req.kind # "write"
  <2>1. cache = before
    BY <1>1, <1>4 DEF Core, AccessInOrder
  <2>2. fs.spc \in 0 .. fs.spc
    BY <1>2
  <2>. QED BY <1>1, <1>4, <2>1, <2>2
<1>. QED BY <1>3, <1>4

\* When fat32_set_fat_entry or a cluster write ends, the disk differs from what it was
\* by a first part of what was to be written, and by all of it on success.
THEOREM StorageWritesInOrder ==
  ASSUME AnswerInTime
  PROVE  Spec => WritesInOrder
<1>1. Core /\ [Next]_vars => [EndsInOrder]_vars
  <2>. SUFFICES ASSUME Core, Next, access # NoAccess, access' = NoAccess
                PROVE  EndsInOrder
    BY DEF EndsInOrder
  <2>1. ContinueAccess
    <3>1. ~Boot
      BY DEF Boot, ReadMbr, ParseMbr, Mount, ParseBootSector, Unchanged
    <3>2. ~BeginAccess
      BY DEF BeginAccess, NextCluster, SetFatEntry, LoadCluster, StoreCluster, Start
    <3>3. ~UNCHANGED fsVars
      BY DEF fsVars
    <3>. QED BY <3>1, <3>2, <3>3 DEF Next
  <2>2. CASE LookupDone
    BY <2>2 DEF LookupDone, Back, EndsInOrder
  <2>3. CASE EntryRead \/ EntryWritten
    <3>1. access.kind # "cluster"
      BY <2>3 DEF EntryRead, EntryWritten, Back
    <3>. QED BY <2>3, <3>1, UpdateEndsInOrder DEF EndsInOrder
  <2>4. CASE ClusterDone
    <3>1. access.kind = "cluster"
      BY <2>4 DEF ClusterDone, Back
    <3>. QED BY <2>4, <3>1, ClusterEndsInOrder DEF EndsInOrder
  <2>. QED BY <2>1, <2>2, <2>3, <2>4 DEF ContinueAccess
<1>. QED BY <1>1, CoreIsInvariant, PTL DEF Spec, WritesInOrder

\* One step of the driver or the drive, as the file system sees it.
LEMMA CallServes ==
  ASSUME NEW r, Call(r)
  PROVE  Blocks!BlockNext(result' = "ok")
<1>1. pc = "idle" /\ n' = 0 /\ buf' = <<>> /\ cache' = cache
  BY DEF Call, hardware
<1>2. CASE device.present
  <2>1. pc' # "idle"
    BY <1>2 DEF Call
  <2>2. Blocks!Begin
    BY <1>1, <2>1 DEF Blocks!Begin
  <2>. QED BY <2>2 DEF Blocks!BlockNext
<1>3. CASE ~device.present
  <2>1. pc' = "idle" /\ result' = "fail"
    BY <1>3 DEF Call
  <2>2. Blocks!Refuse(result' = "ok")
    BY <1>1, <2>1 DEF Blocks!Refuse
  <2>. QED BY <2>2 DEF Blocks!BlockNext
<1>. QED BY <1>2, <1>3

LEMMA ReturnServes ==
  ASSUME pc # "idle", NEW r, Return(r), cache' = cache, r = "ok" => n = req.count
  PROVE  Blocks!BlockNext(result' = "ok")
<1>1. Blocks!Finish(result' = "ok")
  BY DEF Return, Blocks!Finish
<1>. QED BY <1>1 DEF Blocks!BlockNext

LEMMA DriverServes ==
  ASSUME AtaInv, AnswerInTime, DriverStep
  PROVE  [Blocks!BlockNext(result' = "ok")]_(Blocks!blockVars)
<1>. DEFINE Serves == [Blocks!BlockNext(result' = "ok")]_(Blocks!blockVars)
<1>1. ASSUME pc # "idle", NEW at, at # "idle", Step(at), cache' = cache
      PROVE  Serves
  BY <1>1 DEF Step, Blocks!blockVars
<1>2. CASE WaitIdle \/ IssueCommand \/ IssueFlush \/ WaitFlushed
  <2>1. pc # "idle" /\ cache' = cache
    BY <1>2 DEF WaitIdle, IssueCommand, IssueFlush, WaitFlushed, hardware
  <2>2. \/ Step("selected") \/ Step("sector") \/ Step("flushing")
        \/ Return("fail")
    BY <1>2 DEF WaitIdle, IssueCommand, IssueFlush, WaitFlushed
  <2>. QED BY <1>1, <2>1, <2>2, ReturnServes
<1>3. CASE ReturnCount
  BY <1>3, ReturnServes DEF ReturnCount, hardware
<1>4. CASE ReadSector
  <2>1. pc = "sector" /\ req.kind = "read" /\ n < req.count /\ cache' = cache
    BY <1>4 DEF ReadSector
  <2>2. CASE DrqFails /\ Return("fail")
    BY <2>1, <2>2, ReturnServes
  <2>3. CASE ~(DrqFails /\ Return("fail"))
    <3>1. DrqReady /\ n' = n + 1 /\ UNCHANGED <<pc, req, result>>
      BY <1>4, <2>3 DEF ReadSector
    <3>2. st = DataRequest
      BY <3>1, Polls DEF AtaInv, AtaTypeOK
    <3>3. InStep
      BY <2>1, <3>2 DEF AtaInv, DriveInStep
    <3>4. cmd.kind = "read" /\ cmd.lba = req.lba + n
      BY <2>1, <3>3 DEF InStep
    <3>5. buf' = Append(buf, cache[req.lba + n])
      BY <1>4, <2>3, <3>1, <3>2, <3>4, StatusBits DEF ReadSector
    <3>6. Blocks!ServeRead
      BY <2>1, <3>1, <3>5 DEF Blocks!ServeRead
    <3>. QED BY <3>6 DEF Blocks!BlockNext
  <2>. QED BY <2>2, <2>3
<1>5. CASE WriteSector
  <2>1. pc = "sector" /\ req.kind = "write" /\ n < req.count
    BY <1>5 DEF WriteSector
  <2>2. CASE DrqFails /\ Return("fail") /\ UNCHANGED <<device, hardware>>
    BY <2>1, <2>2, ReturnServes DEF hardware
  <2>3. CASE /\ n' = n + 1 /\ pc' = "flush"
             /\ cache' = [cache EXCEPT ![req.lba + n] = req.data[n + 1]]
             /\ UNCHANGED <<device, media, faults, req, buf, result>>
    <3>1. Blocks!ServeWrite
      BY <2>1, <2>3 DEF Blocks!ServeWrite
    <3>. QED BY <3>1 DEF Blocks!BlockNext
  <2>. QED BY <1>5, <2>2, <2>3, WriteSectorDoes
<1>. QED BY <1>2, <1>3, <1>4, <1>5 DEF DriverStep

\* Through errors, timed-out polls and late answers the driver is a block device: what
\* ata_read_sectors returned is what the disk held, in order, and ata_write_sectors
\* changed the sectors it was asked to and no other.
THEOREM AtaServesBlocks ==
  ASSUME AnswerInTime
  PROVE  Spec => ServesBlocks
<1>1. Core /\ [Next]_vars => [Blocks!BlockNext(result' = "ok")]_(Blocks!blockVars)
  <2>. SUFFICES ASSUME Core, [Next]_vars
                PROVE  [Blocks!BlockNext(result' = "ok")]_(Blocks!blockVars)
    OBVIOUS
  <2>1. AtaInv
    BY DEF Core
  <2>2. ASSUME UNCHANGED ataVars
        PROVE  UNCHANGED Blocks!blockVars
    BY <2>2 DEF ataVars, hardware, driver, Blocks!blockVars
  <2>3. CASE \E r : Call(r)
    BY <2>3, CallServes
  <2>4. CASE UNCHANGED ataVars
    BY <2>2, <2>4
  <2>5. CASE DriverStep
    BY <2>1, <2>5, DriverServes
  <2>6. CASE DriveStep
    <3>1. UNCHANGED <<device, cache, driver>>
      BY <2>1, <2>6, DriveStepKeeps
    <3>. QED BY <3>1 DEF driver, Blocks!blockVars
  <2>7. CASE Boot
    BY <2>3, <2>4, <2>7 DEF Boot, ReadMbr, ParseMbr, Mount, ParseBootSector, Returned
  <2>8. CASE BeginAccess
    BY <2>3, <2>8 DEF BeginAccess, NextCluster, SetFatEntry, LoadCluster, StoreCluster, Start
  <2>9. CASE ContinueAccess
    BY <2>3, <2>4, <2>9
       DEF ContinueAccess, LookupDone, EntryRead, EntryWritten, ClusterDone, End
  <2>. QED BY <2>4, <2>5, <2>6, <2>7, <2>8, <2>9 DEF Next, vars
<1>. QED BY <1>1, CoreIsInvariant, PTL DEF Spec, ServesBlocks
=============================================================================
