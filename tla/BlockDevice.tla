---------------------------- MODULE BlockDevice ----------------------------
(***************************************************************************)
(* What the file system expects of the disk driver: a request is served    *)
(* sector by sector, in order; it succeeds only when every sector of it    *)
(* was served, and may fail at any point. A read returns what the disk     *)
(* holds, a write changes the sectors it names and no other, and between   *)
(* two requests the disk does not change.                                  *)
(***************************************************************************)
EXTENDS Naturals, Sequences

VARIABLES
  store,    \* what the disk holds, per sector
  active,   \* whether a request is being served
  request,  \* the request: kind, lba, count, data
  served,   \* how many of its sectors were served
  buffer    \* what a read has returned so far

blockVars == <<store, active, request, served, buffer>>

BlockInit == active = FALSE

Begin ==
  /\ ~active /\ active'
  /\ served' = 0 /\ buffer' = <<>>
  /\ UNCHANGED store

ServeRead ==
  /\ active /\ request.kind = "read" /\ served < request.count
  /\ buffer' = Append(buffer, store[request.lba + served])
  /\ served' = served + 1
  /\ UNCHANGED <<store, active, request>>

ServeWrite ==
  /\ active /\ request.kind = "write" /\ served < request.count
  /\ store' = [store EXCEPT ![request.lba + served] = request.data[served + 1]]
  /\ served' = served + 1
  /\ UNCHANGED <<active, request, buffer>>

\* The request returns. "good" says whether the caller is told it succeeded.
Finish(good) ==
  /\ active /\ ~active'
  /\ good => served = request.count
  /\ UNCHANGED <<store, request, served, buffer>>

\* The request is refused at once.
Refuse(good) ==
  /\ ~active /\ ~active' /\ ~good
  /\ served' = 0 /\ buffer' = <<>>
  /\ UNCHANGED store

BlockNext(good) ==
  Begin \/ Refuse(good) \/ ServeRead \/ ServeWrite \/ Finish(good)
=============================================================================
