----------------------------- MODULE SectorStore ------------------------------
(***************************************************************************)
(* What the file system expects of the disk: one call at a time, a read    *)
(* returns the sector, and a write changes one sector in one step, before  *)
(* the call returns.  A loss of power ends a call and leaves every sector  *)
(* with its old or its new data.                                           *)
(***************************************************************************)
CONSTANTS
  Lbas,     \* the sector numbers
  Buffers,  \* what a sector can hold
  Zeroes,   \* what a fresh disk holds
  NoData    \* the caller is waiting

VARIABLES
  disk,   \* the sectors
  req,    \* the call in progress
  result  \* the buffer of the caller, when no call is in progress

NoReq == [kind |-> "none"]

Init ==
  /\ disk = [l \in Lbas |-> Zeroes]
  /\ req = NoReq
  /\ result = Zeroes

Read(l) ==
  /\ req = NoReq
  /\ req' = [kind |-> "read", lba |-> l]
  /\ result' = NoData
  /\ UNCHANGED disk

Write(l, b) ==
  /\ req = NoReq
  /\ req' = [kind |-> "write", lba |-> l, data |-> b, done |-> FALSE]
  /\ result' = NoData
  /\ UNCHANGED disk

Perform ==
  /\ req.kind = "write" /\ ~ req.done
  /\ disk' = [disk EXCEPT ![req.lba] = req.data]
  /\ req' = [req EXCEPT !.done = TRUE]
  /\ UNCHANGED result

ReturnRead ==
  /\ req.kind = "read"
  /\ result' = disk[req.lba]
  /\ req' = NoReq
  /\ UNCHANGED disk

ReturnWrite ==
  /\ req.kind = "write" /\ req.done
  /\ result' = req.data
  /\ req' = NoReq
  /\ UNCHANGED disk

PowerOff ==
  /\ req' = NoReq
  /\ result' = Zeroes
  /\ UNCHANGED disk

Next ==
  \/ \E l \in Lbas : Read(l) \/ (\E b \in Buffers : Write(l, b))
  \/ Perform
  \/ ReturnRead
  \/ ReturnWrite
  \/ PowerOff

Spec == Init /\ [][Next]_<<disk, req, result>>
=============================================================================
