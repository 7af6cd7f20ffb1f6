---------------------------- MODULE PhysicalRead ----------------------------
(***************************************************************************)
(* What the pmem device promises a client that reads physical memory: the  *)
(* contract PmemRead and pmemFastIoRead (src/read.c) present, whatever the *)
(* acquisition mode.  A read fills the client's buffer from the front with *)
(* genuine bytes; it ends by reporting either the whole length or an error *)
(* with no length at all.                                                  *)
(*                                                                         *)
(* A byte is named by the physical address it is stored at, so "the buffer *)
(* holds the right data" is buf[i] = addr + i.                             *)
(***************************************************************************)
EXTENDS Integers

CONSTANTS
    Threads,     \* threads of client processes, each with a handle of its own
    Requests     \* the reads they may ask for: records [addr, len]

VARIABLES
    pending,     \* pending[t]: t has a read outstanding
    req,         \* req[t]: what it asked for
    got,         \* got[t]: bytes delivered so far (DeviceRead's *total_read)
    buf,         \* buf[t]: the client's buffer
    io           \* io[t]: IoStatus of the last completed read

vars == <<pending, req, got, buf, io>>

\* What a buffer cell holds before the driver writes it.
Untouched == -1

\* The IoStatus block as the client sees it before its first read completes.
NoResult == [status |-> "NONE", info |-> 0]

\* The first n cells hold the bytes of memory at r.addr, the rest is untouched.
Prefix(r, n) == [i \in 0 .. r.len - 1 |-> IF i < n THEN r.addr + i ELSE Untouched]

Init ==
    /\ pending = [t \in Threads |-> FALSE]
    /\ req \in [Threads -> Requests]
    /\ got = [t \in Threads |-> 0]
    /\ buf = [t \in Threads |-> Prefix(req[t], 0)]
    /\ io = [t \in Threads |-> NoResult]

Ask(t) ==
    /\ ~pending[t]
    /\ \E r \in Requests :
          /\ req' = [req EXCEPT ![t] = r]
          /\ buf' = [buf EXCEPT ![t] = Prefix(r, 0)]
    /\ pending' = [pending EXCEPT ![t] = TRUE]
    /\ got' = [got EXCEPT ![t] = 0]
    /\ io' = [io EXCEPT ![t] = NoResult]

Deliver(t) ==
    /\ pending[t]
    /\ \E n \in got[t] + 1 .. req[t].len :
          /\ got' = [got EXCEPT ![t] = n]
          /\ buf' = [buf EXCEPT ![t] = Prefix(req[t], n)]
    /\ UNCHANGED <<pending, req, io>>

Complete(t) ==
    /\ pending[t]
    /\ got[t] = req[t].len
    /\ got[t] > 0
    /\ pending' = [pending EXCEPT ![t] = FALSE]
    /\ io' = [io EXCEPT ![t] = [status |-> "SUCCESS", info |-> got[t]]]
    /\ UNCHANGED <<req, got, buf>>

Fail(t) ==
    /\ pending[t]
    /\ pending' = [pending EXCEPT ![t] = FALSE]
    /\ \E s \in {"IO_DEVICE_ERROR", "INVALID_PARAMETER", "ACCESS_VIOLATION"} :
          io' = [io EXCEPT ![t] = [status |-> s, info |-> 0]]
    /\ UNCHANGED <<req, got, buf>>

Next == \E t \in Threads : Ask(t) \/ Deliver(t) \/ Complete(t) \/ Fail(t)

\* Every read that is asked for is answered.
Spec == Init /\ [][Next]_vars /\ \A t \in Threads : WF_vars(Complete(t) \/ Fail(t))
=============================================================================
