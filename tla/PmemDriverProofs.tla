-------------------------- MODULE PmemDriverProofs --------------------------
(***************************************************************************)
(* Theorems about PmemDriver, for any number of threads, any requests, any *)
(* page size.  They hold for the clients named by Disciplined; the run     *)
(* driver_race of MCPmemDriver shows what happens without it.  The last    *)
(* part is about several processors (PmemSmp).                             *)
(***************************************************************************)
EXTENDS PmemSmp, TLAPS

\* Either the clients never ask for the PTE mode, or it is the only mode they ask for
\* and they wait for the answer before they read.
Avoids(p) == PTE \notin p.asks
Agrees(p) == p.setFirst /\ p.asks \cap Modes \subseteq {PTE}
Disciplined == \A p \in Programs : Avoids(p) \/ Agrees(p)

-----------------------------------------------------------------------------
(* The inductive invariant.                                                  *)

\* In DeviceRead, past the acquisition of the mutex.
Inside == {"loop", "dispatch", "window", "failed"}

\* The mode is PTE for the whole of every read that starts in PTE, and never PTE
\* for a read that did not.
ModeInv ==
    \/ Avoids(program) /\ ext.mode # PTE
    \/ /\ Agrees(program)
       /\ ext.mode \in {0, PTE}
       /\ \A t \in Threads : configured[t] \/ pc[t] \in Reading => ext.mode = PTE

\* Who holds the mutex, and that at most one thread does.
OwnInv ==
    /\ \A t \in Threads : owns[t] <=> ext.mode = PTE /\ pc[t] \in Inside
    /\ \A t \in Threads : pc[t] = "acquire" => ext.mode = PTE
    /\ \A t, u \in Threads : owns[t] /\ owns[u] => t = u
    /\ permits = IF \E t \in Threads : owns[t] THEN 0 ELSE 1

\* What each program point knows of the read in progress.
PointInv ==
    \A t \in Threads :
        /\ mdl[t] <=> pc[t] \in {"dispatch", "window"}
        /\ pc[t] \in {"dispatch", "window"} => got[t] < req[t].len
        /\ pc[t] = "read" => got[t] = 0
        /\ pc[t] = "acquire" \/ pc[t] \in Inside => req[t].len > 0
        /\ pc[t] = "window" => ext.mode = PTE /\ rogue = PageBase(Cursor(t))
        /\ pc[t] \in Reading => io[t] = NoResult

\* What a completed read has reported.
ResultInv ==
    \A t \in Threads :
        /\ io[t].status = "SUCCESS" => io[t].info = req[t].len /\ got[t] = req[t].len
        /\ io[t].status # "SUCCESS" => io[t].info = 0

\* The page that may stay mapped is the last of a failed read.
MapInv ==
    \A t \in Threads :
        /\ iomap[t] <= 1
        /\ pc[t] \in Reading \ {"failed"} => iomap[t] = 0
        /\ pc[t] \notin Reading /\ io[t].status # "IO_DEVICE_ERROR" => iomap[t] = 0

IInv == TypeOK /\ ModeInv /\ OwnInv /\ PointInv /\ DeliveredExact /\ ResultInv /\ MapInv

-----------------------------------------------------------------------------
\* The offset of an address in its page.
LEMMA OffsetInPage == \A a \in Nat : PageOffset(a) \in 0 .. PageSize - 1
  BY PageSizeAssumption, SMT DEF PageOffset

\* One page method reads at least nothing and at most what is missing.
LEMMA ToReadBounds ==
    ASSUME TypeOK, NEW t \in Threads, got[t] < req[t].len
    PROVE  ToRead(t) \in 1 .. req[t].len - got[t]
  <1>1. Cursor(t) \in Nat
    BY RequestsAssumption DEF TypeOK, Cursor
  <1>2. PageOffset(Cursor(t)) \in 0 .. PageSize - 1
    BY <1>1, OffsetInPage
  <1>3. req[t].len - got[t] \in Nat \ {0}
    BY RequestsAssumption DEF TypeOK
  <1> QED
    BY <1>2, <1>3, PageSizeAssumption DEF ToRead, Smaller

-----------------------------------------------------------------------------
LEMMA InitEstablishesIInv ==
    ASSUME Disciplined, Init
    PROVE  IInv
  <1>1. TypeOK
    <2>1. ext \in [mode : Modes, MemoryHandle : BOOLEAN, ready : BOOLEAN]
      BY DEF Init, Modes, IOSPACE
    <2>2. \A t \in Threads : /\ req[t] \in Requests
                             /\ req[t].len \in Nat
                             /\ buf[t] \in [0 .. req[t].len - 1 -> Int]
      BY RequestsAssumption DEF Init, Untouched
    <2>3. req \in [Threads -> Requests] /\ buf = [t \in Threads |-> buf[t]]
      BY DEF Init
    <2>4. io \in [Threads -> [status : Statuses, info : Nat]]
      BY DEF Init, NoResult, Statuses
    <2> QED
      <3>1. got \in [Threads -> Nat] /\ \A t \in Threads : got[t] <= req[t].len
        BY <2>2 DEF Init
      <3>2. pc \in [Threads -> PC]
        BY DEF Init, PC
      <3>3. /\ permits \in Nat /\ rogue \in Nat
            /\ configured \in [Threads -> BOOLEAN]
            /\ owns \in [Threads -> BOOLEAN]
            /\ mdl \in [Threads -> BOOLEAN]
            /\ iomap \in [Threads -> Nat]
            /\ program \in Programs
        BY RogueAssumption DEF Init
      <3> QED
        BY <2>1, <2>2, <2>3, <2>4, <3>1, <3>2, <3>3 DEF TypeOK
  <1>2. ModeInv
    BY DEF Init, ModeInv, Disciplined, Avoids, Agrees, Reading, PTE
  <1>3. OwnInv /\ PointInv /\ ResultInv /\ MapInv
    BY DEF Init, OwnInv, PointInv, ResultInv, MapInv, Reading, Inside, NoResult
  <1>4. DeliveredExact
    BY <1>1, RequestsAssumption DEF Init, DeliveredExact, TypeOK
  <1> QED
    BY <1>1, <1>2, <1>3, <1>4 DEF IInv

-----------------------------------------------------------------------------
(* Each action preserves the invariant.                                      *)

LEMMA SetModeCheckKeeps ==
    ASSUME IInv, NEW t \in Threads, SetModeCheck(t)
    PROVE  IInv'
  <1> USE DEF IInv
  <1>1. TypeOK'
    BY DEF TypeOK, SetModeCheck, PC
  <1>2. ModeInv'
    BY DEF TypeOK, ModeInv, SetModeCheck, Reading
  <1>3. OwnInv'
    BY DEF TypeOK, OwnInv, SetModeCheck, Inside
  <1>4. PointInv'
    BY DEF TypeOK, PointInv, SetModeCheck, Reading, Inside, PageBase, PageOffset, Cursor
  <1>5. DeliveredExact' /\ ResultInv'
    BY DEF DeliveredExact, ResultInv, SetModeCheck
  <1>6. MapInv'
    BY DEF TypeOK, PointInv, MapInv, SetModeCheck, Reading, NoResult
  <1> QED
    BY <1>1, <1>2, <1>3, <1>4, <1>5, <1>6

LEMMA SetModeApplyKeeps ==
    ASSUME IInv, NEW t \in Threads, SetModeApply(t)
    PROVE  IInv'
  <1> USE DEF IInv
  <1>1. PICK m \in program.asks :
          IF Available(m)
          THEN /\ ext' = [ext EXCEPT !.mode = m]
               /\ configured' = [configured EXCEPT ![t] = TRUE]
          ELSE UNCHANGED <<ext, configured>>
    BY DEF SetModeApply
  <1>2. \/ ext' = ext
        \/ m \in program.asks \cap Modes /\ ext' = [ext EXCEPT !.mode = m]
    BY <1>1 DEF Available, Modes
  <1>3. TypeOK'
    BY <1>1, <1>2 DEF TypeOK, SetModeApply, PC
  <1>4. ModeInv'
    BY <1>1, <1>2 DEF TypeOK, ModeInv, Avoids, Agrees, SetModeApply, Reading, Modes
  <1>5. OwnInv'
    BY <1>1, <1>2 DEF TypeOK, ModeInv, Avoids, Agrees, OwnInv, SetModeApply, Reading, Inside, Modes
  <1>6. PointInv'
    BY <1>1, <1>2
    DEF TypeOK, ModeInv, Avoids, Agrees, PointInv, SetModeApply, Reading, Inside, PageBase, PageOffset, Cursor
  <1>7. DeliveredExact' /\ ResultInv'
    BY DEF DeliveredExact, ResultInv, SetModeApply
  <1>8. MapInv'
    BY DEF TypeOK, PointInv, MapInv, SetModeApply, Reading, NoResult
  <1> QED
    BY <1>3, <1>4, <1>5, <1>6, <1>7, <1>8

LEMMA ReadKeeps ==
    ASSUME IInv, NEW t \in Threads, Read(t)
    PROVE  IInv'
  <1> USE DEF IInv
  <1>1. PICK r \in Requests :
          /\ req' = [req EXCEPT ![t] = r]
          /\ buf' = [buf EXCEPT ![t] = [i \in 0 .. r.len - 1 |-> Untouched]]
    BY DEF Read
  <1>2. r.len \in Nat
    BY RequestsAssumption
  <1>3. TypeOK'
    <2>1. \A u \in Threads : buf'[u] \in [0 .. req'[u].len - 1 -> Int]
      BY <1>1, <1>2 DEF TypeOK, Untouched
    <2>2. buf' = [u \in Threads |-> buf'[u]]
      BY <1>1 DEF TypeOK
    <2>3. \A u \in Threads : got'[u] <= req'[u].len
      BY <1>1, <1>2 DEF TypeOK, Read
    <2>4. /\ pc' \in [Threads -> PC]
          /\ req' \in [Threads -> Requests]
          /\ got' \in [Threads -> Nat]
          /\ io' \in [Threads -> [status : Statuses, info : Nat]]
      BY <1>1 DEF TypeOK, Read, PC, NoResult, Statuses
    <2> QED
      BY <2>1, <2>2, <2>3, <2>4 DEF TypeOK, Read
  <1>4. ModeInv'
    BY DEF TypeOK, ModeInv, Avoids, Agrees, Read, Reading
  <1>5. OwnInv'
    BY DEF TypeOK, OwnInv, Read, Inside
  <1>6. PointInv'
    BY <1>1 DEF TypeOK, PointInv, Read, Reading, Inside, PageBase, PageOffset, Cursor
  <1>7. DeliveredExact'
    <2>1. got'[t] = 0 /\ req'[t] = r /\ buf'[t] = [i \in 0 .. r.len - 1 |-> Untouched]
      BY <1>1 DEF TypeOK, Read
    <2>2. buf'[t] = [i \in 0 .. req'[t].len - 1 |->
                       IF i < got'[t] THEN req'[t].addr + i ELSE Untouched]
      BY <2>1, <1>2
    <2>3. \A u \in Threads \ {t} : buf'[u] = buf[u] /\ got'[u] = got[u] /\ req'[u] = req[u]
      BY <1>1 DEF TypeOK, Read
    <2> QED
      BY <2>2, <2>3 DEF DeliveredExact
  <1>8. ResultInv'
    BY <1>1 DEF TypeOK, ResultInv, Read, NoResult
  <1>9. MapInv'
    BY DEF TypeOK, PointInv, MapInv, Read, Reading, NoResult
  <1> QED
    BY <1>3, <1>4, <1>5, <1>6, <1>7, <1>8, <1>9

LEMMA RejectKeeps ==
    ASSUME IInv, NEW t \in Threads, Reject(t)
    PROVE  IInv'
  <1> USE DEF IInv
  <1>1. TypeOK'
    BY DEF TypeOK, Reject, PC, Statuses
  <1>2. ModeInv'
    BY DEF TypeOK, ModeInv, Reject, Reading
  <1>3. OwnInv'
    BY DEF TypeOK, OwnInv, Reject, Inside
  <1>4. PointInv'
    BY DEF TypeOK, PointInv, Reject, Reading, Inside, PageBase, PageOffset, Cursor
  <1>5. DeliveredExact' /\ ResultInv'
    BY DEF TypeOK, DeliveredExact, ResultInv, Reject
  <1>6. MapInv'
    BY DEF TypeOK, PointInv, MapInv, Reject, Reading, NoResult
  <1> QED
    BY <1>1, <1>2, <1>3, <1>4, <1>5, <1>6

LEMMA EnterKeeps ==
    ASSUME IInv, NEW t \in Threads, Enter(t)
    PROVE  IInv'
  <1> USE DEF IInv
  <1>1. TypeOK'
    BY DEF TypeOK, Enter, PC
  <1>2. ModeInv'
    BY DEF TypeOK, ModeInv, Enter, Reading
  <1>3. OwnInv'
    BY DEF TypeOK, OwnInv, Enter, Inside
  <1>4. PointInv'
    BY DEF TypeOK, PointInv, Enter, Reading, Inside, PageBase, PageOffset, Cursor
  <1>5. DeliveredExact' /\ ResultInv'
    BY DEF DeliveredExact, ResultInv, Enter
  <1>6. MapInv'
    BY DEF TypeOK, PointInv, MapInv, Enter, Reading, NoResult
  <1> QED
    BY <1>1, <1>2, <1>3, <1>4, <1>5, <1>6

LEMMA AcquireKeeps ==
    ASSUME IInv, NEW t \in Threads, Acquire(t)
    PROVE  IInv'
  <1> USE DEF IInv
  <1>1. TypeOK'
    BY DEF TypeOK, Acquire, PC
  <1>2. ModeInv'
    BY DEF TypeOK, ModeInv, Acquire, Reading
  <1>3. OwnInv'
    BY DEF TypeOK, OwnInv, Acquire, Inside
  <1>4. PointInv'
    BY DEF TypeOK, PointInv, Acquire, Reading, Inside, PageBase, PageOffset, Cursor
  <1>5. DeliveredExact' /\ ResultInv'
    BY DEF DeliveredExact, ResultInv, Acquire
  <1>6. MapInv'
    BY DEF TypeOK, PointInv, MapInv, Acquire, Reading, NoResult
  <1> QED
    BY <1>1, <1>2, <1>3, <1>4, <1>5, <1>6

LEMMA NailKeeps ==
    ASSUME IInv, NEW t \in Threads, Nail(t)
    PROVE  IInv'
  <1> USE DEF IInv
  <1>1. TypeOK'
    BY DEF TypeOK, Nail, PC
  <1>2. ModeInv'
    BY DEF TypeOK, ModeInv, Nail, Reading
  <1>3. OwnInv'
    BY DEF TypeOK, OwnInv, Nail, Inside
  <1>4. PointInv'
    BY DEF TypeOK, PointInv, Nail, Reading, Inside, PageBase, PageOffset, Cursor
  <1>5. DeliveredExact' /\ ResultInv'
    BY DEF DeliveredExact, ResultInv, Nail
  <1>6. MapInv'
    BY DEF TypeOK, PointInv, MapInv, Nail, Reading, NoResult
  <1> QED
    BY <1>1, <1>2, <1>3, <1>4, <1>5, <1>6

\* A page method that copies the page the cursor is in, and the bookkeeping after it.
LEMMA CopyKeeps ==
    ASSUME IInv, NEW t \in Threads, pc[t] \in {"dispatch", "window"},
           CopyFrom(t, PageBase(Cursor(t))), UNCHANGED iomap
    PROVE  IInv'
  <1> USE DEF IInv
  <1> DEFINE n == ToRead(t)
  <1>1. n \in 1 .. req[t].len - got[t]
    BY ToReadBounds DEF PointInv
  <1>2. req[t].len \in Nat /\ got[t] \in Nat /\ req[t].addr \in Nat
    BY RequestsAssumption DEF TypeOK
  <1>3. PageBase(Cursor(t)) + PageOffset(Cursor(t)) = req[t].addr + got[t]
    <2>1. Cursor(t) \in Nat /\ Cursor(t) = req[t].addr + got[t]
      BY <1>2 DEF Cursor
    <2>2. PageOffset(Cursor(t)) \in Int
      BY <2>1, OffsetInPage, PageSizeAssumption
    <2> QED
      BY <2>1, <2>2 DEF PageBase
  <1>4. buf' = [buf EXCEPT ![t] =
                  [i \in 0 .. req[t].len - 1 |->
                     IF got[t] <= i /\ i < got[t] + n
                     THEN req[t].addr + got[t] + (i - got[t])
                     ELSE buf[t][i]]]
    BY <1>3 DEF CopyFrom
  <1>5. /\ got' = [got EXCEPT ![t] = @ + n]
        /\ mdl' = [mdl EXCEPT ![t] = FALSE]
        /\ pc' = [pc EXCEPT ![t] = "loop"]
        /\ UNCHANGED <<program, ext, permits, rogue, configured, owns, iomap, req, io>>
    BY DEF CopyFrom
  <1>6. got'[t] = got[t] + n /\ got'[t] \in Nat /\ got'[t] <= req[t].len
    BY <1>1, <1>2, <1>5 DEF TypeOK
  <1> HIDE DEF n
  <1>7. DeliveredExact'
    <2>1. buf[t] = [i \in 0 .. req[t].len - 1 |->
                      IF i < got[t] THEN req[t].addr + i ELSE Untouched]
      BY DEF DeliveredExact
    <2>2. buf'[t] = [i \in 0 .. req[t].len - 1 |->
                       IF i < got[t] + n THEN req[t].addr + i ELSE Untouched]
      BY <2>1, <1>1, <1>2, <1>4 DEF TypeOK
    <2>3. \A u \in Threads \ {t} : buf'[u] = buf[u] /\ got'[u] = got[u]
      BY <1>4, <1>5 DEF TypeOK
    <2>4. req' = req
      BY <1>5
    <2>5. buf'[t] = [i \in 0 .. req'[t].len - 1 |->
                       IF i < got'[t] THEN req'[t].addr + i ELSE Untouched]
      BY <2>2, <2>4, <1>6
    <2> QED
      BY <2>3, <2>4, <2>5 DEF DeliveredExact
  <1>8. TypeOK'
    <2>1. \A u \in Threads : buf'[u] \in [0 .. req[u].len - 1 -> Int]
      <3>1. \A i \in 0 .. req[t].len - 1 :
              IF got[t] <= i /\ i < got[t] + n
              THEN req[t].addr + got[t] + (i - got[t]) \in Int
              ELSE buf[t][i] \in Int
        BY <1>2 DEF TypeOK
      <3> QED
        BY <3>1, <1>4 DEF TypeOK
    <2>2. buf' = [u \in Threads |-> buf'[u]]
      BY <1>4 DEF TypeOK
    <2>3. got' \in [Threads -> Nat] /\ \A u \in Threads : got'[u] <= req[u].len
      BY <1>5, <1>6 DEF TypeOK
    <2> QED
      BY <2>1, <2>2, <2>3, <1>5 DEF TypeOK, PC
  <1>9. ModeInv'
    BY <1>5 DEF TypeOK, ModeInv, Reading
  <1>10. OwnInv'
    BY <1>5 DEF TypeOK, OwnInv, Inside
  <1>11. PointInv'
    BY <1>5 DEF TypeOK, PointInv, Reading, Inside, PageBase, PageOffset, Cursor
  <1>12. ResultInv'
    BY <1>5 DEF TypeOK, PointInv, ResultInv, Reading, NoResult
  <1>13. MapInv'
    BY <1>5 DEF TypeOK, MapInv, Reading
  <1> QED
    BY <1>7, <1>8, <1>9, <1>10, <1>11, <1>12, <1>13

\* A page method that read nothing.
LEMMA NothingReadKeeps ==
    ASSUME IInv, NEW t \in Threads, pc[t] \in {"dispatch", "window"}, NothingRead(t),
           UNCHANGED iomap \/ StaysMapped(t)
    PROVE  IInv'
  <1> USE DEF IInv
  <1>1. TypeOK'
    BY DEF TypeOK, NothingRead, StaysMapped, PC
  <1>2. ModeInv'
    BY DEF TypeOK, ModeInv, NothingRead, Reading
  <1>3. OwnInv'
    BY DEF TypeOK, OwnInv, NothingRead, Inside
  <1>4. PointInv'
    BY DEF TypeOK, PointInv, NothingRead, Reading, Inside, PageBase, PageOffset, Cursor
  <1>5. DeliveredExact' /\ ResultInv'
    BY DEF DeliveredExact, ResultInv, NothingRead
  <1>6. MapInv'
    BY DEF TypeOK, MapInv, PointInv, NothingRead, StaysMapped, Reading
  <1> QED
    BY <1>1, <1>2, <1>3, <1>4, <1>5, <1>6

LEMMA RemapRogueKeeps ==
    ASSUME IInv, NEW t \in Threads, RemapRogue(t), Cursor(t) # 0, PageBase(Cursor(t)) # 0
    PROVE  IInv'
  <1> USE DEF IInv
  <1>1. PageBase(Cursor(t)) \in Nat
    <2>1. Cursor(t) \in Nat
      BY RequestsAssumption DEF TypeOK, Cursor
    <2> QED
      BY <2>1, PageSizeAssumption DEF PageBase, PageOffset
  <1>2. /\ pc[t] = "dispatch" /\ ext.mode = PTE
        /\ rogue' = PageBase(Cursor(t))
        /\ pc' = [pc EXCEPT ![t] = "window"]
        /\ UNCHANGED <<program, ext, permits, configured, owns, mdl, iomap, req, got, buf, io>>
    BY DEF RemapRogue
  <1>3. TypeOK'
    BY <1>1, <1>2 DEF TypeOK, PC
  <1>4. ModeInv'
    BY <1>2 DEF TypeOK, ModeInv, Reading
  <1>5. OwnInv'
    BY <1>2 DEF TypeOK, OwnInv, Inside
  <1>6. PointInv'
    \* No other thread can be in the window: it would hold the mutex that t holds.
    <2>1. owns[t]
      BY <1>2 DEF OwnInv, Inside
    <2>2. \A u \in Threads \ {t} : pc[u] # "window"
      BY <2>1 DEF OwnInv, PointInv, Inside
    <2> QED
      BY <1>2, <2>2 DEF TypeOK, PointInv, Reading, Inside, PageBase, PageOffset, Cursor
  <1>7. DeliveredExact' /\ ResultInv'
    BY <1>2 DEF DeliveredExact, ResultInv
  <1>8. MapInv'
    BY <1>2 DEF TypeOK, MapInv, Reading
  <1> QED
    BY <1>3, <1>4, <1>5, <1>6, <1>7, <1>8

LEMMA ReturnKeeps ==
    ASSUME IInv, NEW t \in Threads, Return(t)
    PROVE  IInv'
  <1> USE DEF IInv
  <1>1. TypeOK'
    <2>1. io' \in [Threads -> [status : Statuses, info : Nat]]
      <3>1. io \in [Threads -> [status : Statuses, info : Nat]] /\ got[t] \in Nat
        BY DEF TypeOK
      <3>2. \E r \in [status : Statuses, info : Nat] : io' = [io EXCEPT ![t] = r]
        BY <3>1 DEF Return, Statuses
      <3> QED
        BY <3>1, <3>2
    <2>2. permits' \in Nat /\ owns' \in [Threads -> BOOLEAN]
      <3>1. permits \in Nat /\ owns \in [Threads -> BOOLEAN]
        BY DEF TypeOK
      <3>2. \/ permits' = permits + 1 /\ owns' = [owns EXCEPT ![t] = FALSE]
            \/ permits' = permits /\ owns' = owns
        BY DEF Return, ReleaseIfPte
      <3>3. permits' \in Nat
        BY <3>1, <3>2
      <3>4. owns' \in [Threads -> BOOLEAN]
        BY <3>1, <3>2
      <3> QED
        BY <3>3, <3>4
    <2>3. pc' \in [Threads -> PC]
      BY DEF TypeOK, Return, PC
    <2> QED
      BY <2>1, <2>2, <2>3 DEF TypeOK, Return
  <1>2. ModeInv'
    BY DEF TypeOK, ModeInv, Return, Reading
  <1>3. OwnInv'
    \* A reader that is inside holds the mutex exactly if the mode is PTE, so the
    \* release and the acquisition match.
    <2>1. pc[t] \in Inside /\ pc' = [pc EXCEPT ![t] = "idle"] /\ ext' = ext
      BY DEF Return, Inside
    <2>2. CASE ext.mode = PTE
      <3>1. owns[t] /\ permits = 0 /\ \A u \in Threads \ {t} : ~owns[u]
        BY <2>1, <2>2 DEF OwnInv
      <3>2. permits' = 1 /\ owns' = [owns EXCEPT ![t] = FALSE]
        BY <2>2, <3>1 DEF Return, ReleaseIfPte
      <3> QED
        BY <2>1, <3>1, <3>2 DEF TypeOK, OwnInv, Inside
    <2>3. CASE ext.mode # PTE
      BY <2>1, <2>3 DEF TypeOK, OwnInv, Return, ReleaseIfPte, Inside
    <2> QED
      BY <2>2, <2>3
  <1>4. PointInv'
    BY DEF TypeOK, PointInv, Return, Reading, Inside, PageBase, PageOffset, Cursor
  <1>5. DeliveredExact'
    BY DEF DeliveredExact, Return
  <1>6. ResultInv'
    <2>1. CASE io' = [io EXCEPT ![t] = [status |-> "SUCCESS", info |-> got[t]]]
               /\ got[t] = req[t].len
      BY <2>1 DEF TypeOK, ResultInv, Return
    <2>2. CASE io' = [io EXCEPT ![t] = [status |-> "IO_DEVICE_ERROR", info |-> 0]]
      BY <2>2 DEF TypeOK, ResultInv, Return
    <2> QED
      BY <2>1, <2>2 DEF Return
  <1>7. MapInv'
    BY DEF TypeOK, PointInv, MapInv, Return, Reading, NoResult
  <1> QED
    BY <1>1, <1>2, <1>3, <1>4, <1>5, <1>6, <1>7

-----------------------------------------------------------------------------
LEMMA NextKeepsIInv == IInv /\ [Next]_vars => IInv'
  <1> SUFFICES ASSUME IInv, [Next]_vars PROVE IInv'
    OBVIOUS
  <1>1. ASSUME NEW t \in Threads, SetModeCheck(t) PROVE IInv'
    BY <1>1, SetModeCheckKeeps
  <1>2. ASSUME NEW t \in Threads, SetModeApply(t) PROVE IInv'
    BY <1>2, SetModeApplyKeeps
  <1>3. ASSUME NEW t \in Threads, Read(t) PROVE IInv'
    BY <1>3, ReadKeeps
  <1>4. ASSUME NEW t \in Threads, Reject(t) PROVE IInv'
    BY <1>4, RejectKeeps
  <1>5. ASSUME NEW t \in Threads, Enter(t) PROVE IInv'
    BY <1>5, EnterKeeps
  <1>6. ASSUME NEW t \in Threads, Acquire(t) PROVE IInv'
    BY <1>6, AcquireKeeps
  <1>7. ASSUME NEW t \in Threads, Nail(t) PROVE IInv'
    BY <1>7, NailKeeps
  <1>8. ASSUME NEW t \in Threads, ReadPhysical(t) PROVE IInv'
    BY <1>8, CopyKeeps, NothingReadKeeps DEF ReadPhysical
  <1>9. ASSUME NEW t \in Threads, ReadIoSpace(t) PROVE IInv'
    BY <1>9, CopyKeeps, NothingReadKeeps DEF ReadIoSpace
  <1>10. ASSUME NEW t \in Threads, RemapRogue(t) PROVE IInv'
    <2>1. CASE Cursor(t) # 0 /\ PageBase(Cursor(t)) # 0
      BY <1>10, <2>1, RemapRogueKeeps
    <2>2. CASE ~(Cursor(t) # 0 /\ PageBase(Cursor(t)) # 0)
      BY <1>10, <2>2, NothingReadKeeps DEF RemapRogue
    <2> QED
      BY <2>1, <2>2
  <1>11. ASSUME NEW t \in Threads, CopyRogue(t) PROVE IInv'
    <2>1. pc[t] = "window" /\ rogue = PageBase(Cursor(t))
      BY <1>11 DEF CopyRogue, IInv, PointInv
    <2> QED
      BY <1>11, <2>1, CopyKeeps, NothingReadKeeps DEF CopyRogue
  <1>12. ASSUME NEW t \in Threads, Return(t) PROVE IInv'
    BY <1>12, ReturnKeeps
  <1>13. CASE UNCHANGED vars
    BY <1>13
    DEF IInv, TypeOK, ModeInv, OwnInv, PointInv, DeliveredExact, ResultInv, MapInv, vars,
        threadVars, PageBase, PageOffset, Cursor
  <1> QED
    BY <1>1, <1>2, <1>3, <1>4, <1>5, <1>6, <1>7, <1>8, <1>9, <1>10, <1>11, <1>12, <1>13
    DEF Next, Advance

\* Everything the invariant says holds in every reachable state.
THEOREM Invariance == ASSUME Disciplined PROVE Spec => []IInv
  <1>1. Init => IInv
    BY InitEstablishesIInv
  <1> QED
    BY <1>1, NextKeepsIInv, PTL DEF Spec, Safety

\* The types of the driver's state.
THEOREM TypeCorrect == ASSUME Disciplined PROVE Spec => []TypeOK
  <1>1. IInv => TypeOK
    BY DEF IInv
  <1> QED
    BY <1>1, Invariance, PTL

\* The PTE method "is not thread-safe and crucially requires protection of a mutex"
\* (read.c): it has that protection whenever it reads.
THEOREM RogueWindowIsGuarded == ASSUME Disciplined PROVE Spec => []WindowGuarded
  <1>1. IInv => WindowGuarded
    BY DEF IInv, OwnInv, PointInv, Inside, WindowGuarded
  <1> QED
    BY <1>1, Invariance, PTL

\* Between a reader's remapping of the rogue PTE and its copy no other reader moves
\* the mapping.
THEOREM RogueWindowIsStable == ASSUME Disciplined PROVE Spec => []WindowStable
  <1>1. IInv => WindowStable
    BY DEF IInv, PointInv, WindowStable
  <1> QED
    BY <1>1, Invariance, PTL

\* At every moment of a read the client's buffer holds exactly the bytes of physical
\* memory counted so far, whatever other clients read meanwhile.
THEOREM ReadsDeliverExactBytes == ASSUME Disciplined PROVE Spec => []DeliveredExact
  <1>1. IInv => DeliveredExact
    BY DEF IInv
  <1> QED
    BY <1>1, Invariance, PTL

\* IoStatus tells the truth: success means the whole request, an error means none.
THEOREM ResultsAreHonest == ASSUME Disciplined PROVE Spec => []ResultHonest
  <1>1. IInv => ResultHonest
    BY RequestsAssumption DEF IInv, TypeOK, DeliveredExact, ResultInv, ResultHonest
  <1> QED
    BY <1>1, Invariance, PTL

\* Every path out of DeviceRead releases the mutex and the MDL it took, and every path
\* but one - the fault in a copy from I/O space - the mapping.
THEOREM NothingIsLeaked == ASSUME Disciplined PROVE Spec => []NothingHeldOutside
  <1>1. ASSUME IInv PROVE NothingHeldOutside
    <2>1. \A t \in Threads : pc[t] \in {"idle", "setmode"} => ~owns[t] /\ ~mdl[t]
      BY <1>1 DEF IInv, OwnInv, PointInv, Inside
    <2>2. \A t \in Threads : pc[t] \in {"idle", "setmode"} =>
             iomap[t] <= IF io[t].status = "IO_DEVICE_ERROR" THEN 1 ELSE 0
      <3>1. \A t \in Threads : pc[t] \in {"idle", "setmode"} =>
               /\ iomap[t] \in Nat /\ iomap[t] <= 1
               /\ io[t].status # "IO_DEVICE_ERROR" => iomap[t] = 0
        BY <1>1 DEF IInv, TypeOK, MapInv, Reading
      <3> QED
        BY <3>1
    <2> QED
      BY <1>1, <2>1, <2>2 DEF IInv, OwnInv, NothingHeldOutside
  <1> QED
    BY <1>1, Invariance, PTL

-----------------------------------------------------------------------------
(* The contract of a read.                                                   *)

\* What the contract sees of the threads' program points.
Outstanding == [t \in Threads |-> pc[t] \in Reading]

\* A step inside or outside of a read, with none of its results touched.
LEMMA StaysPut ==
    ASSUME TypeOK, NEW t \in Threads, NEW q,
           pc' = [pc EXCEPT ![t] = q], pc[t] \in Reading <=> q \in Reading,
           UNCHANGED <<req, got, buf, io>>
    PROVE  UNCHANGED Contract!vars
  <1>1. \A u \in Threads : (pc'[u] \in Reading) = (pc[u] \in Reading)
    BY DEF TypeOK
  <1>2. Outstanding' = Outstanding
    BY <1>1 DEF Outstanding
  <1> QED
    BY <1>2 DEF Contract!vars, Outstanding

\* A step that begins a read.
LEMMA Begins ==
    ASSUME TypeOK, NEW t \in Threads, NEW q,
           pc' = [pc EXCEPT ![t] = q], pc[t] \notin Reading, q \in Reading
    PROVE  ~Outstanding[t] /\ Outstanding' = [Outstanding EXCEPT ![t] = TRUE]
  <1>1. \A u \in Threads \ {t} : (pc'[u] \in Reading) = (pc[u] \in Reading)
    BY DEF TypeOK
  <1>2. (pc'[t] \in Reading) = TRUE
    BY DEF TypeOK
  <1> QED
    BY <1>1, <1>2 DEF Outstanding

\* A step that ends one.
LEMMA Ends ==
    ASSUME TypeOK, NEW t \in Threads, NEW q,
           pc' = [pc EXCEPT ![t] = q], pc[t] \in Reading, q \notin Reading
    PROVE  Outstanding[t] /\ Outstanding' = [Outstanding EXCEPT ![t] = FALSE]
  <1>1. \A u \in Threads \ {t} : (pc'[u] \in Reading) = (pc[u] \in Reading)
    BY DEF TypeOK
  <1>2. (pc'[t] \in Reading) = FALSE
    BY DEF TypeOK
  <1> QED
    BY <1>1, <1>2 DEF Outstanding

\* A page that is read is delivered behind those before it.
LEMMA CopyDelivers ==
    ASSUME IInv, IInv', NEW t \in Threads, NEW page, pc[t] \in {"dispatch", "window"},
           CopyFrom(t, page)
    PROVE  Contract!Deliver(t)
  <1>1. pc[t] \in Reading /\ got[t] \in Nat /\ req[t].len \in Nat /\ req' = req /\ io' = io
    BY RequestsAssumption DEF IInv, TypeOK, Reading, CopyFrom
  <1>2. got' = [got EXCEPT ![t] = got[t] + ToRead(t)] /\ ToRead(t) \in 1 .. req[t].len - got[t]
    BY ToReadBounds DEF IInv, PointInv, CopyFrom
  <1>3. got'[t] = got[t] + ToRead(t) /\ got'[t] \in got[t] + 1 .. req[t].len
    BY <1>1, <1>2 DEF IInv, TypeOK
  <1>4. got' = [got EXCEPT ![t] = got'[t]]
    BY <1>2, <1>3
  <1>5. buf'[t] = Contract!Prefix(req[t], got'[t])
    BY <1>1 DEF IInv, DeliveredExact, Contract!Prefix, Untouched, Contract!Untouched
  <1>6. buf' = [buf EXCEPT ![t] = buf'[t]]
    BY DEF CopyFrom, IInv, TypeOK
  <1>7. Outstanding' = Outstanding /\ Outstanding[t]
    <2>1. \A u \in Threads : (pc'[u] \in Reading) = (pc[u] \in Reading)
      BY DEF IInv, TypeOK, CopyFrom, Reading
    <2> QED
      BY <1>1, <2>1 DEF Outstanding
  <1> QED
    BY <1>1, <1>3, <1>4, <1>5, <1>6, <1>7 DEF Contract!Deliver, Outstanding

LEMMA ReadAsks ==
    ASSUME IInv, NEW t \in Threads, Read(t)
    PROVE  Contract!Ask(t)
  <1>1. ~Outstanding[t] /\ Outstanding' = [Outstanding EXCEPT ![t] = TRUE]
    BY Begins DEF IInv, Read, Reading
  <1>2. PICK r \in Requests :
          /\ req' = [req EXCEPT ![t] = r]
          /\ buf' = [buf EXCEPT ![t] = [c \in 0 .. r.len - 1 |-> Untouched]]
    BY DEF Read
  <1>3. [c \in 0 .. r.len - 1 |-> Untouched] = Contract!Prefix(r, 0)
    BY DEF Contract!Prefix, Untouched, Contract!Untouched
  <1> QED
    BY <1>1, <1>2, <1>3 DEF Read, NoResult, Contract!Ask, Contract!NoResult, Outstanding

LEMMA RejectFails ==
    ASSUME IInv, NEW t \in Threads, Reject(t)
    PROVE  Contract!Fail(t)
  <1>1. Outstanding[t] /\ Outstanding' = [Outstanding EXCEPT ![t] = FALSE]
    BY Ends DEF IInv, Reject, Reading
  <1> QED
    BY <1>1 DEF Reject, Contract!Fail, Outstanding

LEMMA ReturnAnswers ==
    ASSUME IInv, NEW t \in Threads, Return(t)
    PROVE  Contract!Complete(t) \/ Contract!Fail(t)
  <1>1. Outstanding[t] /\ Outstanding' = [Outstanding EXCEPT ![t] = FALSE]
    BY Ends DEF IInv, Return, Reading
  <1>2. UNCHANGED <<req, got, buf>>
    BY DEF Return
  <1>3. CASE /\ pc[t] = "loop" /\ got[t] = req[t].len
             /\ io' = [io EXCEPT ![t] = [status |-> "SUCCESS", info |-> got[t]]]
    <2>1. got[t] > 0
      BY <1>3 DEF IInv, PointInv, Inside
    <2> QED
      BY <1>1, <1>2, <1>3, <2>1 DEF Contract!Complete, Outstanding
  <1>4. CASE io' = [io EXCEPT ![t] = [status |-> "IO_DEVICE_ERROR", info |-> 0]]
    BY <1>1, <1>2, <1>4 DEF Contract!Fail, Outstanding
  <1> QED
    BY <1>3, <1>4 DEF Return

LEMMA StepFulfils == IInv /\ IInv' /\ [Next]_vars => [Contract!Next]_(Contract!vars)
  <1> SUFFICES ASSUME IInv, IInv', [Next]_vars
               PROVE  Contract!Next \/ UNCHANGED Contract!vars
    OBVIOUS
  <1>1. TypeOK
    BY DEF IInv
  <1>2. ASSUME NEW t \in Threads,
               SetModeCheck(t) \/ SetModeApply(t) \/ Enter(t) \/ Acquire(t) \/ Nail(t)
        PROVE  UNCHANGED Contract!vars
    <2>1. CASE SetModeCheck(t)
      <3>1. CASE pc' = pc
        BY <2>1, <3>1 DEF SetModeCheck, Contract!vars
      <3>2. CASE pc' = [pc EXCEPT ![t] = "setmode"]
        BY <1>1, <2>1, <3>2, StaysPut DEF SetModeCheck, Reading
      <3> QED
        BY <2>1, <3>1, <3>2 DEF SetModeCheck
    <2>2. CASE SetModeApply(t)
      BY <1>1, <2>2, StaysPut DEF SetModeApply, Reading
    <2>3. CASE Enter(t)
      BY <1>1, <2>3, StaysPut DEF Enter, Reading
    <2>4. CASE Acquire(t)
      BY <1>1, <2>4, StaysPut DEF Acquire, Reading
    <2>5. CASE Nail(t)
      BY <1>1, <2>5, StaysPut DEF Nail, Reading
    <2> QED
      BY <1>2, <2>1, <2>2, <2>3, <2>4, <2>5
  <1>3. ASSUME NEW t \in Threads, pc[t] \in {"dispatch", "window"}, NothingRead(t)
        PROVE  UNCHANGED Contract!vars
    BY <1>1, <1>3, StaysPut DEF NothingRead, Reading
  <1>4. ASSUME NEW t \in Threads,
               ReadPhysical(t) \/ ReadIoSpace(t) \/ RemapRogue(t) \/ CopyRogue(t)
        PROVE  Contract!Deliver(t) \/ UNCHANGED Contract!vars
    <2>1. pc[t] \in {"dispatch", "window"}
      BY <1>4 DEF ReadPhysical, ReadIoSpace, RemapRogue, CopyRogue
    <2>2. CASE \E page : CopyFrom(t, page)
      BY <2>1, <2>2, CopyDelivers
    <2>3. CASE NothingRead(t)
      BY <1>3, <2>1, <2>3
    <2>4. CASE /\ pc' = [pc EXCEPT ![t] = "window"]
               /\ UNCHANGED <<req, got, buf, io>>
      BY <1>1, <2>1, <2>4, StaysPut DEF Reading
    <2> QED
      BY <1>4, <2>2, <2>3, <2>4 DEF ReadPhysical, ReadIoSpace, RemapRogue, CopyRogue
  <1>5. CASE UNCHANGED vars
    BY <1>5 DEF vars, threadVars, Contract!vars
  <1> QED
    BY <1>2, <1>4, <1>5, ReadAsks, RejectFails, ReturnAnswers DEF Next, Advance, Contract!Next

LEMMA InitFulfils == Init => Contract!Init
  <1> SUFFICES ASSUME Init PROVE Contract!Init
    OBVIOUS
  <1>1. Outstanding = [t \in Threads |-> FALSE]
    <2>1. \A t \in Threads : (pc[t] \in Reading) = FALSE
      BY DEF Init, Reading
    <2> QED
      BY <2>1 DEF Outstanding
  <1>2. buf = [t \in Threads |-> Contract!Prefix(req[t], 0)]
    <2>1. \A t \in Threads : \A c \in 0 .. req[t].len - 1 : ~(c < 0)
      OBVIOUS
    <2> QED
      BY <2>1 DEF Init, Contract!Prefix, Untouched, Contract!Untouched
  <1>3. req \in [Threads -> Requests]
    BY DEF Init
  <1> QED
    BY <1>1, <1>2, <1>3 DEF Init, Outstanding, Contract!Init, NoResult, Contract!NoResult

\* Whatever the mode and the other readers, a read is what PhysicalRead promises: genuine
\* bytes from the front, then all of them or an error. The safety part of ReadContract.
THEOREM FulfilsContract ==
    ASSUME Disciplined
    PROVE  Spec => Contract!Init /\ [][Contract!Next]_(Contract!vars)
  <1>1. Init => Contract!Init
    BY InitFulfils
  <1>2. IInv /\ IInv' /\ [Next]_vars => [Contract!Next]_(Contract!vars)
    BY StepFulfils
  <1> QED
    BY <1>1, <1>2, Invariance, PTL DEF Spec, Safety

-----------------------------------------------------------------------------
(* Several processors.                                                       *)

\* What the driver believes of the processors: no TLB ever has the rogue page.
Empty ==
    /\ cpu \in [Threads -> Processors]
    /\ tlb = [c \in Processors |-> NoEntry]

\* What the driver relied on before: a thread stays on its processor from the remapping of
\* the rogue PTE to the copy, and that processor has no translation left of an earlier one.
Pinned == \A t \in Threads : pc[t] = "window" => cpu'[t] = cpu[t]
Flushed == \A t \in Threads : pc[t] # "window" /\ pc'[t] = "window" => tlb'[cpu[t]] = NoEntry

\* Then the processor on which a thread will copy translates the rogue page to the page
\* that was asked for.
TlbInv ==
    /\ cpu \in [Threads -> Processors]
    /\ DOMAIN tlb = Processors
    /\ \A t \in Threads : pc[t] = "window" => Seen(cpu[t]) = rogue

\* The mutex lets one thread at a time to the rogue page.
LEMMA OneWindow ==
    ASSUME IInv, NEW t \in Threads, NEW u \in Threads, pc[u] = "window",
           pc[t] = "window" \/ (pc[t] = "dispatch" /\ ext.mode = PTE)
    PROVE  t = u
  BY DEF IInv, OwnInv, PointInv, Inside

\* No step of a thread but RemapRogue has it remap the page.
LEMMA ElsewhereStays ==
    ASSUME TypeOK, NEW t \in Threads, Elsewhere(t)
    PROVE  /\ rogue' = rogue /\ UNCHANGED <<cpu, tlb>>
           /\ \A u \in Threads : pc'[u] = "window" => pc[u] = "window"
           /\ Next
  <1>1. CASE SetModeCheck(t) \/ SetModeApply(t) \/ Read(t) \/ Reject(t) \/ Enter(t)
    BY <1>1
    DEF Elsewhere, TypeOK, SetModeCheck, SetModeApply, Read, Reject, Enter, Next, Advance
  <1>2. CASE Acquire(t) \/ Nail(t) \/ Return(t)
    BY <1>2 DEF Elsewhere, TypeOK, Acquire, Nail, Return, Next, Advance
  <1>3. CASE ReadPhysical(t) \/ ReadIoSpace(t)
    BY <1>3
    DEF Elsewhere, TypeOK, ReadPhysical, ReadIoSpace, CopyFrom, NothingRead, Next, Advance
  <1> QED BY <1>1, <1>2, <1>3 DEF Elsewhere

\* If no processor buffers the translation, a step on several processors is one of
\* PmemDriver, or none.
LEMMA UncachedStep ==
    ASSUME ~Caching, IInv, Empty, [SmpNext]_smpVars
    PROVE  [Next]_vars /\ Empty'
  <1>1. ASSUME NEW t \in Threads, Migrate(t) PROVE UNCHANGED vars /\ Empty'
    BY <1>1 DEF Migrate, Empty, vars, threadVars
  <1>2. ASSUME NEW c \in Processors, Evict(c) PROVE UNCHANGED vars /\ Empty'
    BY <1>2 DEF Evict, Empty, vars, threadVars
  <1>3. ASSUME NEW t \in Threads, RemapHere(t) PROVE Next /\ Empty'
    BY <1>3 DEF RemapHere, Empty, Next, Advance
  <1>4. ASSUME NEW t \in Threads, CopyHere(t) PROVE Next /\ Empty'
    <2>1. Seen(cpu[t]) = rogue
      BY DEF Empty, Seen
    <2>2. Next
      BY <1>4, <2>1 DEF CopyHere, CopyRogue, Next, Advance
    <2> QED BY <1>4, <2>2 DEF CopyHere, Empty
  <1>5. ASSUME NEW t \in Threads, Elsewhere(t) PROVE Next /\ Empty'
    BY <1>5, ElsewhereStays DEF IInv, Empty
  <1>6. CASE UNCHANGED smpVars
    BY <1>6 DEF smpVars, vars, threadVars, Empty
  <1> QED BY <1>1, <1>2, <1>3, <1>4, <1>5, <1>6 DEF SmpNext

\* With both, a step on several processors is one of PmemDriver, or none.
LEMMA FlushedStep ==
    ASSUME IInv, TlbInv, [SmpNext]_smpVars, [Pinned /\ Flushed]_smpVars
    PROVE  [Next]_vars /\ TlbInv'
  <1>1. ASSUME NEW t \in Threads, Migrate(t) PROVE UNCHANGED vars /\ TlbInv'
    <2>1. PICK c \in Processors \ {cpu[t]} : cpu' = [cpu EXCEPT ![t] = c]
      BY <1>1 DEF Migrate
    <2>2. cpu'[t] # cpu[t] /\ UNCHANGED <<tlb, rogue, pc>> /\ UNCHANGED vars
      BY <1>1, <2>1 DEF Migrate, TlbInv, vars, threadVars
    <2>3. pc[t] # "window"
      BY <2>2 DEF Pinned, smpVars
    <2> QED BY <2>1, <2>2, <2>3 DEF TlbInv, Seen
  <1>2. ASSUME NEW c \in Processors, Evict(c) PROVE UNCHANGED vars /\ TlbInv'
    BY <1>2 DEF Evict, TlbInv, Seen, vars, threadVars
  <1>3. ASSUME NEW t \in Threads, RemapHere(t) PROVE Next /\ TlbInv'
    <2>1. pc[t] = "dispatch" /\ ext.mode = PTE /\ cpu' = cpu
      BY <1>3 DEF RemapHere, RemapRogue
    <2>2. \A u \in Threads : pc[u] # "window"
      BY <2>1, OneWindow
    <2>3. pc'[t] = "window" => Flushed
      BY <1>3, <2>2 DEF smpVars, vars, threadVars
    <2>4. \A u \in Threads \ {t} : pc'[u] # "window"
      BY <1>3, <2>2 DEF RemapHere, RemapRogue, NothingRead, IInv, TypeOK
    <2>5. pc'[t] = "window" => tlb'[cpu[t]] = NoEntry
      BY <1>3, <2>2, <2>3 DEF Flushed
    <2>6. DOMAIN tlb' = Processors
      BY <1>3 DEF RemapHere, TlbInv
    <2>7. Next
      BY <1>3 DEF RemapHere, Next, Advance
    <2> QED BY <2>1, <2>4, <2>5, <2>6, <2>7 DEF TlbInv, Seen
  <1>4. ASSUME NEW t \in Threads, CopyHere(t) PROVE Next /\ TlbInv'
    <2>1. pc[t] = "window" /\ Seen(cpu[t]) = rogue /\ cpu' = cpu /\ DOMAIN tlb' = Processors
      BY <1>4 DEF CopyHere, TlbInv
    <2>2. Next
      BY <1>4, <2>1 DEF CopyHere, CopyRogue, Next, Advance
    <2>3. \A u \in Threads : pc'[u] # "window"
      BY <1>4, <2>1, OneWindow DEF CopyHere, CopyFrom, NothingRead, IInv, TypeOK
    <2> QED BY <2>1, <2>2, <2>3 DEF TlbInv
  <1>5. ASSUME NEW t \in Threads, Elsewhere(t) PROVE Next /\ TlbInv'
    BY <1>5, ElsewhereStays DEF IInv, TlbInv, Seen
  <1>6. CASE UNCHANGED smpVars
    BY <1>6 DEF smpVars, vars, threadVars, TlbInv, Seen
  <1> QED BY <1>1, <1>2, <1>3, <1>4, <1>5, <1>6 DEF SmpNext

\* If the comment on the rogue PTE is right and no processor buffers its translation, the
\* processors make no difference: a behaviour is one of PmemDriver, and reads are exact
\* without a flush and without an affinity.
THEOREM UncachedIsOneProcessor ==
    ASSUME Disciplined, ~Caching
    PROVE  SmpSpec => Safety /\ []DeliveredExact
  <1>1. SmpInit => Init /\ IInv /\ Empty
    BY InitEstablishesIInv DEF SmpInit, Init, Empty
  <1>2. IInv /\ Empty /\ [SmpNext]_smpVars => [Next]_vars /\ IInv' /\ Empty'
    BY UncachedStep, NextKeepsIInv
  <1>3. IInv => DeliveredExact
    BY DEF IInv
  <1> QED
    BY <1>1, <1>2, <1>3, PTL DEF SmpSpec, Safety

\* If processors do buffer it, the two measures the driver has given up would do: threads
\* that stay where they are for the copy and processors that forget the page before.  The
\* run driver_tlb shows that without them a read can deliver another page.
THEOREM NailedAndFlushedIsExact ==
    ASSUME Disciplined
    PROVE  SmpSpec /\ [][Pinned /\ Flushed]_smpVars => Safety /\ []DeliveredExact
  <1>1. SmpInit => Init /\ IInv /\ TlbInv
    BY InitEstablishesIInv DEF SmpInit, Init, TlbInv
  <1>2. IInv /\ TlbInv /\ [SmpNext]_smpVars /\ [Pinned /\ Flushed]_smpVars
            => [Next]_vars /\ IInv' /\ TlbInv'
    BY FlushedStep, NextKeepsIInv
  <1>3. IInv => DeliveredExact
    BY DEF IInv
  <1> QED
    BY <1>1, <1>2, <1>3, PTL DEF SmpSpec, Safety
=============================================================================
