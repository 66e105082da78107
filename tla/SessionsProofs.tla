--------------------------- MODULE SessionsProofs ---------------------------
(***************************************************************************)
(* Theorems about Sessions.  They hold for any numbers of files, restores  *)
(* and handles; the permits they exclude are assumptions of theirs.        *)
(***************************************************************************)
EXTENDS Sessions, TLAPS

-----------------------------------------------------------------------------
(* Types.  A piece offered to a pipe is still counted in left, and a       *)
(* thread that is not idle works for a file.                               *)

Busy == \A t \in Threads : pc[t] # "idle" => file[t] \in Files
GiveLeft == \A t \in Threads : pc[t] = "give" => left[t] > 0
TypeInv == TypeOK /\ Busy /\ GiveLeft

(* Before anything is opened all is in range.                              *)
LEMMA TypeInit == Init => TypeInv
<1>. SUFFICES ASSUME Init PROVE TypeInv
  OBVIOUS
<1>1. /\ {readLock, writeLock, readerLock} \subseteq Threads \union {None}
      /\ {reader, closer} \subseteq Handles \union {None}
  BY DEF Init
<1>2. left \in [Threads -> 0..Chunks]
  BY SessionsAssumption DEF Init
<1>3. TypeOK
  BY <1>1, <1>2 DEF Init, TypeOK, Calls, Jobs, Places
<1>4. Busy /\ GiveLeft
  BY DEF Init, Busy, GiveLeft
<1>. QED
  BY <1>3, <1>4 DEF TypeInv

(* Each step of a call or an operation keeps the types.                    *)
LEMMA TypeStep == TypeInv /\ [Next]_vars => TypeInv'
<1>. SUFFICES ASSUME TypeInv, [Next]_vars PROVE TypeInv'
  OBVIOUS
<1>. USE SessionsAssumption
     DEF TypeInv, TypeOK, Busy, GiveLeft, Goto, threads, locks, drive, pipes,
         data, Calls, Jobs, Places, Threads
<1>1. ASSUME NEW f \in Files, Read(f) PROVE TypeInv'
  BY <1>1 DEF Read, Spawn
<1>2. ASSUME NEW f \in Files, Rewind(f) PROVE TypeInv'
  BY <1>2 DEF Rewind, Spawn, Start
<1>3. ASSUME NEW f \in Files, Write(f) PROVE TypeInv'
  BY <1>3 DEF Write, ClosePipe, Start
<1>4. ASSUME NEW f \in Files, Sync(f) PROVE TypeInv'
  BY <1>4 DEF Sync, BeginCall, Start
<1>5. ASSUME NEW f \in Files, Close(f) PROVE TypeInv'
  BY <1>5 DEF Close, ClosePipe, BeginCall, Start
<1>6. ASSUME NEW f \in Files, RemoveAll(f) PROVE TypeInv'
  BY <1>6 DEF RemoveAll, BeginCall, Start
<1>7. ASSUME NEW f \in Files, Create(f) PROVE TypeInv'
  BY <1>7 DEF Create, BeginCall, Start
<1>8. CASE ReadChunk
  BY <1>8 DEF ReadChunk
<1>9. CASE ReadEOF
  BY <1>9 DEF ReadEOF
<1>10. ASSUME NEW t \in Threads, BeginRestore(t) PROVE TypeInv'
  BY <1>10 DEF BeginRestore
<1>11. ASSUME NEW t \in Threads, GetHeader(t) PROVE TypeInv'
  <2>1. CASE file[t] \in exists
    BY <1>11, <2>1 DEF GetHeader, Fail
  <2>2. CASE file[t] \notin exists
    <3>1. TypeOK'
      BY <1>11, <2>2, ZenonT(90) DEF GetHeader, Fail
    <3>2. Busy'
      BY <1>11, <2>2 DEF GetHeader, Fail
    <3>3. GiveLeft'
      BY <1>11, <2>2 DEF GetHeader, Fail
    <3>. QED
      BY <3>1, <3>2, <3>3
  <2>. QED
    BY <2>1, <2>2
<1>12. ASSUME NEW t \in Threads, BeginWrite(t) PROVE TypeInv'
  BY <1>12 DEF BeginWrite
<1>13. ASSUME NEW t \in Threads, GetWriter(t) PROVE TypeInv'
  BY <1>13 DEF GetWriter, OpenDrive
<1>14. ASSUME NEW t \in Threads, WriteTape(t) PROVE TypeInv'
  <2>1. CASE CannotWrite(t)
    <3>1. TypeOK'
      BY <1>14, <2>1, ZenonT(40) DEF WriteTape, Fail
    <3>2. Busy'
      BY <1>14, <2>1 DEF WriteTape, Fail
    <3>3. GiveLeft'
      BY <1>14, <2>1 DEF WriteTape, Fail
    <3>. QED
      BY <3>1, <3>2, <3>3
  <2>2. CASE ~CannotWrite(t) /\ call \in {"sync", "close"}
    BY <1>14, <2>2 DEF WriteTape, Fail
  <2>3. CASE ~CannotWrite(t) /\ call \notin {"sync", "close"}
    BY <1>14, <2>3 DEF WriteTape, Fail
  <2>. QED
    BY <2>1, <2>2, <2>3
<1>15. ASSUME NEW t \in Threads, ReuseReader(t) PROVE TypeInv'
  BY <1>15 DEF ReuseReader
<1>16. ASSUME NEW t \in Threads, ReopenReader(t) PROVE TypeInv'
  BY <1>16 DEF ReopenReader
<1>17. ASSUME NEW t \in Threads, OpenReader(t) PROVE TypeInv'
  BY <1>17 DEF OpenReader, OpenDrive
<1>18. ASSUME NEW t \in Threads, TakeReader(t) PROVE TypeInv'
  BY <1>18 DEF TakeReader
<1>19. ASSUME NEW t \in Threads, SeekDrive(t) PROVE TypeInv'
  <2>1. CASE using[t] \notin open
    <3>1. TypeOK'
      <4>1. /\ pc' = [pc EXCEPT ![t] = "close"]
            /\ failed' = [failed EXCEPT ![t] = TRUE]
            /\ UNCHANGED <<job, file, using, aim, left, call, locks, drive,
                           pipes, data, panicked>>
        BY <1>19, <2>1 DEF SeekDrive, Fail
      <4>. QED
        BY <4>1
    <3>2. Busy'
      BY <1>19, <2>1 DEF SeekDrive, Fail
    <3>3. GiveLeft'
      BY <1>19, <2>1 DEF SeekDrive, Fail
    <3>. QED
      BY <3>1, <3>2, <3>3
  <2>2. CASE using[t] \in open /\ job[t] = "restore"
    BY <1>19, <2>2 DEF SeekDrive, Fail
  <2>3. CASE using[t] \in open /\ job[t] # "restore"
    BY <1>19, <2>3 DEF SeekDrive, Fail
  <2>. QED
    BY <2>1, <2>2, <2>3
<1>20. ASSUME NEW t \in Threads, FetchChunk(t) PROVE TypeInv'
  BY <1>20 DEF FetchChunk
<1>21. ASSUME NEW t \in Threads, FetchFails(t) PROVE TypeInv'
  BY <1>21 DEF FetchFails, Fail
<1>22. ASSUME NEW t \in Threads, GiveRefused(t) PROVE TypeInv'
  BY <1>22 DEF GiveRefused
<1>23. ASSUME NEW t \in Threads, FetchEnd(t) PROVE TypeInv'
  BY <1>23 DEF FetchEnd
<1>24. ASSUME NEW t \in Threads, Index(t) PROVE TypeInv'
  BY <1>24 DEF Index
<1>25. ASSUME NEW t \in Threads, ReadCloser(t) PROVE TypeInv'
  BY <1>25 DEF ReadCloser
<1>26. ASSUME NEW t \in Threads, CallCloser(t) PROVE TypeInv'
  <2>1. CASE aim[t] \in open
    BY <1>26, <2>1 DEF CallCloser, Fail, Forget
  <2>2. CASE aim[t] \notin open /\ job[t] = "write"
    <3>1. TypeOK'
      <4>1. /\ aim' = [aim EXCEPT ![t] = None]
            /\ pc' = [pc EXCEPT ![t] = "return"]
            /\ failed' = [failed EXCEPT ![t] = TRUE]
            /\ UNCHANGED <<job, file, using, left, call, locks, drive, pipes,
                           data, panicked>>
        BY <1>26, <2>2 DEF CallCloser, Fail
      <4>. QED
        BY <4>1
    <3>2. Busy'
      BY <1>26, <2>2 DEF CallCloser, Fail, Forget
    <3>3. GiveLeft'
      BY <1>26, <2>2 DEF CallCloser, Fail, Forget
    <3>. QED
      BY <3>1, <3>2, <3>3
  <2>3. CASE aim[t] \notin open /\ job[t] # "write"
    BY <1>26, <2>3 DEF CallCloser, Fail, Forget
  <2>. QED
    BY <2>1, <2>2, <2>3
<1>27. ASSUME NEW t \in Threads, UnlockDrive(t) PROVE TypeInv'
  <2>1. CASE job[t] = "write"
    <3>1. TypeOK'
      BY <1>27, <2>1, ZenonT(40) DEF UnlockDrive
    <3>2. Busy'
      BY <1>27, <2>1 DEF UnlockDrive
    <3>3. GiveLeft'
      BY <1>27, <2>1 DEF UnlockDrive
    <3>. QED
      BY <3>1, <3>2, <3>3
  <2>2. CASE job[t] # "write"
    BY <1>27, <2>2, ZenonT(40) DEF UnlockDrive
  <2>. QED
    BY <2>1, <2>2
<1>28. ASSUME NEW t \in Threads, Return(t) PROVE TypeInv'
  BY <1>28 DEF Return
<1>29. ASSUME NEW t \in Threads, GetWriterFails(t) PROVE TypeInv'
  BY <1>29 DEF GetWriterFails, MayNotOpen, Fail
<1>30. ASSUME NEW t \in Threads, OpenReaderFails(t) PROVE TypeInv'
  BY <1>30 DEF OpenReaderFails, MayNotOpen, Fail
<1>31. CASE UNCHANGED vars
  BY <1>31 DEF vars
<1>. QED
  BY <1>1, <1>2, <1>3, <1>4, <1>5, <1>6, <1>7, <1>8, <1>9,
     <1>10, <1>11, <1>12, <1>13, <1>14, <1>15, <1>16, <1>17, <1>18,
     <1>19, <1>20, <1>21, <1>22, <1>23, <1>24, <1>25, <1>26, <1>27,
     <1>28, <1>29, <1>30, <1>31
     DEF Next, Request, Step

(* The strengthened type invariant is an invariant.                        *)
LEMMA TypeInvariant == Spec => []TypeInv
  BY TypeInit, TypeStep, PTL DEF Spec

(* Every variable of the locks, drives, pipes and buffers stays in its     *)
(* range: nothing is copied past the end of a content, no call works for   *)
(* a file that is not one.                                                 *)
THEOREM SessionsTypeCorrect == Spec => []TypeOK
<1>. TypeInv => TypeOK
  BY DEF TypeInv
<1>. QED
  BY TypeInvariant, PTL

-----------------------------------------------------------------------------
(* The drive.  DriveGuarded is inductive: a handle is opened only by who   *)
(* has locked the mutex, so none is open then; only who has closed the     *)
(* open handle goes on to unlock.                                          *)

(* Each step keeps the drive guarded.                                      *)
LEMMA GuardStep == TypeOK /\ DriveGuarded /\ [Next]_vars => DriveGuarded'
<1>. SUFFICES ASSUME TypeOK, DriveGuarded, [Next]_vars PROVE DriveGuarded'
  OBVIOUS
<1>. USE SessionsAssumption
     DEF TypeOK, DriveGuarded, Goto, threads, locks, drive, pipes, data, Threads
<1>1. ASSUME NEW f \in Files, Read(f) PROVE DriveGuarded'
  BY <1>1 DEF Read, Spawn
<1>2. ASSUME NEW f \in Files, Rewind(f) PROVE DriveGuarded'
  BY <1>2 DEF Rewind, Spawn, Start
<1>3. ASSUME NEW f \in Files, Write(f) PROVE DriveGuarded'
  BY <1>3 DEF Write, ClosePipe, Start
<1>4. ASSUME NEW f \in Files, Sync(f) PROVE DriveGuarded'
  BY <1>4 DEF Sync, BeginCall, Start
<1>5. ASSUME NEW f \in Files, Close(f) PROVE DriveGuarded'
  BY <1>5 DEF Close, ClosePipe, BeginCall, Start
<1>6. ASSUME NEW f \in Files, RemoveAll(f) PROVE DriveGuarded'
  BY <1>6 DEF RemoveAll, BeginCall, Start
<1>7. ASSUME NEW f \in Files, Create(f) PROVE DriveGuarded'
  BY <1>7 DEF Create, BeginCall, Start
<1>8. CASE ReadChunk
  BY <1>8 DEF ReadChunk
<1>9. CASE ReadEOF
  BY <1>9 DEF ReadEOF
<1>10. ASSUME NEW t \in Threads, BeginRestore(t) PROVE DriveGuarded'
  BY <1>10 DEF BeginRestore
<1>11. ASSUME NEW t \in Threads, GetHeader(t) PROVE DriveGuarded'
  BY <1>11 DEF GetHeader, Fail
<1>12. ASSUME NEW t \in Threads, BeginWrite(t) PROVE DriveGuarded'
  BY <1>12 DEF BeginWrite
<1>13. ASSUME NEW t \in Threads, GetWriter(t) PROVE DriveGuarded'
  BY <1>13 DEF GetWriter, OpenDrive
<1>14. ASSUME NEW t \in Threads, WriteTape(t) PROVE DriveGuarded'
  BY <1>14 DEF WriteTape, Fail
<1>15. ASSUME NEW t \in Threads, ReuseReader(t) PROVE DriveGuarded'
  BY <1>15 DEF ReuseReader
<1>16. ASSUME NEW t \in Threads, ReopenReader(t) PROVE DriveGuarded'
  BY <1>16 DEF ReopenReader
<1>17. ASSUME NEW t \in Threads, OpenReader(t) PROVE DriveGuarded'
  BY <1>17 DEF OpenReader, OpenDrive
<1>18. ASSUME NEW t \in Threads, TakeReader(t) PROVE DriveGuarded'
  BY <1>18 DEF TakeReader
<1>19. ASSUME NEW t \in Threads, SeekDrive(t) PROVE DriveGuarded'
  BY <1>19 DEF SeekDrive, Fail
<1>20. ASSUME NEW t \in Threads, FetchChunk(t) PROVE DriveGuarded'
  BY <1>20 DEF FetchChunk
<1>21. ASSUME NEW t \in Threads, FetchFails(t) PROVE DriveGuarded'
  BY <1>21 DEF FetchFails, Fail
<1>22. ASSUME NEW t \in Threads, GiveRefused(t) PROVE DriveGuarded'
  BY <1>22 DEF GiveRefused
<1>23. ASSUME NEW t \in Threads, FetchEnd(t) PROVE DriveGuarded'
  BY <1>23 DEF FetchEnd
<1>24. ASSUME NEW t \in Threads, Index(t) PROVE DriveGuarded'
  BY <1>24 DEF Index
<1>25. ASSUME NEW t \in Threads, ReadCloser(t) PROVE DriveGuarded'
  BY <1>25 DEF ReadCloser
<1>26. ASSUME NEW t \in Threads, CallCloser(t) PROVE DriveGuarded'
  BY <1>26 DEF CallCloser, Fail, Forget
<1>27. ASSUME NEW t \in Threads, UnlockDrive(t) PROVE DriveGuarded'
  BY <1>27 DEF UnlockDrive
<1>28. ASSUME NEW t \in Threads, Return(t) PROVE DriveGuarded'
  BY <1>28 DEF Return
<1>29. ASSUME NEW t \in Threads, GetWriterFails(t) PROVE DriveGuarded'
  BY <1>29 DEF GetWriterFails, MayNotOpen, Fail
<1>30. ASSUME NEW t \in Threads, OpenReaderFails(t) PROVE DriveGuarded'
  BY <1>30 DEF OpenReaderFails, MayNotOpen, Fail
<1>31. CASE UNCHANGED vars
  BY <1>31 DEF vars
<1>. QED
  BY <1>1, <1>2, <1>3, <1>4, <1>5, <1>6, <1>7, <1>8, <1>9,
     <1>10, <1>11, <1>12, <1>13, <1>14, <1>15, <1>16, <1>17, <1>18,
     <1>19, <1>20, <1>21, <1>22, <1>23, <1>24, <1>25, <1>26, <1>27,
     <1>28, <1>29, <1>30, <1>31
     DEF Next, Request, Step

(* However late TapeManager.Close is called and by whom, it never unlocks  *)
(* a mutex that is not locked, and never are two handles open.             *)
THEOREM DriveStaysGuarded == Spec => []DriveGuarded
<1>1. Init => DriveGuarded
  BY DEF Init, DriveGuarded
<1>. TypeInv => TypeOK
  BY DEF TypeInv
<1>. QED
  BY <1>1, GuardStep, TypeInvariant, PTL DEF Spec

-----------------------------------------------------------------------------
(* Who runs what.                                                          *)

Working(t) == pc[t] \notin {"idle", "reading", "begin"}

(* A thread that is not idle runs an operation, a goroutine a restore; a   *)
(* call that writes, restores or waits is the Caller's.                    *)
Roles ==
  /\ \A t \in Threads : pc[t] \notin {"idle", "reading"} => job[t] # "none"
  /\ \A g \in Goroutines : job[g] \in {"none", "restore"} /\ pc[g] # "reading"
  /\ \A t \in Threads : pc[t] \in {"getwriter", "write"} => job[t] = "write"
  /\ \A t \in Threads : pc[t] = "scan" => job[t] # "restore"
  /\ \A t \in Threads : pc[t] = "copy" => job[t] = "restore"
  /\ call = "none" <=> pc[Caller] = "idle"
  /\ call = "write" => job[Caller] = "restore"
  /\ job[Caller] = "restore" => call = "write" /\ pc[Caller] # "reading"

(* The diskOperationLock of readOps admits one restore.                    *)
OneRestore ==
  \A t \in Threads : Working(t) /\ job[t] = "restore" => readLock = t

RolesInv == Roles /\ OneRestore

(* Each step keeps the roles.                                              *)
LEMMA RolesStep == TypeInv /\ RolesInv /\ [Next]_vars => RolesInv'
<1>. SUFFICES ASSUME TypeInv, RolesInv, [Next]_vars PROVE RolesInv'
  OBVIOUS
<1>. USE SessionsAssumption
     DEF TypeInv, TypeOK, Busy, RolesInv, Working, Roles, OneRestore, Goto,
         threads, locks, drive, pipes, data, Threads
<1>1. ASSUME NEW f \in Files, Read(f) PROVE RolesInv'
  BY <1>1 DEF Read, Spawn
<1>2. ASSUME NEW f \in Files, Rewind(f) PROVE RolesInv'
  BY <1>2 DEF Rewind, Spawn, Start
<1>3. ASSUME NEW f \in Files, Write(f) PROVE RolesInv'
  BY <1>3 DEF Write, ClosePipe, Start
<1>4. ASSUME NEW f \in Files, Sync(f) PROVE RolesInv'
  BY <1>4 DEF Sync, BeginCall, Start
<1>5. ASSUME NEW f \in Files, Close(f) PROVE RolesInv'
  BY <1>5 DEF Close, ClosePipe, BeginCall, Start
<1>6. ASSUME NEW f \in Files, RemoveAll(f) PROVE RolesInv'
  BY <1>6 DEF RemoveAll, BeginCall, Start
<1>7. ASSUME NEW f \in Files, Create(f) PROVE RolesInv'
  BY <1>7 DEF Create, BeginCall, Start
<1>8. CASE ReadChunk
  BY <1>8 DEF ReadChunk
<1>9. CASE ReadEOF
  BY <1>9 DEF ReadEOF
<1>10. ASSUME NEW t \in Threads, BeginRestore(t) PROVE RolesInv'
  BY <1>10 DEF BeginRestore
<1>11. ASSUME NEW t \in Threads, GetHeader(t) PROVE RolesInv'
  BY <1>11 DEF GetHeader, Fail
<1>12. ASSUME NEW t \in Threads, BeginWrite(t) PROVE RolesInv'
  BY <1>12 DEF BeginWrite
<1>13. ASSUME NEW t \in Threads, GetWriter(t) PROVE RolesInv'
  BY <1>13 DEF GetWriter, OpenDrive
<1>14. ASSUME NEW t \in Threads, WriteTape(t) PROVE RolesInv'
  BY <1>14 DEF WriteTape, Fail
<1>15. ASSUME NEW t \in Threads, ReuseReader(t) PROVE RolesInv'
  BY <1>15 DEF ReuseReader
<1>16. ASSUME NEW t \in Threads, ReopenReader(t) PROVE RolesInv'
  BY <1>16 DEF ReopenReader
<1>17. ASSUME NEW t \in Threads, OpenReader(t) PROVE RolesInv'
  BY <1>17 DEF OpenReader, OpenDrive
<1>18. ASSUME NEW t \in Threads, TakeReader(t) PROVE RolesInv'
  BY <1>18 DEF TakeReader
<1>19. ASSUME NEW t \in Threads, SeekDrive(t) PROVE RolesInv'
  BY <1>19 DEF SeekDrive, Fail
<1>20. ASSUME NEW t \in Threads, FetchChunk(t) PROVE RolesInv'
  BY <1>20 DEF FetchChunk
<1>21. ASSUME NEW t \in Threads, FetchFails(t) PROVE RolesInv'
  BY <1>21 DEF FetchFails, ReadsOwn, Fail
<1>22. ASSUME NEW t \in Threads, GiveRefused(t) PROVE RolesInv'
  BY <1>22 DEF GiveRefused
<1>23. ASSUME NEW t \in Threads, FetchEnd(t) PROVE RolesInv'
  BY <1>23 DEF FetchEnd
<1>24. ASSUME NEW t \in Threads, Index(t) PROVE RolesInv'
  BY <1>24 DEF Index
<1>25. ASSUME NEW t \in Threads, ReadCloser(t) PROVE RolesInv'
  BY <1>25 DEF ReadCloser
<1>26. ASSUME NEW t \in Threads, CallCloser(t) PROVE RolesInv'
  BY <1>26 DEF CallCloser, Fail, Forget
<1>27. ASSUME NEW t \in Threads, UnlockDrive(t) PROVE RolesInv'
  BY <1>27 DEF UnlockDrive
<1>28. ASSUME NEW t \in Threads, Return(t) PROVE RolesInv'
  BY <1>28 DEF Return
<1>29. ASSUME NEW t \in Threads, GetWriterFails(t) PROVE RolesInv'
  BY <1>29 DEF GetWriterFails, MayNotOpen, Fail
<1>30. ASSUME NEW t \in Threads, OpenReaderFails(t) PROVE RolesInv'
  BY <1>30 DEF OpenReaderFails, MayNotOpen, Fail
<1>31. CASE UNCHANGED vars
  BY <1>31 DEF vars
<1>. QED
  BY <1>1, <1>2, <1>3, <1>4, <1>5, <1>6, <1>7, <1>8, <1>9,
     <1>10, <1>11, <1>12, <1>13, <1>14, <1>15, <1>16, <1>17, <1>18,
     <1>19, <1>20, <1>21, <1>22, <1>23, <1>24, <1>25, <1>26, <1>27,
     <1>28, <1>29, <1>30, <1>31
     DEF Next, Request, Step

(* They hold in every state.                                               *)
LEMMA RolesInvariant == Spec => []RolesInv
<1>1. Init => RolesInv
  BY SessionsAssumption DEF Init, RolesInv, Working, Roles, OneRestore, Threads
<1>. QED
  BY <1>1, RolesStep, TypeInvariant, PTL DEF Spec

-----------------------------------------------------------------------------
(* Write buffers.  While a write call restores a file no other restore     *)
(* gets past its lock and no call writes, so the drive stays as the        *)
(* restore has left it and the restore cannot fail half way.               *)

(* The restore of a write call finds its file and keeps its drive.         *)
Restorable ==
  call = "write" =>
    /\ pc[Caller] \in {"begin", "lookup"} => file[Caller] \in exists
    /\ pc[Caller] = "take" => reader \in open
    /\ pc[Caller] \in {"seek", "copy"} => using[Caller] \in open
    /\ pc[Caller] = "copy" => placed = Caller

(* A buffer is partly filled only while its file is being restored.        *)
BeingFilled ==
  \A f \in Files : buf[f] = "part" =>
    /\ call = "write" /\ file[Caller] = f
    /\ pc[Caller] \in {"begin", "lookup", "getreader", "open", "take", "seek",
                       "copy"}

RestoreInv == Restorable /\ BeingFilled /\ NothingLost

(* Each step keeps the restore of a write call undisturbed.                *)
LEMMA RestoreStep ==
  ASSUME "unreadable" \notin Permit
  PROVE  TypeInv /\ RolesInv /\ RestoreInv /\ [Next]_vars => RestoreInv'
<1>. SUFFICES ASSUME TypeInv, RolesInv, RestoreInv, [Next]_vars
                PROVE  RestoreInv'
  OBVIOUS
<1>. USE SessionsAssumption
     DEF TypeInv, TypeOK, Busy, RestoreInv, RolesInv, Working, Roles,
         OneRestore, Restorable, BeingFilled,
         NothingLost, Goto, threads, locks, drive, pipes, data, Threads
<1>1. ASSUME NEW f \in Files, Read(f) PROVE RestoreInv'
  BY <1>1 DEF Read, Spawn
<1>2. ASSUME NEW f \in Files, Rewind(f) PROVE RestoreInv'
  BY <1>2 DEF Rewind, Spawn, Start
<1>3. ASSUME NEW f \in Files, Write(f) PROVE RestoreInv'
  BY <1>3 DEF Write, ClosePipe, Start
<1>4. ASSUME NEW f \in Files, Sync(f) PROVE RestoreInv'
  BY <1>4 DEF Sync, BeginCall, Start
<1>5. ASSUME NEW f \in Files, Close(f) PROVE RestoreInv'
  BY <1>5 DEF Close, ClosePipe, BeginCall, Start
<1>6. ASSUME NEW f \in Files, RemoveAll(f) PROVE RestoreInv'
  BY <1>6 DEF RemoveAll, BeginCall, Start
<1>7. ASSUME NEW f \in Files, Create(f) PROVE RestoreInv'
  BY <1>7 DEF Create, BeginCall, Start
<1>8. CASE ReadChunk
  BY <1>8 DEF ReadChunk
<1>9. CASE ReadEOF
  BY <1>9 DEF ReadEOF
<1>10. ASSUME NEW t \in Threads, BeginRestore(t) PROVE RestoreInv'
  BY <1>10 DEF BeginRestore
<1>11. ASSUME NEW t \in Threads, GetHeader(t) PROVE RestoreInv'
  BY <1>11 DEF GetHeader, Fail
<1>12. ASSUME NEW t \in Threads, BeginWrite(t) PROVE RestoreInv'
  BY <1>12 DEF BeginWrite
<1>13. ASSUME NEW t \in Threads, GetWriter(t) PROVE RestoreInv'
  BY <1>13 DEF GetWriter, OpenDrive
<1>14. ASSUME NEW t \in Threads, WriteTape(t) PROVE RestoreInv'
  <2>1. \A f \in Files : buf[f] # "part"
    BY <1>14 DEF WriteTape
  <2>2. damaged' = {} /\ \A f \in Files : buf'[f] # "part"
    BY <1>14, <2>1 DEF WriteTape, Fail
  <2>. QED
    BY <1>14, <2>2 DEF WriteTape, CannotWrite, Fail
<1>15. ASSUME NEW t \in Threads, ReuseReader(t) PROVE RestoreInv'
  BY <1>15 DEF ReuseReader
<1>16. ASSUME NEW t \in Threads, ReopenReader(t) PROVE RestoreInv'
  BY <1>16 DEF ReopenReader
<1>17. ASSUME NEW t \in Threads, OpenReader(t) PROVE RestoreInv'
  BY <1>17 DEF OpenReader, OpenDrive
<1>18. ASSUME NEW t \in Threads, TakeReader(t) PROVE RestoreInv'
  BY <1>18 DEF TakeReader
<1>19. ASSUME NEW t \in Threads, SeekDrive(t) PROVE RestoreInv'
  BY <1>19 DEF SeekDrive, Fail
<1>20. ASSUME NEW t \in Threads, FetchChunk(t) PROVE RestoreInv'
  BY <1>20 DEF FetchChunk
<1>21. ASSUME NEW t \in Threads, FetchFails(t) PROVE RestoreInv'
  BY <1>21 DEF FetchFails, ReadsOwn, Fail
<1>22. ASSUME NEW t \in Threads, GiveRefused(t) PROVE RestoreInv'
  BY <1>22 DEF GiveRefused
<1>23. ASSUME NEW t \in Threads, FetchEnd(t) PROVE RestoreInv'
  BY <1>23 DEF FetchEnd
<1>24. ASSUME NEW t \in Threads, Index(t) PROVE RestoreInv'
  BY <1>24 DEF Index
<1>25. ASSUME NEW t \in Threads, ReadCloser(t) PROVE RestoreInv'
  BY <1>25 DEF ReadCloser
<1>26. ASSUME NEW t \in Threads, CallCloser(t) PROVE RestoreInv'
  BY <1>26 DEF CallCloser, Fail, Forget
<1>27. ASSUME NEW t \in Threads, UnlockDrive(t) PROVE RestoreInv'
  BY <1>27 DEF UnlockDrive
<1>28. ASSUME NEW t \in Threads, Return(t) PROVE RestoreInv'
  BY <1>28 DEF Return
<1>29. ASSUME NEW t \in Threads, GetWriterFails(t) PROVE RestoreInv'
  BY <1>29 DEF GetWriterFails, MayNotOpen, Fail
<1>30. ASSUME NEW t \in Threads, OpenReaderFails(t) PROVE RestoreInv'
  BY <1>30 DEF OpenReaderFails, MayNotOpen, Fail
<1>31. CASE UNCHANGED vars
  BY <1>31 DEF vars
<1>. QED
  BY <1>1, <1>2, <1>3, <1>4, <1>5, <1>6, <1>7, <1>8, <1>9,
     <1>10, <1>11, <1>12, <1>13, <1>14, <1>15, <1>16, <1>17, <1>18,
     <1>19, <1>20, <1>21, <1>22, <1>23, <1>24, <1>25, <1>26, <1>27,
     <1>28, <1>29, <1>30, <1>31
     DEF Next, Request, Step

(* enterWriteMode keeps the new buffer when restoring into it fails.  As   *)
(* long as the drive can be read that never happens, whatever other calls  *)
(* and goroutines do to the drive, and no later sync writes such a buffer. *)
THEOREM NothingIsLost ==
  ASSUME "unreadable" \notin Permit
  PROVE  Spec => []NothingLost
<1>1. Init => RestoreInv
  BY SessionsAssumption
     DEF Init, RestoreInv, Restorable, BeingFilled, NothingLost, Threads
<1>2. RestoreInv => NothingLost
  BY DEF RestoreInv
<1>. QED
  BY <1>1, <1>2, RestoreStep, TypeInvariant, RolesInvariant, PTL
  DEF Spec

-----------------------------------------------------------------------------
(* Locks.  Whoever opens a handle or comes to one goes on to close the     *)
(* handle that is open then, unless a write fails in between: it returns   *)
(* before CloseWriter.  Who closes it unlocks the drive.                   *)

Holders ==
  /\ readLock # None => Working(readLock) /\ job[readLock] = "restore"
  /\ writeLock # None =>
       Working(writeLock) /\ job[writeLock] \in {"write", "index"}
  /\ readerLock # None => pc[readerLock] = "open"

(* This thread is on the way to closing the open handle.                   *)
WillClose(t) ==
  \/ pc[t] \in {"take", "seek", "copy", "give", "scan", "close"}
  \/ pc[t] = "write" /\ using[t] \in open
  \/ pc[t] = "closing" /\ aim[t] \in open

WillUnlock ==
  /\ open \subseteq {closer}
  /\ open # {} => \E t \in Threads : WillClose(t)
  /\ physicalLock => open # {} \/ \E t \in Threads : pc[t] = "unlock"

(* The name is found and the buffer can be read.                           *)
CanBeWritten ==
  pc[Caller] \in {"begin", "getwriter", "write"} =>
    /\ call = "remove" => file[Caller] \in exists
    /\ call \in {"sync", "close"} => buf[file[Caller]] # "closed"

LockInv == Holders /\ WillUnlock /\ CanBeWritten

(* Each step keeps who holds a lock on the way to its release.             *)
LEMMA LockStep ==
  ASSUME {"missing", "synced", "unopenable"} \cap Permit = {}
  PROVE  /\ TypeInv /\ RolesInv /\ DriveGuarded /\ LockInv /\ [Next]_vars
         => LockInv'
<1>. SUFFICES ASSUME TypeInv, RolesInv, DriveGuarded, LockInv, [Next]_vars
              PROVE  LockInv'
  OBVIOUS
<1>. USE SessionsAssumption
     DEF TypeInv, TypeOK, Busy, RolesInv, Working, Roles, OneRestore,
         DriveGuarded, LockInv, Holders, WillClose, WillUnlock, CanBeWritten,
         Goto, threads, locks, drive, pipes, data, Threads
<1>1. ASSUME NEW f \in Files, Read(f) PROVE LockInv'
  BY <1>1 DEF Read, Spawn
<1>2. ASSUME NEW f \in Files, Rewind(f) PROVE LockInv'
  BY <1>2 DEF Rewind, Spawn, Start
<1>3. ASSUME NEW f \in Files, Write(f) PROVE LockInv'
  BY <1>3 DEF Write, ClosePipe, Start
<1>4. ASSUME NEW f \in Files, Sync(f) PROVE LockInv'
  BY <1>4 DEF Sync, BeginCall, Start
<1>5. ASSUME NEW f \in Files, Close(f) PROVE LockInv'
  BY <1>5 DEF Close, ClosePipe, BeginCall, Start
<1>6. ASSUME NEW f \in Files, RemoveAll(f) PROVE LockInv'
  BY <1>6 DEF RemoveAll, BeginCall, Start
<1>7. ASSUME NEW f \in Files, Create(f) PROVE LockInv'
  BY <1>7 DEF Create, BeginCall, Start
<1>8. CASE ReadChunk
  BY <1>8 DEF ReadChunk
<1>9. CASE ReadEOF
  BY <1>9 DEF ReadEOF
<1>10. ASSUME NEW t \in Threads, BeginRestore(t) PROVE LockInv'
  BY <1>10 DEF BeginRestore
<1>11. ASSUME NEW t \in Threads, GetHeader(t) PROVE LockInv'
  BY <1>11 DEF GetHeader, Fail
<1>12. ASSUME NEW t \in Threads, BeginWrite(t) PROVE LockInv'
  BY <1>12 DEF BeginWrite
<1>13. ASSUME NEW t \in Threads, GetWriter(t) PROVE LockInv'
  BY <1>13 DEF GetWriter, OpenDrive
<1>14. ASSUME NEW t \in Threads, WriteTape(t) PROVE LockInv'
  <2>1. CASE CannotWrite(t)
    <3>1. t = Caller /\ using[t] \notin open
      BY <1>14, <2>1 DEF WriteTape, CannotWrite
    <3>2. Holders' /\ CanBeWritten'
      BY <1>14, <2>1 DEF WriteTape, Fail
    <3>3. WillUnlock'
      BY <1>14, <2>1, <3>1 DEF WriteTape, Fail
    <3>. QED
      BY <3>2, <3>3
  <2>2. CASE ~CannotWrite(t)
    <3>1. Holders' /\ CanBeWritten'
      BY <1>14, <2>2 DEF WriteTape
    <3>2. WillUnlock'
      BY <1>14, <2>2 DEF WriteTape
    <3>. QED
      BY <3>1, <3>2
  <2>. QED
    BY <2>1, <2>2
<1>15. ASSUME NEW t \in Threads, ReuseReader(t) PROVE LockInv'
  BY <1>15 DEF ReuseReader
<1>16. ASSUME NEW t \in Threads, ReopenReader(t) PROVE LockInv'
  BY <1>16 DEF ReopenReader
<1>17. ASSUME NEW t \in Threads, OpenReader(t) PROVE LockInv'
  BY <1>17 DEF OpenReader, OpenDrive
<1>18. ASSUME NEW t \in Threads, TakeReader(t) PROVE LockInv'
  BY <1>18 DEF TakeReader
<1>19. ASSUME NEW t \in Threads, SeekDrive(t) PROVE LockInv'
  BY <1>19 DEF SeekDrive, Fail
<1>20. ASSUME NEW t \in Threads, FetchChunk(t) PROVE LockInv'
  BY <1>20 DEF FetchChunk
<1>21. ASSUME NEW t \in Threads, FetchFails(t) PROVE LockInv'
  BY <1>21 DEF FetchFails, ReadsOwn, Fail
<1>22. ASSUME NEW t \in Threads, GiveRefused(t) PROVE LockInv'
  BY <1>22 DEF GiveRefused
<1>23. ASSUME NEW t \in Threads, FetchEnd(t) PROVE LockInv'
  BY <1>23 DEF FetchEnd
<1>24. ASSUME NEW t \in Threads, Index(t) PROVE LockInv'
  <2>. /\ pc[t] = "scan" /\ pc' = [pc EXCEPT ![t] = "close"]
       /\ UNCHANGED <<job, file, using, aim, left, failed, call, locks, open,
                      reader, closer, pipes, buf, damaged, panicked>>
    BY <1>24 DEF Index
  <2>1. Holders'
    OBVIOUS
  <2>2. WillUnlock'
    OBVIOUS
  <2>3. CanBeWritten'
    <3>1. t = Caller
      OBVIOUS
    <3>. QED
      BY <3>1
  <2>. QED
    BY <2>1, <2>2, <2>3
<1>25. ASSUME NEW t \in Threads, ReadCloser(t) PROVE LockInv'
  BY <1>25 DEF ReadCloser
<1>26. ASSUME NEW t \in Threads, CallCloser(t) PROVE LockInv'
  BY <1>26 DEF CallCloser, Fail, Forget
<1>27. ASSUME NEW t \in Threads, UnlockDrive(t) PROVE LockInv'
  BY <1>27 DEF UnlockDrive
<1>28. ASSUME NEW t \in Threads, Return(t) PROVE LockInv'
  BY <1>28 DEF Return
<1>29. ASSUME NEW t \in Threads, GetWriterFails(t) PROVE LockInv'
  BY <1>29 DEF GetWriterFails, MayNotOpen, Fail
<1>30. ASSUME NEW t \in Threads, OpenReaderFails(t) PROVE LockInv'
  BY <1>30 DEF OpenReaderFails, MayNotOpen, Fail
<1>31. CASE UNCHANGED vars
  BY <1>31 DEF vars
<1>. QED
  BY <1>1, <1>2, <1>3, <1>4, <1>5, <1>6, <1>7, <1>8, <1>9,
     <1>10, <1>11, <1>12, <1>13, <1>14, <1>15, <1>16, <1>17, <1>18,
     <1>19, <1>20, <1>21, <1>22, <1>23, <1>24, <1>25, <1>26, <1>27,
     <1>28, <1>29, <1>30, <1>31
     DEF Next, Request, Step

(* An operation gives back the locks it took on every path, also when      *)
(* somebody else has closed its handle or the drive cannot be read, unless *)
(* a write fails on a name that is missing or a buffer closed by a sync,   *)
(* or the drive cannot be opened.                                          *)
THEOREM LocksAlwaysReleased ==
  ASSUME {"missing", "synced", "unopenable"} \cap Permit = {}
  PROVE  Spec => []LocksReleased
<1>1. Init => LockInv
  BY SessionsAssumption
     DEF Init, LockInv, Holders, WillClose, WillUnlock, CanBeWritten, Threads
<1>2. TypeInv /\ LockInv => LocksReleased
  BY SessionsAssumption
     DEF TypeInv, TypeOK, LockInv, Holders, Working, WillClose, WillUnlock,
         LocksReleased
<1>. QED
  BY <1>1, <1>2, LockStep, TypeInvariant, RolesInvariant, DriveStaysGuarded, PTL
  DEF Spec

-----------------------------------------------------------------------------
(* Turns.  A client that reads or closes one file before it uses another   *)
(* starts a call only when no restore is on its way to the drive; one that *)
(* has come to its drive finishes before the call gets there.              *)

Early == {"begin", "lookup", "getreader", "open", "take", "seek"}
Nearing == {"lookup", "getreader", "open"}
Holding == {"take", "seek", "write", "copy", "give", "scan", "close",
            "closing", "unlock"}

(* Of a restore that does not have the drive yet nothing was read, so the  *)
(* client waits for it; there is one at most.                              *)
Awaited ==
  /\ \A g \in Goroutines : pc[g] \in Early =>
       /\ pipe[file[g]] = g /\ file[g] \notin begun
       /\ pc[Caller] \in {"idle", "reading"}
  /\ \A f, h \in Files :
       pipe[f] \in Goroutines /\ pipe[h] \in Goroutines => f = h
  /\ \A f \in Files : buf[f] # "none" => pipe[f] = None
  /\ job[Caller] = "restore" \/ call \in {"sync", "close"} =>
       buf[file[Caller]] # "none"

(* One thread at a time works with the drive or is next to.  A write or an *)
(* opening that fails leaves the drive locked for good; then nobody works  *)
(* with it, as the reader that is set is not open.                         *)
Exclusive ==
  /\ \A t, u \in Threads :
       pc[t] \in Nearing \cup Holding /\ pc[u] \in Nearing \cup Holding => t = u
  /\ \A t \in Threads : pc[t] \in Holding => physicalLock
  /\ physicalLock => reader \notin open \/ \E t \in Threads : pc[t] \in Holding
  /\ \A t \in Threads : pc[t] \in Nearing /\ physicalLock => reader \notin open

(* It has the open handle, and was the last to move it.                    *)
OwnsHandle(t) ==
  /\ pc[t] = "take" => reader \in open
  /\ pc[t] \in {"seek", "write", "copy", "give", "scan"} => using[t] \in open
  /\ pc[t] = "write" => reader \notin open
  /\ pc[t] \in {"copy", "give", "scan"} => placed = t
  /\ pc[t] = "close" => open # {}
  /\ pc[t] = "closing" => aim[t] \in open

TurnInv ==
  /\ Awaited /\ Exclusive /\ open \subseteq {closer}
  /\ \A t \in Threads : OwnsHandle(t)

(* Each step keeps the turns.                                              *)
LEMMA TurnStep ==
  ASSUME {"interleave", "hasty"} \cap Permit = {}
  PROVE  /\ TypeInv /\ RolesInv /\ DriveGuarded /\ TurnInv /\ [Next]_vars
         => TurnInv'
<1>. SUFFICES ASSUME TypeInv, RolesInv, DriveGuarded, TurnInv, [Next]_vars
              PROVE  TurnInv'
  OBVIOUS
<1>. USE SessionsAssumption
     DEF TypeInv, TypeOK, Busy, RolesInv, Working, Roles, OneRestore,
         DriveGuarded, TurnInv, Awaited, Exclusive, OwnsHandle, Early, Nearing,
         Holding, NothingToRead, OthersSettled, MayLeave,
         Goto, threads, locks, drive, pipes, data, Threads
<1>1. ASSUME NEW f \in Files, Read(f) PROVE TurnInv'
  BY <1>1 DEF Read, Spawn
<1>2. ASSUME NEW f \in Files, Rewind(f) PROVE TurnInv'
  BY <1>2 DEF Rewind, Spawn, Start
<1>3. ASSUME NEW f \in Files, Write(f) PROVE TurnInv'
  BY <1>3 DEF Write, ClosePipe, Start
<1>4. ASSUME NEW f \in Files, Sync(f) PROVE TurnInv'
  BY <1>4 DEF Sync, BeginCall, Start
<1>5. ASSUME NEW f \in Files, Close(f) PROVE TurnInv'
  BY <1>5 DEF Close, ClosePipe, BeginCall, Start
<1>6. ASSUME NEW f \in Files, RemoveAll(f) PROVE TurnInv'
  BY <1>6 DEF RemoveAll, BeginCall, Start
<1>7. ASSUME NEW f \in Files, Create(f) PROVE TurnInv'
  BY <1>7 DEF Create, BeginCall, Start
<1>8. CASE ReadChunk
  BY <1>8 DEF ReadChunk
<1>9. CASE ReadEOF
  BY <1>9 DEF ReadEOF
<1>10. ASSUME NEW t \in Threads, BeginRestore(t) PROVE TurnInv'
  BY <1>10 DEF BeginRestore
<1>11. ASSUME NEW t \in Threads, GetHeader(t) PROVE TurnInv'
  BY <1>11 DEF GetHeader, Fail
<1>12. ASSUME NEW t \in Threads, BeginWrite(t) PROVE TurnInv'
  BY <1>12 DEF BeginWrite
<1>13. ASSUME NEW t \in Threads, GetWriter(t) PROVE TurnInv'
  <2>1. t = Caller /\ open = {} /\ \A u \in Threads : pc[u] \notin Holding
    BY <1>13 DEF GetWriter, OpenDrive
  <2>2. \A u \in Threads : pc[u] \notin Nearing
    BY <1>13, <2>1 DEF GetWriter
  <2>3. PICK h \in Handles :
          OpenDrive(t, h) /\ using' = [using EXCEPT ![t] = h]
    BY <1>13 DEF GetWriter
  <2>4. /\ h \in Unused /\ open' = {h} /\ closer' = h
        /\ using' = [using EXCEPT ![t] = h] /\ physicalLock'
    BY <2>1, <2>3 DEF OpenDrive
  <2>5. h # reader
    BY <2>4 DEF Unused, Referenced
  <2>6. Awaited'
    BY <1>13, <2>1 DEF GetWriter
  <2>7. Exclusive'
    BY <1>13, <2>1, <2>2, <2>4, <2>5 DEF GetWriter
  <2>8. open' \subseteq {closer'} /\ \A u \in Threads : OwnsHandle(u)'
    BY <1>13, <2>1, <2>2, <2>4, <2>5 DEF GetWriter
  <2>. QED
    BY <2>6, <2>7, <2>8
<1>14. ASSUME NEW t \in Threads, WriteTape(t) PROVE TurnInv'
  <2>1. t = Caller /\ using[t] \in open /\ reader \notin open
    BY <1>14 DEF WriteTape
  <2>2. \/ pc' = [pc EXCEPT ![t] = "close"] \/ pc' = [pc EXCEPT ![t] = "return"]
    BY <1>14 DEF WriteTape, Fail
  <2>3. Awaited'
    BY <1>14, <2>1, <2>2 DEF WriteTape
  <2>4. Exclusive'
    BY <1>14, <2>1, <2>2 DEF WriteTape
  <2>5. open' \subseteq {closer'} /\ \A u \in Threads : OwnsHandle(u)'
    BY <1>14, <2>1, <2>2 DEF WriteTape
  <2>. QED
    BY <2>3, <2>4, <2>5
<1>15. ASSUME NEW t \in Threads, ReuseReader(t) PROVE TurnInv'
  BY <1>15 DEF ReuseReader
<1>16. ASSUME NEW t \in Threads, ReopenReader(t) PROVE TurnInv'
  BY <1>16 DEF ReopenReader
<1>17. ASSUME NEW t \in Threads, OpenReader(t) PROVE TurnInv'
  BY <1>17 DEF OpenReader, OpenDrive
<1>18. ASSUME NEW t \in Threads, TakeReader(t) PROVE TurnInv'
  BY <1>18 DEF TakeReader
<1>19. ASSUME NEW t \in Threads, SeekDrive(t) PROVE TurnInv'
  BY <1>19 DEF SeekDrive, Fail
<1>20. ASSUME NEW t \in Threads, FetchChunk(t) PROVE TurnInv'
  BY <1>20 DEF FetchChunk
<1>21. ASSUME NEW t \in Threads, FetchFails(t) PROVE TurnInv'
  BY <1>21 DEF FetchFails, ReadsOwn, Fail
<1>22. ASSUME NEW t \in Threads, GiveRefused(t) PROVE TurnInv'
  BY <1>22 DEF GiveRefused
<1>23. ASSUME NEW t \in Threads, FetchEnd(t) PROVE TurnInv'
  <2>1. Awaited'
    <3>1. CASE t = Caller
      BY <1>23, <3>1 DEF FetchEnd
    <3>2. CASE t # Caller
      BY <1>23, <3>2 DEF FetchEnd
    <3>. QED
      BY <3>1, <3>2
  <2>2. Exclusive'
    BY <1>23 DEF FetchEnd
  <2>3. open' \subseteq {closer'} /\ \A u \in Threads : OwnsHandle(u)'
    BY <1>23 DEF FetchEnd
  <2>. QED
    BY <2>1, <2>2, <2>3
<1>24. ASSUME NEW t \in Threads, Index(t) PROVE TurnInv'
  BY <1>24 DEF Index
<1>25. ASSUME NEW t \in Threads, ReadCloser(t) PROVE TurnInv'
  BY <1>25 DEF ReadCloser
<1>26. ASSUME NEW t \in Threads, CallCloser(t) PROVE TurnInv'
  BY <1>26 DEF CallCloser, Fail, Forget
<1>27. ASSUME NEW t \in Threads, UnlockDrive(t) PROVE TurnInv'
  BY <1>27 DEF UnlockDrive
<1>28. ASSUME NEW t \in Threads, Return(t) PROVE TurnInv'
  BY <1>28 DEF Return
<1>29. ASSUME NEW t \in Threads, GetWriterFails(t) PROVE TurnInv'
  BY <1>29 DEF GetWriterFails, MayNotOpen, Fail
<1>30. ASSUME NEW t \in Threads, OpenReaderFails(t) PROVE TurnInv'
  BY <1>30 DEF OpenReaderFails, MayNotOpen, Fail
<1>31. CASE UNCHANGED vars
  BY <1>31 DEF vars
<1>. QED
  BY <1>1, <1>2, <1>3, <1>4, <1>5, <1>6, <1>7, <1>8, <1>9,
     <1>10, <1>11, <1>12, <1>13, <1>14, <1>15, <1>16, <1>17, <1>18,
     <1>19, <1>20, <1>21, <1>22, <1>23, <1>24, <1>25, <1>26, <1>27,
     <1>28, <1>29, <1>30, <1>31
     DEF Next, Request, Step

(* Nobody reads from, writes to or moves a drive handle that another       *)
(* thread is using, however a goroutine that outlives its call overlaps    *)
(* with the calls that follow.  GetReader does hand out a handle another   *)
(* thread opened, but only if clients may do what is excluded here.        *)
THEOREM DriveStaysUndisturbed ==
  ASSUME {"interleave", "hasty"} \cap Permit = {}
  PROVE  Spec => []DriveUndisturbed
<1>1. Init => TurnInv
  BY SessionsAssumption
     DEF Init, TurnInv, Awaited, Exclusive, OwnsHandle, Early, Nearing, Holding,
         Threads
<1>2. TurnInv => DriveUndisturbed
  BY DEF TurnInv, OwnsHandle, DriveUndisturbed, ReadsOwn
<1>. QED
  BY <1>1, <1>2, TurnStep, TypeInvariant, RolesInvariant, DriveStaysGuarded, PTL
  DEF Spec

-----------------------------------------------------------------------------
(* Panics.  A restore of a pipe finds its file, which nobody removes while *)
(* the client waits for it, and has the drive to itself.                   *)

Unfailing ==
  /\ ~panicked
  /\ \A g \in Goroutines :
       ~failed[g] /\ (pc[g] \in {"begin", "lookup"} => file[g] \in exists)

(* Each step keeps the goroutines from failing.                            *)
LEMMA UnfailingStep ==
  ASSUME {"interleave", "hasty", "unlinked", "unreadable"} \cap Permit = {}
  PROVE  /\ TypeInv /\ RolesInv /\ TurnInv /\ Unfailing /\ [Next]_vars
         => Unfailing'
<1>. SUFFICES ASSUME TypeInv, RolesInv, TurnInv, Unfailing, [Next]_vars
              PROVE  Unfailing'
  OBVIOUS
<1>. USE SessionsAssumption
     DEF TypeInv, TypeOK, RolesInv, Roles, TurnInv, Awaited, OwnsHandle,
         Early, Unfailing, MayRead, Goto, threads, locks, drive, pipes, data,
         Threads
<1>1. ASSUME NEW f \in Files, Read(f) PROVE Unfailing'
  BY <1>1 DEF Read, Spawn
<1>2. ASSUME NEW f \in Files, Rewind(f) PROVE Unfailing'
  BY <1>2 DEF Rewind, Spawn, Start
<1>3. ASSUME NEW f \in Files, Write(f) PROVE Unfailing'
  BY <1>3 DEF Write, ClosePipe, Start
<1>4. ASSUME NEW f \in Files, Sync(f) PROVE Unfailing'
  BY <1>4 DEF Sync, BeginCall, Start
<1>5. ASSUME NEW f \in Files, Close(f) PROVE Unfailing'
  BY <1>5 DEF Close, ClosePipe, BeginCall, Start
<1>6. ASSUME NEW f \in Files, RemoveAll(f) PROVE Unfailing'
  BY <1>6 DEF RemoveAll, BeginCall, Start
<1>7. ASSUME NEW f \in Files, Create(f) PROVE Unfailing'
  BY <1>7 DEF Create, BeginCall, Start
<1>8. CASE ReadChunk
  BY <1>8 DEF ReadChunk
<1>9. CASE ReadEOF
  BY <1>9 DEF ReadEOF
<1>10. ASSUME NEW t \in Threads, BeginRestore(t) PROVE Unfailing'
  BY <1>10 DEF BeginRestore
<1>11. ASSUME NEW t \in Threads, GetHeader(t) PROVE Unfailing'
  BY <1>11 DEF GetHeader, Fail
<1>12. ASSUME NEW t \in Threads, BeginWrite(t) PROVE Unfailing'
  BY <1>12 DEF BeginWrite
<1>13. ASSUME NEW t \in Threads, GetWriter(t) PROVE Unfailing'
  BY <1>13 DEF GetWriter, OpenDrive
<1>14. ASSUME NEW t \in Threads, WriteTape(t) PROVE Unfailing'
  BY <1>14 DEF WriteTape, Fail
<1>15. ASSUME NEW t \in Threads, ReuseReader(t) PROVE Unfailing'
  BY <1>15 DEF ReuseReader
<1>16. ASSUME NEW t \in Threads, ReopenReader(t) PROVE Unfailing'
  BY <1>16 DEF ReopenReader
<1>17. ASSUME NEW t \in Threads, OpenReader(t) PROVE Unfailing'
  BY <1>17 DEF OpenReader, OpenDrive
<1>18. ASSUME NEW t \in Threads, TakeReader(t) PROVE Unfailing'
  BY <1>18 DEF TakeReader
<1>19. ASSUME NEW t \in Threads, SeekDrive(t) PROVE Unfailing'
  BY <1>19 DEF SeekDrive, Fail
<1>20. ASSUME NEW t \in Threads, FetchChunk(t) PROVE Unfailing'
  BY <1>20 DEF FetchChunk
<1>21. ASSUME NEW t \in Threads, FetchFails(t) PROVE Unfailing'
  BY <1>21 DEF FetchFails, ReadsOwn, Fail
<1>22. ASSUME NEW t \in Threads, GiveRefused(t) PROVE Unfailing'
  BY <1>22 DEF GiveRefused
<1>23. ASSUME NEW t \in Threads, FetchEnd(t) PROVE Unfailing'
  BY <1>23 DEF FetchEnd
<1>24. ASSUME NEW t \in Threads, Index(t) PROVE Unfailing'
  BY <1>24 DEF Index
<1>25. ASSUME NEW t \in Threads, ReadCloser(t) PROVE Unfailing'
  BY <1>25 DEF ReadCloser
<1>26. ASSUME NEW t \in Threads, CallCloser(t) PROVE Unfailing'
  BY <1>26 DEF CallCloser, Fail, Forget
<1>27. ASSUME NEW t \in Threads, UnlockDrive(t) PROVE Unfailing'
  BY <1>27 DEF UnlockDrive
<1>28. ASSUME NEW t \in Threads, Return(t) PROVE Unfailing'
  BY <1>28 DEF Return
<1>29. ASSUME NEW t \in Threads, GetWriterFails(t) PROVE Unfailing'
  BY <1>29 DEF GetWriterFails, MayNotOpen, Fail
<1>30. ASSUME NEW t \in Threads, OpenReaderFails(t) PROVE Unfailing'
  BY <1>30 DEF OpenReaderFails, MayNotOpen, Fail
<1>31. CASE UNCHANGED vars
  BY <1>31 DEF vars
<1>. QED
  BY <1>1, <1>2, <1>3, <1>4, <1>5, <1>6, <1>7, <1>8, <1>9,
     <1>10, <1>11, <1>12, <1>13, <1>14, <1>15, <1>16, <1>17, <1>18,
     <1>19, <1>20, <1>21, <1>22, <1>23, <1>24, <1>25, <1>26, <1>27,
     <1>28, <1>29, <1>30, <1>31
     DEF Next, Request, Step

(* An error of a restore into a pipe is a panic, as nobody waits for it.   *)
(* It has none while the drive can be read, if clients read or close one   *)
(* file before they use another and remove no file they have opened: the   *)
(* restore of a pipe that is closed or rewound ends without an error.      *)
THEOREM NeverPanics ==
  ASSUME {"interleave", "hasty", "unlinked", "unreadable"} \cap Permit = {}
  PROVE  Spec => []NoPanic
<1>1. Init => TurnInv /\ Unfailing
  BY SessionsAssumption
     DEF Init, TurnInv, Awaited, Exclusive, OwnsHandle, Early, Nearing, Holding,
         Unfailing, Threads
<1>2. Unfailing => NoPanic
  BY DEF Unfailing, NoPanic
<1>3. {"interleave", "hasty"} \cap Permit = {}
  OBVIOUS
<1>. QED
  BY <1>1, <1>2, <1>3, TurnStep, UnfailingStep, TypeInvariant, RolesInvariant,
     DriveStaysGuarded, PTL
  DEF Spec
=============================================================================
