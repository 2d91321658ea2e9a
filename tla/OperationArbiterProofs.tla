------------------------ MODULE OperationArbiterProofs ------------------------
(***************************************************************************)
(* ArbiterInv is an invariant of the operation arbiter for every set of    *)
(* callers, servers and files, and what follows from it on each platform.  *)
(***************************************************************************)
EXTENDS OperationArbiterProperties, TLAPS

\* What a caller does that opens the file for removal.
OpensPath(c) ==
    /\ path # None /\ CanDelete(path)
    /\ fd' = [fd EXCEPT ![c] = path]
    /\ UNCHANGED <<file, why, kept, try, guard>>

\* Types and open descriptors are preserved together.
LEMMA TypeStep ==
    ASSUME TypeOK, Handles, [Next]_vars
    PROVE  TypeOK' /\ Handles'
<1> USE CallerAssumption, BoundAssumption, NoneAssumption DEF TypeOK, Handles, Files, Text, Why,
        Pcs, fileVars, ReadPcs, WritePcs, DeletePcs, MovedPcs
<1>1. ASSUME NEW c \in Caller, Ask(c) PROVE TypeOK' /\ Handles'
  BY <1>1 DEF Ask, Enter, Goto
<1>2. ASSUME NEW c \in Caller, Create(c) PROVE TypeOK' /\ Handles'
  BY <1>2 DEF Create, CreateExclusive, Goto
<1>3. ASSUME NEW c \in Caller, CreateExists(c) PROVE TypeOK' /\ Handles'
  BY <1>3 DEF CreateExists, Goto
<1>4. ASSUME NEW c \in Caller, CreateFails(c) PROVE TypeOK' /\ Handles'
  BY <1>4 DEF CreateFails, Leave, Restart, Exit, Goto
<1>5. ASSUME NEW c \in Caller, OpenLock(c) PROVE TypeOK' /\ Handles'
  BY <1>5 DEF OpenLock, OpenToRead, Leave, Restart, Exit, Goto
<1>6. ASSUME NEW c \in Caller, OpenPublished(c) PROVE TypeOK' /\ Handles'
  BY <1>6 DEF OpenPublished, OpenToRead, Leave, Restart, Exit, Goto
<1>7. ASSUME NEW c \in Caller, OpenClaim(c) PROVE TypeOK' /\ Handles'
  BY <1>7 DEF OpenClaim, OpenToRead, Leave, Restart, Exit, Goto
<1>8. ASSUME NEW c \in Caller, ReadLock(c) PROVE TypeOK' /\ Handles'
  BY <1>8 DEF ReadLock, RemoveFor, Leave, Restart, Exit, Goto
<1>9. ASSUME NEW c \in Caller, ShortWrite(c) PROVE TypeOK' /\ Handles'
  BY <1>9 DEF ShortWrite
<1>10. ASSUME NEW c \in Caller, Write(c) PROVE TypeOK' /\ Handles'
  BY <1>10 DEF Write, Goto
<1>11. ASSUME NEW c \in Caller, Close(c) PROVE TypeOK' /\ Handles'
  BY <1>11 DEF Close, Goto
<1>12. ASSUME NEW c \in Caller, WriteFails(c) PROVE TypeOK' /\ Handles'
  BY <1>12 DEF WriteFails, RemoveFor, Goto
<1>13. ASSUME NEW c \in Caller, Verify(c) PROVE TypeOK' /\ Handles'
  BY <1>13 DEF Verify, RemoveFor, Exit, Goto
<1>14. ASSUME NEW c \in Caller, Finish(c) PROVE TypeOK' /\ Handles'
  BY <1>14 DEF Finish, Enter, Goto
<1>15. ASSUME NEW c \in Caller, ReadClaim(c) PROVE TypeOK' /\ Handles'
  BY <1>15 DEF ReadClaim, RemoveFor, Leave, Restart, Exit, Goto
<1>16. ASSUME NEW c \in Caller, OpenToRemove(c) PROVE TypeOK' /\ Handles'
  <2>1. CASE NotRemoved(c)
    BY <1>16, <2>1 DEF OpenToRemove, NotRemoved, Leave, Restart, Exit, Goto
  <2>2. CASE Platform = "nt" /\ Goto(c, "mark") /\ OpensPath(c)
    BY <1>16, <2>2 DEF OpenToRemove, OpensPath, Goto
  <2>3. CASE Platform = "posix" /\ Goto(c, "move") /\ OpensPath(c)
    BY <1>16, <2>3 DEF OpenToRemove, OpensPath, Goto
  <2> QED
    BY <1>16, <2>1, <2>2, <2>3 DEF OpenToRemove, OpensPath
<1>17. ASSUME NEW c \in Caller, Mark(c) PROVE TypeOK' /\ Handles'
  <2>1. CASE Goto(c, "close_delete") /\ doomed' = doomed \cup {fd[c]}
             /\ UNCHANGED <<path, file, fd, why, kept, try, guard>>
    BY <1>17, <2>1 DEF Mark, Goto
  <2>2. CASE NotRemoved(c) /\ CloseHandle(fd[c], Deleters(fd[c]) \ {c})
    BY <1>17, <2>2 DEF Mark, CloseHandle, NotRemoved, Leave, Restart, Exit, Goto
  <2> QED
    BY <1>17, <2>1, <2>2 DEF Mark
<1>18. ASSUME NEW c \in Caller, CloseDelete(c) PROVE TypeOK' /\ Handles'
  BY <1>18 DEF CloseDelete, CloseHandle, Removed, Leave, Restart, Exit, Goto
<1>19. ASSUME NEW c \in Caller, Move(c) PROVE TypeOK' /\ Handles'
  BY <1>19 DEF Move, NotRemoved, Leave, Restart, Exit, Goto
<1>20. ASSUME NEW c \in Caller, Check(c) PROVE TypeOK' /\ Handles'
  <2>1. CASE Removed(c)
    BY <1>20, <2>1 DEF Check, Removed, Leave, Restart, Exit, Goto
  <2>2. CASE NotRemoved(c)
    BY <1>20, <2>2 DEF Check, NotRemoved, Leave, Restart, Exit, Goto
  <2>3. CASE Goto(c, "restore") /\ UNCHANGED <<file, fd, why, kept, try, guard>>
    BY <1>20, <2>3 DEF Check, Goto
  <2> QED
    BY <1>20, <2>1, <2>2, <2>3 DEF Check
<1>21. ASSUME NEW c \in Caller, Restore(c) PROVE TypeOK' /\ Handles'
  BY <1>21 DEF Restore, NotRemoved, Leave, Restart, Exit, Goto
<1>22. ASSUME NEW q \in Poller, PollOpen(q) \/ PollClose(q) PROVE TypeOK' /\ Handles'
  BY <1>22 DEF PollOpen, PollClose
<1>23. ASSUME NEW p \in Process, Kill(p) PROVE TypeOK' /\ Handles'
  BY <1>23 DEF Kill
<1>24. CASE UNCHANGED vars
  BY <1>24 DEF vars, fileVars
<1>25. QED
  BY <1>1, <1>2, <1>3, <1>4, <1>5, <1>6, <1>7, <1>8, <1>9, <1>10, <1>11, <1>12, <1>13, <1>14, <1>15,
     <1>16, <1>17, <1>18, <1>19, <1>20, <1>21, <1>22, <1>23, <1>24
     DEF Next, Inside, TryAcquire, Release, UnlinkIfContent

\* Only a live process runs a call.
LEMMA LiveStep ==
    ASSUME TypeOK, TypeOK', LiveCalls, [Next]_vars
    PROVE  LiveCalls'
<1> USE CallerAssumption, NoneAssumption, PlatformAssumption DEF TypeOK, Files, Why, fileVars,
        ReadPcs, WritePcs, DeletePcs, MovedPcs, LiveCalls, Alive
<1>1. ASSUME NEW c \in Caller, Ask(c) PROVE LiveCalls'
  BY <1>1 DEF Ask, Enter, Goto
<1>2. ASSUME NEW c \in Caller, Create(c) PROVE LiveCalls'
  BY <1>2 DEF Create, CreateExclusive, Goto
<1>3. ASSUME NEW c \in Caller, CreateExists(c) PROVE LiveCalls'
  BY <1>3 DEF CreateExists, Goto
<1>4. ASSUME NEW c \in Caller, CreateFails(c) PROVE LiveCalls'
  BY <1>4 DEF CreateFails, Leave, Restart, Exit, Goto
<1>5. ASSUME NEW c \in Caller, OpenLock(c) PROVE LiveCalls'
  BY <1>5 DEF OpenLock, OpenToRead, Leave, Restart, Exit, Goto
<1>6. ASSUME NEW c \in Caller, OpenPublished(c) PROVE LiveCalls'
  BY <1>6 DEF OpenPublished, OpenToRead, Leave, Restart, Exit, Goto
<1>7. ASSUME NEW c \in Caller, OpenClaim(c) PROVE LiveCalls'
  BY <1>7 DEF OpenClaim, OpenToRead, Leave, Restart, Exit, Goto
<1>8. ASSUME NEW c \in Caller, ReadLock(c) PROVE LiveCalls'
  BY <1>8 DEF ReadLock, RemoveFor, Leave, Restart, Exit, Goto
<1>9. ASSUME NEW c \in Caller, ShortWrite(c) PROVE LiveCalls'
  BY <1>9 DEF ShortWrite
<1>10. ASSUME NEW c \in Caller, Write(c) PROVE LiveCalls'
  BY <1>10 DEF Write, Goto
<1>11. ASSUME NEW c \in Caller, Close(c) PROVE LiveCalls'
  BY <1>11 DEF Close, Goto
<1>12. ASSUME NEW c \in Caller, WriteFails(c) PROVE LiveCalls'
  BY <1>12 DEF WriteFails, RemoveFor, Goto
<1>13. ASSUME NEW c \in Caller, Verify(c) PROVE LiveCalls'
  BY <1>13 DEF Verify, RemoveFor, Exit, Goto
<1>14. ASSUME NEW c \in Caller, Finish(c) PROVE LiveCalls'
  BY <1>14 DEF Finish, Enter, Goto
<1>15. ASSUME NEW c \in Caller, ReadClaim(c) PROVE LiveCalls'
  BY <1>15 DEF ReadClaim, RemoveFor, Leave, Restart, Exit, Goto
<1>16. ASSUME NEW c \in Caller, OpenToRemove(c) PROVE LiveCalls'
  <2>1. CASE NotRemoved(c)
    BY <1>16, <2>1 DEF OpenToRemove, NotRemoved, Leave, Restart, Exit, Goto
  <2>2. CASE Platform = "nt" /\ Goto(c, "mark") /\ OpensPath(c)
    BY <1>16, <2>2 DEF OpenToRemove, OpensPath, Goto
  <2>3. CASE Platform = "posix" /\ Goto(c, "move") /\ OpensPath(c)
    BY <1>16, <2>3 DEF OpenToRemove, OpensPath, Goto
  <2> QED
    BY <1>16, <2>1, <2>2, <2>3 DEF OpenToRemove, OpensPath
<1>17. ASSUME NEW c \in Caller, Mark(c) PROVE LiveCalls'
  <2>1. CASE Goto(c, "close_delete") /\ doomed' = doomed \cup {fd[c]}
             /\ UNCHANGED <<path, file, fd, why, kept, try, guard>>
    BY <1>17, <2>1 DEF Mark, Goto
  <2>2. CASE NotRemoved(c) /\ CloseHandle(fd[c], Deleters(fd[c]) \ {c})
    BY <1>17, <2>2 DEF Mark, CloseHandle, NotRemoved, Leave, Restart, Exit, Goto
  <2> QED
    BY <1>17, <2>1, <2>2 DEF Mark
<1>18. ASSUME NEW c \in Caller, CloseDelete(c) PROVE LiveCalls'
  BY <1>18 DEF CloseDelete, CloseHandle, Removed, Leave, Restart, Exit, Goto
<1>19. ASSUME NEW c \in Caller, Move(c) PROVE LiveCalls'
  BY <1>19 DEF Move, NotRemoved, Leave, Restart, Exit, Goto
<1>20. ASSUME NEW c \in Caller, Check(c) PROVE LiveCalls'
  <2>1. CASE Removed(c)
    BY <1>20, <2>1 DEF Check, Removed, Leave, Restart, Exit, Goto
  <2>2. CASE NotRemoved(c)
    BY <1>20, <2>2 DEF Check, NotRemoved, Leave, Restart, Exit, Goto
  <2>3. CASE Goto(c, "restore") /\ UNCHANGED <<file, fd, why, kept, try, guard>>
    BY <1>20, <2>3 DEF Check, Goto
  <2> QED
    BY <1>20, <2>1, <2>2, <2>3 DEF Check
<1>21. ASSUME NEW c \in Caller, Restore(c) PROVE LiveCalls'
  BY <1>21 DEF Restore, NotRemoved, Leave, Restart, Exit, Goto
<1>22. ASSUME NEW q \in Poller, PollOpen(q) \/ PollClose(q) PROVE LiveCalls'
  BY <1>22 DEF PollOpen, PollClose
<1>23. ASSUME NEW p \in Process, Kill(p) PROVE LiveCalls'
  BY <1>23 DEF Kill
<1>24. CASE UNCHANGED vars
  BY <1>24 DEF vars, fileVars
<1>25. QED
  BY <1>1, <1>2, <1>3, <1>4, <1>5, <1>6, <1>7, <1>8, <1>9, <1>10, <1>11, <1>12, <1>13, <1>14, <1>15,
     <1>16, <1>17, <1>18, <1>19, <1>20, <1>21, <1>22, <1>23, <1>24
     DEF Next, Inside, TryAcquire, Release, UnlinkIfContent

\* No step takes over the file another call made: a created file is fresh.
LEMMA OwnStep ==
    ASSUME TypeOK, TypeOK', Handles, OwnFiles, [Next]_vars
    PROVE  OwnFiles'
<1> USE CallerAssumption, NoneAssumption, PlatformAssumption DEF TypeOK, Files, Why, fileVars,
        ReadPcs, WritePcs, DeletePcs, MovedPcs, Handles, OwnFiles, Publishing, Holds, Removing,
        Fresh, Text
<1>1. ASSUME NEW c \in Caller, Ask(c) PROVE OwnFiles'
  BY <1>1 DEF Ask, Enter, Goto
<1>2. ASSUME NEW c \in Caller, Create(c) PROVE OwnFiles'
  BY <1>2 DEF Create, CreateExclusive, Goto
<1>3. ASSUME NEW c \in Caller, CreateExists(c) PROVE OwnFiles'
  BY <1>3 DEF CreateExists, Goto
<1>4. ASSUME NEW c \in Caller, CreateFails(c) PROVE OwnFiles'
  BY <1>4 DEF CreateFails, Leave, Restart, Exit, Goto
<1>5. ASSUME NEW c \in Caller, OpenLock(c) PROVE OwnFiles'
  BY <1>5 DEF OpenLock, OpenToRead, Leave, Restart, Exit, Goto
<1>6. ASSUME NEW c \in Caller, OpenPublished(c) PROVE OwnFiles'
  BY <1>6 DEF OpenPublished, OpenToRead, Leave, Restart, Exit, Goto
<1>7. ASSUME NEW c \in Caller, OpenClaim(c) PROVE OwnFiles'
  BY <1>7 DEF OpenClaim, OpenToRead, Leave, Restart, Exit, Goto
<1>8. ASSUME NEW c \in Caller, ReadLock(c) PROVE OwnFiles'
  BY <1>8 DEF ReadLock, RemoveFor, Leave, Restart, Exit, Goto
<1>9. ASSUME NEW c \in Caller, ShortWrite(c) PROVE OwnFiles'
  BY <1>9 DEF ShortWrite
<1>10. ASSUME NEW c \in Caller, Write(c) PROVE OwnFiles'
  BY <1>10 DEF Write, Goto
<1>11. ASSUME NEW c \in Caller, Close(c) PROVE OwnFiles'
  BY <1>11 DEF Close, Goto
<1>12. ASSUME NEW c \in Caller, WriteFails(c) PROVE OwnFiles'
  BY <1>12 DEF WriteFails, RemoveFor, Goto
<1>13. ASSUME NEW c \in Caller, Verify(c) PROVE OwnFiles'
  BY <1>13 DEF Verify, RemoveFor, Exit, Goto
<1>14. ASSUME NEW c \in Caller, Finish(c) PROVE OwnFiles'
  BY <1>14 DEF Finish, Enter, Goto
<1>15. ASSUME NEW c \in Caller, ReadClaim(c) PROVE OwnFiles'
  BY <1>15 DEF ReadClaim, RemoveFor, Leave, Restart, Exit, Goto
<1>16. ASSUME NEW c \in Caller, OpenToRemove(c) PROVE OwnFiles'
  <2>1. CASE NotRemoved(c)
    BY <1>16, <2>1 DEF OpenToRemove, NotRemoved, Leave, Restart, Exit, Goto
  <2>2. CASE Platform = "nt" /\ Goto(c, "mark") /\ OpensPath(c)
    BY <1>16, <2>2 DEF OpenToRemove, OpensPath, Goto
  <2>3. CASE Platform = "posix" /\ Goto(c, "move") /\ OpensPath(c)
    BY <1>16, <2>3 DEF OpenToRemove, OpensPath, Goto
  <2> QED
    BY <1>16, <2>1, <2>2, <2>3 DEF OpenToRemove, OpensPath
<1>17. ASSUME NEW c \in Caller, Mark(c) PROVE OwnFiles'
  <2>1. CASE Goto(c, "close_delete") /\ doomed' = doomed \cup {fd[c]}
             /\ UNCHANGED <<path, file, fd, why, kept, try, guard>>
    BY <1>17, <2>1 DEF Mark, Goto
  <2>2. CASE NotRemoved(c) /\ CloseHandle(fd[c], Deleters(fd[c]) \ {c})
    BY <1>17, <2>2 DEF Mark, CloseHandle, NotRemoved, Leave, Restart, Exit, Goto
  <2> QED
    BY <1>17, <2>1, <2>2 DEF Mark
<1>18. ASSUME NEW c \in Caller, CloseDelete(c) PROVE OwnFiles'
  BY <1>18 DEF CloseDelete, CloseHandle, Removed, Leave, Restart, Exit, Goto
<1>19. ASSUME NEW c \in Caller, Move(c) PROVE OwnFiles'
  BY <1>19 DEF Move, NotRemoved, Leave, Restart, Exit, Goto
<1>20. ASSUME NEW c \in Caller, Check(c) PROVE OwnFiles'
  <2>1. CASE Removed(c)
    BY <1>20, <2>1 DEF Check, Removed, Leave, Restart, Exit, Goto
  <2>2. CASE NotRemoved(c)
    BY <1>20, <2>2 DEF Check, NotRemoved, Leave, Restart, Exit, Goto
  <2>3. CASE Goto(c, "restore") /\ UNCHANGED <<file, fd, why, kept, try, guard>>
    BY <1>20, <2>3 DEF Check, Goto
  <2> QED
    BY <1>20, <2>1, <2>2, <2>3 DEF Check
<1>21. ASSUME NEW c \in Caller, Restore(c) PROVE OwnFiles'
  BY <1>21 DEF Restore, NotRemoved, Leave, Restart, Exit, Goto
<1>22. ASSUME NEW q \in Poller, PollOpen(q) \/ PollClose(q) PROVE OwnFiles'
  BY <1>22 DEF PollOpen, PollClose
<1>23. ASSUME NEW p \in Process, Kill(p) PROVE OwnFiles'
  BY <1>23 DEF Kill
<1>24. CASE UNCHANGED vars
  BY <1>24 DEF vars, fileVars
<1>25. QED
  BY <1>1, <1>2, <1>3, <1>4, <1>5, <1>6, <1>7, <1>8, <1>9, <1>10, <1>11, <1>12, <1>13, <1>14, <1>15,
     <1>16, <1>17, <1>18, <1>19, <1>20, <1>21, <1>22, <1>23, <1>24
     DEF Next, Inside, TryAcquire, Release, UnlinkIfContent

\* The reason of a removal stays true: the dead stay dead.
LEMMA ReasonStep ==
    ASSUME TypeOK, TypeOK', Handles, Reasons, [Next]_vars
    PROVE  Reasons'
<1> USE CallerAssumption, NoneAssumption, PlatformAssumption DEF TypeOK, Files, Why, fileVars,
        ReadPcs, WritePcs, DeletePcs, MovedPcs, Handles, Reasons, Removing, Alive, Fresh, Text
<1>1. ASSUME NEW c \in Caller, Ask(c) PROVE Reasons'
  BY <1>1 DEF Ask, Enter, Goto
<1>2. ASSUME NEW c \in Caller, Create(c) PROVE Reasons'
  BY <1>2 DEF Create, CreateExclusive, Goto
<1>3. ASSUME NEW c \in Caller, CreateExists(c) PROVE Reasons'
  BY <1>3 DEF CreateExists, Goto
<1>4. ASSUME NEW c \in Caller, CreateFails(c) PROVE Reasons'
  BY <1>4 DEF CreateFails, Leave, Restart, Exit, Goto
<1>5. ASSUME NEW c \in Caller, OpenLock(c) PROVE Reasons'
  BY <1>5 DEF OpenLock, OpenToRead, Leave, Restart, Exit, Goto
<1>6. ASSUME NEW c \in Caller, OpenPublished(c) PROVE Reasons'
  BY <1>6 DEF OpenPublished, OpenToRead, Leave, Restart, Exit, Goto
<1>7. ASSUME NEW c \in Caller, OpenClaim(c) PROVE Reasons'
  BY <1>7 DEF OpenClaim, OpenToRead, Leave, Restart, Exit, Goto
<1>8. ASSUME NEW c \in Caller, ReadLock(c) PROVE Reasons'
  BY <1>8 DEF ReadLock, RemoveFor, Leave, Restart, Exit, Goto
<1>9. ASSUME NEW c \in Caller, ShortWrite(c) PROVE Reasons'
  BY <1>9 DEF ShortWrite
<1>10. ASSUME NEW c \in Caller, Write(c) PROVE Reasons'
  BY <1>10 DEF Write, Goto
<1>11. ASSUME NEW c \in Caller, Close(c) PROVE Reasons'
  BY <1>11 DEF Close, Goto
<1>12. ASSUME NEW c \in Caller, WriteFails(c) PROVE Reasons'
  BY <1>12 DEF WriteFails, RemoveFor, Goto
<1>13. ASSUME NEW c \in Caller, Verify(c) PROVE Reasons'
  BY <1>13 DEF Verify, RemoveFor, Exit, Goto
<1>14. ASSUME NEW c \in Caller, Finish(c) PROVE Reasons'
  BY <1>14 DEF Finish, Enter, Goto
<1>15. ASSUME NEW c \in Caller, ReadClaim(c) PROVE Reasons'
  BY <1>15 DEF ReadClaim, RemoveFor, Leave, Restart, Exit, Goto
<1>16. ASSUME NEW c \in Caller, OpenToRemove(c) PROVE Reasons'
  <2>1. CASE NotRemoved(c)
    BY <1>16, <2>1 DEF OpenToRemove, NotRemoved, Leave, Restart, Exit, Goto
  <2>2. CASE Platform = "nt" /\ Goto(c, "mark") /\ OpensPath(c)
    BY <1>16, <2>2 DEF OpenToRemove, OpensPath, Goto
  <2>3. CASE Platform = "posix" /\ Goto(c, "move") /\ OpensPath(c)
    BY <1>16, <2>3 DEF OpenToRemove, OpensPath, Goto
  <2> QED
    BY <1>16, <2>1, <2>2, <2>3 DEF OpenToRemove, OpensPath
<1>17. ASSUME NEW c \in Caller, Mark(c) PROVE Reasons'
  <2>1. CASE Goto(c, "close_delete") /\ doomed' = doomed \cup {fd[c]}
             /\ UNCHANGED <<path, file, fd, why, kept, try, guard>>
    BY <1>17, <2>1 DEF Mark, Goto
  <2>2. CASE NotRemoved(c) /\ CloseHandle(fd[c], Deleters(fd[c]) \ {c})
    BY <1>17, <2>2 DEF Mark, CloseHandle, NotRemoved, Leave, Restart, Exit, Goto
  <2> QED
    BY <1>17, <2>1, <2>2 DEF Mark
<1>18. ASSUME NEW c \in Caller, CloseDelete(c) PROVE Reasons'
  BY <1>18 DEF CloseDelete, CloseHandle, Removed, Leave, Restart, Exit, Goto
<1>19. ASSUME NEW c \in Caller, Move(c) PROVE Reasons'
  BY <1>19 DEF Move, NotRemoved, Leave, Restart, Exit, Goto
<1>20. ASSUME NEW c \in Caller, Check(c) PROVE Reasons'
  <2>1. CASE Removed(c)
    BY <1>20, <2>1 DEF Check, Removed, Leave, Restart, Exit, Goto
  <2>2. CASE NotRemoved(c)
    BY <1>20, <2>2 DEF Check, NotRemoved, Leave, Restart, Exit, Goto
  <2>3. CASE Goto(c, "restore") /\ UNCHANGED <<file, fd, why, kept, try, guard>>
    BY <1>20, <2>3 DEF Check, Goto
  <2> QED
    BY <1>20, <2>1, <2>2, <2>3 DEF Check
<1>21. ASSUME NEW c \in Caller, Restore(c) PROVE Reasons'
  BY <1>21 DEF Restore, NotRemoved, Leave, Restart, Exit, Goto
<1>22. ASSUME NEW q \in Poller, PollOpen(q) \/ PollClose(q) PROVE Reasons'
  BY <1>22 DEF PollOpen, PollClose
<1>23. ASSUME NEW p \in Process, Kill(p) PROVE Reasons'
  BY <1>23 DEF Kill
<1>24. CASE UNCHANGED vars
  BY <1>24 DEF vars, fileVars
<1>25. QED
  BY <1>1, <1>2, <1>3, <1>4, <1>5, <1>6, <1>7, <1>8, <1>9, <1>10, <1>11, <1>12, <1>13, <1>14, <1>15,
     <1>16, <1>17, <1>18, <1>19, <1>20, <1>21, <1>22, <1>23, <1>24
     DEF Next, Inside, TryAcquire, Release, UnlinkIfContent

\* Each platform takes its own steps.
LEMMA PlatformStep ==
    ASSUME TypeOK, TypeOK', Handles, PlatformSteps, [Next]_vars
    PROVE  PlatformSteps'
<1> USE CallerAssumption, NoneAssumption, PlatformAssumption DEF TypeOK, Files, Why, fileVars,
        ReadPcs, WritePcs, DeletePcs, MovedPcs, PlatformSteps, CanDelete
<1>1. ASSUME NEW c \in Caller, Ask(c) PROVE PlatformSteps'
  BY <1>1 DEF Ask, Enter, Goto
<1>2. ASSUME NEW c \in Caller, Create(c) PROVE PlatformSteps'
  BY <1>2 DEF Create, CreateExclusive, Goto
<1>3. ASSUME NEW c \in Caller, CreateExists(c) PROVE PlatformSteps'
  BY <1>3 DEF CreateExists, Goto
<1>4. ASSUME NEW c \in Caller, CreateFails(c) PROVE PlatformSteps'
  BY <1>4 DEF CreateFails, Leave, Restart, Exit, Goto
<1>5. ASSUME NEW c \in Caller, OpenLock(c) PROVE PlatformSteps'
  BY <1>5 DEF OpenLock, OpenToRead, Leave, Restart, Exit, Goto
<1>6. ASSUME NEW c \in Caller, OpenPublished(c) PROVE PlatformSteps'
  BY <1>6 DEF OpenPublished, OpenToRead, Leave, Restart, Exit, Goto
<1>7. ASSUME NEW c \in Caller, OpenClaim(c) PROVE PlatformSteps'
  BY <1>7 DEF OpenClaim, OpenToRead, Leave, Restart, Exit, Goto
<1>8. ASSUME NEW c \in Caller, ReadLock(c) PROVE PlatformSteps'
  BY <1>8 DEF ReadLock, RemoveFor, Leave, Restart, Exit, Goto
<1>9. ASSUME NEW c \in Caller, ShortWrite(c) PROVE PlatformSteps'
  BY <1>9 DEF ShortWrite
<1>10. ASSUME NEW c \in Caller, Write(c) PROVE PlatformSteps'
  BY <1>10 DEF Write, Goto
<1>11. ASSUME NEW c \in Caller, Close(c) PROVE PlatformSteps'
  BY <1>11 DEF Close, Goto
<1>12. ASSUME NEW c \in Caller, WriteFails(c) PROVE PlatformSteps'
  BY <1>12 DEF WriteFails, RemoveFor, Goto
<1>13. ASSUME NEW c \in Caller, Verify(c) PROVE PlatformSteps'
  BY <1>13 DEF Verify, RemoveFor, Exit, Goto
<1>14. ASSUME NEW c \in Caller, Finish(c) PROVE PlatformSteps'
  BY <1>14 DEF Finish, Enter, Goto
<1>15. ASSUME NEW c \in Caller, ReadClaim(c) PROVE PlatformSteps'
  BY <1>15 DEF ReadClaim, RemoveFor, Leave, Restart, Exit, Goto
<1>16. ASSUME NEW c \in Caller, OpenToRemove(c) PROVE PlatformSteps'
  <2>1. CASE NotRemoved(c)
    BY <1>16, <2>1 DEF OpenToRemove, NotRemoved, Leave, Restart, Exit, Goto
  <2>2. CASE Platform = "nt" /\ Goto(c, "mark") /\ OpensPath(c)
    BY <1>16, <2>2 DEF OpenToRemove, OpensPath, Goto
  <2>3. CASE Platform = "posix" /\ Goto(c, "move") /\ OpensPath(c)
    BY <1>16, <2>3 DEF OpenToRemove, OpensPath, Goto
  <2> QED
    BY <1>16, <2>1, <2>2, <2>3 DEF OpenToRemove, OpensPath
<1>17. ASSUME NEW c \in Caller, Mark(c) PROVE PlatformSteps'
  <2>1. CASE Goto(c, "close_delete") /\ doomed' = doomed \cup {fd[c]}
             /\ UNCHANGED <<path, file, fd, why, kept, try, guard>>
    BY <1>17, <2>1 DEF Mark, Goto
  <2>2. CASE NotRemoved(c) /\ CloseHandle(fd[c], Deleters(fd[c]) \ {c})
    BY <1>17, <2>2 DEF Mark, CloseHandle, NotRemoved, Leave, Restart, Exit, Goto
  <2> QED
    BY <1>17, <2>1, <2>2 DEF Mark
<1>18. ASSUME NEW c \in Caller, CloseDelete(c) PROVE PlatformSteps'
  BY <1>18 DEF CloseDelete, CloseHandle, Removed, Leave, Restart, Exit, Goto
<1>19. ASSUME NEW c \in Caller, Move(c) PROVE PlatformSteps'
  BY <1>19 DEF Move, NotRemoved, Leave, Restart, Exit, Goto
<1>20. ASSUME NEW c \in Caller, Check(c) PROVE PlatformSteps'
  <2>1. CASE Removed(c)
    BY <1>20, <2>1 DEF Check, Removed, Leave, Restart, Exit, Goto
  <2>2. CASE NotRemoved(c)
    BY <1>20, <2>2 DEF Check, NotRemoved, Leave, Restart, Exit, Goto
  <2>3. CASE Goto(c, "restore") /\ UNCHANGED <<file, fd, why, kept, try, guard>>
    BY <1>20, <2>3 DEF Check, Goto
  <2> QED
    BY <1>20, <2>1, <2>2, <2>3 DEF Check
<1>21. ASSUME NEW c \in Caller, Restore(c) PROVE PlatformSteps'
  BY <1>21 DEF Restore, NotRemoved, Leave, Restart, Exit, Goto
<1>22. ASSUME NEW q \in Poller, PollOpen(q) \/ PollClose(q) PROVE PlatformSteps'
  BY <1>22 DEF PollOpen, PollClose
<1>23. ASSUME NEW p \in Process, Kill(p) PROVE PlatformSteps'
  BY <1>23 DEF Kill
<1>24. CASE UNCHANGED vars
  BY <1>24 DEF vars, fileVars
<1>25. QED
  BY <1>1, <1>2, <1>3, <1>4, <1>5, <1>6, <1>7, <1>8, <1>9, <1>10, <1>11, <1>12, <1>13, <1>14, <1>15,
     <1>16, <1>17, <1>18, <1>19, <1>20, <1>21, <1>22, <1>23, <1>24
     DEF Next, Inside, TryAcquire, Release, UnlinkIfContent

\* nt: handles exclude one another, and the name stays while one is open.
LEMMA SharingStep ==
    ASSUME TypeOK, TypeOK', Handles, PlatformSteps, Sharing, [Next]_vars
    PROVE  Sharing'
<1> USE CallerAssumption, NoneAssumption, PlatformAssumption DEF TypeOK, Files, Why, fileVars,
        ReadPcs, WritePcs, DeletePcs, MovedPcs, Sharing, Handles, PlatformSteps, CanRead, CanDelete,
        Readers, Writers, Deleters
<1>1. ASSUME NEW c \in Caller, Ask(c) PROVE Sharing'
  BY <1>1 DEF Ask, Enter, Goto
<1>2. ASSUME NEW c \in Caller, Create(c) PROVE Sharing'
  BY <1>2 DEF Create, CreateExclusive, Goto
<1>3. ASSUME NEW c \in Caller, CreateExists(c) PROVE Sharing'
  BY <1>3 DEF CreateExists, Goto
<1>4. ASSUME NEW c \in Caller, CreateFails(c) PROVE Sharing'
  BY <1>4 DEF CreateFails, Leave, Restart, Exit, Goto
<1>5. ASSUME NEW c \in Caller, OpenLock(c) PROVE Sharing'
  <2>1. CASE path # None /\ CanRead(path) /\ Goto(c, "read_lock") /\ fd' = [fd EXCEPT ![c] = path]
             /\ UNCHANGED <<file, why, kept, try, guard>>
    <3>1. Platform = "nt" => path \notin doomed /\ \A d \in Caller : pc[d] \notin DeletePcs
      BY <2>1
    <3>2. Platform = "nt" => \A d \in Caller : pc'[d] \notin DeletePcs
      BY <2>1, <3>1 DEF Goto
    <3>3. Platform = "nt" => \A d \in Caller : pc'[d] \in ReadPcs => fd'[d] = path
      BY <2>1 DEF Goto
    <3>4. Platform = "nt" => Deleters(path)' = {}
      BY <2>1, <3>2
    <3>5. pc[c] \notin DeletePcs /\ path' = path /\ doomed' = doomed
      BY <1>5 DEF OpenLock, OpenToRead
    <3> HIDE DEF Deleters, Readers, Writers
    <3> QED
      BY <2>1, <3>1, <3>2, <3>3, <3>4, <3>5
  <2>2. CASE Leave(c)
    BY <1>5, <2>2 DEF OpenLock, OpenToRead, Leave, Restart, Exit, Goto
  <2> QED
    BY <1>5, <2>1, <2>2 DEF OpenLock, OpenToRead
<1>6. ASSUME NEW c \in Caller, OpenPublished(c) PROVE Sharing'
  <2>1. CASE path # None /\ CanRead(path) /\ Goto(c, "verify_read") /\ fd' = [fd EXCEPT ![c] = path]
             /\ UNCHANGED <<file, why, kept, try, guard>>
    <3>1. Platform = "nt" => path \notin doomed /\ \A d \in Caller : pc[d] \notin DeletePcs
      BY <2>1
    <3>2. Platform = "nt" => \A d \in Caller : pc'[d] \notin DeletePcs
      BY <2>1, <3>1 DEF Goto
    <3>3. Platform = "nt" => \A d \in Caller : pc'[d] \in ReadPcs => fd'[d] = path
      BY <2>1 DEF Goto
    <3>4. Platform = "nt" => Deleters(path)' = {}
      BY <2>1, <3>2
    <3>5. pc[c] \notin DeletePcs /\ path' = path /\ doomed' = doomed
      BY <1>6 DEF OpenPublished, OpenToRead
    <3> HIDE DEF Deleters, Readers, Writers
    <3> QED
      BY <2>1, <3>1, <3>2, <3>3, <3>4, <3>5
  <2>2. CASE Leave(c)
    BY <1>6, <2>2 DEF OpenPublished, OpenToRead, Leave, Restart, Exit, Goto
  <2> QED
    BY <1>6, <2>1, <2>2 DEF OpenPublished, OpenToRead
<1>7. ASSUME NEW c \in Caller, OpenClaim(c) PROVE Sharing'
  <2>1. CASE path # None /\ CanRead(path) /\ Goto(c, "release_read") /\ fd' = [fd EXCEPT ![c] = path]
             /\ UNCHANGED <<file, why, kept, try, guard>>
    <3>1. Platform = "nt" => path \notin doomed /\ \A d \in Caller : pc[d] \notin DeletePcs
      BY <2>1
    <3>2. Platform = "nt" => \A d \in Caller : pc'[d] \notin DeletePcs
      BY <2>1, <3>1 DEF Goto
    <3>3. Platform = "nt" => \A d \in Caller : pc'[d] \in ReadPcs => fd'[d] = path
      BY <2>1 DEF Goto
    <3>4. Platform = "nt" => Deleters(path)' = {}
      BY <2>1, <3>2
    <3>5. pc[c] \notin DeletePcs /\ path' = path /\ doomed' = doomed
      BY <1>7 DEF OpenClaim, OpenToRead
    <3> HIDE DEF Deleters, Readers, Writers
    <3> QED
      BY <2>1, <3>1, <3>2, <3>3, <3>4, <3>5
  <2>2. CASE Leave(c)
    BY <1>7, <2>2 DEF OpenClaim, OpenToRead, Leave, Restart, Exit, Goto
  <2> QED
    BY <1>7, <2>1, <2>2 DEF OpenClaim, OpenToRead
<1>8. ASSUME NEW c \in Caller, ReadLock(c) PROVE Sharing'
  BY <1>8 DEF ReadLock, RemoveFor, Leave, Restart, Exit, Goto
<1>9. ASSUME NEW c \in Caller, ShortWrite(c) PROVE Sharing'
  BY <1>9 DEF ShortWrite
<1>10. ASSUME NEW c \in Caller, Write(c) PROVE Sharing'
  BY <1>10 DEF Write, Goto
<1>11. ASSUME NEW c \in Caller, Close(c) PROVE Sharing'
  BY <1>11 DEF Close, Goto
<1>12. ASSUME NEW c \in Caller, WriteFails(c) PROVE Sharing'
  BY <1>12 DEF WriteFails, RemoveFor, Goto
<1>13. ASSUME NEW c \in Caller, Verify(c) PROVE Sharing'
  BY <1>13 DEF Verify, RemoveFor, Exit, Goto
<1>14. ASSUME NEW c \in Caller, Finish(c) PROVE Sharing'
  BY <1>14 DEF Finish, Enter, Goto
<1>15. ASSUME NEW c \in Caller, ReadClaim(c) PROVE Sharing'
  BY <1>15 DEF ReadClaim, RemoveFor, Leave, Restart, Exit, Goto
<1>16. ASSUME NEW c \in Caller, OpenToRemove(c) PROVE Sharing'
  <2>1. CASE NotRemoved(c)
    BY <1>16, <2>1 DEF OpenToRemove, NotRemoved, Leave, Restart, Exit, Goto
  <2>2. CASE Platform = "nt" /\ Goto(c, "mark") /\ OpensPath(c)
    <3>1. path \in File \ doomed /\ \A d \in Caller : pc[d] \notin ReadPcs
      BY <2>2 DEF OpensPath
    <3>2. \A d \in Caller : pc'[d] \notin ReadPcs
      BY <2>2, <3>1 DEF Goto
    <3>3. path' = path /\ doomed' = doomed
      BY <1>16 DEF OpenToRemove
    <3>4. Writers(path)' = {}
      BY <2>2, <3>3 DEF OpensPath, Goto
    <3>5. \A d \in Caller : pc'[d] \in DeletePcs => fd'[d] = path
      BY <2>2 DEF OpensPath, Goto
    <3> HIDE DEF Deleters, Readers, Writers
    <3> QED
      BY <2>2, <3>1, <3>2, <3>3, <3>4, <3>5
  <2>3. CASE Platform = "posix" /\ Goto(c, "move") /\ OpensPath(c)
    BY <1>16, <2>3 DEF OpenToRemove, OpensPath, Goto
  <2> QED
    BY <1>16, <2>1, <2>2, <2>3 DEF OpenToRemove, OpensPath
<1>17. ASSUME NEW c \in Caller, Mark(c) PROVE Sharing'
  <2>1. CASE Goto(c, "close_delete") /\ doomed' = doomed \cup {fd[c]}
             /\ UNCHANGED <<path, file, fd, why, kept, try, guard>>
    BY <1>17, <2>1 DEF Mark, Goto
  <2>2. CASE NotRemoved(c) /\ CloseHandle(fd[c], Deleters(fd[c]) \ {c})
    BY <1>17, <2>2 DEF Mark, CloseHandle, NotRemoved, Leave, Restart, Exit, Goto
  <2> QED
    BY <1>17, <2>1, <2>2 DEF Mark
<1>18. ASSUME NEW c \in Caller, CloseDelete(c) PROVE Sharing'
  BY <1>18 DEF CloseDelete, CloseHandle, Removed, Leave, Restart, Exit, Goto
<1>19. ASSUME NEW c \in Caller, Move(c) PROVE Sharing'
  BY <1>19 DEF Move, NotRemoved, Leave, Restart, Exit, Goto
<1>20. ASSUME NEW c \in Caller, Check(c) PROVE Sharing'
  <2>1. CASE Removed(c)
    BY <1>20, <2>1 DEF Check, Removed, Leave, Restart, Exit, Goto
  <2>2. CASE NotRemoved(c)
    BY <1>20, <2>2 DEF Check, NotRemoved, Leave, Restart, Exit, Goto
  <2>3. CASE Goto(c, "restore") /\ UNCHANGED <<file, fd, why, kept, try, guard>>
    BY <1>20, <2>3 DEF Check, Goto
  <2> QED
    BY <1>20, <2>1, <2>2, <2>3 DEF Check
<1>21. ASSUME NEW c \in Caller, Restore(c) PROVE Sharing'
  BY <1>21 DEF Restore, NotRemoved, Leave, Restart, Exit, Goto
<1>22. ASSUME NEW q \in Poller, PollOpen(q) \/ PollClose(q) PROVE Sharing'
  BY <1>22 DEF PollOpen, PollClose
<1>23. ASSUME NEW p \in Process, Kill(p) PROVE Sharing'
  BY <1>23 DEF Kill
<1>24. CASE UNCHANGED vars
  BY <1>24 DEF vars, fileVars
<1>25. QED
  BY <1>1, <1>2, <1>3, <1>4, <1>5, <1>6, <1>7, <1>8, <1>9, <1>10, <1>11, <1>12, <1>13, <1>14, <1>15,
     <1>16, <1>17, <1>18, <1>19, <1>20, <1>21, <1>22, <1>23, <1>24
     DEF Next, Inside, TryAcquire, Release, UnlinkIfContent

\* The bytes a caller wants removed are never those of a publication that was
\* read back: a malformed lock is not whole, a stale one is not of a live
\* caller, and a caller withdraws and releases only what it made.
LEMMA NotAnothersClaim ==
    ASSUME TypeOK, LiveCalls, OwnFiles, Reasons,
           NEW c \in Caller, Removing(c), pc[c] # "remove", NEW d \in Caller, Secured(d),
           text[file[d]] = "full", TRUE \in Matches(c, file[d])
    PROVE  FALSE
<1>1. c # d
  BY DEF Secured, Claimed, Holds, Removing, DeletePcs, MovedPcs, ReadPcs
<1>2. file[d] \in File /\ maker[file[d]] = d /\ Alive(d)
  BY DEF OwnFiles, LiveCalls, Secured, Claimed, Holds, Publishing, Removing
<1>3. file[d] = file[c]
  BY DEF Matches
<1>4. why[c] \in {"empty", "partial", "stale", "cleanup", "release"}
  BY DEF TypeOK, Why, Reasons
<1>5. CASE why[c] \in {"empty", "partial"}
  BY <1>3, <1>5 DEF Matches, Expected
<1>6. CASE why[c] = "stale"
  BY <1>2, <1>3, <1>6 DEF Reasons
<1>7. CASE why[c] \in {"cleanup", "release"}
  BY <1>1, <1>2, <1>3, <1>7 DEF OwnFiles
<1> QED
  BY <1>4, <1>5, <1>6, <1>7

\* nt: nobody but its holder removes the file of a claim.
LEMMA NamedStep ==
    ASSUME TypeOK, TypeOK', Handles, LiveCalls, OwnFiles, Reasons, PlatformSteps, Sharing,
           ClaimIsNamedOnWindows, [Next]_vars
    PROVE  ClaimIsNamedOnWindows'
<1> USE CallerAssumption, NoneAssumption, PlatformAssumption DEF TypeOK, Files, Why, fileVars,
        ReadPcs, WritePcs, DeletePcs, MovedPcs, ClaimIsNamedOnWindows, ClaimIsNamed, Claimed, Holds,
        Handles, LiveCalls, OwnFiles, Publishing, Removing, Reasons, PlatformSteps, Sharing
<1>1. ASSUME NEW c \in Caller, Ask(c) PROVE ClaimIsNamedOnWindows'
  BY <1>1 DEF Ask, Enter, Goto
<1>2. ASSUME NEW c \in Caller, Create(c) PROVE ClaimIsNamedOnWindows'
  BY <1>2 DEF Create, CreateExclusive, Goto
<1>3. ASSUME NEW c \in Caller, CreateExists(c) PROVE ClaimIsNamedOnWindows'
  BY <1>3 DEF CreateExists, Goto
<1>4. ASSUME NEW c \in Caller, CreateFails(c) PROVE ClaimIsNamedOnWindows'
  BY <1>4 DEF CreateFails, Leave, Restart, Exit, Goto
<1>5. ASSUME NEW c \in Caller, OpenLock(c) PROVE ClaimIsNamedOnWindows'
  BY <1>5 DEF OpenLock, OpenToRead, Leave, Restart, Exit, Goto
<1>6. ASSUME NEW c \in Caller, OpenPublished(c) PROVE ClaimIsNamedOnWindows'
  BY <1>6 DEF OpenPublished, OpenToRead, Leave, Restart, Exit, Goto
<1>7. ASSUME NEW c \in Caller, OpenClaim(c) PROVE ClaimIsNamedOnWindows'
  BY <1>7 DEF OpenClaim, OpenToRead, Leave, Restart, Exit, Goto
<1>8. ASSUME NEW c \in Caller, ReadLock(c) PROVE ClaimIsNamedOnWindows'
  <2>1. text[fd[c]] \in Text
    BY <1>8 DEF ReadLock
  <2>2. ASSUME NEW reason \in Why, reason # "release", RemoveFor(c, fd[c], reason) PROVE ClaimIsNamedOnWindows'
    BY <1>8, <2>2 DEF ReadLock, RemoveFor, Goto
  <2>3. CASE Leave(c)
    BY <1>8, <2>3 DEF ReadLock, Leave, Restart, Exit, Goto
  <2> QED
    BY <1>8, <2>1, <2>2, <2>3 DEF ReadLock, Text
<1>9. ASSUME NEW c \in Caller, ShortWrite(c) PROVE ClaimIsNamedOnWindows'
  BY <1>9 DEF ShortWrite
<1>10. ASSUME NEW c \in Caller, Write(c) PROVE ClaimIsNamedOnWindows'
  BY <1>10 DEF Write, Goto
<1>11. ASSUME NEW c \in Caller, Close(c) PROVE ClaimIsNamedOnWindows'
  BY <1>11 DEF Close, Goto
<1>12. ASSUME NEW c \in Caller, WriteFails(c) PROVE ClaimIsNamedOnWindows'
  BY <1>12 DEF WriteFails, RemoveFor, Goto
<1>13. ASSUME NEW c \in Caller, Verify(c) PROVE ClaimIsNamedOnWindows'
  <2>1. CASE IsOwn(c) /\ Goto(c, "hold") /\ Exit(c)
    BY <1>13, <2>1 DEF Verify, IsOwn, Exit, Goto
  <2>2. CASE RemoveFor(c, file[c], "cleanup")
    BY <1>13, <2>2 DEF Verify, RemoveFor, Goto
  <2> QED
    BY <1>13, <2>1, <2>2 DEF Verify
<1>14. ASSUME NEW c \in Caller, Finish(c) PROVE ClaimIsNamedOnWindows'
  BY <1>14 DEF Finish, Enter, Goto
<1>15. ASSUME NEW c \in Caller, ReadClaim(c) PROVE ClaimIsNamedOnWindows'
  BY <1>15 DEF ReadClaim, RemoveFor, Leave, Restart, Exit, Goto
<1>16. ASSUME NEW c \in Caller, OpenToRemove(c) PROVE ClaimIsNamedOnWindows'
  <2>1. CASE NotRemoved(c)
    BY <1>16, <2>1 DEF OpenToRemove, NotRemoved, Leave, Restart, Exit, Goto
  <2>2. CASE Platform = "nt" /\ Goto(c, "mark") /\ OpensPath(c)
    BY <1>16, <2>2 DEF OpenToRemove, OpensPath, Goto
  <2>3. CASE Platform = "posix" /\ Goto(c, "move") /\ OpensPath(c)
    BY <1>16, <2>3 DEF OpenToRemove, OpensPath, Goto
  <2> QED
    BY <1>16, <2>1, <2>2, <2>3 DEF OpenToRemove, OpensPath
<1>17. ASSUME NEW c \in Caller, Mark(c) PROVE ClaimIsNamedOnWindows'
  <2>1. ASSUME NEW d \in Caller, Claimed(d), Platform = "nt", TRUE \in Matches(c, fd[c]) PROVE fd[c] # file[d]
    <3>1. SUFFICES ASSUME fd[c] = file[d] PROVE FALSE
      OBVIOUS
    <3>2. text[file[d]] = "full"
      BY <2>1
    <3>3. Removing(c) /\ pc[c] # "remove"
      BY <1>17 DEF Mark
    <3> QED
      BY <2>1, <3>1, <3>2, <3>3, NotAnothersClaim DEF Secured
  <2>2. CASE Goto(c, "close_delete") /\ doomed' = doomed \cup {fd[c]} /\ TRUE \in Matches(c, fd[c])
             /\ UNCHANGED <<path, file, fd, why, kept, try, guard>>
    <3>1. \A d \in Caller : Claimed(d)' => Claimed(d)
      BY <1>17, <2>2 DEF Mark, Goto
    <3>2. text' = text
      BY <1>17 DEF Mark
    <3>3. ASSUME Platform = "nt", NEW d \in Caller, Claimed(d)'
          PROVE  path' = file'[d] /\ text'[path'] = "full" /\ path' \notin doomed'
      <4>1. Claimed(d) /\ path = file[d] /\ text[path] = "full" /\ path \notin doomed
        BY <3>1, <3>3
      <4>2. fd[c] # file[d]
        BY <2>1, <2>2, <3>3, <4>1
      <4> QED
        BY <2>2, <3>2, <4>1, <4>2
    <3> HIDE DEF Claimed
    <3> QED
      BY <3>3
  <2>3. CASE NotRemoved(c) /\ CloseHandle(fd[c], Deleters(fd[c]) \ {c})
    BY <1>17, <2>3 DEF Mark, CloseHandle, NotRemoved, Leave, Restart, Exit, Goto
  <2> QED
    BY <1>17, <2>2, <2>3 DEF Mark
<1>18. ASSUME NEW c \in Caller, CloseDelete(c) PROVE ClaimIsNamedOnWindows'
  BY <1>18 DEF CloseDelete, CloseHandle, Removed, Leave, Restart, Exit, Goto
<1>19. ASSUME NEW c \in Caller, Move(c) PROVE ClaimIsNamedOnWindows'
  BY <1>19 DEF Move, NotRemoved, Leave, Restart, Exit, Goto
<1>20. ASSUME NEW c \in Caller, Check(c) PROVE ClaimIsNamedOnWindows'
  <2>1. CASE Removed(c)
    BY <1>20, <2>1 DEF Check, Removed, Leave, Restart, Exit, Goto
  <2>2. CASE NotRemoved(c)
    BY <1>20, <2>2 DEF Check, NotRemoved, Leave, Restart, Exit, Goto
  <2>3. CASE Goto(c, "restore") /\ UNCHANGED <<file, fd, why, kept, try, guard>>
    BY <1>20, <2>3 DEF Check, Goto
  <2> QED
    BY <1>20, <2>1, <2>2, <2>3 DEF Check
<1>21. ASSUME NEW c \in Caller, Restore(c) PROVE ClaimIsNamedOnWindows'
  BY <1>21 DEF Restore, NotRemoved, Leave, Restart, Exit, Goto
<1>22. ASSUME NEW q \in Poller, PollOpen(q) \/ PollClose(q) PROVE ClaimIsNamedOnWindows'
  BY <1>22 DEF PollOpen, PollClose
<1>23. ASSUME NEW p \in Process, Kill(p) PROVE ClaimIsNamedOnWindows'
  BY <1>23 DEF Kill
<1>24. CASE UNCHANGED vars
  BY <1>24 DEF vars, fileVars
<1>25. QED
  BY <1>1, <1>2, <1>3, <1>4, <1>5, <1>6, <1>7, <1>8, <1>9, <1>10, <1>11, <1>12, <1>13, <1>14, <1>15,
     <1>16, <1>17, <1>18, <1>19, <1>20, <1>21, <1>22, <1>23, <1>24
     DEF Next, Inside, TryAcquire, Release, UnlinkIfContent

\* posix: the moved file that Check deletes is not one that was read back.
LEMMA CheckSecured ==
    ASSUME Platform = "posix", TypeOK, TypeOK', LiveCalls, OwnFiles, Reasons, SecuredExist,
           NEW c \in Caller, Check(c)
    PROVE  SecuredExist'
<1>1. ASSUME NEW d \in Caller, Secured(d), TRUE \in Matches(c, fd[c])
      PROVE  fd[c] # file[d]
  <2>1. Removing(c) /\ pc[c] # "remove"
    BY DEF Check, Removing, MovedPcs
  <2>2. text[file[d]] = "full"
    BY <1>1 DEF SecuredExist
  <2>3. SUFFICES ASSUME fd[c] = file[d] PROVE FALSE
    OBVIOUS
  <2>4. TRUE \in Matches(c, file[d])
    BY <1>1, <2>3
  <2> QED
    BY <1>1, <2>1, <2>2, <2>4, NotAnothersClaim
<1>2. pc[c] = "check" /\ pc'[c] \in {"idle", "create", "restore"}
  BY DEF Check, Removed, NotRemoved, Leave, Restart, Goto, TypeOK
<1>3. \A d \in Caller \ {c} : /\ pc'[d] = pc[d] /\ file'[d] = file[d] /\ fd'[d] = fd[d]
                              /\ why'[d] = why[d] /\ kept'[d] = kept[d]
  BY DEF Check, Removed, NotRemoved, Leave, Restart, Goto, TypeOK
<1>4. text' = text /\ path' = path /\ retained' = retained
  BY DEF Check, fileVars
<1>5. \/ kept[c] = fd[c] /\ TRUE \in Matches(c, fd[c])
      \/ pc'[c] = "restore" /\ kept' = kept
  BY DEF Check, Goto, TypeOK
<1>6. ASSUME NEW d \in Caller, Secured(d)'
      PROVE  text'[file'[d]] = "full" /\ Exists(file[d])' /\ file'[d] = file[d]
  <2>1. d # c
    BY <1>2, <1>6 DEF Secured, Claimed, Holds
  <2>2. Secured(d) /\ file'[d] = file[d]
    BY <1>3, <1>4, <1>6, <2>1 DEF Secured, Claimed, Holds, IsOwn
  <2>3. text[file[d]] = "full" /\ Exists(file[d])
    BY <2>2 DEF SecuredExist
  <2>4. ASSUME NEW e \in Caller, pc[e] \in MovedPcs, kept[e] = file[d]
        PROVE  pc'[e] \in MovedPcs /\ kept'[e] = file[d]
    <3>1. CASE e # c
      BY <1>3, <2>4, <3>1
    <3>2. CASE e = c
      BY <1>1, <1>5, <2>2, <2>4, <3>2 DEF MovedPcs
    <3> QED
      BY <3>1, <3>2
  <2>5. Exists(file[d])'
    BY <1>4, <2>2, <2>3, <2>4 DEF Exists
  <2> QED
    BY <1>4, <2>2, <2>3, <2>5
<1> QED
  BY <1>6 DEF SecuredExist

\* posix: nobody but its holder deletes the file of a claim.
LEMMA SecuredStep ==
    ASSUME Platform = "posix", TypeOK, TypeOK', Handles, LiveCalls, OwnFiles, OwnFiles', Reasons,
           PlatformSteps, PlatformSteps', SecuredExist, [Next]_vars
    PROVE  SecuredExist'
<1>0. ASSUME NEW c \in Caller, Check(c) PROVE SecuredExist'
  BY <1>0, CheckSecured
<1> USE CallerAssumption, NoneAssumption, PlatformAssumption DEF TypeOK, Files, Why, fileVars,
        ReadPcs, WritePcs, DeletePcs, MovedPcs, SecuredExist, Secured, IsOwn, Exists, Claimed,
        Holds, Handles, LiveCalls, OwnFiles, Publishing, Removing, Reasons, PlatformSteps, Fresh
<1>1. ASSUME NEW c \in Caller, Ask(c) PROVE SecuredExist'
  BY <1>1 DEF Ask, Enter, Goto
<1>2. ASSUME NEW c \in Caller, Create(c) PROVE SecuredExist'
  BY <1>2 DEF Create, CreateExclusive, Goto
<1>3. ASSUME NEW c \in Caller, CreateExists(c) PROVE SecuredExist'
  BY <1>3 DEF CreateExists, Goto
<1>4. ASSUME NEW c \in Caller, CreateFails(c) PROVE SecuredExist'
  BY <1>4 DEF CreateFails, Leave, Restart, Exit, Goto
<1>5. ASSUME NEW c \in Caller, OpenLock(c) PROVE SecuredExist'
  BY <1>5 DEF OpenLock, OpenToRead, Leave, Restart, Exit, Goto
<1>6. ASSUME NEW c \in Caller, OpenPublished(c) PROVE SecuredExist'
  BY <1>6 DEF OpenPublished, OpenToRead, Leave, Restart, Exit, Goto
<1>7. ASSUME NEW c \in Caller, OpenClaim(c) PROVE SecuredExist'
  BY <1>7 DEF OpenClaim, OpenToRead, Leave, Restart, Exit, Goto
<1>8. ASSUME NEW c \in Caller, ReadLock(c) PROVE SecuredExist'
  <2>1. text[fd[c]] \in Text
    BY <1>8 DEF ReadLock
  <2>2. ASSUME NEW reason \in Why, reason # "release", RemoveFor(c, fd[c], reason) PROVE SecuredExist'
    BY <1>8, <2>2 DEF ReadLock, RemoveFor, Goto
  <2>3. CASE Leave(c)
    BY <1>8, <2>3 DEF ReadLock, Leave, Restart, Exit, Goto
  <2> QED
    BY <1>8, <2>1, <2>2, <2>3 DEF ReadLock, Text
<1>9. ASSUME NEW c \in Caller, ShortWrite(c) PROVE SecuredExist'
  BY <1>9 DEF ShortWrite
<1>10. ASSUME NEW c \in Caller, Write(c) PROVE SecuredExist'
  BY <1>10 DEF Write, Goto
<1>11. ASSUME NEW c \in Caller, Close(c) PROVE SecuredExist'
  BY <1>11 DEF Close, Goto
<1>12. ASSUME NEW c \in Caller, WriteFails(c) PROVE SecuredExist'
  BY <1>12 DEF WriteFails, RemoveFor, Goto
<1>13. ASSUME NEW c \in Caller, Verify(c) PROVE SecuredExist'
  BY <1>13 DEF Verify, RemoveFor, Exit, Goto
<1>14. ASSUME NEW c \in Caller, Finish(c) PROVE SecuredExist'
  BY <1>14 DEF Finish, Enter, Goto
<1>15. ASSUME NEW c \in Caller, ReadClaim(c) PROVE SecuredExist'
  BY <1>15 DEF ReadClaim, RemoveFor, Leave, Restart, Exit, Goto
<1>16. ASSUME NEW c \in Caller, OpenToRemove(c) PROVE SecuredExist'
  <2>1. CASE NotRemoved(c)
    BY <1>16, <2>1 DEF OpenToRemove, NotRemoved, Leave, Restart, Exit, Goto
  <2>2. CASE Platform = "nt" /\ Goto(c, "mark") /\ OpensPath(c)
    BY <1>16, <2>2 DEF OpenToRemove, OpensPath, Goto
  <2>3. CASE Platform = "posix" /\ Goto(c, "move") /\ OpensPath(c)
    BY <1>16, <2>3 DEF OpenToRemove, OpensPath, Goto
  <2> QED
    BY <1>16, <2>1, <2>2, <2>3 DEF OpenToRemove, OpensPath
<1>17. ASSUME NEW c \in Caller, Mark(c) PROVE SecuredExist'
  BY <1>17 DEF Mark
<1>18. ASSUME NEW c \in Caller, CloseDelete(c) PROVE SecuredExist'
  BY <1>18 DEF CloseDelete
<1>19. ASSUME NEW c \in Caller, Move(c) PROVE SecuredExist'
  BY <1>19 DEF Move, NotRemoved, Leave, Restart, Exit, Goto
<1>20. ASSUME NEW c \in Caller, Check(c) PROVE SecuredExist'
  BY <1>20, <1>0
<1>21. ASSUME NEW c \in Caller, Restore(c) PROVE SecuredExist'
  BY <1>21 DEF Restore, NotRemoved, Leave, Restart, Exit, Goto
<1>22. ASSUME NEW q \in Poller, PollOpen(q) \/ PollClose(q) PROVE SecuredExist'
  BY <1>22 DEF PollOpen, PollClose
<1>23. ASSUME NEW p \in Process, Kill(p) PROVE SecuredExist'
  BY <1>23 DEF Kill
<1>24. CASE UNCHANGED vars
  BY <1>24 DEF vars, fileVars
<1>25. QED
  BY <1>1, <1>2, <1>3, <1>4, <1>5, <1>6, <1>7, <1>8, <1>9, <1>10, <1>11, <1>12, <1>13, <1>14, <1>15,
     <1>16, <1>17, <1>18, <1>19, <1>20, <1>21, <1>22, <1>23, <1>24
     DEF Next, Inside, TryAcquire, Release, UnlinkIfContent

-----------------------------------------------------------------------------
\* Nothing is open and nobody calls.
LEMMA InitInv == ASSUME Init PROVE ArbiterInv
<1> USE CallerAssumption, BoundAssumption, NoneAssumption DEF Init
<1>1. TypeOK
  BY DEF TypeOK, Files, Text, Pcs, Why
<1>2. Handles /\ LiveCalls /\ OwnFiles /\ Reasons
  BY DEF Handles, LiveCalls, OwnFiles, Publishing, Holds, Removing, Reasons,
         ReadPcs, WritePcs, DeletePcs, MovedPcs
<1>3. PlatformSteps /\ Sharing
  BY DEF PlatformSteps, Sharing, ReadPcs, DeletePcs, MovedPcs
<1>4. ClaimIsNamedOnWindows /\ SecuredExist
  BY DEF ClaimIsNamedOnWindows, ClaimIsNamed, SecuredExist, Secured, Claimed, Holds
<1> QED
  BY <1>1, <1>2, <1>3, <1>4 DEF ArbiterInv

\* The conjuncts are preserved together.
LEMMA StepInv == ASSUME ArbiterInv, [Next]_vars PROVE ArbiterInv'
<1> USE DEF ArbiterInv
<1>1. TypeOK' /\ Handles'
  BY TypeStep
<1>2. LiveCalls' /\ OwnFiles' /\ Reasons'
  BY <1>1, LiveStep, OwnStep, ReasonStep
<1>3. PlatformSteps' /\ Sharing'
  BY <1>1, PlatformStep, SharingStep
<1>4. ClaimIsNamedOnWindows'
  BY <1>1, NamedStep
<1>5. CASE Platform = "posix"
  <2>1. SecuredExist'
    BY <1>1, <1>2, <1>3, <1>5, SecuredStep
  <2> QED
    BY <1>1, <1>2, <1>3, <1>4, <2>1
<1>6. CASE Platform = "nt"
  BY <1>1, <1>2, <1>3, <1>4, <1>6 DEF SecuredExist
<1> QED
  BY <1>5, <1>6, PlatformAssumption

\* The inductive invariant of the arbiter (operation_arbiter.py 194-355) holds
\* for any number of callers, servers, pollers, files and kills.
THEOREM ArbiterInvariant == Spec => []ArbiterInv
<1>1. Init => ArbiterInv
  BY InitInv
<1>2. ArbiterInv /\ [Next]_vars => ArbiterInv'
  BY StepInv
<1> QED
  BY <1>1, <1>2, PTL DEF Spec

\* On nt the file of a claim stays in place (operation_arbiter.py 246-260).
THEOREM WindowsClaimIsNamed ==
    ASSUME Platform = "nt" PROVE Spec => []ClaimIsNamed
<1>1. ArbiterInv => ClaimIsNamed
  BY DEF ArbiterInv, ClaimIsNamedOnWindows
<1> QED
  BY <1>1, ArbiterInvariant, PTL

\* On nt the arbiter is a mutex (operation_arbiter.py 73): two claims would name
\* one file with two makers.
THEOREM WindowsMutualExclusion ==
    ASSUME Platform = "nt" PROVE Spec => []MutualExclusion
<1>1. ArbiterInv => MutualExclusion
  <2> SUFFICES ASSUME ArbiterInv, NEW c \in Caller, NEW d \in Caller, pc[c] = "hold", pc[d] = "hold"
               PROVE  c = d
    BY DEF MutualExclusion
  <2>1. path = file[c] /\ path = file[d]
    BY DEF ArbiterInv, ClaimIsNamedOnWindows, ClaimIsNamed, Claimed, Holds
  <2>2. maker[file[c]] = c /\ maker[file[d]] = d
    BY DEF ArbiterInv, OwnFiles, Holds
  <2> QED
    BY <2>1, <2>2
<1> QED
  BY <1>1, ArbiterInvariant, PTL

\* On nt a lock is removed as malformed only when nobody is writing it
\* (operation_arbiter.py 227-232): removal and writing do not share the file.
THEOREM WindowsMalformedIsAbandoned ==
    ASSUME Platform = "nt" PROVE Spec => []MalformedIsAbandoned
<1>1. ArbiterInv => MalformedIsAbandoned
  <2> SUFFICES ASSUME ArbiterInv, NEW c \in Caller, NEW d \in Caller,
                      pc[c] \in {"close_delete", "check"}, pc[d] \in WritePcs
               PROVE  file[d] # fd[c]
    BY DEF MalformedIsAbandoned
  <2>1. pc[c] = "close_delete"
    BY DEF ArbiterInv, PlatformSteps, MovedPcs
  <2>2. fd[c] = path /\ Writers(path) = {}
    BY <2>1 DEF ArbiterInv, Sharing, DeletePcs
  <2> QED
    BY <2>2 DEF Writers
<1> QED
  BY <1>1, ArbiterInvariant, PTL

\* On both platforms the file of a claim is never deleted by others
\* (io.py 387-391): on posix it may only have been moved.
THEOREM ClaimsSurvive == Spec => []ClaimSurvives
<1>1. ArbiterInv => ClaimSurvives
  <2>1. CASE Platform = "nt"
    BY <2>1 DEF ArbiterInv, ClaimIsNamedOnWindows, ClaimIsNamed, ClaimSurvives, Exists
  <2>2. CASE Platform = "posix"
    BY <2>2 DEF ArbiterInv, SecuredExist, Secured, PlatformSteps, ClaimSurvives
  <2> QED
    BY <2>1, <2>2, PlatformAssumption
<1> QED
  BY <1>1, ArbiterInvariant, PTL
=============================================================================
