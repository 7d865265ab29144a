--------------------------- MODULE IpcServerProofs ---------------------------
(***************************************************************************)
(* Proofs about IpcServer for every number of restarts, clients and sends. *)
(* The argument for OneServing is ownership of the io thread: STATE.handle *)
(* names the only thread that may serve, except while a control call has   *)
(* taken it out to join it, or has spawned it and not stored it yet.       *)
(***************************************************************************)
EXTENDS IpcServer, TLAPS

USE IpcAssumption
USE DEF Gens, Conns, None, statics, state, control, stream, conn, writers, sender

(* Every reachable state of the server is well typed.                      *)
LEMMA TypeNext == TypeOK /\ [Next]_vars => TypeOK'
<1>. SUFFICES ASSUME TypeOK, [Next]_vars PROVE TypeOK'
  OBVIOUS
<1>. USE DEF TypeOK, TypeStatics, TypeControl, TypeIo, TypeConn, TypeWriters,
             TypeSender, IoSteps, CtlSteps
<1>1. CASE RestartCall
  BY <1>1 DEF RestartCall
<1>2. CASE RestartFd
  BY <1>2 DEF RestartFd, shutdown_old_fd
<1>3. CASE RestartFlags
  BY <1>3 DEF RestartFlags
<1>4. CASE RestartTake
  BY <1>4 DEF RestartTake
<1>5. CASE RestartJoin
  BY <1>5 DEF RestartJoin
<1>6. CASE RestartSpawn
  <2>1. TypeStatics'
    BY <1>6 DEF RestartSpawn, Go
  <2>2. TypeControl'
    BY <1>6 DEF RestartSpawn, Go
  <2>3. TypeIo'
    BY <1>6 DEF RestartSpawn, Go
  <2>4. TypeConn'
    BY <1>6 DEF RestartSpawn, Go
  <2>5. TypeWriters'
    BY <1>6 DEF RestartSpawn, Go
  <2>6. TypeSender'
    BY <1>6 DEF RestartSpawn, Go
  <2>. QED
    BY <2>1, <2>2, <2>3, <2>4, <2>5, <2>6
<1>7. CASE RestartSpawnFails
  <2>1. TypeStatics'
    BY <1>7 DEF RestartSpawnFails
  <2>2. TypeControl'
    BY <1>7 DEF RestartSpawnFails
  <2>3. TypeIo'
    BY <1>7 DEF RestartSpawnFails
  <2>4. TypeConn'
    BY <1>7 DEF RestartSpawnFails
  <2>5. TypeWriters'
    BY <1>7 DEF RestartSpawnFails
  <2>6. TypeSender'
    BY <1>7 DEF RestartSpawnFails
  <2>. QED
    BY <2>1, <2>2, <2>3, <2>4, <2>5, <2>6
<1>8. CASE RestartStore
  BY <1>8 DEF RestartStore
<1>9. CASE StopCall
  BY <1>9 DEF StopCall
<1>10. CASE StopFd
  BY <1>10 DEF StopFd, shutdown_old_fd
<1>11. CASE StopFlags
  <2>1. TypeStatics'
    BY <1>11 DEF StopFlags
  <2>2. TypeControl'
    BY <1>11 DEF StopFlags
  <2>3. TypeIo'
    BY <1>11 DEF StopFlags
  <2>4. TypeConn'
    BY <1>11 DEF StopFlags
  <2>5. TypeWriters'
    BY <1>11 DEF StopFlags
  <2>6. TypeSender'
    BY <1>11 DEF StopFlags
  <2>. QED
    BY <2>1, <2>2, <2>3, <2>4, <2>5, <2>6
<1>12. CASE StopLock
  BY <1>12 DEF StopLock
<1>13. CASE StopJoin
  BY <1>13 DEF StopJoin
<1>14. CASE SendCall
  BY <1>14 DEF SendCall
<1>15. CASE SendLastError
  <2>1. TypeStatics'
    BY <1>15 DEF SendLastError
  <2>2. TypeControl'
    BY <1>15 DEF SendLastError
  <2>3. TypeIo'
    BY <1>15 DEF SendLastError
  <2>4. TypeConn'
    BY <1>15 DEF SendLastError
  <2>5. TypeWriters'
    BY <1>15 DEF SendLastError
  <2>6. TypeSender'
    BY <1>15 DEF SendLastError
  <2>. QED
    BY <2>1, <2>2, <2>3, <2>4, <2>5, <2>6
<1>16. CASE SendTx
  BY <1>16 DEF SendTx, Receiving
<1>17. ASSUME NEW g \in Gens, IoBind(g) PROVE TypeOK'
  BY <1>17 DEF IoBind, Go
<1>18. ASSUME NEW g \in Gens, IoBindFails(g) PROVE TypeOK'
  BY <1>18 DEF IoBindFails, Go
<1>19. ASSUME NEW g \in Gens, IoBindError(g) PROVE TypeOK'
  BY <1>19 DEF IoBindError, Go, is_current_gen
<1>20. ASSUME NEW g \in Gens, IoBindStop(g) PROVE TypeOK'
  <2>1. TypeStatics'
    BY <1>20 DEF IoBindStop, Go
  <2>2. TypeControl'
    BY <1>20 DEF IoBindStop, Go
  <2>3. TypeIo'
    BY <1>20 DEF IoBindStop, Go
  <2>4. TypeConn'
    BY <1>20 DEF IoBindStop, Go
  <2>5. TypeWriters'
    BY <1>20 DEF IoBindStop, Go
  <2>6. TypeSender'
    BY <1>20 DEF IoBindStop, Go
  <2>. QED
    BY <2>1, <2>2, <2>3, <2>4, <2>5, <2>6
<1>21. ASSUME NEW g \in Gens, IoLoop(g) PROVE TypeOK'
  BY <1>21 DEF IoLoop, Go
<1>22. ASSUME NEW g \in Gens, IoWouldBlock(g) PROVE TypeOK'
  BY <1>22 DEF IoWouldBlock, Go, Backlog
<1>23. ASSUME NEW g \in Gens, IoAcceptError(g) PROVE TypeOK'
  BY <1>23 DEF IoAcceptError, Go
<1>24. ASSUME NEW g \in Gens, IoAccept(g) PROVE TypeOK'
  <2>1. TypeStatics'
    BY <1>24 DEF IoAccept, Go
  <2>2. TypeControl'
    BY <1>24 DEF IoAccept, Go
  <2>3. TypeIo'
    BY <1>24 DEF IoAccept, Go
  <2>4. TypeConn'
    BY <1>24 DEF IoAccept, Go
  <2>5. TypeWriters'
    BY <1>24 DEF IoAccept, Go
  <2>6. TypeSender'
    BY <1>24 DEF IoAccept, Go
  <2>. QED
    BY <2>1, <2>2, <2>3, <2>4, <2>5, <2>6
<1>25. ASSUME NEW g \in Gens, IoAcceptDrops(g) PROVE TypeOK'
  BY <1>25 DEF IoAcceptDrops, Go, Backlog
<1>26. ASSUME NEW g \in Gens, save_shutdown_fd(g) PROVE TypeOK'
  BY <1>26 DEF save_shutdown_fd, Go
<1>27. ASSUME NEW g \in Gens, IoSetTx(g) PROVE TypeOK'
  BY <1>27 DEF IoSetTx, Go
<1>28. ASSUME NEW g \in Gens, IoSetConnected(g) PROVE TypeOK'
  BY <1>28 DEF IoSetConnected, Go
<1>29. ASSUME NEW g \in Gens, IoHello(g) PROVE TypeOK'
  <2>1. TypeStatics'
    BY <1>29 DEF IoHello, Go
  <2>2. TypeControl'
    BY <1>29 DEF IoHello, Go
  <2>3. TypeIo'
    BY <1>29 DEF IoHello, Go
  <2>4. TypeConn'
    BY <1>29 DEF IoHello, Go
  <2>5. TypeWriters'
    BY <1>29 DEF IoHello, Go
  <2>6. TypeSender'
    BY <1>29 DEF IoHello, Go
  <2>. QED
    BY <2>1, <2>2, <2>3, <2>4, <2>5, <2>6
<1>30. ASSUME NEW g \in Gens, IoHelloFails(g) PROVE TypeOK'
  <2>1. TypeStatics'
    BY <1>30 DEF IoHelloFails, Go
  <2>2. TypeControl'
    BY <1>30 DEF IoHelloFails, Go
  <2>3. TypeIo'
    BY <1>30 DEF IoHelloFails, Go
  <2>4. TypeConn'
    BY <1>30 DEF IoHelloFails, Go
  <2>5. TypeWriters'
    BY <1>30 DEF IoHelloFails, Go
  <2>6. TypeSender'
    BY <1>30 DEF IoHelloFails, Go
  <2>. QED
    BY <2>1, <2>2, <2>3, <2>4, <2>5, <2>6
<1>31. ASSUME NEW g \in Gens, IoReadEnds(g) PROVE TypeOK'
  BY <1>31 DEF IoReadEnds, Go
<1>32. ASSUME NEW g \in Gens, clear_shutdown_fd(g) PROVE TypeOK'
  <2>1. TypeStatics'
    BY <1>32 DEF clear_shutdown_fd, Go
  <2>2. TypeControl'
    BY <1>32 DEF clear_shutdown_fd, Go
  <2>3. TypeIo'
    BY <1>32 DEF clear_shutdown_fd, Go
  <2>4. TypeConn'
    BY <1>32 DEF clear_shutdown_fd, Go
  <2>5. TypeWriters'
    BY <1>32 DEF clear_shutdown_fd, Go
  <2>6. TypeSender'
    BY <1>32 DEF clear_shutdown_fd, Go
  <2>. QED
    BY <2>1, <2>2, <2>3, <2>4, <2>5, <2>6
<1>33. ASSUME NEW g \in Gens, IoCheckGen(g) PROVE TypeOK'
  BY <1>33 DEF IoCheckGen, Go
<1>34. ASSUME NEW g \in Gens, IoClearTx(g) PROVE TypeOK'
  BY <1>34 DEF IoClearTx, Go
<1>35. ASSUME NEW g \in Gens, IoJoinWriter(g) PROVE TypeOK'
  <2>1. TypeStatics'
    BY <1>35 DEF IoJoinWriter, Go
  <2>2. TypeControl'
    BY <1>35 DEF IoJoinWriter, Go
  <2>3. TypeIo'
    BY <1>35 DEF IoJoinWriter, Go
  <2>4. TypeConn'
    BY <1>35 DEF IoJoinWriter, Go
  <2>5. TypeWriters'
    BY <1>35 DEF IoJoinWriter, Go
  <2>6. TypeSender'
    BY <1>35 DEF IoJoinWriter, Go
  <2>. QED
    BY <2>1, <2>2, <2>3, <2>4, <2>5, <2>6
<1>36. ASSUME NEW g \in Gens, IoWriterError(g) PROVE TypeOK'
  BY <1>36 DEF IoWriterError, Go, is_current_gen
<1>37. ASSUME NEW g \in Gens, IoUnsetConnected(g) PROVE TypeOK'
  BY <1>37 DEF IoUnsetConnected, Go, is_current_gen
<1>38. ASSUME NEW g \in Gens, IoBye(g) PROVE TypeOK'
  <2>1. TypeStatics'
    BY <1>38 DEF IoBye, Go
  <2>2. TypeControl'
    BY <1>38 DEF IoBye, Go
  <2>3. TypeIo'
    BY <1>38 DEF IoBye, Go
  <2>4. TypeConn'
    BY <1>38 DEF IoBye, Go
  <2>5. TypeWriters'
    BY <1>38 DEF IoBye, Go
  <2>6. TypeSender'
    BY <1>38 DEF IoBye, Go
  <2>. QED
    BY <2>1, <2>2, <2>3, <2>4, <2>5, <2>6
<1>39. ASSUME NEW g \in Gens, IoExit(g) PROVE TypeOK'
  BY <1>39 DEF IoExit, Go, ResetBacklog, is_current_gen
<1>40. ASSUME NEW g \in Gens, IoStop(g) PROVE TypeOK'
  <2>1. TypeStatics'
    BY <1>40 DEF IoStop, Go
  <2>2. TypeControl'
    BY <1>40 DEF IoStop, Go
  <2>3. TypeIo'
    BY <1>40 DEF IoStop, Go
  <2>4. TypeConn'
    BY <1>40 DEF IoStop, Go
  <2>5. TypeWriters'
    BY <1>40 DEF IoStop, Go
  <2>6. TypeSender'
    BY <1>40 DEF IoStop, Go
  <2>. QED
    BY <2>1, <2>2, <2>3, <2>4, <2>5, <2>6
<1>41. ASSUME NEW g \in Gens, IoDropState(g) PROVE TypeOK'
  BY <1>41 DEF IoDropState, Go
<1>42. ASSUME NEW g \in Gens, IoCleanup(g) PROVE TypeOK'
  BY <1>42 DEF IoCleanup, Go, ResetBacklog
<1>43. ASSUME NEW g \in Gens, SinkCloses(g) PROVE TypeOK'
  BY <1>43 DEF SinkCloses
<1>44. ASSUME NEW c \in Conns, WriterTop(c) PROVE TypeOK'
  BY <1>44 DEF WriterTop
<1>45. ASSUME NEW c \in Conns, WriterWrites(c) PROVE TypeOK'
  BY <1>45 DEF WriterWrites
<1>46. ASSUME NEW c \in Conns, WriterFails(c) PROVE TypeOK'
  BY <1>46 DEF WriterFails
<1>47. ASSUME NEW c \in Conns, WriterHangup(c) PROVE TypeOK'
  BY <1>47 DEF WriterHangup
<1>48. ASSUME NEW c \in Conns, PeerConnects(c) PROVE TypeOK'
  BY <1>48 DEF PeerConnects, Listening
<1>49. ASSUME NEW c \in Conns, PeerCloses(c) PROVE TypeOK'
  BY <1>49 DEF PeerCloses
<1>50. CASE UNCHANGED vars
  BY <1>50 DEF vars
<1>. QED
  BY <1>1, <1>2, <1>3, <1>4, <1>5, <1>6, <1>7, <1>8, <1>9, <1>10, <1>11, <1>12, <1>13, <1>14, <1>15, <1>16, <1>17, <1>18, <1>19, <1>20, <1>21, <1>22, <1>23, <1>24, <1>25, <1>26, <1>27, <1>28, <1>29, <1>30, <1>31, <1>32, <1>33, <1>34, <1>35, <1>36, <1>37, <1>38, <1>39, <1>40, <1>41, <1>42, <1>43, <1>44, <1>45, <1>46, <1>47, <1>48, <1>49, <1>50
  DEF Next, RestartStep, StopStep, IoStep, WriterStep, SendStep

(* The statics and threads start well typed.                               *)
LEMMA TypeInit == Init => TypeOK
<1>. SUFFICES ASSUME Init PROVE TypeOK
  OBVIOUS
<1>. USE DEF Init
<1>1. TypeStatics
  <2>1. RUNNING \in BOOLEAN /\ CONNECTED \in BOOLEAN /\ LAST_ERROR \in BOOLEAN
    BY Zenon
  <2>2. GENERATION \in 0 .. MaxGen /\ SHUTDOWN_FD \in Conns \cup {None}
    OBVIOUS
  <2>. QED
    BY <2>1, <2>2 DEF TypeStatics
<1>2. TypeControl
  BY DEF TypeControl, CtlSteps
<1>3. TypeIo
  BY DEF TypeIo, IoSteps
<1>4. TypeConn
  BY DEF TypeConn
<1>5. TypeWriters
  BY DEF TypeWriters
<1>6. TypeSender
  BY DEF TypeSender
<1>. QED
  BY <1>1, <1>2, <1>3, <1>4, <1>5, <1>6 DEF TypeOK

(* TypeOK is an invariant of the specification.                            *)
THEOREM TypeCorrect == Spec => []TypeOK
  BY TypeInit, TypeNext, PTL DEF Spec

(* Ownership is inductive: only the owner serves, whatever the control    *)
(* thread is doing.                                                        *)
LEMMA OwnershipNext == TypeOK /\ Ownership /\ [Next]_vars => Ownership'
<1>. SUFFICES ASSUME TypeOK /\ Ownership, [Next]_vars PROVE Ownership'
  OBVIOUS
<1>. USE DEF TypeOK, TypeStatics, TypeControl, TypeIo, CtlSteps, IoSteps,
             Ownership, Owner, Serving
<1>1. CASE RestartCall
  BY <1>1 DEF RestartCall
<1>2. CASE RestartFd
  BY <1>2 DEF RestartFd, shutdown_old_fd
<1>3. CASE RestartFlags
  BY <1>3 DEF RestartFlags
<1>4. CASE RestartTake
  BY <1>4 DEF RestartTake
<1>5. CASE RestartJoin
  BY <1>5 DEF RestartJoin
<1>6. CASE RestartSpawn
  BY <1>6 DEF RestartSpawn, Go
<1>7. CASE RestartSpawnFails
  BY <1>7 DEF RestartSpawnFails
<1>8. CASE RestartStore
  BY <1>8 DEF RestartStore
<1>9. CASE StopCall
  BY <1>9 DEF StopCall
<1>10. CASE StopFd
  BY <1>10 DEF StopFd, shutdown_old_fd
<1>11. CASE StopFlags
  BY <1>11 DEF StopFlags
<1>12. CASE StopLock
  BY <1>12 DEF StopLock
<1>13. CASE StopJoin
  BY <1>13 DEF StopJoin
<1>14. CASE SendCall
  BY <1>14 DEF SendCall
<1>15. CASE SendLastError
  BY <1>15 DEF SendLastError
<1>16. CASE SendTx
  BY <1>16 DEF SendTx
<1>17. ASSUME NEW g \in Gens, IoBind(g) PROVE Ownership'
  BY <1>17 DEF IoBind, Go
<1>18. ASSUME NEW g \in Gens, IoBindFails(g) PROVE Ownership'
  BY <1>18 DEF IoBindFails, Go
<1>19. ASSUME NEW g \in Gens, IoBindError(g) PROVE Ownership'
  BY <1>19 DEF IoBindError, Go, is_current_gen
<1>20. ASSUME NEW g \in Gens, IoBindStop(g) PROVE Ownership'
  BY <1>20 DEF IoBindStop, Go
<1>21. ASSUME NEW g \in Gens, IoLoop(g) PROVE Ownership'
  BY <1>21 DEF IoLoop, Go
<1>22. ASSUME NEW g \in Gens, IoWouldBlock(g) PROVE Ownership'
  BY <1>22 DEF IoWouldBlock, Go
<1>23. ASSUME NEW g \in Gens, IoAcceptError(g) PROVE Ownership'
  BY <1>23 DEF IoAcceptError, Go
<1>24. ASSUME NEW g \in Gens, IoAccept(g) PROVE Ownership'
  BY <1>24 DEF IoAccept, Go
<1>25. ASSUME NEW g \in Gens, IoAcceptDrops(g) PROVE Ownership'
  BY <1>25 DEF IoAcceptDrops, Go
<1>26. ASSUME NEW g \in Gens, save_shutdown_fd(g) PROVE Ownership'
  BY <1>26 DEF save_shutdown_fd, Go
<1>27. ASSUME NEW g \in Gens, IoSetTx(g) PROVE Ownership'
  BY <1>27 DEF IoSetTx, Go
<1>28. ASSUME NEW g \in Gens, IoSetConnected(g) PROVE Ownership'
  BY <1>28 DEF IoSetConnected, Go
<1>29. ASSUME NEW g \in Gens, IoHello(g) PROVE Ownership'
  BY <1>29 DEF IoHello, Go
<1>30. ASSUME NEW g \in Gens, IoHelloFails(g) PROVE Ownership'
  BY <1>30 DEF IoHelloFails, Go
<1>31. ASSUME NEW g \in Gens, IoReadEnds(g) PROVE Ownership'
  BY <1>31 DEF IoReadEnds, Go
<1>32. ASSUME NEW g \in Gens, clear_shutdown_fd(g) PROVE Ownership'
  BY <1>32 DEF clear_shutdown_fd, Go
<1>33. ASSUME NEW g \in Gens, IoCheckGen(g) PROVE Ownership'
  BY <1>33 DEF IoCheckGen, Go
<1>34. ASSUME NEW g \in Gens, IoClearTx(g) PROVE Ownership'
  BY <1>34 DEF IoClearTx, Go
<1>35. ASSUME NEW g \in Gens, IoJoinWriter(g) PROVE Ownership'
  BY <1>35 DEF IoJoinWriter, Go
<1>36. ASSUME NEW g \in Gens, IoWriterError(g) PROVE Ownership'
  BY <1>36 DEF IoWriterError, Go, is_current_gen
<1>37. ASSUME NEW g \in Gens, IoUnsetConnected(g) PROVE Ownership'
  BY <1>37 DEF IoUnsetConnected, Go, is_current_gen
<1>38. ASSUME NEW g \in Gens, IoBye(g) PROVE Ownership'
  BY <1>38 DEF IoBye, Go
<1>39. ASSUME NEW g \in Gens, IoExit(g) PROVE Ownership'
  BY <1>39 DEF IoExit, Go, is_current_gen
<1>40. ASSUME NEW g \in Gens, IoStop(g) PROVE Ownership'
  BY <1>40 DEF IoStop, Go
<1>41. ASSUME NEW g \in Gens, IoDropState(g) PROVE Ownership'
  BY <1>41 DEF IoDropState, Go
<1>42. ASSUME NEW g \in Gens, IoCleanup(g) PROVE Ownership'
  BY <1>42 DEF IoCleanup, Go
<1>43. ASSUME NEW g \in Gens, SinkCloses(g) PROVE Ownership'
  BY <1>43 DEF SinkCloses
<1>44. ASSUME NEW c \in Conns, WriterTop(c) PROVE Ownership'
  BY <1>44 DEF WriterTop
<1>45. ASSUME NEW c \in Conns, WriterWrites(c) PROVE Ownership'
  BY <1>45 DEF WriterWrites
<1>46. ASSUME NEW c \in Conns, WriterFails(c) PROVE Ownership'
  BY <1>46 DEF WriterFails
<1>47. ASSUME NEW c \in Conns, WriterHangup(c) PROVE Ownership'
  BY <1>47 DEF WriterHangup
<1>48. ASSUME NEW c \in Conns, PeerConnects(c) PROVE Ownership'
  BY <1>48 DEF PeerConnects
<1>49. ASSUME NEW c \in Conns, PeerCloses(c) PROVE Ownership'
  BY <1>49 DEF PeerCloses
<1>50. CASE UNCHANGED vars
  BY <1>50 DEF vars
<1>. QED
  BY <1>1, <1>2, <1>3, <1>4, <1>5, <1>6, <1>7, <1>8, <1>9, <1>10, <1>11, <1>12, <1>13, <1>14, <1>15, <1>16, <1>17, <1>18, <1>19, <1>20, <1>21, <1>22, <1>23, <1>24, <1>25, <1>26, <1>27, <1>28, <1>29, <1>30, <1>31, <1>32, <1>33, <1>34, <1>35, <1>36, <1>37, <1>38, <1>39, <1>40, <1>41, <1>42, <1>43, <1>44, <1>45, <1>46, <1>47, <1>48, <1>49, <1>50
  DEF Next, RestartStep, StopStep, IoStep, WriterStep, SendStep

(* Given ownership, nobody disturbs the statics of the current session.    *)
LEMMA SessionNext == TypeOK /\ Ownership /\ SessionFacts /\ [Next]_vars => SessionFacts'
<1>. SUFFICES ASSUME TypeOK /\ Ownership /\ SessionFacts, [Next]_vars PROVE SessionFacts'
  OBVIOUS
<1>. USE DEF TypeOK, TypeStatics, TypeControl, TypeIo, CtlSteps, IoSteps,
             Ownership, Owner, Serving, SessionFacts, Calm, is_current_gen
<1>1. CASE RestartCall
  BY <1>1 DEF RestartCall
<1>2. CASE RestartFd
  BY <1>2 DEF RestartFd, shutdown_old_fd
<1>3. CASE RestartFlags
  BY <1>3 DEF RestartFlags
<1>4. CASE RestartTake
  BY <1>4 DEF RestartTake
<1>5. CASE RestartJoin
  BY <1>5 DEF RestartJoin
<1>6. CASE RestartSpawn
  <2>1. /\ UNCHANGED <<SHUTDOWN_FD, tx, CONNECTED, GENERATION, sess>>
        /\ GENERATION' = GENERATION
    BY <1>6 DEF RestartSpawn
  <2>2. \A g \in Gens : GENERATION = g => io'[g] = "start"
    BY <1>6 DEF RestartSpawn, Go
  <2>. QED
    BY <2>1, <2>2
<1>7. CASE RestartSpawnFails
  <2>1. UNCHANGED <<SHUTDOWN_FD, tx, CONNECTED, GENERATION, sess, io>> /\ ctl = "r_spawn"
    BY <1>7 DEF RestartSpawnFails
  <2>2. \A g \in Gens : ~Serving(g)
    BY <2>1
  <2>. QED
    BY <2>1, <2>2
<1>8. CASE RestartStore
  BY <1>8 DEF RestartStore
<1>9. CASE StopCall
  BY <1>9 DEF StopCall
<1>10. CASE StopFd
  BY <1>10 DEF StopFd, shutdown_old_fd
<1>11. CASE StopFlags
  BY <1>11 DEF StopFlags
<1>12. CASE StopLock
  BY <1>12 DEF StopLock
<1>13. CASE StopJoin
  BY <1>13 DEF StopJoin
<1>14. CASE SendCall
  BY <1>14 DEF SendCall
<1>15. CASE SendLastError
  BY <1>15 DEF SendLastError
<1>16. CASE SendTx
  BY <1>16 DEF SendTx
<1>17. ASSUME NEW g \in Gens, IoBind(g) PROVE SessionFacts'
  BY <1>17 DEF IoBind, Go
<1>18. ASSUME NEW g \in Gens, IoBindFails(g) PROVE SessionFacts'
  BY <1>18 DEF IoBindFails, Go
<1>19. ASSUME NEW g \in Gens, IoBindError(g) PROVE SessionFacts'
  BY <1>19 DEF IoBindError, Go, is_current_gen
<1>20. ASSUME NEW g \in Gens, IoBindStop(g) PROVE SessionFacts'
  BY <1>20 DEF IoBindStop, Go
<1>21. ASSUME NEW g \in Gens, IoLoop(g) PROVE SessionFacts'
  BY <1>21 DEF IoLoop, Go
<1>22. ASSUME NEW g \in Gens, IoWouldBlock(g) PROVE SessionFacts'
  BY <1>22 DEF IoWouldBlock, Go
<1>23. ASSUME NEW g \in Gens, IoAcceptError(g) PROVE SessionFacts'
  BY <1>23 DEF IoAcceptError, Go
<1>24. ASSUME NEW g \in Gens, IoAccept(g) PROVE SessionFacts'
  BY <1>24 DEF IoAccept, Go
<1>25. ASSUME NEW g \in Gens, IoAcceptDrops(g) PROVE SessionFacts'
  BY <1>25 DEF IoAcceptDrops, Go
<1>26. ASSUME NEW g \in Gens, save_shutdown_fd(g) PROVE SessionFacts'
  BY <1>26 DEF save_shutdown_fd, Go
<1>27. ASSUME NEW g \in Gens, IoSetTx(g) PROVE SessionFacts'
  BY <1>27 DEF IoSetTx, Go
<1>28. ASSUME NEW g \in Gens, IoSetConnected(g) PROVE SessionFacts'
  BY <1>28 DEF IoSetConnected, Go
<1>29. ASSUME NEW g \in Gens, IoHello(g) PROVE SessionFacts'
  BY <1>29 DEF IoHello, Go
<1>30. ASSUME NEW g \in Gens, IoHelloFails(g) PROVE SessionFacts'
  BY <1>30 DEF IoHelloFails, Go
<1>31. ASSUME NEW g \in Gens, IoReadEnds(g) PROVE SessionFacts'
  BY <1>31 DEF IoReadEnds, Go
<1>32. ASSUME NEW g \in Gens, clear_shutdown_fd(g) PROVE SessionFacts'
  BY <1>32 DEF clear_shutdown_fd, Go
<1>33. ASSUME NEW g \in Gens, IoCheckGen(g) PROVE SessionFacts'
  BY <1>33 DEF IoCheckGen, Go
<1>34. ASSUME NEW g \in Gens, IoClearTx(g) PROVE SessionFacts'
  BY <1>34 DEF IoClearTx, Go
<1>35. ASSUME NEW g \in Gens, IoJoinWriter(g) PROVE SessionFacts'
  BY <1>35 DEF IoJoinWriter, Go
<1>36. ASSUME NEW g \in Gens, IoWriterError(g) PROVE SessionFacts'
  BY <1>36 DEF IoWriterError, Go, is_current_gen
<1>37. ASSUME NEW g \in Gens, IoUnsetConnected(g) PROVE SessionFacts'
  BY <1>37 DEF IoUnsetConnected, Go, is_current_gen
<1>38. ASSUME NEW g \in Gens, IoBye(g) PROVE SessionFacts'
  BY <1>38 DEF IoBye, Go
<1>39. ASSUME NEW g \in Gens, IoExit(g) PROVE SessionFacts'
  BY <1>39 DEF IoExit, Go, is_current_gen
<1>40. ASSUME NEW g \in Gens, IoStop(g) PROVE SessionFacts'
  BY <1>40 DEF IoStop, Go
<1>41. ASSUME NEW g \in Gens, IoDropState(g) PROVE SessionFacts'
  BY <1>41 DEF IoDropState, Go
<1>42. ASSUME NEW g \in Gens, IoCleanup(g) PROVE SessionFacts'
  BY <1>42 DEF IoCleanup, Go
<1>43. ASSUME NEW g \in Gens, SinkCloses(g) PROVE SessionFacts'
  BY <1>43 DEF SinkCloses
<1>44. ASSUME NEW c \in Conns, WriterTop(c) PROVE SessionFacts'
  BY <1>44 DEF WriterTop
<1>45. ASSUME NEW c \in Conns, WriterWrites(c) PROVE SessionFacts'
  BY <1>45 DEF WriterWrites
<1>46. ASSUME NEW c \in Conns, WriterFails(c) PROVE SessionFacts'
  BY <1>46 DEF WriterFails
<1>47. ASSUME NEW c \in Conns, WriterHangup(c) PROVE SessionFacts'
  BY <1>47 DEF WriterHangup
<1>48. ASSUME NEW c \in Conns, PeerConnects(c) PROVE SessionFacts'
  BY <1>48 DEF PeerConnects
<1>49. ASSUME NEW c \in Conns, PeerCloses(c) PROVE SessionFacts'
  BY <1>49 DEF PeerCloses
<1>50. CASE UNCHANGED vars
  BY <1>50 DEF vars
<1>. QED
  BY <1>1, <1>2, <1>3, <1>4, <1>5, <1>6, <1>7, <1>8, <1>9, <1>10, <1>11, <1>12, <1>13, <1>14, <1>15, <1>16, <1>17, <1>18, <1>19, <1>20, <1>21, <1>22, <1>23, <1>24, <1>25, <1>26, <1>27, <1>28, <1>29, <1>30, <1>31, <1>32, <1>33, <1>34, <1>35, <1>36, <1>37, <1>38, <1>39, <1>40, <1>41, <1>42, <1>43, <1>44, <1>45, <1>46, <1>47, <1>48, <1>49, <1>50
  DEF Next, RestartStep, StopStep, IoStep, WriterStep, SendStep

(* Given ownership, RUNNING is cleared only when the owner is about to end. *)
LEMMA QuietNext == TypeOK /\ Ownership /\ QuietFacts /\ [Next]_vars => QuietFacts'
<1>. SUFFICES ASSUME TypeOK /\ Ownership /\ QuietFacts, [Next]_vars PROVE QuietFacts'
  OBVIOUS
<1>. USE DEF TypeOK, TypeStatics, TypeControl, TypeIo, CtlSteps, IoSteps,
             Ownership, Owner, Serving, QuietFacts, Calm, is_current_gen
<1>1. CASE RestartCall
  BY <1>1 DEF RestartCall
<1>2. CASE RestartFd
  BY <1>2 DEF RestartFd, shutdown_old_fd
<1>3. CASE RestartFlags
  BY <1>3 DEF RestartFlags
<1>4. CASE RestartTake
  BY <1>4 DEF RestartTake
<1>5. CASE RestartJoin
  BY <1>5 DEF RestartJoin
<1>6. CASE RestartSpawn
  BY <1>6 DEF RestartSpawn, Go
<1>7. CASE RestartSpawnFails
  BY <1>7 DEF RestartSpawnFails
<1>8. CASE RestartStore
  BY <1>8 DEF RestartStore
<1>9. CASE StopCall
  BY <1>9 DEF StopCall
<1>10. CASE StopFd
  BY <1>10 DEF StopFd, shutdown_old_fd
<1>11. CASE StopFlags
  BY <1>11 DEF StopFlags
<1>12. CASE StopLock
  BY <1>12 DEF StopLock
<1>13. CASE StopJoin
  BY <1>13 DEF StopJoin
<1>14. CASE SendCall
  BY <1>14 DEF SendCall
<1>15. CASE SendLastError
  BY <1>15 DEF SendLastError
<1>16. CASE SendTx
  BY <1>16 DEF SendTx
<1>17. ASSUME NEW g \in Gens, IoBind(g) PROVE QuietFacts'
  BY <1>17 DEF IoBind, Go
<1>18. ASSUME NEW g \in Gens, IoBindFails(g) PROVE QuietFacts'
  BY <1>18 DEF IoBindFails, Go
<1>19. ASSUME NEW g \in Gens, IoBindError(g) PROVE QuietFacts'
  BY <1>19 DEF IoBindError, Go, is_current_gen
<1>20. ASSUME NEW g \in Gens, IoBindStop(g) PROVE QuietFacts'
  BY <1>20, SMTT(60) DEF IoBindStop, Go
<1>21. ASSUME NEW g \in Gens, IoLoop(g) PROVE QuietFacts'
  BY <1>21 DEF IoLoop, Go
<1>22. ASSUME NEW g \in Gens, IoWouldBlock(g) PROVE QuietFacts'
  BY <1>22 DEF IoWouldBlock, Go
<1>23. ASSUME NEW g \in Gens, IoAcceptError(g) PROVE QuietFacts'
  BY <1>23 DEF IoAcceptError, Go
<1>24. ASSUME NEW g \in Gens, IoAccept(g) PROVE QuietFacts'
  BY <1>24 DEF IoAccept, Go
<1>25. ASSUME NEW g \in Gens, IoAcceptDrops(g) PROVE QuietFacts'
  BY <1>25 DEF IoAcceptDrops, Go
<1>26. ASSUME NEW g \in Gens, save_shutdown_fd(g) PROVE QuietFacts'
  BY <1>26 DEF save_shutdown_fd, Go
<1>27. ASSUME NEW g \in Gens, IoSetTx(g) PROVE QuietFacts'
  BY <1>27 DEF IoSetTx, Go
<1>28. ASSUME NEW g \in Gens, IoSetConnected(g) PROVE QuietFacts'
  BY <1>28 DEF IoSetConnected, Go
<1>29. ASSUME NEW g \in Gens, IoHello(g) PROVE QuietFacts'
  BY <1>29 DEF IoHello, Go
<1>30. ASSUME NEW g \in Gens, IoHelloFails(g) PROVE QuietFacts'
  BY <1>30 DEF IoHelloFails, Go
<1>31. ASSUME NEW g \in Gens, IoReadEnds(g) PROVE QuietFacts'
  BY <1>31 DEF IoReadEnds, Go
<1>32. ASSUME NEW g \in Gens, clear_shutdown_fd(g) PROVE QuietFacts'
  BY <1>32 DEF clear_shutdown_fd, Go
<1>33. ASSUME NEW g \in Gens, IoCheckGen(g) PROVE QuietFacts'
  BY <1>33 DEF IoCheckGen, Go
<1>34. ASSUME NEW g \in Gens, IoClearTx(g) PROVE QuietFacts'
  BY <1>34 DEF IoClearTx, Go
<1>35. ASSUME NEW g \in Gens, IoJoinWriter(g) PROVE QuietFacts'
  BY <1>35 DEF IoJoinWriter, Go
<1>36. ASSUME NEW g \in Gens, IoWriterError(g) PROVE QuietFacts'
  BY <1>36 DEF IoWriterError, Go, is_current_gen
<1>37. ASSUME NEW g \in Gens, IoUnsetConnected(g) PROVE QuietFacts'
  BY <1>37 DEF IoUnsetConnected, Go, is_current_gen
<1>38. ASSUME NEW g \in Gens, IoBye(g) PROVE QuietFacts'
  BY <1>38 DEF IoBye, Go
<1>39. ASSUME NEW g \in Gens, IoExit(g) PROVE QuietFacts'
  BY <1>39 DEF IoExit, Go, is_current_gen
<1>40. ASSUME NEW g \in Gens, IoStop(g) PROVE QuietFacts'
  BY <1>40, SMTT(60) DEF IoStop, Go
<1>41. ASSUME NEW g \in Gens, IoDropState(g) PROVE QuietFacts'
  BY <1>41 DEF IoDropState, Go
<1>42. ASSUME NEW g \in Gens, IoCleanup(g) PROVE QuietFacts'
  BY <1>42 DEF IoCleanup, Go
<1>43. ASSUME NEW g \in Gens, SinkCloses(g) PROVE QuietFacts'
  BY <1>43 DEF SinkCloses
<1>44. ASSUME NEW c \in Conns, WriterTop(c) PROVE QuietFacts'
  BY <1>44 DEF WriterTop
<1>45. ASSUME NEW c \in Conns, WriterWrites(c) PROVE QuietFacts'
  BY <1>45 DEF WriterWrites
<1>46. ASSUME NEW c \in Conns, WriterFails(c) PROVE QuietFacts'
  BY <1>46 DEF WriterFails
<1>47. ASSUME NEW c \in Conns, WriterHangup(c) PROVE QuietFacts'
  BY <1>47 DEF WriterHangup
<1>48. ASSUME NEW c \in Conns, PeerConnects(c) PROVE QuietFacts'
  BY <1>48 DEF PeerConnects
<1>49. ASSUME NEW c \in Conns, PeerCloses(c) PROVE QuietFacts'
  BY <1>49 DEF PeerCloses
<1>50. CASE UNCHANGED vars
  BY <1>50 DEF vars
<1>. QED
  BY <1>1, <1>2, <1>3, <1>4, <1>5, <1>6, <1>7, <1>8, <1>9, <1>10, <1>11, <1>12, <1>13, <1>14, <1>15, <1>16, <1>17, <1>18, <1>19, <1>20, <1>21, <1>22, <1>23, <1>24, <1>25, <1>26, <1>27, <1>28, <1>29, <1>30, <1>31, <1>32, <1>33, <1>34, <1>35, <1>36, <1>37, <1>38, <1>39, <1>40, <1>41, <1>42, <1>43, <1>44, <1>45, <1>46, <1>47, <1>48, <1>49, <1>50
  DEF Next, RestartStep, StopStep, IoStep, WriterStep, SendStep

IInv == TypeOK /\ Ownership /\ SessionFacts /\ QuietFacts

(* The inductive invariant holds in every reachable state.                 *)
LEMMA InductiveInvariant == Spec => []IInv
<1>1. Init => IInv
  <2>. SUFFICES ASSUME Init PROVE IInv
    OBVIOUS
  <2>1. TypeOK
    BY TypeInit
  <2>2. Ownership
    BY DEF Init, Ownership, Owner, Serving
  <2>3. SessionFacts
    BY DEF Init, SessionFacts
  <2>4. QuietFacts
    BY DEF Init, QuietFacts
  <2>. QED
    BY <2>1, <2>2, <2>3, <2>4 DEF IInv
<1>2. IInv /\ [Next]_vars => IInv'
  BY TypeNext, OwnershipNext, SessionNext, QuietNext DEF IInv
<1>. QED
  BY <1>1, <1>2, PTL DEF Spec

(* Two generations never serve at the same time, for any number of         *)
(* restarts and clients.                                                   *)
THEOREM OneServingAlways == Spec => []OneServing
<1>1. IInv => OneServing
  BY DEF IInv, Ownership, OneServing
<1>. QED
  BY <1>1, InductiveInvariant, PTL

(* While the current generation serves a client and no control call is     *)
(* under way, CONNECTED, tx and SHUTDOWN_FD describe that client.          *)
THEOREM SessionVisibleAlways == Spec => []SessionVisible
<1>1. IInv => SessionVisible
  BY DEF IInv, SessionFacts, SessionVisible, Calm
<1>. QED
  BY <1>1, InductiveInvariant, PTL

(* With RUNNING false and no control call under way, no thread serves.     *)
THEOREM StoppedIsQuietAlways == Spec => []StoppedIsQuiet
<1>1. IInv => StoppedIsQuiet
  BY DEF IInv, QuietFacts, StoppedIsQuiet, Calm
<1>. QED
  BY <1>1, InductiveInvariant, PTL

-----------------------------------------------------------------------------
(* ShutdownHitsOpenFd needs more than the session of the current generation:   *)
(* whoever saved a descriptor still has it open, until it takes it back        *)
(* itself (save_shutdown_fd, clear_shutdown_fd).                               *)
FdSteps   == {"tx", "flag", "hello", "read", "rend"}
InSession == FdSteps \cup {"fd", "gen1", "untx", "join", "werr", "gen2", "bye"}

FdFacts ==
    /\ ~Unix => SHUTDOWN_FD = None
    /\ (\A g \in Gens : sink[g]) =>
         /\ \A g \in Gens : io[g] \in InSession => sess[g] \in Conns /\ fdOpen[sess[g]]
         /\ SHUTDOWN_FD # None => \E g \in Gens : sess[g] = SHUTDOWN_FD /\ io[g] \in FdSteps

LEMMA FdElsewhere ==
  ASSUME FdFacts, UNCHANGED <<io, sess, fdOpen>>, SHUTDOWN_FD' \in {SHUTDOWN_FD, None},
         \A g \in Gens : sink'[g] => sink[g]
  PROVE  FdFacts'
  BY DEF FdFacts

LEMMA FdMove ==
  ASSUME FdFacts, TypeOK, NEW g \in Gens, NEW step \in IoSteps, Go(g, step),
         UNCHANGED <<sess, fdOpen, sink, SHUTDOWN_FD>>,
         step \in InSession => io[g] \in InSession, io[g] \in FdSteps => step \in FdSteps
  PROVE  FdFacts'
<1>1. io' = [io EXCEPT ![g] = step] /\ io \in [Gens -> IoSteps]
  BY DEF Go, TypeOK, TypeIo
<1>. QED
  BY <1>1 DEF FdFacts

LEMMA FdNext ==
  ASSUME TypeOK, Ownership, FdFacts, [Next]_vars
  PROVE  FdFacts'
<1>. USE DEF statics, state, control, stream, conn, writers, sender
<1>0. /\ io \in [Gens -> IoSteps] /\ sess \in [Gens -> Conns \cup {None}]
      /\ fdOpen \in [Conns -> BOOLEAN] /\ sink \in [Gens -> BOOLEAN]
  BY DEF TypeOK, TypeIo, TypeConn
<1>a. \A g, h \in Gens : io[g] \in InSession /\ io[h] \in InSession => g = h
  BY DEF Ownership, Serving, InSession, FdSteps
<1>b. FdSteps \subseteq InSession /\ InSession \subseteq IoSteps
  BY DEF FdSteps, InSession, IoSteps
<1>1. CASE \/ RestartCall \/ RestartFlags \/ RestartTake \/ RestartJoin \/ RestartSpawnFails
           \/ RestartStore \/ StopCall \/ StopFlags \/ StopLock \/ StopJoin
           \/ SendCall \/ SendLastError \/ SendTx \/ UNCHANGED vars
  <2>1. UNCHANGED <<io, sess, fdOpen, sink, SHUTDOWN_FD>>
    BY <1>1 DEF RestartCall, RestartFlags, RestartTake, RestartJoin, RestartSpawnFails,
                RestartStore, StopCall, StopFlags, StopLock, StopJoin, SendCall,
                SendLastError, SendTx, vars
  <2>. QED
    BY <2>1, FdElsewhere
<1>2. ASSUME NEW c \in Conns, WriterStep(c) \/ PeerConnects(c) \/ PeerCloses(c) PROVE FdFacts'
  <2>1. UNCHANGED <<io, sess, fdOpen, sink, SHUTDOWN_FD>>
    BY <1>2 DEF WriterStep, WriterTop, WriterWrites, WriterFails, WriterHangup,
                PeerConnects, PeerCloses
  <2>. QED
    BY <2>1, FdElsewhere
<1>3. ASSUME NEW g \in Gens, SinkCloses(g) PROVE FdFacts'
  <2>1. UNCHANGED <<io, sess, fdOpen, SHUTDOWN_FD>> /\ \A h \in Gens : sink'[h] => sink[h]
    BY <1>0, <1>3 DEF SinkCloses
  <2>. QED
    BY <2>1, FdElsewhere
<1>4. CASE RestartFd \/ StopFd
  <2>1. UNCHANGED <<io, sess, fdOpen, sink>> /\ SHUTDOWN_FD' \in {SHUTDOWN_FD, None}
    BY <1>4 DEF RestartFd, StopFd, shutdown_old_fd
  <2>. QED
    BY <2>1, FdElsewhere
<1>5. CASE RestartSpawn
  <2>1. io' = [io EXCEPT ![GENERATION] = "start"] /\ UNCHANGED <<sess, fdOpen, sink, SHUTDOWN_FD>>
    BY <1>5 DEF RestartSpawn, Go
  <2>2. \A g \in Gens : io[g] \notin InSession
    BY <1>5 DEF RestartSpawn, Ownership, Owner, Serving, InSession, FdSteps, Gens, None
  <2>3. "start" \notin InSession
    BY DEF InSession, FdSteps
  <2>4. \A g \in Gens : io'[g] \notin InSession
    BY <1>0, <2>1, <2>2, <2>3
  <2>. QED
    BY <1>b, <2>1, <2>2, <2>4 DEF FdFacts
<1>6. ASSUME NEW g \in Gens,
             \/ IoBind(g) \/ IoBindFails(g) \/ IoBindError(g) \/ IoBindStop(g)
             \/ IoLoop(g) \/ IoWouldBlock(g) \/ IoAcceptError(g) \/ IoAcceptDrops(g)
             \/ IoSetTx(g) \/ IoSetConnected(g) \/ IoHello(g) \/ IoReadEnds(g)
             \/ IoCheckGen(g) \/ IoClearTx(g) \/ IoJoinWriter(g) \/ IoWriterError(g)
             \/ IoUnsetConnected(g) \/ IoExit(g) \/ IoStop(g) \/ IoDropState(g) \/ IoCleanup(g)
      PROVE  FdFacts'
  <2>1. UNCHANGED <<sess, fdOpen, sink, SHUTDOWN_FD>>
    BY <1>6 DEF IoBind, IoBindFails, IoBindError, IoBindStop, IoLoop, IoWouldBlock,
                IoAcceptError, IoAcceptDrops, IoSetTx, IoSetConnected, IoHello, IoReadEnds,
                IoCheckGen, IoClearTx, IoJoinWriter, IoWriterError, IoUnsetConnected,
                IoExit, IoStop, IoDropState, IoCleanup
  <2>2. PICK step \in IoSteps : /\ Go(g, step)
                                /\ step \in InSession => io[g] \in InSession
                                /\ io[g] \in FdSteps => step \in FdSteps
    <3>. USE DEF IoSteps, InSession, FdSteps
    <3>1. CASE IoBind(g) \/ IoBindFails(g) \/ IoBindError(g) \/ IoBindStop(g)
      BY <3>1 DEF IoBind, IoBindFails, IoBindError, IoBindStop
    <3>2. CASE IoLoop(g) \/ IoWouldBlock(g) \/ IoAcceptError(g) \/ IoAcceptDrops(g)
      BY <3>2 DEF IoLoop, IoWouldBlock, IoAcceptError, IoAcceptDrops
    <3>3. CASE IoSetTx(g) \/ IoSetConnected(g) \/ IoHello(g) \/ IoReadEnds(g)
      BY <3>3 DEF IoSetTx, IoSetConnected, IoHello, IoReadEnds
    <3>4. CASE \/ IoCheckGen(g) \/ IoClearTx(g) \/ IoJoinWriter(g) \/ IoWriterError(g)
               \/ IoUnsetConnected(g)
      BY <3>4 DEF IoCheckGen, IoClearTx, IoJoinWriter, IoWriterError, IoUnsetConnected
    <3>5. CASE IoExit(g) \/ IoStop(g) \/ IoDropState(g) \/ IoCleanup(g)
      BY <3>5 DEF IoExit, IoStop, IoDropState, IoCleanup
    <3>. QED
      BY <1>6, <3>1, <3>2, <3>3, <3>4, <3>5
  <2>. QED
    BY <2>1, <2>2, FdMove
<1>7. ASSUME NEW g \in Gens, IoAccept(g) PROVE FdFacts'
  <2>1. PICK c \in Conns : /\ fdOpen' = [fdOpen EXCEPT ![c] = TRUE]
                           /\ sess' = [sess EXCEPT ![g] = c]
    BY <1>7 DEF IoAccept
  <2>2. /\ io' = [io EXCEPT ![g] = "fd"] /\ io[g] = "accept" /\ UNCHANGED <<sink, SHUTDOWN_FD>>
    BY <1>7 DEF IoAccept, Go
  <2>3. io[g] \notin InSession
    BY <2>2 DEF InSession, FdSteps
  <2>. QED
    BY <1>0, <1>b, <2>1, <2>2, <2>3 DEF FdFacts
<1>8. ASSUME NEW g \in Gens, save_shutdown_fd(g) PROVE FdFacts'
  <2>1. /\ io' = [io EXCEPT ![g] = "tx"] /\ io[g] = "fd" /\ UNCHANGED <<sess, fdOpen, sink>>
        /\ SHUTDOWN_FD' = IF Unix THEN sess[g] ELSE SHUTDOWN_FD
    BY <1>8 DEF save_shutdown_fd, Go
  <2>2. "tx" \in FdSteps /\ "fd" \in InSession
    BY DEF FdSteps, InSession
  <2>. QED
    BY <1>0, <1>b, <2>1, <2>2 DEF FdFacts
<1>9. ASSUME NEW g \in Gens, IoHelloFails(g) PROVE FdFacts'
  <2>1. ~sink'[g] /\ UNCHANGED SHUTDOWN_FD
    BY <1>9 DEF IoHelloFails
  <2>. QED
    BY <2>1 DEF FdFacts
<1>10. ASSUME NEW g \in Gens, clear_shutdown_fd(g) PROVE FdFacts'
  <2>1. /\ io' = [io EXCEPT ![g] = "gen1"] /\ io[g] = "rend" /\ UNCHANGED <<sess, fdOpen, sink>>
        /\ SHUTDOWN_FD' = IF Unix THEN None ELSE SHUTDOWN_FD
    BY <1>10 DEF clear_shutdown_fd, Go
  <2>2. "rend" \in InSession /\ SHUTDOWN_FD' = None
    BY <2>1 DEF FdSteps, InSession, FdFacts
  <2>. QED
    BY <1>0, <2>1, <2>2 DEF FdFacts
<1>11. ASSUME NEW g \in Gens, IoBye(g) PROVE FdFacts'
  <2>1. /\ io[g] = "bye" /\ UNCHANGED <<sink, SHUTDOWN_FD>>
        /\ sess' = [sess EXCEPT ![g] = None]
        /\ io' = [io EXCEPT ![g] = IF sink[g] THEN "loop" ELSE "exit"]
    BY <1>11 DEF IoBye, Go
  <2>2. "bye" \in InSession \ FdSteps /\ {"loop", "exit"} \cap InSession = {}
    BY DEF FdSteps, InSession
  <2>3. \A h \in Gens : io[h] \notin FdSteps /\ io'[h] \notin InSession
    BY <1>0, <1>a, <1>b, <2>1, <2>2
  <2>. QED
    BY <2>1, <2>3 DEF FdFacts
<1>. QED
  BY <1>1, <1>2, <1>3, <1>4, <1>5, <1>6, <1>7, <1>8, <1>9, <1>10, <1>11
     DEF Next, RestartStep, StopStep, IoStep, SendStep

(* Only the two control calls shut a socket down.                              *)
LEMMA ShutOnlyByControl ==
  ASSUME [Next]_vars PROVE RestartFd \/ StopFd \/ UNCHANGED shut
<1>. USE DEF conn
<1>1. CASE \/ RestartCall \/ RestartFlags \/ RestartTake \/ RestartJoin \/ RestartSpawn
           \/ RestartSpawnFails \/ RestartStore \/ StopCall \/ StopFlags \/ StopLock \/ StopJoin
           \/ SendCall \/ SendLastError \/ SendTx \/ UNCHANGED vars
  BY <1>1 DEF RestartCall, RestartFlags, RestartTake, RestartJoin, RestartSpawn,
              RestartSpawnFails, RestartStore, StopCall, StopFlags, StopLock, StopJoin,
              SendCall, SendLastError, SendTx, vars
<1>2. ASSUME NEW c \in Conns, WriterStep(c) \/ PeerConnects(c) \/ PeerCloses(c)
      PROVE  UNCHANGED shut
  BY <1>2 DEF WriterStep, WriterTop, WriterWrites, WriterFails, WriterHangup,
              PeerConnects, PeerCloses
<1>3. ASSUME NEW g \in Gens, SinkCloses(g) \/ IoStep(g) PROVE UNCHANGED shut
  <2>1. CASE \/ SinkCloses(g) \/ IoBind(g) \/ IoBindFails(g) \/ IoBindError(g) \/ IoBindStop(g)
             \/ IoLoop(g) \/ IoWouldBlock(g) \/ IoAcceptError(g) \/ IoAccept(g)
             \/ IoAcceptDrops(g) \/ save_shutdown_fd(g) \/ IoSetTx(g) \/ IoSetConnected(g)
    BY <2>1 DEF SinkCloses, IoBind, IoBindFails, IoBindError, IoBindStop, IoLoop,
                IoWouldBlock, IoAcceptError, IoAccept, IoAcceptDrops, save_shutdown_fd,
                IoSetTx, IoSetConnected
  <2>2. CASE \/ IoHello(g) \/ IoHelloFails(g) \/ IoReadEnds(g) \/ clear_shutdown_fd(g)
             \/ IoCheckGen(g) \/ IoClearTx(g) \/ IoJoinWriter(g) \/ IoWriterError(g)
             \/ IoUnsetConnected(g) \/ IoBye(g) \/ IoExit(g) \/ IoStop(g) \/ IoDropState(g)
             \/ IoCleanup(g)
    BY <2>2 DEF IoHello, IoHelloFails, IoReadEnds, clear_shutdown_fd, IoCheckGen, IoClearTx,
                IoJoinWriter, IoWriterError, IoUnsetConnected, IoBye, IoExit, IoStop,
                IoDropState, IoCleanup
  <2>. QED
    BY <1>3, <2>1, <2>2 DEF IoStep
<1>. QED
  BY <1>1, <1>2, <1>3 DEF Next, RestartStep, StopStep, SendStep

(* As long as Dart keeps its streams, libc::shutdown hits only a descriptor    *)
(* that is still open, for any number of restarts, clients and sends           *)
(* (shutdown_old_fd and clear_shutdown_fd through the SHUTDOWN_FD lock).       *)
THEOREM ShutdownHitsOpenFdAlways == Spec => ShutdownHitsOpenFd
<1>1. Init => FdFacts
  BY DEF Init, FdFacts, InSession, FdSteps
<1>2. IInv /\ FdFacts /\ [Next]_vars => FdFacts'
  BY FdNext DEF IInv
<1>3. IInv /\ FdFacts /\ [Next]_vars =>
        [\A c \in Conns : ~shut[c] /\ shut'[c] /\ (\A g \in Gens : sink[g]) => fdOpen[c]]_vars
  <2>. SUFFICES ASSUME IInv, FdFacts, [Next]_vars, NEW c \in Conns, ~shut[c], shut'[c],
                       \A g \in Gens : sink[g]
                PROVE  fdOpen[c]
    OBVIOUS
  <2>1. CASE RestartFd \/ StopFd
    <3>1. c = SHUTDOWN_FD /\ SHUTDOWN_FD # None
      BY <2>1 DEF RestartFd, StopFd, shutdown_old_fd, IInv, TypeOK, TypeConn, TypeStatics,
                  Conns, None
    <3>. QED
      BY <3>1 DEF FdFacts, InSession
  <2>2. CASE UNCHANGED shut
    BY <2>2
  <2>. QED
    BY <2>1, <2>2, ShutOnlyByControl
<1>. QED
  BY <1>1, <1>2, <1>3, InductiveInvariant, PTL DEF Spec, ShutdownHitsOpenFd
=============================================================================
