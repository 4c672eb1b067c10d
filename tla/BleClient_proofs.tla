-------------------------- MODULE BleClient_proofs --------------------------
(***************************************************************************)
(* Proofs about BleClient for any number of gatt objects and any bounds.   *)
(***************************************************************************)
EXTENDS BleClient, TLAPS

-----------------------------------------------------------------------------
(* The inductive invariant. *)

(* Each command is in one place at most: it has been sent, is being        *)
(* written, or one retry of it waits.                                      *)
CmdInv ==
  /\ \A d \in sent : d <= issued
  /\ \A r \in retries : r.cmd <= issued /\ r.cmd \notin sent
  /\ \A r1, r2 \in retries : r1.cmd = r2.cmd => r1 = r2
  /\ main = "write" =>
       /\ writing.cmd <= issued
       /\ writing.cmd \notin sent
       /\ \A r \in retries : r.cmd # writing.cmd

(* A shutdown that reached everything leaves nobody who could post,        *)
(* connect or write.                                                       *)
DownInv ==
  down /\ ~late =>
    /\ main = "idle"
    /\ posted = 0
    /\ retries = {}
    /\ results = {}
    /\ ~scanning
    /\ gatt = NoConn
    /\ \A c \in Conns :
         /\ link[c] = "closed"
         /\ cb[c] \in {"idle", "connected", "discovered"}

IInv == TypeOK /\ OneConnectionOpen /\ SomeLoopIsAlive /\ DownInv /\ CmdInv /\ ScanHasTimeout

-----------------------------------------------------------------------------
(* Each part is kept by every step. *)

LEMMA TypeStep ==
  ASSUME TypeOK, [Next]_vars
  PROVE  TypeOK'
<1> USE BleAssumption DEF TypeOK, MainPlaces, CallbackPlaces, mainVars, loopVars, gattVars, scanVars, writeVars
<1>1. CASE UNCHANGED vars
  BY <1>1 DEF vars
<1>2. CASE ScheduleCheck
  BY <1>2 DEF ScheduleCheck
<1>3. CASE ScheduleSet
  BY <1>3 DEF ScheduleSet
<1>4. CASE ScheduleReset
  BY <1>4 DEF ScheduleReset
<1>5. CASE SchedulePost
  BY <1>5 DEF SchedulePost
<1>6. CASE LoopWait
  BY <1>6 DEF LoopWait, AfterClose, CharacteristicKept
<1>7. ASSUME NEW c \in Conns, LoopConnect(c)
      PROVE  TypeOK'
  BY <1>7 DEF LoopConnect, AfterClose, CharacteristicKept
<1>8. CASE LoopDenied \/ LoopConnectNull
  BY <1>8 DEF LoopDenied, LoopConnectNull, AfterClose, CharacteristicKept
<1>9. CASE LoopRead
  BY <1>9 DEF LoopRead
<1>10. CASE LoopCount
  BY <1>10 DEF LoopCount, Counted
<1>11. CASE LoopDecide
  BY <1>11 DEF LoopDecide
<1>12. CASE LoopGiveUp
  BY <1>12 DEF LoopGiveUp
<1>13. ASSUME NEW ok \in BOOLEAN, Write(ok)
      PROVE  TypeOK'
  <2>1. sent' \subseteq 0..MaxCmds
    BY <1>13 DEF Write, WriteType
  <2>2. retries' \subseteq WriteType
    <3>1. ASSUME writing.attempt < MaxRetries
          PROVE  [writing EXCEPT !.attempt = @ + 1] \in WriteType
      BY <3>1 DEF WriteType
    <3>2. writing.attempt \in Nat /\ MaxRetries \in Nat
      BY DEF WriteType
    <3>3. \/ retries' = retries
          \/ /\ writing.attempt < MaxRetries
             /\ retries' = retries \cup {[writing EXCEPT !.attempt = @ + 1]}
      <4> HIDE DEF TypeOK
      <4>1. QED
        BY <1>13, <3>2 DEF Write, RetryAfter
    <3>4. QED
      BY <3>1, <3>3
  <2>3. writing' \in WriteType
    BY <1>13 DEF Write, WriteType, NoWrite
  <2>4. QED
    BY <1>13, <2>1, <2>2, <2>3 DEF Write
<1>14. CASE WriteDenied
  BY <1>14 DEF WriteDenied, NoWrite, WriteType
<1>15. CASE WriteNull
  BY <1>15 DEF WriteNull
<1>16. CASE ShutdownRest
  BY <1>16 DEF ShutdownRest, AfterClose, PostedAfterShutdown, OutOfReach
<1>17. CASE LoopStart
  BY <1>17 DEF LoopStart
<1>18. ASSUME NEW c \in Conns, ConnectedBegin(c)
      PROVE  TypeOK'
  BY <1>18 DEF ConnectedBegin
<1>19. ASSUME NEW c \in Conns, DiscoveredBegin(c)
      PROVE  TypeOK'
  BY <1>19 DEF DiscoveredBegin
<1>20. ASSUME NEW c \in Conns, DisconnectedBegin(c)
      PROVE  TypeOK'
  BY <1>20 DEF DisconnectedBegin
<1>21. ASSUME NEW c \in Conns, ConnectedEnd(c)
      PROVE  TypeOK'
  BY <1>21 DEF ConnectedEnd
<1>22. ASSUME NEW c \in Conns, DiscoveredEnd(c)
      PROVE  TypeOK'
  BY <1>22 DEF DiscoveredEnd
<1>23. ASSUME NEW c \in Conns, DisconnectedClose(c)
      PROVE  TypeOK'
  BY <1>23 DEF DisconnectedClose
<1>24. ASSUME NEW c \in Conns, DisconnectedClear(c)
      PROVE  TypeOK'
  BY <1>24 DEF DisconnectedClear
<1>25. ASSUME NEW c \in Conns, CallbackCheck(c)
      PROVE  TypeOK'
  BY <1>25 DEF CallbackCheck
<1>26. ASSUME NEW c \in Conns, CallbackSet(c)
      PROVE  TypeOK'
  BY <1>26 DEF CallbackSet
<1>27. ASSUME NEW c \in Conns, CallbackReset(c)
      PROVE  TypeOK'
  BY <1>27 DEF CallbackReset
<1>28. ASSUME NEW c \in Conns, CallbackPost(c)
      PROVE  TypeOK'
  BY <1>28 DEF CallbackPost
<1>29. CASE Scan
  BY <1>29 DEF Scan, TimeoutPosted
<1>30. CASE ScanFinds
  <2>1. results' \subseteq 0..MaxScans
    BY <1>30 DEF ScanFinds
  <2>2. QED
    BY <1>30, <2>1 DEF ScanFinds
<1>31. CASE ScanTimeout
  <2>1. timeouts' \in Nat
    BY <1>31 DEF ScanTimeout
  <2>2. QED
    BY <1>31, <2>1 DEF ScanTimeout
<1>32. ASSUME NEW s \in results, ScanResult(s)
      PROVE  TypeOK'
  BY <1>32 DEF ScanResult
<1>33. CASE Send
  BY <1>33 DEF Send, WriteType
<1>34. ASSUME NEW r \in retries, Retry(r)
      PROVE  TypeOK'
  BY <1>34 DEF Retry
<1>35. CASE ShutdownFlag
  BY <1>35 DEF ShutdownFlag
<1>36. QED
  BY <1>1, <1>2, <1>3, <1>4, <1>5, <1>6, <1>7, <1>8, <1>9, <1>10, <1>11, <1>12, <1>13,
     <1>14, <1>15, <1>16, <1>17, <1>18, <1>19, <1>20, <1>21, <1>22, <1>23, <1>24, <1>25,
     <1>26, <1>27, <1>28, <1>29, <1>30, <1>31, <1>32, <1>33, <1>34, <1>35
     DEF Next, MainStep, Schedule, Reported, CallbackStep

LEMMA ConnectionStep ==
  ASSUME TypeOK, OneConnectionOpen, [Next]_vars
  PROVE  OneConnectionOpen'
<1> USE BleAssumption DEF OneConnectionOpen, mainVars, loopVars, gattVars, scanVars, writeVars
<1>1. CASE UNCHANGED vars
  BY <1>1 DEF vars
<1>2. CASE ScheduleCheck
  BY <1>2 DEF ScheduleCheck
<1>3. CASE ScheduleSet
  BY <1>3 DEF ScheduleSet
<1>4. CASE ScheduleReset
  BY <1>4 DEF ScheduleReset
<1>5. CASE SchedulePost
  BY <1>5 DEF SchedulePost
<1>6. CASE LoopWait
  BY <1>6 DEF LoopWait, AfterClose
<1>7. ASSUME NEW c \in Conns, LoopConnect(c)
      PROVE  OneConnectionOpen'
  BY <1>7 DEF LoopConnect, AfterClose
<1>8. CASE LoopDenied \/ LoopConnectNull
  BY <1>8 DEF LoopDenied, LoopConnectNull, AfterClose
<1>9. CASE LoopRead
  BY <1>9 DEF LoopRead
<1>10. CASE LoopCount
  BY <1>10 DEF LoopCount
<1>11. CASE LoopDecide
  BY <1>11 DEF LoopDecide
<1>12. CASE LoopGiveUp
  BY <1>12 DEF LoopGiveUp
<1>13. ASSUME NEW ok \in BOOLEAN, Write(ok)
      PROVE  OneConnectionOpen'
  BY <1>13 DEF Write
<1>14. CASE WriteDenied
  BY <1>14 DEF WriteDenied
<1>15. CASE WriteNull
  BY <1>15 DEF WriteNull
<1>16. CASE ShutdownRest
  BY <1>16 DEF ShutdownRest, AfterClose
<1>17. CASE LoopStart
  BY <1>17 DEF LoopStart
<1>18. ASSUME NEW c \in Conns, ConnectedBegin(c)
      PROVE  OneConnectionOpen'
  BY <1>18 DEF ConnectedBegin, TypeOK
<1>19. ASSUME NEW c \in Conns, DiscoveredBegin(c)
      PROVE  OneConnectionOpen'
  BY <1>19 DEF DiscoveredBegin
<1>20. ASSUME NEW c \in Conns, DisconnectedBegin(c)
      PROVE  OneConnectionOpen'
  BY <1>20 DEF DisconnectedBegin, TypeOK
<1>21. ASSUME NEW c \in Conns, ConnectedEnd(c)
      PROVE  OneConnectionOpen'
  BY <1>21 DEF ConnectedEnd
<1>22. ASSUME NEW c \in Conns, DiscoveredEnd(c)
      PROVE  OneConnectionOpen'
  BY <1>22 DEF DiscoveredEnd
<1>23. ASSUME NEW c \in Conns, DisconnectedClose(c)
      PROVE  OneConnectionOpen'
  BY <1>23 DEF DisconnectedClose, TypeOK
<1>24. ASSUME NEW c \in Conns, DisconnectedClear(c)
      PROVE  OneConnectionOpen'
  BY <1>24 DEF DisconnectedClear
<1>25. ASSUME NEW c \in Conns, CallbackCheck(c)
      PROVE  OneConnectionOpen'
  BY <1>25 DEF CallbackCheck
<1>26. ASSUME NEW c \in Conns, CallbackSet(c)
      PROVE  OneConnectionOpen'
  BY <1>26 DEF CallbackSet
<1>27. ASSUME NEW c \in Conns, CallbackReset(c)
      PROVE  OneConnectionOpen'
  BY <1>27 DEF CallbackReset
<1>28. ASSUME NEW c \in Conns, CallbackPost(c)
      PROVE  OneConnectionOpen'
  BY <1>28 DEF CallbackPost
<1>29. CASE Scan
  BY <1>29 DEF Scan
<1>30. CASE ScanFinds
  BY <1>30 DEF ScanFinds
<1>31. CASE ScanTimeout
  BY <1>31 DEF ScanTimeout
<1>32. ASSUME NEW s \in results, ScanResult(s)
      PROVE  OneConnectionOpen'
  BY <1>32 DEF ScanResult
<1>33. CASE Send
  BY <1>33 DEF Send
<1>34. ASSUME NEW r \in retries, Retry(r)
      PROVE  OneConnectionOpen'
  BY <1>34 DEF Retry
<1>35. CASE ShutdownFlag
  BY <1>35 DEF ShutdownFlag
<1>36. QED
  BY <1>1, <1>2, <1>3, <1>4, <1>5, <1>6, <1>7, <1>8, <1>9, <1>10, <1>11, <1>12, <1>13,
     <1>14, <1>15, <1>16, <1>17, <1>18, <1>19, <1>20, <1>21, <1>22, <1>23, <1>24, <1>25,
     <1>26, <1>27, <1>28, <1>29, <1>30, <1>31, <1>32, <1>33, <1>34, <1>35
     DEF Next, MainStep, Schedule, Reported, CallbackStep

LEMMA LoopAliveStep ==
  ASSUME TypeOK, SomeLoopIsAlive, [Next]_vars
  PROVE  SomeLoopIsAlive'
<1> USE DEF SomeLoopIsAlive, mainVars, loopVars, gattVars, scanVars, writeVars
<1>1. CASE UNCHANGED vars
  BY <1>1 DEF vars
<1>2. CASE ScheduleCheck
  BY <1>2 DEF ScheduleCheck
<1>3. CASE ScheduleSet
  BY <1>3 DEF ScheduleSet
<1>4. CASE ScheduleReset
  BY <1>4 DEF ScheduleReset
<1>5. CASE SchedulePost
  BY <1>5 DEF SchedulePost, TypeOK
<1>6. CASE LoopWait
  BY <1>6 DEF LoopWait, TypeOK
<1>7. ASSUME NEW c \in Conns, LoopConnect(c)
      PROVE  SomeLoopIsAlive'
  BY <1>7 DEF LoopConnect
<1>8. CASE LoopDenied \/ LoopConnectNull
  BY <1>8 DEF LoopDenied, LoopConnectNull
<1>9. CASE LoopRead
  BY <1>9 DEF LoopRead
<1>10. CASE LoopCount
  BY <1>10 DEF LoopCount
<1>11. CASE LoopDecide
  BY <1>11 DEF LoopDecide, TypeOK
<1>12. CASE LoopGiveUp
  BY <1>12 DEF LoopGiveUp
<1>13. ASSUME NEW ok \in BOOLEAN, Write(ok)
      PROVE  SomeLoopIsAlive'
  BY <1>13 DEF Write
<1>14. CASE WriteDenied
  BY <1>14 DEF WriteDenied
<1>15. CASE WriteNull
  BY <1>15 DEF WriteNull
<1>16. CASE ShutdownRest
  BY <1>16 DEF ShutdownRest
<1>17. CASE LoopStart
  BY <1>17 DEF LoopStart, TypeOK
<1>18. ASSUME NEW c \in Conns, ConnectedBegin(c)
      PROVE  SomeLoopIsAlive'
  BY <1>18 DEF ConnectedBegin, TypeOK
<1>19. ASSUME NEW c \in Conns, DiscoveredBegin(c)
      PROVE  SomeLoopIsAlive'
  BY <1>19 DEF DiscoveredBegin, TypeOK
<1>20. ASSUME NEW c \in Conns, DisconnectedBegin(c)
      PROVE  SomeLoopIsAlive'
  BY <1>20 DEF DisconnectedBegin, TypeOK
<1>21. ASSUME NEW c \in Conns, ConnectedEnd(c)
      PROVE  SomeLoopIsAlive'
  BY <1>21 DEF ConnectedEnd, TypeOK
<1>22. ASSUME NEW c \in Conns, DiscoveredEnd(c)
      PROVE  SomeLoopIsAlive'
  BY <1>22 DEF DiscoveredEnd, TypeOK
<1>23. ASSUME NEW c \in Conns, DisconnectedClose(c)
      PROVE  SomeLoopIsAlive'
  BY <1>23 DEF DisconnectedClose, TypeOK
<1>24. ASSUME NEW c \in Conns, DisconnectedClear(c)
      PROVE  SomeLoopIsAlive'
  BY <1>24 DEF DisconnectedClear, TypeOK
<1>25. ASSUME NEW c \in Conns, CallbackCheck(c)
      PROVE  SomeLoopIsAlive'
  BY <1>25 DEF CallbackCheck, TypeOK
<1>26. ASSUME NEW c \in Conns, CallbackSet(c)
      PROVE  SomeLoopIsAlive'
  BY <1>26 DEF CallbackSet, TypeOK
<1>27. ASSUME NEW c \in Conns, CallbackReset(c)
      PROVE  SomeLoopIsAlive'
  BY <1>27 DEF CallbackReset, TypeOK
<1>28. ASSUME NEW c \in Conns, CallbackPost(c)
      PROVE  SomeLoopIsAlive'
  BY <1>28 DEF CallbackPost, TypeOK
<1>29. CASE Scan
  BY <1>29 DEF Scan
<1>30. CASE ScanFinds
  BY <1>30 DEF ScanFinds
<1>31. CASE ScanTimeout
  BY <1>31 DEF ScanTimeout
<1>32. ASSUME NEW s \in results, ScanResult(s)
      PROVE  SomeLoopIsAlive'
  BY <1>32 DEF ScanResult
<1>33. CASE Send
  BY <1>33 DEF Send
<1>34. ASSUME NEW r \in retries, Retry(r)
      PROVE  SomeLoopIsAlive'
  BY <1>34 DEF Retry
<1>35. CASE ShutdownFlag
  BY <1>35 DEF ShutdownFlag
<1>36. QED
  BY <1>1, <1>2, <1>3, <1>4, <1>5, <1>6, <1>7, <1>8, <1>9, <1>10, <1>11, <1>12, <1>13,
     <1>14, <1>15, <1>16, <1>17, <1>18, <1>19, <1>20, <1>21, <1>22, <1>23, <1>24, <1>25,
     <1>26, <1>27, <1>28, <1>29, <1>30, <1>31, <1>32, <1>33, <1>34, <1>35
     DEF Next, MainStep, Schedule, Reported, CallbackStep

LEMMA DownStep ==
  ASSUME TypeOK, OneConnectionOpen, DownInv, [Next]_vars
  PROVE  DownInv'
<1> USE DEF DownInv, mainVars, loopVars, gattVars, scanVars, writeVars
<1>1. CASE UNCHANGED vars
  BY <1>1 DEF vars
<1>2. CASE ScheduleCheck
  BY <1>2 DEF ScheduleCheck
<1>3. CASE ScheduleSet
  BY <1>3 DEF ScheduleSet
<1>4. CASE ScheduleReset
  BY <1>4 DEF ScheduleReset
<1>5. CASE SchedulePost
  BY <1>5 DEF SchedulePost
<1>6. CASE LoopWait
  BY <1>6 DEF LoopWait
<1>7. ASSUME NEW c \in Conns, LoopConnect(c)
      PROVE  DownInv'
  BY <1>7 DEF LoopConnect
<1>8. CASE LoopDenied \/ LoopConnectNull
  BY <1>8 DEF LoopDenied, LoopConnectNull
<1>9. CASE LoopRead
  BY <1>9 DEF LoopRead
<1>10. CASE LoopCount
  BY <1>10 DEF LoopCount
<1>11. CASE LoopDecide
  BY <1>11 DEF LoopDecide
<1>12. CASE LoopGiveUp
  BY <1>12 DEF LoopGiveUp
<1>13. ASSUME NEW ok \in BOOLEAN, Write(ok)
      PROVE  DownInv'
  BY <1>13 DEF Write
<1>14. CASE WriteDenied
  BY <1>14 DEF WriteDenied
<1>15. CASE WriteNull
  BY <1>15 DEF WriteNull
<1>16. CASE ShutdownRest
  BY <1>16 DEF ShutdownRest, AfterClose, PostedAfterShutdown, OutOfReach, OneConnectionOpen, TypeOK, CallbackPlaces
<1>17. CASE LoopStart
  BY <1>17 DEF LoopStart
<1>18. ASSUME NEW c \in Conns, ConnectedBegin(c)
      PROVE  DownInv'
  BY <1>18 DEF ConnectedBegin
<1>19. ASSUME NEW c \in Conns, DiscoveredBegin(c)
      PROVE  DownInv'
  BY <1>19 DEF DiscoveredBegin, TypeOK
<1>20. ASSUME NEW c \in Conns, DisconnectedBegin(c)
      PROVE  DownInv'
  BY <1>20 DEF DisconnectedBegin
<1>21. ASSUME NEW c \in Conns, ConnectedEnd(c)
      PROVE  DownInv'
  BY <1>21 DEF ConnectedEnd, TypeOK
<1>22. ASSUME NEW c \in Conns, DiscoveredEnd(c)
      PROVE  DownInv'
  BY <1>22 DEF DiscoveredEnd, TypeOK
<1>23. ASSUME NEW c \in Conns, DisconnectedClose(c)
      PROVE  DownInv'
  BY <1>23 DEF DisconnectedClose
<1>24. ASSUME NEW c \in Conns, DisconnectedClear(c)
      PROVE  DownInv'
  BY <1>24 DEF DisconnectedClear
<1>25. ASSUME NEW c \in Conns, CallbackCheck(c)
      PROVE  DownInv'
  BY <1>25 DEF CallbackCheck
<1>26. ASSUME NEW c \in Conns, CallbackSet(c)
      PROVE  DownInv'
  BY <1>26 DEF CallbackSet
<1>27. ASSUME NEW c \in Conns, CallbackReset(c)
      PROVE  DownInv'
  BY <1>27 DEF CallbackReset
<1>28. ASSUME NEW c \in Conns, CallbackPost(c)
      PROVE  DownInv'
  BY <1>28 DEF CallbackPost
<1>29. CASE Scan
  BY <1>29 DEF Scan
<1>30. CASE ScanFinds
  BY <1>30 DEF ScanFinds
<1>31. CASE ScanTimeout
  BY <1>31 DEF ScanTimeout
<1>32. ASSUME NEW s \in results, ScanResult(s)
      PROVE  DownInv'
  BY <1>32 DEF ScanResult
<1>33. CASE Send
  BY <1>33 DEF Send, Ready
<1>34. ASSUME NEW r \in retries, Retry(r)
      PROVE  DownInv'
  BY <1>34 DEF Retry
<1>35. CASE ShutdownFlag
  BY <1>35 DEF ShutdownFlag
<1>36. QED
  BY <1>1, <1>2, <1>3, <1>4, <1>5, <1>6, <1>7, <1>8, <1>9, <1>10, <1>11, <1>12, <1>13,
     <1>14, <1>15, <1>16, <1>17, <1>18, <1>19, <1>20, <1>21, <1>22, <1>23, <1>24, <1>25,
     <1>26, <1>27, <1>28, <1>29, <1>30, <1>31, <1>32, <1>33, <1>34, <1>35
     DEF Next, MainStep, Schedule, Reported, CallbackStep

LEMMA CmdStep ==
  ASSUME TypeOK, CmdInv, [Next]_vars
  PROVE  CmdInv'
<1> USE DEF CmdInv, mainVars, loopVars, gattVars, scanVars, writeVars
<1>1. CASE UNCHANGED vars
  BY <1>1 DEF vars
<1>2. CASE ScheduleCheck
  BY <1>2 DEF ScheduleCheck
<1>3. CASE ScheduleSet
  BY <1>3 DEF ScheduleSet
<1>4. CASE ScheduleReset
  BY <1>4 DEF ScheduleReset
<1>5. CASE SchedulePost
  BY <1>5 DEF SchedulePost
<1>6. CASE LoopWait
  BY <1>6 DEF LoopWait
<1>7. ASSUME NEW c \in Conns, LoopConnect(c)
      PROVE  CmdInv'
  BY <1>7 DEF LoopConnect
<1>8. CASE LoopDenied \/ LoopConnectNull
  BY <1>8 DEF LoopDenied, LoopConnectNull
<1>9. CASE LoopRead
  BY <1>9 DEF LoopRead
<1>10. CASE LoopCount
  BY <1>10 DEF LoopCount
<1>11. CASE LoopDecide
  BY <1>11 DEF LoopDecide
<1>12. CASE LoopGiveUp
  BY <1>12 DEF LoopGiveUp
<1>13. ASSUME NEW ok \in BOOLEAN, Write(ok)
      PROVE  CmdInv'
  BY <1>13 DEF Write, RetryAfter, TypeOK, WriteType
<1>14. CASE WriteDenied
  BY <1>14 DEF WriteDenied
<1>15. CASE WriteNull
  BY <1>15 DEF WriteNull
<1>16. CASE ShutdownRest
  BY <1>16 DEF ShutdownRest
<1>17. CASE LoopStart
  BY <1>17 DEF LoopStart
<1>18. ASSUME NEW c \in Conns, ConnectedBegin(c)
      PROVE  CmdInv'
  BY <1>18 DEF ConnectedBegin
<1>19. ASSUME NEW c \in Conns, DiscoveredBegin(c)
      PROVE  CmdInv'
  BY <1>19 DEF DiscoveredBegin
<1>20. ASSUME NEW c \in Conns, DisconnectedBegin(c)
      PROVE  CmdInv'
  BY <1>20 DEF DisconnectedBegin
<1>21. ASSUME NEW c \in Conns, ConnectedEnd(c)
      PROVE  CmdInv'
  BY <1>21 DEF ConnectedEnd
<1>22. ASSUME NEW c \in Conns, DiscoveredEnd(c)
      PROVE  CmdInv'
  BY <1>22 DEF DiscoveredEnd
<1>23. ASSUME NEW c \in Conns, DisconnectedClose(c)
      PROVE  CmdInv'
  BY <1>23 DEF DisconnectedClose
<1>24. ASSUME NEW c \in Conns, DisconnectedClear(c)
      PROVE  CmdInv'
  BY <1>24 DEF DisconnectedClear
<1>25. ASSUME NEW c \in Conns, CallbackCheck(c)
      PROVE  CmdInv'
  BY <1>25 DEF CallbackCheck
<1>26. ASSUME NEW c \in Conns, CallbackSet(c)
      PROVE  CmdInv'
  BY <1>26 DEF CallbackSet
<1>27. ASSUME NEW c \in Conns, CallbackReset(c)
      PROVE  CmdInv'
  BY <1>27 DEF CallbackReset
<1>28. ASSUME NEW c \in Conns, CallbackPost(c)
      PROVE  CmdInv'
  BY <1>28 DEF CallbackPost
<1>29. CASE Scan
  BY <1>29 DEF Scan
<1>30. CASE ScanFinds
  BY <1>30 DEF ScanFinds
<1>31. CASE ScanTimeout
  BY <1>31 DEF ScanTimeout
<1>32. ASSUME NEW s \in results, ScanResult(s)
      PROVE  CmdInv'
  BY <1>32 DEF ScanResult
<1>33. CASE Send
  BY <1>33 DEF Send, TypeOK, WriteType
<1>34. ASSUME NEW r \in retries, Retry(r)
      PROVE  CmdInv'
  BY <1>34 DEF Retry
<1>35. CASE ShutdownFlag
  BY <1>35 DEF ShutdownFlag
<1>36. QED
  BY <1>1, <1>2, <1>3, <1>4, <1>5, <1>6, <1>7, <1>8, <1>9, <1>10, <1>11, <1>12, <1>13,
     <1>14, <1>15, <1>16, <1>17, <1>18, <1>19, <1>20, <1>21, <1>22, <1>23, <1>24, <1>25,
     <1>26, <1>27, <1>28, <1>29, <1>30, <1>31, <1>32, <1>33, <1>34, <1>35
     DEF Next, MainStep, Schedule, Reported, CallbackStep

LEMMA ScanStep ==
  ASSUME TypeOK, ScanHasTimeout, [Next]_vars
  PROVE  ScanHasTimeout'
<1> USE DEF ScanHasTimeout, mainVars, loopVars, gattVars, scanVars, writeVars
<1>1. CASE UNCHANGED vars
  BY <1>1 DEF vars
<1>2. CASE ScheduleCheck
  BY <1>2 DEF ScheduleCheck
<1>3. CASE ScheduleSet
  BY <1>3 DEF ScheduleSet
<1>4. CASE ScheduleReset
  BY <1>4 DEF ScheduleReset
<1>5. CASE SchedulePost
  BY <1>5 DEF SchedulePost
<1>6. CASE LoopWait
  BY <1>6 DEF LoopWait
<1>7. ASSUME NEW c \in Conns, LoopConnect(c)
      PROVE  ScanHasTimeout'
  BY <1>7 DEF LoopConnect
<1>8. CASE LoopDenied \/ LoopConnectNull
  BY <1>8 DEF LoopDenied, LoopConnectNull
<1>9. CASE LoopRead
  BY <1>9 DEF LoopRead
<1>10. CASE LoopCount
  BY <1>10 DEF LoopCount
<1>11. CASE LoopDecide
  BY <1>11 DEF LoopDecide
<1>12. CASE LoopGiveUp
  BY <1>12 DEF LoopGiveUp
<1>13. ASSUME NEW ok \in BOOLEAN, Write(ok)
      PROVE  ScanHasTimeout'
  BY <1>13 DEF Write
<1>14. CASE WriteDenied
  BY <1>14 DEF WriteDenied
<1>15. CASE WriteNull
  BY <1>15 DEF WriteNull
<1>16. CASE ShutdownRest
  BY <1>16 DEF ShutdownRest
<1>17. CASE LoopStart
  BY <1>17 DEF LoopStart
<1>18. ASSUME NEW c \in Conns, ConnectedBegin(c)
      PROVE  ScanHasTimeout'
  BY <1>18 DEF ConnectedBegin
<1>19. ASSUME NEW c \in Conns, DiscoveredBegin(c)
      PROVE  ScanHasTimeout'
  BY <1>19 DEF DiscoveredBegin
<1>20. ASSUME NEW c \in Conns, DisconnectedBegin(c)
      PROVE  ScanHasTimeout'
  BY <1>20 DEF DisconnectedBegin
<1>21. ASSUME NEW c \in Conns, ConnectedEnd(c)
      PROVE  ScanHasTimeout'
  BY <1>21 DEF ConnectedEnd
<1>22. ASSUME NEW c \in Conns, DiscoveredEnd(c)
      PROVE  ScanHasTimeout'
  BY <1>22 DEF DiscoveredEnd
<1>23. ASSUME NEW c \in Conns, DisconnectedClose(c)
      PROVE  ScanHasTimeout'
  BY <1>23 DEF DisconnectedClose
<1>24. ASSUME NEW c \in Conns, DisconnectedClear(c)
      PROVE  ScanHasTimeout'
  BY <1>24 DEF DisconnectedClear
<1>25. ASSUME NEW c \in Conns, CallbackCheck(c)
      PROVE  ScanHasTimeout'
  BY <1>25 DEF CallbackCheck
<1>26. ASSUME NEW c \in Conns, CallbackSet(c)
      PROVE  ScanHasTimeout'
  BY <1>26 DEF CallbackSet
<1>27. ASSUME NEW c \in Conns, CallbackReset(c)
      PROVE  ScanHasTimeout'
  BY <1>27 DEF CallbackReset
<1>28. ASSUME NEW c \in Conns, CallbackPost(c)
      PROVE  ScanHasTimeout'
  BY <1>28 DEF CallbackPost
<1>29. CASE Scan
  BY <1>29 DEF Scan, TimeoutPosted, TypeOK
<1>30. CASE ScanFinds
  BY <1>30 DEF ScanFinds
<1>31. CASE ScanTimeout
  BY <1>31 DEF ScanTimeout
<1>32. ASSUME NEW s \in results, ScanResult(s)
      PROVE  ScanHasTimeout'
  BY <1>32 DEF ScanResult
<1>33. CASE Send
  BY <1>33 DEF Send
<1>34. ASSUME NEW r \in retries, Retry(r)
      PROVE  ScanHasTimeout'
  BY <1>34 DEF Retry
<1>35. CASE ShutdownFlag
  BY <1>35 DEF ShutdownFlag
<1>36. QED
  BY <1>1, <1>2, <1>3, <1>4, <1>5, <1>6, <1>7, <1>8, <1>9, <1>10, <1>11, <1>12, <1>13,
     <1>14, <1>15, <1>16, <1>17, <1>18, <1>19, <1>20, <1>21, <1>22, <1>23, <1>24, <1>25,
     <1>26, <1>27, <1>28, <1>29, <1>30, <1>31, <1>32, <1>33, <1>34, <1>35
     DEF Next, MainStep, Schedule, Reported, CallbackStep

-----------------------------------------------------------------------------

LEMMA InitIInv == Init => IInv
<1> SUFFICES ASSUME Init PROVE IInv
  OBVIOUS
<1>1. TypeOK
  <2>1. NoWrite \in WriteType
    BY BleAssumption DEF NoWrite, WriteType
  <2>2. 0 \in 0..MaxAttempts /\ 0 \in 0..MaxScans /\ 0 \in 0..MaxCmds
    BY BleAssumption
  <2>3. QED
    BY <2>1, <2>2 DEF Init, TypeOK, MainPlaces, CallbackPlaces
<1>2. OneConnectionOpen /\ SomeLoopIsAlive /\ DownInv /\ CmdInv /\ ScanHasTimeout
  BY DEF Init, OneConnectionOpen, SomeLoopIsAlive, DownInv, CmdInv, ScanHasTimeout
<1>3. QED
  BY <1>1, <1>2 DEF IInv

(* Every reachable state has the types of BleServerManager's members.       *)
THEOREM TypeCorrect == Spec => []TypeOK
<1>1. Init => TypeOK
  BY InitIInv DEF IInv
<1>2. TypeOK /\ [Next]_vars => TypeOK'
  BY TypeStep
<1>3. QED
  BY <1>1, <1>2, PTL DEF Spec

(* The inductive invariant of the Bluetooth client.                         *)
THEOREM Invariance == Spec => []IInv
<1>1. IInv /\ [Next]_vars => IInv'
  BY TypeStep, ConnectionStep, LoopAliveStep, DownStep, CmdStep, ScanStep DEF IInv
<1>2. QED
  BY <1>1, InitIInv, PTL DEF Spec

(* No gatt is left open behind another (the loop's close, the callback's    *)
(* close and shutdown's).                                                   *)
THEOREM NoConnectionLeaks == Spec => []OneConnectionOpen
<1>1. IInv => OneConnectionOpen
  BY DEF IInv
<1>2. QED
  BY <1>1, Invariance, PTL

(* isReconnecting never stays set without a loop (scheduleReconnect and the *)
(* runnable it posts).                                                      *)
THEOREM LoopStaysAlive == Spec => []SomeLoopIsAlive
<1>1. IInv => SomeLoopIsAlive
  BY DEF IInv
<1>2. QED
  BY <1>1, Invariance, PTL

(* Nothing happens after a shutdown that reached everything.                *)
THEOREM DownForGood == Spec => []ShutdownIsFinal
<1>1. IInv => ShutdownIsFinal
  BY DEF IInv, DownInv, ShutdownIsFinal
<1>2. QED
  BY <1>1, Invariance, PTL

(* writeInternal tries no command again that a gatt has accepted.           *)
THEOREM NotSentAgain == Spec => []SentOnce
<1>1. IInv => SentOnce
  BY DEF IInv, CmdInv, SentOnce
<1>2. QED
  BY <1>1, Invariance, PTL

(* A scan that is on has a timeout to end it (scanMokukuDevices).           *)
THEOREM ScansEnd == Spec => []ScanHasTimeout
<1>1. IInv => ScanHasTimeout
  BY DEF IInv
<1>2. QED
  BY <1>1, Invariance, PTL
=============================================================================
