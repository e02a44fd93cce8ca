------------------------ MODULE CleanSnapshotProofs ------------------------
(***************************************************************************)
(* For every number of runs: a snapshot is restored once, a running cache  *)
(* has only late files beside it, and a restored snapshot that is not a    *)
(* late one was saved by the last run that had served.                     *)
(***************************************************************************)
EXTENDS CleanSnapshot, TLAPS

\* The lock belongs to the newest run that started and has not let it go.
LockInv ==
    /\ lock # 0 => main[lock] \in Owning
    /\ \A r \in Runs : main[r] \in Owning => lock = r
    /\ \A q, r \in Runs : main[r] \in Owning /\ main[q] # "none" => q <= r
    /\ \A r \in Runs : main[r] = "none" => work[r] = "idle" /\ held[r] = 0
    /\ \A r \in Runs : main[r] \in {"bound", "serving"} => work[r] = "consumed"
    /\ \A r \in served : main[r] \notin {"none", "consuming", "bound"}

\* The worker of r has renamed its snapshot, which it does once.
Published(r) == work[r] \in {"renamed", "done"}

PublishedInv ==
    /\ \A s \in maybe : s # 0 => Published(s)
    /\ \A r \in Runs : held[r] # 0 => Published(held[r])
    /\ \A p \in restored : Published(p[1])

\* What the owner's worker has made of the directory.
DirInv ==
    /\ clean \in maybe
    /\ \A r \in Runs : main[r] \in Owning /\ work[r] \in {"absent", "unlinked"}
                         => clean \in late \cup {0}
    /\ \A r \in Runs :
         main[r] \in Owning /\ work[r] \in {"consumed", "save", "write", "check", "rename"}
                         => maybe \subseteq late \cup {0}

\* A snapshot that is not late is not older than a run that served.
Latest(s) == s \in late \/ \A q \in served : q <= s

LatestInv ==
    /\ \A s \in maybe : s # 0 => Latest(s)
    /\ \A r \in Runs : main[r] \in {"consuming", "bound"} /\ held[r] # 0 => Latest(held[r])
    /\ \A p \in restored : p[2] \in served
    /\ RestoredIsLatest

\* A snapshot restored, or about to be, is no longer in the directory.
OnceInv ==
    /\ \A p \in restored : p[1] \notin maybe
    /\ \A r \in Runs : main[r] \in Owning /\ work[r] = "consumed" /\ held[r] # 0
                         => held[r] \notin maybe
    /\ \A r \in Runs : main[r] \in Owning /\ work[r] = "unlinked" /\ held[r] # 0
                         => clean # held[r]
    /\ \A r \in Runs : main[r] \in Owning /\ work[r] = "absent" => held[r] = 0
    /\ \A r \in Runs : main[r] \in {"consuming", "bound"} /\ held[r] # 0
                         => \A p \in restored : p[1] # held[r]
    /\ RestoredOnce

FlushedInv ==
    /\ \A r \in Runs : work[r] \in {"check", "rename"} => r \in flushed
    /\ maybe \ {0} \subseteq flushed

IInv == /\ TypeOK /\ LockInv /\ PublishedInv /\ DirInv /\ LatestInv /\ OnceInv /\ FlushedInv

\* The shapes are kept.
LEMMA TypeStep == TypeOK /\ [Next]_vars => TypeOK'
  <1> SUFFICES ASSUME TypeOK, [Next]_vars PROVE TypeOK'
    OBVIOUS
  <1> USE MaxRunsAssumption DEF TypeOK,
      Runs, Owning, Workers, Then, disk, history
  <1>1. ASSUME NEW r \in Runs, Start(r) PROVE TypeOK'
    BY <1>1, SMTT(30) DEF Start
  <1>2. ASSUME NEW r \in Runs, NEW accepted \in BOOLEAN, ConsumeOpen(r, accepted) PROVE TypeOK'
    BY <1>2 DEF ConsumeOpen, Working, Alive
  <1>3. ASSUME NEW r \in Runs, ConsumeUnlink(r) PROVE TypeOK'
    BY <1>3, SMTT(30) DEF ConsumeUnlink, Working, Alive
  <1>4. ASSUME NEW r \in Runs, NEW synced \in BOOLEAN, ConsumeSync(r, synced) PROVE TypeOK'
    BY <1>4 DEF ConsumeSync, Working, Alive
  <1>5. ASSUME NEW r \in Runs, Bind(r) PROVE TypeOK'
    BY <1>5 DEF Bind
  <1>6. ASSUME NEW r \in Runs, StartupFails(r) PROVE TypeOK'
    BY <1>6 DEF StartupFails
  <1>7. ASSUME NEW r \in Runs, NEW accepted \in BOOLEAN, Serve(r, accepted) PROVE TypeOK'
    BY <1>7 DEF Serve
  <1>8. ASSUME NEW r \in Runs, NEW quiescent \in BOOLEAN, Stop(r, quiescent) PROVE TypeOK'
    BY <1>8 DEF Stop
  <1>9. ASSUME NEW r \in Runs, NEW enabled \in BOOLEAN, SaveStart(r, enabled) PROVE TypeOK'
    BY <1>9 DEF SaveStart, Working, Alive
  <1>10. ASSUME NEW r \in Runs, NEW ok \in BOOLEAN, SaveWrite(r, ok) PROVE TypeOK'
    BY <1>10 DEF SaveWrite, Working, Alive
  <1>11. ASSUME NEW r \in Runs, SaveCheck(r) PROVE TypeOK'
    BY <1>11 DEF SaveCheck, Working, Alive
  <1>12. ASSUME NEW r \in Runs, NEW ok \in BOOLEAN, SaveRename(r, ok) PROVE TypeOK'
    BY <1>12 DEF SaveRename, Working, Alive
  <1>13. ASSUME NEW r \in Runs, NEW synced \in BOOLEAN, SaveSync(r, synced) PROVE TypeOK'
    BY <1>13 DEF SaveSync, Working, Alive
  <1>14. ASSUME NEW r \in Runs, SaveTimeout(r) PROVE TypeOK'
    BY <1>14, SMTT(30) DEF SaveTimeout
  <1>15. ASSUME NEW r \in Runs, Close(r) PROVE TypeOK'
    BY <1>15 DEF Close
  <1>16. ASSUME NEW r \in Runs, Exit(r) PROVE TypeOK'
    BY <1>16 DEF Exit, Alive
  <1>17. ASSUME NEW kept \in maybe, PowerLoss(kept) PROVE TypeOK'
    BY <1>17 DEF PowerLoss
  <1>18. CASE UNCHANGED vars
    BY <1>18 DEF vars
  <1> HIDE MaxRunsAssumption DEF TypeOK,
      Runs, Owning, Workers, Then, disk, history
  <1> QED
    BY <1>1, <1>2, <1>3, <1>4, <1>5, <1>6, <1>7, <1>8, <1>9, <1>10,
       <1>11, <1>12, <1>13, <1>14, <1>15, <1>16, <1>17, <1>18
    DEF Next, StartupNext, ShutdownNext

\* The lock stays with the newest run.
LEMMA LockStep == TypeOK /\ LockInv /\ [Next]_vars => LockInv'
  <1> SUFFICES ASSUME TypeOK, LockInv, [Next]_vars PROVE LockInv'
    OBVIOUS
  <1> USE MaxRunsAssumption DEF TypeOK, LockInv,
      Runs, Owning, Workers, Then, disk, history
  <1>1. ASSUME NEW r \in Runs, Start(r) PROVE LockInv'
    BY <1>1 DEF Start
  <1>2. ASSUME NEW r \in Runs, NEW accepted \in BOOLEAN, ConsumeOpen(r, accepted) PROVE LockInv'
    BY <1>2 DEF ConsumeOpen, Working, Alive
  <1>3. ASSUME NEW r \in Runs, ConsumeUnlink(r) PROVE LockInv'
    BY <1>3 DEF ConsumeUnlink, Working, Alive
  <1>4. ASSUME NEW r \in Runs, NEW synced \in BOOLEAN, ConsumeSync(r, synced) PROVE LockInv'
    BY <1>4 DEF ConsumeSync, Working, Alive
  <1>5. ASSUME NEW r \in Runs, Bind(r) PROVE LockInv'
    BY <1>5 DEF Bind
  <1>6. ASSUME NEW r \in Runs, StartupFails(r) PROVE LockInv'
    BY <1>6 DEF StartupFails
  <1>7. ASSUME NEW r \in Runs, NEW accepted \in BOOLEAN, Serve(r, accepted) PROVE LockInv'
    BY <1>7 DEF Serve
  <1>8. ASSUME NEW r \in Runs, NEW quiescent \in BOOLEAN, Stop(r, quiescent) PROVE LockInv'
    BY <1>8 DEF Stop
  <1>9. ASSUME NEW r \in Runs, NEW enabled \in BOOLEAN, SaveStart(r, enabled) PROVE LockInv'
    BY <1>9 DEF SaveStart, Working, Alive
  <1>10. ASSUME NEW r \in Runs, NEW ok \in BOOLEAN, SaveWrite(r, ok) PROVE LockInv'
    BY <1>10 DEF SaveWrite, Working, Alive
  <1>11. ASSUME NEW r \in Runs, SaveCheck(r) PROVE LockInv'
    BY <1>11 DEF SaveCheck, Working, Alive
  <1>12. ASSUME NEW r \in Runs, NEW ok \in BOOLEAN, SaveRename(r, ok) PROVE LockInv'
    BY <1>12 DEF SaveRename, Working, Alive
  <1>13. ASSUME NEW r \in Runs, NEW synced \in BOOLEAN, SaveSync(r, synced) PROVE LockInv'
    BY <1>13 DEF SaveSync, Working, Alive
  <1>14. ASSUME NEW r \in Runs, SaveTimeout(r) PROVE LockInv'
    BY <1>14 DEF SaveTimeout
  <1>15. ASSUME NEW r \in Runs, Close(r) PROVE LockInv'
    BY <1>15 DEF Close
  <1>16. ASSUME NEW r \in Runs, Exit(r) PROVE LockInv'
    BY <1>16 DEF Exit, Alive
  <1>17. ASSUME NEW kept \in maybe, PowerLoss(kept) PROVE LockInv'
    BY <1>17 DEF PowerLoss
  <1>18. CASE UNCHANGED vars
    BY <1>18 DEF vars
  <1> HIDE MaxRunsAssumption DEF TypeOK, LockInv,
      Runs, Owning, Workers, Then, disk, history
  <1> QED
    BY <1>1, <1>2, <1>3, <1>4, <1>5, <1>6, <1>7, <1>8, <1>9, <1>10,
       <1>11, <1>12, <1>13, <1>14, <1>15, <1>16, <1>17, <1>18
    DEF Next, StartupNext, ShutdownNext

\* A snapshot in reach was renamed, and is not renamed again.
LEMMA PublishedStep == TypeOK /\ LockInv /\ PublishedInv /\ DirInv /\ [Next]_vars => PublishedInv'
  <1> SUFFICES ASSUME TypeOK, LockInv, PublishedInv, DirInv, [Next]_vars PROVE PublishedInv'
    OBVIOUS
  <1> USE MaxRunsAssumption DEF TypeOK, LockInv, PublishedInv, DirInv,
      Runs, Owning, Workers, Then, disk, history, Published
  <1>1. ASSUME NEW r \in Runs, Start(r) PROVE PublishedInv'
    <2>1. UNCHANGED <<maybe, held, restored>>
      BY <1>1 DEF Start
    <2>2. \A q \in Runs : Published(q) => Published(q)'
      <3>1. work[r] = "idle" /\ work' = [work EXCEPT ![r] = "open"]
        BY <1>1 DEF Start
      <3> QED
        BY <3>1
    <2>3. \A p \in restored : p[1] \in Runs
      OBVIOUS
    <2> QED
      BY <2>1, <2>2, <2>3
  <1>2. ASSUME NEW r \in Runs, NEW accepted \in BOOLEAN, ConsumeOpen(r, accepted) PROVE PublishedInv'
    BY <1>2 DEF ConsumeOpen, Working, Alive
  <1>3. ASSUME NEW r \in Runs, ConsumeUnlink(r) PROVE PublishedInv'
    BY <1>3 DEF ConsumeUnlink, Working, Alive
  <1>4. ASSUME NEW r \in Runs, NEW synced \in BOOLEAN, ConsumeSync(r, synced) PROVE PublishedInv'
    BY <1>4 DEF ConsumeSync, Working, Alive
  <1>5. ASSUME NEW r \in Runs, Bind(r) PROVE PublishedInv'
    BY <1>5 DEF Bind
  <1>6. ASSUME NEW r \in Runs, StartupFails(r) PROVE PublishedInv'
    BY <1>6 DEF StartupFails
  <1>7. ASSUME NEW r \in Runs, NEW accepted \in BOOLEAN, Serve(r, accepted) PROVE PublishedInv'
    BY <1>7 DEF Serve
  <1>8. ASSUME NEW r \in Runs, NEW quiescent \in BOOLEAN, Stop(r, quiescent) PROVE PublishedInv'
    BY <1>8 DEF Stop
  <1>9. ASSUME NEW r \in Runs, NEW enabled \in BOOLEAN, SaveStart(r, enabled) PROVE PublishedInv'
    BY <1>9 DEF SaveStart, Working, Alive
  <1>10. ASSUME NEW r \in Runs, NEW ok \in BOOLEAN, SaveWrite(r, ok) PROVE PublishedInv'
    BY <1>10 DEF SaveWrite, Working, Alive
  <1>11. ASSUME NEW r \in Runs, SaveCheck(r) PROVE PublishedInv'
    BY <1>11 DEF SaveCheck, Working, Alive
  <1>12. ASSUME NEW r \in Runs, NEW ok \in BOOLEAN, SaveRename(r, ok) PROVE PublishedInv'
    BY <1>12 DEF SaveRename, Working, Alive
  <1>13. ASSUME NEW r \in Runs, NEW synced \in BOOLEAN, SaveSync(r, synced) PROVE PublishedInv'
    BY <1>13 DEF SaveSync, Working, Alive
  <1>14. ASSUME NEW r \in Runs, SaveTimeout(r) PROVE PublishedInv'
    BY <1>14 DEF SaveTimeout
  <1>15. ASSUME NEW r \in Runs, Close(r) PROVE PublishedInv'
    BY <1>15 DEF Close
  <1>16. ASSUME NEW r \in Runs, Exit(r) PROVE PublishedInv'
    BY <1>16 DEF Exit, Alive
  <1>17. ASSUME NEW kept \in maybe, PowerLoss(kept) PROVE PublishedInv'
    BY <1>17 DEF PowerLoss
  <1>18. CASE UNCHANGED vars
    BY <1>18 DEF vars
  <1> HIDE MaxRunsAssumption DEF TypeOK, LockInv, PublishedInv, DirInv,
      Runs, Owning, Workers, Then, disk, history, Published
  <1> QED
    BY <1>1, <1>2, <1>3, <1>4, <1>5, <1>6, <1>7, <1>8, <1>9, <1>10,
       <1>11, <1>12, <1>13, <1>14, <1>15, <1>16, <1>17, <1>18
    DEF Next, StartupNext, ShutdownNext

\* The owner's worker knows what the directory holds.
LEMMA DirStep == TypeOK /\ LockInv /\ DirInv /\ [Next]_vars => DirInv'
  <1> SUFFICES ASSUME TypeOK, LockInv, DirInv, [Next]_vars PROVE DirInv'
    OBVIOUS
  <1> USE MaxRunsAssumption DEF TypeOK, LockInv, DirInv,
      Runs, Owning, Workers, Then, disk, history
  <1>1. ASSUME NEW r \in Runs, Start(r) PROVE DirInv'
    BY <1>1 DEF Start
  <1>2. ASSUME NEW r \in Runs, NEW accepted \in BOOLEAN, ConsumeOpen(r, accepted) PROVE DirInv'
    BY <1>2 DEF ConsumeOpen, Working, Alive
  <1>3. ASSUME NEW r \in Runs, ConsumeUnlink(r) PROVE DirInv'
    BY <1>3 DEF ConsumeUnlink, Working, Alive
  <1>4. ASSUME NEW r \in Runs, NEW synced \in BOOLEAN, ConsumeSync(r, synced) PROVE DirInv'
    BY <1>4 DEF ConsumeSync, Working, Alive
  <1>5. ASSUME NEW r \in Runs, Bind(r) PROVE DirInv'
    BY <1>5 DEF Bind
  <1>6. ASSUME NEW r \in Runs, StartupFails(r) PROVE DirInv'
    BY <1>6 DEF StartupFails
  <1>7. ASSUME NEW r \in Runs, NEW accepted \in BOOLEAN, Serve(r, accepted) PROVE DirInv'
    BY <1>7 DEF Serve
  <1>8. ASSUME NEW r \in Runs, NEW quiescent \in BOOLEAN, Stop(r, quiescent) PROVE DirInv'
    BY <1>8 DEF Stop
  <1>9. ASSUME NEW r \in Runs, NEW enabled \in BOOLEAN, SaveStart(r, enabled) PROVE DirInv'
    BY <1>9 DEF SaveStart, Working, Alive
  <1>10. ASSUME NEW r \in Runs, NEW ok \in BOOLEAN, SaveWrite(r, ok) PROVE DirInv'
    BY <1>10 DEF SaveWrite, Working, Alive
  <1>11. ASSUME NEW r \in Runs, SaveCheck(r) PROVE DirInv'
    BY <1>11 DEF SaveCheck, Working, Alive
  <1>12. ASSUME NEW r \in Runs, NEW ok \in BOOLEAN, SaveRename(r, ok) PROVE DirInv'
    BY <1>12 DEF SaveRename, Working, Alive
  <1>13. ASSUME NEW r \in Runs, NEW synced \in BOOLEAN, SaveSync(r, synced) PROVE DirInv'
    BY <1>13 DEF SaveSync, Working, Alive
  <1>14. ASSUME NEW r \in Runs, SaveTimeout(r) PROVE DirInv'
    BY <1>14 DEF SaveTimeout
  <1>15. ASSUME NEW r \in Runs, Close(r) PROVE DirInv'
    BY <1>15 DEF Close
  <1>16. ASSUME NEW r \in Runs, Exit(r) PROVE DirInv'
    BY <1>16 DEF Exit, Alive
  <1>17. ASSUME NEW kept \in maybe, PowerLoss(kept) PROVE DirInv'
    BY <1>17 DEF PowerLoss
  <1>18. CASE UNCHANGED vars
    BY <1>18 DEF vars
  <1> HIDE MaxRunsAssumption DEF TypeOK, LockInv, DirInv,
      Runs, Owning, Workers, Then, disk, history
  <1> QED
    BY <1>1, <1>2, <1>3, <1>4, <1>5, <1>6, <1>7, <1>8, <1>9, <1>10,
       <1>11, <1>12, <1>13, <1>14, <1>15, <1>16, <1>17, <1>18
    DEF Next, StartupNext, ShutdownNext

\* No run that serves is newer than a snapshot in reach that is not late.
LEMMA LatestStep == TypeOK /\ LockInv /\ DirInv /\ LatestInv /\ [Next]_vars => LatestInv'
  <1> SUFFICES ASSUME TypeOK, LockInv, DirInv, LatestInv, [Next]_vars PROVE LatestInv'
    OBVIOUS
  <1> USE MaxRunsAssumption DEF TypeOK, LockInv, DirInv, LatestInv,
      Runs, Owning, Workers, Then, disk, history, Latest, RestoredIsLatest
  <1>1. ASSUME NEW r \in Runs, Start(r) PROVE LatestInv'
    BY <1>1 DEF Start
  <1>2. ASSUME NEW r \in Runs, NEW accepted \in BOOLEAN, ConsumeOpen(r, accepted) PROVE LatestInv'
    BY <1>2 DEF ConsumeOpen, Working, Alive
  <1>3. ASSUME NEW r \in Runs, ConsumeUnlink(r) PROVE LatestInv'
    BY <1>3 DEF ConsumeUnlink, Working, Alive
  <1>4. ASSUME NEW r \in Runs, NEW synced \in BOOLEAN, ConsumeSync(r, synced) PROVE LatestInv'
    BY <1>4 DEF ConsumeSync, Working, Alive
  <1>5. ASSUME NEW r \in Runs, Bind(r) PROVE LatestInv'
    BY <1>5 DEF Bind
  <1>6. ASSUME NEW r \in Runs, StartupFails(r) PROVE LatestInv'
    BY <1>6 DEF StartupFails
  <1>7. ASSUME NEW r \in Runs, NEW accepted \in BOOLEAN, Serve(r, accepted) PROVE LatestInv'
    BY <1>7, SMTT(30) DEF Serve
  <1>8. ASSUME NEW r \in Runs, NEW quiescent \in BOOLEAN, Stop(r, quiescent) PROVE LatestInv'
    BY <1>8 DEF Stop
  <1>9. ASSUME NEW r \in Runs, NEW enabled \in BOOLEAN, SaveStart(r, enabled) PROVE LatestInv'
    BY <1>9 DEF SaveStart, Working, Alive
  <1>10. ASSUME NEW r \in Runs, NEW ok \in BOOLEAN, SaveWrite(r, ok) PROVE LatestInv'
    BY <1>10 DEF SaveWrite, Working, Alive
  <1>11. ASSUME NEW r \in Runs, SaveCheck(r) PROVE LatestInv'
    BY <1>11 DEF SaveCheck, Working, Alive
  <1>12. ASSUME NEW r \in Runs, NEW ok \in BOOLEAN, SaveRename(r, ok) PROVE LatestInv'
    BY <1>12 DEF SaveRename, Working, Alive
  <1>13. ASSUME NEW r \in Runs, NEW synced \in BOOLEAN, SaveSync(r, synced) PROVE LatestInv'
    BY <1>13 DEF SaveSync, Working, Alive
  <1>14. ASSUME NEW r \in Runs, SaveTimeout(r) PROVE LatestInv'
    BY <1>14 DEF SaveTimeout
  <1>15. ASSUME NEW r \in Runs, Close(r) PROVE LatestInv'
    BY <1>15 DEF Close
  <1>16. ASSUME NEW r \in Runs, Exit(r) PROVE LatestInv'
    BY <1>16 DEF Exit, Alive
  <1>17. ASSUME NEW kept \in maybe, PowerLoss(kept) PROVE LatestInv'
    BY <1>17 DEF PowerLoss
  <1>18. CASE UNCHANGED vars
    BY <1>18 DEF vars
  <1> HIDE MaxRunsAssumption DEF TypeOK, LockInv, DirInv, LatestInv,
      Runs, Owning, Workers, Then, disk, history, Latest, RestoredIsLatest
  <1> QED
    BY <1>1, <1>2, <1>3, <1>4, <1>5, <1>6, <1>7, <1>8, <1>9, <1>10,
       <1>11, <1>12, <1>13, <1>14, <1>15, <1>16, <1>17, <1>18
    DEF Next, StartupNext, ShutdownNext

\* What was restored does not return to the directory.
LEMMA OnceStep == TypeOK /\ LockInv /\ PublishedInv /\ DirInv /\ OnceInv /\ [Next]_vars => OnceInv'
  <1> SUFFICES ASSUME TypeOK, LockInv, PublishedInv, DirInv, OnceInv, [Next]_vars PROVE OnceInv'
    OBVIOUS
  <1> USE MaxRunsAssumption DEF TypeOK, LockInv, PublishedInv, DirInv, OnceInv,
      Runs, Owning, Workers, Then, disk, history, Published, RestoredOnce
  <1>1. ASSUME NEW r \in Runs, Start(r) PROVE OnceInv'
    BY <1>1 DEF Start
  <1>2. ASSUME NEW r \in Runs, NEW accepted \in BOOLEAN, ConsumeOpen(r, accepted) PROVE OnceInv'
    BY <1>2, SMTT(30) DEF ConsumeOpen, Working, Alive
  <1>3. ASSUME NEW r \in Runs, ConsumeUnlink(r) PROVE OnceInv'
    BY <1>3 DEF ConsumeUnlink, Working, Alive
  <1>4. ASSUME NEW r \in Runs, NEW synced \in BOOLEAN, ConsumeSync(r, synced) PROVE OnceInv'
    BY <1>4 DEF ConsumeSync, Working, Alive
  <1>5. ASSUME NEW r \in Runs, Bind(r) PROVE OnceInv'
    BY <1>5 DEF Bind
  <1>6. ASSUME NEW r \in Runs, StartupFails(r) PROVE OnceInv'
    BY <1>6 DEF StartupFails
  <1>7. ASSUME NEW r \in Runs, NEW accepted \in BOOLEAN, Serve(r, accepted) PROVE OnceInv'
    <2>1. /\ main[r] = "bound" /\ held[r] \in Nat
          /\ main' = [main EXCEPT ![r] = "serving"]
          /\ UNCHANGED <<clean, maybe, work, held>>
      BY <1>7 DEF Serve
    <2>2. \A q \in Runs : main'[q] \in {"consuming", "bound"} => FALSE
      BY <2>1
    <2>3. \A p \in restored' : p \in restored \/ (accepted /\ p = <<held[r], r>>)
      <3>1. CASE accepted
        BY <1>7, <3>1 DEF Serve
      <3>2. CASE ~accepted
        BY <1>7, <3>2 DEF Serve
      <3> QED
        BY <3>1, <3>2
    <2>4. accepted => held[r] # 0 /\ held[r] \notin maybe /\ \A p \in restored : p[1] # held[r]
      BY <1>7, <2>1 DEF Serve
    <2>5. RestoredOnce'
      <3> SUFFICES ASSUME NEW a \in restored', NEW b \in restored', a[1] = b[1] PROVE a = b
        OBVIOUS
      <3>1. CASE a \in restored /\ b \in restored
        BY <3>1
      <3>2. CASE accepted /\ a = <<held[r], r>> /\ b \in restored
        BY <2>4, <3>2
      <3>3. CASE accepted /\ b = <<held[r], r>> /\ a \in restored
        BY <2>4, <3>3
      <3>4. CASE a = <<held[r], r>> /\ b = <<held[r], r>>
        BY <3>4
      <3> QED
        BY <2>3, <3>1, <3>2, <3>3, <3>4
    <2>6. \A p \in restored' : p[1] \notin maybe'
      BY <2>1, <2>3, <2>4
    <2> QED
      BY <2>1, <2>2, <2>5, <2>6
  <1>8. ASSUME NEW r \in Runs, NEW quiescent \in BOOLEAN, Stop(r, quiescent) PROVE OnceInv'
    BY <1>8 DEF Stop
  <1>9. ASSUME NEW r \in Runs, NEW enabled \in BOOLEAN, SaveStart(r, enabled) PROVE OnceInv'
    BY <1>9 DEF SaveStart, Working, Alive
  <1>10. ASSUME NEW r \in Runs, NEW ok \in BOOLEAN, SaveWrite(r, ok) PROVE OnceInv'
    BY <1>10 DEF SaveWrite, Working, Alive
  <1>11. ASSUME NEW r \in Runs, SaveCheck(r) PROVE OnceInv'
    BY <1>11 DEF SaveCheck, Working, Alive
  <1>12. ASSUME NEW r \in Runs, NEW ok \in BOOLEAN, SaveRename(r, ok) PROVE OnceInv'
    <2>1. work[r] = "rename" /\ maybe' \subseteq maybe \cup {r} /\ clean' \in {clean, r}
      BY <1>12 DEF SaveRename, Working
    <2>2. UNCHANGED <<main, held, restored>>
      BY <1>12 DEF SaveRename
    <2>3. \A q \in Runs : held[q] # r \/ held[q] = 0
      BY <2>1
    <2>4. \A p \in restored : p[1] # r
      BY <2>1
    <2>5. \A q \in Runs : work'[q] \in {"consumed", "unlinked", "absent"} => work'[q] = work[q]
      BY <1>12 DEF SaveRename
    <2> QED
      BY <2>1, <2>2, <2>3, <2>4, <2>5
  <1>13. ASSUME NEW r \in Runs, NEW synced \in BOOLEAN, SaveSync(r, synced) PROVE OnceInv'
    BY <1>13 DEF SaveSync, Working, Alive
  <1>14. ASSUME NEW r \in Runs, SaveTimeout(r) PROVE OnceInv'
    BY <1>14 DEF SaveTimeout
  <1>15. ASSUME NEW r \in Runs, Close(r) PROVE OnceInv'
    BY <1>15 DEF Close
  <1>16. ASSUME NEW r \in Runs, Exit(r) PROVE OnceInv'
    BY <1>16 DEF Exit, Alive
  <1>17. ASSUME NEW kept \in maybe, PowerLoss(kept) PROVE OnceInv'
    BY <1>17 DEF PowerLoss
  <1>18. CASE UNCHANGED vars
    BY <1>18 DEF vars
  <1> HIDE MaxRunsAssumption DEF TypeOK, LockInv, PublishedInv, DirInv, OnceInv,
      Runs, Owning, Workers, Then, disk, history, Published, RestoredOnce
  <1> QED
    BY <1>1, <1>2, <1>3, <1>4, <1>5, <1>6, <1>7, <1>8, <1>9, <1>10,
       <1>11, <1>12, <1>13, <1>14, <1>15, <1>16, <1>17, <1>18
    DEF Next, StartupNext, ShutdownNext

\* Only flushed snapshots are renamed.
LEMMA FlushedStep == TypeOK /\ DirInv /\ FlushedInv /\ [Next]_vars => FlushedInv'
  <1> SUFFICES ASSUME TypeOK, DirInv, FlushedInv, [Next]_vars PROVE FlushedInv'
    OBVIOUS
  <1> USE MaxRunsAssumption DEF TypeOK, DirInv, FlushedInv,
      Runs, Owning, Workers, Then, disk, history
  <1>1. ASSUME NEW r \in Runs, Start(r) PROVE FlushedInv'
    BY <1>1 DEF Start
  <1>2. ASSUME NEW r \in Runs, NEW accepted \in BOOLEAN, ConsumeOpen(r, accepted) PROVE FlushedInv'
    BY <1>2 DEF ConsumeOpen, Working, Alive
  <1>3. ASSUME NEW r \in Runs, ConsumeUnlink(r) PROVE FlushedInv'
    BY <1>3 DEF ConsumeUnlink, Working, Alive
  <1>4. ASSUME NEW r \in Runs, NEW synced \in BOOLEAN, ConsumeSync(r, synced) PROVE FlushedInv'
    BY <1>4 DEF ConsumeSync, Working, Alive
  <1>5. ASSUME NEW r \in Runs, Bind(r) PROVE FlushedInv'
    BY <1>5 DEF Bind
  <1>6. ASSUME NEW r \in Runs, StartupFails(r) PROVE FlushedInv'
    BY <1>6 DEF StartupFails
  <1>7. ASSUME NEW r \in Runs, NEW accepted \in BOOLEAN, Serve(r, accepted) PROVE FlushedInv'
    BY <1>7 DEF Serve
  <1>8. ASSUME NEW r \in Runs, NEW quiescent \in BOOLEAN, Stop(r, quiescent) PROVE FlushedInv'
    BY <1>8 DEF Stop
  <1>9. ASSUME NEW r \in Runs, NEW enabled \in BOOLEAN, SaveStart(r, enabled) PROVE FlushedInv'
    BY <1>9 DEF SaveStart, Working, Alive
  <1>10. ASSUME NEW r \in Runs, NEW ok \in BOOLEAN, SaveWrite(r, ok) PROVE FlushedInv'
    BY <1>10 DEF SaveWrite, Working, Alive
  <1>11. ASSUME NEW r \in Runs, SaveCheck(r) PROVE FlushedInv'
    BY <1>11 DEF SaveCheck, Working, Alive
  <1>12. ASSUME NEW r \in Runs, NEW ok \in BOOLEAN, SaveRename(r, ok) PROVE FlushedInv'
    BY <1>12 DEF SaveRename, Working, Alive
  <1>13. ASSUME NEW r \in Runs, NEW synced \in BOOLEAN, SaveSync(r, synced) PROVE FlushedInv'
    BY <1>13 DEF SaveSync, Working, Alive
  <1>14. ASSUME NEW r \in Runs, SaveTimeout(r) PROVE FlushedInv'
    BY <1>14 DEF SaveTimeout
  <1>15. ASSUME NEW r \in Runs, Close(r) PROVE FlushedInv'
    BY <1>15 DEF Close
  <1>16. ASSUME NEW r \in Runs, Exit(r) PROVE FlushedInv'
    BY <1>16 DEF Exit, Alive
  <1>17. ASSUME NEW kept \in maybe, PowerLoss(kept) PROVE FlushedInv'
    BY <1>17 DEF PowerLoss
  <1>18. CASE UNCHANGED vars
    BY <1>18 DEF vars
  <1> HIDE MaxRunsAssumption DEF TypeOK, DirInv, FlushedInv,
      Runs, Owning, Workers, Then, disk, history
  <1> QED
    BY <1>1, <1>2, <1>3, <1>4, <1>5, <1>6, <1>7, <1>8, <1>9, <1>10,
       <1>11, <1>12, <1>13, <1>14, <1>15, <1>16, <1>17, <1>18
    DEF Next, StartupNext, ShutdownNext

\* Before any run there is nothing to restore.
LEMMA InitIInv == Init => IInv
  BY MaxRunsAssumption
  DEF Init, IInv, TypeOK, LockInv, PublishedInv, DirInv, LatestInv, OnceInv, FlushedInv,
      Runs, Owning, Workers, RestoredOnce, RestoredIsLatest

\* Every step keeps the inductive invariant.
LEMMA NextIInv == IInv /\ [Next]_vars => IInv'
  BY TypeStep, LockStep, PublishedStep, DirStep, LatestStep, OnceStep, FlushedStep DEF IInv

\* The invariant holds throughout.
LEMMA Inductive == Spec => []IInv
  BY InitIInv, NextIInv, PTL DEF Spec

\* The shapes of the state, for any number of runs.
THEOREM TypeCorrect == Spec => []TypeOK
  <1>1. IInv => TypeOK
    BY DEF IInv
  <1> QED
    BY <1>1, Inductive, PTL

\* consume_startup and publish_clean: no crash, timeout or power loss makes two
\* runs restore one snapshot.
THEOREM SnapshotsRestoredOnce == Spec => []RestoredOnce
  <1>1. IInv => RestoredOnce
    BY DEF IInv, OnceInv
  <1> QED
    BY <1>1, Inductive, PTL

\* consume_startup before serving: the only recoverable file beside a running
\* cache is one that a timed-out save of an earlier run published late.
THEOREM FilesBesideAreLate == Spec => []FileBesideIsLate
  <1>1. IInv => FileBesideIsLate
    BY DEF IInv, TypeOK, LockInv, DirInv, FileBesideIsLate, Recoverable, Owning
  <1> QED
    BY <1>1, Inductive, PTL

\* terminal, save_terminal and consume_startup together: no run that served is
\* skipped over by a restore, but for such late files.
THEOREM RestoresAreLatest == Spec => []RestoredIsLatest
  <1>1. IInv => RestoredIsLatest
    BY DEF IInv, LatestInv
  <1> QED
    BY <1>1, Inductive, PTL

\* publish_clean syncs before it renames: what a start finds is complete.
THEOREM FoundAreComplete == Spec => []FoundIsComplete
  <1>1. IInv => FoundIsComplete
    BY DEF IInv, DirInv, FlushedInv, FoundIsComplete, Recoverable
  <1> QED
    BY <1>1, Inductive, PTL

\* All four together: what a clean start takes up is worth serving, whatever
\* was interrupted before it.
THEOREM SnapshotsAreKept == Spec => []SnapshotKept
  BY SnapshotsRestoredOnce, FilesBesideAreLate, RestoresAreLatest, FoundAreComplete, PTL
    DEF SnapshotKept
=============================================================================
