------------------------- MODULE GraphRefreshProofs -------------------------
(***************************************************************************)
(* Theorems about GraphRefresh, for every set of callers, versions and     *)
(* keys, every number of files, kills and restarts.                        *)
(***************************************************************************)
EXTENDS GraphRefresh, TLAPS

\* The caller the coordinator let run keeps its key in flight, and only such callers end as
\* registered ones do.
FlightInv ==
    /\ OneRunPerKey
    /\ \A p \in Callers :
         /\ Runs(p) => KeyOf[p] \in inflight
         /\ calls[p].pc \in {"idle", "start", "waiting", "finish"} => ~calls[p].alone

\* An absent directory holds nothing, no temporary file either.
DirInv ==
    /\ \A v \in Versions : 0 \in dirs[v] => dirs[v] = Absent
    /\ \A p \in tmp : 0 \notin dirs[VersionOf[p]]

Early == {"idle", "start", "waiting", "build", "check", "remove"}

\* What a writer has found or made of its version: unless it met another one, whoever
\* removes the version is its only writer.
Sound(p) ==
    /\ calls[p].pc \in Early => calls[p].at = 1
    /\ VersionOf[p] \notin contested =>
         /\ calls[p].pc = "remove" => /\ Writers(VersionOf[p]) = {p}
                                      /\ dirs[VersionOf[p]] \notin {Absent, Kinds}
         /\ calls[p].pc \in {"open", "rename"} => 1 .. (calls[p].at - 1) \subseteq dirs[VersionOf[p]]
         /\ calls[p].pc = "latest" => Kinds \subseteq dirs[VersionOf[p]]

WriterInv == \A p \in Callers : Sound(p)

\* What a reader has found, and whatever the latest manifest names, is there.
Held(v) == v \in {NoVersion} \cup contested \/ dirs[v] = Kinds

ReaderInv ==
    /\ Held(latest)
    /\ \A p \in Callers : /\ Held(calls[p].previous)
                          /\ calls[p].pc = "read" => calls[p].previous # NoVersion
    /\ ReadsSucceed

\* Only a read that has ended says that segments are missing.
ResultInv == \A p \in Callers : calls[p].result = "unreadable" => calls[p].pc = "done"

RefreshInv == RefreshTypeOK /\ FlightInv /\ DirInv /\ WriterInv /\ ResultInv /\ ReaderInv

\* The versions all of whose files are there stay so, unless their writers met.
Kept == /\ contested \subseteq contested'
        /\ \A v \in Versions \ contested' : dirs[v] = Kinds => dirs'[v] = Kinds

\* What an action of one call leaves alone of the others.
Others(p) == \A q \in Callers \ {p} : calls'[q] = calls[q]

LEMMA KindsFact == 0 \notin Kinds /\ 1 \in Kinds /\ Files \in Nat \ {0} /\ Kinds = 1 .. Files
  BY RefreshConstants DEF Kinds

-----------------------------------------------------------------------------
\* The initial state, in which no call has begun and nothing is stored.
LEMMA RefreshInitInv == RefreshInit => RefreshInv
  <1> SUFFICES ASSUME RefreshInit PROVE RefreshInv
    OBVIOUS
  <1>1. 1 \in Kinds /\ 0 \notin Kinds
    BY KindsFact
  <1>2. RefreshTypeOK
    <2>1. Idle \in Call
      BY <1>1 DEF Idle, Call, Pcs, Writing, Results
    <2> QED
      BY <2>1, RefreshConstants DEF RefreshInit, RefreshTypeOK, Absent
  <1>3. FlightInv
    BY DEF RefreshInit, FlightInv, OneRunPerKey, Runs, Idle, Writing
  <1>4. DirInv
    BY DEF RefreshInit, DirInv
  <1>5. WriterInv
    BY DEF RefreshInit, WriterInv, Sound, Idle
  <1>6. ReaderInv
    BY DEF RefreshInit, ReaderInv, ReadsSucceed, Held, Idle
  <1>7. ResultInv
    BY DEF RefreshInit, ResultInv, Idle
  <1> QED
    BY <1>2, <1>3, <1>4, <1>5, <1>6, <1>7 DEF RefreshInv

-----------------------------------------------------------------------------
\* A call that moves on, gives up or returns from its function remains a call.
LEMMA MovesOn ==
    ASSUME calls \in [Callers -> Call], NEW p \in Callers, NEW pc \in Pcs, NEW r \in Results,
           NEW b \in BOOLEAN,
           \/ calls' = [calls EXCEPT ![p].pc = pc]
           \/ calls' = [calls EXCEPT ![p].pc = pc, ![p].alone = b]
           \/ calls' = [calls EXCEPT ![p].pc = pc, ![p].result = r]
    PROVE  /\ calls' \in [Callers -> Call] /\ Others(p)
           /\ calls'[p].pc = pc
           /\ calls'[p].at = calls[p].at /\ calls'[p].previous = calls[p].previous
           /\ calls'[p].alone \in {calls[p].alone, b}
           /\ calls'[p].result \in {calls[p].result, r}
  BY DEF Call, Others

LEMMA Moves ==
    ASSUME RefreshTypeOK, NEW p \in Callers, NEW pc \in Pcs, Goto(p, pc)
    PROVE  /\ calls' \in [Callers -> Call] /\ Others(p)
           /\ calls'[p].pc = pc
           /\ calls'[p].at = calls[p].at /\ calls'[p].previous = calls[p].previous
           /\ calls'[p].alone = calls[p].alone
           /\ calls'[p].result = calls[p].result
  BY DEF RefreshTypeOK, Call, Others, Goto

LEMMA Returns ==
    ASSUME RefreshTypeOK, NEW p \in Callers, NEW r \in Results, Return(p, r)
    PROVE  /\ calls' \in [Callers -> Call] /\ Others(p)
           /\ calls'[p].pc = IF calls[p].alone THEN "done" ELSE "finish"
           /\ calls'[p].previous = calls[p].previous
           /\ calls'[p].alone = calls[p].alone
           /\ calls'[p].result = r
  <1>1. /\ calls \in [Callers -> Call]
        /\ (IF calls[p].alone THEN "done" ELSE "finish") \in Pcs
    BY DEF RefreshTypeOK, Pcs
  <1> DEFINE pc == IF calls[p].alone THEN "done" ELSE "finish"
  <1>2. calls' = [calls EXCEPT ![p].pc = pc, ![p].result = r]
    BY DEF Return
  <1> HIDE DEF pc
  <1>3. pc \in Pcs
    BY <1>1 DEF pc
  <1>4. /\ calls' \in [Callers -> Call] /\ Others(p) /\ calls'[p].pc = pc
        /\ calls'[p].previous = calls[p].previous
        /\ calls'[p].alone = calls[p].alone
        /\ calls'[p].result = r
    BY <1>1, <1>2, <1>3 DEF Call, Others
  <1> QED
    BY <1>4 DEF pc

\* The names of the places in a call.
LEMMA PcNames ==
    /\ "error" \in Results /\ "ok" \in Results
    /\ {"idle", "start", "waiting", "build", "check", "remove", "open", "rename", "latest",
        "finish", "read", "done"} \subseteq Pcs
  BY DEF Results, Pcs, Writing

\* A call that gives up, as it is after it.
LEMMA GivesUp ==
    ASSUME RefreshTypeOK, NEW p \in Callers, GiveUp(p)
    PROVE  /\ calls' \in [Callers -> Call] /\ Others(p)
           /\ \/ calls[p].previous = NoVersion /\ calls'[p].pc = "build" /\ calls'[p].alone
              \/ calls[p].previous # NoVersion /\ calls'[p].pc = "read" /\ ~calls'[p].alone
           /\ calls'[p].at = calls[p].at /\ calls'[p].previous = calls[p].previous
           /\ calls'[p].result = calls[p].result
  <1> USE DEF RefreshTypeOK
  <1>1. CASE calls[p].previous = NoVersion
    <2>1. calls' = [calls EXCEPT ![p].pc = "build", ![p].alone = TRUE]
      BY <1>1 DEF GiveUp
    <2> QED
      BY <1>1, <2>1, PcNames DEF Call, Others
  <1>2. CASE calls[p].previous # NoVersion
    <2>1. calls' = [calls EXCEPT ![p].pc = "read", ![p].alone = FALSE]
      BY <1>2 DEF GiveUp
    <2> QED
      BY <1>2, <2>1, PcNames DEF Call, Others
  <1> QED
    BY <1>1, <1>2

\* A read, as it is after a step.
LEMMA Reads ==
    ASSUME RefreshTypeOK, NEW p \in Callers, Read(p)
    PROVE  /\ calls' \in [Callers -> Call] /\ Others(p)
           /\ calls'[p].pc \in {"read", "done"}
           /\ calls'[p].previous = calls[p].previous
           /\ calls'[p].alone = calls[p].alone
           /\ calls'[p].result = "unreadable" =>
                 \/ calls[p].result = "unreadable"
                 \/ calls[p].at \notin dirs[calls[p].previous]
  <1> USE DEF RefreshTypeOK
  <1>0. calls[p] \in Call /\ calls[p].pc = "read"
    BY DEF Read
  <1>1. CASE calls[p].at \notin dirs[calls[p].previous]
    <2>1. calls' = [calls EXCEPT ![p] = [calls[p] EXCEPT !.pc = "done", !.result = "unreadable"]]
      BY <1>1 DEF Read
    <2> QED
      BY <1>0, <1>1, <2>1 DEF Call, Others, Pcs, Results
  <1>2. CASE calls[p].at \in dirs[calls[p].previous] /\ calls[p].at = Files
    <2>1. calls' = [calls EXCEPT ![p] = [calls[p] EXCEPT !.pc = "done", !.result = "ok"]]
      BY <1>2 DEF Read
    <2> QED
      BY <1>0, <2>1 DEF Call, Others, Pcs, Results
  <1>3. CASE calls[p].at \in dirs[calls[p].previous] /\ calls[p].at # Files
    <2>1. calls' = [calls EXCEPT ![p] = [calls[p] EXCEPT !.at = calls[p].at + 1]]
      BY <1>3 DEF Read
    <2>2. calls[p].at + 1 \in Kinds
      BY <1>0, <1>3, KindsFact DEF Call
    <2> QED
      BY <1>0, <2>1, <2>2 DEF Call, Others
  <1> QED
    BY <1>1, <1>2, <1>3

\* A call whose rename succeeds, as it is after it.
LEMMA Renames ==
    ASSUME RefreshTypeOK, NEW p \in Callers, Rename(p)
    PROVE  /\ calls' \in [Callers -> Call] /\ Others(p)
           /\ \/ calls[p].at = Files /\ calls'[p].pc = "latest"
              \/ calls[p].at # Files /\ calls'[p].pc = "open" /\ calls'[p].at = calls[p].at + 1
           /\ calls'[p].previous = calls[p].previous
           /\ calls'[p].alone = calls[p].alone
           /\ calls'[p].result = calls[p].result
  <1> USE DEF RefreshTypeOK
  <1>0. calls[p].at \in Kinds /\ (calls[p].at # Files => calls[p].at + 1 \in Kinds)
    BY KindsFact DEF Call
  <1>1. CASE calls[p].at = Files
    <2>1. calls' = [calls EXCEPT ![p].at = 1, ![p].pc = "latest"]
      BY <1>1 DEF Rename
    <2> QED
      BY <1>1, <2>1, KindsFact, PcNames DEF Call, Others
  <1>2. CASE calls[p].at # Files
    <2>1. calls' = [calls EXCEPT ![p].at = calls[p].at + 1, ![p].pc = "open"]
      BY <1>2 DEF Rename
    <2> QED
      BY <1>0, <1>2, <2>1, PcNames DEF Call, Others
  <1> QED
    BY <1>1, <1>2

\* A call that has read the latest manifest.
LEMMA ReadsLatest ==
    ASSUME RefreshTypeOK, NEW p \in Callers, ReadLatest(p)
    PROVE  /\ calls' \in [Callers -> Call] /\ Others(p)
           /\ calls[p].pc = "idle"
           /\ calls'[p].pc \in {"start", "done", "read"}
           /\ calls'[p].pc = "read" => latest # NoVersion
           /\ calls'[p].previous = latest /\ calls'[p].at = calls[p].at
           /\ calls'[p].alone = calls[p].alone /\ calls'[p].result = calls[p].result
  <1> DEFINE pc == IF p \notin Queries THEN "start" ELSE IF latest = NoVersion THEN "done" ELSE "read"
  <1>1. calls' = [calls EXCEPT ![p].previous = latest, ![p].pc = pc]
    BY DEF ReadLatest
  <1>2. pc \in {"start", "done", "read"} /\ (pc = "read" => latest # NoVersion)
    OBVIOUS
  <1> HIDE DEF pc
  <1>3. pc \in Pcs
    BY <1>2, PcNames
  <1> QED
    BY <1>1, <1>2, <1>3 DEF ReadLatest, RefreshTypeOK, Call, Others

LEMMA RefreshTypeStep ==
    ASSUME RefreshTypeOK, [RefreshNext]_refreshVars
    PROVE  RefreshTypeOK'
  <1>0. /\ \A p \in Callers : VersionOf[p] \in Versions /\ KeyOf[p] \in Keys
        /\ 0 \notin Kinds
    BY RefreshConstants, KindsFact
  <1>1. ASSUME NEW p \in Callers, ReadLatest(p) PROVE RefreshTypeOK'
    BY <1>1, ReadsLatest DEF ReadLatest, RefreshTypeOK
  <1>2. ASSUME NEW p \in Callers, Start(p) PROVE RefreshTypeOK'
    <2>1. \E pc \in Pcs : Goto(p, pc)
      BY <1>2, PcNames DEF Start
    <2>2. calls' \in [Callers -> Call]
      BY <2>1, Moves
    <2> QED
      BY <1>0, <1>2, <2>2 DEF Start, RefreshTypeOK
  <1>3. ASSUME NEW p \in Callers, GiveUp(p) PROVE RefreshTypeOK'
    <2>1. calls' \in [Callers -> Call]
      BY <1>3, GivesUp
    <2> QED
      BY <1>3, <2>1 DEF GiveUp, RefreshTypeOK
  <1>4. ASSUME NEW p \in Callers, Build(p) PROVE RefreshTypeOK'
    <2>1. calls' \in [Callers -> Call]
      BY <1>4, Moves, Returns, PcNames DEF Build
    <2> QED
      BY <1>4, <2>1 DEF Build, RefreshTypeOK
  <1>5. ASSUME NEW p \in Callers, Finish(p) PROVE RefreshTypeOK'
    <2>1. calls' \in [Callers -> Call]
      BY <1>5 DEF Finish, Call, Pcs, RefreshTypeOK
    <2> QED
      BY <1>5, <2>1 DEF Finish, RefreshTypeOK
  <1>6. ASSUME NEW p \in Callers, Read(p) PROVE RefreshTypeOK'
    <2>1. calls' \in [Callers -> Call]
      BY <1>6, Reads
    <2> QED
      BY <1>6, <2>1 DEF Read, RefreshTypeOK
  <1>7. ASSUME NEW p \in Callers, Check(p) PROVE RefreshTypeOK'
    <2>1. \E pc \in Pcs : Goto(p, pc)
      BY <1>7, PcNames DEF Check
    <2>2. calls' \in [Callers -> Call] /\ contested' \subseteq Versions
      BY <1>0, <1>7, <2>1, Moves DEF Check, RefreshTypeOK
    <2> QED
      BY <1>7, <2>2 DEF Check, RefreshTypeOK
  <1>8. ASSUME NEW p \in Callers, Remove(p) PROVE RefreshTypeOK'
    <2>1. calls' \in [Callers -> Call]
      <3>1. UNCHANGED calls \/ Goto(p, "open")
        BY <1>8 DEF Remove
      <3> QED
        BY <3>1, Moves, PcNames DEF RefreshTypeOK
    <2>2. dirs' \in [Versions -> SUBSET (Kinds \cup Absent)] /\ tmp' \subseteq Callers
      BY <1>8, <1>0 DEF Remove, Absent, RefreshTypeOK
    <2> QED
      BY <1>8, <2>1, <2>2 DEF Remove, RefreshTypeOK
  <1>9. ASSUME NEW p \in Callers, OpenTmp(p) PROVE RefreshTypeOK'
    <2>1. calls' \in [Callers -> Call]
      BY <1>9, Moves, PcNames DEF OpenTmp
    <2>2. dirs' \in [Versions -> SUBSET (Kinds \cup Absent)] /\ tmp' \subseteq Callers
      BY <1>9, <1>0 DEF OpenTmp, RefreshTypeOK
    <2> QED
      BY <1>9, <2>1, <2>2 DEF OpenTmp, RefreshTypeOK
  <1>10. ASSUME NEW p \in Callers, Rename(p) PROVE RefreshTypeOK'
    <2>1. calls' \in [Callers -> Call]
      BY <1>10, Renames
    <2>2. calls[p].at \in Kinds
      BY DEF RefreshTypeOK, Call
    <2>3. dirs' \in [Versions -> SUBSET (Kinds \cup Absent)] /\ tmp' \subseteq Callers
      BY <1>10, <1>0, <2>2 DEF Rename, RefreshTypeOK
    <2> QED
      BY <1>10, <2>1, <2>3 DEF Rename, RefreshTypeOK
  <1>11. ASSUME NEW p \in Callers, WriteLatest(p) PROVE RefreshTypeOK'
    <2>1. calls' \in [Callers -> Call]
      BY <1>11, Returns, PcNames DEF WriteLatest
    <2> QED
      BY <1>0, <1>11, <2>1 DEF WriteLatest, RefreshTypeOK
  <1>12. ASSUME NEW p \in Callers, Fail(p) PROVE RefreshTypeOK'
    <2>1. calls' \in [Callers -> Call]
      BY <1>12, Returns, PcNames DEF Fail
    <2> QED
      BY <1>12, <2>1 DEF Fail, RefreshTypeOK
  <1>13. ASSUME NEW p \in Callers, Kill(p) PROVE RefreshTypeOK'
    BY <1>13 DEF Kill, RefreshTypeOK
  <1>14. CASE Restart
    <2>1. Idle \in Call
      BY KindsFact, PcNames DEF Idle, Call, Results
    <2>2. restarts' \in 0 .. MaxRestarts
      BY <1>14, RefreshConstants DEF Restart, RefreshTypeOK
    <2> QED
      BY <1>14, <2>1, <2>2 DEF Restart, RefreshTypeOK
  <1>15. CASE UNCHANGED refreshVars
    BY <1>15 DEF refreshVars, RefreshTypeOK
  <1> QED
    BY <1>1, <1>2, <1>3, <1>4, <1>5, <1>6, <1>7, <1>8, <1>9, <1>10, <1>11, <1>12, <1>13,
       <1>14, <1>15 DEF RefreshNext, Step

-----------------------------------------------------------------------------
\* Only a caller the coordinator let run keeps a key, and only that one gives it back.
LEMMA RefreshFlightStep ==
    ASSUME RefreshTypeOK, FlightInv, [RefreshNext]_refreshVars
    PROVE  FlightInv'
  \* A step after which no more callers run, and the keys in flight are the same.
  <1>a. ASSUME NEW p \in Callers, Others(p), inflight' = inflight,
               Runs(p)' => Runs(p),
               calls'[p].pc \in {"idle", "start", "waiting", "finish"} => ~calls'[p].alone
        PROVE  FlightInv'
    BY <1>a DEF FlightInv, OneRunPerKey, Runs, Others
  <1>1. ASSUME NEW p \in Callers, ReadLatest(p) PROVE FlightInv'
    <2>1. ~Runs(p)' /\ inflight' = inflight /\ ~calls'[p].alone
      BY <1>1, ReadsLatest DEF Runs, Writing, ReadLatest, FlightInv
    <2> QED
      BY <1>1, <1>a, <2>1, ReadsLatest
  <1>2. ASSUME NEW p \in Callers, Start(p) PROVE FlightInv'
    <2>0. ~calls[p].alone /\ ~Runs(p)
      BY <1>2 DEF Start, FlightInv, Runs, Writing
    <2>1. CASE Goto(p, "read") /\ inflight' = inflight
      BY <1>a, <2>0, <2>1, Moves, PcNames DEF Runs, Writing
    <2>2. CASE Goto(p, "waiting") /\ inflight' = inflight
      BY <1>a, <2>0, <2>2, Moves, PcNames DEF Runs, Writing
    <2>3. CASE /\ Goto(p, "build") /\ KeyOf[p] \notin inflight
               /\ inflight' = inflight \cup {KeyOf[p]}
      <3>1. Others(p) /\ calls'[p].pc = "build"
        BY <2>3, Moves, PcNames
      <3> QED
        BY <2>0, <2>3, <3>1 DEF FlightInv, OneRunPerKey, Runs, Others
    <2> QED
      BY <1>2, <2>1, <2>2, <2>3 DEF Start
  <1>3. ASSUME NEW p \in Callers, GiveUp(p) PROVE FlightInv'
    <2>1. ~Runs(p)' /\ inflight' = inflight
      BY <1>3, GivesUp DEF Runs, Writing, GiveUp
    <2>2. calls'[p].pc \in {"build", "read"}
      BY <1>3, GivesUp
    <2> QED
      BY <1>3, <1>a, <2>1, <2>2, GivesUp
  <1>4. ASSUME NEW p \in Callers, Finish(p) PROVE FlightInv'
    <2>1. Runs(p) /\ inflight' = inflight \ {KeyOf[p]}
      BY <1>4 DEF Finish, Runs, FlightInv
    <2>2. calls \in [Callers -> Call]
      BY DEF RefreshTypeOK
    <2>3. \A q \in Callers : calls'[q] = calls[q] \/ calls'[q].pc = "done"
      BY <1>4, <2>2 DEF Finish, Call
    <2>4. calls'[p].pc = "done"
      BY <1>4, <2>2 DEF Finish, Call
    <2> QED
      BY <2>1, <2>3, <2>4 DEF FlightInv, OneRunPerKey, Runs, Writing
  <1>5. ASSUME NEW p \in Callers, Read(p) PROVE FlightInv'
    <2>1. ~Runs(p)' /\ inflight' = inflight /\ calls'[p].pc \in {"read", "done"}
      BY <1>5, Reads DEF Runs, Writing, Read
    <2> QED
      BY <1>5, <1>a, <2>1, Reads
  \* The steps of a run.
  <1>6. ASSUME NEW p \in Callers, calls[p].pc \in Writing \cup {"build", "check"},
               inflight' = inflight,
               \/ calls' = calls
               \/ \E pc \in Writing \cup {"check"} : Goto(p, pc)
               \/ \E r \in Results : Return(p, r)
               \/ Rename(p)
        PROVE  FlightInv'
    <2>1. CASE calls' = calls
      BY <1>6, <1>a, <2>1 DEF Others, Runs, FlightInv
    <2>2. ASSUME NEW pc \in Writing \cup {"check"}, Goto(p, pc) PROVE FlightInv'
      <3>1. pc \in Pcs /\ pc \notin {"idle", "start", "waiting", "finish"}
        BY DEF Pcs, Writing
      <3>2. Others(p) /\ calls'[p].pc = pc /\ calls'[p].alone = calls[p].alone
        BY <2>2, <3>1, Moves
      <3>3. Runs(p)' => Runs(p)
        BY <1>6, <3>2 DEF Runs
      <3> QED
        BY <1>6, <1>a, <3>1, <3>2, <3>3
    <2>3. ASSUME NEW r \in Results, Return(p, r) PROVE FlightInv'
      <3>1. /\ Others(p) /\ calls'[p].alone = calls[p].alone
            /\ calls'[p].pc = IF calls[p].alone THEN "done" ELSE "finish"
        BY <2>3, Returns
      <3>2. Runs(p)' => Runs(p)
        BY <1>6, <3>1 DEF Runs, Writing
      <3>3. calls'[p].pc \in {"idle", "start", "waiting", "finish"} => ~calls'[p].alone
        BY <3>1
      <3> QED
        BY <1>6, <1>a, <3>1, <3>2, <3>3
    <2>4. CASE Rename(p)
      <3>1. calls'[p].pc \in {"open", "latest"} /\ calls'[p].alone = calls[p].alone /\ Others(p)
        BY <2>4, Renames
      <3>2. Runs(p)' => Runs(p)
        BY <1>6, <3>1 DEF Runs, Writing
      <3> QED
        BY <1>6, <1>a, <3>1, <3>2
    <2> QED
      BY <1>6, <2>1, <2>2, <2>3, <2>4
  <1>7. ASSUME NEW p \in Callers,
               \/ Build(p) \/ Check(p) \/ Remove(p) \/ OpenTmp(p) \/ Rename(p)
               \/ WriteLatest(p) \/ Fail(p)
        PROVE  FlightInv'
    <2>1. calls[p].pc \in Writing \cup {"build", "check"} /\ inflight' = inflight
      BY <1>7 DEF Build, Check, Remove, OpenTmp, Rename, WriteLatest, Fail, Writing
    <2>2. \/ calls' = calls
          \/ \E pc \in Writing \cup {"check"} : Goto(p, pc)
          \/ \E r \in Results : Return(p, r)
          \/ Rename(p)
      BY <1>7 DEF Build, Check, Remove, OpenTmp, WriteLatest, Fail, Writing, Results
    <2> QED
      BY <1>6, <2>1, <2>2
  <1>8. ASSUME NEW p \in Callers, Kill(p) PROVE FlightInv'
    BY <1>8, <1>a DEF Kill, Others, Runs, FlightInv
  <1>9. CASE Restart
    BY <1>9 DEF Restart, FlightInv, OneRunPerKey, Runs, Idle, Writing
  <1>10. CASE UNCHANGED refreshVars
    BY <1>10 DEF refreshVars, FlightInv, OneRunPerKey, Runs
  <1> QED
    BY <1>1, <1>2, <1>3, <1>4, <1>5, <1>7, <1>8, <1>9, <1>10 DEF RefreshNext, Step

-----------------------------------------------------------------------------
\* The directories, the temporary files in them and the versions contested change in these
\* steps only.
LEMMA DirSteps ==
    ASSUME [RefreshNext]_refreshVars
    PROVE  /\ \/ dirs' = dirs /\ tmp' \subseteq tmp
              \/ \E p \in Callers : Remove(p) \/ OpenTmp(p) \/ Rename(p)
           /\ contested' = contested \/ \E p \in Callers : Check(p)
  <1>1. ASSUME NEW p \in Callers, Step(p)
        PROVE  /\ (dirs' = dirs /\ tmp' \subseteq tmp) \/ Remove(p) \/ OpenTmp(p) \/ Rename(p)
               /\ contested' = contested \/ Check(p)
    BY <1>1 DEF Step, ReadLatest, Start, GiveUp, Build, Finish, Read, Check, Remove, OpenTmp,
                Rename, WriteLatest, Fail
  <1> QED
    BY <1>1 DEF RefreshNext, refreshVars, Kill, Restart

LEMMA RefreshDirStep ==
    ASSUME RefreshTypeOK, DirInv, [RefreshNext]_refreshVars
    PROVE  DirInv'
  <1>0. /\ dirs \in [Versions -> SUBSET (Kinds \cup Absent)] /\ tmp \subseteq Callers
        /\ \A p \in Callers : VersionOf[p] \in Versions
        /\ 0 \notin Kinds /\ \A p \in Callers : calls[p].at \in Kinds
    BY RefreshConstants, KindsFact DEF RefreshTypeOK, Call
  <1>1. CASE dirs' = dirs /\ tmp' \subseteq tmp
    BY <1>1 DEF DirInv
  <1>2. ASSUME NEW p \in Callers, Remove(p) PROVE DirInv'
    <2>1. CASE /\ \E k \in dirs[VersionOf[p]] \ Absent :
                     dirs' = [dirs EXCEPT ![VersionOf[p]] = @ \ {k}]
               /\ tmp' = tmp
      <3>1. PICK k \in dirs[VersionOf[p]] \ Absent :
              dirs' = [dirs EXCEPT ![VersionOf[p]] = @ \ {k}]
        BY <2>1
      <3>2. dirs[VersionOf[p]] # Absent
        BY <3>1
      <3> QED
        BY <1>0, <2>1, <3>1, <3>2 DEF DirInv
    <2>2. CASE /\ dirs' = [dirs EXCEPT ![VersionOf[p]] = Absent]
               /\ tmp' = {q \in tmp : VersionOf[q] # VersionOf[p]}
      BY <1>0, <2>2 DEF DirInv
    <2> QED
      BY <1>2, <2>1, <2>2 DEF Remove
  <1>3. ASSUME NEW p \in Callers, OpenTmp(p) PROVE DirInv'
    BY <1>0, <1>3 DEF OpenTmp, DirInv, Absent
  <1>4. ASSUME NEW p \in Callers, Rename(p) PROVE DirInv'
    BY <1>0, <1>4 DEF Rename, DirInv
  <1> QED
    BY <1>1, <1>2, <1>3, <1>4, DirSteps

-----------------------------------------------------------------------------
\* What the steps of one writer leave of the others: it only adds files, or is alone.
LEMMA WriterElsewhere ==
    ASSUME RefreshTypeOK, WriterInv, NEW p \in Callers, Others(p), contested' = contested,
           calls[p].pc \in Writing, calls'[p].pc \in Writing,
           \A v \in Versions \ {VersionOf[p]} : dirs'[v] = dirs[v],
           \/ calls[p].pc = "remove"
           \/ dirs[VersionOf[p]] \ Absent \subseteq dirs'[VersionOf[p]],
           NEW q \in Callers \ {p}
    PROVE  Sound(q)'
  <1>1. calls'[q] = calls[q] /\ Sound(q) /\ VersionOf[q] \in Versions
    BY RefreshConstants DEF Others, WriterInv
  <1>2. \A v \in Versions : Writers(v)' = Writers(v)
    BY DEF Writers, Others
  <1>3. CASE VersionOf[q] # VersionOf[p] \/ VersionOf[q] \in contested \/ calls[q].pc \notin Writing
    BY <1>1, <1>2, <1>3 DEF Sound, Writing
  <1>4. CASE /\ VersionOf[q] = VersionOf[p] /\ VersionOf[q] \notin contested
             /\ calls[q].pc \in Writing
    <2>1. {p, q} \subseteq Writers(VersionOf[q])
      BY <1>4 DEF Writers
    <2>2. calls[q].pc # "remove" /\ calls[p].pc # "remove"
      BY <1>1, <1>4, <2>1 DEF Sound, WriterInv
    <2>3. calls[q].at \in Kinds /\ \A k \in 1 .. (calls[q].at - 1) : k \notin Absent
      BY KindsFact DEF RefreshTypeOK, Call, Absent
    <2>4. \A k \in Kinds : k \notin Absent
      BY KindsFact DEF Absent
    <2> QED
      BY <1>1, <1>4, <2>2, <2>3, <2>4 DEF Sound, Writing, Early
  <1> QED
    BY <1>3, <1>4

\* What a writer relies on survives every step.
LEMMA RefreshWriterStep ==
    ASSUME RefreshTypeOK, DirInv, WriterInv, [RefreshNext]_refreshVars
    PROVE  WriterInv'
  <1>0. /\ \A p \in Callers : VersionOf[p] \in Versions
        /\ \A p \in Callers : calls[p].at \in Kinds
        /\ dirs \in [Versions -> SUBSET (Kinds \cup Absent)]
    BY RefreshConstants DEF RefreshTypeOK, Call
  \* A step that leaves the directories alone and puts no call to work.
  <1>a. ASSUME dirs' = dirs, contested' = contested,
               \A q \in Callers :
                  \/ calls'[q] = calls[q]
                  \/ calls'[q].pc \in {"read", "done", "finish"}
                  \/ calls'[q].pc \in {"idle", "start", "waiting", "build", "check"}
                     /\ calls'[q].at = 1
        PROVE  WriterInv'
    <2> SUFFICES ASSUME NEW q \in Callers PROVE Sound(q)'
      BY DEF WriterInv
    <2>1. Sound(q)
      BY DEF WriterInv
    <2>2. CASE calls'[q] = calls[q]
      <3>1. calls[q].pc = "remove" /\ Writers(VersionOf[q]) = {q} => Writers(VersionOf[q])' = {q}
        <4>1. \A r \in Callers : calls'[r].pc \in Writing => calls[r].pc \in Writing
          BY <1>a DEF Writing
        <4> QED
          BY <4>1, <2>2 DEF Writers, Writing
      <3> QED
        BY <1>a, <2>1, <2>2, <3>1 DEF Sound
    <2>3. CASE calls'[q] # calls[q]
      BY <1>a, <2>3 DEF Sound, Early
    <2> QED
      BY <2>2, <2>3
  <1>1. ASSUME NEW p \in Callers, ReadLatest(p) PROVE WriterInv'
    <2>1. calls[p].at = 1
      BY <1>1 DEF ReadLatest, WriterInv, Sound, Early
    <2> QED
      BY <1>1, <1>a, <2>1, ReadsLatest DEF ReadLatest, Others
  <1>2. ASSUME NEW p \in Callers, Start(p) PROVE WriterInv'
    <2>1. calls[p].at = 1
      BY <1>2 DEF Start, WriterInv, Sound, Early
    <2>2. \E pc \in {"read", "waiting", "build"} : Goto(p, pc)
      BY <1>2 DEF Start
    <2>3. Others(p) /\ calls'[p].at = 1 /\ calls'[p].pc \in {"read", "waiting", "build"}
      BY <2>1, <2>2, Moves, PcNames
    <2> QED
      BY <1>2, <1>a, <2>3 DEF Start, Others
  <1>3. ASSUME NEW p \in Callers, GiveUp(p) PROVE WriterInv'
    <2>1. calls[p].at = 1
      BY <1>3 DEF GiveUp, WriterInv, Sound, Early
    <2> QED
      BY <1>3, <1>a, <2>1, GivesUp DEF GiveUp, Others
  <1>4. ASSUME NEW p \in Callers, Build(p) PROVE WriterInv'
    <2>1. calls[p].at = 1
      BY <1>4 DEF Build, WriterInv, Sound, Early
    <2>2. CASE Goto(p, "check")
      BY <1>4, <1>a, <2>1, <2>2, Moves, PcNames DEF Build, Others
    <2>3. CASE Return(p, "error")
      BY <1>4, <1>a, <2>3, Returns, PcNames DEF Build, Others
    <2> QED
      BY <1>4, <2>2, <2>3 DEF Build
  <1>5. ASSUME NEW p \in Callers, Finish(p) PROVE WriterInv'
    <2>1. \A q \in Callers : calls'[q] = calls[q] \/ calls'[q].pc = "done"
      BY <1>5 DEF Finish, Call, RefreshTypeOK
    <2> QED
      BY <1>5, <1>a, <2>1 DEF Finish
  <1>6. ASSUME NEW p \in Callers, Read(p) PROVE WriterInv'
    BY <1>6, <1>a, Reads DEF Read, Others
  <1>7. ASSUME NEW p \in Callers, Check(p) PROVE WriterInv'
    <2> DEFINE v == VersionOf[p]
    <2>0. calls[p].pc = "check" /\ calls[p].at = 1 /\ dirs' = dirs
      BY <1>7 DEF Check, WriterInv, Sound, Early
    <2>1. /\ contested \subseteq contested' /\ contested' \subseteq contested \cup {v}
          /\ dirs[v] \notin {Absent, Kinds} /\ Writers(v) # {} => v \in contested'
      BY <1>7 DEF Check, Complete
    <2>2. \/ Goto(p, "open") /\ dirs[v] = Absent
          \/ Goto(p, "latest") /\ dirs[v] = Kinds
          \/ Goto(p, "remove") /\ dirs[v] \notin {Absent, Kinds}
      BY <1>7 DEF Check, Complete
    <2>3. Others(p) /\ calls'[p].at = 1 /\ calls'[p].pc \in Writing
      BY <2>0, <2>2, Moves, PcNames DEF Writing
    <2>4. \A u \in Versions \ {v} : Writers(u)' = Writers(u)
      BY <2>3 DEF Writers, Others
    <2>5. Writers(v)' = Writers(v) \cup {p}
      BY <2>3 DEF Writers, Others
    <2>6. ASSUME NEW q \in Callers \ {p} PROVE Sound(q)'
      <3>1. calls'[q] = calls[q] /\ Sound(q)
        BY <2>3 DEF Others, WriterInv
      <3>2. CASE VersionOf[q] = v /\ calls[q].pc = "remove"
        <4>1. ASSUME v \notin contested' PROVE FALSE
          <5>1. Writers(v) = {q} /\ dirs[v] \notin {Absent, Kinds}
            BY <2>1, <3>1, <3>2, <4>1 DEF Sound
          <5> QED
            BY <2>1, <4>1, <5>1
        <4> QED
          BY <3>1, <3>2, <4>1 DEF Sound, Early
      <3>3. CASE VersionOf[q] # v \/ calls[q].pc # "remove"
        BY <1>0, <2>0, <2>1, <2>4, <3>1, <3>3 DEF Sound
      <3> QED
        BY <3>2, <3>3
    <2>7. Sound(p)'
      <3>1. CASE Goto(p, "open") /\ dirs[v] = Absent
        <4>1. calls'[p].pc = "open"
          BY <3>1, Moves, PcNames
        <4> QED
          BY <2>3, <4>1 DEF Sound, Early
      <3>2. CASE Goto(p, "latest") /\ dirs[v] = Kinds
        <4>1. calls'[p].pc = "latest"
          BY <3>2, Moves, PcNames
        <4> QED
          BY <2>0, <3>2, <4>1 DEF Sound, Early
      <3>3. CASE Goto(p, "remove") /\ dirs[v] \notin {Absent, Kinds}
        <4>1. calls'[p].pc = "remove"
          BY <3>3, Moves, PcNames
        <4>2. v \notin contested' => Writers(v)' = {p}
          BY <2>1, <2>5, <3>3
        <4> QED
          BY <2>0, <2>3, <3>3, <4>1, <4>2 DEF Sound
      <3> QED
        BY <2>2, <3>1, <3>2, <3>3
    <2> QED
      BY <2>6, <2>7 DEF WriterInv
  <1>8. ASSUME NEW p \in Callers, Remove(p) PROVE WriterInv'
    <2> DEFINE v == VersionOf[p]
    <2>1. calls[p].pc = "remove" /\ calls[p].at = 1 /\ contested' = contested /\ Sound(p)
      BY <1>8 DEF Remove, WriterInv, Sound, Early
    <2>2. \A u \in Versions \ {v} : dirs'[u] = dirs[u]
      BY <1>0, <1>8 DEF Remove
    <2>3. CASE /\ \E k \in dirs[v] \ Absent : dirs' = [dirs EXCEPT ![v] = @ \ {k}]
               /\ calls' = calls
      <3>1. PICK k \in dirs[v] \ Absent : dirs' = [dirs EXCEPT ![v] = @ \ {k}]
        BY <2>3
      <3>2. dirs'[v] = dirs[v] \ {k} /\ k \in Kinds /\ 0 \notin dirs[v]
        BY <1>0, <3>1 DEF DirInv, Absent
      <3>3. dirs'[v] \notin {Absent, Kinds}
        BY <3>2 DEF Absent
      <3>4. Writers(v)' = Writers(v)
        BY <2>3 DEF Writers
      <3>5. Sound(p)'
        BY <2>1, <2>3, <3>3, <3>4 DEF Sound
      <3>6. \A q \in Callers \ {p} : Sound(q)'
        BY <2>1, <2>2, <2>3, WriterElsewhere DEF Others, Writing
      <3> QED
        BY <3>5, <3>6 DEF WriterInv
    <2>4. CASE Goto(p, "open")
      <3>1. calls'[p].pc = "open" /\ calls'[p].at = 1 /\ Others(p)
        BY <2>1, <2>4, Moves, PcNames
      <3>2. \A q \in Callers \ {p} : Sound(q)'
        BY <2>1, <2>2, <3>1, WriterElsewhere DEF Writing
      <3>3. Sound(p)'
        BY <3>1 DEF Sound, Early
      <3> QED
        BY <3>2, <3>3 DEF WriterInv
    <2> QED
      BY <1>8, <2>3, <2>4 DEF Remove
  <1>9. ASSUME NEW p \in Callers, OpenTmp(p) PROVE WriterInv'
    <2> DEFINE v == VersionOf[p]
    <2>1. calls[p].pc = "open" /\ contested' = contested /\ Sound(p) /\ Goto(p, "rename")
      BY <1>9 DEF OpenTmp, WriterInv
    <2>2. (\A u \in Versions \ {v} : dirs'[u] = dirs[u]) /\ dirs'[v] = dirs[v] \ Absent
      BY <1>0, <1>9 DEF OpenTmp
    <2>3. calls'[p].pc = "rename" /\ calls'[p].at = calls[p].at /\ Others(p)
      BY <2>1, Moves, PcNames
    <2>4. \A q \in Callers \ {p} : Sound(q)'
      BY <2>1, <2>2, <2>3, WriterElsewhere DEF Writing
    <2>5. \A k \in 1 .. (calls[p].at - 1) : k \notin Absent
      BY <1>0, KindsFact DEF Absent
    <2>6. Sound(p)'
      BY <2>1, <2>2, <2>3, <2>5 DEF Sound, Early
    <2> QED
      BY <2>4, <2>6 DEF WriterInv
  <1>10. ASSUME NEW p \in Callers, Rename(p) PROVE WriterInv'
    <2> DEFINE v == VersionOf[p]
    <2>1. calls[p].pc = "rename" /\ contested' = contested /\ Sound(p)
      BY <1>10 DEF Rename, WriterInv
    <2>2. /\ \A u \in Versions \ {v} : dirs'[u] = dirs[u]
          /\ dirs'[v] = dirs[v] \cup {calls[p].at}
      BY <1>0, <1>10 DEF Rename
    <2>3. /\ Others(p)
          /\ \/ calls[p].at = Files /\ calls'[p].pc = "latest"
             \/ calls[p].at # Files /\ calls'[p].pc = "open" /\ calls'[p].at = calls[p].at + 1
      BY <1>10, Renames
    <2>4. \A q \in Callers \ {p} : Sound(q)'
      BY <2>1, <2>2, <2>3, WriterElsewhere DEF Writing
    <2>5. v \notin contested => 1 .. calls[p].at \subseteq dirs'[v]
      <3>1. 1 .. calls[p].at = (1 .. (calls[p].at - 1)) \cup {calls[p].at}
        BY <1>0, KindsFact
      <3> QED
        BY <2>1, <2>2, <3>1 DEF Sound
    <2>6. Sound(p)'
      <3>1. CASE calls[p].at = Files /\ calls'[p].pc = "latest"
        BY <2>1, <2>5, <3>1, KindsFact DEF Sound, Early
      <3>2. CASE calls'[p].pc = "open" /\ calls'[p].at = calls[p].at + 1
        <4>1. calls'[p].at - 1 = calls[p].at
          BY <1>0, <3>2, KindsFact
        <4> QED
          BY <2>1, <2>5, <3>2, <4>1 DEF Sound, Early
      <3> QED
        BY <2>3, <3>1, <3>2
    <2> QED
      BY <2>4, <2>6 DEF WriterInv
  <1>11. ASSUME NEW p \in Callers, WriteLatest(p) \/ Fail(p) PROVE WriterInv'
    <2>1. \E r \in Results : Return(p, r)
      BY <1>11, PcNames DEF WriteLatest, Fail
    <2>2. Others(p) /\ calls'[p].pc \in {"done", "finish"}
      BY <2>1, Returns
    <2> QED
      BY <1>11, <1>a, <2>2 DEF WriteLatest, Fail, Others
  <1>12. ASSUME NEW p \in Callers, Kill(p) PROVE WriterInv'
    BY <1>12, <1>a DEF Kill
  <1>13. CASE Restart
    BY <1>13, <1>a DEF Restart, Idle
  <1>14. CASE UNCHANGED refreshVars
    BY <1>14, <1>a DEF refreshVars
  <1> QED
    BY <1>1, <1>2, <1>3, <1>4, <1>5, <1>6, <1>7, <1>8, <1>9, <1>10, <1>11, <1>12, <1>13,
       <1>14 DEF RefreshNext, Step

-----------------------------------------------------------------------------
\* Only a read that has ended says that segments are missing.
LEMMA RefreshResultStep ==
    ASSUME RefreshTypeOK, ResultInv, [RefreshNext]_refreshVars
    PROVE  ResultInv'
  <1>0. calls \in [Callers -> Call]
    BY DEF RefreshTypeOK
  <1>a. ASSUME NEW p \in Callers, Others(p),
               calls'[p].result = "unreadable" => calls'[p].pc = "done"
        PROVE  ResultInv'
    BY <1>a DEF ResultInv, Others
  <1>1. ASSUME NEW p \in Callers, ReadLatest(p) PROVE ResultInv'
    BY <1>1, <1>a, ReadsLatest DEF ResultInv
  <1>2. ASSUME NEW p \in Callers, calls[p].pc # "done", NEW pc \in Pcs, Goto(p, pc)
        PROVE  ResultInv'
    BY <1>2, <1>a, Moves DEF ResultInv
  <1>3. ASSUME NEW p \in Callers, NEW r \in {"ok", "error"}, Return(p, r) PROVE ResultInv'
    BY <1>3, <1>a, Returns, PcNames
  <1>4. ASSUME NEW p \in Callers, GiveUp(p) PROVE ResultInv'
    BY <1>4, <1>a, GivesUp DEF ResultInv, GiveUp
  <1>5. ASSUME NEW p \in Callers, Finish(p) PROVE ResultInv'
    BY <1>0, <1>5 DEF Finish, ResultInv, Call
  <1>6. ASSUME NEW p \in Callers, Read(p) PROVE ResultInv'
    <2>1. calls[p].result # "unreadable" /\ calls[p] \in Call /\ calls[p].pc = "read"
      BY <1>0, <1>6 DEF Read, ResultInv
    <2>2. calls'[p].result = "unreadable" => calls'[p].pc = "done"
      <3>1. CASE calls[p].at \notin dirs[calls[p].previous]
        BY <1>0, <1>6, <2>1, <3>1 DEF Read, Call
      <3>2. CASE calls[p].at \in dirs[calls[p].previous] /\ calls[p].at = Files
        BY <1>0, <1>6, <2>1, <3>2 DEF Read, Call
      <3>3. CASE calls[p].at \in dirs[calls[p].previous] /\ calls[p].at # Files
        BY <1>0, <1>6, <2>1, <3>3 DEF Read, Call
      <3> QED
        BY <3>1, <3>2, <3>3
    <2> QED
      BY <1>6, <1>a, <2>2, Reads
  <1>7. ASSUME NEW p \in Callers, Rename(p) PROVE ResultInv'
    BY <1>7, <1>a, Renames DEF ResultInv, Rename
  <1>8. ASSUME NEW p \in Callers,
               \/ Start(p) \/ Build(p) \/ Check(p) \/ Remove(p) \/ OpenTmp(p) \/ WriteLatest(p)
               \/ Fail(p)
        PROVE  ResultInv'
    <2>1. \/ calls' = calls
          \/ calls[p].pc # "done" /\ \E pc \in Pcs : Goto(p, pc)
          \/ \E r \in {"ok", "error"} : Return(p, r)
      BY <1>8, PcNames DEF Start, Build, Check, Remove, OpenTmp, WriteLatest, Fail
    <2> QED
      BY <1>2, <1>3, <2>1 DEF ResultInv
  <1>9. CASE Restart
    BY <1>9 DEF Restart, Idle, ResultInv
  <1>10. (\E p \in Callers : Kill(p)) \/ UNCHANGED refreshVars => calls' = calls
    BY DEF Kill, refreshVars
  <1> QED
    BY <1>1, <1>4, <1>5, <1>6, <1>7, <1>8, <1>9, <1>10 DEF RefreshNext, Step, ResultInv

-----------------------------------------------------------------------------
\* Nobody removes or rewrites a complete version, unless its writers met.
LEMMA RefreshKeeps ==
    ASSUME RefreshTypeOK, DirInv, WriterInv, [RefreshNext]_refreshVars
    PROVE  Kept
  <1>0. /\ dirs \in [Versions -> SUBSET (Kinds \cup Absent)]
        /\ \A p \in Callers : VersionOf[p] \in Versions /\ calls[p].at \in Kinds
        /\ 0 \notin Kinds
    BY RefreshConstants, KindsFact DEF RefreshTypeOK, Call
  <1>1. contested \subseteq contested'
    <2>1. ASSUME NEW p \in Callers, Check(p) PROVE contested \subseteq contested'
      BY <2>1 DEF Check
    <2> QED
      BY <2>1, DirSteps
  <1>2. ASSUME NEW p \in Callers, Remove(p), VersionOf[p] \notin contested
        PROVE  dirs[VersionOf[p]] # Kinds
    BY <1>2 DEF Remove, WriterInv, Sound
  <1>3. ASSUME NEW p \in Callers, Remove(p) PROVE Kept
    <2>1. \A v \in Versions \ {VersionOf[p]} : dirs'[v] = dirs[v]
      BY <1>0, <1>3 DEF Remove
    <2> QED
      BY <1>1, <1>2, <1>3, <2>1 DEF Kept
  <1>4. ASSUME NEW p \in Callers, OpenTmp(p) PROVE Kept
    <2>1. dirs' = [dirs EXCEPT ![VersionOf[p]] = @ \ Absent] /\ Kinds \ Absent = Kinds
      BY <1>0, <1>4 DEF OpenTmp, Absent
    <2> QED
      BY <1>0, <1>1, <2>1 DEF Kept
  <1>5. ASSUME NEW p \in Callers, Rename(p) PROVE Kept
    <2>1. /\ dirs' = [dirs EXCEPT ![VersionOf[p]] = @ \cup {calls[p].at}]
          /\ Kinds \cup {calls[p].at} = Kinds
      BY <1>0, <1>5 DEF Rename
    <2> QED
      BY <1>0, <1>1, <2>1 DEF Kept
  <1>6. CASE dirs' = dirs
    BY <1>1, <1>6 DEF Kept
  <1> QED
    BY <1>3, <1>4, <1>5, <1>6, DirSteps

\* What was found there once is still there.
LEMMA StillHeld ==
    ASSUME RefreshTypeOK, Kept, NEW v \in Versions \cup {NoVersion}, Held(v)
    PROVE  Held(v)'
  BY DEF Held, Kept

\* A writer that gets to the latest manifest has its version complete, unless writers met.
LEMMA LatestHeld ==
    ASSUME RefreshTypeOK, DirInv, WriterInv, NEW p \in Callers, calls[p].pc = "latest"
    PROVE  Held(VersionOf[p])
  <1>1. /\ dirs[VersionOf[p]] \subseteq Kinds \cup Absent
        /\ 0 \in dirs[VersionOf[p]] => dirs[VersionOf[p]] = Absent
    BY RefreshConstants DEF RefreshTypeOK, DirInv
  <1>2. VersionOf[p] \notin contested => Kinds \subseteq dirs[VersionOf[p]]
    BY DEF WriterInv, Sound
  <1> QED
    BY <1>1, <1>2, KindsFact DEF Held, Absent

\* Readers find what they were told of.
LEMMA RefreshReaderStep ==
    ASSUME RefreshInv, [RefreshNext]_refreshVars
    PROVE  ReaderInv'
  <1>0. /\ RefreshTypeOK /\ DirInv /\ WriterInv /\ ReaderInv /\ Kept
        /\ NoVersion \notin Versions /\ \A p \in Callers : VersionOf[p] \in Versions
        /\ calls \in [Callers -> Call] /\ latest \in Versions \cup {NoVersion}
        /\ \A p \in Callers : /\ calls[p].previous \in Versions \cup {NoVersion}
                              /\ calls[p].at \in Kinds
    BY RefreshConstants, RefreshKeeps DEF RefreshInv, RefreshTypeOK, Call
  <1>1. Held(latest)'
    <2>1. latest' = latest \/ \E p \in Callers : WriteLatest(p)
      BY DEF RefreshNext, Step, refreshVars, ReadLatest, Start, GiveUp, Build, Finish, Read,
             Check, Remove, OpenTmp, Rename, Fail, Kill, Restart
    <2>2. CASE latest' = latest
      BY <1>0, <2>2, StillHeld DEF ReaderInv, Held
    <2>3. ASSUME NEW p \in Callers, WriteLatest(p) PROVE Held(latest)'
      <3>1. latest' = VersionOf[p] /\ Held(VersionOf[p])
        BY <1>0, <2>3, LatestHeld DEF WriteLatest
      <3>2. Held(VersionOf[p])'
        BY <1>0, <3>1, StillHeld
      <3> QED
        BY <3>1, <3>2 DEF Held
    <2> QED
      BY <2>1, <2>2, <2>3
  \* What a call knows and has answered changes in few steps.
  <1>a. ASSUME \A q \in Callers :
                  /\ calls'[q].previous \in {calls[q].previous, NoVersion, latest}
                  /\ calls'[q].result = "unreadable" =>
                          /\ calls'[q].previous = calls[q].previous
                          /\ calls[q].result # "unreadable" => calls[q].previous \in contested
                  /\ calls'[q].pc = "read" => calls'[q].previous # NoVersion
        PROVE  ReaderInv'
    <2>1. ASSUME NEW q \in Callers PROVE Held(calls[q].previous)'
      <3>1. Held(calls'[q].previous) /\ calls'[q].previous \in Versions \cup {NoVersion}
        BY <1>0, <1>a DEF ReaderInv, Held
      <3>2. \A v \in Versions \cup {NoVersion} : Held(v) => Held(v)'
        BY <1>0, StillHeld
      <3> QED
        BY <3>1, <3>2 DEF Held
    <2>2. ASSUME NEW q \in Callers, calls'[q].result = "unreadable"
          PROVE  calls'[q].previous \in contested'
      BY <1>0, <1>a, <2>2 DEF ReaderInv, ReadsSucceed, Kept
    <2> QED
      BY <1>1, <1>a, <2>1, <2>2 DEF ReaderInv, ReadsSucceed
  <1>b. ASSUME NEW p \in Callers, Others(p),
               calls'[p].previous = calls[p].previous,
               calls'[p].result \in {calls[p].result, "ok", "error"},
               calls'[p].pc = "read" => calls[p].previous # NoVersion
        PROVE  ReaderInv'
    BY <1>0, <1>a, <1>b DEF ReaderInv, Others
  <1>2. ASSUME NEW p \in Callers, ReadLatest(p) PROVE ReaderInv'
    <2>1. /\ Others(p) /\ calls'[p].previous = latest /\ calls'[p].result = calls[p].result
          /\ calls'[p].pc = "read" => latest # NoVersion
      BY <1>0, <1>2, ReadsLatest
    <2>2. calls[p].result # "unreadable"
      BY <1>2, <1>0 DEF ReadLatest, RefreshInv, ResultInv
    <2> QED
      BY <1>a, <1>0, <2>1, <2>2 DEF ReaderInv, Others
  <1>3. ASSUME NEW p \in Callers, Start(p) PROVE ReaderInv'
    <2>1. \E pc \in {"read", "waiting", "build"} :
              Goto(p, pc) /\ (pc = "read" => calls[p].previous # NoVersion)
      BY <1>0, <1>3 DEF Start, Reusable
    <2> QED
      BY <1>0, <1>b, <2>1, Moves, PcNames
  <1>4. ASSUME NEW p \in Callers, GiveUp(p) PROVE ReaderInv'
    BY <1>0, <1>b, <1>4, GivesUp
  <1>5. ASSUME NEW p \in Callers, Finish(p) PROVE ReaderInv'
    <2>1. calls[p].result # "unreadable"
      BY <1>5 DEF Finish, RefreshInv, ResultInv
    <2>2. \A q \in Callers :
            /\ calls'[q].previous = calls[q].previous
            /\ calls'[q].result \in {calls[q].result, calls[p].result}
            /\ calls'[q].pc = "read" => calls[q].pc = "read"
      BY <1>0, <1>5 DEF Finish, Call
    <2> QED
      BY <1>a, <1>0, <2>1, <2>2 DEF ReaderInv
  <1>6. ASSUME NEW p \in Callers, Read(p) PROVE ReaderInv'
    <2>1. /\ Others(p) /\ calls'[p].previous = calls[p].previous
          /\ calls'[p].result = "unreadable" =>
                 calls[p].result = "unreadable" \/ calls[p].at \notin dirs[calls[p].previous]
      BY <1>0, <1>6, Reads
    <2>2. Held(calls[p].previous) /\ calls[p].previous # NoVersion
      BY <1>0, <1>6 DEF ReaderInv, Read
    <2> QED
      BY <1>a, <1>0, <2>1, <2>2 DEF ReaderInv, Others, Held
  <1>7. ASSUME NEW p \in Callers,
               \/ Build(p) \/ Check(p) \/ Remove(p) \/ OpenTmp(p) \/ WriteLatest(p) \/ Fail(p)
        PROVE  ReaderInv'
    <2>1. \/ calls' = calls
          \/ \E pc \in Pcs \ {"read"} : Goto(p, pc)
          \/ \E r \in {"ok", "error"} : Return(p, r)
      BY <1>7, PcNames DEF Build, Check, Remove, OpenTmp, WriteLatest, Fail
    <2>2. CASE calls' = calls
      BY <1>0, <1>a, <2>2 DEF ReaderInv
    <2>3. CASE \E pc \in Pcs \ {"read"} : Goto(p, pc)
      BY <1>0, <1>b, <2>3, Moves
    <2>4. ASSUME NEW r \in {"ok", "error"}, Return(p, r) PROVE ReaderInv'
      <3>1. /\ Others(p) /\ calls'[p].previous = calls[p].previous /\ calls'[p].result = r
            /\ calls'[p].pc # "read"
        BY <1>0, <2>4, Returns, PcNames
      <3> QED
        BY <1>b, <3>1
    <2> QED
      BY <2>1, <2>2, <2>3, <2>4
  <1>8. ASSUME NEW p \in Callers, Rename(p) PROVE ReaderInv'
    <2>1. /\ Others(p) /\ calls'[p].previous = calls[p].previous
          /\ calls'[p].result = calls[p].result /\ calls'[p].pc # "read"
      BY <1>0, <1>8, Renames
    <2> QED
      BY <1>b, <2>1
  <1>9. CASE Restart
    BY <1>9, <1>a DEF Restart, Idle
  <1>10. CASE calls' = calls
    BY <1>a, <1>0, <1>10 DEF ReaderInv
  <1>11. (\E p \in Callers : Kill(p)) \/ UNCHANGED refreshVars => calls' = calls
    BY DEF Kill, refreshVars
  <1> QED
    BY <1>2, <1>3, <1>4, <1>5, <1>6, <1>7, <1>8, <1>9, <1>10, <1>11 DEF RefreshNext, Step

-----------------------------------------------------------------------------
\* The refresh of a graph (knowledge/graph.ex, refresh_coordinator.ex, segment/mod.rs)
\* keeps what writers and readers rely on: one registered caller runs for a key; whoever
\* removes a version is its only writer, and what a reader was told of is complete, unless
\* writers of that version met.
THEOREM RefreshSafe == RefreshSpec => []RefreshInv
  <1>1. RefreshInv /\ [RefreshNext]_refreshVars => RefreshInv'
    BY RefreshTypeStep, RefreshFlightStep, RefreshDirStep, RefreshWriterStep, RefreshResultStep,
       RefreshReaderStep
       DEF RefreshInv
  <1> QED
    BY <1>1, RefreshInitInv, PTL DEF RefreshSpec

\* RefreshCoordinator: of the refreshes with one key one is told to run at a time, whoever
\* is killed, gives up, or runs unregistered beside it.
THEOREM OneRunAtATime == RefreshSpec => []OneRunPerKey
  <1>1. RefreshInv => OneRunPerKey
    BY DEF RefreshInv, FlightInv
  <1> QED
    BY <1>1, RefreshSafe, PTL

\* load_authorized_index and the fallback of a refresh: whoever read the latest manifest
\* finds all the segments of its version, however late it reads them, whoever is killed and
\* whenever the server restarts, unless one writer of that version found it half written
\* by another at work.
THEOREM EveryReadSucceeds == RefreshSpec => []ReadsSucceed
  <1>1. RefreshInv => ReadsSucceed
    BY DEF RefreshInv, ReaderInv
  <1> QED
    BY <1>1, RefreshSafe, PTL

-----------------------------------------------------------------------------
\* A step of the writer is a step of the promise, or changes nothing a reader can see.
LEMMA PublicationStep ==
    ASSUME RefreshInv, [RefreshNext]_refreshVars
    PROVE  [Publication!PublicationNext]_
               <<{v \in Versions : dirs[v] = Complete}, latest, contested>>
  <1> DEFINE readable == {v \in Versions : dirs[v] = Complete}
  <1>0. /\ RefreshTypeOK /\ DirInv /\ WriterInv /\ Kept
        /\ dirs \in [Versions -> SUBSET (Kinds \cup Absent)]
        /\ \A p \in Callers : VersionOf[p] \in Versions
    BY RefreshConstants, RefreshKeeps DEF RefreshInv, RefreshTypeOK
  <1>1. ASSUME NEW p \in Callers, WriteLatest(p) PROVE Publication!PublicationNext
    <2>1. /\ Held(VersionOf[p]) /\ readable' = readable
          /\ latest' = VersionOf[p] /\ contested' = contested
      BY <1>0, <1>1, LatestHeld DEF WriteLatest
    <2>2. VersionOf[p] \in readable \cup contested
      BY <1>0, <2>1, RefreshConstants DEF Held, Complete
    <2>3. Publication!PointTo(VersionOf[p])
      BY <2>1, <2>2 DEF Publication!PointTo
    <2> QED
      BY <1>0, <2>3 DEF Publication!PublicationNext
  <1>2. ASSUME NEW p \in Callers, Check(p)
        PROVE  [Publication!PublicationNext]_<<readable, latest, contested>>
    <2>1. readable' = readable /\ latest' = latest
      BY <1>2 DEF Check
    <2>2. \/ contested' = contested
          \/ VersionOf[p] \notin readable /\ contested' = contested \cup {VersionOf[p]}
      BY <1>0, <1>2 DEF Check
    <2>3. CASE contested' = contested
      BY <2>1, <2>3
    <2>4. CASE VersionOf[p] \notin readable /\ contested' = contested \cup {VersionOf[p]}
      <3>1. Publication!Contest(VersionOf[p])
        BY <2>1, <2>4 DEF Publication!Contest
      <3> QED
        BY <1>0, <3>1 DEF Publication!PublicationNext
    <2> QED
      BY <2>2, <2>3, <2>4
  <1>3. ASSUME NEW p \in Callers, latest' = latest, contested' = contested,
               \A v \in Versions \ {VersionOf[p]} : dirs'[v] = dirs[v]
        PROVE  [Publication!PublicationNext]_<<readable, latest, contested>>
    <2>1. CASE dirs'[VersionOf[p]] = Kinds
      <3>1. readable' = readable \cup {VersionOf[p]}
        BY <1>0, <1>3, <2>1 DEF Complete
      <3>2. Publication!Complete(VersionOf[p])
        BY <1>3, <3>1 DEF Publication!Complete
      <3> QED
        BY <1>0, <3>2 DEF Publication!PublicationNext
    <2>2. CASE dirs'[VersionOf[p]] # Kinds /\ dirs[VersionOf[p]] # Kinds
      <3>1. readable' = readable
        BY <1>0, <1>3, <2>2 DEF Complete
      <3> QED
        BY <1>3, <3>1
    <2>3. CASE dirs'[VersionOf[p]] # Kinds /\ dirs[VersionOf[p]] = Kinds
      <3>1. VersionOf[p] \in contested
        BY <1>0, <1>3, <2>3 DEF Kept
      <3>2. readable' = readable \ {VersionOf[p]}
        BY <1>0, <1>3, <2>3 DEF Complete
      <3>3. Publication!Lose(VersionOf[p])
        BY <1>3, <3>1, <3>2 DEF Publication!Lose
      <3> QED
        BY <1>0, <3>3 DEF Publication!PublicationNext
    <2> QED
      BY <2>1, <2>2, <2>3
  <1>4. ASSUME NEW p \in Callers, Remove(p) \/ OpenTmp(p) \/ Rename(p)
        PROVE  /\ latest' = latest /\ contested' = contested
               /\ \A v \in Versions \ {VersionOf[p]} : dirs'[v] = dirs[v]
    BY <1>0, <1>4 DEF Remove, OpenTmp, Rename
  <1>5. \/ dirs' = dirs /\ latest' = latest /\ contested' = contested
        \/ \E p \in Callers : WriteLatest(p) \/ Check(p) \/ Remove(p) \/ OpenTmp(p) \/ Rename(p)
    BY DEF RefreshNext, Step, refreshVars, ReadLatest, Start, GiveUp, Build, Finish, Read, Fail,
           Kill, Restart
  <1>6. CASE dirs' = dirs /\ latest' = latest /\ contested' = contested
    BY <1>6
  <1> QED
    BY <1>1, <1>2, <1>3, <1>4, <1>5, <1>6

\* write_graph_segments and write_latest_manifest implement GraphPublication: a version
\* that can be read is never removed or rewritten, and latest only ever names one that can,
\* unless writers of the version met.
THEOREM PublicationImplemented == RefreshSpec => ReadableForEver
  <1>1. RefreshInit => Publication!PublicationInit
    <2>1. Absent # Complete
      BY KindsFact DEF Absent, Complete
    <2> QED
      BY <2>1 DEF RefreshInit, Publication!PublicationInit
  <1>2. RefreshInv /\ [RefreshNext]_refreshVars
          => [Publication!PublicationNext]_
                 <<{v \in Versions : dirs[v] = Complete}, latest, contested>>
    BY PublicationStep
  <1> QED
    BY <1>1, <1>2, RefreshSafe, PTL DEF RefreshSpec, ReadableForEver, Publication!PublicationSpec

=============================================================================
