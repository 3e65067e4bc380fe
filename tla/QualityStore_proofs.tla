------------------------ MODULE QualityStore_proofs ------------------------
(***************************************************************************)
(* The quality settings are correct for every number of threads, players,  *)
(* settings, revisions, restarts and losses of the file: the file and the  *)
(* memory agree wherever the file could be read, an answered POST outlives *)
(* the process, and a revision stands for one value of the settings.       *)
(***************************************************************************)
EXTENDS QualityStore, FiniteSetTheorems, TLAPS

-----------------------------------------------------------------------------
(* The inductive invariant *)

Holding(h) == poster[h].at \in {"saving", "saved"}

\* m_mutex: one POST at a time is between its checks and its commit, and the
\* revision it took then is still the next one.
LockInv ==
  /\ ~up => \A h \in Posters : poster[h].at = "idle"
  /\ \A h, k \in Posters : Holding(h) /\ Holding(k) => h = k
  /\ \A h \in Posters : Holding(h) => poster[h].revision = NextRevision
  /\ \A h \in Posters : poster[h].at = "saved" => poster[h].revision # 0

\* The file is what the memory says, but between the two writes of a POST, when it
\* is what the POST has written.
FileInv ==
  /\ \A h \in Posters : poster[h].at = "saved" =>
       file = Saved(poster[h].candidate, poster[h].revision)
  /\ up /\ (\A h \in Posters : poster[h].at # "saved") =>
       IF revision = 0 THEN settings = Default
       ELSE settings = SettingsIn(file) /\ revision = RevisionIn(file)

\* Settings somebody has with their revision are not ahead of the file; with its
\* revision they are its settings, without one they are the defaults.
Behind(f, r, s) ==
  /\ r <= RevisionIn(f)
  /\ r = RevisionIn(f) => s = SettingsIn(f)
  /\ r = 0 => s = Default

\* So are the last promise, what players have, and what they have reported.
PromiseInv == Undisturbed => Behind(file, promised.revision, promised.settings)

PlayerInv ==
  Undisturbed => \A c \in Players :
    player[c].at = "applied" => Behind(file, player[c].revision, player[c].settings)

PairInv ==
  Undisturbed => \A c, d \in Players :
    player[c].at = "applied" /\ player[d].at = "applied" =>
      (player[c].revision = player[d].revision =>
         player[c].settings = player[d].settings)

ReportInv ==
  Undisturbed => \A c \in Players :
    applied[c].age # "none" => Behind(file, applied[c].revision, truth[c])

\* The table of reports is finite, so that it can be counted.
Reporting(a) == {c \in Players : a[c].age # "none"}

CountInv == /\ IsFiniteSet(Reporting(applied))
            /\ Cardinality(Reporting(applied)) <= MaxApplied

-----------------------------------------------------------------------------
(* Records and revisions *)

Files == [state : {"absent", "damaged", "good"}, settings : Settings, revision : Revisions]
Posts == [at : {"idle", "saving", "saved", "answer"}, candidate : Settings,
          revision : Revisions]
Gets == [at : {"idle", "applied"}, settings : Settings, revision : Revisions]
Reports == [revision : Revisions, age : {"none", "recent", "old"}]
Promises == [revision : Revisions, settings : Settings]

\* Everything in TypeOK but the room in the table, which CountInv is about.
Types ==
  /\ file \in Files
  /\ up \in BOOLEAN
  /\ settings \in Settings /\ revision \in Revisions
  /\ applied \in [Players -> Reports]
  /\ poster \in [Posters -> Posts]
  /\ player \in [Players -> Gets]
  /\ crashes \in 0 .. MaxCrashes /\ losses \in 0 .. MaxLosses
  /\ promised \in Promises /\ forgotten \in BOOLEAN
  /\ truth \in [Players -> Settings]

StoreInv == /\ Types /\ LockInv /\ FileInv
            /\ PromiseInv /\ PlayerInv /\ PairInv /\ ReportInv /\ CountInv

LEMMA TypeParts == TypeOK /\ CountInv <=> Types /\ CountInv
BY DEF TypeOK, Types, CountInv, Reporting, Files, Posts, Gets, Reports, Promises

\* The records the operations make.
LEMMA Records ==
  /\ Absent \in Files /\ Damaged \in Files
  /\ Absent.state = "absent" /\ Damaged.state = "damaged"
  /\ Idle \in Posts /\ Idle.at = "idle"
  /\ Nothing \in Gets /\ Nothing.at = "idle"
  /\ NoReport \in Reports /\ NoReport.age = "none"
  /\ 0 \in Revisions /\ 1 \in Revisions
BY QualityAssumption DEF Absent, Damaged, Idle, Nothing, NoReport, Files, Posts, Gets,
                         Reports, Revisions

LEMMA SavedFile ==
  ASSUME NEW s \in Settings, NEW r \in Revisions
  PROVE  /\ Saved(s, r) \in Files
         /\ Saved(s, r).state = "good"
         /\ Saved(s, r).settings = s /\ Saved(s, r).revision = r
         /\ r # 0 => RevisionIn(Saved(s, r)) = r /\ SettingsIn(Saved(s, r)) = s
BY DEF Saved, Files, RevisionIn, SettingsIn

\* The next revision is one more, or zero, which no file may have.
LEMMA NextRevisionType ==
  ASSUME revision \in Revisions
  PROVE  /\ NextRevision \in Revisions
         /\ NextRevision # 0 => NextRevision = revision + 1
<1>1. revision \in Nat /\ revision + 1 \in Nat /\ revision < Width /\ Width \in Nat /\ Width > 0
  BY QualityAssumption DEF Revisions
<1>2. CASE revision + 1 < Width
  <2>1. (revision + 1) % Width = revision + 1
    BY <1>1, <1>2
  <2> QED
    BY <1>1, <1>2, <2>1 DEF NextRevision, Revisions
<1>3. CASE revision + 1 = Width
  <2>1. Width % Width = 0
    BY <1>1
  <2> QED
    BY <1>1, <1>3, <2>1 DEF NextRevision, Revisions
<1> QED
  BY <1>1, <1>2, <1>3

\* A file has a revision and settings to read; no revision means nothing to read.
LEMMA ReadType ==
  ASSUME NEW f \in Files
  PROVE  /\ RevisionIn(f) \in Revisions /\ RevisionIn(f) \in Nat
         /\ SettingsIn(f) \in Settings
         /\ RevisionIn(f) = 0 <=> f.state # "good"
         /\ RevisionIn(f) = 0 => SettingsIn(f) = Default
BY QualityAssumption DEF Files, RevisionIn, SettingsIn, Revisions

\* Where nobody is between the two writes of a POST, memory is not ahead of the
\* file, also in a process that could not read it.
LEMMA MemoryIsBehind ==
  ASSUME Types, FileInv, up, \A h \in Posters : poster[h].at # "saved"
  PROVE  /\ Behind(file, revision, settings)
         /\ revision # 0 => revision = RevisionIn(file)
<1>1. IF revision = 0 THEN settings = Default
      ELSE settings = SettingsIn(file) /\ revision = RevisionIn(file)
  BY DEF FileInv
<1>2. revision \in Nat /\ file \in Files
  BY QualityAssumption DEF Types, Revisions
<1> QED
  BY <1>1, <1>2, ReadType DEF Behind

LEMMA FreeMeansBehind ==
  ASSUME Types, FileInv, Free
  PROVE  FileHoldsMemory /\ Behind(file, revision, settings)
<1>1. up /\ \A h \in Posters : poster[h].at # "saved"
  BY DEF Free
<1> QED
  BY <1>1, MemoryIsBehind DEF FileHoldsMemory, FileInv

\* What is not ahead of one file is not ahead of one with a higher revision.
LEMMA StaysBehind ==
  ASSUME NEW f \in Files, NEW g \in Files, RevisionIn(f) < RevisionIn(g),
         NEW r \in Nat, NEW s, Behind(f, r, s)
  PROVE  Behind(g, r, s)
BY ReadType DEF Behind

-----------------------------------------------------------------------------
(* What several operations share *)

HistoryInv == PromiseInv /\ PlayerInv /\ PairInv /\ ReportInv /\ CountInv

\* What an operation that touches neither the file nor the players leaves true.
LEMMA SameHistory ==
  ASSUME HistoryInv,
         UNCHANGED <<file, losses, forgotten, promised, player, applied, truth>>
  PROVE  HistoryInv'
BY DEF HistoryInv, PromiseInv, PlayerInv, PairInv, ReportInv, CountInv, Reporting,
       Undisturbed, Behind

\* A higher revision in the file leaves everybody where they are.
LEMMA HigherFile ==
  ASSUME StoreInv, file' \in Files, Undisturbed' => RevisionIn(file) < RevisionIn(file'),
         Undisturbed' => Undisturbed,
         UNCHANGED <<promised, player, applied, truth>>
  PROVE  HistoryInv'
<1>1. Types /\ file \in Files
  BY DEF StoreInv, Types
<1>2. PromiseInv'
  <2>1. promised.revision \in Nat
    BY <1>1, QualityAssumption DEF Types, Promises, Revisions
  <2> QED
    BY <1>1, <2>1, StaysBehind DEF StoreInv, PromiseInv
<1>3. PlayerInv'
  <2>1. \A c \in Players : player[c].revision \in Nat
    BY <1>1, QualityAssumption DEF Types, Gets, Revisions
  <2> QED
    BY <1>1, <2>1, StaysBehind DEF StoreInv, PlayerInv
<1>4. ReportInv'
  <2>1. \A c \in Players : applied[c].revision \in Nat
    BY <1>1, QualityAssumption DEF Types, Reports, Revisions
  <2> QED
    BY <1>1, <2>1, StaysBehind DEF StoreInv, ReportInv
<1>5. PairInv' /\ CountInv'
  BY DEF StoreInv, PairInv, CountInv
<1> QED
  BY <1>2, <1>3, <1>4, <1>5 DEF HistoryInv

\* What an operation of the players leaves true of the file and the lock.
LEMMA SameStore ==
  ASSUME LockInv, FileInv, UNCHANGED <<file, up, settings, revision, poster>>
  PROVE  LockInv' /\ FileInv'
BY DEF LockInv, FileInv, Holding, NextRevision

\* Only the POST that holds the lock writes: the others are idle or about to answer.
LEMMA OneHolder ==
  ASSUME LockInv, NEW h \in Posters, Holding(h)
  PROVE  /\ up
         /\ \A k \in Posters : k # h => poster[k].at \notin {"saving", "saved"}
         /\ poster[h].revision = NextRevision
BY DEF LockInv, Holding

\* Before it has replaced the file, memory is what a start has read or a POST has
\* left there.
LEMMA SavingMeansRead ==
  ASSUME Types, LockInv, FileInv, NEW h \in Posters, poster[h].at = "saving"
  PROVE  IF revision = 0 THEN settings = Default
         ELSE settings = SettingsIn(file) /\ revision = RevisionIn(file)
<1>1. up /\ \A k \in Posters : poster[k].at # "saved"
  BY OneHolder DEF Holding
<1> QED
  BY <1>1 DEF FileInv

-----------------------------------------------------------------------------
(* The invariant holds initially and every operation keeps it *)

LEMMA StoreInit == Init => StoreInv
<1> SUFFICES ASSUME Init PROVE StoreInv
  OBVIOUS
<1>1. Default \in Settings /\ 0 \in 0 .. MaxCrashes /\ 0 \in 0 .. MaxLosses /\ MaxApplied \in Nat
  BY QualityAssumption
<1>2. Types
  <2>1. promised \in Promises /\ forgotten \in BOOLEAN
    BY <1>1, Records DEF Init, Promises
  <2>2. file \in Files
    BY Records, SavedFile DEF Init, ByHand
  <2> QED
    BY <1>1, <2>1, <2>2, Records DEF Init, Types, NoReports
<1>3. Reporting(applied) = {}
  BY Records DEF Init, Reporting, NoReports
<1>4. CountInv
  BY <1>1, <1>3, FS_EmptySet DEF CountInv
<1>5. LockInv /\ FileInv
  BY Records DEF Init, LockInv, FileInv, Holding
<1>6. PromiseInv /\ PlayerInv /\ PairInv /\ ReportInv
  <2>1. Behind(file, 0, Default)
    BY <1>2, ReadType DEF Types, Behind
  <2> QED
    BY <2>1, Records DEF Init, PromiseInv, PlayerInv, PairInv, ReportInv, NoReports
<1> QED
  BY <1>2, <1>4, <1>5, <1>6 DEF StoreInv

\* The constructor: memory is what is read, or the default; a new file is ahead of
\* everything there was without one.
LEMMA LoadKeeps ==
  ASSUME StoreInv, Load
  PROVE  StoreInv'
<1>1. /\ Types /\ ~up /\ up' /\ applied' = NoReports
      /\ UNCHANGED <<crashes, losses, forgotten, poster, player, promised, truth>>
      /\ \A h \in Posters : poster[h].at = "idle"
  BY DEF StoreInv, Load, LockInv, history
<1>2. /\ file \in Files /\ Default \in Settings /\ 0 \in Revisions /\ 1 \in Revisions
  BY <1>1, Records, QualityAssumption DEF Types
<1>3. /\ settings' \in Settings /\ revision' \in Revisions /\ file' \in Files
      /\ IF revision' = 0 THEN settings' = Default
         ELSE settings' = SettingsIn(file') /\ revision' = RevisionIn(file')
      /\ file' = file \/ RevisionIn(file) < RevisionIn(file')
  <2>1. CASE file.state = "good" /\ file' = file
             /\ settings' = SettingsIn(file) /\ revision' = RevisionIn(file)
    BY <1>2, <2>1, ReadType
  <2>2. CASE file.state = "absent" /\ file' = Saved(Default, 1)
             /\ settings' = Default /\ revision' = 1
    <3>1. /\ file' \in Files /\ RevisionIn(file') = 1 /\ SettingsIn(file') = Default
      BY <1>2, <2>2, SavedFile
    <3>2. RevisionIn(file) = 0
      BY <1>2, <2>2, ReadType
    <3> QED
      BY <1>2, <2>2, <3>1, <3>2
  <2>3. CASE file' = file /\ settings' = Default /\ revision' = 0
    BY <1>2, <2>3
  <2> QED
    BY <2>1, <2>2, <2>3 DEF Load
<1>4. Types'
  BY <1>1, <1>3, Records DEF Types, NoReports
<1>5. LockInv' /\ FileInv'
  BY <1>1, <1>3 DEF LockInv, FileInv, Holding
<1>6. PromiseInv' /\ PlayerInv' /\ PairInv'
  <2>1. CASE file' = file
    BY <1>1, <2>1 DEF StoreInv, PromiseInv, PlayerInv, PairInv, Undisturbed
  <2>2. CASE RevisionIn(file) < RevisionIn(file')
    <3>1. promised.revision \in Nat /\ \A c \in Players : player[c].revision \in Nat
      BY <1>1, QualityAssumption DEF Types, Promises, Gets, Revisions
    <3> QED
      BY <1>1, <1>2, <1>3, <2>2, <3>1, StaysBehind
         DEF StoreInv, PromiseInv, PlayerInv, PairInv, Undisturbed
  <2> QED
    BY <1>3, <2>1, <2>2
<1>7. ReportInv' /\ Reporting(applied') = {}
  BY <1>1, Records DEF ReportInv, Reporting, NoReports
<1>8. CountInv'
  BY <1>7, FS_EmptySet, QualityAssumption DEF CountInv
<1> QED
  BY <1>4, <1>5, <1>6, <1>7, <1>8 DEF StoreInv

\* A POST takes the lock, and with it the next revision.
LEMMA PostKeeps ==
  ASSUME StoreInv, NEW h \in Posters, NEW s \in Settings, Post(h, s)
  PROVE  StoreInv'
<1> DEFINE new == [at |-> "saving", candidate |-> s, revision |-> NextRevision]
<1>1. /\ Types /\ Free /\ poster' = [poster EXCEPT ![h] = new]
      /\ UNCHANGED <<file, up, crashes, losses, forgotten, settings, revision, applied,
                     player, promised, truth>>
  BY DEF StoreInv, Post, outside, store, history
<1>2. new \in Posts /\ new.at = "saving" /\ new.revision = NextRevision
  BY <1>1, NextRevisionType DEF Types, Posts
<1> HIDE DEF new
<1>3. Types'
  BY <1>1, <1>2 DEF Types
<1>4. /\ poster'[h] = new
      /\ \A k \in Posters : k # h => poster'[k] = poster[k]
      /\ NextRevision' = NextRevision
  BY <1>1 DEF Types, NextRevision
<1>5. up /\ \A k \in Posters : poster[k].at \notin {"saving", "saved"}
  BY <1>1 DEF Free
<1>6. LockInv'
  BY <1>1, <1>2, <1>4, <1>5 DEF LockInv, Holding
<1>7. FileInv'
  BY <1>1, <1>2, <1>4, <1>5 DEF StoreInv, FileInv
<1>8. HistoryInv'
  BY <1>1, SameHistory DEF StoreInv, HistoryInv
<1> QED
  BY <1>3, <1>6, <1>7, <1>8 DEF StoreInv, HistoryInv

\* A failed save: the lock is given back, and the file is as it was.
LEMMA SaveFailsKeeps ==
  ASSUME StoreInv, NEW h \in Posters, SaveFails(h)
  PROVE  StoreInv'
<1>1. /\ Types /\ poster[h].at = "saving" /\ poster' = [poster EXCEPT ![h] = Idle]
      /\ UNCHANGED <<file, up, crashes, losses, forgotten, settings, revision, applied,
                     player, promised, truth>>
  BY DEF StoreInv, SaveFails, KeepsFile, store, history
<1>2. Types'
  BY <1>1, Records DEF Types
<1>3. /\ poster'[h].at = "idle"
      /\ \A k \in Posters : k # h => poster'[k] = poster[k]
      /\ NextRevision' = NextRevision
  BY <1>1, Records DEF Types, NextRevision
<1>4. up /\ \A k \in Posters : k # h => poster[k].at \notin {"saving", "saved"}
  BY <1>1, OneHolder DEF StoreInv, Holding
<1>5. LockInv'
  BY <1>1, <1>3, <1>4 DEF LockInv, Holding
<1>6. FileInv'
  BY <1>1, <1>3, <1>4, SavingMeansRead DEF StoreInv, FileInv
<1>7. HistoryInv'
  BY <1>1, SameHistory DEF StoreInv, HistoryInv
<1> QED
  BY <1>2, <1>5, <1>6, <1>7 DEF StoreInv, HistoryInv

\* The new file is ahead of everything there was, of what was promised and of what
\* any player has, unless the process could not read the old one.
LEMMA SaveReplacesKeeps ==
  ASSUME StoreInv, NEW h \in Posters, SaveReplaces(h)
  PROVE  StoreInv'
<1> DEFINE r == poster[h].revision
           s == poster[h].candidate
           new == [poster[h] EXCEPT !.at = "saved"]
<1>1. /\ Types /\ poster[h].at = "saving" /\ r # 0 /\ file' = Saved(s, r)
      /\ poster' = [poster EXCEPT ![h] = new]
      /\ UNCHANGED <<up, crashes, losses, settings, revision, applied, player,
                     promised, truth>>
  BY DEF StoreInv, SaveReplaces, store
<1>2. r \in Revisions /\ s \in Settings /\ poster[h] \in Posts
  BY <1>1 DEF Types, Posts
<1>3. /\ new \in Posts /\ new.at = "saved" /\ new.revision = r /\ new.candidate = s
  BY <1>2 DEF Posts
<1> HIDE DEF new
<1>4. file' \in Files /\ RevisionIn(file') = r /\ SettingsIn(file') = s
  BY <1>1, <1>2, SavedFile
<1>5. forgotten' = (forgotten \/ (file.state = "good" /\ revision = 0))
  BY DEF SaveReplaces
<1>6. Types'
  BY <1>1, <1>3, <1>4, <1>5 DEF Types
<1>7. /\ poster'[h] = new
      /\ \A k \in Posters : k # h => poster'[k] = poster[k]
      /\ NextRevision' = NextRevision
  BY <1>1 DEF Types, NextRevision
<1>8. /\ up /\ r = NextRevision
      /\ \A k \in Posters : k # h => poster[k].at \notin {"saving", "saved"}
  BY <1>1, OneHolder DEF StoreInv, Holding
<1>9. LockInv'
  BY <1>1, <1>3, <1>7, <1>8 DEF LockInv, Holding
<1>10. FileInv'
  BY <1>1, <1>3, <1>7, <1>8 DEF FileInv
<1>11. ASSUME Undisturbed'
       PROVE  Undisturbed /\ RevisionIn(file) < RevisionIn(file')
  <2>1. Undisturbed /\ ~(file.state = "good" /\ revision = 0)
    BY <1>1, <1>5, <1>11 DEF Undisturbed
  <2>2. revision \in Nat /\ r = revision + 1 /\ file \in Files
    BY <1>1, <1>8, NextRevisionType, QualityAssumption DEF Types, Revisions
  <2>3. revision = RevisionIn(file)
    BY <1>1, <2>1, <2>2, SavingMeansRead, ReadType DEF StoreInv
  <2> QED
    BY <1>4, <2>1, <2>2, <2>3
<1>12. HistoryInv'
  BY <1>1, <1>4, <1>11, HigherFile
<1> QED
  BY <1>6, <1>9, <1>10, <1>12 DEF StoreInv, HistoryInv

\* Memory follows the file, and the lock is given back.
LEMMA CommitKeeps ==
  ASSUME StoreInv, NEW h \in Posters, Commit(h)
  PROVE  StoreInv'
<1> DEFINE new == [poster[h] EXCEPT !.at = "answer"]
<1>1. /\ Types /\ poster[h].at = "saved"
      /\ settings' = poster[h].candidate /\ revision' = poster[h].revision
      /\ poster' = [poster EXCEPT ![h] = new]
      /\ UNCHANGED <<file, up, crashes, losses, forgotten, applied, player, promised,
                     truth>>
  BY DEF StoreInv, Commit, outside, history
<1>2. poster[h] \in Posts /\ settings' \in Settings /\ revision' \in Revisions
  BY <1>1 DEF Types, Posts
<1>3. new \in Posts /\ new.at = "answer"
  BY <1>2 DEF Posts
<1> HIDE DEF new
<1>4. Types'
  BY <1>1, <1>2, <1>3 DEF Types
<1>5. /\ poster'[h] = new
      /\ \A k \in Posters : k # h => poster'[k] = poster[k]
  BY <1>1 DEF Types
<1>6. up /\ \A k \in Posters : k # h => poster[k].at \notin {"saving", "saved"}
  BY <1>1, OneHolder DEF StoreInv, Holding
<1>7. LockInv'
  BY <1>1, <1>3, <1>5, <1>6 DEF LockInv, Holding
<1>8. revision' # 0 /\ file' = Saved(settings', revision')
  BY <1>1 DEF StoreInv, LockInv, FileInv
<1>9. FileInv'
  BY <1>2, <1>3, <1>5, <1>6, <1>8, SavedFile DEF FileInv
<1>10. HistoryInv'
  BY <1>1, SameHistory DEF StoreInv, HistoryInv
<1> QED
  BY <1>4, <1>7, <1>9, <1>10 DEF StoreInv, HistoryInv

\* The answer promises what is in the file by now.
LEMMA AnswerKeeps ==
  ASSUME StoreInv, NEW h \in Posters, Answer(h)
  PROVE  StoreInv'
<1>1. /\ Types /\ Free /\ promised' = [revision |-> revision, settings |-> settings]
      /\ poster' = [poster EXCEPT ![h] = Idle]
      /\ UNCHANGED <<file, up, crashes, losses, forgotten, settings, revision, applied,
                     player, truth>>
  BY DEF StoreInv, Answer, outside, store
<1>2. Types'
  BY <1>1, Records DEF Types, Promises
<1>3. /\ poster'[h].at = "idle"
      /\ \A k \in Posters : k # h => poster'[k] = poster[k]
      /\ NextRevision' = NextRevision
  BY <1>1, Records DEF Types, NextRevision
<1>4. up /\ \A k \in Posters : poster[k].at \notin {"saving", "saved"}
  BY <1>1 DEF Free
<1>5. LockInv' /\ FileInv'
  BY <1>1, <1>3, <1>4 DEF StoreInv, LockInv, FileInv, Holding
<1>6. PromiseInv'
  BY <1>1, FreeMeansBehind DEF StoreInv, PromiseInv
<1>7. PlayerInv' /\ PairInv' /\ ReportInv' /\ CountInv'
  BY <1>1 DEF StoreInv, PlayerInv, PairInv, ReportInv, CountInv, Undisturbed
<1> QED
  BY <1>2, <1>5, <1>6, <1>7 DEF StoreInv

\* A player gets the settings with their revision in one piece.
LEMMA GetKeeps ==
  ASSUME StoreInv, NEW c \in Players, Get(c)
  PROVE  StoreInv'
<1> DEFINE new == [at |-> "applied", settings |-> settings, revision |-> revision]
<1>1. /\ Types /\ Free /\ player' = [player EXCEPT ![c] = new]
      /\ UNCHANGED <<file, up, crashes, losses, forgotten, settings, revision, applied,
                     poster, promised, truth>>
  BY DEF StoreInv, Get, outside, store, history
<1>2. /\ new \in Gets /\ new.at = "applied"
      /\ new.settings = settings /\ new.revision = revision
  BY <1>1 DEF Types, Gets
<1> HIDE DEF new
<1>3. Types'
  BY <1>1, <1>2 DEF Types
<1>4. player'[c] = new /\ \A d \in Players : d # c => player'[d] = player[d]
  BY <1>1 DEF Types
<1>5. LockInv' /\ FileInv'
  BY <1>1, SameStore DEF StoreInv
<1>6. Behind(file, revision, settings)
  BY <1>1, FreeMeansBehind DEF StoreInv
<1>7. PlayerInv'
  BY <1>1, <1>2, <1>4, <1>6 DEF StoreInv, PlayerInv, Undisturbed
<1>8. PairInv'
  <2> SUFFICES ASSUME Undisturbed, NEW d \in Players, player[d].at = "applied",
                      player[d].revision = revision
               PROVE  player[d].settings = settings
    BY <1>1, <1>2, <1>4 DEF StoreInv, PairInv, Undisturbed
  <2>1. Behind(file, player[d].revision, player[d].settings)
    BY DEF StoreInv, PlayerInv
  <2>2. revision = 0 => settings = Default
    BY <1>6 DEF Behind
  <2>3. revision # 0 => settings = SettingsIn(file) /\ revision = RevisionIn(file)
    BY <1>1, FreeMeansBehind DEF StoreInv, FileHoldsMemory
  <2> QED
    BY <2>1, <2>2, <2>3 DEF Behind
<1>9. PromiseInv' /\ ReportInv' /\ CountInv'
  BY <1>1 DEF StoreInv, PromiseInv, ReportInv, CountInv, Undisturbed
<1> QED
  BY <1>3, <1>5, <1>7, <1>8, <1>9 DEF StoreInv

-----------------------------------------------------------------------------
(* The table of reports *)

\* Leaving out what is old leaves a smaller table of the same reports.
LEMMA PrunedReports ==
  ASSUME Types, CountInv
  PROVE  /\ Pruned \in [Players -> Reports]
         /\ \A c \in Players : Pruned[c].age # "none" => Pruned[c] = applied[c]
         /\ IsFiniteSet(Reporting(Pruned))
         /\ Cardinality(Reporting(Pruned)) <= MaxApplied
<1>1. /\ Pruned \in [Players -> Reports]
      /\ \A c \in Players : Pruned[c].age # "none" => Pruned[c] = applied[c]
  BY Records DEF Types, Pruned
<1>2. Reporting(Pruned) \in SUBSET Reporting(applied)
  BY <1>1 DEF Reporting
<1>3. /\ IsFiniteSet(Reporting(Pruned))
      /\ Cardinality(Reporting(Pruned)) <= Cardinality(Reporting(applied))
  BY <1>2, FS_Subset DEF CountInv
<1>4. /\ Cardinality(Reporting(Pruned)) \in Nat
      /\ Cardinality(Reporting(applied)) \in Nat
  BY <1>3, FS_CardinalityType DEF CountInv
<1> QED
  BY <1>1, <1>3, <1>4, QualityAssumption DEF CountInv

\* A report for which there is room still fits.
LEMMA OneMoreReport ==
  ASSUME Types, CountInv, NEW c \in Players, Room(c), NEW r \in Reports, r.age # "none"
  PROVE  LET a == [Pruned EXCEPT ![c] = r]
         IN  IsFiniteSet(Reporting(a)) /\ Cardinality(Reporting(a)) <= MaxApplied
<1> DEFINE S == Reporting(Pruned)
           a == [Pruned EXCEPT ![c] = r]
<1>1. /\ Pruned \in [Players -> Reports]
      /\ IsFiniteSet(S) /\ Cardinality(S) <= MaxApplied
  BY PrunedReports
<1>2. Reporting(a) = S \cup {c}
  BY <1>1 DEF Reporting
<1>3. c \in S \/ Cardinality(S) < MaxApplied
  BY DEF Room, Reporting
<1> HIDE DEF S, a
<1>4. /\ IsFiniteSet(S \cup {c})
      /\ Cardinality(S \cup {c}) = IF c \in S THEN Cardinality(S) ELSE Cardinality(S) + 1
  BY <1>1, FS_AddElement
<1>5. Cardinality(S) \in Nat
  BY <1>1, FS_CardinalityType
<1>6. Cardinality(S \cup {c}) <= MaxApplied
  BY <1>1, <1>3, <1>4, <1>5, QualityAssumption
<1> QED
  BY <1>2, <1>4, <1>6 DEF a

\* What the operations on the table have in common: each entry there is after it
\* was there before, or is the current revision of a player that has it.
LEMMA TableKeeps ==
  ASSUME StoreInv, applied' \in [Players -> Reports], truth' \in [Players -> Settings],
         player' \in [Players -> Gets],
         UNCHANGED <<file, up, crashes, losses, forgotten, settings, revision, poster,
                     promised>>,
         \A c \in Players : player'[c].at = "applied" => player'[c] = player[c],
         \A c \in Players : applied'[c].age # "none" =>
           \/ /\ applied[c].age # "none" /\ applied'[c].revision = applied[c].revision
              /\ truth'[c] = truth[c]
           \/ Free /\ player[c].at = "applied" /\ player[c].revision = revision
              /\ applied'[c].revision = revision /\ truth'[c] = player[c].settings,
         CountInv'
  PROVE  StoreInv'
<1>1. Types'
  BY DEF StoreInv, Types
<1>2. LockInv' /\ FileInv'
  BY SameStore DEF StoreInv
<1>3. Undisturbed' = Undisturbed
  BY DEF Undisturbed
<1>4. PromiseInv' /\ PlayerInv' /\ PairInv'
  BY <1>3 DEF StoreInv, PromiseInv, PlayerInv, PairInv
<1>5. ReportInv'
  <2> SUFFICES ASSUME Undisturbed, NEW c \in Players, applied'[c].age # "none"
               PROVE  Behind(file, applied'[c].revision, truth'[c])
    BY <1>3 DEF ReportInv
  <2>1. CASE /\ applied[c].age # "none" /\ applied'[c].revision = applied[c].revision
             /\ truth'[c] = truth[c]
    BY <2>1 DEF StoreInv, ReportInv
  <2>2. CASE Free /\ player[c].at = "applied" /\ player[c].revision = revision
             /\ applied'[c].revision = revision /\ truth'[c] = player[c].settings
    BY <2>2 DEF StoreInv, PlayerInv
  <2> QED
    BY <2>1, <2>2
<1> QED
  BY <1>1, <1>2, <1>4, <1>5 DEF StoreInv

LEMMA ReportKeeps ==
  ASSUME StoreInv, NEW c \in Players, Report(c)
  PROVE  StoreInv'
<1> DEFINE r == [revision |-> revision, age |-> "recent"]
<1>1. /\ Types /\ CountInv /\ Free /\ player[c].at = "applied"
      /\ player' = [player EXCEPT ![c] = Nothing]
      /\ UNCHANGED <<file, up, crashes, losses, forgotten, settings, revision, poster,
                     promised>>
  BY DEF StoreInv, Report, outside
<1>2. /\ player' \in [Players -> Gets]
      /\ \A d \in Players : player'[d].at = "applied" => player'[d] = player[d]
  BY <1>1, Records DEF Types
<1>3. CASE Current(player[c].revision) /\ Room(c)
  <2>1. /\ applied' = [Pruned EXCEPT ![c] = r]
        /\ truth' = [truth EXCEPT ![c] = player[c].settings]
        /\ player[c].revision = revision
    BY <1>3 DEF Report, Current
  <2>2. r \in Reports /\ r.age = "recent" /\ r.revision = revision
    BY <1>1 DEF Types, Reports
  <2> HIDE DEF r
  <2>3. CountInv'
    BY <1>1, <1>3, <2>1, <2>2, OneMoreReport DEF CountInv
  <2>4. /\ applied' \in [Players -> Reports] /\ truth' \in [Players -> Settings]
        /\ applied'[c] = r /\ truth'[c] = player[c].settings
        /\ \A d \in Players : d # c => applied'[d] = Pruned[d] /\ truth'[d] = truth[d]
    BY <1>1, <2>1, <2>2, PrunedReports DEF Types, Gets
  <2>5. \A d \in Players : Pruned[d].age # "none" => Pruned[d] = applied[d]
    BY <1>1, PrunedReports
  <2>6. ASSUME NEW d \in Players, applied'[d].age # "none"
        PROVE  \/ /\ applied[d].age # "none" /\ applied'[d].revision = applied[d].revision
                  /\ truth'[d] = truth[d]
               \/ Free /\ player[d].at = "applied" /\ player[d].revision = revision
                  /\ applied'[d].revision = revision /\ truth'[d] = player[d].settings
    <3>1. CASE d = c
      BY <1>1, <2>1, <2>2, <2>4, <3>1
    <3>2. CASE d # c
      BY <2>4, <2>5, <2>6, <3>2
    <3> QED
      BY <3>1, <3>2
  <2> QED
    BY <1>1, <1>2, <2>3, <2>4, <2>6, TableKeeps
<1>4. CASE ~(Current(player[c].revision) /\ Room(c))
  <2>1. applied' \in {Pruned, applied} /\ truth' = truth
    BY <1>4 DEF Report
  <2>2. /\ applied' \in [Players -> Reports] /\ truth' \in [Players -> Settings]
        /\ \A d \in Players : applied'[d].age # "none" => applied'[d] = applied[d]
    BY <1>1, <2>1, PrunedReports DEF Types
  <2>3. CountInv'
    BY <1>1, <2>1, PrunedReports DEF CountInv
  <2> QED
    BY <1>1, <1>2, <2>1, <2>2, <2>3, TableKeeps
<1> QED
  BY <1>3, <1>4

\* Reports that are read again, or grow old, stay what they were.
LEMMA StatusKeeps ==
  ASSUME StoreInv, Status
  PROVE  StoreInv'
<1>1. /\ Types /\ CountInv /\ applied' = Pruned
      /\ UNCHANGED <<file, up, crashes, losses, forgotten, settings, revision, poster,
                     player, promised, truth>>
  BY DEF StoreInv, Status, outside, history
<1>2. CountInv'
  BY <1>1, PrunedReports DEF CountInv
<1>3. /\ applied' \in [Players -> Reports] /\ truth' \in [Players -> Settings]
      /\ player' \in [Players -> Gets]
      /\ \A d \in Players : applied'[d].age # "none" => applied'[d] = applied[d]
  BY <1>1, PrunedReports DEF Types
<1> QED
  BY <1>1, <1>2, <1>3, TableKeeps

LEMMA ExpireKeeps ==
  ASSUME StoreInv, NEW c \in Players, Expire(c)
  PROVE  StoreInv'
<1> DEFINE r == [applied[c] EXCEPT !.age = "old"]
<1>1. /\ Types /\ CountInv /\ applied[c].age = "recent"
      /\ applied' = [applied EXCEPT ![c] = r]
      /\ UNCHANGED <<file, up, crashes, losses, forgotten, settings, revision, poster,
                     player, promised, truth>>
  BY DEF StoreInv, Expire, outside, history
<1>2. r \in Reports /\ r.age = "old" /\ r.revision = applied[c].revision
  BY <1>1 DEF Types, Reports
<1> HIDE DEF r
<1>3. /\ applied' \in [Players -> Reports] /\ truth' \in [Players -> Settings]
      /\ player' \in [Players -> Gets]
      /\ applied'[c] = r /\ \A d \in Players : d # c => applied'[d] = applied[d]
  BY <1>1, <1>2 DEF Types
<1>4. Reporting(applied') = Reporting(applied)
  BY <1>1, <1>2, <1>3 DEF Reporting
<1>5. CountInv'
  BY <1>1, <1>4 DEF CountInv
<1>6. \A d \in Players : applied'[d].age # "none" =>
        applied[d].age # "none" /\ applied'[d].revision = applied[d].revision
  BY <1>1, <1>2, <1>3
<1> QED
  BY <1>1, <1>3, <1>5, <1>6, TableKeeps

-----------------------------------------------------------------------------
(* Restarts *)

\* After the end of the process only the file is left, whatever the POST that held
\* the lock had done by then.
LEMMA CrashKeeps ==
  ASSUME StoreInv, Crash
  PROVE  StoreInv'
<1>1. /\ Types /\ up' = FALSE /\ crashes < MaxCrashes /\ crashes' = crashes + 1
      /\ poster' = [h \in Posters |-> Idle]
      /\ UNCHANGED <<file, losses, forgotten, settings, revision, applied, player,
                     promised, truth>>
  BY DEF StoreInv, Crash, store, history
<1>2. crashes' \in 0 .. MaxCrashes
  BY <1>1, QualityAssumption DEF Types
<1>3. Types'
  <2>1. up' \in BOOLEAN
    BY <1>1
  <2>2. poster' \in [Posters -> Posts]
    BY <1>1, Records
  <2> QED
    BY <1>1, <1>2, <2>1, <2>2 DEF Types
<1>4. LockInv' /\ FileInv'
  BY <1>1, Records DEF LockInv, FileInv, Holding
<1>5. HistoryInv'
  BY <1>1, SameHistory DEF StoreInv, HistoryInv
<1> QED
  BY <1>3, <1>4, <1>5 DEF StoreInv, HistoryInv

\* Once the file was lost nothing is claimed of the past.
LEMMA LoseKeeps ==
  ASSUME StoreInv, LoseFile
  PROVE  StoreInv'
<1>1. /\ Types /\ ~up /\ file' \in {Absent, Damaged} \cup ByHand
      /\ losses < MaxLosses /\ losses' = losses + 1
      /\ UNCHANGED <<up, crashes, forgotten, settings, revision, applied, poster,
                     player, promised, truth>>
  BY DEF StoreInv, LoseFile, store, history
<1>2. losses' \in 0 .. MaxLosses /\ losses' # 0
  BY <1>1, QualityAssumption DEF Types
<1>3. Types'
  <2>1. file' \in Files
    BY <1>1, Records, SavedFile DEF ByHand
  <2> QED
    BY <1>1, <1>2, <2>1 DEF Types
<1>4. LockInv' /\ FileInv'
  BY <1>1 DEF StoreInv, LockInv, FileInv, Holding
<1>5. PromiseInv' /\ PlayerInv' /\ PairInv' /\ ReportInv'
  BY <1>2 DEF PromiseInv, PlayerInv, PairInv, ReportInv, Undisturbed
<1>6. CountInv'
  BY <1>1 DEF StoreInv, CountInv
<1> QED
  BY <1>3, <1>4, <1>5, <1>6 DEF StoreInv

LEMMA StoreStep == StoreInv /\ [Next]_vars => StoreInv'
<1> SUFFICES ASSUME StoreInv, [Next]_vars PROVE StoreInv'
  OBVIOUS
<1>1. CASE Load
  BY <1>1, LoadKeeps
<1>2. ASSUME NEW h \in Posters, NEW s \in Settings, Post(h, s) PROVE StoreInv'
  BY <1>2, PostKeeps
<1>3. ASSUME NEW h \in Posters,
             SaveFails(h) \/ SaveReplaces(h) \/ Commit(h) \/ Answer(h)
      PROVE StoreInv'
  BY <1>3, SaveFailsKeeps, SaveReplacesKeeps, CommitKeeps, AnswerKeeps
<1>4. ASSUME NEW c \in Players, Get(c) \/ Report(c) \/ Expire(c) PROVE StoreInv'
  BY <1>4, GetKeeps, ReportKeeps, ExpireKeeps
<1>5. CASE Status
  BY <1>5, StatusKeeps
<1>6. CASE Crash
  BY <1>6, CrashKeeps
<1>7. CASE LoseFile
  BY <1>7, LoseKeeps
<1>8. CASE UNCHANGED vars
  <2>1. UNCHANGED <<file, up, crashes, losses, forgotten, settings, revision, applied,
                    poster, player, promised, truth>>
    BY <1>8 DEF vars, outside, store, history
  <2>2. Types'
    BY <2>1 DEF StoreInv, Types
  <2> QED
    BY <2>1, <2>2, SameStore, SameHistory DEF StoreInv, HistoryInv
<1> QED
  BY <1>1, <1>2, <1>3, <1>4, <1>5, <1>6, <1>7, <1>8 DEF Next

-----------------------------------------------------------------------------
(* The theorems *)

\* Every reachable state of the store satisfies the inductive invariant.
THEOREM StoreInvariant == Spec => []StoreInv
<1> QED
  BY StoreInit, StoreStep, PTL DEF Spec

\* Type correctness; m_applied never has more than kMaxApplied entries.
THEOREM StoreTypes == Spec => []TypeOK
<1>1. StoreInv => TypeOK
  BY TypeParts DEF StoreInv
<1> QED
  BY <1>1, StoreInvariant, PTL

\* Load, UpdateFromJson and SaveInternal: with the lock free memory is what reading
\* the file gives, or the defaults without a revision.
THEOREM TheFileHoldsMemory == Spec => []FileHoldsMemory
<1>1. StoreInv => FileHoldsMemory
  BY FreeMeansBehind DEF StoreInv, FileHoldsMemory
<1> QED
  BY <1>1, StoreInvariant, PTL

\* A POST answered with success outlives any number of restarts, at any point, and
\* processes that cannot read the file but are not told to save.
THEOREM ThePromiseIsKept == Spec => []PromiseKept
<1>1. ASSUME StoreInv PROVE PromiseKept
  <2>1. RevisionIn(file) \in Nat /\ promised.revision \in Nat
    BY <1>1, ReadType, QualityAssumption DEF StoreInv, Types, Promises, Revisions
  <2> QED
    BY <1>1, <2>1 DEF StoreInv, PromiseInv, PromiseKept, Behind
<1> QED
  BY <1>1, StoreInvariant, PTL

\* m_revision never stands for two values of the settings, across restarts, failed
\* saves and failed reads.
THEOREM ARevisionNamesSettings == Spec => []RevisionNamesSettings
<1>1. ASSUME StoreInv, Free, Undisturbed, NEW c \in Players, player[c].at = "applied",
             player[c].revision = revision
      PROVE  player[c].settings = settings
  BY <1>1, FreeMeansBehind DEF StoreInv, PlayerInv, Behind, FileHoldsMemory
<1>2. StoreInv => RevisionNamesSettings
  BY <1>1 DEF StoreInv, PairInv, RevisionNamesSettings
<1> QED
  BY <1>2, StoreInvariant, PTL

\* Whom the status calls current has applied the current settings.
THEOREM CurrentHasApplied == Spec => []CurrentMeansApplied
<1>1. ASSUME StoreInv, Free, Undisturbed, NEW c \in Players, applied[c].age # "none",
             applied[c].revision = revision
      PROVE  truth[c] = settings
  BY <1>1, FreeMeansBehind DEF StoreInv, ReportInv, Behind, FileHoldsMemory
<1>2. StoreInv => CurrentMeansApplied
  BY <1>1 DEF CurrentMeansApplied
<1> QED
  BY <1>2, StoreInvariant, PTL
=============================================================================
