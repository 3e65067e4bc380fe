---------------------------- MODULE QualityStore ----------------------------
(***************************************************************************)
(* The quality settings (src/include/QualityConfig.h) and the HTTP calls   *)
(* on them: HTTP threads post new settings, players read the settings with *)
(* their revision, apply them and report the revision they applied. Each   *)
(* operation of the store holds m_mutex, but a POST is two: the update,    *)
(* and the reading of what it answers with. The file is written before the *)
(* memory, and the process may die at any point and start again.           *)
(*                                                                         *)
(* Settings are opaque values: which fields a POST changes makes no        *)
(* difference to the revisions, and what from_json rejects is one step.    *)
(***************************************************************************)
EXTENDS Naturals, FiniteSets

CONSTANTS Posters,           \* HTTP threads that post settings
          Players,           \* clients that report what they applied
          Settings, Default, \* the settings there are
          Width,             \* values of m_revision: 2^64 in the source
          MaxApplied,        \* 64 in the source
          MaxCrashes,        \* bound on the restarts
          MaxLosses          \* bound on the files lost or damaged from outside

ASSUME QualityAssumption ==
  /\ Default \in Settings /\ Width \in Nat \ {0, 1}
  /\ MaxApplied \in Nat /\ MaxCrashes \in Nat /\ MaxLosses \in Nat

VARIABLES file,              \* quality.json
          up,                \* the process runs
          settings, revision,\* m_settings, m_revision
          applied,           \* m_applied: revision, and whether past 5 minutes
          poster,            \* each POST: where it is, its candidate
          player,            \* each player: the settings and revision it has
          crashes, losses,   \* bounded counters
          promised,          \* history: what the last successful POST answered
          forgotten,         \* history: a good file nobody could read was replaced
          truth              \* history: what reporting players have applied

store == <<settings, revision, applied>>
outside == <<file, up, crashes, losses>>
history == <<promised, forgotten, truth>>
vars == <<outside, store, poster, player, history>>

\* A good file has settings that from_json accepts, and a revision above zero or,
\* here as zero, none: it was written by hand.
Absent == [state |-> "absent", settings |-> Default, revision |-> 0]
Damaged == [Absent EXCEPT !.state = "damaged"]
Saved(s, r) == [state |-> "good", settings |-> s, revision |-> r]
ByHand == {Saved(s, 0) : s \in Settings}

\* What a process that can read the file starts with.
RevisionIn(f) ==
  IF f.state # "good" THEN 0 ELSE IF f.revision = 0 THEN 1 ELSE f.revision
SettingsIn(f) == IF f.state = "good" THEN f.settings ELSE Default

Idle == [at |-> "idle", candidate |-> Default, revision |-> 0]
Nothing == [at |-> "idle", settings |-> Default, revision |-> 0]

NoReport == [revision |-> 0, age |-> "none"]
NoReports == [c \in Players |-> NoReport]

\* Before the process has started for the first time; Default is what the
\* initializers of m_settings and m_revision give.
Init ==
  /\ file \in {Absent} \cup ByHand
  /\ up = FALSE
  /\ settings = Default /\ revision = 0 /\ applied = NoReports
  /\ poster = [h \in Posters |-> Idle]
  /\ player = [c \in Players |-> Nothing]
  /\ crashes = 0 /\ losses = 0
  /\ promised = [revision |-> 0, settings |-> Default]
  /\ forgotten = FALSE
  /\ truth = [c \in Players |-> Default]

Free == up /\ \A h \in Posters : poster[h].at \notin {"saving", "saved"}

-----------------------------------------------------------------------------
(* Load, by the constructor *)

Load ==
  /\ ~up
  /\ up' = TRUE
  /\ applied' = NoReports
  /\ \/ /\ file.state = "good"
        /\ settings' = SettingsIn(file) /\ revision' = RevisionIn(file)
        /\ UNCHANGED file
     \/ \* no file: one with the defaults is written
        /\ file.state = "absent"
        /\ file' = Saved(Default, 1)
        /\ settings' = Default /\ revision' = 1
     \/ \* it is not accepted, it cannot be looked at, opened or read although
        \* there is nothing wrong with it, or a new one cannot be written
        /\ settings' = Default /\ revision' = 0
        /\ UNCHANGED file
  /\ UNCHANGED <<crashes, losses, poster, player, history>>

-----------------------------------------------------------------------------
(* POST /api/config/quality *)

\* Variant: the file gets the revision that is already in use.
SavesOldRevision == revision

NextRevision == (revision + 1) % Width

\* A valid candidate takes the lock. What does not parse changes nothing.
Post(h, candidate) ==
  /\ Free /\ poster[h].at = "idle"
  /\ poster' = [poster EXCEPT ![h] =
                  [at |-> "saving", candidate |-> candidate, revision |-> NextRevision]]
  /\ UNCHANGED <<outside, store, player, history>>

\* Variant: the file in place is truncated and written.
OverwritesFile == Damaged

KeepsFile == file

\* Variant: the result of the save is not looked at.
SaveIgnored(h) ==
  /\ up /\ poster[h].at = "saving"
  /\ file' = KeepsFile
  /\ poster' = [poster EXCEPT ![h].at = "saved"]
  /\ UNCHANGED <<up, crashes, losses, store, player, history>>

\* Writing the temporary file or replacing the old one fails: 400.
SaveFails(h) ==
  /\ up /\ poster[h].at = "saving"
  /\ file' = KeepsFile
  /\ poster' = [poster EXCEPT ![h] = Idle]
  /\ UNCHANGED <<up, crashes, losses, store, player, history>>

\* The temporary file has replaced quality.json; memory follows.
SaveReplaces(h) ==
  /\ up /\ poster[h].at = "saving"
  /\ poster[h].revision # 0
  /\ file' = Saved(poster[h].candidate, poster[h].revision)
  /\ poster' = [poster EXCEPT ![h].at = "saved"]
  /\ forgotten' = (forgotten \/ (file.state = "good" /\ revision = 0))
  /\ UNCHANGED <<up, crashes, losses, store, player, promised, truth>>

Commit(h) ==
  /\ up /\ poster[h].at = "saved"
  /\ settings' = poster[h].candidate /\ revision' = poster[h].revision
  /\ poster' = [poster EXCEPT ![h].at = "answer"]
  /\ UNCHANGED <<outside, applied, player, history>>

\* ToJsonString takes the lock again; the answer shows what is there by now.
Answer(h) ==
  /\ Free /\ poster[h].at = "answer"
  /\ promised' = [revision |-> revision, settings |-> settings]
  /\ poster' = [poster EXCEPT ![h] = Idle]
  /\ UNCHANGED <<outside, store, player, forgotten, truth>>

-----------------------------------------------------------------------------
(* Players *)

\* GET /api/config/quality, and the player applies what it gets.
Get(c) ==
  /\ Free
  /\ player' = [player EXCEPT ![c] =
                  [at |-> "applied", settings |-> settings, revision |-> revision]]
  /\ UNCHANGED <<outside, store, poster, history>>

\* Variant: whatever a player reports is noted.
AnyReport(r) == TRUE

Current(r) == r = revision

Pruned == [c \in Players |-> IF applied[c].age = "old" THEN NoReport ELSE applied[c]]

Room(c) ==
  \/ Pruned[c].age # "none"
  \/ Cardinality({d \in Players : Pruned[d].age # "none"}) < MaxApplied

\* POST /api/config/quality/applied: 409 unless the revision is the current one
\* and there is room.
Report(c) ==
  /\ Free /\ player[c].at = "applied"
  /\ IF Current(player[c].revision) /\ Room(c)
     THEN /\ applied' = [Pruned EXCEPT ![c] = [revision |-> revision, age |-> "recent"]]
          /\ truth' = [truth EXCEPT ![c] = player[c].settings]
     ELSE /\ applied' = IF Current(player[c].revision) THEN Pruned ELSE applied
          /\ UNCHANGED truth
  /\ player' = [player EXCEPT ![c] = Nothing]
  /\ UNCHANGED <<outside, settings, revision, poster, promised, forgotten>>

\* GET /api/config/quality/status
Status ==
  /\ Free
  /\ applied' = Pruned
  /\ UNCHANGED <<outside, settings, revision, poster, player, history>>

Expire(c) ==
  /\ up /\ applied[c].age = "recent"
  /\ applied' = [applied EXCEPT ![c].age = "old"]
  /\ UNCHANGED <<outside, settings, revision, poster, player, history>>

-----------------------------------------------------------------------------
(* Restarts *)

\* The process ends, anywhere; whoever posted gets no answer.
Crash ==
  /\ up /\ crashes < MaxCrashes
  /\ up' = FALSE /\ crashes' = crashes + 1
  /\ poster' = [h \in Posters |-> Idle]
  /\ UNCHANGED <<file, losses, store, player, history>>

\* While the server is down its file is deleted, damaged or written by hand.
LoseFile ==
  /\ ~up /\ losses < MaxLosses
  /\ file' \in {Absent, Damaged} \cup ByHand
  /\ losses' = losses + 1
  /\ UNCHANGED <<up, crashes, store, poster, player, history>>

-----------------------------------------------------------------------------
Next == \/ Load
        \/ \E h \in Posters :
             \/ \E s \in Settings : Post(h, s)
             \/ SaveFails(h) \/ SaveReplaces(h) \/ Commit(h) \/ Answer(h)
        \/ \E c \in Players : Get(c) \/ Report(c) \/ Expire(c)
        \/ Status
        \/ Crash \/ LoseFile

Spec == Init /\ [][Next]_vars

-----------------------------------------------------------------------------
(* Properties *)

Revisions == 0..Width - 1

\* Types; no more reports than there is room for.
TypeOK ==
  /\ file \in [state : {"absent", "damaged", "good"}, settings : Settings,
               revision : Revisions]
  /\ up \in BOOLEAN
  /\ settings \in Settings /\ revision \in Revisions
  /\ applied \in [Players -> [revision : Revisions, age : {"none", "recent", "old"}]]
  /\ Cardinality({c \in Players : applied[c].age # "none"}) <= MaxApplied
  /\ poster \in [Posters -> [at : {"idle", "saving", "saved", "answer"},
                             candidate : Settings, revision : Revisions]]
  /\ player \in [Players -> [at : {"idle", "applied"}, settings : Settings,
                             revision : Revisions]]
  /\ crashes \in 0..MaxCrashes /\ losses \in 0..MaxLosses
  /\ promised \in [revision : Revisions, settings : Settings]
  /\ forgotten \in BOOLEAN
  /\ truth \in [Players -> Settings]

\* Whenever the lock is free the memory is what reading the file gives (docs: when
\* saving fails the old values and the file are kept), or the process could not
\* read the file, says so by revision 0, and has the defaults.
FileHoldsMemory ==
  Free => IF revision = 0 THEN settings = Default
          ELSE settings = SettingsIn(file) /\ revision = RevisionIn(file)

\* What the rest presumes: nobody else has touched the file, and no process that
\* could not read it has been told to save. Such a process counts from zero again
\* and saves revision 1 over whatever the file held.
Undisturbed == losses = 0 /\ ~forgotten

\* A POST that was answered with success outlives the process, at any point and
\* also through processes that cannot read the file: the file never goes back
\* behind the answered revision, and with that revision it holds the settings of
\* the answer.
PromiseKept ==
  Undisturbed => /\ RevisionIn(file) >= promised.revision
                 /\ RevisionIn(file) = promised.revision
                      => SettingsIn(file) = promised.settings

\* A revision stands for one value of the settings, across restarts, failed saves
\* and failed reads: who has the current revision has the current settings, and
\* two players with one revision have the same.
RevisionNamesSettings ==
  Free /\ Undisturbed => \A c, d \in Players :
            player[c].at = "applied" =>
              /\ player[c].revision = revision => player[c].settings = settings
              /\ player[d].at = "applied" /\ player[c].revision = player[d].revision
                   => player[c].settings = player[d].settings

\* What the status lists as current is what the player has applied.
CurrentMeansApplied ==
  Free /\ Undisturbed => \A c \in Players :
            applied[c].age # "none" /\ applied[c].revision = revision
              => truth[c] = settings
=============================================================================
