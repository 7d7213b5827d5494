------------------------- MODULE RepositoryCatalog -------------------------
(***************************************************************************)
(* Registering and retiring repositories (access/repos.ex over             *)
(* crates/treedx_store/src/catalog/mod.rs): a directory, a record, an      *)
(* entry for its name and a placement, which several steps write in turn   *)
(* and a restart may cut apart.                                            *)
(*                                                                         *)
(* Repositories are managed ones, named by the hash of their name: a name  *)
(* stands for its id.  What a directory holds is for the modules that      *)
(* extend this one to say.                                                 *)
(***************************************************************************)
EXTENDS Integers, Sequences, FiniteSets

CONSTANTS
    Names,         \* repository names
    CatalogCalls,  \* calls of register and retire
    Registers,     \* those that register; the others retire
    NameOf,        \* the name a call is about
    NoDir,         \* there is no directory
    BareDir        \* a directory that is no git repository

ASSUME CatalogConstants ==
    /\ Registers \subseteq CatalogCalls
    /\ NameOf \in [CatalogCalls -> Names]
    /\ NoDir # BareDir

VARIABLES
    dirs,        \* what repositories/<name> holds
    records,     \* the names in catalog/repositories.tdb
    nameLog,     \* the names in catalog/repository_names.tdb
    placements,  \* the names in federation/repository_placements.tdb
    catalog,     \* where each call is
    answer       \* history: the last answer about a name; "open" while a call may change it

catalogVars == <<dirs, records, nameLog, placements, catalog, answer>>

-----------------------------------------------------------------------------
Retires == CatalogCalls \ Registers
IsRepository(d) == d \notin {NoDir, BareDir}

AtWork(c) == catalog[c] \notin {"idle", "done"}

\* No register runs beside a retire of its name: nothing in the code keeps them apart,
\* and a retire that read the old record deletes the new one.
Separate(c) ==
    \A d \in CatalogCalls :
        AtWork(d) /\ NameOf[d] = NameOf[c] => (d \in Registers <=> c \in Registers)

Goto(c, pc) == catalog' = [catalog EXCEPT ![c] = pc]
Answer(c, a) == answer' = [answer EXCEPT ![NameOf[c]] = a]

-----------------------------------------------------------------------------
(***************************************************************************)
(* Register.                                                               *)
(***************************************************************************)

\* ensure_registration_path: a path that exists must be a git repository.
CheckPath(c) ==
    LET d == dirs[NameOf[c]] IN
    /\ c \in Registers /\ catalog[c] = "idle" /\ Separate(c)
    /\ Goto(c, IF d = NoDir THEN "make" ELSE IF IsRepository(d) THEN "record" ELSE "done")
    /\ answer' = IF d = BareDir THEN answer ELSE [answer EXCEPT ![NameOf[c]] =
                   IF @ = "registered" THEN @ ELSE "open"]
    /\ UNCHANGED <<dirs, records, nameLog, placements>>

\* ensure_git_repository!: mkdir_p unless there is a repository by now.
MakeDirectory(c) ==
    LET d == dirs[NameOf[c]] IN
    /\ catalog[c] = "make"
    /\ Goto(c, IF IsRepository(d) THEN "record" ELSE "init")
    /\ dirs' = [dirs EXCEPT ![NameOf[c]] = IF @ = NoDir THEN BareDir ELSE @]
    /\ UNCHANGED <<records, nameLog, placements, answer>>

\* `git init`, which leaves a repository that is there as it is.
InitRepository(c, unborn) ==
    /\ catalog[c] = "init"
    /\ Goto(c, "commit")
    /\ dirs' = [dirs EXCEPT ![NameOf[c]] = IF IsRepository(@) THEN @ ELSE unborn]
    /\ UNCHANGED <<records, nameLog, placements, answer>>

\* `git commit`, whose failure nobody looks at.
FirstCommit(c, repository) ==
    /\ catalog[c] = "commit"
    /\ Goto(c, "record")
    /\ dirs' = [dirs EXCEPT ![NameOf[c]] = repository]
    /\ UNCHANGED <<records, nameLog, placements, answer>>

\* put_repository up to its first record.  A record it finds only gives the time of
\* creation, and no record of another id has the name.
PutRepository(c) ==
    /\ catalog[c] = "record"
    /\ records' = records \cup {NameOf[c]}
    /\ Goto(c, "name")
    /\ UNCHANGED <<dirs, nameLog, placements, answer>>

PutName(c) ==
    /\ catalog[c] = "name"
    /\ nameLog' = nameLog \cup {NameOf[c]}
    /\ Goto(c, "placement")
    /\ UNCHANGED <<dirs, records, placements, answer>>

\* ensure_placement, and the answer.
PutPlacement(c) ==
    /\ catalog[c] = "placement"
    /\ placements' = placements \cup {NameOf[c]}
    /\ Goto(c, "done")
    /\ Answer(c, "registered")
    /\ UNCHANGED <<dirs, records, nameLog>>

-----------------------------------------------------------------------------
(***************************************************************************)
(* Retire.                                                                 *)
(***************************************************************************)

\* Mutant: a repository that has no record is retired already.
GetRepositoryShort(c) ==
    /\ c \in Retires /\ catalog[c] = "idle" /\ Separate(c)
    /\ Goto(c, IF NameOf[c] \in records THEN "look" ELSE "done")
    /\ Answer(c, IF NameOf[c] \in records THEN "open" ELSE "already")
    /\ UNCHANGED <<dirs, records, nameLog, placements>>

\* retire_repository's look-up: without a record only the placement is deleted.
GetRepository(c) ==
    /\ c \in Retires /\ catalog[c] = "idle" /\ Separate(c)
    /\ Goto(c, IF NameOf[c] \in records THEN "look" ELSE "clear")
    /\ Answer(c, "open")
    /\ UNCHANGED <<dirs, records, nameLog, placements>>

\* source.exists().
LookForDirectory(c) ==
    /\ catalog[c] = "look"
    /\ Goto(c, IF dirs[NameOf[c]] = NoDir THEN "unrecord" ELSE "rename")
    /\ UNCHANGED <<dirs, records, nameLog, placements, answer>>

\* The rename into recovery/, which fails if another retire was faster.
MoveDirectory(c) ==
    /\ catalog[c] = "rename"
    /\ Goto(c, IF dirs[NameOf[c]] = NoDir THEN "done" ELSE "unrecord")
    /\ dirs' = [dirs EXCEPT ![NameOf[c]] = NoDir]
    /\ UNCHANGED <<records, nameLog, placements, answer>>

DeleteRecord(c) ==
    /\ catalog[c] = "unrecord"
    /\ records' = records \ {NameOf[c]}
    /\ Goto(c, "unname")
    /\ UNCHANGED <<dirs, nameLog, placements, answer>>

DeleteName(c) ==
    /\ catalog[c] = "unname"
    /\ nameLog' = nameLog \ {NameOf[c]}
    /\ Goto(c, "unplace")
    /\ UNCHANGED <<dirs, records, placements, answer>>

\* delete_repository_placement, and the answer, which says whether there was a record.
DeletePlacement(c) ==
    /\ catalog[c] \in {"unplace", "clear"}
    /\ placements' = placements \ {NameOf[c]}
    /\ Goto(c, "done")
    /\ Answer(c, IF catalog[c] = "clear" THEN "already" ELSE "retired")
    /\ UNCHANGED <<dirs, records, nameLog>>

CatalogStep(c) ==
    \/ CheckPath(c) \/ MakeDirectory(c) \/ PutRepository(c) \/ PutName(c) \/ PutPlacement(c)
    \/ GetRepository(c) \/ LookForDirectory(c) \/ MoveDirectory(c)
    \/ DeleteRecord(c) \/ DeleteName(c) \/ DeletePlacement(c)

\* The server stops in the middle of its calls, and their callers may call again.
CatalogRestart ==
    /\ catalog' = [c \in CatalogCalls |-> "idle"]
    /\ UNCHANGED <<dirs, records, nameLog, placements, answer>>

-----------------------------------------------------------------------------
(***************************************************************************)
(* Properties.                                                             *)
(***************************************************************************)

\* register and retire in access/repos.ex: a repository that was answered as registered
\* has its directory, its record, its name and its placement until somebody retires it.
\* One that was answered as retired, or as retired already on the retry of a call that a
\* restart cut short, has neither record nor placement left until somebody registers its
\* name, and in the first case no directory.  (A directory that a register made which a
\* restart cut short has no record: a retire does not see it, and the next register takes
\* it over.)
AnswersHold ==
    \A n \in Names :
        /\ answer[n] = "registered" =>
             IsRepository(dirs[n]) /\ n \in records /\ n \in nameLog /\ n \in placements
        /\ answer[n] \in {"retired", "already"} => n \notin records /\ n \notin placements
        /\ answer[n] = "retired" => dirs[n] = NoDir
=============================================================================
