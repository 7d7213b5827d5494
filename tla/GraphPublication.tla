-------------------------- MODULE GraphPublication --------------------------
(***************************************************************************)
(* What the stored graphs of a ref promise their readers: a version that   *)
(* could be read once can be read for ever, and the latest version can be  *)
(* read, except for versions whose writers got in each other's way.        *)
(* GraphRefresh implements this.                                           *)
(***************************************************************************)
CONSTANTS
    Versions,   \* graph versions of the ref
    NoVersion   \* no graph was refreshed yet

VARIABLES
    readable,   \* the versions whose segments can be read
    latest,     \* the version the latest manifest names
    contested   \* the versions whose writers met

PublicationInit ==
    /\ readable = {}
    /\ latest = NoVersion
    /\ contested = {}

\* Writers of a version meet, and not when it can be read.
Contest(v) ==
    /\ v \notin readable
    /\ contested' = contested \cup {v}
    /\ UNCHANGED <<readable, latest>>

Complete(v) ==
    /\ readable' = readable \cup {v}
    /\ UNCHANGED <<latest, contested>>

Lose(v) ==
    /\ v \in contested
    /\ readable' = readable \ {v}
    /\ UNCHANGED <<latest, contested>>

PointTo(v) ==
    /\ v \in readable \cup contested
    /\ latest' = v
    /\ UNCHANGED <<readable, contested>>

PublicationNext == \E v \in Versions : Contest(v) \/ Complete(v) \/ Lose(v) \/ PointTo(v)

PublicationSpec == PublicationInit /\ [][PublicationNext]_<<readable, latest, contested>>
=============================================================================
