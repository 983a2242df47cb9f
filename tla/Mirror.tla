------------------------------- MODULE Mirror -------------------------------
(***************************************************************************)
(* What MyDrive promises for one client id when its runs do not overlap    *)
(* (Task_04_ru.pdf, page 2; README.md:11): files change on the server only *)
(* by being replaced as a whole with what the latest run listed; nothing   *)
(* is deleted before every listed file is there; and a run is acknowledged *)
(* only when the server's directory is an exact copy of its list.          *)
(***************************************************************************)
CONSTANTS MirrorName,  \* names of the files a client may have
          Listings,    \* what a run may list: contents for some of the names
          Absent       \* no file has the name

VARIABLES mirror,   \* the server's files: a content or Absent for each name
          listing,  \* what the latest run listed
          synced    \* the latest run was acknowledged

mirrorVars == <<mirror, listing, synced>>

Init ==
    /\ DOMAIN mirror = MirrorName
    /\ listing = [name \in {} |-> Absent]
    /\ synced = FALSE

(* The listed files are there.                                             *)
Complete == \A name \in DOMAIN listing : mirror[name] = listing[name]

Begin ==
    /\ listing' \in Listings
    /\ synced' = FALSE
    /\ UNCHANGED mirror

Replace(name) ==
    /\ ~synced /\ name \in DOMAIN listing
    /\ mirror' = [mirror EXCEPT ![name] = listing[name]]
    /\ UNCHANGED <<listing, synced>>

(* A rename that fails costs the old file (replace_atomically), if it was  *)
(* out of date; one that is as listed is never touched.                    *)
Lose(name) ==
    /\ ~synced /\ name \in DOMAIN listing
    /\ mirror[name] # listing[name]
    /\ mirror' = [mirror EXCEPT ![name] = Absent]
    /\ UNCHANGED <<listing, synced>>

Delete(name) ==
    /\ ~synced /\ name \notin DOMAIN listing
    /\ Complete
    /\ mirror' = [mirror EXCEPT ![name] = Absent]
    /\ UNCHANGED <<listing, synced>>

(* The copy is exact.                                                      *)
Acknowledge ==
    /\ ~synced /\ Complete
    /\ \A name \in MirrorName \ DOMAIN listing : mirror[name] = Absent
    /\ synced' = TRUE
    /\ UNCHANGED <<mirror, listing>>

Next ==
    \/ Begin
    \/ \E name \in MirrorName : Replace(name) \/ Lose(name) \/ Delete(name)
    \/ Acknowledge

Spec == Init /\ [][Next]_mirrorVars
=============================================================================
