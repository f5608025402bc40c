------------------------------- MODULE MCStorage -------------------------------
(***************************************************************************)
(* Model checking of what is kept in files: the pages of a mapped file,    *)
(* the records of PersistentHashSet, paths and updates under a lock, and   *)
(* the descriptors of File and the streams.  They share no state: a        *)
(* behaviour is one of one of them, its part, and the others stay as they  *)
(* are.                                                                    *)
(***************************************************************************)
EXTENDS MmapPageManager, PersistentHashSet, Files, Handles

VARIABLE part

\* Ids that collide, that wrap around the end of the table, and that do neither.
Hashes == <<3, 7, 3, 6>>

Parts ==
  {"pages", "set", "files", "fds"}
everything ==
  <<part, vars, setVars, fileVars, handleVars>>

\* What the other parts do in a step of this one.
Only(p) ==
  /\ part = p /\ UNCHANGED part
  /\ p # "pages" => UNCHANGED vars
  /\ p # "set" => UNCHANGED setVars
  /\ p # "files" => UNCHANGED fileVars
  /\ p # "fds" => UNCHANGED handleVars

\* A part that is not looked at stays in one of its initial states.
AnyInit ==
  /\ part \in Parts
  /\ MmapInit /\ SetInit
  /\ FilesInit /\ (part # "files" => dirs = {})
  /\ HandlesInit /\ (part # "fds" => disk["a"] = 1)

AnyNext ==
  \/ Only("pages") /\ MmapNext
  \/ Only("set") /\ SetNext
  \/ Only("files") /\ FilesNext
  \/ Only("fds") /\ HandlesNext

\* A holder that has called getPage() goes on when it can get the mutex.
Fair ==
  \A h \in Holders :
    /\ SF_vars(part = "pages" /\ \E p \in BOOLEAN : growFile(h, p))
    /\ WF_vars(part = "pages" /\ mapPage(h))

AnySpec == AnyInit /\ [][AnyNext]_everything /\ Fair
=================================================================================
