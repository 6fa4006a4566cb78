----------------------------- MODULE AtomicWrite -----------------------------
(***************************************************************************)
(* `output::write_atomic`: a file is replaced by writing a temporary file  *)
(* in its directory and renaming it.  A directory is a function from names *)
(* to contents; the temporary files, which no reader looks up, are kept    *)
(* apart, by the process that owns them.                                   *)
(***************************************************************************)
CONSTANTS
  Processes,  \* processes that write
  Names,      \* files they write
  NONE,       \* content of a file that is absent
  TORN        \* content of a file that is being written

VARIABLES
  files,      \* the files, by name
  tmp         \* the temporary files, by name and process

InitFiles ==
  /\ files = [n \in Names |-> NONE]
  /\ tmp = [k \in Names \X Processes |-> NONE]

(* Mutant: the temporary name does not contain the process id. *)
Tmp_Shared(p, name) == <<name, CHOOSE q \in Processes : TRUE>>

Tmp(p, name) == <<name, p>>

(* fs::write first creates or truncates the file, then fills it. *)
CreateTmp(p, name) ==
  /\ tmp' = [tmp EXCEPT ![Tmp(p, name)] = TORN]
  /\ UNCHANGED files

FillTmp(p, name, content) ==
  /\ tmp' = [tmp EXCEPT ![Tmp(p, name)] = content]
  /\ UNCHANGED files

RenameTmp(p, name) ==
  /\ tmp[Tmp(p, name)] # NONE
  /\ files' = [files EXCEPT ![name] = tmp[Tmp(p, name)]]
  /\ tmp' = [tmp EXCEPT ![Tmp(p, name)] = NONE]
=============================================================================
