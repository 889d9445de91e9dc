------------------------------- MODULE Drive -------------------------------
(***************************************************************************)
(* The mounted drive: main runs gdi_init (module Listing), hands the table *)
(* of operations to fuse_main, which calls them on paths for one user, and *)
(* then gdi_destroy.  What gd_open and gd_read do with the entry they      *)
(* found is FileCache's.                                                   *)
(***************************************************************************)
EXTENDS Listing

CONSTANTS
  Names   \* what a user may ask for

ASSUME DriveAssumption == NULL \notin Names

VARIABLES
  stage,    \* where main is
  dir,      \* what readdir last answered
  name,     \* the name the user works with, or NULL
  grip,     \* "none", "known" to the kernel, or "open"
  cached,   \* the entries with entry->cached
  freed     \* history: the entries gdi_destroy has freed

userVars  == <<dir, name, grip>>
driveVars == <<stage, userVars, cached, freed>>

DriveTypeOK ==
  /\ TypeOK
  /\ stage \in {"init", "serving", "freeing", "exited", "failed", "segv"}
  /\ \A j \in DOMAIN dir : dir[j] \in {entries[e].filename : e \in DOMAIN entries}
  /\ name \in Names \cup {NULL}
  /\ grip \in {"none", "known", "open"}
  /\ cached \subseteq DOMAIN entries
  /\ freed \subseteq DOMAIN entries

DriveInit ==
  /\ Init
  /\ stage = "init"
  /\ dir = <<>> /\ name = NULL /\ grip = "none"
  /\ cached = {} /\ freed = {}

-----------------------------------------------------------------------------

GdiInit == stage = "init" /\ Setup /\ UNCHANGED driveVars

(* main goes on only when gdi_init returned 0.                             *)
Serve ==
  /\ stage = "init" /\ pc = "mounted"
  /\ stage' = "serving"
  /\ UNCHANGED <<vars, userVars, cached, freed>>

GiveUp ==
  /\ stage = "init" /\ pc \in {"failed", "crashed", "starved"}
  /\ stage' = "failed"
  /\ UNCHANGED <<vars, userVars, cached, freed>>

(* filler fails when its buffer cannot grow; then readdir fails too.       *)
Readdir ==
  /\ stage = "serving"
  /\ \/ dir' = [j \in DOMAIN Chain |-> entries[Chain[j]].filename]
     \/ "memory" \in Faults /\ dir' = <<>>
  /\ UNCHANGED <<vars, stage, name, grip, cached, freed>>

(* Faulty: gd_getattr answers although there is no entry.                  *)
AnsweredAlways(e) == TRUE

(* gd_getattr returns 0 rather than ENOENT.                                *)
Answered(e) == e # 0

Getattr ==
  /\ stage = "serving" /\ grip = "none" /\ name # NULL
  /\ grip' = IF Answered(FileAt(name)) THEN "known" ELSE "none"
  /\ UNCHANGED <<vars, stage, dir, name, cached, freed>>

(* The user turns to another file.                                         *)
Turn(n) ==
  /\ stage = "serving" /\ grip # "open"
  /\ name' = n /\ grip' = "none"
  /\ UNCHANGED <<vars, stage, dir, cached, freed>>

(* The kernel opens only what it knows, and gdi_load does not look whether *)
(* it was given an entry.                                                  *)
Open ==
  /\ stage = "serving" /\ grip = "known"
  /\ LET e == FileAt(name) IN
       \/ /\ e = 0
          /\ stage' = "segv"
          /\ UNCHANGED <<grip, cached>>
       \/ /\ e # 0
          /\ grip' = "open"
          /\ cached' = cached \cup {e}
          /\ UNCHANGED stage
       \/ /\ e \in cached
          /\ UNCHANGED <<stage, grip, cached>>
  /\ UNCHANGED <<vars, dir, name, freed>>

(* gd_release returns 0.                                                   *)
Release ==
  /\ stage = "serving" /\ grip = "open"
  /\ grip' = "known"
  /\ UNCHANGED <<vars, stage, dir, name, cached, freed>>

(* fuse_main returns, on a signal even while files are open; gdi_destroy   *)
(* follows.                                                                *)
Unmount ==
  /\ stage = "serving"
  /\ stage' = "freeing"
  /\ walk' = head
  /\ UNCHANGED <<transferVars, server, pc, pageVars, listVars, table, history,
                 userVars, cached, freed>>

(* Faulty: the last entry is not freed.                                    *)
MoreToFreeButLast == walk # 0 /\ link[walk] # 0

MoreToFree == walk # 0

(* gd_fs_entry_destroy and free, with the link read in between.            *)
FreeEntry ==
  /\ stage = "freeing" /\ MoreToFree
  /\ freed' = freed \cup {walk}
  /\ walk' = link[walk]
  /\ stage' = IF walk \in freed THEN "segv" ELSE stage
  /\ UNCHANGED <<transferVars, server, pc, pageVars, listVars, table, history,
                 userVars, cached>>

(* The cleanups of the stack; theirs is module Session.                    *)
PopStack ==
  /\ stage = "freeing" /\ ~MoreToFree
  /\ stage' = "exited"
  /\ table' = <<>>
  /\ UNCHANGED <<transferVars, server, pc, pageVars, listVars, walk, history,
                 userVars, cached, freed>>

Ended == stage \in {"exited", "failed", "segv"} /\ UNCHANGED <<vars, driveVars>>

DriveNext ==
  \/ GdiInit \/ Serve \/ GiveUp
  \/ Readdir \/ Getattr \/ Open \/ Release
  \/ \E n \in Names : Turn(n)
  \/ Unmount \/ FreeEntry \/ PopStack \/ Ended

DriveSpec == DriveInit /\ [][DriveNext]_<<vars, driveVars>>

(* main goes on by itself, and every request is answered or its connection *)
(* breaks; nothing makes a user do anything.                               *)
FairSpec == DriveSpec /\ WF_<<vars, driveVars>>(GdiInit \/ Serve \/ FreeEntry \/ PopStack)

-----------------------------------------------------------------------------
(* Properties                                                              *)

(* Every name of the directory can be looked up and leads to an entry of   *)
(* that name, so the hash table was never full.                            *)
NamesResolve ==
  stage = "serving" => \A j \in DOMAIN dir :
    FileAt(dir[j]) # 0 /\ entries[FileAt(dir[j])].filename = dir[j]

(* A file whose title no other file has is found under its name; of those  *)
(* that share a title the first one is, and a path never leads elsewhere.  *)
EveryFileFound ==
  stage = "serving" => \A j \in DOMAIN entries :
    Find(entries[j].filename) = Min({k \in DOMAIN entries : TitleOf(k) = TitleOf(j)})

(* Once mounted the program does not crash over a name that is not there,  *)
(* frees no entry twice, and a file that is open is found again by gd_read *)
(* and was loaded, through any number of turns from file to file.          *)
SafeOnceMounted ==
  /\ stage # "segv"
  /\ stage = "serving" /\ grip # "none" => FileAt(name) # 0
  /\ stage = "serving" /\ grip = "open" => FileAt(name) \in cached

(* gdi_destroy frees every entry that was listed, and none before the last *)
(* operation on the drive has ended.                                       *)
EveryEntryFreed ==
  /\ stage = "exited" => freed = DOMAIN entries
  /\ stage = "serving" => freed = {}

(* Listing the files comes to an end, and so does freeing them.            *)
ListingEnds ==
  /\ <>(pc \in {"mounted", "failed", "crashed", "starved"})
  /\ stage = "freeing" ~> stage = "exited"
=============================================================================
