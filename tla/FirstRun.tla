------------------------------ MODULE FirstRun ------------------------------
(***************************************************************************)
(* What happens when load_file does not find the client's secret: they     *)
(* cannot be loaded, and print_api_info tries to create the directory for  *)
(* them, while other programs create directories of their own.             *)
(***************************************************************************)
EXTENDS CharLoops

VARIABLES
  help,    \* where print_api_info is
  home,    \* is HOME set?
  parent,  \* the directory that is to hold ours: ~/.config or XDG_CONFIG_HOME
  target,  \* what the string full_path names
  dirs,    \* the directories that exist
  theirs,  \* history: those that print_api_info did not create
  told     \* history: was the user told that ours was created?

helpVars == <<help, home, parent, target, dirs, theirs, told>>

(* "app" is ours; "stray" what full_path names when the bytes behind it,   *)
(* where no null character was put, are not null; "other" any directory    *)
(* that another program has in ~/.config.                                  *)
Dirs == {"home", "conf", "xdg", "app", "stray", "other"}

ParentOf(d) == CASE d = "app" -> parent
                 [] d \in {"stray", "other"} -> "conf"
                 [] OTHER -> "home"

Missing(d)  == ParentOf(d) \notin dirs
Creatable(d) == d \notin dirs /\ ~Missing(d)
HasChild(d) == \E c \in dirs \ {"home"} : ParentOf(c) = d

FirstRunInit ==
  /\ Init
  /\ help = "none" /\ home = TRUE
  /\ parent = "conf" /\ target = "conf"
  /\ dirs = {} /\ theirs = {} /\ told = FALSE

Load == Next /\ help = "none" /\ UNCHANGED helpVars

(* gdi_load_clientsecrets got NULL; load_file kept nothing of the file.    *)
StartHelp ==
  /\ task = "load" /\ pc = "failed" /\ help = "none"
  /\ input' = <<>> /\ size' = 0 /\ buf' = <<>>
  /\ help' = "mkdir"
  /\ \E x \in {"conf", "xdg"}, h \in BOOLEAN :
       /\ x = "conf" => h
       /\ parent' = x /\ home' = h
  /\ dirs' \in SUBSET (Dirs \ {"stray"})
  /\ \A d \in dirs' \ {"home"} : ParentOf(d)' \in dirs'
  /\ theirs' = dirs'
  /\ UNCHANGED <<task, pc, from, to, target, told>>

Create(d) ==
  /\ Creatable(d)
  /\ dirs' = dirs \cup {d}
  /\ UNCHANGED theirs

(* mkdir(path).  Only ENOENT leads on, to strlen of a null pointer when    *)
(* HOME is not set.                                                        *)
FirstMkdir ==
  /\ help = "mkdir"
  /\ \/ Create("app") /\ help' = "tell"
     \/ Missing("app") /\ help' = (IF home THEN "conf" ELSE "segv") /\ UNCHANGED <<dirs, theirs>>
     \/ ~Missing("app") /\ help' = "over" /\ UNCHANGED <<dirs, theirs>>
  /\ UNCHANGED <<vars, home, parent, target, told>>

(* Faulty: rmdir stands outside of the block that mkdir's success opens.   *)
UndoneAnyway == "undo"

AfterFailure == "over"

MkdirConf ==
  /\ help = "conf"
  /\ target' \in {"conf", "stray"}
  /\ \/ Create(target') /\ help' = "again"
     \/ help' = AfterFailure /\ UNCHANGED <<dirs, theirs>>
  /\ UNCHANGED <<vars, home, parent, told>>

SecondMkdir ==
  /\ help = "again"
  /\ \/ Create("app") /\ help' = "tell"
     \/ help' = "undo" /\ UNCHANGED <<dirs, theirs>>
  /\ UNCHANGED <<vars, home, parent, target, told>>

(* rmdir takes only an empty directory.                                    *)
Undo ==
  /\ help = "undo"
  /\ help' = "over"
  /\ dirs' = IF HasChild(target) THEN dirs ELSE dirs \ {target}
  /\ UNCHANGED <<vars, home, parent, target, theirs, told>>

Tell ==
  /\ help = "tell"
  /\ help' = "over"
  /\ told' = TRUE
  /\ UNCHANGED <<vars, home, parent, target, dirs, theirs>>

(* Another program, or a second mount, creates a directory.                *)
OtherMkdir(d) ==
  /\ help \notin {"none", "over", "segv"}
  /\ Creatable(d)
  /\ dirs' = dirs \cup {d} /\ theirs' = theirs \cup {d}
  /\ UNCHANGED <<vars, help, home, parent, target, told>>

HelpEnded == help \in {"over", "segv"} /\ UNCHANGED <<vars, helpVars>>

FirstRunNext ==
  \/ Load \/ StartHelp
  \/ FirstMkdir \/ MkdirConf \/ SecondMkdir \/ Undo \/ Tell
  \/ \E d \in Dirs \ {"home", "stray"} : OtherMkdir(d)
  \/ HelpEnded

FirstRunSpec == FirstRunInit /\ [][FirstRunNext]_<<vars, helpVars>>

-----------------------------------------------------------------------------
(* Properties                                                              *)

Ours == dirs \ theirs

(* print_api_info removes no directory it did not create, whatever its     *)
(* unterminated string names and whoever else creates some meanwhile; it   *)
(* tells of the directory exactly when it created it, and leaves nothing   *)
(* else behind that is still empty.                                        *)
FirstRunTidy ==
  /\ theirs \subseteq dirs
  /\ help = "over" => /\ told <=> "app" \in Ours
                      /\ ~told => \A d \in Ours : HasChild(d)
=============================================================================
