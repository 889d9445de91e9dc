---------------------------- MODULE CloseToOpen ----------------------------
(***************************************************************************)
(* What a user of the mounted drive is promised: a file shows one body     *)
(* that does not change under him between two opens; an open that succeeds *)
(* either shows what came of downloading a content the server had during   *)
(* that open, or leaves the body for one of two stated reasons; an open    *)
(* that fails leaves it, too; a read returns exactly the bytes asked for   *)
(* of the body shown.                                                      *)
(*                                                                         *)
(* There is no cache, no buffer, no request and no stored length here.     *)
(***************************************************************************)
EXTENDS Integers

CONSTANTS
  Clients, Files, Version, Requests,
  NoBody,    \* what a file shows that has no bytes or was never opened
  Received,  \* Received[v]: the bodies a download of version v may leave
  Tracked    \* files of which the server can tell whether they changed

VARIABLES
  up,      \* is the drive mounted?
  server,  \* server[f]: the version the server holds
  first,   \* first[f]: the version it held when the drive was mounted
  kept,    \* kept[f]: has an open of the file succeeded?
  view,    \* view[f]: the body the mounted file shows
  phase,   \* "idle", "opening", "updated" or "reading", for each client
  file,    \* the file the client works on
  want,    \* the bytes a reading client asked for
  seen,    \* versions the server had since the client's open began
  result,  \* outcome of the client's last open
  reply    \* answer to the client's last read

vars == <<up, server, first, kept, view, phase, file, want, seen, result, reply>>

Nothing == [size |-> 0, off |-> 0]
NoBytes == [of |-> NoBody.of, off |-> 0, n |-> 0]

Init ==
  /\ up = TRUE
  /\ server \in [Files -> Version]
  /\ first = server
  /\ kept = [f \in Files |-> FALSE]
  /\ view = [f \in Files |-> NoBody]
  /\ phase = [c \in Clients |-> "idle"]
  /\ file \in [Clients -> Files]
  /\ want = [c \in Clients |-> Nothing]
  /\ seen = [c \in Clients |-> {}]
  /\ result = [c \in Clients |-> "none"]
  /\ reply = [c \in Clients |-> NoBytes]

Enter(c, from, to) ==
  /\ up
  /\ phase[c] = from
  /\ phase' = [phase EXCEPT ![c] = to]

Open(c, f) ==
  /\ Enter(c, "idle", "opening")
  /\ file' = [file EXCEPT ![c] = f]
  /\ seen' = [seen EXCEPT ![c] = {server[f]}]
  /\ result' = [result EXCEPT ![c] = "none"]
  /\ UNCHANGED <<up, server, first, kept, view, want, reply>>

(* The file shows what was received of a version of the server ...         *)
Update(c) ==
  /\ Enter(c, "opening", "updated")
  /\ \E v \in seen[c] : \E b \in Received[v] : view' = [view EXCEPT ![file[c]] = b]
  /\ UNCHANGED <<up, server, first, kept, file, want, seen, result, reply>>

Ends(c, r) ==
  /\ result' = [result EXCEPT ![c] = r]
  /\ seen' = [seen EXCEPT ![c] = {}]
  /\ UNCHANGED <<up, server, first, view, file, want, reply>>

(* ... and the open succeeds,                                              *)
OpenedUpdated(c) ==
  /\ Enter(c, "updated", "idle")
  /\ kept' = [kept EXCEPT ![file[c]] = TRUE]
  /\ Ends(c, "ok")

(* or succeeds without: nobody can tell whether the file changed, or the   *)
(* server was back at the version it had when the drive was mounted.       *)
OpenedUnchanged(c) ==
  /\ Enter(c, "opening", "idle")
  /\ kept[file[c]]
  /\ file[c] \in Tracked => first[file[c]] \in seen[c]
  /\ UNCHANGED kept
  /\ Ends(c, "ok")

(* Asking whether a file changed may fail, and may end the mount.          *)
Asking(c) == up /\ phase[c] = "opening" /\ kept[file[c]] /\ file[c] \in Tracked

Refused(c) ==
  /\ Asking(c)
  /\ Enter(c, "opening", "idle")
  /\ UNCHANGED kept
  /\ Ends(c, "eperm")

Die(c) ==
  /\ Asking(c)
  /\ up' = FALSE
  /\ UNCHANGED <<server, first, kept, view, phase, file, want, seen, result, reply>>

Ask(c, f, size, off) ==
  /\ kept[f]
  /\ Enter(c, "idle", "reading")
  /\ file' = [file EXCEPT ![c] = f]
  /\ want' = [want EXCEPT ![c] = [size |-> size, off |-> off]]
  /\ UNCHANGED <<up, server, first, kept, view, seen, result, reply>>

Bytes(b, size, off) ==
  IF off >= b.len \/ size = 0 THEN NoBytes
  ELSE [of |-> b.of, off |-> off,
        n |-> IF b.len - off < size THEN b.len - off ELSE size]

Answer(c) ==
  /\ Enter(c, "reading", "idle")
  /\ reply' = [reply EXCEPT ![c] = Bytes(view[file[c]], want[c].size, want[c].off)]
  /\ want' = [want EXCEPT ![c] = Nothing]
  /\ UNCHANGED <<up, server, first, kept, view, file, seen, result>>

ServerChange(f) ==
  /\ up
  /\ \E v \in Version :
       /\ server' = [server EXCEPT ![f] = v]
       /\ seen' = [c \in Clients |->
                     IF phase[c] \in {"opening", "updated"} /\ file[c] = f
                     THEN seen[c] \cup {v} ELSE seen[c]]
  /\ UNCHANGED <<up, first, kept, view, phase, file, want, result, reply>>

Unmount ==
  /\ up /\ \A c \in Clients : phase[c] = "idle"
  /\ up' = FALSE
  /\ view' = [f \in Files |-> NoBody]
  /\ UNCHANGED <<server, first, kept, phase, file, want, seen, result, reply>>

Next ==
  \/ \E c \in Clients, f \in Files : Open(c, f)
  \/ \E c \in Clients :
       \/ Update(c) \/ OpenedUpdated(c) \/ OpenedUnchanged(c)
       \/ Refused(c) \/ Die(c) \/ Answer(c)
  \/ \E c \in Clients, f \in Files, r \in Requests : Ask(c, f, r[1], r[2])
  \/ \E f \in Files : ServerChange(f)
  \/ Unmount

Spec == Init /\ [][Next]_vars
=============================================================================
