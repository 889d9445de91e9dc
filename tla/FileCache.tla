----------------------------- MODULE FileCache -----------------------------
(***************************************************************************)
(* The open/read path of the file system: gd_open, gd_read, gdi_load,      *)
(* gdi_check_update, gdi_read, str_swap and the release of the cached      *)
(* files at unmount.                                                       *)
(*                                                                         *)
(* fuse_main runs one handler per worker thread and the code takes no      *)
(* lock, so every access to a field of a shared gd_fs_entry_t is a step of *)
(* its own.  The server changes files at any time and may answer a request *)
(* with less than was asked.                                               *)
(***************************************************************************)
EXTENDS Integers

CONSTANTS
  Threads,      \* FUSE worker threads
  Files,        \* the entries of the listing; a path names one of them
  Buf,          \* names of heap buffers; enough of them that malloc succeeds
  NULL,         \* the null pointer
  Version,      \* contents a file may have; distinct versions, distinct md5
  Length,       \* Length[v]: number of bytes of version v
  ErrorPage,    \* the body of an HTTP error answer
  ErrorLength,  \* its number of bytes
  HasMd5,       \* files whose listing entry carries docs:md5Checksum
  HasSize,      \* files whose listing entry carries a size
  Reverts,      \* may the server go back to an earlier content?
  CheckReplies, \* how a request for the feed of a file may be answered
  FetchReplies, \* how a download may be answered
  Requests,     \* <<size, offset>> pairs the kernel asks for
  SizeT         \* number of values of a size_t

(* No bytes: what a null pointer and a buffer that is not allocated hold.   *)
NoBody  == [of |-> NULL, len |-> 0]
NoRead  == [size |-> 0, off |-> 0, n |-> 0, base |-> NULL]
NoReq   == [str |-> NULL, len |-> 0, tmp |-> NULL]

ASSUME FileCacheAssumption ==
  /\ NULL \notin Buf
  /\ Version \subseteq Nat
  /\ SizeT \in Nat \ {0, 1}
  /\ Length \in [Version -> 0..(SizeT - 1)]
  /\ ErrorPage \notin Version \cup {NULL}
  /\ NULL \notin Version
  /\ ErrorLength \in 0..(SizeT - 1)
  /\ HasMd5 \subseteq Files
  /\ HasSize \subseteq Files
  /\ Reverts \in BOOLEAN
  /\ CheckReplies \subseteq {"entry", "error", "none"}
  /\ FetchReplies \subseteq {"whole", "cut", "error"}
  /\ Requests \subseteq Nat \X Nat

VARIABLES
  status,    \* "serving", "unmounted" or "crashed"
  server,    \* server[f]: version the server holds now
  listed,    \* listed[f]: version the listing described: entry->md5, entry->size
  cached,    \* entry->cached
  cacheStr,  \* entry->cache.str
  cacheLen,  \* entry->cache.len
  heap,      \* what each buffer holds, NoBody when it is not allocated
  pc,        \* where each thread is
  file,      \* the entry the thread works on
  req,       \* request.response.body of the thread, and the tmp of str_swap
  rd,        \* size, offset, length and buffer address of the thread's read
  result,    \* what the last open of the thread returned
  reply,     \* what the last read of the thread copied out
  seen       \* history: versions the server held since the open began

vars == <<status, server, listed, cached, cacheStr, cacheLen, heap, pc,
          file, req, rd, result, reply, seen>>

entryVars == <<listed, cached, cacheStr, cacheLen>>

OpenSteps  == {"check", "compare", "fetch", "swap", "both", "str", "len", "finish",
               "current", "failed"}
ReadSteps  == {"bound", "length", "base", "copy"}
Body       == [of : Version \cup {ErrorPage}, len : Nat]
Ptr        == Buf \cup {NULL}

TypeOK ==
  /\ status \in {"serving", "unmounted", "crashed"}
  /\ server \in [Files -> Version]
  /\ listed \in [Files -> Version]
  /\ cached \in [Files -> BOOLEAN]
  /\ cacheStr \in [Files -> Ptr]
  /\ cacheLen \in [Files -> Nat]
  /\ heap \in [Buf -> Body \cup {NoBody}]
  /\ pc \in [Threads -> {"idle"} \cup OpenSteps \cup ReadSteps]
  /\ file \in [Threads -> Files]
  /\ req \in [Threads -> [str : Ptr, len : Nat, tmp : Ptr]]
  /\ rd \in [Threads -> [size : Nat, off : Nat, n : Nat, base : Ptr]]
  /\ \A t \in Threads : rd[t].n <= rd[t].size
  /\ result \in [Threads -> {"none", "ok", "eperm"}]
  /\ reply \in [Threads -> [of : Version \cup {ErrorPage, NULL}, off : Nat, n : Nat]]
  /\ seen \in [Threads -> SUBSET Version]

NoReply == [of |-> NULL, off |-> 0, n |-> 0]

(* After gdi_init: the entries come from the listing, nothing is cached.   *)
Init ==
  /\ status = "serving"
  /\ server \in [Files -> Version]
  /\ listed = server
  /\ cached = [f \in Files |-> FALSE]
  /\ cacheStr = [f \in Files |-> NULL]
  /\ cacheLen = [f \in Files |-> 0]
  /\ heap = [b \in Buf |-> NoBody]
  /\ pc = [t \in Threads |-> "idle"]
  /\ file \in [Threads -> Files]
  /\ req = [t \in Threads |-> NoReq]
  /\ rd = [t \in Threads |-> NoRead]
  /\ result = [t \in Threads |-> "none"]
  /\ reply = [t \in Threads |-> NoReply]
  /\ seen = [t \in Threads |-> {}]

-----------------------------------------------------------------------------
(* Helpers                                                                 *)

Goto(t, from, to) ==
  /\ status = "serving"
  /\ pc[t] = from
  /\ pc' = [pc EXCEPT ![t] = to]

(* Every pointer the program still holds.                                  *)
Reachable ==
  {cacheStr[f] : f \in Files} \cup
  UNION {{req[t].str, req[t].tmp, rd[t].base} : t \in Threads}

(* The step may have dropped the last pointer to a buffer nobody freed:    *)
(* that buffer is leaked, and the model reuses its name.                   *)
Leak == heap' = [b \in Buf |-> IF b \in Reachable' THEN heap[b] ELSE NoBody]

(* gdi_load returns, gd_open maps a failure to -1 (EPERM).                 *)
Return(t, r) ==
  /\ result' = [result EXCEPT ![t] = r]
  /\ seen' = [seen EXCEPT ![t] = {}]

-----------------------------------------------------------------------------
(* gd_open                                                                 *)

(* gd_open finds the entry and calls gdi_load, which looks at              *)
(* entry->cached; gdi_check_update returns 0 at once without an md5.       *)
Open(t, f) ==
  /\ Goto(t, "idle", IF ~cached[f] THEN "fetch"
                     ELSE IF f \in HasMd5 THEN "check" ELSE "current")
  /\ file' = [file EXCEPT ![t] = f]
  /\ seen' = [seen EXCEPT ![t] = {server[f]}]
  /\ result' = [result EXCEPT ![t] = "none"]
  /\ UNCHANGED <<status, server, entryVars, heap, req, rd, reply>>

(* Faulty: the requests share one download buffer.                         *)
FreshOfEntries == Buf \ {cacheStr[f] : f \in Files}

(* Faulty: a download goes into a body that is in some entry, and may be    *)
(* another file's.                                                         *)
FreshOrCached == {b \in Buf : heap[b] = NoBody} \cup ({cacheStr[f] : f \in Files} \ {NULL})

(* A buffer malloc may hand out.                                           *)
Fresh == {b \in Buf : heap[b] = NoBody /\ b \notin Reachable}

(* What the answer to the update check is about: the version the server    *)
(* holds, or nothing one could parse an <entry> with an md5 from.          *)
CheckAnswers(f) ==
  (IF "entry" \in CheckReplies THEN {server[f]} ELSE {})
  \cup (IF "error" \in CheckReplies THEN {ErrorPage} ELSE {})

(* gdi_check_update's ci_request: the answer arrives in a body of its own. *)
(* It is only parsed; its length, one here, is read by nothing.            *)
CheckReply(t) ==
  /\ Goto(t, "check", "compare")
  /\ \E v \in CheckAnswers(file[t]), b \in Fresh :
       /\ heap' = [heap EXCEPT ![b] = [of |-> v, len |-> 1]]
       /\ req' = [req EXCEPT ![t] = [str |-> b, len |-> 1, tmp |-> NULL]]
  /\ UNCHANGED <<status, server, entryVars, file, rd, result, reply, seen>>

(* Faulty: the cache is taken to be current.                               *)
VerdictNeverChecked(f, v) == "current"

(* Faulty: an outdated cache is asked about again, not replaced.           *)
VerdictRetried(f, v) == IF v = listed[f] THEN "current" ELSE "check"

(* No md5 in the answer: -1.  Else it is compared with the md5 of the      *)
(* listing: equal means the cache is current, different download again.    *)
Verdict(f, v) ==
  CASE v = ErrorPage -> "failed"
    [] v = listed[f] -> "current"
    [] OTHER         -> "fetch"

(* xml_get_md5sum and ci_destroy, which does not free the body.            *)
Compare(t) ==
  /\ Goto(t, "compare", Verdict(file[t], heap[req[t].str].of))
  /\ req' = [req EXCEPT ![t] = NoReq]
  /\ UNCHANGED <<status, server, entryVars, file, rd, result, reply, seen>>
  /\ Leak

(* No byte of a body arrived: xml_get_md5sum calls strstr on NULL.         *)
CheckCrash(t) ==
  /\ "none" \in CheckReplies
  /\ status = "serving" /\ pc[t] = "check"
  /\ status' = "crashed"
  /\ UNCHANGED <<server, entryVars, heap, pc, file, req, rd, result,
                 reply, seen>>

(* The body buffer only exists once a byte of the body has arrived.        *)
Arrived(v, n) == IF n = 0 THEN NoBody ELSE [of |-> v, len |-> n]

(* What a download of version v may leave in response.body: curl appends   *)
(* what it received and the code ignores how the transfer ended.           *)
Received == [v \in Version |->
  (IF "whole" \in FetchReplies THEN {Arrived(v, Length[v])} ELSE {})
  \cup (IF "cut" \in FetchReplies
        THEN {Arrived(v, n) : n \in 0..(Length[v] - 1)} ELSE {})
  \cup (IF "error" \in FetchReplies
        THEN {Arrived(ErrorPage, ErrorLength)} ELSE {})]

(* The download of gdi_load.                                               *)
Fetch(t) ==
  /\ Goto(t, "fetch", "swap")
  /\ \E d \in Received[server[file[t]]] :
       \/ /\ d = NoBody
          /\ req' = [req EXCEPT ![t] = NoReq]
          /\ UNCHANGED heap
       \/ /\ d # NoBody
          /\ \E b \in Fresh :
               /\ heap' = [heap EXCEPT ![b] = d]
               /\ req' = [req EXCEPT ![t] = [str |-> b, len |-> d.len, tmp |-> NULL]]
  /\ UNCHANGED <<status, server, entryVars, file, rd, result, reply, seen>>

(* str_swap(&request.response.body, &entry->cache).  The entry's old       *)
(* pointer goes to the request; its old length is overwritten before any   *)
(* use.                                                                    *)
SwapOut(t) ==
  /\ Goto(t, "swap", "both")
  /\ req' = [req EXCEPT ![t] = [str |-> cacheStr[file[t]], len |-> req[t].len,
                                tmp |-> req[t].str]]
  /\ UNCHANGED <<status, server, entryVars, heap, file, rd, result, reply, seen>>

(* Faulty: the new body stays with the request.                            *)
SwapStrForgotten(t) ==
  /\ \/ Goto(t, "both", "len")
     \/ Goto(t, "str", "finish")
  /\ UNCHANGED <<status, server, entryVars, heap, file, req, rd, result, reply, seen>>

(* The two stores to the entry: plain stores that a build may emit in      *)
(* either order.                                                           *)
SwapStr(t) ==
  /\ \/ Goto(t, "both", "len")
     \/ Goto(t, "str", "finish")
  /\ cacheStr' = [cacheStr EXCEPT ![file[t]] = req[t].tmp]
  /\ UNCHANGED <<status, server, listed, cached, cacheLen, heap, file, req,
                 rd, result, reply, seen>>

(* Faulty: the new length is not stored.                                   *)
SwapLenForgotten(t) ==
  /\ \/ Goto(t, "both", "str")
     \/ Goto(t, "len", "finish")
  /\ UNCHANGED <<status, server, entryVars, heap, file, req, rd, result, reply, seen>>

SwapLen(t) ==
  /\ \/ Goto(t, "both", "str")
     \/ Goto(t, "len", "finish")
  /\ cacheLen' = [cacheLen EXCEPT ![file[t]] = req[t].len]
  /\ UNCHANGED <<status, server, listed, cached, cacheStr, heap, file, req,
                 rd, result, reply, seen>>

(* Faulty: ci_destroy frees the body that str_swap took out.               *)
FinishFreeing(t) ==
  /\ Goto(t, "finish", "idle")
  /\ heap' = [b \in Buf |-> IF b = req[t].str THEN NoBody ELSE heap[b]]
  /\ req' = [req EXCEPT ![t] = NoReq]
  /\ cached' = [cached EXCEPT ![file[t]] = TRUE]
  /\ Return(t, "ok")
  /\ UNCHANGED <<status, server, listed, cacheStr, cacheLen, file, rd, reply>>

(* ci_destroy zeroes the request without freeing response.body; the entry  *)
(* is marked cached (it already was when this open replaced a cached       *)
(* body); the open succeeds however the download went.                     *)
Finish(t) ==
  /\ Goto(t, "finish", "idle")
  /\ req' = [req EXCEPT ![t] = NoReq]
  /\ cached' = [cached EXCEPT ![file[t]] = TRUE]
  /\ Return(t, "ok")
  /\ UNCHANGED <<status, server, listed, cacheStr, cacheLen, file, rd, reply>>
  /\ Leak

(* gdi_load without a download: the cache is current, or the check failed. *)
ReturnCurrent(t) ==
  /\ Goto(t, "current", "idle")
  /\ Return(t, "ok")
  /\ UNCHANGED <<status, server, entryVars, heap, file, req, rd, reply>>

ReturnFailed(t) ==
  /\ Goto(t, "failed", "idle")
  /\ Return(t, "eperm")
  /\ UNCHANGED <<status, server, entryVars, heap, file, req, rd, reply>>

-----------------------------------------------------------------------------
(* gd_read                                                                 *)

(* The kernel sends READ for a file that was opened; an open that returned *)
(* 0 left entry->cached set.                                               *)
Read(t, f, size, off) ==
  /\ cached[f]
  /\ Goto(t, "idle", "bound")
  /\ file' = [file EXCEPT ![t] = f]
  /\ rd' = [rd EXCEPT ![t] = [size |-> size, off |-> off, n |-> 0, base |-> NULL]]
  /\ UNCHANGED <<status, server, entryVars, heap, req, result, reply, seen>>

(* Nothing to copy: gd_read returns 0.                                     *)
EndOfFile(t) ==
  /\ rd' = [rd EXCEPT ![t] = NoRead]
  /\ reply' = [reply EXCEPT ![t] = NoReply]

(* Faulty: an offset past the end is not caught.                           *)
ReadBoundUnchecked(t) ==
  /\ Goto(t, "bound", "length")
  /\ UNCHANGED <<status, server, entryVars, heap, file, req, rd, result, reply, seen>>

(* gdi_read tests entry->cache.len < offset ...                            *)
ReadBound(t) ==
  /\ \/ /\ cacheLen[file[t]] < rd[t].off
        /\ Goto(t, "bound", "idle")
        /\ EndOfFile(t)
     \/ /\ ~(cacheLen[file[t]] < rd[t].off)
        /\ Goto(t, "bound", "length")
        /\ UNCHANGED <<rd, reply>>
  /\ UNCHANGED <<status, server, entryVars, heap, file, req, result, seen>>

(* Faulty: the size asked for does not limit the answer.                   *)
ServedUnclipped(remaining, size) == remaining

(* ... and reads it again for the subtraction, which wraps around.         *)
Remaining(len, off) == (len - off) % SizeT
Served(remaining, size) == IF remaining < size THEN remaining ELSE size

ReadLength(t) ==
  LET n == Served(Remaining(cacheLen[file[t]], rd[t].off), rd[t].size) IN
  /\ \/ /\ n = 0
        /\ Goto(t, "length", "idle")
        /\ EndOfFile(t)
     \/ /\ n # 0
        /\ Goto(t, "length", "base")
        /\ rd' = [rd EXCEPT ![t] = [@ EXCEPT !.n = n]]
        /\ UNCHANGED reply
  /\ UNCHANGED <<status, server, entryVars, heap, file, req, result, seen>>

ReadBase(t) ==
  /\ Goto(t, "base", "copy")
  /\ rd' = [rd EXCEPT ![t] = [@ EXCEPT !.base = cacheStr[file[t]]]]
  /\ UNCHANGED <<status, server, entryVars, heap, file, req, result, reply, seen>>

(* memcpy in gd_read stays inside the buffer.                              *)
InBounds(t) ==
  /\ rd[t].base # NULL
  /\ heap[rd[t].base] # NoBody
  /\ rd[t].off + rd[t].n <= heap[rd[t].base].len

Copy(t) ==
  /\ Goto(t, "copy", "idle")
  /\ InBounds(t)
  /\ rd' = [rd EXCEPT ![t] = NoRead]
  /\ reply' = [reply EXCEPT ![t] = [of |-> heap[rd[t].base].of,
                                    off |-> rd[t].off, n |-> rd[t].n]]
  /\ UNCHANGED <<status, server, entryVars, file, req, result, seen>>
  /\ Leak

(* A copy that leaves the buffer: the process dies, or the user gets bytes *)
(* of something else.                                                      *)
CopyCrash(t) ==
  /\ status = "serving" /\ pc[t] = "copy"
  /\ ~InBounds(t)
  /\ status' = "crashed"
  /\ UNCHANGED <<server, entryVars, heap, pc, file, req, rd, result, reply, seen>>

CopyOver(t) ==
  /\ Goto(t, "copy", "idle")
  /\ ~InBounds(t)
  /\ rd' = [rd EXCEPT ![t] = NoRead]
  /\ reply' = [reply EXCEPT ![t] = [of |-> NULL, off |-> rd[t].off, n |-> rd[t].n]]
  /\ UNCHANGED <<status, server, entryVars, file, req, result, seen>>
  /\ Leak

-----------------------------------------------------------------------------
(* The server, unmount, the specification                                  *)

ServerChange(f) ==
  /\ status = "serving"
  /\ \E v \in Version \ {server[f]} :
       /\ Reverts \/ v > server[f]
       /\ server' = [server EXCEPT ![f] = v]
       /\ seen' = [t \in Threads |->
                     IF pc[t] \in OpenSteps /\ file[t] = f
                     THEN seen[t] \cup {v} ELSE seen[t]]
  /\ UNCHANGED <<status, entryVars, heap, pc, file, req, rd, result, reply>>

(* fuse_main returned, its workers are gone: gdi_destroy frees the cache   *)
(* of every entry.                                                         *)
Unmount ==
  /\ status = "serving"
  /\ \A t \in Threads : pc[t] = "idle"
  /\ status' = "unmounted"
  /\ heap' = [b \in Buf |-> IF \E f \in Files : cacheStr[f] = b
                            THEN NoBody ELSE heap[b]]
  /\ cacheStr' = [f \in Files |-> NULL]
  /\ cacheLen' = [f \in Files |-> 0]
  /\ UNCHANGED <<server, listed, cached, pc, file, req, rd, result,
                 reply, seen>>

(* The process is gone.                                                    *)
Stopped == status # "serving" /\ UNCHANGED vars

OpenStep(t) ==
  \/ CheckReply(t) \/ CheckCrash(t) \/ Compare(t)
  \/ Fetch(t) \/ SwapOut(t) \/ SwapStr(t) \/ SwapLen(t) \/ Finish(t)
  \/ ReturnCurrent(t) \/ ReturnFailed(t)

ReadStep(t) ==
  \/ ReadBound(t) \/ ReadLength(t) \/ ReadBase(t) \/ Copy(t)
  \/ CopyCrash(t) \/ CopyOver(t)

Next ==
  \/ \E t \in Threads, f \in Files : Open(t, f)
  \/ \E t \in Threads, f \in Files, r \in Requests : Read(t, f, r[1], r[2])
  \/ \E t \in Threads : OpenStep(t) \/ ReadStep(t)
  \/ \E f \in Files : ServerChange(f)
  \/ Unmount
  \/ Stopped

Spec == Init /\ [][Next]_vars

(* The kernel schedules every worker, and a request is answered or its     *)
(* connection breaks; nothing is assumed of the users or of the server.    *)
FairSpec ==
  /\ Spec
  /\ \A t \in Threads : WF_vars(OpenStep(t)) /\ WF_vars(ReadStep(t))

-----------------------------------------------------------------------------
(* Properties                                                              *)

Swapping(f) == \E t \in Threads : file[t] = f /\ pc[t] \in {"len", "str"}
BodyLen(p) == IF p = NULL THEN 0 ELSE heap[p].len
View(f) == IF cacheStr[f] = NULL THEN NoBody ELSE heap[cacheStr[f]]

(* With one worker: outside str_swap the length of an entry's cache is the *)
(* number of bytes its buffer holds, whatever answers the server gave.     *)
CacheCoherent == \A f \in Files : Swapping(f) \/ cacheLen[f] = BodyLen(cacheStr[f])

(* With one worker: what gdi_read returned is inside the cached body, so   *)
(* the memcpy of gd_read is too.                                           *)
ReadInBounds == \A t \in Threads : pc[t] = "copy" => InBounds(t)

(* Any number of workers: no pointer in an entry, a request or a reader    *)
(* refers to a freed buffer, although str_swap takes the body away under   *)
(* readers.  It rests on ci_destroy not freeing response.body.             *)
NoDangling == \A b \in Reachable \ {NULL} : heap[b] # NoBody

(* The body a worker downloaded and has not stored into the entry yet.     *)
Unpublished(t) ==
  CASE pc[t] = "swap"            -> req[t].str
    [] pc[t] \in {"both", "str"} -> req[t].tmp
    [] OTHER                     -> NULL

Held(t) == {req[t].str, req[t].tmp, rd[t].base}

(* Any number of workers: no two entries share a body (gdi_destroy would   *)
(* free it twice), and nobody else holds a body before it is in its entry. *)
Ownership ==
  /\ \A f, g \in Files : cacheStr[f] = cacheStr[g] => f = g \/ cacheStr[f] = NULL
  /\ \A t \in Threads :
       \/ Unpublished(t) = NULL
       \/ /\ \A f \in Files : Unpublished(t) # cacheStr[f]
          /\ \A u \in Threads \ {t} : Unpublished(t) \notin Held(u)

(* An open that succeeds has made the cache hold a content the server had  *)
(* at some moment between the open and its return (close-to-open).         *)
OpenServesCurrent ==
  [][\A t \in Threads :
       pc[t] \in OpenSteps /\ pc'[t] = "idle" /\ result'[t] = "ok"
         => View(file[t]).of' \in seen[t]]_vars

(* With one worker a body is lost in two places, at both because           *)
(* ci_destroy does not free response.body: the answer to an update check,  *)
(* and the body that an update replaced.  All others are held until        *)
(* unmount frees them ("cache not freed until unmount").                   *)
LeaksExplained ==
  [][\A b \in Reachable \ {NULL} : b \notin Reachable' =>
       \/ status' = "unmounted"
       \/ \E t \in Threads :
            /\ req[t].str = b
            /\ pc[t] = "compare" \/ (pc[t] = "finish" /\ cached[file[t]])]_vars

(* "read() works": a read returns bytes of the file.                       *)
ReadsServeFile == \A t \in Threads : reply[t].n > 0 => reply[t].of # NULL

(* Every open returns, as long as the process lives.                       *)
OpensReturn ==
  \A t \in Threads : pc[t] \in OpenSteps ~> pc[t] = "idle" \/ status = "crashed"

(* If opens of a file keep succeeding, its cache ends up with the content  *)
(* the server ends up with, and with its length.                           *)
Opened(f) == \E t \in Threads : file[t] = f /\ pc[t] \in OpenSteps
                                /\ pc'[t] = "idle" /\ result'[t] = "ok"
Converges ==
  \A f \in Files :
    []<><<Opened(f)>>_vars
      => <>[](/\ View(f) = Arrived(server[f], Length[server[f]])
              /\ cacheLen[f] = View(f).len)

(* What gd_getattr tells the kernel: entry->size, which the listing sets   *)
(* if it has a size, and nothing afterwards.                               *)
StatSize(f) == IF f \in HasSize THEN Length[listed[f]] ELSE 0

(* "filesize is correct": the size the kernel is told of a file that was   *)
(* opened is the number of bytes gd_read has of it.                        *)
SizeCorrect ==
  status = "serving" =>
    \A f \in Files : cached[f] /\ ~Swapping(f) => cacheLen[f] = StatSize(f)

(* With one worker gd_open and gd_read implement the promise of            *)
(* CloseToOpen, whatever the server does and however it answers.           *)
Phase(t) == CASE pc[t] = "idle"                     -> "idle"
              [] pc[t] \in {"len", "finish"}        -> "updated"
              [] pc[t] \in OpenSteps \ {"len", "finish"} -> "opening"
              [] pc[t] \in ReadSteps                -> "reading"

Promise == INSTANCE CloseToOpen WITH
  Clients <- Threads,
  Tracked <- HasMd5,
  up      <- status = "serving",
  first   <- listed,
  kept    <- cached,
  view    <- [f \in Files |-> View(f)],
  phase   <- [t \in Threads |-> Phase(t)],
  want    <- [t \in Threads |-> [size |-> rd[t].size, off |-> rd[t].off]]

ImplementsCloseToOpen == Promise!Spec
=============================================================================
