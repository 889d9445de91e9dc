------------------------- MODULE CloseToOpenProofs -------------------------
(***************************************************************************)
(* Theorems about FileCache with one worker: which bodies are lost, and    *)
(* the refinement of CloseToOpen, for any files, contents, answers of the  *)
(* server, downloads and requests.                                         *)
(***************************************************************************)
EXTENDS FileCacheProofs

LEMMA ListedStays == [Next]_vars => listed' = listed
  BY DEF Next, Open, Read, OpenStep, ReadStep, CheckReply, Compare, CheckCrash, Fetch,
         SwapOut, SwapStr, SwapLen, Finish, ReturnCurrent, ReturnFailed, ReadBound,
         ReadLength, ReadBase, Copy, CopyCrash, CopyOver, ServerChange, Unmount, Stopped,
         vars, entryVars

(***************************************************************************)
(* What is lost.  A body is only replaced in an entry that was cached, and *)
(* what a request holds besides its answer is in the entry.                *)
(***************************************************************************)
LeakInv ==
  /\ \A f \in Files : cached[f] \/ cacheStr[f] = NULL
                      \/ \E t \in Threads : file[t] = f /\ pc[t] \in {"len", "finish"}
  /\ \A t \in Threads :
       /\ pc[t] \in {"both", "str", "len", "finish"} => cached[file[t]] \/ req[t].str = NULL
       /\ pc[t] \in {"compare", "swap"} => req[t].tmp = NULL
       /\ pc[t] \in {"both", "str"} => req[t].str = cacheStr[file[t]]
       /\ pc[t] = "finish" => req[t].tmp = cacheStr[file[t]]

LEMMA OnlyWorker ==
  ASSUME OneWorker, NEW t \in Threads, NEW u \in Threads PROVE u = t
  BY DEF OneWorker

LEMMA LeakInvInit == Init => LeakInv
<1> SUFFICES ASSUME Init PROVE LeakInv
  OBVIOUS
<1>1. \A f \in Files : cacheStr[f] = NULL
  BY DEF Init
<1>2. \A t \in Threads : pc[t] = "idle"
  BY DEF Init
<1> QED
  BY <1>1, <1>2 DEF LeakInv

(* LeaksExplained, as a property of one step.                              *)
LossExplained ==
  \A b \in Reachable \ {NULL} : b \notin Reachable' =>
    \/ status' = "unmounted"
    \/ \E t \in Threads :
         /\ req[t].str = b
         /\ pc[t] = "compare" \/ (pc[t] = "finish" /\ cached[file[t]])

LEMMA LossStep ==
  ASSUME OneWorker, CoherentInv, LeakInv, [Next]_vars
  PROVE  LossExplained
<1>t. TypeOK /\ Dropped /\ MemoryInv /\ InProgress
  BY DEF CoherentInv, MemoryInv
<1>n. NoRead.base = NULL /\ NoReq.str = NULL /\ NoReq.tmp = NULL
  BY DEF NoRead, NoReq
<1>k. ASSUME Reachable \ {NULL} \subseteq Reachable' PROVE LossExplained
  BY <1>k DEF LossExplained
<1>b. ASSUME UNCHANGED <<cacheStr, req>>,
             \A u \in Threads : rd[u].base = NULL \/ rd'[u].base = rd[u].base
      PROVE  LossExplained
  <2>1. Reachable \ {NULL} \subseteq Reachable'
    BY <1>b DEF Reachable
  <2> QED
    BY <1>k, <2>1
<1> USE DEF entryVars, Goto, Return
<1>1. ASSUME NEW t \in Threads, NEW f \in Files, Open(t, f) PROVE LossExplained
  BY <1>1, <1>b DEF Open
<1>2. ASSUME NEW t \in Threads, NEW f \in Files, NEW r \in Requests,
             Read(t, f, r[1], r[2])
      PROVE  LossExplained
  <2>1. \A u \in Threads : rd[u].base = NULL \/ rd'[u].base = rd[u].base
    BY <1>t, <1>2 DEF Read, Dropped, TypeOK
  <2> QED
    BY <1>2, <1>b, <2>1 DEF Read
<1>3. ASSUME NEW t \in Threads,
             \/ CheckCrash(t) \/ CopyCrash(t) \/ SwapLen(t)
             \/ ReturnCurrent(t) \/ ReturnFailed(t)
      PROVE  LossExplained
  <2>1. UNCHANGED <<cacheStr, req, rd>>
    BY <1>3 DEF CheckCrash, CopyCrash, SwapLen, ReturnCurrent, ReturnFailed
  <2> QED
    BY <1>b, <2>1
<1>4. ASSUME NEW t \in Threads, CheckReply(t) \/ Fetch(t) PROVE LossExplained
  <2>1. Arrives(t) /\ req[t] = NoReq
    BY <1>t, <1>4, FetchTakesFresh, ReplyTakesFresh DEF Dropped
  <2>2. \A u \in Threads \ {t} : req'[u] = req[u]
    <3>1. \E r : req' = [req EXCEPT ![t] = r]
      BY <2>1 DEF Arrives
    <3> QED
      BY <1>t, <3>1 DEF TypeOK
  <2>3. Reachable \ {NULL} \subseteq Reachable'
    BY <1>n, <2>1, <2>2 DEF Reachable, Arrives
  <2> QED
    BY <1>k, <2>3
<1>5. ASSUME NEW t \in Threads, SwapOut(t) PROVE LossExplained
  <2>0. pc[t] = "swap" /\ req[t].tmp = NULL
    BY <1>5 DEF SwapOut, LeakInv
  <2>1. /\ UNCHANGED <<cacheStr, rd>> /\ req'[t].tmp = req[t].str
        /\ \A u \in Threads \ {t} : req'[u] = req[u]
    BY <1>t, <1>5 DEF SwapOut, TypeOK
  <2>2. Reachable \ {NULL} \subseteq Reachable'
    BY <2>0, <2>1 DEF Reachable
  <2> QED
    BY <1>k, <2>2
<1>6. ASSUME NEW t \in Threads, SwapStr(t) PROVE LossExplained
  <2>1. /\ UNCHANGED <<req, rd>> /\ req[t].str = cacheStr[file[t]]
        /\ \A f \in Files \ {file[t]} : cacheStr'[f] = cacheStr[f]
    BY <1>t, <1>6 DEF SwapStr, LeakInv, TypeOK
  <2>2. Reachable \ {NULL} \subseteq Reachable'
    BY <2>1 DEF Reachable
  <2> QED
    BY <1>k, <2>2
(* The two steps that call ci_destroy.                                     *)
<1>d. ASSUME NEW t \in Threads, Compare(t) \/ Finish(t), NEW b \in Reachable \ {NULL},
             b \notin Reachable', req[t].tmp \in {NULL} \cup {cacheStr[f] : f \in Files}
      PROVE  req[t].str = b
  <2>1. UNCHANGED <<cacheStr, rd>> /\ \A u \in Threads : u = t
    BY <1>d, OnlyWorker DEF Compare, Finish
  <2>2. b \in {req[t].str, req[t].tmp}
    BY <1>d, <2>1 DEF Reachable
  <2> QED
    BY <1>d, <2>1, <2>2 DEF Reachable
<1>7. ASSUME NEW t \in Threads, Finish(t) PROVE LossExplained
  <2>1. pc[t] = "finish" /\ req[t].tmp = cacheStr[file[t]] /\ file[t] \in Files
    BY <1>t, <1>7 DEF Finish, LeakInv, TypeOK
  <2>2. ASSUME NEW b \in Reachable \ {NULL}, b \notin Reachable'
        PROVE  req[t].str = b /\ cached[file[t]]
    <3>1. req[t].str = b
      BY <1>d, <1>7, <2>1, <2>2
    <3> QED
      BY <2>1, <2>2, <3>1 DEF LeakInv
  <2> QED
    BY <2>1, <2>2 DEF LossExplained
<1>8. ASSUME NEW t \in Threads, Compare(t) PROVE LossExplained
  <2>1. pc[t] = "compare" /\ req[t].tmp = NULL
    BY <1>8 DEF Compare, LeakInv
  <2> QED
    BY <1>d, <1>8, <2>1 DEF LossExplained
<1>9. ASSUME NEW t \in Threads, ReadBound(t) \/ ReadLength(t) \/ ReadBase(t)
      PROVE  LossExplained
  <2>1. /\ UNCHANGED <<cacheStr, req>> /\ pc[t] # "copy"
        /\ \A u \in Threads \ {t} : rd'[u] = rd[u]
    BY <1>t, <1>9 DEF ReadBound, ReadLength, ReadBase, EndOfFile, TypeOK
  <2>2. \A u \in Threads : rd[u].base = NULL \/ rd'[u].base = rd[u].base
    BY <1>t, <2>1 DEF Dropped
  <2> QED
    BY <1>b, <2>1, <2>2
<1>10. ASSUME NEW t \in Threads, Copy(t) \/ CopyOver(t) PROVE LossExplained
  <2>1. UNCHANGED <<cacheStr, req>> /\ pc[t] = "copy" /\ \A u \in Threads : u = t
    BY <1>10, OnlyWorker DEF Copy, CopyOver
  <2>2. rd[t].base = cacheStr[file[t]] /\ file[t] \in Files
    BY <1>t, <2>1 DEF InProgress, TypeOK
  <2>3. Reachable \ {NULL} \subseteq Reachable'
    BY <2>1, <2>2 DEF Reachable
  <2> QED
    BY <1>k, <2>3
<1>11. ASSUME NEW f \in Files, ServerChange(f) PROVE LossExplained
  BY <1>11, <1>b DEF ServerChange
<1>12. CASE Unmount
  BY <1>12 DEF Unmount, LossExplained
<1>13. CASE UNCHANGED vars
  BY <1>13, <1>b DEF vars
<1> QED
  BY <1>1, <1>2, <1>3, <1>4, <1>5, <1>6, <1>7, <1>8, <1>9, <1>10, <1>11, <1>12, <1>13
  DEF Next, OpenStep, ReadStep, Stopped

LEMMA LeakInvStep ==
  ASSUME OneWorker, CoherentInv, LeakInv, [Next]_vars
  PROVE  LeakInv'
<1>t. TypeOK /\ Dropped /\ InProgress /\ MemoryInv
  BY DEF CoherentInv, MemoryInv
<1>w. ASSUME NEW t \in Threads, NEW u \in Threads PROVE u = t
  BY DEF OneWorker
<1>n. NoReq.tmp = NULL /\ NoReq.str = NULL
  BY DEF NoReq
<1> DEFINE Entries == \A f \in Files :
             \/ cached[f] \/ cacheStr[f] = NULL
             \/ \E t \in Threads : file[t] = f /\ pc[t] \in {"len", "finish"}
           Request == \A t \in Threads :
             /\ pc[t] \in {"both", "str", "len", "finish"} =>
                  cached[file[t]] \/ req[t].str = NULL
             /\ pc[t] \in {"compare", "swap"} => req[t].tmp = NULL
             /\ pc[t] \in {"both", "str"} => req[t].str = cacheStr[file[t]]
             /\ pc[t] = "finish" => req[t].tmp = cacheStr[file[t]]
<1> SUFFICES (Entries /\ Request)'
  BY DEF LeakInv
<1>h. Entries /\ Request
  BY DEF LeakInv
<1> USE DEF entryVars, Goto, Return
(* The worker holds no answer, before or after.                            *)
<1>q. ASSUME NEW t \in Threads, UNCHANGED <<cached, cacheStr>>,
             pc[t] \notin {"len", "finish"},
             pc'[t] \notin {"compare", "swap", "both", "str", "len", "finish"}
      PROVE  (Entries /\ Request)'
  BY <1>h, <1>w, <1>q
<1>1. ASSUME NEW t \in Threads, NEW f \in Files, Open(t, f) PROVE (Entries /\ Request)'
  <2>1. /\ UNCHANGED <<cached, cacheStr>> /\ pc[t] = "idle"
        /\ pc'[t] \in {"fetch", "check", "current"}
    BY <1>t, <1>1 DEF Open, TypeOK
  <2> QED
    BY <1>q, <2>1
<1>2. ASSUME NEW t \in Threads, NEW f \in Files, NEW r \in Requests,
             Read(t, f, r[1], r[2])
      PROVE  (Entries /\ Request)'
  <2>1. UNCHANGED <<cached, cacheStr>> /\ pc[t] = "idle" /\ pc'[t] = "bound"
    BY <1>t, <1>2 DEF Read, TypeOK
  <2> QED
    BY <1>q, <2>1
<1>3. ASSUME NEW t \in Threads,
             \/ Compare(t) \/ ReturnCurrent(t) \/ ReturnFailed(t)
             \/ ReadBound(t) \/ ReadLength(t) \/ ReadBase(t) \/ Copy(t) \/ CopyOver(t)
      PROVE  (Entries /\ Request)'
  <2>1. /\ UNCHANGED <<cached, cacheStr>> /\ pc[t] \notin {"len", "finish"}
        /\ \E to \in {"idle", "fetch", "current", "failed", "length", "base", "copy"} :
             pc' = [pc EXCEPT ![t] = to]
    BY <1>3
    DEF Compare, ReturnCurrent, ReturnFailed, ReadBound, ReadLength, ReadBase, Copy,
        CopyOver, Verdict
  <2> QED
    BY <1>t, <1>q, <2>1 DEF TypeOK
<1>4. ASSUME UNCHANGED <<cached, cacheStr, pc, file, req>> PROVE (Entries /\ Request)'
  BY <1>h, <1>4
<1>5. ASSUME NEW t \in Threads, CheckCrash(t) \/ CopyCrash(t) PROVE (Entries /\ Request)'
  BY <1>4, <1>5 DEF CheckCrash, CopyCrash
<1>6. ASSUME NEW t \in Threads, CheckReply(t) \/ Fetch(t) PROVE (Entries /\ Request)'
  <2>1. /\ UNCHANGED <<cached, cacheStr, file>>
        /\ pc[t] \in {"check", "fetch"} /\ pc'[t] \in {"compare", "swap"}
    BY <1>t, <1>6 DEF CheckReply, Fetch, TypeOK
  <2>2. req'[t].tmp = NULL
    <3>1. Arrives(t)
      BY <1>t, <1>6, FetchTakesFresh, ReplyTakesFresh
    <3> QED
      BY <1>t, <1>n, <3>1 DEF Arrives, TypeOK
  <2> QED
    BY <1>h, <1>w, <2>1, <2>2
<1>7. ASSUME NEW t \in Threads, SwapOut(t) PROVE (Entries /\ Request)'
  <2>1. /\ UNCHANGED <<cached, cacheStr, file>> /\ pc[t] = "swap" /\ pc'[t] = "both"
        /\ req'[t].str = cacheStr[file[t]] /\ file[t] \in Files
    BY <1>t, <1>7 DEF SwapOut, TypeOK
  <2>2. cached[file[t]] \/ cacheStr[file[t]] = NULL
    BY <1>h, <1>w, <2>1
  <2> QED
    BY <1>h, <1>w, <2>1, <2>2
<1>8. ASSUME NEW t \in Threads, SwapStr(t) PROVE (Entries /\ Request)'
  <2>1. /\ UNCHANGED <<cached, file, req>>
        /\ pc[t] \in {"both", "str"} /\ pc'[t] \in {"len", "finish"}
        /\ cacheStr'[file[t]] = req[t].tmp
        /\ \A f \in Files \ {file[t]} : cacheStr'[f] = cacheStr[f]
    BY <1>t, <1>8 DEF SwapStr, TypeOK
  <2> QED
    BY <1>h, <1>w, <2>1
<1>9. ASSUME NEW t \in Threads, SwapLen(t) PROVE (Entries /\ Request)'
  <2>1. /\ UNCHANGED <<cached, cacheStr, file, req>>
        /\ \/ pc[t] = "both" /\ pc'[t] = "str"
           \/ pc[t] = "len" /\ pc'[t] = "finish" /\ cacheStr[file[t]] = req[t].tmp
    BY <1>t, <1>9 DEF SwapLen, TypeOK, InProgress
  <2> QED
    BY <1>h, <1>w, <2>1
<1>10. ASSUME NEW t \in Threads, Finish(t) PROVE (Entries /\ Request)'
  <2>1. /\ UNCHANGED <<cacheStr, file>> /\ pc'[t] = "idle" /\ cached'[file[t]]
        /\ \A f \in Files \ {file[t]} : cached'[f] = cached[f]
    BY <1>t, <1>10 DEF Finish, TypeOK
  <2> QED
    BY <1>h, <1>w, <2>1
<1>11. ASSUME NEW f \in Files, ServerChange(f) PROVE (Entries /\ Request)'
  BY <1>4, <1>11 DEF ServerChange
<1>12. CASE Unmount
  BY <1>12 DEF Unmount
<1>13. CASE UNCHANGED vars
  BY <1>4, <1>13 DEF vars
<1> QED
  BY <1>1, <1>2, <1>3, <1>5, <1>6, <1>7, <1>8, <1>9, <1>10, <1>11, <1>12, <1>13
  DEF Next, OpenStep, ReadStep, Stopped

(* With one worker each body that is lost is the answer to an update check *)
(* or a body an update replaced: a first download, a read, a failed        *)
(* download and unmount lose none.                                         *)
THEOREM LossesExplained == ASSUME OneWorker PROVE Spec => LeaksExplained
<1>1. CoherentInv /\ [Next]_vars => CoherentInv'
  BY MemoryInvStep, CoherentInvStep DEF CoherentInv
<1>2. CoherentInv /\ LeakInv /\ [Next]_vars => LeakInv'
  BY LeakInvStep
<1>3. CoherentInv /\ LeakInv /\ [Next]_vars => [LossExplained]_vars
  BY LossStep
<1> QED
  BY <1>1, <1>2, <1>3, CoherentInvInit, LeakInvInit, PTL
  DEF Spec, LeaksExplained, LossExplained

(***************************************************************************)
(* The refinement of CloseToOpen.  What a worker downloaded came of a      *)
(* version the server had since the open began; whoever asks the server    *)
(* has the file in the cache; what a reader is about to copy is what it    *)
(* asked for.  That the subtraction in gdi_read does not wrap needs that   *)
(* no body is longer than a size_t can say.                                *)
(***************************************************************************)
At(p) == IF p = NULL THEN NoBody ELSE heap[p]

Comes(p, vs) == \E v \in vs : At(p) \in Received[v]

ThreadContent(t) ==
  /\ pc[t] \in OpenSteps => server[file[t]] \in seen[t]
  /\ pc[t] \in {"check", "compare", "failed"} => cached[file[t]] /\ file[t] \in HasMd5
  /\ pc[t] = "compare" => heap[req[t].str].of \in seen[t] \cup {ErrorPage}
  /\ pc[t] = "current" =>
       cached[file[t]] /\ (file[t] \in HasMd5 => listed[file[t]] \in seen[t])
  /\ pc[t] = "swap" => Comes(req[t].str, seen[t])
  /\ pc[t] \in {"both", "str"} => Comes(req[t].tmp, seen[t])
  /\ pc[t] \in {"base", "copy"} =>
       rd[t].n = Served(cacheLen[file[t]] - rd[t].off, rd[t].size)

BodiesFit == \A b \in Buf : heap[b].len < SizeT

ContentInv == BodiesFit /\ \A t \in Threads : ThreadContent(t)

RefinementInv == CoherentInv /\ ContentInv

LEMMA ContentInit == Init => ContentInv
<1> SUFFICES ASSUME Init PROVE ContentInv
  OBVIOUS
<1>1. \A t \in Threads : pc[t] = "idle"
  BY DEF Init
<1>2. \A t \in Threads : ThreadContent(t)
  BY <1>1 DEF ThreadContent, OpenSteps
<1>3. BodiesFit
  BY LengthsType DEF BodiesFit, Init, NoBody
<1> QED
  BY <1>2, <1>3 DEF ContentInv

LEMMA BodiesFitStep ==
  ASSUME MemoryInv, BodiesFit, [Next]_vars
  PROVE  BodiesFit'
<1>t. TypeOK
  BY DEF MemoryInv
<1>n. NoBody.len < SizeT
  BY LengthsType DEF NoBody
<1>1. ASSUME \A b \in Buf : heap'[b] \in {heap[b], NoBody} PROVE BodiesFit'
  BY <1>n, <1>1 DEF BodiesFit
<1>2. ASSUME Leak PROVE BodiesFit'
  BY <1>1, <1>2 DEF Leak
<1>3. ASSUME NEW b \in Buf, NEW d, d.len < SizeT, heap' = [heap EXCEPT ![b] = d]
      PROVE  BodiesFit'
  BY <1>t, <1>3 DEF BodiesFit, TypeOK
<1>4. ASSUME NEW t \in Threads, CheckReply(t) PROVE BodiesFit'
  <2>1. PICK v \in CheckAnswers(file[t]), b \in Buf :
          heap' = [heap EXCEPT ![b] = [of |-> v, len |-> 1]]
    BY <1>4 DEF CheckReply, Fresh
  <2>2. [of |-> v, len |-> 1].len < SizeT
    BY LengthsType
  <2> QED
    BY <1>3, <2>1, <2>2
<1>5. ASSUME NEW t \in Threads, Fetch(t) PROVE BodiesFit'
  <2>1. PICK d \in Received[server[file[t]]] :
          \/ heap' = heap
          \/ d # NoBody /\ \E b \in Buf : heap' = [heap EXCEPT ![b] = d]
    BY <1>5 DEF Fetch, Fresh
  <2>2. d # NoBody => d.len < SizeT
    BY <1>t, ReceivedType DEF TypeOK
  <2> QED
    BY <1>1, <1>3, <2>1, <2>2
<1>6. ASSUME NEW t \in Threads, OpenStep(t) \/ ReadStep(t) PROVE BodiesFit'
  <2>1. ASSUME UNCHANGED heap PROVE BodiesFit'
    BY <1>1, <2>1
  <2> QED
    BY <1>2, <1>4, <1>5, <1>6, <2>1
    DEF OpenStep, ReadStep, CheckCrash, Compare, SwapOut, SwapStr, SwapLen, Finish,
        ReturnCurrent, ReturnFailed, ReadBound, ReadLength, ReadBase, Copy, CopyCrash,
        CopyOver
<1>7. CASE Unmount
  BY <1>1, <1>7 DEF Unmount
<1> QED
  BY <1>1, <1>6, <1>7 DEF Next, Open, Read, ServerChange, Stopped, vars

(* With one worker a reader sees the length of the body in the entry.      *)
LEMMA ReaderSees ==
  ASSUME OneWorker, RefinementInv, NEW t \in Threads, pc[t] \in ReadSteps
  PROVE  /\ cacheLen[file[t]] = View(file[t]).len
         /\ cacheLen[file[t]] \in Nat /\ cacheLen[file[t]] < SizeT
<1>1. file[t] \in Files /\ cacheStr[file[t]] \in Ptr /\ cacheLen[file[t]] \in Nat
  BY DEF RefinementInv, CoherentInv, MemoryInv, TypeOK
<1>2. cacheLen[file[t]] = BodyLen(cacheStr[file[t]])
  <2>1. ~Swapping(file[t])
    BY DEF Swapping, OneWorker, ReadSteps
  <2> QED
    BY <1>1, <2>1 DEF RefinementInv, CoherentInv, CacheCoherent
<1>3. BodyLen(cacheStr[file[t]]) = View(file[t]).len
  BY DEF BodyLen, View, NoBody
<1>4. View(file[t]).len < SizeT
  BY <1>1, LengthsType DEF View, NoBody, Ptr, RefinementInv, ContentInv, BodiesFit
<1> QED
  BY <1>1, <1>2, <1>3, <1>4

LEMMA RemainingExact ==
  ASSUME NEW len \in Nat, NEW off \in Nat, off <= len, len < SizeT
  PROVE  Remaining(len, off) = len - off
<1>1. len - off \in Nat /\ len - off < SizeT /\ SizeT \in Nat
  BY FileCacheAssumption
<1> QED
  BY <1>1, FileCacheAssumption, SMTT(30) DEF Remaining

LEMMA ThreadStep ==
  ASSUME OneWorker, RefinementInv, [Next]_vars, NEW t \in Threads
  PROVE  ThreadContent(t)'
<1> DEFINE f == file[t]
<1>t. TypeOK /\ MemoryInv /\ InProgress /\ ThreadContent(t) /\ f \in Files
  BY DEF RefinementInv, CoherentInv, MemoryInv, TypeOK, ContentInv
<1>w. ASSUME NEW u \in Threads PROVE u = t
  BY DEF OneWorker
<1>s. ASSUME pc[t] \in OpenSteps, UNCHANGED <<file, server, seen>>
      PROVE  server'[file'[t]] \in seen'[t]
  BY <1>t, <1>s DEF ThreadContent
<1>l. listed' = listed
  BY ListedStays
<1> USE DEF entryVars, Goto, Return
<1>1. ASSUME NEW u \in Threads, NEW g \in Files, Open(u, g) PROVE ThreadContent(t)'
  <2>1. /\ UNCHANGED <<cached, server>> /\ file'[t] = g /\ seen'[t] = {server[g]}
        /\ \/ pc'[t] = "fetch"
           \/ pc'[t] = "check" /\ cached[g] /\ g \in HasMd5
           \/ pc'[t] = "current" /\ cached[g] /\ g \notin HasMd5
    BY <1>t, <1>w, <1>1 DEF Open, TypeOK
  <2> QED
    BY <2>1 DEF ThreadContent, OpenSteps
<1>2. ASSUME NEW u \in Threads, NEW g \in Files, NEW r \in Requests,
             Read(u, g, r[1], r[2])
      PROVE  ThreadContent(t)'
  <2>1. pc'[t] = "bound"
    BY <1>t, <1>w, <1>2 DEF Read, TypeOK
  <2> QED
    BY <2>1 DEF ThreadContent, OpenSteps
<1>3. ASSUME NEW u \in Threads, CheckReply(u) PROVE ThreadContent(t)'
  <2>1. /\ UNCHANGED <<cached, file, server, seen>>
        /\ pc[t] = "check" /\ pc'[t] = "compare" /\ u = t
    BY <1>t, <1>w, <1>3 DEF CheckReply, TypeOK
  <2>2. PICK v \in CheckAnswers(f), b \in Buf :
          /\ heap' = [heap EXCEPT ![b] = [of |-> v, len |-> 1]]
          /\ req' = [req EXCEPT ![t] = [str |-> b, len |-> 1, tmp |-> NULL]]
    BY <1>3, <2>1 DEF CheckReply, Fresh
  <2>3. heap'[req'[t].str].of = v
    BY <1>t, <2>2 DEF TypeOK
  <2>4. v \in {server[f], ErrorPage}
    BY <2>2 DEF CheckAnswers
  <2> QED
    BY <1>t, <2>1, <2>3, <2>4 DEF ThreadContent, OpenSteps
<1>4. ASSUME NEW u \in Threads, Compare(u) PROVE ThreadContent(t)'
  <2> DEFINE v == heap[req[t].str].of
  <2>1. /\ UNCHANGED <<cached, file, server, seen>>
        /\ pc[t] = "compare" /\ pc'[t] = Verdict(f, v)
    BY <1>t, <1>w, <1>4 DEF Compare, TypeOK
  <2>2. cached[f] /\ f \in HasMd5 /\ v \in seen[t] \cup {ErrorPage}
    BY <1>t, <2>1 DEF ThreadContent
  <2>3. /\ pc'[t] \in {"failed", "current", "fetch"}
        /\ pc'[t] = "current" => listed[f] \in seen[t]
    <3>1. listed[f] # ErrorPage
      BY <1>t, FileCacheAssumption DEF TypeOK
    <3> HIDE DEF v
    <3>2. CASE v = ErrorPage
      BY <2>1, <3>1, <3>2 DEF Verdict
    <3>3. CASE v # ErrorPage
      BY <2>1, <2>2, <3>3 DEF Verdict
    <3> QED
      BY <3>2, <3>3
  <2> QED
    BY <1>l, <1>s, <2>1, <2>2, <2>3 DEF ThreadContent, OpenSteps
<1>5. ASSUME NEW u \in Threads, Fetch(u) PROVE ThreadContent(t)'
  <2>1. /\ UNCHANGED <<file, server, seen>> /\ pc[t] = "fetch" /\ pc'[t] = "swap" /\ u = t
    BY <1>t, <1>w, <1>5 DEF Fetch, TypeOK
  <2>2. PICK d \in Received[server[f]] :
          \/ d = NoBody /\ req' = [req EXCEPT ![t] = NoReq]
          \/ \E b \in Buf :
               /\ heap' = [heap EXCEPT ![b] = d]
               /\ req' = [req EXCEPT ![t] = [str |-> b, len |-> d.len, tmp |-> NULL]]
    BY <1>5, <2>1 DEF Fetch, Fresh
  <2>3. At(req[t].str)' = d
    BY <1>t, <2>2, FileCacheAssumption DEF At, NoReq, TypeOK
  <2>4. server[f] \in seen[t]
    BY <1>t, <2>1 DEF ThreadContent, OpenSteps
  <2>5. Comes(req[t].str, seen[t])'
    BY <2>1, <2>2, <2>3, <2>4 DEF Comes
  <2> QED
    BY <1>s, <2>1, <2>5 DEF ThreadContent, OpenSteps
<1>6. ASSUME NEW u \in Threads, SwapOut(u) PROVE ThreadContent(t)'
  <2>1. /\ UNCHANGED <<file, server, seen, heap>> /\ pc[t] = "swap" /\ pc'[t] = "both"
        /\ req'[t].tmp = req[t].str
    BY <1>t, <1>w, <1>6 DEF SwapOut, TypeOK
  <2>2. Comes(req[t].tmp, seen[t])'
    BY <1>t, <2>1 DEF ThreadContent, Comes, At
  <2> QED
    BY <1>s, <2>1, <2>2 DEF ThreadContent, OpenSteps
<1>7. ASSUME NEW u \in Threads, SwapStr(u) \/ SwapLen(u) PROVE ThreadContent(t)'
  <2>1. /\ UNCHANGED <<file, server, seen, heap, req>>
        /\ pc[t] \in {"both", "str", "len"}
        /\ \/ pc[t] = "both" /\ pc'[t] = "str"
           \/ pc'[t] \in {"len", "finish"}
    BY <1>t, <1>w, <1>7 DEF SwapStr, SwapLen, TypeOK
  <2>2. pc'[t] = "str" => Comes(req[t].tmp, seen[t])'
    BY <1>t, <2>1 DEF ThreadContent, Comes, At
  <2> QED
    BY <1>s, <2>1, <2>2 DEF ThreadContent, OpenSteps
<1>8. ASSUME pc'[t] = "idle" PROVE ThreadContent(t)'
  BY <1>8 DEF ThreadContent, OpenSteps
<1>9. ASSUME NEW u \in Threads,
             \/ Finish(u) \/ ReturnCurrent(u) \/ ReturnFailed(u) \/ Copy(u) \/ CopyOver(u)
             \/ Unmount
      PROVE  ThreadContent(t)'
  BY <1>t, <1>w, <1>8, <1>9
  DEF Finish, ReturnCurrent, ReturnFailed, Copy, CopyOver, Unmount, TypeOK
<1>10. ASSUME NEW u \in Threads, ReadBound(u) \/ ReadBase(u) PROVE ThreadContent(t)'
  <2>1. CASE pc'[t] = "idle"
    BY <1>8, <2>1
  <2>2. CASE pc'[t] # "idle"
    <3>1. /\ UNCHANGED <<file, cacheLen>>
          /\ \/ pc[t] = "bound" /\ pc'[t] = "length"
             \/ pc[t] = "base" /\ pc'[t] = "copy"
          /\ rd'[t].size = rd[t].size /\ rd'[t].off = rd[t].off /\ rd'[t].n = rd[t].n
      BY <1>t, <1>w, <1>10, <2>2 DEF ReadBound, ReadBase, TypeOK
    <3> QED
      BY <1>t, <3>1 DEF ThreadContent, OpenSteps
  <2> QED
    BY <2>1, <2>2
<1>11. ASSUME NEW u \in Threads, ReadLength(u) PROVE ThreadContent(t)'
  <2> DEFINE m == Remaining(cacheLen[f], rd[t].off)
             n == Served(m, rd[t].size)
  <2>1. /\ UNCHANGED <<file, cacheLen>> /\ pc[t] = "length"
        /\ \/ pc'[t] = "idle"
           \/ pc'[t] = "base" /\ rd' = [rd EXCEPT ![t] = [rd[t] EXCEPT !.n = n]]
    BY <1>t, <1>w, <1>11 DEF ReadLength, TypeOK
  <2>2. m = cacheLen[f] - rd[t].off
    <3>1. rd[t].off <= cacheLen[f] /\ rd[t].off \in Nat
      BY <1>t, <2>1 DEF InProgress, TypeOK
    <3>2. cacheLen[f] \in Nat /\ cacheLen[f] < SizeT
      BY <2>1, ReaderSees DEF ReadSteps
    <3> QED
      BY <3>1, <3>2, RemainingExact
  <2> HIDE DEF m, n
  <2>3. pc'[t] = "base" => /\ rd'[t].n = n /\ rd'[t].off = rd[t].off
                           /\ rd'[t].size = rd[t].size
    BY <1>t, <2>1 DEF TypeOK
  <2>4. pc'[t] = "base" => rd'[t].n = Served(cacheLen'[file'[t]] - rd'[t].off, rd'[t].size)
    BY <2>1, <2>2, <2>3 DEF n
  <2>5. CASE pc'[t] = "base"
    BY <2>4, <2>5 DEF ThreadContent, OpenSteps
  <2> QED
    BY <1>8, <2>1, <2>5
<1>12. ASSUME NEW g \in Files, ServerChange(g) PROVE ThreadContent(t)'
  <2>1. /\ UNCHANGED <<pc, file, req, rd, heap, cached, cacheLen>>
        /\ seen[t] \subseteq seen'[t]
    BY <1>12 DEF ServerChange
  <2>2. pc[t] \in OpenSteps => server'[f] \in seen'[t]
    BY <1>t, <1>12 DEF ServerChange, TypeOK, ThreadContent
  <2>3. /\ pc[t] = "swap" => Comes(req[t].str, seen[t])'
        /\ pc[t] \in {"both", "str"} => Comes(req[t].tmp, seen[t])'
    BY <1>t, <2>1 DEF ThreadContent, Comes, At
  <2> QED
    BY <1>l, <1>t, <2>1, <2>2, <2>3 DEF ThreadContent
<1>13. ASSUME UNCHANGED <<pc, file, req, rd, heap, cached, cacheLen, server, seen>>
       PROVE  ThreadContent(t)'
  <2>1. /\ pc[t] = "swap" => Comes(req[t].str, seen[t])'
        /\ pc[t] \in {"both", "str"} => Comes(req[t].tmp, seen[t])'
    BY <1>t, <1>13 DEF ThreadContent, Comes, At
  <2> QED
    BY <1>l, <1>t, <1>13, <2>1 DEF ThreadContent
<1>14. ASSUME NEW u \in Threads, CheckCrash(u) \/ CopyCrash(u) PROVE ThreadContent(t)'
  BY <1>13, <1>14 DEF CheckCrash, CopyCrash
<1>15. CASE UNCHANGED vars
  BY <1>13, <1>15 DEF vars
<1> QED
  BY <1>1, <1>2, <1>3, <1>4, <1>5, <1>6, <1>7, <1>9, <1>10, <1>11, <1>12, <1>14, <1>15
  DEF Next, OpenStep, ReadStep, Stopped

LEMMA RefinementInvStep ==
  ASSUME OneWorker, RefinementInv, [Next]_vars
  PROVE  RefinementInv'
<1>1. CoherentInv'
  BY MemoryInvStep, CoherentInvStep DEF RefinementInv, CoherentInv
<1>2. BodiesFit'
  BY BodiesFitStep DEF RefinementInv, CoherentInv, ContentInv
<1>3. \A t \in Threads : ThreadContent(t)'
  BY ThreadStep
<1> QED
  BY <1>1, <1>2, <1>3 DEF RefinementInv, ContentInv

(***************************************************************************)
(* The mapping: what CloseToOpen calls view, phase and want.               *)
(***************************************************************************)
MappedView  == [f \in Files |-> View(f)]
MappedPhase == [t \in Threads |-> Phase(t)]
MappedWant  == [t \in Threads |-> [size |-> rd[t].size, off |-> rd[t].off]]

mappedVars == <<status = "serving", server, listed, cached, MappedView, MappedPhase, file,
                MappedWant, seen, result, reply>>

Updated == {"len", "finish"}

LEMMA PhaseIs ==
  ASSUME NEW t \in Threads
  PROVE  /\ pc[t] = "idle" => Phase(t) = "idle"
         /\ pc[t] \in Updated => Phase(t) = "updated"
         /\ pc[t] \in OpenSteps \ Updated => Phase(t) = "opening"
         /\ pc[t] \in ReadSteps => Phase(t) = "reading"
  BY DEF Phase, OpenSteps, ReadSteps, Updated

LEMMA PhaseNext ==
  ASSUME NEW t \in Threads
  PROVE  /\ pc'[t] = "idle" => Phase(t)' = "idle"
         /\ pc'[t] \in Updated => Phase(t)' = "updated"
         /\ pc'[t] \in OpenSteps \ Updated => Phase(t)' = "opening"
         /\ pc'[t] \in ReadSteps => Phase(t)' = "reading"
  BY DEF Phase, OpenSteps, ReadSteps, Updated

(* A move of worker t moves its phase and no other.                        *)
LEMMA PhaseMoves ==
  ASSUME TypeOK, NEW t \in Threads, NEW to, pc' = [pc EXCEPT ![t] = to]
  PROVE  MappedPhase' = [MappedPhase EXCEPT ![t] = Phase(t)']
<1>1. \A u \in Threads \ {t} : pc'[u] = pc[u]
  BY DEF TypeOK
<1>2. \A u \in Threads \ {t} : Phase(u)' = Phase(u)
  BY <1>1 DEF Phase
<1> QED
  BY <1>2 DEF MappedPhase

(* An entry shows what its buffer holds, as long as it keeps the buffer.   *)
LEMMA ViewStays ==
  ASSUME MemoryInv, [Next]_vars, UNCHANGED cacheStr
  PROVE  MappedView' = MappedView
<1>1. ASSUME NEW f \in Files PROVE View(f)' = View(f)
  <2>1. cacheStr[f] \in Ptr /\ cacheStr[f] \in Reachable /\ cacheStr'[f] \in Reachable'
    BY DEF MemoryInv, TypeOK, Reachable
  <2> QED
    BY <2>1, KeptStep DEF Kept, View, Ptr
<1> QED
  BY <1>1 DEF MappedView

(* The end of a read is an Answer, if the bytes are those of CloseToOpen.  *)
LEMMA AnswerMaps ==
  ASSUME MemoryInv, [Next]_vars, NEW t \in Threads, pc[t] \in ReadSteps,
         Goto(t, pc[t], "idle"), rd' = [rd EXCEPT ![t] = NoRead],
         UNCHANGED <<status, server, listed, cached, cacheStr, file, result, seen>>,
         reply' = [reply EXCEPT ![t] =
                     Promise!Bytes(View(file[t]), rd[t].size, rd[t].off)]
  PROVE  Promise!Answer(t)
<1>t. TypeOK /\ file[t] \in Files
  BY DEF MemoryInv, TypeOK
<1>1. MappedView' = MappedView /\ MappedView[file[t]] = View(file[t])
  BY <1>t, ViewStays DEF MappedView
<1>2. MappedPhase' = [MappedPhase EXCEPT ![t] = "idle"] /\ MappedPhase[t] = "reading"
  <2>1. pc' = [pc EXCEPT ![t] = "idle"] /\ pc'[t] = "idle"
    BY <1>t DEF Goto, TypeOK
  <2>2. Phase(t)' = "idle" /\ Phase(t) = "reading"
    BY <2>1, PhaseIs, PhaseNext
  <2> QED
    BY <1>t, <2>1, <2>2, PhaseMoves DEF MappedPhase
<1>3. /\ MappedWant' = [MappedWant EXCEPT ![t] = Promise!Nothing]
      /\ MappedWant[t].size = rd[t].size /\ MappedWant[t].off = rd[t].off
  BY <1>t DEF MappedWant, NoRead, Promise!Nothing, TypeOK
<1>4. status = "serving" /\ status' = "serving"
  BY DEF Goto
<1> QED
  BY <1>1, <1>2, <1>3, <1>4
  DEF Promise!Answer, Promise!Enter, MappedView, MappedPhase, MappedWant

(* A read that finds nothing to copy.                                      *)
LEMMA NoBytesMaps ==
  ASSUME MemoryInv, [Next]_vars, NEW t \in Threads, pc[t] \in ReadSteps,
         Goto(t, pc[t], "idle"), EndOfFile(t),
         UNCHANGED <<status, server, listed, cached, cacheStr, file, result, seen>>,
         rd[t].off >= View(file[t]).len \/ rd[t].size = 0
  PROVE  Promise!Answer(t)
<1>1. Promise!Bytes(View(file[t]), rd[t].size, rd[t].off) = NoReply
  BY DEF Promise!Bytes, Promise!NoBytes, NoReply, NoBody
<1>2. /\ rd' = [rd EXCEPT ![t] = NoRead]
      /\ reply' = [reply EXCEPT ![t] =
                     Promise!Bytes(View(file[t]), rd[t].size, rd[t].off)]
  BY <1>1 DEF EndOfFile
<1> QED
  BY <1>2, AnswerMaps

LEMMA CopyMaps ==
  ASSUME OneWorker, RefinementInv, [Next]_vars, NEW t \in Threads, Copy(t)
  PROVE  Promise!Answer(t)
<1>t. TypeOK /\ MemoryInv /\ InProgress /\ ThreadContent(t)
  BY DEF RefinementInv, CoherentInv, MemoryInv, ContentInv
<1>0. /\ pc[t] = "copy" /\ pc[t] \in ReadSteps /\ Goto(t, "copy", "idle")
      /\ UNCHANGED <<status, server, listed, cached, cacheStr, file, result, seen>>
      /\ rd' = [rd EXCEPT ![t] = NoRead]
      /\ reply' = [reply EXCEPT ![t] = [of |-> heap[rd[t].base].of, off |-> rd[t].off,
                                        n |-> rd[t].n]]
  BY DEF Copy, Goto, entryVars, ReadSteps
<1> DEFINE b == View(file[t])
<1>1. /\ cacheLen[file[t]] = b.len /\ b.len \in Nat
      /\ rd[t].off \in Nat /\ rd[t].size \in Nat /\ rd[t].n \in Nat
  BY <1>t, <1>0, ReaderSees DEF TypeOK
<1>2. /\ rd[t].n = Served(b.len - rd[t].off, rd[t].size) /\ rd[t].n # 0
      /\ rd[t].off + rd[t].n <= b.len
      /\ rd[t].base = cacheStr[file[t]]
  BY <1>t, <1>0, <1>1 DEF ThreadContent, InProgress
<1>3. heap[rd[t].base] = b
  <2>1. rd[t].base # NULL
    BY <1>0, CoherentInBounds DEF RefinementInv, ReadInBounds, InBounds
  <2> QED
    BY <1>2, <2>1 DEF View
<1> HIDE DEF b
<1>4. Promise!Bytes(b, rd[t].size, rd[t].off)
        = [of |-> b.of, off |-> rd[t].off, n |-> rd[t].n]
  BY <1>1, <1>2 DEF Promise!Bytes, Served
<1>5. reply' = [reply EXCEPT ![t] = Promise!Bytes(View(file[t]), rd[t].size, rd[t].off)]
  BY <1>0, <1>3, <1>4 DEF b
<1> QED
  BY <1>t, <1>0, <1>5, AnswerMaps

LEMMA StepMaps ==
  ASSUME OneWorker, RefinementInv, [Next]_vars
  PROVE  [Promise!Next]_mappedVars
<1>t. TypeOK /\ MemoryInv /\ InProgress /\ CoherentInv
  BY DEF RefinementInv, CoherentInv, MemoryInv
<1>c. \A t \in Threads : ThreadContent(t)
  BY DEF RefinementInv, ContentInv
<1>f. \A t \in Threads : file[t] \in Files
  BY <1>t DEF TypeOK
<1>l. listed' = listed
  BY ListedStays
<1>v. cacheStr' = cacheStr => MappedView' = MappedView
  BY <1>t, ViewStays
<1>w. rd' = rd => MappedWant' = MappedWant
  BY DEF MappedWant
<1>p. ASSUME NEW t \in Threads, NEW from, NEW to, Goto(t, from, to)
      PROVE  /\ status = "serving" /\ pc[t] = from /\ pc'[t] = to
             /\ MappedPhase[t] = Phase(t)
             /\ MappedPhase' = [MappedPhase EXCEPT ![t] = Phase(t)']
  <2>1. pc' = [pc EXCEPT ![t] = to]
    BY <1>p DEF Goto
  <2> QED
    BY <1>t, <1>p, <2>1, PhaseMoves DEF Goto, TypeOK, MappedPhase
<1> USE DEF entryVars
(* Steps the user does not see.                                            *)
<1>s. ASSUME NEW t \in Threads, NEW from, NEW to, Goto(t, from, to),
             \/ {from, to} \subseteq OpenSteps \ Updated
             \/ {from, to} \subseteq Updated
             \/ {from, to} \subseteq ReadSteps,
             UNCHANGED <<status, server, cached, cacheStr, file, seen, result, reply,
                         MappedWant>>
      PROVE  UNCHANGED mappedVars
  <2>1. Phase(t)' = Phase(t)
    BY <1>p, <1>s, PhaseIs, PhaseNext
  <2>2. MappedPhase' = MappedPhase
    BY <1>p, <1>s, <2>1 DEF MappedPhase
  <2> QED
    BY <1>l, <1>s, <1>v, <2>2 DEF mappedVars
<1>1. ASSUME NEW t \in Threads, NEW f \in Files, Open(t, f) PROVE Promise!Open(t, f)
  <2>1. PICK to \in OpenSteps \ Updated : Goto(t, "idle", to)
    BY <1>1 DEF Open, OpenSteps, Updated
  <2>2. /\ MappedPhase[t] = "idle"
        /\ MappedPhase' = [MappedPhase EXCEPT ![t] = "opening"]
    BY <1>p, <2>1, PhaseIs, PhaseNext
  <2>3. status = "serving" /\ status' = "serving"
    BY <1>1, <2>1 DEF Open, Goto
  <2> QED
    BY <1>1, <1>v, <1>w, <2>2, <2>3
    DEF Open, Promise!Open, Promise!Enter, MappedPhase, MappedView, MappedWant
<1>2. ASSUME NEW t \in Threads, NEW f \in Files, NEW r \in Requests,
             Read(t, f, r[1], r[2])
      PROVE  Promise!Ask(t, f, r[1], r[2])
  <2>1. Goto(t, "idle", "bound") /\ cached[f]
    BY <1>2 DEF Read
  <2>2. /\ status = "serving" /\ status' = "serving"
        /\ MappedPhase[t] = "idle"
        /\ MappedPhase' = [MappedPhase EXCEPT ![t] = "reading"]
    BY <1>2, <1>p, <2>1, PhaseIs, PhaseNext DEF ReadSteps, Read
  <2>3. MappedWant' = [MappedWant EXCEPT ![t] = [size |-> r[1], off |-> r[2]]]
    BY <1>t, <1>2 DEF Read, MappedWant, TypeOK
  <2> QED
    BY <1>2, <1>v, <2>1, <2>2, <2>3
    DEF Read, Promise!Ask, Promise!Enter, MappedPhase, MappedView, MappedWant
<1>3. ASSUME NEW t \in Threads,
             CheckReply(t) \/ Compare(t) \/ Fetch(t) \/ SwapOut(t) \/ SwapLen(t)
      PROVE  UNCHANGED mappedVars
  <2>1. UNCHANGED <<status, server, cached, cacheStr, file, seen, result, reply, rd>>
    BY <1>3 DEF CheckReply, Compare, Fetch, SwapOut, SwapLen
  <2>2. \E from, to : /\ Goto(t, from, to)
                      /\ \/ {from, to} \subseteq OpenSteps \ Updated
                         \/ {from, to} \subseteq Updated
    BY <1>3 DEF CheckReply, Compare, Fetch, SwapOut, SwapLen, Verdict, OpenSteps, Updated
  <2> QED
    BY <1>s, <1>w, <2>1, <2>2
<1>4. ASSUME NEW t \in Threads, SwapStr(t) PROVE Promise!Update(t)
  <2>1. PICK from \in {"both", "str"}, to \in {"len", "finish"} : Goto(t, from, to)
    BY <1>4 DEF SwapStr
  <2>2. /\ status = "serving" /\ status' = "serving"
        /\ MappedPhase[t] = "opening"
        /\ MappedPhase' = [MappedPhase EXCEPT ![t] = "updated"]
    <3>1. Phase(t) = "opening" /\ Phase(t)' = "updated"
      BY <1>p, <2>1, PhaseIs, PhaseNext DEF OpenSteps, Updated
    <3> QED
      BY <1>4, <1>p, <2>1, <3>1 DEF SwapStr
  <2>3. /\ cacheStr' = [cacheStr EXCEPT ![file[t]] = req[t].tmp]
        /\ UNCHANGED <<heap, file, seen>>
    BY <1>4 DEF SwapStr
  <2>4. PICK v \in seen[t] : At(req[t].tmp) \in Received[v]
    <3>1. Comes(req[t].tmp, seen[t])
      BY <1>c, <1>p, <2>1 DEF ThreadContent
    <3> QED
      BY <3>1 DEF Comes
  <2>5. View(file[t])' = At(req[t].tmp)
    <3>1. cacheStr'[file'[t]] = req[t].tmp
      BY <1>t, <1>f, <2>3 DEF TypeOK
    <3> QED
      BY <2>3, <3>1 DEF View, At
  <2>6. \A g \in Files \ {file[t]} : View(g)' = View(g)
    BY <1>t, <2>3 DEF View, TypeOK
  <2>7. MappedView' = [MappedView EXCEPT ![file[t]] = At(req[t].tmp)]
    BY <1>f, <2>3, <2>5, <2>6 DEF MappedView
  <2> QED
    BY <1>4, <1>w, <2>2, <2>4, <2>7
    DEF SwapStr, Promise!Update, Promise!Enter, MappedPhase, MappedView, MappedWant
<1>e. ASSUME NEW t \in Threads, NEW from \in OpenSteps, NEW r, NEW phase,
             Goto(t, from, "idle"), Return(t, r), Phase(t) = phase,
             UNCHANGED <<status, server, cacheStr, file, rd, reply>>
      PROVE  Promise!Enter(t, phase, "idle") /\ Promise!Ends(t, r)
  <2>1. /\ MappedPhase[t] = phase
        /\ MappedPhase' = [MappedPhase EXCEPT ![t] = "idle"]
        /\ status = "serving" /\ status' = "serving"
    BY <1>e, <1>p, PhaseNext
  <2> QED
    BY <1>e, <1>l, <1>v, <1>w, <2>1
    DEF Return, Promise!Enter, Promise!Ends, MappedPhase, MappedView, MappedWant
<1>5. ASSUME NEW t \in Threads, Finish(t) PROVE Promise!OpenedUpdated(t)
  <2>1. Goto(t, "finish", "idle") /\ Phase(t) = "updated" /\ "finish" \in OpenSteps
    BY <1>5, PhaseIs DEF Finish, Goto, Updated, OpenSteps
  <2> QED
    BY <1>5, <1>e, <2>1 DEF Finish, Promise!OpenedUpdated
<1>6. ASSUME NEW t \in Threads, ReturnCurrent(t) PROVE Promise!OpenedUnchanged(t)
  <2>1. /\ Goto(t, "current", "idle") /\ pc[t] = "current"
        /\ Phase(t) = "opening" /\ "current" \in OpenSteps
    BY <1>6, PhaseIs DEF ReturnCurrent, Goto, Updated, OpenSteps
  <2>2. cached[file[t]] /\ (file[t] \in HasMd5 => listed[file[t]] \in seen[t])
    BY <1>c, <2>1 DEF ThreadContent
  <2> QED
    BY <1>6, <1>e, <2>1, <2>2 DEF ReturnCurrent, Promise!OpenedUnchanged
<1>a. ASSUME NEW t \in Threads, status = "serving", pc[t] \in {"check", "failed"}
      PROVE  Promise!Asking(t)
  <2>1. Phase(t) = "opening"
    BY <1>a, PhaseIs DEF OpenSteps, Updated
  <2> QED
    BY <1>a, <1>c, <2>1 DEF ThreadContent, Promise!Asking
<1>7. ASSUME NEW t \in Threads, ReturnFailed(t) PROVE Promise!Refused(t)
  <2>1. /\ Goto(t, "failed", "idle") /\ pc[t] = "failed" /\ status = "serving"
        /\ Phase(t) = "opening" /\ "failed" \in OpenSteps
    BY <1>7, PhaseIs DEF ReturnFailed, Goto, Updated, OpenSteps
  <2> QED
    BY <1>7, <1>a, <1>e, <2>1 DEF ReturnFailed, Promise!Refused
<1>8. ASSUME NEW t \in Threads, CheckCrash(t) PROVE Promise!Die(t)
  <2>1. /\ status = "serving" /\ status' # "serving" /\ pc[t] = "check"
        /\ UNCHANGED <<server, listed, cached, cacheStr, pc, file, rd, seen, result, reply>>
    BY <1>8 DEF CheckCrash
  <2>2. MappedPhase' = MappedPhase
    BY <2>1 DEF MappedPhase, Phase
  <2>3. Promise!Asking(t)
    BY <1>a, <2>1
  <2> QED
    BY <1>v, <1>w, <2>1, <2>2, <2>3
    DEF Promise!Die, MappedPhase, MappedView, MappedWant
<1>9. ASSUME NEW t \in Threads, ReadBase(t) PROVE UNCHANGED mappedVars
  <2>1. /\ Goto(t, "base", "copy")
        /\ UNCHANGED <<status, server, cached, cacheStr, file, seen, result, reply>>
    BY <1>9 DEF ReadBase
  <2>2. \A u \in Threads : rd'[u].size = rd[u].size /\ rd'[u].off = rd[u].off
    BY <1>t, <1>9 DEF ReadBase, TypeOK
  <2>3. MappedWant' = MappedWant
    BY <2>2 DEF MappedWant
  <2> QED
    BY <1>s, <2>1, <2>3 DEF ReadSteps
<1>10. ASSUME NEW t \in Threads, ReadBound(t)
       PROVE  Promise!Answer(t) \/ UNCHANGED mappedVars
  <2>1. /\ pc[t] = "bound" /\ pc[t] \in ReadSteps
        /\ UNCHANGED <<status, server, listed, cached, cacheStr, file, result, seen>>
    BY <1>10 DEF ReadBound, Goto, ReadSteps
  <2>2. cacheLen[file[t]] = View(file[t]).len
        /\ cacheLen[file[t]] \in Nat /\ rd[t].off \in Nat
    BY <1>t, <2>1, ReaderSees DEF TypeOK
  <2>3. CASE cacheLen[file[t]] < rd[t].off /\ Goto(t, "bound", "idle") /\ EndOfFile(t)
    BY <1>t, <2>1, <2>2, <2>3, NoBytesMaps
  <2>4. CASE Goto(t, "bound", "length") /\ UNCHANGED <<rd, reply>>
    BY <1>s, <1>w, <2>1, <2>4 DEF ReadSteps
  <2> QED
    BY <1>10, <2>3, <2>4 DEF ReadBound
<1>11. ASSUME NEW t \in Threads, ReadLength(t)
       PROVE  Promise!Answer(t) \/ UNCHANGED mappedVars
  <2> DEFINE m == Remaining(cacheLen[file[t]], rd[t].off)
             n == Served(m, rd[t].size)
  <2>1. /\ pc[t] = "length" /\ pc[t] \in ReadSteps
        /\ UNCHANGED <<status, server, listed, cached, cacheStr, file, result, seen>>
    BY <1>11 DEF ReadLength, Goto, ReadSteps
  <2>2. /\ cacheLen[file[t]] = View(file[t]).len
        /\ cacheLen[file[t]] \in Nat /\ cacheLen[file[t]] < SizeT
        /\ rd[t].off \in Nat /\ rd[t].size \in Nat
    BY <1>t, <2>1, ReaderSees DEF TypeOK
  <2>3. m = cacheLen[file[t]] - rd[t].off
    <3>1. rd[t].off <= cacheLen[file[t]]
      BY <1>t, <2>1 DEF InProgress
    <3> QED
      BY <2>2, <3>1, RemainingExact
  <2>4. n = 0 => rd[t].off >= View(file[t]).len \/ rd[t].size = 0
    BY <2>2, <2>3 DEF Served
  <2>5. \/ n = 0 /\ Goto(t, "length", "idle") /\ EndOfFile(t)
        \/ /\ n # 0 /\ Goto(t, "length", "base") /\ UNCHANGED reply
           /\ rd' = [rd EXCEPT ![t] = [rd[t] EXCEPT !.n = n]]
    BY <1>11, Zenon DEF ReadLength
  <2> HIDE DEF n
  <2>6. CASE n = 0 /\ Goto(t, "length", "idle") /\ EndOfFile(t)
    BY <1>t, <2>1, <2>4, <2>6, NoBytesMaps
  <2>7. CASE /\ Goto(t, "length", "base") /\ UNCHANGED reply
             /\ rd' = [rd EXCEPT ![t] = [rd[t] EXCEPT !.n = n]]
    <3>1. \A u \in Threads : rd'[u].size = rd[u].size /\ rd'[u].off = rd[u].off
      BY <1>t, <2>7 DEF TypeOK
    <3>2. MappedWant' = MappedWant
      BY <3>1 DEF MappedWant
    <3> QED
      BY <1>s, <2>1, <2>7, <3>2 DEF ReadSteps
  <2> QED
    BY <2>5, <2>6, <2>7
<1>12. \A t \in Threads : ~CopyCrash(t) /\ ~CopyOver(t)
  BY <1>t, CoherentInBounds DEF CopyCrash, CopyOver, Goto, ReadInBounds
<1>13. ASSUME NEW f \in Files, ServerChange(f) PROVE Promise!ServerChange(f)
  <2>1. /\ status = "serving" /\ status' = "serving"
        /\ UNCHANGED <<listed, cached, cacheStr, pc, file, rd, result, reply>>
    BY <1>13 DEF ServerChange
  <2>2. PICK v \in Version :
          /\ server' = [server EXCEPT ![f] = v]
          /\ seen' = [t \in Threads |-> IF pc[t] \in OpenSteps /\ file[t] = f
                                        THEN seen[t] \cup {v} ELSE seen[t]]
    BY <1>13 DEF ServerChange
  <2>3. \A t \in Threads : MappedPhase[t] \in {"opening", "updated"} <=> pc[t] \in OpenSteps
    BY <1>t, PhaseIs DEF MappedPhase, TypeOK, OpenSteps, ReadSteps
  <2>4. MappedPhase' = MappedPhase
    BY <2>1 DEF MappedPhase, Phase
  <2>5. seen' = [t \in Threads |->
                   IF MappedPhase[t] \in {"opening", "updated"} /\ file[t] = f
                   THEN seen[t] \cup {v} ELSE seen[t]]
    BY <2>2, <2>3
  <2> QED
    BY <1>v, <1>w, <2>1, <2>2, <2>4, <2>5
    DEF Promise!ServerChange, MappedPhase, MappedView, MappedWant
<1>14. ASSUME Unmount PROVE Promise!Unmount
  <2>1. /\ status = "serving" /\ status' # "serving"
        /\ UNCHANGED <<server, listed, cached, pc, file, rd, result, reply, seen>>
        /\ \A t \in Threads : pc[t] = "idle"
    BY <1>14 DEF Unmount
  <2>2. \A t \in Threads : MappedPhase[t] = "idle"
    BY <2>1, PhaseIs DEF MappedPhase
  <2>3. MappedPhase' = MappedPhase
    BY <2>1 DEF MappedPhase, Phase
  <2>4. MappedView' = [f \in Files |-> NoBody]
    BY <1>14 DEF Unmount, MappedView, View
  <2> QED
    BY <1>w, <2>1, <2>2, <2>3, <2>4 DEF Promise!Unmount, MappedPhase, MappedView, MappedWant
<1>15. ASSUME UNCHANGED vars PROVE UNCHANGED mappedVars
  BY <1>15 DEF vars, mappedVars, MappedView, MappedPhase, MappedWant, View, Phase
<1>16. ASSUME NEW t \in Threads, OpenStep(t) \/ ReadStep(t)
       PROVE  [Promise!Next]_mappedVars
  BY <1>3, <1>4, <1>5, <1>6, <1>7, <1>8, <1>9, <1>10, <1>11, <1>12, <1>16, CopyMaps
  DEF OpenStep, ReadStep, Promise!Next
<1> QED
  BY <1>1, <1>2, <1>13, <1>14, <1>15, <1>16 DEF Next, Stopped, Promise!Next

(* With one worker, what gd_open and gd_read do is what a user is          *)
(* promised, whatever the server does, however it answers, and for any     *)
(* number of files, contents and requests.                                 *)
THEOREM CacheImplementsCloseToOpen ==
  ASSUME OneWorker PROVE Spec => ImplementsCloseToOpen
<1>1. Init => Promise!Init
  <2>1. Init => /\ MappedView = [f \in Files |-> NoBody]
                /\ MappedPhase = [t \in Threads |-> "idle"]
                /\ MappedWant = [t \in Threads |-> Promise!Nothing]
    BY PhaseIs DEF Init, MappedView, MappedPhase, MappedWant, View, NoRead, Promise!Nothing
  <2> QED
    BY <2>1 DEF Init, Promise!Init, Promise!NoBytes, NoReply, NoBody, MappedView,
                MappedPhase, MappedWant
<1>2. Init => RefinementInv
  BY CoherentInvInit, ContentInit DEF RefinementInv
<1>3. RefinementInv /\ [Next]_vars => RefinementInv'
  BY RefinementInvStep
<1>4. RefinementInv /\ [Next]_vars => [Promise!Next]_mappedVars
  BY StepMaps
<1> QED
  BY <1>1, <1>2, <1>3, <1>4, PTL
  DEF Spec, ImplementsCloseToOpen, Promise!Spec, Promise!vars, mappedVars,
      MappedView, MappedPhase, MappedWant
=============================================================================
