-------------------------- MODULE FileCacheProofs --------------------------
(***************************************************************************)
(* Theorems about FileCache, for any workers, files, buffers, contents,    *)
(* answers of the server and requests of the kernel.                       *)
(***************************************************************************)
EXTENDS FileCache, TLAPS

LEMMA LengthsType ==
  /\ \A v \in Version : Length[v] \in Nat /\ Length[v] < SizeT
  /\ ErrorLength \in Nat /\ ErrorLength < SizeT
  /\ SizeT \in Nat /\ 1 < SizeT
BY FileCacheAssumption

(* What a download leaves: no body, or one whose length a size_t holds.    *)
LEMMA ReceivedType ==
  ASSUME NEW v \in Version, NEW d \in Received[v], d # NoBody
  PROVE  d \in Body /\ d.len < SizeT
<1>1. \/ d = Arrived(v, Length[v])
      \/ \E n \in 0..(Length[v] - 1) : d = Arrived(v, n)
      \/ d = Arrived(ErrorPage, ErrorLength)
  BY DEF Received
<1>2. PICK w \in Version \cup {ErrorPage}, n \in Nat : n < SizeT /\ d = Arrived(w, n)
  BY <1>1, LengthsType
<1>3. d = [of |-> w, len |-> n]
  BY <1>2 DEF Arrived
<1> QED
  BY <1>2, <1>3 DEF Body

LEMMA CheckAnswersType ==
  ASSUME NEW f \in Files, server \in [Files -> Version]
  PROVE  CheckAnswers(f) \subseteq Version \cup {ErrorPage}
BY DEF CheckAnswers

LEMMA RemainingType == ASSUME NEW len \in Nat, NEW off \in Nat
                       PROVE  Remaining(len, off) \in Nat
BY FileCacheAssumption, SMTT(30) DEF Remaining

LEMMA ServedType == ASSUME NEW m \in Nat, NEW n \in Nat
                    PROVE  Served(m, n) \in Nat /\ Served(m, n) <= n
BY DEF Served

LEMMA BodyType == ASSUME NEW d \in Body PROVE d.len \in Nat
BY DEF Body

LEMMA ConstantTypes ==
  /\ NoBody \in Body \cup {NoBody}
  /\ NoReq \in [str : Ptr, len : Nat, tmp : Ptr]
  /\ NoRead \in [size : Nat, off : Nat, n : Nat, base : Ptr]
  /\ NoRead.n <= NoRead.size
  /\ NoReply \in [of : Version \cup {ErrorPage, NULL}, off : Nat, n : Nat]
BY DEF NoReq, NoRead, NoReply, Ptr

(***************************************************************************)
(* Type correctness.                                                       *)
(***************************************************************************)
LEMMA TypeOKInit == Init => TypeOK
<1> SUFFICES ASSUME Init PROVE TypeOK
  OBVIOUS
<1>1. \A t \in Threads : rd[t].n <= rd[t].size
  <2>1. ASSUME NEW t \in Threads PROVE rd[t] = NoRead
    BY DEF Init
  <2> QED
    BY <2>1, ConstantTypes
<1> QED
  BY <1>1, ConstantTypes DEF Init, TypeOK, Ptr

LEMMA EndOfFileType ==
  ASSUME TypeOK, NEW t \in Threads, EndOfFile(t)
  PROVE  /\ rd' \in [Threads -> [size : Nat, off : Nat, n : Nat, base : Ptr]]
         /\ \A u \in Threads : rd'[u].n <= rd'[u].size
         /\ reply' \in [Threads -> [of : Version \cup {ErrorPage, NULL}, off : Nat, n : Nat]]
<1>1. rd' = [rd EXCEPT ![t] = NoRead] /\ reply' = [reply EXCEPT ![t] = NoReply]
  BY DEF EndOfFile
<1>2. \A u \in Threads : rd'[u] = NoRead \/ rd'[u] = rd[u]
  BY <1>1 DEF TypeOK
<1> QED
  BY <1>1, <1>2, ConstantTypes DEF TypeOK, Ptr

LEMMA TypeOKStep == TypeOK /\ [Next]_vars => TypeOK'
<1> SUFFICES ASSUME TypeOK, [Next]_vars PROVE TypeOK'
  OBVIOUS
<1> USE ConstantTypes
    DEF TypeOK, Ptr, OpenSteps, ReadSteps, entryVars, Goto, Return
<1>1. ASSUME NEW t \in Threads, NEW f \in Files, Open(t, f) PROVE TypeOK'
  BY <1>1 DEF Open
<1>2. ASSUME NEW t \in Threads, NEW f \in Files, NEW r \in Requests,
             Read(t, f, r[1], r[2])
      PROVE  TypeOK'
  <2>1. r[1] \in Nat /\ r[2] \in Nat
    BY FileCacheAssumption
  <2> QED
    BY <1>2, <2>1 DEF Read
<1>3. ASSUME NEW t \in Threads, CheckReply(t) PROVE TypeOK'
  <2>1. PICK v \in CheckAnswers(file[t]), b \in Buf :
          /\ heap' = [heap EXCEPT ![b] = [of |-> v, len |-> 1]]
          /\ req' = [req EXCEPT ![t] = [str |-> b, len |-> 1, tmp |-> NULL]]
    BY <1>3 DEF CheckReply, Fresh
  <2>2. [of |-> v, len |-> 1] \in Body
    BY CheckAnswersType DEF Body
  <2>3. [str |-> b, len |-> 1, tmp |-> NULL] \in [str : Ptr, len : Nat, tmp : Ptr]
    OBVIOUS
  <2>4. /\ heap' \in [Buf -> Body \cup {NoBody}]
        /\ req' \in [Threads -> [str : Ptr, len : Nat, tmp : Ptr]]
    BY <2>1, <2>2, <2>3
  <2> QED
    BY <1>3, <2>4 DEF CheckReply
<1>4. ASSUME NEW t \in Threads, Compare(t) PROVE TypeOK'
  <2>1. Verdict(file[t], heap[req[t].str].of) \in {"failed", "current", "fetch"}
    BY DEF Verdict
  <2> QED
    BY <1>4, <2>1 DEF Compare, Leak
<1>5. ASSUME NEW t \in Threads, CheckCrash(t) PROVE TypeOK'
  BY <1>5 DEF CheckCrash
<1>6. ASSUME NEW t \in Threads, Fetch(t) PROVE TypeOK'
  <2>1. PICK d \in Received[server[file[t]]] :
          \/ /\ d = NoBody
             /\ req' = [req EXCEPT ![t] = NoReq]
             /\ UNCHANGED heap
          \/ /\ d # NoBody
             /\ \E b \in Fresh :
                  /\ heap' = [heap EXCEPT ![b] = d]
                  /\ req' = [req EXCEPT ![t] = [str |-> b, len |-> d.len, tmp |-> NULL]]
    BY <1>6 DEF Fetch
  <2>2. CASE heap' = heap /\ req' = [req EXCEPT ![t] = NoReq]
    BY <1>6, <2>2 DEF Fetch
  <2>3. ASSUME NEW b \in Buf, d # NoBody, heap' = [heap EXCEPT ![b] = d],
               req' = [req EXCEPT ![t] = [str |-> b, len |-> d.len, tmp |-> NULL]]
        PROVE  TypeOK'
    <3>1. d \in Body /\ d.len \in Nat
      BY <2>3, ReceivedType, BodyType
    <3>2. [str |-> b, len |-> d.len, tmp |-> NULL] \in [str : Ptr, len : Nat, tmp : Ptr]
      BY <3>1
    <3>3. /\ heap' \in [Buf -> Body \cup {NoBody}]
          /\ req' \in [Threads -> [str : Ptr, len : Nat, tmp : Ptr]]
      BY <2>3, <3>1, <3>2
    <3> QED
      BY <1>6, <3>3 DEF Fetch
  <2> QED
    BY <2>1, <2>2, <2>3 DEF Fresh
<1>7. ASSUME NEW t \in Threads, SwapOut(t) PROVE TypeOK'
  BY <1>7 DEF SwapOut
<1>8. ASSUME NEW t \in Threads, SwapStr(t) PROVE TypeOK'
  BY <1>8 DEF SwapStr
<1>9. ASSUME NEW t \in Threads, SwapLen(t) PROVE TypeOK'
  <2>1. req[t].len \in Nat /\ file[t] \in Files
    OBVIOUS
  <2>2. cacheLen' \in [Files -> Nat]
    BY <1>9, <2>1 DEF SwapLen
  <2> QED
    BY <1>9, <2>2 DEF SwapLen
<1>10. ASSUME NEW t \in Threads, Finish(t) PROVE TypeOK'
  BY <1>10 DEF Finish, Leak
<1>11. ASSUME NEW t \in Threads, ReturnCurrent(t) PROVE TypeOK'
  BY <1>11 DEF ReturnCurrent
<1>12. ASSUME NEW t \in Threads, ReturnFailed(t) PROVE TypeOK'
  BY <1>12 DEF ReturnFailed
<1>13. ASSUME NEW t \in Threads, ReadBound(t) PROVE TypeOK'
  <2>1. CASE cacheLen[file[t]] < rd[t].off
    BY <1>13, <2>1, EndOfFileType DEF ReadBound
  <2>2. CASE ~(cacheLen[file[t]] < rd[t].off)
    BY <1>13, <2>2 DEF ReadBound
  <2> QED
    BY <2>1, <2>2
<1>14. ASSUME NEW t \in Threads, ReadLength(t) PROVE TypeOK'
  <2> DEFINE m == Remaining(cacheLen[file[t]], rd[t].off)
             n == Served(m, rd[t].size)
  <2>1. m \in Nat /\ n \in Nat /\ n <= rd[t].size
    BY RemainingType, ServedType
  <2>2. ASSUME n = 0 PROVE TypeOK'
    BY <1>14, <2>2, EndOfFileType DEF ReadLength
  <2>3. ASSUME n # 0 PROVE TypeOK'
    <3>1. rd' = [rd EXCEPT ![t] = [rd[t] EXCEPT !.n = n]]
      BY <1>14, <2>3, Zenon DEF ReadLength
    <3>2. [rd[t] EXCEPT !.n = n] \in [size : Nat, off : Nat, n : Nat, base : Ptr]
      BY <2>1
    <3>3. rd' \in [Threads -> [size : Nat, off : Nat, n : Nat, base : Ptr]]
      BY <3>1, <3>2
    <3>4. \A u \in Threads : rd'[u].n <= rd'[u].size
      <4>1. ASSUME NEW u \in Threads, u # t PROVE rd'[u] = rd[u]
        BY <3>1, <4>1
      <4>2. rd'[t] = [rd[t] EXCEPT !.n = n]
        BY <3>1
      <4>3. rd'[t].n = n /\ rd'[t].size = rd[t].size
        BY <4>2
      <4> QED
        BY <4>1, <4>3, <2>1
    <3> QED
      BY <1>14, <2>3, <3>3, <3>4 DEF ReadLength
  <2> QED
    BY <2>2, <2>3
<1>15. ASSUME NEW t \in Threads, ReadBase(t) PROVE TypeOK'
  <2>1. rd' = [rd EXCEPT ![t] = [rd[t] EXCEPT !.base = cacheStr[file[t]]]]
    BY <1>15 DEF ReadBase
  <2>2. cacheStr[file[t]] \in Ptr /\ rd[t] \in [size : Nat, off : Nat, n : Nat, base : Ptr]
    OBVIOUS
  <2>3. [rd[t] EXCEPT !.base = cacheStr[file[t]]] \in [size : Nat, off : Nat, n : Nat, base : Ptr]
    BY <2>2
  <2>4. rd' \in [Threads -> [size : Nat, off : Nat, n : Nat, base : Ptr]]
    BY <2>1, <2>3
  <2>5. ASSUME NEW u \in Threads PROVE rd'[u].n = rd[u].n /\ rd'[u].size = rd[u].size
    BY <2>1
  <2>6. \A u \in Threads : rd'[u].n <= rd'[u].size
    BY <2>5
  <2> QED
    BY <1>15, <2>4, <2>6 DEF ReadBase
<1>16. ASSUME NEW t \in Threads, Copy(t) PROVE TypeOK'
  BY <1>16 DEF Copy, Leak, InBounds, Body
<1>17. ASSUME NEW t \in Threads, CopyCrash(t) PROVE TypeOK'
  BY <1>17 DEF CopyCrash
<1>18. ASSUME NEW t \in Threads, CopyOver(t) PROVE TypeOK'
  BY <1>18 DEF CopyOver, Leak
<1>19. ASSUME NEW f \in Files, ServerChange(f) PROVE TypeOK'
  BY <1>19 DEF ServerChange
<1>20. CASE Unmount
  BY <1>20 DEF Unmount
<1>21. CASE UNCHANGED vars
  BY <1>21 DEF vars
<1> QED
  BY <1>1, <1>2, <1>3, <1>4, <1>5, <1>6, <1>7, <1>8, <1>9, <1>10, <1>11, <1>12,
     <1>13, <1>14, <1>15, <1>16, <1>17, <1>18, <1>19, <1>20, <1>21
  DEF Next, OpenStep, ReadStep, Stopped

(* Every variable always has its type, and a read never promises more      *)
(* bytes than the kernel asked for.                                        *)
THEOREM TypeCorrect == Spec => []TypeOK
BY TypeOKInit, TypeOKStep, PTL DEF Spec

(***************************************************************************)
(* Memory safety for any number of workers.  The invariant needs that a    *)
(* worker drops its pointers when it is done with them, and that what is   *)
(* unpublished is among what the worker holds.                             *)
(***************************************************************************)
Dropped ==
  \A t \in Threads :
    /\ pc[t] \in {"compare", "swap", "both", "len", "str", "finish"} \/ req[t] = NoReq
    /\ pc[t] = "copy" \/ rd[t].base = NULL

MemoryInv == TypeOK /\ Dropped /\ NoDangling /\ Ownership

LEMMA MemoryInvInit == Init => MemoryInv
<1> SUFFICES ASSUME Init PROVE MemoryInv
  OBVIOUS
<1>1. TypeOK
  BY TypeOKInit
<1>2. \A t \in Threads : pc[t] = "idle" /\ req[t] = NoReq /\ rd[t] = NoRead
  BY DEF Init
<1>3. NoReq.str = NULL /\ NoReq.tmp = NULL /\ NoRead.base = NULL
  BY DEF NoReq, NoRead
<1>4. Dropped
  BY <1>2, <1>3 DEF Dropped
<1>5. NoDangling
  BY <1>2, <1>3 DEF NoDangling, Reachable, Init
<1>6. Ownership
  BY <1>2 DEF Ownership, Unpublished, Init
<1> QED
  BY <1>1, <1>4, <1>5, <1>6 DEF MemoryInv

LEMMA DroppedStep == TypeOK /\ Dropped /\ [Next]_vars => Dropped'
<1> SUFFICES ASSUME TypeOK, Dropped, [Next]_vars PROVE Dropped'
  OBVIOUS
<1>0. NoRead.base = NULL
  BY DEF NoRead
<1> USE <1>0 DEF TypeOK, Dropped, entryVars, Goto, Return
<1>1. ASSUME NEW t \in Threads, NEW f \in Files, Open(t, f) PROVE Dropped'
  BY <1>1 DEF Open
<1>2. ASSUME NEW t \in Threads, NEW f \in Files, NEW r \in Requests,
             Read(t, f, r[1], r[2])
      PROVE  Dropped'
  BY <1>2 DEF Read
<1>3. ASSUME NEW t \in Threads, CheckReply(t) \/ Compare(t) PROVE Dropped'
  BY <1>3 DEF CheckReply, Compare
<1>4. ASSUME NEW t \in Threads, CheckCrash(t) \/ ReturnCurrent(t) \/ ReturnFailed(t)
      PROVE  Dropped'
  BY <1>4 DEF CheckCrash, ReturnCurrent, ReturnFailed
<1>5. ASSUME NEW t \in Threads, Fetch(t) PROVE Dropped'
  BY <1>5 DEF Fetch
<1>6. ASSUME NEW t \in Threads, SwapOut(t) PROVE Dropped'
  BY <1>6 DEF SwapOut
<1>7. ASSUME NEW t \in Threads, SwapStr(t) \/ SwapLen(t) PROVE Dropped'
  BY <1>7 DEF SwapStr, SwapLen
<1>8. ASSUME NEW t \in Threads, Finish(t) PROVE Dropped'
  BY <1>8 DEF Finish
<1>9. ASSUME NEW t \in Threads, ReadBound(t) PROVE Dropped'
  BY <1>9 DEF ReadBound, EndOfFile
<1>10. ASSUME NEW t \in Threads, ReadLength(t) PROVE Dropped'
  <2>1. rd' = [rd EXCEPT ![t] = NoRead] \/ \E n : rd' = [rd EXCEPT ![t] = [rd[t] EXCEPT !.n = n]]
    BY <1>10 DEF ReadLength, EndOfFile
  <2>2. rd'[t].base = NULL /\ \A v \in Threads \ {t} : rd'[v] = rd[v]
    BY <1>10, <2>1 DEF ReadLength
  <2> QED
    BY <1>10, <2>2 DEF ReadLength
<1>11. ASSUME NEW t \in Threads, ReadBase(t) PROVE Dropped'
  BY <1>11 DEF ReadBase
<1>12. ASSUME NEW t \in Threads, Copy(t) \/ CopyCrash(t) \/ CopyOver(t) PROVE Dropped'
  BY <1>12 DEF Copy, CopyCrash, CopyOver
<1>13. ASSUME NEW f \in Files, ServerChange(f) PROVE Dropped'
  BY <1>13 DEF ServerChange
<1>14. CASE Unmount \/ UNCHANGED vars
  BY <1>14 DEF Unmount, vars
<1> QED
  BY <1>1, <1>2, <1>3, <1>4, <1>5, <1>6, <1>7, <1>8, <1>9, <1>10, <1>11, <1>12,
     <1>13, <1>14
  DEF Next, OpenStep, ReadStep, Stopped

LEMMA ReachableType == TypeOK => Reachable \subseteq Ptr
BY DEF TypeOK, Reachable, Ptr

(* What every step does that brings no body: it only forgets pointers, and *)
(* the buffers still pointed to keep their content.                        *)
Forgets ==
  /\ Reachable' \subseteq Reachable \cup {NULL}
  /\ \A b \in Buf \cap Reachable' : heap'[b] = heap[b]

LEMMA ForgetsOrFetches ==
  ASSUME MemoryInv, [Next]_vars
  PROVE  Forgets \/ \E t \in Threads : CheckReply(t) \/ Fetch(t)
<1> USE DEF MemoryInv, Forgets, entryVars, Goto, Return
<1>a. NoRead.base = NULL /\ NoReq.str = NULL /\ NoReq.tmp = NULL
  BY DEF NoRead, NoReq
<1>b. ASSUME NEW t \in Threads, rd' = [rd EXCEPT ![t] = NoRead]
      PROVE  \A u \in Threads : rd'[u].base \in Reachable \cup {NULL}
  <2>1. \A u \in Threads : rd'[u] = NoRead \/ rd'[u] = rd[u]
    BY <1>b DEF TypeOK
  <2> QED
    BY <1>a, <2>1 DEF Reachable
<1>c. ASSUME UNCHANGED <<cacheStr, req>>,
             \A t \in Threads : rd'[t].base \in Reachable \cup {NULL}
      PROVE  Reachable' \subseteq Reachable \cup {NULL}
  BY <1>c DEF Reachable
<1>1. ASSUME UNCHANGED <<cacheStr, req, heap>>,
             \A t \in Threads : rd'[t].base \in Reachable \cup {NULL}
      PROVE  Forgets
  BY <1>1, <1>c
<1>2. ASSUME UNCHANGED <<cacheStr, req, rd, heap>> PROVE Forgets
  BY <1>2 DEF Reachable
<1>3. ASSUME NEW t \in Threads, NEW f \in Files, Open(t, f) PROVE Forgets
  BY <1>2, <1>3 DEF Open
<1>4. ASSUME NEW t \in Threads, NEW f \in Files, NEW r \in Requests,
             Read(t, f, r[1], r[2])
      PROVE  Forgets
  <2>1. \A u \in Threads : rd'[u].base \in Reachable \cup {NULL}
    BY <1>4 DEF Read, Reachable, TypeOK
  <2> QED
    BY <1>1, <1>4, <2>1 DEF Read
<1>5. ASSUME NEW t \in Threads,
             \/ CheckCrash(t) \/ CopyCrash(t) \/ SwapLen(t)
             \/ ReturnCurrent(t) \/ ReturnFailed(t)
      PROVE  Forgets
  BY <1>2, <1>5 DEF CheckCrash, CopyCrash, SwapLen, ReturnCurrent, ReturnFailed
<1>6. ASSUME NEW t \in Threads, SwapOut(t) PROVE Forgets
  BY <1>6 DEF SwapOut, Reachable, TypeOK
<1>7. ASSUME NEW t \in Threads, SwapStr(t) PROVE Forgets
  BY <1>7 DEF SwapStr, Reachable, TypeOK
<1>8. ASSUME NEW t \in Threads, Finish(t) \/ Compare(t) PROVE Forgets
  <2>0. UNCHANGED <<cacheStr, rd>> /\ req' = [req EXCEPT ![t] = NoReq]
    BY <1>8 DEF Finish, Compare
  <2>1. Reachable' \subseteq Reachable \cup {NULL}
    <3>1. \A u \in Threads : req'[u] = NoReq \/ req'[u] = req[u]
      BY <2>0 DEF TypeOK
    <3>2. \A u \in Threads : /\ req'[u].str \in {req[u].str, NULL}
                             /\ req'[u].tmp \in {req[u].tmp, NULL}
      BY <1>a, <3>1
    <3> QED
      BY <2>0, <3>2 DEF Reachable
  <2> QED
    BY <1>8, <2>1 DEF Finish, Compare, Leak
<1>9. ASSUME NEW t \in Threads, ReadBound(t) \/ ReadLength(t) PROVE Forgets
  <2>1. UNCHANGED <<cacheStr, req, heap>>
    BY <1>9 DEF ReadBound, ReadLength
  <2>2. \/ rd' = [rd EXCEPT ![t] = NoRead]
        \/ rd' = rd
        \/ \E n : rd' = [rd EXCEPT ![t] = [rd[t] EXCEPT !.n = n]]
    BY <1>9 DEF ReadBound, ReadLength, EndOfFile
  <2>3. ASSUME NEW n, rd' = [rd EXCEPT ![t] = [rd[t] EXCEPT !.n = n]], NEW u \in Threads
        PROVE  rd'[u].base = rd[u].base
    BY <2>3 DEF TypeOK
  <2>4. \A u \in Threads : rd'[u].base \in Reachable \cup {NULL}
    BY <2>2, <2>3, <1>b DEF Reachable
  <2> QED
    BY <1>1, <2>1, <2>4
<1>10. ASSUME NEW t \in Threads, ReadBase(t) PROVE Forgets
  <2>1. \A u \in Threads : rd'[u].base \in Reachable \cup {NULL}
    BY <1>10 DEF ReadBase, Reachable, TypeOK
  <2> QED
    BY <1>1, <1>10, <2>1 DEF ReadBase
<1>11. ASSUME NEW t \in Threads, Copy(t) \/ CopyOver(t) PROVE Forgets
  <2>1. Reachable' \subseteq Reachable \cup {NULL}
    BY <1>11, <1>b, <1>c DEF Copy, CopyOver
  <2> QED
    BY <1>11, <2>1 DEF Copy, CopyOver, Leak
<1>12. ASSUME NEW f \in Files, ServerChange(f) PROVE Forgets
  BY <1>2, <1>12 DEF ServerChange
<1>13. CASE Unmount
  <2>1. \A t \in Threads : req[t] = NoReq /\ rd[t].base = NULL
    BY <1>13 DEF Unmount, Dropped
  <2>2. Reachable' \subseteq {NULL}
    BY <1>13, <2>1, <1>a DEF Unmount, Reachable
  <2> QED
    BY <2>2, FileCacheAssumption
<1>14. CASE UNCHANGED vars
  BY <1>2, <1>14 DEF vars
<1> QED
  BY <1>3, <1>4, <1>5, <1>6, <1>7, <1>8, <1>9, <1>10, <1>11, <1>12, <1>13, <1>14
  DEF Next, OpenStep, ReadStep, Stopped

(* Bytes that arrive go into a buffer nobody points to.                    *)
Arrives(t) ==
  /\ UNCHANGED <<cacheStr, rd, file>>
  /\ \/ heap' = heap /\ req' = [req EXCEPT ![t] = NoReq]
     \/ \E b \in Buf, d \in Body :
          /\ b \notin Reachable
          /\ heap' = [heap EXCEPT ![b] = d]
          /\ req' = [req EXCEPT ![t] = [str |-> b, len |-> d.len, tmp |-> NULL]]

LEMMA FetchTakesFresh ==
  ASSUME MemoryInv, NEW t \in Threads, Fetch(t)
  PROVE  Arrives(t) /\ pc[t] = "fetch" /\ pc' = [pc EXCEPT ![t] = "swap"]
<1>1. PICK d \in Received[server[file[t]]] :
        \/ /\ d = NoBody
           /\ req' = [req EXCEPT ![t] = NoReq]
           /\ UNCHANGED heap
        \/ /\ d # NoBody
           /\ \E b \in Fresh :
                /\ heap' = [heap EXCEPT ![b] = d]
                /\ req' = [req EXCEPT ![t] = [str |-> b, len |-> d.len, tmp |-> NULL]]
  BY DEF Fetch
<1>2. d # NoBody => d \in Body
  BY ReceivedType DEF MemoryInv, TypeOK
<1> QED
  BY <1>1, <1>2 DEF Fetch, Fresh, Goto, entryVars, Arrives

LEMMA ReplyTakesFresh ==
  ASSUME MemoryInv, NEW t \in Threads, CheckReply(t)
  PROVE  Arrives(t) /\ pc[t] = "check" /\ pc' = [pc EXCEPT ![t] = "compare"]
<1>1. PICK v \in CheckAnswers(file[t]), b \in Fresh :
        /\ heap' = [heap EXCEPT ![b] = [of |-> v, len |-> 1]]
        /\ req' = [req EXCEPT ![t] = [str |-> b, len |-> 1, tmp |-> NULL]]
  BY DEF CheckReply
<1> DEFINE d == [of |-> v, len |-> 1]
<1>2. d \in Body /\ d.len = 1
  BY CheckAnswersType DEF MemoryInv, TypeOK, Body
<1> HIDE DEF d
<1>3. \E e \in Body : /\ heap' = [heap EXCEPT ![b] = e]
                     /\ req' = [req EXCEPT ![t] = [str |-> b, len |-> e.len, tmp |-> NULL]]
  BY <1>1, <1>2 DEF d
<1> QED
  BY <1>1, <1>3 DEF CheckReply, Fresh, Goto, entryVars, Arrives

LEMMA NoDanglingStep == MemoryInv /\ [Next]_vars => NoDangling'
<1> SUFFICES ASSUME MemoryInv, [Next]_vars PROVE NoDangling'
  OBVIOUS
<1>1. Reachable \subseteq Ptr
  BY ReachableType DEF MemoryInv
<1>2. ASSUME Forgets PROVE NoDangling'
  BY <1>1, <1>2 DEF Forgets, NoDangling, MemoryInv, Ptr, NoBody
<1>3. ASSUME NEW t \in Threads, Arrives(t) PROVE NoDangling'
  <2>1. CASE heap' = heap /\ req' = [req EXCEPT ![t] = NoReq]
    <3>1. \A u \in Threads : req'[u] = NoReq \/ req'[u] = req[u]
      BY <2>1 DEF MemoryInv, TypeOK
    <3>2. Reachable' \subseteq Reachable \cup {NULL}
      BY <1>3, <3>1 DEF Arrives, Reachable, NoReq
    <3> QED
      BY <1>2, <2>1, <3>2 DEF Forgets
  <2>2. ASSUME NEW b \in Buf, NEW d \in Body, b \notin Reachable,
               heap' = [heap EXCEPT ![b] = d],
               req' = [req EXCEPT ![t] = [str |-> b, len |-> d.len, tmp |-> NULL]]
        PROVE  NoDangling'
    <3>1. Reachable' \subseteq Reachable \cup {b, NULL}
      <4>1. \A u \in Threads : {req'[u].str, req'[u].tmp} \subseteq Reachable \cup {b, NULL}
        BY <2>2 DEF Reachable, MemoryInv, TypeOK
      <4> QED
        BY <1>3, <4>1 DEF Arrives, Reachable
    <3>2. d # NoBody
      BY FileCacheAssumption DEF Body, NoBody
    <3>3. \A c \in Reachable' \ {NULL} : heap'[c] # NoBody
      BY <1>1, <2>2, <3>1, <3>2 DEF NoDangling, MemoryInv, TypeOK, Ptr
    <3> QED
      BY <3>3 DEF NoDangling, NoBody
  <2> QED
    BY <1>3, <2>1, <2>2 DEF Arrives
<1> QED
  BY <1>2, <1>3, ForgetsOrFetches, FetchTakesFresh, ReplyTakesFresh

LEMMA UnpublishedIs ==
  ASSUME NEW t \in Threads
  PROVE  /\ pc[t] = "swap" => Unpublished(t) = req[t].str
         /\ pc[t] \in {"both", "str"} => Unpublished(t) = req[t].tmp
         /\ pc[t] \notin {"swap", "both", "str"} => Unpublished(t) = NULL
         /\ pc'[t] = "swap" => Unpublished(t)' = req'[t].str
         /\ pc'[t] \in {"both", "str"} => Unpublished(t)' = req'[t].tmp
         /\ pc'[t] \notin {"swap", "both", "str"} => Unpublished(t)' = NULL
BY DEF Unpublished

LEMMA UnpublishedHeld == ASSUME NEW t \in Threads, Unpublished(t) # NULL
                         PROVE  Unpublished(t) \in Held(t) /\ Unpublished(t) \in Reachable
BY UnpublishedIs DEF Held, Reachable

(* Reading an entry's pointer, or forgetting one, gives nobody a new body. *)
LEMMA SameOwners ==
  ASSUME Ownership, UNCHANGED cacheStr,
         \A u \in Threads :
           /\ Unpublished(u)' \in {Unpublished(u), NULL}
           /\ Held(u)' \subseteq Held(u) \cup {NULL} \cup {cacheStr[f] : f \in Files}
  PROVE  Ownership'
BY DEF Ownership

LEMMA OwnershipStep == MemoryInv /\ [Next]_vars => Ownership'
<1> SUFFICES ASSUME MemoryInv, [Next]_vars PROVE Ownership'
  OBVIOUS
<1>t. TypeOK /\ Ownership
  BY DEF MemoryInv
<1>a. NoRead.base = NULL /\ NoReq.str = NULL /\ NoReq.tmp = NULL
  BY DEF NoRead, NoReq
<1> USE DEF entryVars, Goto, Return
(* Steps that leave requests alone and are not part of str_swap.           *)
<1>1. ASSUME UNCHANGED <<cacheStr, req>>,
             \A u \in Threads :
               /\ pc'[u] = pc[u] \/ {pc[u], pc'[u]} \cap {"swap", "both", "str"} = {}
               /\ \/ rd'[u].base \in {rd[u].base, NULL}
                  \/ rd'[u].base \in {cacheStr[f] : f \in Files}
      PROVE  Ownership'
  <2>1. ASSUME NEW u \in Threads PROVE Unpublished(u)' \in {Unpublished(u), NULL}
    BY <1>1, UnpublishedIs
  <2>2. ASSUME NEW u \in Threads
        PROVE  Held(u)' \subseteq Held(u) \cup {NULL} \cup {cacheStr[f] : f \in Files}
    BY <1>1 DEF Held
  <2> QED
    BY <1>t, <1>1, <2>1, <2>2, SameOwners
<1>b. ASSUME NEW t \in Threads, rd' = [rd EXCEPT ![t] = NoRead]
      PROVE  \A u \in Threads : rd'[u].base \in {rd[u].base, NULL}
  <2>1. \A u \in Threads : rd'[u] = NoRead \/ rd'[u] = rd[u]
    BY <1>b, <1>t DEF TypeOK
  <2> QED
    BY <1>a, <2>1
<1>2. ASSUME NEW t \in Threads, NEW f \in Files, Open(t, f) PROVE Ownership'
  BY <1>t, <1>1, <1>2 DEF Open, TypeOK
<1>3. ASSUME NEW t \in Threads, NEW f \in Files, NEW r \in Requests,
             Read(t, f, r[1], r[2])
      PROVE  Ownership'
  <2>1. \A u \in Threads : rd'[u].base \in {rd[u].base, NULL}
    BY <1>t, <1>3 DEF Read, TypeOK
  <2> QED
    BY <1>t, <1>1, <1>3, <2>1 DEF Read, TypeOK
<1>4. ASSUME NEW t \in Threads,
             CheckCrash(t) \/ CopyCrash(t) \/ ReturnCurrent(t) \/ ReturnFailed(t)
      PROVE  Ownership'
  BY <1>t, <1>1, <1>4 DEF CheckCrash, CopyCrash, ReturnCurrent, ReturnFailed, TypeOK
<1>5. ASSUME NEW t \in Threads, ReadBound(t) \/ ReadLength(t) PROVE Ownership'
  <2>1. \/ rd' = [rd EXCEPT ![t] = NoRead]
        \/ rd' = rd
        \/ \E n : rd' = [rd EXCEPT ![t] = [rd[t] EXCEPT !.n = n]]
    BY <1>5 DEF ReadBound, ReadLength, EndOfFile
  <2>2. ASSUME NEW n, rd' = [rd EXCEPT ![t] = [rd[t] EXCEPT !.n = n]], NEW u \in Threads
        PROVE  rd'[u].base = rd[u].base
    BY <1>t, <2>2 DEF TypeOK
  <2>3. \A u \in Threads : rd'[u].base \in {rd[u].base, NULL}
    BY <2>1, <2>2, <1>b
  <2>4. /\ UNCHANGED <<cacheStr, req>>
        /\ \A u \in Threads :
             pc'[u] = pc[u] \/ {pc[u], pc'[u]} \cap {"swap", "both", "str"} = {}
    BY <1>t, <1>5 DEF ReadBound, ReadLength, TypeOK
  <2> QED
    BY <1>1, <2>3, <2>4
<1>6. ASSUME NEW t \in Threads, ReadBase(t) PROVE Ownership'
  <2>1. \A u \in Threads : \/ rd'[u].base \in {rd[u].base, NULL}
                            \/ rd'[u].base \in {cacheStr[f] : f \in Files}
    BY <1>t, <1>6 DEF ReadBase, TypeOK
  <2> QED
    BY <1>t, <1>1, <1>6, <2>1 DEF ReadBase, TypeOK
<1>7. ASSUME NEW t \in Threads, Copy(t) \/ CopyOver(t) PROVE Ownership'
  <2>1. \A u \in Threads : rd'[u].base \in {rd[u].base, NULL}
    BY <1>7, <1>b DEF Copy, CopyOver
  <2> QED
    BY <1>t, <1>1, <1>7, <2>1 DEF Copy, CopyOver, TypeOK
<1>8. ASSUME NEW f \in Files, ServerChange(f) PROVE Ownership'
  BY <1>1, <1>8 DEF ServerChange
<1>9. CASE UNCHANGED vars
  BY <1>1, <1>9 DEF vars
(* The steps that bring bytes and those of str_swap.                       *)
<1>10. ASSUME NEW t \in Threads, Arrives(t), NEW to \in {"compare", "swap"},
              pc' = [pc EXCEPT ![t] = to]
       PROVE  Ownership'
  <2>1. UNCHANGED <<cacheStr, rd>> /\ pc'[t] = to
    BY <1>t, <1>10 DEF Arrives, TypeOK
  <2>0. \A u \in Threads \ {t} : Unpublished(u)' = Unpublished(u) /\ Held(u)' = Held(u)
    <3>1. \A u \in Threads \ {t} : req'[u] = req[u] /\ pc'[u] = pc[u] /\ rd'[u] = rd[u]
      <4>1. \E r : req' = [req EXCEPT ![t] = r]
        BY <1>10 DEF Arrives
      <4> QED
        BY <1>t, <1>10, <2>1, <4>1 DEF TypeOK
    <3> QED
      BY <3>1 DEF Unpublished, Held
  <2>2. CASE req' = [req EXCEPT ![t] = NoReq]
    <3>1. req'[t] = NoReq
      BY <1>t, <2>2 DEF TypeOK
    <3>2. Unpublished(t)' = NULL /\ Held(t)' \subseteq Held(t) \cup {NULL}
      BY <1>a, <2>1, <3>1, UnpublishedIs DEF Held
    <3> QED
      BY <1>t, <2>0, <2>1, <3>2, SameOwners
  <2>3. ASSUME NEW b \in Buf, NEW d \in Body, b \notin Reachable,
               req' = [req EXCEPT ![t] = [str |-> b, len |-> d.len, tmp |-> NULL]]
        PROVE  Ownership'
    <3>1. Unpublished(t)' \in {b, NULL} /\ Held(t)' \subseteq Held(t) \cup {b, NULL}
      <4>1. req'[t].str = b /\ req'[t].tmp = NULL
        BY <1>t, <2>3 DEF TypeOK
      <4> QED
        BY <2>1, <4>1, UnpublishedIs DEF Held
    <3>2. \A f \in Files : cacheStr[f] # b
      BY <2>3 DEF Reachable
    <3>3. \A u \in Threads : b \notin Held(u) /\ Unpublished(u) # b
      BY <2>3, UnpublishedHeld, FileCacheAssumption DEF Held, Reachable
    <3>4. \A u \in Threads \ {t} : Unpublished(u) = NULL \/ Unpublished(u) \notin Held(t)
      BY <1>t DEF Ownership
    <3> QED
      BY <1>t, <2>0, <2>1, <3>1, <3>2, <3>3, <3>4 DEF Ownership
  <2> QED
    BY <1>10, <2>2, <2>3 DEF Arrives
<1>11. ASSUME NEW t \in Threads, SwapOut(t) PROVE Ownership'
  <2>0. \A u \in Threads \ {t} : Unpublished(u)' = Unpublished(u) /\ Held(u)' = Held(u)
    BY <1>t, <1>11 DEF SwapOut, Unpublished, Held, TypeOK
  <2>1. Unpublished(t)' = Unpublished(t)
    BY <1>t, <1>11, UnpublishedIs DEF SwapOut, TypeOK
  <2>2. Held(t)' \subseteq Held(t) \cup {cacheStr[f] : f \in Files}
    BY <1>t, <1>11 DEF SwapOut, Held, TypeOK
  <2> QED
    BY <1>t, <1>11, <2>0, <2>1, <2>2, SameOwners DEF SwapOut
<1>12. ASSUME NEW t \in Threads, SwapStr(t) PROVE Ownership'
  <2>0. \A u \in Threads \ {t} : Unpublished(u)' = Unpublished(u)
    BY <1>t, <1>12 DEF SwapStr, Unpublished, TypeOK
  <2>1. \A u \in Threads : Held(u)' = Held(u)
    BY <1>12 DEF SwapStr, Held
  <2>2. Unpublished(t) = req[t].tmp /\ Unpublished(t)' = NULL
    BY <1>t, <1>12, UnpublishedIs DEF SwapStr, TypeOK
  <2>3. cacheStr' = [cacheStr EXCEPT ![file[t]] = Unpublished(t)] /\ file[t] \in Files
    BY <1>t, <1>12, <2>2 DEF SwapStr, TypeOK
  <2>4. \A u \in Threads \ {t} : Unpublished(u) = NULL \/ Unpublished(u) # Unpublished(t)
    BY <1>t, UnpublishedHeld DEF Ownership
  <2>5. \A f, g \in Files : cacheStr'[f] = cacheStr'[g] => f = g \/ cacheStr'[f] = NULL
    BY <1>t, <2>3 DEF Ownership, TypeOK
  <2>6. ASSUME NEW u \in Threads, Unpublished(u)' # NULL
        PROVE  /\ \A f \in Files : Unpublished(u)' # cacheStr'[f]
               /\ \A w \in Threads \ {u} : Unpublished(u)' \notin Held(w)'
    <3>1. u # t /\ Unpublished(u)' = Unpublished(u)
      BY <2>0, <2>2, <2>6
    <3>2. \A f \in Files : cacheStr'[f] = cacheStr[f] \/ cacheStr'[f] = Unpublished(t)
      BY <1>t, <2>3 DEF TypeOK
    <3> QED
      BY <1>t, <2>1, <2>4, <2>6, <3>1, <3>2 DEF Ownership
  <2> QED
    BY <2>5, <2>6 DEF Ownership
<1>13. ASSUME NEW t \in Threads, SwapLen(t) PROVE Ownership'
  <2>1. ASSUME NEW u \in Threads PROVE Unpublished(u)' = Unpublished(u)
    <3>1. CASE u # t
      BY <1>t, <1>13, <3>1 DEF SwapLen, Goto, Unpublished, TypeOK
    <3>2. CASE u = t /\ pc[t] = "both" /\ pc'[t] = "str"
      BY <1>13, <3>2 DEF SwapLen, Unpublished
    <3>3. CASE u = t /\ pc[t] = "len" /\ pc'[t] = "finish"
      BY <1>13, <3>3 DEF SwapLen, Unpublished
    <3> QED
      BY <1>t, <1>13, <3>1, <3>2, <3>3 DEF SwapLen, Goto, TypeOK
  <2>2. \A u \in Threads : Held(u)' = Held(u)
    BY <1>13 DEF SwapLen, Held
  <2> QED
    BY <1>t, <1>13, <2>1, <2>2, SameOwners DEF SwapLen
<1>14. ASSUME NEW t \in Threads, Finish(t) \/ Compare(t) PROVE Ownership'
  <2>0. /\ pc[t] \in {"finish", "compare"} /\ UNCHANGED <<cacheStr, rd>>
        /\ req' = [req EXCEPT ![t] = NoReq]
        /\ pc'[t] \in {"idle", "failed", "current", "fetch"}
        /\ \A u \in Threads \ {t} : pc'[u] = pc[u]
    BY <1>t, <1>14 DEF Finish, Compare, Verdict, TypeOK
  <2>1. \A u \in Threads : req'[u] = NoReq \/ req'[u] = req[u]
    BY <1>t, <2>0 DEF TypeOK
  <2>2. \A u \in Threads : Held(u)' \subseteq Held(u) \cup {NULL}
    BY <1>a, <2>0, <2>1 DEF Held
  <2>3. ASSUME NEW u \in Threads PROVE Unpublished(u)' \in {Unpublished(u), NULL}
    <3>1. CASE u = t
      BY <2>0, <3>1, UnpublishedIs
    <3>2. CASE u # t
      <4>1. req'[u] = req[u] /\ pc'[u] = pc[u]
        BY <1>t, <2>0, <3>2 DEF TypeOK
      <4> QED
        BY <4>1 DEF Unpublished
    <3> QED
      BY <3>1, <3>2
  <2> QED
    BY <1>t, <2>0, <2>2, <2>3, SameOwners
<1>15. CASE Unmount
  <2>1. \A u \in Threads : Unpublished(u)' = NULL
    BY <1>15, UnpublishedIs DEF Unmount
  <2> QED
    BY <1>15, <2>1 DEF Unmount, Ownership
<1> QED
  BY <1>2, <1>3, <1>4, <1>5, <1>6, <1>7, <1>8, <1>9, <1>10, <1>11, <1>12, <1>13,
     <1>14, <1>15, FetchTakesFresh, ReplyTakesFresh
  DEF Next, OpenStep, ReadStep, Stopped

LEMMA MemoryInvStep == MemoryInv /\ [Next]_vars => MemoryInv'
BY TypeOKStep, DroppedStep, NoDanglingStep, OwnershipStep DEF MemoryInv

(* Whatever the workers, the server and the kernel do, no pointer of the   *)
(* program refers to a freed buffer.                                       *)
THEOREM NothingDangles == Spec => []NoDangling
<1>1. MemoryInv => NoDangling
  BY DEF MemoryInv
<1> QED
  BY <1>1, MemoryInvInit, MemoryInvStep, PTL DEF Spec

(* Nor has a body two owning entries, which gdi_destroy would free twice,  *)
(* and nobody but its worker holds a body that is not yet in its entry.    *)
THEOREM BodiesOwned == Spec => []Ownership
<1>1. MemoryInv => Ownership
  BY DEF MemoryInv
<1> QED
  BY <1>1, MemoryInvInit, MemoryInvStep, PTL DEF Spec

(* A body that stays reachable is never written again: a reader racing an *)
(* update copies bytes of one body, old or new.                            *)
Kept == \A b \in Buf : b \in Reachable /\ b \in Reachable' => heap'[b] = heap[b]

LEMMA KeptStep == ASSUME MemoryInv, [Next]_vars PROVE Kept
<1>1. ASSUME Forgets PROVE Kept
  BY <1>1 DEF Forgets, Kept
<1>2. ASSUME NEW t \in Threads, Arrives(t) PROVE Kept
  BY <1>2 DEF MemoryInv, TypeOK, Kept, Arrives
<1> QED
  BY <1>1, <1>2, ForgetsOrFetches, FetchTakesFresh, ReplyTakesFresh

(***************************************************************************)
(* One worker (fuse's -s option): the cache is coherent outside str_swap   *)
(* and a read stays in its buffer.  InProgress says what a half-done open  *)
(* or read has established; "swap" also needs that ci_destroy and malloc   *)
(* never touch a body in use, which is MemoryInv.                          *)
(***************************************************************************)
OneWorker == \A t, u \in Threads : t = u

InProgress ==
  \A t \in Threads :
    /\ pc[t] = "swap" => req[t].len = BodyLen(req[t].str)
    /\ pc[t] \in {"both", "str", "len"} => req[t].len = BodyLen(req[t].tmp)
    /\ pc[t] = "len" => cacheStr[file[t]] = req[t].tmp
    /\ pc[t] = "str" => cacheLen[file[t]] = req[t].len
    /\ pc[t] = "length" => rd[t].off <= cacheLen[file[t]]
    /\ pc[t] \in {"base", "copy"} =>
         rd[t].n # 0 /\ rd[t].off + rd[t].n <= cacheLen[file[t]]
    /\ pc[t] = "copy" => rd[t].base = cacheStr[file[t]]

CoherentInv == MemoryInv /\ CacheCoherent /\ InProgress

LEMMA RemainingBound ==
  ASSUME NEW len \in Nat, NEW off \in Nat, off <= len
  PROVE  Remaining(len, off) <= len - off
<1>1. len - off \in Nat
  OBVIOUS
<1> QED
  BY <1>1, FileCacheAssumption, SMTT(30) DEF Remaining

LEMMA CoherentInvInit == Init => CoherentInv
<1> SUFFICES ASSUME Init PROVE CoherentInv
  OBVIOUS
<1>1. CacheCoherent
  BY DEF Init, CacheCoherent, BodyLen
<1>2. InProgress
  BY DEF Init, InProgress
<1> QED
  BY <1>1, <1>2, MemoryInvInit DEF CoherentInv

LEMMA CoherentInvStep ==
  ASSUME OneWorker, CoherentInv, [Next]_vars
  PROVE  CacheCoherent' /\ InProgress'
<1>t. TypeOK /\ CacheCoherent /\ InProgress
  BY DEF CoherentInv, MemoryInv
<1>w. ASSUME NEW t \in Threads, NEW u \in Threads PROVE t = u
  BY DEF OneWorker
<1> USE DEF entryVars, Goto, Return
(* A step outside str_swap that changes no entry and keeps bodies.         *)
<1>1. ASSUME NEW t \in Threads, UNCHANGED <<cacheStr, cacheLen>>,
             pc[t] \notin {"len", "str"}, pc'[t] \notin {"len", "str"}
      PROVE  CacheCoherent'
  <2>1. ASSUME NEW f \in Files PROVE BodyLen(cacheStr[f])' = BodyLen(cacheStr[f])
    <3>1. cacheStr[f] \in Ptr /\ cacheStr[f] \in Reachable /\ cacheStr'[f] \in Reachable'
      BY <1>t DEF TypeOK, Reachable
    <3> QED
      BY <1>1, <3>1, KeptStep DEF Kept, BodyLen, Ptr, CoherentInv
  <2>2. ASSUME NEW f \in Files PROVE cacheLen[f] = BodyLen(cacheStr[f])
    BY <1>t, <1>1, <1>w DEF CacheCoherent, Swapping
  <2> QED
    BY <1>1, <2>1, <2>2 DEF CacheCoherent
<1>2. ASSUME NEW t \in Threads,
             pc'[t] \in {"idle", "check", "compare", "fetch", "current", "failed",
                         "finish", "bound"}
      PROVE  InProgress'
  BY <1>2, <1>w DEF InProgress
<1>3. ASSUME NEW t \in Threads, NEW f \in Files, Open(t, f)
      PROVE  CacheCoherent' /\ InProgress'
  <2>1. pc[t] = "idle" /\ pc'[t] \in {"fetch", "check", "current"}
    BY <1>t, <1>3 DEF Open, TypeOK
  <2> QED
    BY <1>1, <1>2, <1>3, <2>1 DEF Open
<1>4. ASSUME NEW t \in Threads, NEW f \in Files, NEW r \in Requests,
             Read(t, f, r[1], r[2])
      PROVE  CacheCoherent' /\ InProgress'
  <2>1. pc[t] = "idle" /\ pc'[t] = "bound"
    BY <1>t, <1>4 DEF Read, TypeOK
  <2> QED
    BY <1>1, <1>2, <1>4, <2>1 DEF Read
<1>5. ASSUME NEW t \in Threads,
             CheckReply(t) \/ Compare(t) \/ ReturnCurrent(t) \/ ReturnFailed(t)
      PROVE  CacheCoherent' /\ InProgress'
  <2>1. /\ pc[t] \in {"check", "compare", "current", "failed"}
        /\ pc'[t] \in {"compare", "idle", "fetch", "current", "failed"}
        /\ UNCHANGED <<cacheStr, cacheLen>>
    BY <1>t, <1>5 DEF CheckReply, Compare, ReturnCurrent, ReturnFailed, Verdict, TypeOK
  <2> QED
    BY <1>1, <1>2, <2>1
<1>6. ASSUME NEW t \in Threads, CheckCrash(t) \/ CopyCrash(t)
      PROVE  CacheCoherent' /\ InProgress'
  <2>1. UNCHANGED <<cacheStr, cacheLen, pc, file, req, rd, heap>>
    BY <1>6 DEF CheckCrash, CopyCrash
  <2>2. pc[t] \in {"check", "copy"}
    BY <1>6 DEF CheckCrash, CopyCrash
  <2> QED
    BY <1>t, <1>1, <2>1, <2>2 DEF InProgress, BodyLen
<1>7. ASSUME NEW t \in Threads, Fetch(t) PROVE CacheCoherent' /\ InProgress'
  <2>1. pc[t] = "fetch" /\ pc'[t] = "swap" /\ UNCHANGED <<cacheStr, cacheLen>>
    BY <1>t, <1>7, FetchTakesFresh DEF CoherentInv, TypeOK, Fetch
  <2>2. req'[t].len = IF req'[t].str = NULL THEN 0 ELSE heap'[req'[t].str].len
    BY <1>t, <1>7, FetchTakesFresh, FileCacheAssumption DEF CoherentInv, Arrives, NoReq, TypeOK
  <2>3. InProgress'
    BY <1>w, <2>1, <2>2 DEF InProgress, BodyLen
  <2> QED
    BY <1>1, <2>1, <2>3
<1>8. ASSUME NEW t \in Threads, SwapOut(t) PROVE CacheCoherent' /\ InProgress'
  <2>1. /\ pc[t] = "swap" /\ pc'[t] = "both"
        /\ UNCHANGED <<cacheStr, cacheLen, heap>>
        /\ req'[t].len = req[t].len /\ req'[t].tmp = req[t].str
    BY <1>t, <1>8 DEF SwapOut, TypeOK
  <2>2. InProgress'
    BY <1>t, <1>w, <2>1 DEF InProgress, BodyLen
  <2> QED
    BY <1>1, <2>1, <2>2
<1>9. ASSUME NEW t \in Threads, SwapStr(t) PROVE CacheCoherent' /\ InProgress'
  <2>1. /\ \/ pc[t] = "both" /\ pc'[t] = "len"
           \/ pc[t] = "str" /\ pc'[t] = "finish" /\ cacheLen[file[t]] = req[t].len
        /\ UNCHANGED <<cacheLen, heap, file, req>>
        /\ cacheStr'[file[t]] = req[t].tmp
        /\ \A f \in Files \ {file[t]} : cacheStr'[f] = cacheStr[f]
    BY <1>t, <1>9 DEF SwapStr, TypeOK, InProgress
  <2>2. req[t].len = BodyLen(req[t].tmp)
    BY <1>t, <2>1 DEF InProgress
  <2>3. ASSUME NEW f \in Files \ {file[t]} PROVE cacheLen[f] = BodyLen(cacheStr[f])
    BY <1>t, <1>w DEF CacheCoherent, Swapping
  <2>4. CacheCoherent'
    BY <2>1, <2>2, <2>3 DEF CacheCoherent, Swapping, BodyLen
  <2>5. InProgress'
    BY <1>w, <2>1, <2>2 DEF InProgress, BodyLen
  <2> QED
    BY <2>4, <2>5
<1>10. ASSUME NEW t \in Threads, SwapLen(t) PROVE CacheCoherent' /\ InProgress'
  <2>1. /\ \/ pc[t] = "both" /\ pc'[t] = "str"
           \/ pc[t] = "len" /\ pc'[t] = "finish" /\ cacheStr[file[t]] = req[t].tmp
        /\ UNCHANGED <<cacheStr, heap, file, req>>
        /\ cacheLen'[file[t]] = req[t].len
        /\ \A f \in Files \ {file[t]} : cacheLen'[f] = cacheLen[f]
    BY <1>t, <1>10 DEF SwapLen, TypeOK, InProgress
  <2>2. req[t].len = BodyLen(req[t].tmp)
    BY <1>t, <2>1 DEF InProgress
  <2>3. ASSUME NEW f \in Files \ {file[t]} PROVE cacheLen[f] = BodyLen(cacheStr[f])
    BY <1>t, <1>w DEF CacheCoherent, Swapping
  <2>4. CacheCoherent'
    BY <2>1, <2>2, <2>3 DEF CacheCoherent, Swapping, BodyLen
  <2>5. InProgress'
    BY <1>w, <2>1, <2>2 DEF InProgress, BodyLen
  <2> QED
    BY <2>4, <2>5
<1>11. ASSUME NEW t \in Threads, Finish(t) \/ Copy(t) \/ CopyOver(t)
       PROVE  CacheCoherent' /\ InProgress'
  <2>1. /\ pc[t] \in {"finish", "copy"} /\ pc'[t] = "idle"
        /\ UNCHANGED <<cacheStr, cacheLen>>
    BY <1>t, <1>11 DEF Finish, Copy, CopyOver, TypeOK
  <2> QED
    BY <1>1, <1>2, <2>1
<1>12. ASSUME NEW t \in Threads, ReadBound(t) PROVE CacheCoherent' /\ InProgress'
  <2>1. /\ pc[t] = "bound" /\ UNCHANGED <<cacheStr, cacheLen, file>>
        /\ \/ pc'[t] = "idle"
           \/ pc'[t] = "length" /\ ~(cacheLen[file[t]] < rd[t].off) /\ UNCHANGED rd
    BY <1>t, <1>12 DEF ReadBound, TypeOK
  <2>2. cacheLen[file[t]] \in Nat /\ rd[t].off \in Nat
    BY <1>t DEF TypeOK
  <2>3. pc'[t] = "length" => InProgress'
    BY <1>w, <2>1, <2>2 DEF InProgress
  <2> QED
    BY <1>1, <1>2, <2>1, <2>3
<1>13. ASSUME NEW t \in Threads, ReadLength(t) PROVE CacheCoherent' /\ InProgress'
  <2> DEFINE m == Remaining(cacheLen[file[t]], rd[t].off)
             n == Served(m, rd[t].size)
  <2>1. cacheLen[file[t]] \in Nat /\ rd[t].off \in Nat /\ rd[t].size \in Nat
    BY <1>t DEF TypeOK
  <2>2. pc[t] = "length" /\ rd[t].off <= cacheLen[file[t]]
    BY <1>t, <1>13 DEF ReadLength, InProgress
  <2>3. m \in Nat /\ m <= cacheLen[file[t]] - rd[t].off
    BY <2>1, <2>2, RemainingType, RemainingBound
  <2>4. n \in Nat /\ n <= m
    BY <2>1, <2>3 DEF Served
  <2>5. rd[t].off + n <= cacheLen[file[t]]
    BY <2>1, <2>3, <2>4
  <2>6. /\ UNCHANGED <<cacheStr, cacheLen, file>>
        /\ \/ pc'[t] = "idle"
           \/ pc'[t] = "base" /\ n # 0 /\ rd' = [rd EXCEPT ![t] = [rd[t] EXCEPT !.n = n]]
    BY <1>t, <1>13 DEF ReadLength, TypeOK
  <2> HIDE DEF n
  <2>7. rd' = [rd EXCEPT ![t] = [rd[t] EXCEPT !.n = n]] => rd'[t].n = n /\ rd'[t].off = rd[t].off
    BY <1>t DEF TypeOK
  <2>8. pc'[t] = "base" => InProgress'
    BY <1>w, <2>5, <2>6, <2>7 DEF InProgress
  <2> QED
    BY <1>1, <1>2, <2>2, <2>6, <2>8
<1>14. ASSUME NEW t \in Threads, ReadBase(t) PROVE CacheCoherent' /\ InProgress'
  <2>1. /\ pc[t] = "base" /\ pc'[t] = "copy"
        /\ UNCHANGED <<cacheStr, cacheLen, file>>
        /\ rd'[t].base = cacheStr[file[t]]
        /\ rd'[t].n = rd[t].n /\ rd'[t].off = rd[t].off
    BY <1>t, <1>14 DEF ReadBase, TypeOK
  <2>2. InProgress'
    BY <1>t, <1>w, <2>1 DEF InProgress
  <2> QED
    BY <1>1, <2>1, <2>2
<1>15. ASSUME UNCHANGED <<cacheStr, cacheLen, pc, file, req, rd, heap>>
       PROVE  CacheCoherent' /\ InProgress'
  BY <1>t, <1>15 DEF CacheCoherent, InProgress, Swapping, BodyLen
<1>16. ASSUME NEW f \in Files, ServerChange(f) PROVE CacheCoherent' /\ InProgress'
  BY <1>15, <1>16 DEF ServerChange
<1>17. CASE Unmount
  BY <1>17 DEF Unmount, CacheCoherent, InProgress, BodyLen
<1>18. CASE UNCHANGED vars
  BY <1>15, <1>18 DEF vars
<1> QED
  BY <1>3, <1>4, <1>5, <1>6, <1>7, <1>8, <1>9, <1>10, <1>11, <1>12, <1>13, <1>14,
     <1>16, <1>17, <1>18
  DEF Next, OpenStep, ReadStep, Stopped

LEMMA CoherentInBounds ==
  ASSUME OneWorker, CoherentInv
  PROVE  ReadInBounds
<1> SUFFICES ASSUME NEW t \in Threads, pc[t] = "copy" PROVE InBounds(t)
  BY DEF ReadInBounds
<1>1. /\ rd[t].n # 0 /\ rd[t].off + rd[t].n <= cacheLen[file[t]]
      /\ rd[t].base = cacheStr[file[t]]
  BY DEF CoherentInv, InProgress
<1>2. /\ file[t] \in Files /\ rd[t].off \in Nat /\ rd[t].n \in Nat
      /\ rd[t].base \in Reachable
  BY DEF CoherentInv, MemoryInv, TypeOK, Reachable
<1>3. cacheLen[file[t]] = BodyLen(cacheStr[file[t]])
  BY <1>2 DEF CoherentInv, CacheCoherent, Swapping, OneWorker
<1>4. rd[t].base # NULL
  BY <1>1, <1>2, <1>3 DEF BodyLen
<1>5. heap[rd[t].base] # NoBody
  BY <1>2, <1>4 DEF CoherentInv, MemoryInv, NoDangling, NoBody
<1> QED
  BY <1>1, <1>3, <1>4, <1>5 DEF InBounds, BodyLen

LEMMA CoherentAlways == ASSUME OneWorker PROVE Spec => []CoherentInv
<1>1. CoherentInv /\ [Next]_vars => CoherentInv'
  BY MemoryInvStep, CoherentInvStep DEF CoherentInv
<1> QED
  BY <1>1, CoherentInvInit, PTL DEF Spec

(* With one worker the cache is coherent outside str_swap, whatever        *)
(* answers the server gives.                                               *)
THEOREM CacheIsCoherent == ASSUME OneWorker PROVE Spec => []CacheCoherent
<1>1. CoherentInv => CacheCoherent
  BY DEF CoherentInv
<1> QED
  BY <1>1, CoherentAlways, PTL

(* With one worker no read leaves the cached body.                         *)
THEOREM OneWorkerReads == ASSUME OneWorker PROVE Spec => []ReadInBounds
<1>1. CoherentInv => ReadInBounds
  BY CoherentInBounds
<1> QED
  BY <1>1, CoherentAlways, PTL
=============================================================================
