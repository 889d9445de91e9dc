--------------------------- MODULE BuffersProofs ---------------------------
(***************************************************************************)
(* Theorems about Transfer, for any URIs, answers and number of requests,  *)
(* and about Buffers: the strings of str.c under any requests, answers,    *)
(* sizes of pieces and failing allocations.                                *)
(***************************************************************************)
EXTENDS Buffers, TextProofs

-----------------------------------------------------------------------------
(* Transfer                                                                *)

(* Lines, the empty line at h, then data.                                  *)
BlockEndsAt(a, h) ==
  /\ h \in 1..Len(a)
  /\ \A j \in 1..Len(a) : /\ j < h => a[j].kind = "line"
                          /\ j = h => a[j].kind = "blank"
                          /\ j > h => a[j].kind = "data"

(* Every answer has one block of headers.                                  *)
Conforming ==
  \A u \in Uris : \A a \in Answers[u] : \E h \in 1..Len(a) : BlockEndsAt(a, h)

(* The flag tells whether the block ended, which it does at h; if all was  *)
(* stored, the pieces up to h went to the headers and the rest to the body.*)
SplitAt(h) ==
  /\ BlockEndsAt(answer, h)
  /\ header <=> arrived >= h
  /\ ~lost => /\ headers = SubSeq(answer, 1, IF arrived >= h THEN h ELSE arrived)
              /\ body = SubSeq(answer, h + 1, arrived)

Filed ==
  /\ phase = "ready" => headers = <<>> /\ body = <<>>
  /\ phase \in {"performing", "done"} => \E h \in 1..Len(answer) : SplitAt(h)

Inv == TypeOK /\ Filed

LEMMA InitInv == Init => Inv
<1>1. Init => header \in BOOLEAN /\ lost \in BOOLEAN
  BY DEF Init, Idle
<1> QED
  BY <1>1 DEF Init, Idle, Inv, TypeOK, Filed

LEMMA TypeStep == TypeOK /\ [Next]_vars => TypeOK'
<1> SUFFICES ASSUME TypeOK, [Next]_vars PROVE TypeOK'
  OBVIOUS
<1> USE TransferAssumption DEF TypeOK
<1>1. ASSUME NEW u \in Uris, CiInit(u) PROVE TypeOK'
  <2>1. header' \in BOOLEAN /\ lost' \in BOOLEAN
    BY <1>1 DEF CiInit
  <2> QED
    BY <1>1, <2>1 DEF CiInit
<1>2. ASSUME NEW a \in Answers[uri], CiRequest(a) PROVE TypeOK'
  <2>1. header' \in BOOLEAN /\ lost' \in BOOLEAN
    BY <1>2 DEF CiRequest
  <2> QED
    BY <1>2, <2>1 DEF CiRequest
<1>3. ASSUME NEW ok \in MayStore, Receive(ok) PROVE TypeOK'
  <2>1. answer[arrived + 1] \in Piece /\ arrived + 1 \in 0..Len(answer)
    BY <1>3 DEF Receive
  <2>2. headers' \in Seq(Piece) /\ body' \in Seq(Piece)
    <3>1. /\ headers' = headers \/ headers' = Append(headers, answer[arrived + 1])
          /\ body' = body \/ body' = Append(body, answer[arrived + 1])
      BY <1>3 DEF Receive, Stored
    <3>2. headers \in Seq(Piece) /\ body \in Seq(Piece)
      OBVIOUS
    <3>3. /\ Append(headers, answer[arrived + 1]) \in Seq(Piece)
          /\ Append(body, answer[arrived + 1]) \in Seq(Piece)
      BY <2>1, <3>2
    <3> QED
      BY <3>1, <3>2, <3>3, Zenon
  <2>3. header' \in BOOLEAN
    BY <1>3 DEF Receive
  <2>4. lost' \in BOOLEAN
    BY <1>3 DEF Receive, MayStore
  <2> QED
    BY <1>3, <2>1, <2>2, <2>3, <2>4 DEF Receive
<1>4. CASE Perform
  <2>1. header' \in BOOLEAN /\ lost' \in BOOLEAN
    BY <1>4 DEF Perform
  <2> QED
    BY <1>4, <2>1 DEF Perform
<1>5. ASSUME NEW u \in Uris, CiSetUri(u), CiClearResponse PROVE TypeOK'
  <2>1. header' \in BOOLEAN /\ lost' \in BOOLEAN
    BY <1>5 DEF CiClearResponse
  <2> QED
    BY <1>5, <2>1 DEF CiSetUri, CiClearResponse, Cleared
<1>6. CASE CiDestroy
  <2>1. header' \in BOOLEAN /\ lost' \in BOOLEAN
    BY <1>6 DEF CiDestroy
  <2> QED
    BY <1>6, <2>1 DEF CiDestroy
<1>7. CASE UNCHANGED vars
  BY <1>7 DEF vars
<1> QED
  BY <1>1, <1>2, <1>3, <1>4, <1>5, <1>6, <1>7 DEF Next, Callback

LEMMA ReceiveFiles ==
  ASSUME Inv, NEW ok \in MayStore, Receive(ok)
  PROVE  Filed'
<1>1. PICK h \in 1..Len(answer) : SplitAt(h)
  BY DEF Inv, Filed, Receive
<1> DEFINE p == answer[arrived + 1]
<1>2. /\ answer \in Seq(Piece) /\ arrived \in Nat /\ arrived < Len(answer)
      /\ answer' = answer /\ arrived' = arrived + 1 /\ phase' = phase
      /\ phase = "performing"
  BY DEF Receive, Inv, TypeOK
<1>3. BlockEndsAt(answer', h)
  BY <1>1, <1>2 DEF SplitAt
<1>4. lost \in BOOLEAN /\ ok \in BOOLEAN /\ (lost' <=> lost \/ ~ok)
  BY DEF Receive, MayStore, Inv, TypeOK
<1>5. CASE arrived < h
  <2>1. ~header /\ (~lost => /\ headers = SubSeq(answer, 1, arrived)
                             /\ body = SubSeq(answer, h + 1, arrived))
    BY <1>1, <1>2, <1>5 DEF SplitAt
  <2>2. /\ ok => headers' = Append(headers, p)
        /\ body' = body
        /\ header' = (p.kind = "blank")
    BY <2>1 DEF Receive, Stored
  <2>3. ~lost' => headers' = SubSeq(answer, 1, arrived + 1)
    <3>1. Append(SubSeq(answer, 1, arrived), p) = SubSeq(answer, 1, arrived + 1)
      BY <1>2
    <3> QED
      BY <1>4, <2>1, <2>2, <3>1, Zenon
  <2>4. ~lost' => body' = SubSeq(answer, h + 1, arrived + 1)
    <3>1. SubSeq(answer, h + 1, arrived) = SubSeq(answer, h + 1, arrived + 1)
      BY <1>2, <1>5
    <3> QED
      BY <1>4, <2>1, <2>2, <3>1, Zenon
  <2>5. header' <=> arrived + 1 >= h
    <3>1. p.kind = "blank" <=> arrived + 1 >= h
      BY <1>1, <1>2, <1>5 DEF SplitAt, BlockEndsAt
    <3> QED
      BY <3>1, <2>2
  <2>6. arrived + 1 >= h => arrived + 1 = h
    BY <1>2, <1>5
  <2>7. SplitAt(h)'
    BY <1>2, <1>3, <2>3, <2>4, <2>5, <2>6 DEF SplitAt
  <2> QED
    BY <1>2, <2>7 DEF Filed
<1>6. CASE arrived >= h
  <2>1. header /\ (~lost => /\ headers = SubSeq(answer, 1, h)
                            /\ body = SubSeq(answer, h + 1, arrived))
    BY <1>1, <1>6 DEF SplitAt
  <2>2. headers' = headers /\ header' = header /\ (ok => body' = Append(body, p))
    BY <2>1 DEF Receive, Stored
  <2>3. ~lost' => body' = SubSeq(answer, h + 1, arrived + 1)
    <3>1. Append(SubSeq(answer, h + 1, arrived), p) = SubSeq(answer, h + 1, arrived + 1)
      BY <1>2, <1>6
    <3> QED
      BY <1>4, <2>1, <2>2, <3>1, Zenon
  <2>4. arrived + 1 >= h
    BY <1>2, <1>6
  <2>5. ~lost' => headers' = SubSeq(answer, 1, h)
    BY <1>4, <2>1, <2>2, Zenon
  <2>6. SplitAt(h)'
    BY <1>2, <1>3, <2>1, <2>2, <2>3, <2>4, <2>5 DEF SplitAt
  <2> QED
    BY <1>2, <2>6 DEF Filed
<1> QED
  BY <1>2, <1>5, <1>6

LEMMA FiledStep ==
  ASSUME Conforming, Inv, [Next]_vars
  PROVE  Filed'
<1>1. ASSUME NEW u \in Uris, CiInit(u) PROVE Filed'
  BY <1>1 DEF CiInit, Filed
<1>2. ASSUME NEW a \in Answers[uri], CiRequest(a) PROVE Filed'
  <2>1. PICK h \in 1..Len(a) : BlockEndsAt(a, h)
    BY DEF Conforming, Inv, TypeOK
  <2>2. headers' = <<>> /\ body' = <<>> /\ header' = FALSE /\ arrived' = 0
        /\ answer' = a /\ phase' = "performing"
    BY <1>2 DEF CiRequest, Inv, Filed
  <2>3. a \in Seq(Piece)
    BY TransferAssumption DEF Inv, TypeOK
  <2>4. SubSeq(a, 1, 0) = <<>> /\ SubSeq(a, h + 1, 0) = <<>>
    BY <2>3
  <2>5. SplitAt(h)'
    BY <2>1, <2>2, <2>4 DEF SplitAt, BlockEndsAt
  <2> QED
    BY <2>2, <2>5 DEF Filed
<1>3. ASSUME NEW ok \in MayStore, Receive(ok) PROVE Filed'
  BY <1>3, ReceiveFiles
<1>4. CASE Perform
  BY <1>4 DEF Perform, Inv, Filed, SplitAt
<1>5. ASSUME NEW u \in Uris, CiSetUri(u), CiClearResponse PROVE Filed'
  BY <1>5 DEF CiClearResponse, Cleared, Filed
<1>6. CASE CiDestroy
  BY <1>6 DEF CiDestroy, Filed
<1>7. CASE UNCHANGED vars
  BY <1>7 DEF vars, Inv, Filed, SplitAt
<1> QED
  BY <1>1, <1>2, <1>3, <1>4, <1>5, <1>6, <1>7 DEF Next, Callback

LEMMA SplitImpliesExact == Inv => SplitExact
<1> SUFFICES ASSUME Inv, phase \in {"performing", "done"}, ~lost
    PROVE  \E h \in 0..arrived :
             /\ headers = SubSeq(answer, 1, h)
             /\ body = SubSeq(answer, h + 1, arrived)
             /\ \A j \in 1..arrived : IsData(answer[j]) <=> j > h
  BY DEF SplitExact
<1>1. PICK h \in 1..Len(answer) : SplitAt(h)
  BY DEF Inv, Filed
<1>2. arrived \in 0..Len(answer) /\ answer \in Seq(Piece)
  BY DEF Inv, TypeOK
<1>3. CASE arrived >= h
  BY <1>1, <1>2, <1>3 DEF SplitAt, BlockEndsAt, IsData
<1>4. CASE arrived < h
  <2>1. SubSeq(answer, h + 1, arrived) = SubSeq(answer, arrived + 1, arrived)
    BY <1>1, <1>2, <1>4
  <2>2. \A j \in 1..arrived : ~IsData(answer[j])
    <3>1. \A j \in 1..arrived : j < h /\ j \in 1..Len(answer)
      BY <1>2, <1>4
    <3> QED
      BY <1>1, <3>1 DEF SplitAt, BlockEndsAt, IsData
  <2>3. headers = SubSeq(answer, 1, arrived) /\ body = SubSeq(answer, arrived + 1, arrived)
    BY <1>1, <1>2, <1>4, <2>1 DEF SplitAt
  <2>4. \A j \in 1..arrived : ~(j > arrived)
    BY <1>2
  <2>5. arrived \in 0..arrived
    BY <1>2
  <2> WITNESS arrived \in 0..arrived
  <2> QED
    BY <2>2, <2>3, <2>4
<1> QED
  <2>1. arrived >= h \/ arrived < h
    BY <1>2
  <2> QED
    BY <2>1, <1>3, <1>4

LEMMA TransferTypes == Spec => []TypeOK
<1>1. Init => TypeOK
  BY InitInv DEF Inv
<1> QED
  BY <1>1, TypeStep, PTL DEF Spec

LEMMA TransferSplits ==
  ASSUME Conforming
  PROVE  Spec => []SplitExact
<1>1. Inv /\ [Next]_vars => Inv'
  BY Conforming, TypeStep, FiledStep DEF Inv
<1> QED
  BY <1>1, InitInv, SplitImpliesExact, PTL DEF Spec

-----------------------------------------------------------------------------
(* Buffers                                                                 *)

Names == Response \cup {"cache", "list"}

(* Four strings exist, so one of four blocks is free for the fourth.       *)
EnoughBlocks == \A p, q, r \in Blocks \cup {NULL} : Blocks \ {p, q, r} # {}

(* What belongs to nobody is free.                                         *)
NothingLost == \A b \in Blocks : heap[b] # 0 => \E n \in Names : strs[n].block = b

(* ci_init overwrites the strings of a request: they must be empty then.   *)
NoRequest == phase = "none" => \A n \in Names \ {"cache"} : strs[n] = Empty

BufferInv ==
  /\ TypeOK
  /\ strs \in [Names -> Str]
  /\ heap \in [Blocks -> Nat]
  /\ StringsFit
  /\ CapacityHonest
  /\ NothingLost
  /\ NoRequest

LEMMA EmptyType == Empty \in Str /\ Empty.block = NULL /\ Empty.len = 0 /\ Empty.reserved = 0
  BY DEF Empty, Str

LEMMA NamesAre ==
  /\ Names = {"body", "headers", "cache", "list"}
  /\ Response = {"body", "headers"}
  BY DEF Names, Response

LEMMA BufferInvInit == BufferInit => BufferInv
<1> SUFFICES ASSUME BufferInit PROVE BufferInv
  OBVIOUS
<1>1. TypeOK
  BY InitInv DEF BufferInit, Inv
<1>2. strs = [n \in Names |-> Empty] /\ heap = [b \in Blocks |-> 0] /\ ~corrupt
  BY DEF BufferInit, Names
<1>3. phase = "none"
  BY DEF BufferInit, Init, Idle
<1>4. StringsFit
  BY <1>2, EmptyType DEF StringsFit
<1> QED
  BY <1>1, <1>2, <1>3, <1>4, EmptyType, NamesAre
  DEF BufferInv, CapacityHonest, NothingLost, NoRequest

(* While less than four strings have a block there is a free one.          *)
LEMMA FreeBlock ==
  ASSUME EnoughBlocks, BufferInv, NEW n \in Names, strs[n].block = NULL
  PROVE  \E c \in Blocks : heap[c] = 0
<1>1. PICK a, b, d \in Names : Names = {n, a, b, d}
  <2>1. n \in {"body", "headers", "cache", "list"}
    BY NamesAre
  <2>2. CASE n = "body"
    BY <2>2, NamesAre
  <2>3. CASE n = "headers"
    BY <2>3, NamesAre
  <2>4. CASE n = "cache"
    BY <2>4, NamesAre
  <2>5. CASE n = "list"
    BY <2>5, NamesAre
  <2> QED
    BY <2>1, <2>2, <2>3, <2>4, <2>5
<1>2. \A m \in Names : strs[m].block \in Blocks \cup {NULL}
  BY DEF BufferInv, Str
<1>3. PICK c \in Blocks : c \notin {strs[a].block, strs[b].block, strs[d].block}
  <2>1. Blocks \ {strs[a].block, strs[b].block, strs[d].block} # {}
    BY <1>2 DEF EnoughBlocks
  <2> QED
    BY <2>1
<1>4. c # strs[n].block
  BY BuffersAssumption
<1> QED
  BY <1>1, <1>3, <1>4 DEF BufferInv, NothingLost

(* What a step needs to leave behind for the strings.                      *)
Fits(n) ==
  /\ strs[n] \in Str
  /\ IF strs[n].block = NULL THEN strs[n].len = 0 ELSE strs[n].len < heap[strs[n].block]

LEMMA StringsFitIs ==
  ASSUME strs \in [Names -> Str]
  PROVE  StringsFit <=>
           /\ ~corrupt
           /\ \A n \in Names : Fits(n)
           /\ \A n, m \in Names : n # m => strs[n].block = NULL \/ strs[m].block # strs[n].block
  BY DEF StringsFit, Fits

LEMMA StringsFitNext ==
  ASSUME strs' \in [Names -> Str], ~corrupt',
         \A n \in Names : Fits(n)',
         \A n, m \in Names : n # m => strs'[n].block = NULL \/ strs'[m].block # strs'[n].block
  PROVE  StringsFit'
  BY DEF StringsFit, Fits

(* str_concat leaves the invariant as it was, whether or not realloc fails.*)
LEMMA ConcatKeeps ==
  ASSUME EnoughBlocks, BufferInv, phase = "performing",
         NEW n \in Response, NEW k \in Nat, NEW ok \in BOOLEAN, Concat(n, k, ok)
  PROVE  /\ strs' \in [Names -> Str] /\ heap' \in [Blocks -> Nat]
         /\ StringsFit' /\ NothingLost'
         /\ \A m \in Response : strs'[m].reserved = SizeOf(heap', strs'[m].block)
<1> DEFINE s == strs[n]
           size == Needed(s, k)
           b == IF s.block = NULL THEN CHOOSE c \in Blocks : heap[c] = 0 ELSE s.block
<1>1. /\ n \in Names /\ s \in Str /\ strs \in [Names -> Str] /\ heap \in [Blocks -> Nat]
      /\ s.len \in Nat /\ s.reserved \in Nat /\ s.block \in Blocks \cup {NULL}
      /\ \A m \in Response : strs[m].reserved = SizeOf(heap, strs[m].block)
  BY DEF BufferInv, CapacityHonest, Str, Names
<1>2. /\ ~corrupt /\ \A m \in Names : Fits(m)
      /\ \A l, m \in Names : l # m => strs[l].block = NULL \/ strs[m].block # strs[l].block
  BY <1>1, StringsFitIs DEF BufferInv
<1>3. size = s.len + k + 1 /\ size \in Nat /\ size > 0
  BY <1>1 DEF Needed
<1>4. b \in Blocks /\ \A m \in Names \ {n} : strs[m].block # b
  <2>1. CASE s.block = NULL
    <3>1. b \in Blocks /\ heap[b] = 0
      BY <1>1, <2>1, FreeBlock
    <3>2. ASSUME NEW m \in Names, strs[m].block = b PROVE FALSE
      <4>1. strs[m].len < heap[b] /\ strs[m].len \in Nat
        BY <1>1, <1>2, <3>1, <3>2, BuffersAssumption DEF Fits, Str
      <4> QED
        BY <3>1, <4>1
    <3> QED
      BY <3>1, <3>2
  <2>2. CASE s.block # NULL
    BY <1>1, <1>2, <2>2
  <2> QED
    BY <2>1, <2>2
<1>5. \/ /\ size <= s.reserved
         /\ strs' = [strs EXCEPT ![n].len = s.len + k]
         /\ corrupt' = (corrupt \/ s.len + k + 1 > SizeOf(heap, s.block))
         /\ UNCHANGED heap
      \/ /\ strs' = [strs EXCEPT ![n] = [Resized(s, size, b, ok) EXCEPT
                                           !.len = IF ok THEN s.len + k ELSE s.len]]
         /\ heap' = IF ok THEN [heap EXCEPT ![b] = size] ELSE heap
         /\ corrupt' = (corrupt \/ (ok /\ s.len + k + 1 > size))
  BY Zenon DEF Concat
<1> HIDE DEF b, size
(* There was room.                                                         *)
<1>6. CASE /\ size <= s.reserved
           /\ strs' = [strs EXCEPT ![n].len = s.len + k]
           /\ corrupt' = (corrupt \/ s.len + k + 1 > SizeOf(heap, s.block))
           /\ UNCHANGED heap
  <2>1. /\ s.block # NULL /\ s.reserved = heap[s.block] /\ s.len + k < heap[s.block]
    BY <1>1, <1>3, <1>6 DEF SizeOf
  <2>2. ~corrupt'
    <3>1. ~(s.len + k + 1 > SizeOf(heap, s.block))
      BY <1>1, <2>1 DEF SizeOf
    <3> QED
      BY <1>2, <1>6, <3>1, Zenon
  <2>3. /\ strs' \in [Names -> Str]
        /\ \A m \in Names : strs'[m].block = strs[m].block /\ strs'[m].reserved = strs[m].reserved
        /\ \A m \in Names \ {n} : strs'[m] = strs[m]
        /\ strs'[n].len = s.len + k
    BY <1>1, <1>6 DEF Str
  <2>4. \A m \in Names : Fits(m)'
    BY <1>1, <1>2, <1>6, <2>1, <2>3 DEF Fits
  <2>5. StringsFit'
    BY <1>2, <2>2, <2>3, <2>4, StringsFitNext
  <2>6. NothingLost'
    BY <1>6, <2>3 DEF BufferInv, NothingLost
  <2> QED
    BY <1>1, <1>6, <2>3, <2>5, <2>6, NamesAre DEF SizeOf
(* realloc fails: nothing changes.                                         *)
<1>7. CASE /\ ~ok
           /\ strs' = [strs EXCEPT ![n] = [Resized(s, size, b, ok) EXCEPT
                                             !.len = IF ok THEN s.len + k ELSE s.len]]
           /\ heap' = IF ok THEN [heap EXCEPT ![b] = size] ELSE heap
           /\ corrupt' = (corrupt \/ (ok /\ s.len + k + 1 > size))
  <2>1. strs' = strs
    <3>1. [Resized(s, size, b, ok) EXCEPT !.len = s.len] = s
      BY <1>1, <1>7 DEF Resized, Str
    <3> QED
      BY <1>1, <1>7, <3>1
  <2>2. heap' = heap /\ ~corrupt'
    BY <1>2, <1>7, Zenon
  <2> QED
    BY <1>1, <2>1, <2>2 DEF BufferInv, StringsFit, NothingLost
(* realloc gives a block of the size needed.                               *)
<1>8. CASE /\ ok
           /\ strs' = [strs EXCEPT ![n] = [Resized(s, size, b, ok) EXCEPT
                                             !.len = IF ok THEN s.len + k ELSE s.len]]
           /\ heap' = IF ok THEN [heap EXCEPT ![b] = size] ELSE heap
           /\ corrupt' = (corrupt \/ (ok /\ s.len + k + 1 > size))
  <2> DEFINE u == Resized(s, size, b, ok)
             r == [u EXCEPT !.len = s.len + k]
  <2>0. u \in Str /\ u.block = b /\ u.reserved = size
    BY <1>1, <1>3, <1>4, <1>8 DEF Resized, Str
  <2> HIDE DEF u
  <2>1. strs' = [strs EXCEPT ![n] = r]
    BY <1>8 DEF u
  <2>2. r \in Str /\ r.block = b /\ r.len = s.len + k /\ r.reserved = size
    BY <1>1, <2>0 DEF Str
  <2> HIDE DEF r
  <2>3. strs' \in [Names -> Str]
    BY <1>1, <2>1, <2>2
  <2>4. /\ \A m \in Names \ {n} : strs'[m] = strs[m]
        /\ strs'[n].block = b /\ strs'[n].len = s.len + k /\ strs'[n].reserved = size
    BY <1>1, <2>1, <2>2
  <2>5. /\ heap' \in [Blocks -> Nat] /\ heap'[b] = size
        /\ \A c \in Blocks \ {b} : heap'[c] = heap[c]
    BY <1>1, <1>3, <1>4, <1>8
  <2>6. ~corrupt'
    <3>1. ~(s.len + k + 1 > size)
      BY <1>1, <1>3
    <3> QED
      BY <1>2, <1>8, <3>1, Zenon
  <2>7. \A m \in Names : Fits(m)'
    <3>1. Fits(n)'
      BY <1>1, <1>3, <1>4, <2>3, <2>4, <2>5, BuffersAssumption DEF Fits
    <3>2. ASSUME NEW m \in Names \ {n} PROVE Fits(m)'
      BY <1>1, <1>2, <1>4, <2>4, <2>5 DEF Fits, Str
    <3> QED
      BY <3>1, <3>2
  <2>8. \A l, m \in Names : l # m => strs'[l].block = NULL \/ strs'[m].block # strs'[l].block
    BY <1>2, <1>4, <2>4
  <2>9. StringsFit'
    BY <2>3, <2>6, <2>7, <2>8, StringsFitNext
  <2>10. NothingLost'
    <3>1. ASSUME NEW c \in Blocks, heap'[c] # 0, c # b
          PROVE  \E m \in Names : strs'[m].block = c
      <4>1. PICK m \in Names : strs[m].block = c
        BY <2>5, <3>1 DEF BufferInv, NothingLost
      <4>2. m # n
        BY <1>4, <3>1, <4>1, BuffersAssumption DEF b
      <4> QED
        BY <2>4, <4>1, <4>2
    <3> QED
      BY <1>1, <2>4, <3>1 DEF NothingLost
  <2>11. \A m \in Response : strs'[m].reserved = SizeOf(heap', strs'[m].block)
    <3>1. ASSUME NEW m \in Response \ {n} PROVE strs'[m].reserved = SizeOf(heap', strs'[m].block)
      <4>1. m \in Names /\ strs'[m] = strs[m] /\ strs[m].block # b
            /\ strs[m].block \in Blocks \cup {NULL}
        BY <1>1, <1>4, <2>4 DEF Names, Str
      <4> QED
        BY <1>1, <2>5, <4>1 DEF SizeOf
    <3> QED
      BY <1>4, <2>4, <2>5, <3>1, BuffersAssumption DEF SizeOf
  <2> QED
    BY <2>3, <2>5, <2>9, <2>10, <2>11
<1> QED
  BY <1>5, <1>6, <1>7, <1>8

(* str_destroy frees what the strings named held, and makes them null.     *)
LEMMA DestroyKeeps ==
  ASSUME BufferInv, NEW names \in SUBSET Names, Destroy(names)
  PROVE  /\ strs' \in [Names -> Str] /\ heap' \in [Blocks -> Nat]
         /\ StringsFit' /\ NothingLost'
         /\ \A n \in Names : strs'[n] = IF n \in names THEN Empty ELSE strs[n]
<1>1. /\ strs \in [Names -> Str] /\ heap \in [Blocks -> Nat]
      /\ ~corrupt /\ \A m \in Names : Fits(m)
      /\ \A l, m \in Names : l # m => strs[l].block = NULL \/ strs[m].block # strs[l].block
  BY StringsFitIs DEF BufferInv
<1> DEFINE freed == {strs[n].block : n \in names} \ {NULL}
<1>2. /\ strs' = [n \in Names |-> IF n \in names THEN Empty ELSE strs[n]]
      /\ heap' = [b \in Blocks |-> IF b \in freed THEN 0 ELSE heap[b]]
      /\ corrupt' = (corrupt \/ \E b \in freed : heap[b] = 0)
  BY <1>1 DEF Destroy
<1>3. \A n \in Names : strs[n] \in Str /\ strs[n].block \in Blocks \cup {NULL}
  BY <1>1 DEF Str
<1>4. strs' \in [Names -> Str] /\ heap' \in [Blocks -> Nat]
  BY <1>1, <1>2, EmptyType
<1>5. \A n \in Names : strs'[n] = IF n \in names THEN Empty ELSE strs[n]
  BY <1>2
<1>6. ~corrupt'
  <2>1. ASSUME NEW b \in freed, heap[b] = 0 PROVE FALSE
    <3>1. PICK n \in names : strs[n].block = b /\ b # NULL
      BY <2>1
    <3>2. strs[n].len < heap[b] /\ strs[n].len \in Nat
      BY <1>1, <3>1 DEF Fits, Str
    <3> QED
      BY <2>1, <3>2
  <2> QED
    BY <1>1, <1>2, <2>1, Zenon
(* The blocks of the other strings are not freed.                          *)
<1>7. ASSUME NEW m \in Names, m \notin names, strs[m].block # NULL
      PROVE  heap'[strs[m].block] = heap[strs[m].block]
  <2>1. strs[m].block \notin freed
    BY <1>1, <1>7
  <2> QED
    BY <1>2, <1>3, <1>7, <2>1
<1>8. \A m \in Names : Fits(m)'
  <2>1. ASSUME NEW m \in Names, m \in names PROVE Fits(m)'
    BY <1>5, <2>1, EmptyType DEF Fits
  <2>2. ASSUME NEW m \in Names, m \notin names PROVE Fits(m)'
    BY <1>1, <1>5, <1>7, <2>2 DEF Fits
  <2> QED
    BY <2>1, <2>2
<1>9. \A l, m \in Names : l # m => strs'[l].block = NULL \/ strs'[m].block # strs'[l].block
  BY <1>1, <1>5, EmptyType
<1>10. NothingLost'
  <2>1. ASSUME NEW b \in Blocks, heap'[b] # 0 PROVE \E n \in Names : strs'[n].block = b
    <3>1. b \notin freed /\ heap[b] # 0
      BY <1>2, <2>1
    <3>2. PICK n \in Names : strs[n].block = b
      BY <3>1 DEF BufferInv, NothingLost
    <3>3. n \notin names
      BY <3>1, <3>2, BuffersAssumption
    <3> QED
      BY <1>5, <3>2, <3>3
  <2> QED
    BY <2>1 DEF NothingLost
<1> QED
  BY <1>4, <1>5, <1>6, <1>8, <1>9, <1>10, StringsFitNext

LEMMA TransferSteps == [BufferNext]_<<vars, bufferVars>> => [Next]_vars
<1>1. ASSUME NEW u \in Uris, ClearResponse(u) PROVE Next
  BY <1>1 DEF ClearResponse, Next
<1>2. ASSUME NEW ok \in MayStore, ReceivePiece(ok) PROVE Next
  BY <1>2 DEF ReceivePiece, Next, Callback
<1> QED
  BY <1>1, <1>2
  DEF BufferNext, InitRequest, Request, EndTransfer, SwapIntoCache, DestroyRequest,
      DestroyEntry, Next

LEMMA InitRequestKeeps ==
  ASSUME EnoughBlocks, BufferInv, TypeOK', NEW u \in Uris,
         NEW caller \in {"token", "list", "check", "load"}, NEW ok \in BOOLEAN,
         InitRequest(u, caller, ok)
  PROVE  BufferInv'
<1> DEFINE b == CHOOSE c \in Blocks : heap[c] = 0
           listed == [block |-> b, len |-> 1, reserved |-> 2]
           list == IF caller # "token" /\ ok THEN listed ELSE Empty
<1>1. /\ strs \in [Names -> Str] /\ heap \in [Blocks -> Nat]
      /\ ~corrupt /\ \A m \in Names : Fits(m)
      /\ \A l, m \in Names : l # m => strs[l].block = NULL \/ strs[m].block # strs[l].block
  BY StringsFitIs DEF BufferInv
<1>2. /\ phase = "none" /\ phase' = "ready"
      /\ strs' = [strs EXCEPT !["body"] = Empty, !["headers"] = Empty, !["list"] = list]
      /\ heap' = (IF list = Empty THEN heap ELSE [heap EXCEPT ![b] = list.reserved])
      /\ corrupt' = corrupt
  BY DEF InitRequest, CiInit
<1>3. \A m \in Names \ {"cache"} : strs[m] = Empty
  BY <1>2 DEF BufferInv, NoRequest
<1>4. b \in Blocks /\ heap[b] = 0
  <2>1. strs["list"].block = NULL /\ "list" \in Names
    BY <1>3, EmptyType, NamesAre
  <2> QED
    BY <2>1, FreeBlock
<1>5. \A m \in Names : strs[m].block # b
  BY <1>1, <1>4, BuffersAssumption DEF Fits, Str
<1>6. listed \in Str /\ listed.block = b /\ listed.len = 1 /\ listed.reserved = 2
  BY <1>4 DEF Str
<1> HIDE DEF b, listed, list
<1>7. CASE list = Empty
  <2>1. strs' = strs
    BY <1>1, <1>2, <1>3, <1>7, NamesAre
  <2> QED
    BY <1>1, <1>2, <1>3, <1>7, <2>1, EmptyType, NamesAre
    DEF BufferInv, StringsFit, NothingLost, NoRequest, CapacityHonest, SizeOf
<1>8. CASE list # Empty
  <2>0. list = listed
    BY <1>8 DEF list
  <2>1. /\ strs' = [strs EXCEPT !["list"] = listed]
        /\ heap' = [heap EXCEPT ![b] = 2]
    <3>1. strs' = [strs EXCEPT !["list"] = listed]
      BY <1>1, <1>2, <1>3, <2>0, NamesAre
    <3> QED
      BY <1>2, <1>6, <1>8, <2>0, <3>1
  <2>2. /\ strs' \in [Names -> Str] /\ heap' \in [Blocks -> Nat]
        /\ strs'["list"] = listed /\ heap'[b] = 2
        /\ \A m \in Names \ {"list"} : strs'[m] = strs[m]
        /\ \A c \in Blocks \ {b} : heap'[c] = heap[c]
    BY <1>1, <1>4, <1>6, <2>1, NamesAre
  <2>3. \A m \in Names : Fits(m)'
    <3>1. Fits("list")'
      BY <1>4, <1>6, <2>2, BuffersAssumption DEF Fits
    <3>2. ASSUME NEW m \in Names \ {"list"} PROVE Fits(m)'
      BY <1>1, <1>5, <2>2 DEF Fits, Str
    <3> QED
      BY <3>1, <3>2
  <2>4. \A l, m \in Names : l # m => strs'[l].block = NULL \/ strs'[m].block # strs'[l].block
    BY <1>1, <1>5, <1>6, <2>2
  <2>5. StringsFit'
    BY <1>1, <1>2, <2>2, <2>3, <2>4, StringsFitNext
  <2>6. NothingLost'
    <3>1. ASSUME NEW c \in Blocks, heap'[c] # 0 PROVE \E m \in Names : strs'[m].block = c
      <4>1. CASE c = b
        BY <1>6, <2>2, <4>1, NamesAre
      <4>2. CASE c # b
        <5>1. PICK m \in Names : strs[m].block = c
          BY <2>2, <3>1, <4>2 DEF BufferInv, NothingLost
        <5>2. m # "list"
          BY <1>3, <5>1, EmptyType, BuffersAssumption, NamesAre
        <5> QED
          BY <2>2, <5>1, <5>2
      <4> QED
        BY <4>1, <4>2
    <3> QED
      BY <3>1 DEF NothingLost
  <2>7. CapacityHonest'
    BY <1>3, <2>2, EmptyType, NamesAre DEF CapacityHonest, SizeOf
  <2> QED
    BY <1>2, <2>2, <2>5, <2>6, <2>7 DEF BufferInv, NoRequest
<1> QED
  BY <1>7, <1>8

LEMMA SwapKeeps ==
  ASSUME BufferInv, TypeOK', SwapIntoCache
  PROVE  BufferInv'
<1> DEFINE b == strs["body"]
           c == strs["cache"]
<1>1. /\ strs \in [Names -> Str] /\ heap \in [Blocks -> Nat]
      /\ ~corrupt /\ \A m \in Names : Fits(m)
      /\ \A l, m \in Names : l # m => strs[l].block = NULL \/ strs[m].block # strs[l].block
  BY StringsFitIs DEF BufferInv
<1>2. /\ UNCHANGED <<heap, corrupt>> /\ phase' = "done"
      /\ strs' = [strs EXCEPT !["body"]  = Swapped(b, c), !["cache"] = Swapped(c, b)]
  BY DEF SwapIntoCache, vars
<1>3. b \in Str /\ c \in Str
  BY <1>1, NamesAre
<1>4. /\ Swapped(b, c) \in Str /\ Swapped(b, c).block = c.block /\ Swapped(b, c).len = c.len
      /\ Swapped(c, b) \in Str /\ Swapped(c, b).block = b.block /\ Swapped(c, b).len = b.len
  BY <1>3 DEF Swapped, Str
<1>5. /\ strs' \in [Names -> Str]
      /\ strs'["body"] = Swapped(b, c) /\ strs'["cache"] = Swapped(c, b)
      /\ \A m \in Names \ {"body", "cache"} : strs'[m] = strs[m]
  BY <1>1, <1>2, <1>4, NamesAre
(* The new string n is the old string Other(n), but for its capacity.      *)
<1> DEFINE Other(n) == IF n = "body" THEN "cache" ELSE IF n = "cache" THEN "body" ELSE n
<1>6. \A n \in Names : /\ Other(n) \in Names
                       /\ strs'[n].block = strs[Other(n)].block
                       /\ strs'[n].len = strs[Other(n)].len
  BY <1>4, <1>5, NamesAre
<1>7. /\ \A l, m \in Names : l # m => Other(l) # Other(m)
      /\ \A n \in Names : Other(Other(n)) = n
  OBVIOUS
<1> HIDE DEF Other
<1>8. \A n \in Names : Fits(n)'
  BY <1>1, <1>2, <1>5, <1>6 DEF Fits
<1>9. \A l, m \in Names : l # m => strs'[l].block = NULL \/ strs'[m].block # strs'[l].block
  BY <1>1, <1>6, <1>7
<1>10. StringsFit'
  BY <1>1, <1>2, <1>5, <1>8, <1>9, StringsFitNext
<1>11. NothingLost'
  BY <1>2, <1>6, <1>7 DEF BufferInv, NothingLost
<1> QED
  BY <1>1, <1>2, <1>5, <1>10, <1>11 DEF BufferInv, CapacityHonest, NoRequest

LEMMA DestroyRequestKeeps ==
  ASSUME BufferInv, TypeOK', DestroyRequest
  PROVE  BufferInv'
<1>1. /\ strs \in [Names -> Str] /\ heap \in [Blocks -> Nat]
      /\ ~corrupt /\ \A m \in Names : Fits(m)
      /\ \A l, m \in Names : l # m => strs[l].block = NULL \/ strs[m].block # strs[l].block
  BY StringsFitIs DEF BufferInv
<1>2. /\ phase' = "none"
      /\ strs' = [n \in Names |-> IF n = "cache" THEN strs[n] ELSE Empty]
      /\ heap' = [b \in Blocks |-> IF \E n \in Names : strs'[n].block = b THEN heap[b] ELSE 0]
      /\ corrupt' = (corrupt \/ (strs["list"].block # NULL /\ heap[strs["list"].block] = 0))
  BY <1>1 DEF DestroyRequest, CiDestroy, Held
<1>3. /\ strs' \in [Names -> Str] /\ heap' \in [Blocks -> Nat]
      /\ strs'["cache"] = strs["cache"]
      /\ \A m \in Names \ {"cache"} : strs'[m] = Empty
  BY <1>1, <1>2, EmptyType, NamesAre
<1>4. ~corrupt'
  <2>1. ~(strs["list"].block # NULL /\ heap[strs["list"].block] = 0)
    BY <1>1, NamesAre DEF Fits, Str
  <2> QED
    BY <1>1, <1>2, <2>1, Zenon
<1>5. \A m \in Names : Fits(m)'
  <2>1. ASSUME strs["cache"].block # NULL
        PROVE  heap'[strs["cache"].block] = heap[strs["cache"].block]
    BY <1>1, <1>2, <1>3, <2>1, NamesAre DEF Str
  <2>2. Fits("cache")'
    BY <1>1, <1>3, <2>1, NamesAre DEF Fits
  <2> QED
    BY <1>3, <2>2, EmptyType DEF Fits
<1>6. \A l, m \in Names : l # m => strs'[l].block = NULL \/ strs'[m].block # strs'[l].block
  BY <1>3, EmptyType
<1>7. StringsFit'
  BY <1>3, <1>4, <1>5, <1>6, StringsFitNext
<1>8. NothingLost'
  BY <1>2 DEF NothingLost
<1> QED
  BY <1>2, <1>3, <1>7, <1>8 DEF BufferInv, CapacityHonest, NoRequest

LEMMA BufferInvStep ==
  ASSUME EnoughBlocks, BufferInv, [BufferNext]_<<vars, bufferVars>>
  PROVE  BufferInv'
<1>t. TypeOK'
  BY TransferSteps, TypeStep DEF BufferInv
<1>o. MayStore \subseteq BOOLEAN
  BY DEF MayStore
<1>1. ASSUME NEW u \in Uris, NEW caller \in {"token", "list", "check", "load"},
             NEW ok \in MayStore, InitRequest(u, caller, ok)
      PROVE  BufferInv'
  BY <1>t, <1>o, <1>1, InitRequestKeeps
<1>2. ASSUME UNCHANGED bufferVars,
             \/ phase' = phase \/ phase' = "done"
             \/ phase = "ready" /\ phase' = "performing"
      PROVE  BufferInv'
  <2>1. UNCHANGED <<strs, heap, corrupt>>
    BY <1>2 DEF bufferVars
  <2>2. StringsFit' /\ NothingLost'
    BY <2>1 DEF BufferInv, StringsFit, NothingLost
  <2>3. CapacityHonest' /\ NoRequest'
    BY <1>2, <2>1 DEF BufferInv, CapacityHonest, NoRequest, SizeOf
  <2> QED
    BY <1>t, <2>1, <2>2, <2>3 DEF BufferInv
<1>3. ASSUME NEW a \in Answers[uri], Request(a) PROVE BufferInv'
  <2>1. UNCHANGED bufferVars /\ phase = "ready" /\ phase' = "performing"
    BY <1>3 DEF Request, CiRequest
  <2> QED
    BY <1>2, <2>1
<1>4. ASSUME NEW ok \in MayStore, ReceivePiece(ok) PROVE BufferInv'
  <2> DEFINE n == IF header THEN "body" ELSE "headers"
             k == Bytes[answer[arrived + 1].data]
  <2>1. /\ phase = "performing" /\ phase' = "performing" /\ n \in Response
        /\ Concat(n, k, ok) /\ arrived < Len(answer)
    BY <1>4, NamesAre DEF ReceivePiece, Receive
  <2>2. k \in Nat
    <3>1. answer[arrived + 1] \in Piece
      BY <2>1 DEF BufferInv, TypeOK
    <3> QED
      BY <3>1, BuffersAssumption DEF Piece
  <2>3. ok \in BOOLEAN
    BY <1>o
  <2> HIDE DEF n, k
  <2>4. /\ strs' \in [Names -> Str] /\ heap' \in [Blocks -> Nat]
        /\ StringsFit' /\ NothingLost'
        /\ \A m \in Response : strs'[m].reserved = SizeOf(heap', strs'[m].block)
    BY <2>1, <2>2, <2>3, ConcatKeeps
  <2> QED
    BY <1>t, <2>1, <2>4 DEF BufferInv, CapacityHonest, NoRequest, SizeOf
<1>5. CASE EndTransfer
  BY <1>2, <1>5 DEF EndTransfer, Perform
<1>6. ASSUME NEW u \in Uris, ClearResponse(u) PROVE BufferInv'
  <2>1. Destroy(Response) /\ Response \in SUBSET Names /\ phase' = "ready"
    BY <1>6 DEF ClearResponse, CiClearResponse, Names
  <2>2. /\ strs' \in [Names -> Str] /\ heap' \in [Blocks -> Nat]
        /\ StringsFit' /\ NothingLost'
        /\ \A n \in Names : strs'[n] = IF n \in Response THEN Empty ELSE strs[n]
    BY <2>1, DestroyKeeps
  <2>3. CapacityHonest'
    BY <2>2, EmptyType, NamesAre DEF CapacityHonest, SizeOf
  <2> QED
    BY <1>t, <2>1, <2>2, <2>3 DEF BufferInv, NoRequest
<1>7. CASE SwapIntoCache
  BY <1>t, <1>7, SwapKeeps
<1>8. CASE DestroyRequest
  BY <1>t, <1>8, DestroyRequestKeeps
<1>9. CASE DestroyEntry
  <2>1. Destroy({"cache"}) /\ {"cache"} \in SUBSET Names /\ phase' = phase /\ phase = "none"
    BY <1>9, NamesAre DEF DestroyEntry, vars
  <2>2. /\ strs' \in [Names -> Str] /\ heap' \in [Blocks -> Nat]
        /\ StringsFit' /\ NothingLost'
        /\ \A n \in Names : strs'[n] = IF n \in {"cache"} THEN Empty ELSE strs[n]
    BY <2>1, DestroyKeeps
  <2>3. NoRequest'
    BY <2>1, <2>2 DEF BufferInv, NoRequest
  <2> QED
    BY <1>t, <2>1, <2>2, <2>3 DEF BufferInv, CapacityHonest
<1>10. CASE UNCHANGED <<vars, bufferVars>>
  BY <1>2, <1>10 DEF vars
<1> QED
  BY <1>1, <1>3, <1>4, <1>5, <1>6, <1>7, <1>8, <1>9, <1>10 DEF BufferNext

LEMMA BufferInvAlways == ASSUME EnoughBlocks PROVE BufferSpec => []BufferInv
<1>1. BufferInv /\ [BufferNext]_<<vars, bufferVars>> => BufferInv'
  BY BufferInvStep
<1> QED
  BY <1>1, BufferInvInit, PTL DEF BufferSpec

(* For pieces of any size, any number of requests and pages, and whichever *)
(* reallocs fail: no store of str.c leaves its block, no two strings share *)
(* one, and none is freed twice.                                           *)
THEOREM StringsAlwaysFit == ASSUME EnoughBlocks PROVE BufferSpec => []StringsFit
<1>1. BufferInv => StringsFit
  BY DEF BufferInv
<1> QED
  BY <1>1, BufferInvAlways, PTL

(* While a response may still grow, its strings know the sizes of their    *)
(* blocks: what str_swap leaves wrong is never used for an append.         *)
THEOREM CapacityStaysHonest == ASSUME EnoughBlocks PROVE BufferSpec => []CapacityHonest
<1>1. BufferInv => CapacityHonest
  BY DEF BufferInv
<1> QED
  BY <1>1, BufferInvAlways, PTL

(* The steps of the buffers are composed with those of the transfer, which *)
(* carries what is known of the transfer over to them.                     *)
LEMMA BuffersAreTransfers == BufferSpec => Spec
<1>1. BufferInit => Init
  BY DEF BufferInit
<1> QED
  BY <1>1, TransferSteps, PTL DEF BufferSpec, Spec

(* The strings hold pieces of answers only, and no more of the current     *)
(* answer arrives than it has.                                             *)
THEOREM TransferTypeCorrect == BufferSpec => []TypeOK
  BY BuffersAreTransfers, TransferTypes

(* ci_callback_controller puts every piece into its section, in order, for *)
(* any number of requests over one request_t, if every answer has a single *)
(* block of headers and none of its pieces met a failing allocation.       *)
THEOREM SplitsExactly ==
  ASSUME Conforming
  PROVE  BufferSpec => []SplitExact
  BY Conforming, BuffersAreTransfers, TransferSplits

-----------------------------------------------------------------------------
(* What the strings hold.                                                  *)

(* The size of a text is that of its pieces, one after the other.          *)
Sums(f, s) == /\ f[0] = 0
              /\ \A k \in 1..Len(s) : f[k] = f[k - 1] + Bytes[s[k].data]

LEMMA TotalIsSum ==
  ASSUME NEW s \in Seq(Piece)
  PROVE  \E f \in [0..Len(s) -> Nat] : Sums(f, s) /\ Total(s) = f[Len(s)]
<1> DEFINE n    == Len(s)
           size == [k \in 1..n |-> Bytes[s[k].data]]
           step == [k \in 1..n |-> [x \in Nat |-> x + size[k]]]
<1>1. n \in Nat /\ size \in [1..n -> Nat]
  <2>1. ASSUME NEW k \in 1..n PROVE Bytes[s[k].data] \in Nat
    <3>1. s[k] \in Piece
      OBVIOUS
    <3> QED
      BY <3>1, BuffersAssumption DEF Piece
  <2> QED
    BY <2>1
<1>2. \A k \in 1..n : size[k] = Bytes[s[k].data]
  OBVIOUS
<1> HIDE DEF n, size
<1>3. Steps(step, n, Nat)
  BY <1>1 DEF Steps
<1>4. PICK f : Recursive(f, 0, step, n, Nat)
  <2> HIDE DEF step
  <2> QED
    BY <1>1, <1>3, RecursionExists
<1>5. \A k \in 1..n : f[k] = f[k - 1] + size[k]
  <2> SUFFICES ASSUME NEW k \in 1..n PROVE f[k] = f[k - 1] + size[k]
    OBVIOUS
  <2>1. f[k - 1] \in Nat
    BY <1>1, <1>4 DEF Recursive
  <2> QED
    BY <1>4, <2>1 DEF Recursive
<1>6. f \in [0..n -> Nat] /\ f[0] = 0
  BY <1>4 DEF Recursive
<1> DEFINE Eq(h) == h = [k \in 0..n |-> IF k = 0 THEN 0 ELSE h[k - 1] + Bytes[s[k].data]]
           g     == CHOOSE h : Eq(h)
<1>7. Eq(f)
  <2>1. \A k \in 0..n : f[k] = IF k = 0 THEN 0 ELSE f[k - 1] + Bytes[s[k].data]
    BY <1>1, <1>2, <1>5, <1>6
  <2>2. f = [k \in 0..n |-> f[k]]
    BY <1>6
  <2> QED
    BY <2>1, <2>2, Zenon
<1>8. Eq(g)
  <2> HIDE DEF Eq
  <2> QED
    BY <1>7
<1>9. Total(s) = g[n]
  BY DEF Total, n
<1>10. Alike(f, g, n)
  <2>1. \A k \in 0..n : g[k] = IF k = 0 THEN 0 ELSE g[k - 1] + Bytes[s[k].data]
    <3> HIDE DEF g
    <3> QED
      BY <1>8
  <2> HIDE DEF g
  <2>2. g[0] = 0
    <3>1. 0 \in 0..n
      BY <1>1
    <3> QED
      BY <2>1, <3>1
  <2>3. ASSUME NEW k \in 1..n PROVE g[k] = g[k - 1] + size[k]
    <3>1. k \in 0..n /\ k # 0
      BY <1>1
    <3>2. g[k] = g[k - 1] + Bytes[s[k].data]
      BY <2>1, <3>1, Zenon
    <3> QED
      BY <1>2, <3>2, Zenon
  <2>4. ASSUME NEW k \in 1..n, f[k - 1] = g[k - 1] PROVE f[k] = g[k]
    <3>1. f[k] = f[k - 1] + size[k] /\ g[k] = g[k - 1] + size[k]
      BY <1>5, <2>3, Zenon
    <3> QED
      BY <2>4, <3>1, Zenon
  <2>5. f[0] = g[0]
    BY <1>6, <2>2
  <2> QED
    BY <2>4, <2>5, Zenon DEF Alike
<1>11. f[n] = g[n]
  <2> HIDE DEF g
  <2> QED
    BY <1>1, <1>10, SameRecursion, Zenon
<1>12. Sums(f, s)
  BY <1>2, <1>5, <1>6 DEF Sums, n
<1> QED
  BY <1>6, <1>9, <1>11, <1>12 DEF n

LEMMA TotalOfNothing == Total(<<>>) = 0
<1>1. <<>> \in Seq(Piece) /\ Len(<<>>) = 0
  OBVIOUS
<1> QED
  BY <1>1, TotalIsSum DEF Sums

LEMMA TotalAppend ==
  ASSUME NEW s \in Seq(Piece), NEW p \in Piece
  PROVE  Total(s) \in Nat /\ Total(Append(s, p)) = Total(s) + Bytes[p.data]
<1> DEFINE n == Len(s)
           t == Append(s, p)
<1>1. t \in Seq(Piece) /\ Len(t) = n + 1 /\ n \in Nat /\ t[n + 1] = p
      /\ \A k \in 1..n : t[k] = s[k]
  OBVIOUS
<1> HIDE DEF t
<1>2. PICK f \in [0..n -> Nat] : Sums(f, s) /\ Total(s) = f[n]
  BY TotalIsSum
<1>3. PICK g \in [0..(n + 1) -> Nat] : Sums(g, t) /\ Total(t) = g[n + 1]
  BY <1>1, TotalIsSum
<1>4. Alike(f, g, n)
  <2>1. ASSUME NEW k \in 1..n, f[k - 1] = g[k - 1] PROVE f[k] = g[k]
    <3>1. f[k] = f[k - 1] + Bytes[s[k].data]
      BY <1>2 DEF Sums
    <3>2. g[k] = g[k - 1] + Bytes[t[k].data]
      BY <1>1, <1>3 DEF Sums
    <3> QED
      BY <1>1, <2>1, <3>1, <3>2
  <2>2. f[0] = g[0]
    BY <1>2, <1>3 DEF Sums
  <2> QED
    BY <2>1, <2>2 DEF Alike
<1>5. f[n] = g[n]
  <2> HIDE DEF n
  <2> QED
    BY <1>1, <1>4, SameRecursion, Zenon
<1>6. g[n + 1] = g[n] + Bytes[p.data]
  <2>1. n + 1 \in 1..(n + 1) /\ (n + 1) - 1 = n
    BY <1>1
  <2>2. g[n + 1] = g[(n + 1) - 1] + Bytes[t[n + 1].data]
    BY <1>1, <1>3, <2>1 DEF Sums
  <2> HIDE DEF n
  <2> QED
    BY <1>1, <2>1, <2>2
<1>7. f[n] \in Nat
  BY <1>1, <1>2
<1> HIDE DEF n
<1> QED
  BY <1>2, <1>3, <1>5, <1>6, <1>7 DEF t

(* The string of a response that received nothing is null; the body is in  *)
(* the cache from the swap on, which comes after the last piece.           *)
Contents ==
  /\ phase # "none" =>
       LET of == IF use = "cached" THEN strs["cache"] ELSE strs["body"] IN
       /\ of.len = Total(body) /\ strs["headers"].len = Total(headers)
       /\ of.block = NULL <=> body = <<>>
  /\ phase \in {"ready", "performing"} => use # "cached"

LEMMA ConcatStores ==
  ASSUME EnoughBlocks, BufferInv, phase = "performing",
         NEW n \in Response, NEW k \in Nat, NEW ok \in BOOLEAN, Concat(n, k, ok)
  PROVE  /\ strs'[n].len = IF ok THEN strs[n].len + k ELSE strs[n].len
         /\ strs'[n].block = NULL <=> strs[n].block = NULL /\ ~ok
         /\ \A m \in Names \ {n} : strs'[m] = strs[m]
<1> DEFINE s == strs[n]
           size == Needed(s, k)
           b == IF s.block = NULL THEN CHOOSE c \in Blocks : heap[c] = 0 ELSE s.block
<1>1. /\ n \in Names /\ s \in Str /\ strs \in [Names -> Str]
      /\ s.len \in Nat /\ s.reserved \in Nat /\ s.block \in Blocks \cup {NULL}
      /\ s.reserved = SizeOf(heap, s.block)
  BY DEF BufferInv, CapacityHonest, Str, Names
<1>2. size \in Nat /\ size > 0
  BY <1>1 DEF Needed
<1>3. b \in Blocks /\ b # NULL
  <2>1. s.block = NULL => \E c \in Blocks : heap[c] = 0
    BY <1>1, FreeBlock
  <2> QED
    BY <1>1, <2>1, BuffersAssumption
<1>4. \/ size <= s.reserved /\ ok /\ strs' = [strs EXCEPT ![n].len = s.len + k]
      \/ strs' = [strs EXCEPT ![n] = [Resized(s, size, b, ok) EXCEPT
                                        !.len = IF ok THEN s.len + k ELSE s.len]]
  BY Zenon DEF Concat
<1> HIDE DEF size, b
<1>5. CASE size <= s.reserved /\ ok /\ strs' = [strs EXCEPT ![n].len = s.len + k]
  <2>1. s.block # NULL
    BY <1>1, <1>2, <1>5 DEF SizeOf
  <2> QED
    BY <1>1, <1>5, <2>1 DEF Str
<1>6. CASE strs' = [strs EXCEPT ![n] = [Resized(s, size, b, ok) EXCEPT
                                          !.len = IF ok THEN s.len + k ELSE s.len]]
  <2> DEFINE u == Resized(s, size, b, ok)
             r == [u EXCEPT !.len = IF ok THEN s.len + k ELSE s.len]
  <2>1. u \in Str /\ u.block = IF ok THEN b ELSE s.block
    BY <1>1, <1>2, <1>3 DEF Resized, Str
  <2> HIDE DEF u
  <2>2. r.block = u.block /\ r.len = IF ok THEN s.len + k ELSE s.len
    BY <2>1 DEF Str
  <2>3. strs' = [strs EXCEPT ![n] = r]
    BY <1>6 DEF u
  <2> HIDE DEF r
  <2>4. strs'[n] = r /\ \A m \in Names \ {n} : strs'[m] = strs[m]
    BY <1>1, <2>3
  <2> QED
    BY <1>1, <1>3, <2>1, <2>2, <2>4
<1> QED
  BY <1>4, <1>5, <1>6

LEMMA ContentsInit == BufferInit => Contents
  BY DEF BufferInit, Init, Idle, Contents

(* One piece goes to the string that the callback picked for it.           *)
LEMMA ReceiveStores ==
  ASSUME EnoughBlocks, BufferInv, Contents, NEW ok \in BOOLEAN, ReceivePiece(ok)
  PROVE  Contents'
<1> DEFINE n == IF header THEN "body" ELSE "headers"
           p == answer[arrived + 1]
           k == Bytes[p.data]
<1>1. /\ phase = "performing" /\ phase' = "performing" /\ n \in Response
      /\ Concat(n, k, ok) /\ arrived < Len(answer) /\ use' = use /\ use # "cached"
      /\ header \in BOOLEAN
  BY NamesAre DEF ReceivePiece, Receive, Contents, BufferInv, TypeOK
<1>2. p \in Piece /\ headers \in Seq(Piece) /\ body \in Seq(Piece)
  BY <1>1 DEF BufferInv, TypeOK
<1>3. k \in Nat
  BY <1>2, BuffersAssumption DEF Piece
<1>4. /\ headers' = IF header \/ ~ok THEN headers ELSE Append(headers, p)
      /\ body' = IF header /\ ok THEN Append(body, p) ELSE body
  BY DEF ReceivePiece, Receive, Stored
<1> HIDE DEF n, p, k
<1>5. /\ strs'[n].len = IF ok THEN strs[n].len + k ELSE strs[n].len
      /\ strs'[n].block = NULL <=> strs[n].block = NULL /\ ~ok
      /\ \A m \in Names \ {n} : strs'[m] = strs[m]
  BY <1>1, <1>3, ConcatStores
<1>6. /\ strs["body"].len = Total(body) /\ strs["headers"].len = Total(headers)
      /\ strs["body"].block = NULL <=> body = <<>>
  BY <1>1 DEF Contents
<1>7. ASSUME NEW s \in Seq(Piece)
      PROVE  Append(s, p) # <<>> /\ Total(Append(s, p)) = Total(s) + k
  <2>1. Append(s, p) # <<>>
    BY <1>2
  <2>2. Total(Append(s, p)) = Total(s) + k
    BY <1>2, TotalAppend DEF k
  <2> QED
    BY <2>1, <2>2
<1>8. Total(headers)' = Total(headers') /\ Total(body)' = Total(body')
  BY DEF Total
<1>9. CASE header
  <2>1. n = "body" /\ strs'["headers"] = strs["headers"] /\ headers' = headers
    BY <1>4, <1>5, <1>9, NamesAre DEF n
  <2>2. CASE ok
    BY <1>1, <1>2, <1>4, <1>5, <1>6, <1>7, <1>8, <1>9, <2>1, <2>2 DEF Contents
  <2>3. CASE ~ok
    BY <1>1, <1>4, <1>5, <1>6, <1>8, <1>9, <2>1, <2>3 DEF Contents
  <2> QED
    BY <2>2, <2>3
<1>10. CASE ~header
  <2>1. n = "headers" /\ strs'["body"] = strs["body"] /\ body' = body
    BY <1>4, <1>5, <1>10, NamesAre DEF n
  <2>2. CASE ok
    BY <1>1, <1>2, <1>4, <1>5, <1>6, <1>7, <1>8, <1>10, <2>1, <2>2 DEF Contents
  <2>3. CASE ~ok
    BY <1>1, <1>4, <1>5, <1>6, <1>8, <1>10, <2>1, <2>3 DEF Contents
  <2> QED
    BY <2>2, <2>3
<1> QED
  BY <1>1, <1>9, <1>10

LEMMA ContentsStep ==
  ASSUME EnoughBlocks, BufferInv, Contents, [BufferNext]_<<vars, bufferVars>>
  PROVE  Contents'
<1>0. ASSUME NEW s PROVE Total(s)' = Total(s')
  BY DEF Total
<1>1. ASSUME NEW u \in Uris, NEW caller \in {"token", "list", "check", "load"},
             NEW ok \in MayStore, InitRequest(u, caller, ok)
      PROVE  Contents'
  <2>1. /\ use' = caller /\ headers' = <<>> /\ body' = <<>>
        /\ \E l : strs' = [strs EXCEPT !["body"] = Empty, !["headers"] = Empty, !["list"] = l]
    BY <1>1 DEF InitRequest, CiInit
  <2>2. strs'["body"] = Empty /\ strs'["headers"] = Empty
    BY <2>1, NamesAre DEF BufferInv
  <2>3. Total(headers)' = 0 /\ Total(body)' = 0
    BY <1>0, <2>1, TotalOfNothing
  <2> QED
    BY <2>1, <2>2, <2>3, EmptyType DEF Contents
<1>2. ASSUME UNCHANGED <<bufferVars, headers, body>>,
             \/ phase' = phase
             \/ phase = "performing" /\ phase' = "done"
             \/ phase = "ready" /\ phase' = "performing"
      PROVE  Contents'
  <2>1. Total(headers)' = Total(headers) /\ Total(body)' = Total(body)
    BY <1>0, <1>2
  <2> QED
    BY <1>2, <2>1 DEF Contents, bufferVars
<1>3. ASSUME NEW a \in Answers[uri], Request(a) PROVE Contents'
  BY <1>2, <1>3 DEF Request, CiRequest
<1>4. ASSUME NEW ok \in MayStore, ReceivePiece(ok) PROVE Contents'
  <2>1. ok \in BOOLEAN
    BY DEF MayStore
  <2> QED
    BY <1>4, <2>1, ReceiveStores
<1>5. CASE EndTransfer
  BY <1>2, <1>5 DEF EndTransfer, Perform
<1>6. ASSUME NEW u \in Uris, ClearResponse(u) PROVE Contents'
  <2>1. /\ use' = "listed" /\ headers' = <<>> /\ body' = <<>>
        /\ Destroy(Response) /\ Response \in SUBSET Names
    BY <1>6 DEF ClearResponse, CiClearResponse, Cleared, Names
  <2>2. strs'["body"] = Empty /\ strs'["headers"] = Empty
    BY <2>1, DestroyKeeps, NamesAre
  <2>3. Total(headers)' = 0 /\ Total(body)' = 0
    BY <1>0, <2>1, TotalOfNothing
  <2> QED
    BY <2>1, <2>2, <2>3, EmptyType DEF Contents
<1>7. CASE SwapIntoCache
  <2>1. /\ use = "load" /\ use' = "cached" /\ phase = "done" /\ phase' = "done"
        /\ headers' = headers /\ body' = body
        /\ strs' = [strs EXCEPT !["body"]  = Swapped(strs["body"], strs["cache"]),
                                !["cache"] = Swapped(strs["cache"], strs["body"])]
    BY <1>7 DEF SwapIntoCache, vars
  <2>2. strs'["cache"] = Swapped(strs["cache"], strs["body"])
        /\ strs'["headers"] = strs["headers"]
        /\ strs["cache"] \in Str
    BY <2>1, NamesAre DEF BufferInv
  <2>3. strs'["cache"].len = strs["body"].len /\ strs'["cache"].block = strs["body"].block
    BY <2>2 DEF Swapped, Str
  <2>4. Total(headers)' = Total(headers) /\ Total(body)' = Total(body)
    BY <1>0, <2>1
  <2> QED
    BY <2>1, <2>2, <2>3, <2>4 DEF Contents
<1>8. CASE DestroyRequest
  BY <1>8 DEF DestroyRequest, CiDestroy, Contents
<1>9. CASE DestroyEntry
  BY <1>9 DEF DestroyEntry, vars, Contents
<1>10. CASE UNCHANGED <<vars, bufferVars>>
  BY <1>2, <1>10 DEF vars
<1> QED
  BY <1>1, <1>3, <1>4, <1>5, <1>6, <1>7, <1>8, <1>9, <1>10 DEF BufferNext

(* Through any requests, pages, sizes of pieces and failing reallocs, the  *)
(* strings are as long as the pieces that were stored, and null exactly    *)
(* when none was: first the body of the response, then the cache of the    *)
(* entry that it was swapped with.                                         *)
THEOREM StringsHoldContent == ASSUME EnoughBlocks PROVE BufferSpec => []HoldsContent
<1>1. Contents => HoldsContent
  BY DEF Contents, HoldsContent
<1>2. Contents /\ BufferInv /\ [BufferNext]_<<vars, bufferVars>> => Contents'
  BY ContentsStep
<1> QED
  BY <1>1, <1>2, ContentsInit, BufferInvAlways, PTL DEF BufferSpec
=============================================================================
