--------------------------- MODULE FirstRunProofs ---------------------------
(***************************************************************************)
(* Theorems about CharLoops and FirstRun: the loops of the program stay in *)
(* their buffers and compute what they should, for texts of any length,    *)
(* and print_api_info cleans up.                                           *)
(***************************************************************************)
EXTENDS FirstRun, TextProofs, FiniteSetTheorems

(***************************************************************************)
(* print_api_info.  What it created is at each of its steps one directory, *)
(* none, or two, and it never tells before ours is there.                  *)
(***************************************************************************)
TidyInv ==
  /\ theirs \subseteq dirs
  /\ help \in {"none", "mkdir", "conf", "again", "undo", "tell"} => ~told
  /\ help \in {"none", "mkdir", "conf"} => Ours = {}
  /\ help \in {"again", "undo"} => target \in {"conf", "stray"} /\ Ours = {target}
  /\ help = "tell" => "app" \in Ours
  /\ help = "over" => /\ told <=> "app" \in Ours
                      /\ ~told => \A d \in Ours : HasChild(d)
  /\ help \in {"none", "mkdir", "conf", "again", "undo", "tell", "over", "segv"}

LEMMA TidyInit == FirstRunInit => TidyInv
  BY DEF FirstRunInit, TidyInv, Ours

(* A directory that was not there is new in dirs.                          *)
LEMMA TidyStep ==
  ASSUME TidyInv, [FirstRunNext]_<<vars, helpVars>>
  PROVE  TidyInv'
<1> USE DEF helpVars
<1>1. ASSUME UNCHANGED helpVars PROVE TidyInv'
  BY <1>1 DEF TidyInv, Ours, HasChild, ParentOf
<1>2. CASE StartHelp
  BY <1>2 DEF StartHelp, TidyInv, Ours
<1>3. CASE FirstMkdir
  BY <1>3 DEF FirstMkdir, Create, Creatable, TidyInv, Ours
<1>4. CASE MkdirConf
  BY <1>4 DEF MkdirConf, AfterFailure, Create, Creatable, TidyInv, Ours
<1>5. CASE SecondMkdir
  BY <1>5 DEF SecondMkdir, Create, Creatable, TidyInv, Ours
<1>6. CASE Undo
  <2>1. CASE HasChild(target)
    BY <1>6, <2>1 DEF Undo, TidyInv, Ours, HasChild, ParentOf
  <2>2. CASE ~HasChild(target)
    BY <1>6, <2>2 DEF Undo, TidyInv, Ours
  <2> QED
    BY <2>1, <2>2
<1>7. CASE Tell
  BY <1>7 DEF Tell, TidyInv, Ours
<1>8. ASSUME NEW d \in Dirs \ {"home", "stray"}, OtherMkdir(d) PROVE TidyInv'
  <2>1. Ours' = Ours /\ theirs' \subseteq dirs'
    BY <1>8 DEF OtherMkdir, Creatable, Ours, TidyInv
  <2> QED
    BY <1>8, <2>1 DEF OtherMkdir, TidyInv
<1> QED
  BY <1>1, <1>2, <1>3, <1>4, <1>5, <1>6, <1>7, <1>8 DEF FirstRunNext, Load, HelpEnded

(* print_api_info removes no directory of another program, tells of its    *)
(* own exactly when it made it, and leaves no empty one of its own behind, *)
(* however others create directories between its calls.                    *)
THEOREM HelpStaysTidy == FirstRunSpec => []FirstRunTidy
<1>1. TidyInv => FirstRunTidy
  BY DEF TidyInv, FirstRunTidy
<1> QED
  BY <1>1, TidyInit, TidyStep, PTL DEF FirstRunSpec

-----------------------------------------------------------------------------
(* The loops.  Escapes(n) of the first n characters are to be escaped; the *)
(* counting loop ends with all of them in size, and the copying loop is    *)
(* two positions further in the buffer for each that it passed.            *)

Escapes(n) == Cardinality({j \in 1..n : input[j] \in Unsafe})

LoopInv ==
  /\ input \in Seq(STRING)
  /\ size \in Nat /\ from \in Nat /\ to \in Nat
  /\ pc = "count" => from <= Len(input) /\ to = 0 /\ size = Escapes(from)
  /\ pc = "copy" => /\ from <= Len(input)
                    /\ to = from + 2 * Escapes(from)
                    /\ size = Escapes(Len(input))
                    /\ DOMAIN buf \in {{}, 0..(Allocated(size) - 1)}
  /\ pc \in {"open", "read"} => from = 0 /\ to = 0
  /\ pc = "read" => size = Len(input)
  /\ pc = "strip" => DOMAIN buf = 0..size /\ buf[size] = NUL /\ to <= from /\ from <= size
  /\ pc = "ask" => DOMAIN buf = 0..MaxCode /\ to <= MaxCode
  /\ pc = "overrun" => DOMAIN buf = {}

(* What remains to be escaped after n characters is less by one when the   *)
(* next one is to be escaped, and never negative.                          *)
LEMMA EscapesStep ==
  ASSUME NEW n \in Nat
  PROVE  /\ Escapes(n) \in Nat
         /\ Escapes(0) = 0
         /\ input[n + 1] \in Unsafe => Escapes(n + 1) = Escapes(n) + 1
         /\ input[n + 1] \notin Unsafe => Escapes(n + 1) = Escapes(n)
<1> DEFINE S(m) == {j \in 1..m : input[j] \in Unsafe}
<1>1. IsFiniteSet(S(n))
  <2>1. IsFiniteSet(1..n)
    BY FS_Interval
  <2>2. S(n) \in SUBSET (1..n)
    OBVIOUS
  <2> QED
    BY <2>1, <2>2, FS_Subset
<1>2. Cardinality(S(n)) \in Nat
  BY <1>1, FS_CardinalityType
<1>3. S(0) = {}
  OBVIOUS
<1>4. n + 1 \notin S(n)
  OBVIOUS
<1>5. Cardinality(S(n) \cup {n + 1}) = Cardinality(S(n)) + 1
  BY <1>1, <1>4, FS_AddElement
<1>6. input[n + 1] \in Unsafe => S(n + 1) = S(n) \cup {n + 1}
  OBVIOUS
<1>7. input[n + 1] \notin Unsafe => S(n + 1) = S(n)
  OBVIOUS
<1> QED
  BY <1>2, <1>3, <1>5, <1>6, <1>7, FS_EmptySet DEF Escapes

LEMMA EscapesGrow ==
  ASSUME NEW m \in Nat, NEW n \in Nat, m <= n
  PROVE  Escapes(m) <= Escapes(n)
<1> DEFINE S(k) == {j \in 1..k : input[j] \in Unsafe}
<1>1. IsFiniteSet(S(n))
  <2>1. IsFiniteSet(1..n)
    BY FS_Interval
  <2>2. S(n) \in SUBSET (1..n)
    OBVIOUS
  <2> QED
    BY <2>1, <2>2, FS_Subset
<1>2. S(m) \in SUBSET S(n)
  OBVIOUS
<1>3. Cardinality(S(m)) <= Cardinality(S(n))
  BY <1>1, <1>2, FS_Subset
<1> QED
  BY <1>3 DEF Escapes

(* An escape is three characters, whatever character it stands for, and    *)
(* sprintf ends it with a null character.                                  *)
LEMMA EscapeLength ==
  ASSUME NEW c \in Unsafe
  PROVE  /\ Len(Escaped(c) \o <<NUL>>) = 4
         /\ \A i \in 1..3 : (Escaped(c) \o <<NUL>>)[i] = Escaped(c)[i]
<1> DEFINE B == Codes({NUL}, Escapable)
<1>1. c \in Escapable
  BY DEF Unsafe, FilenameUnsafe, UrlUnsafe, Escapable
<1>2. PICK e \in Seq(B) : e = Escaped(c) /\ Len(e) = 3
  BY <1>1, EscapeShape
<1>3. NUL \in B
  <2>1. NUL \notin Escapable
    BY DEF NUL, Escapable
  <2> QED
    BY <2>1 DEF Codes
<1> HIDE DEF B
<1>4. PICK t \in Seq(B) : t = <<NUL>> /\ Len(t) = 1
  <2>1. <<NUL>> \in Seq(B) /\ Len(<<NUL>>) = 1
    BY <1>3
  <2> QED
    BY <2>1, Zenon
<1>5. Len(e \o t) = 4 /\ \A i \in 1..3 : (e \o t)[i] = e[i]
  <2>1. Len(e \o t) = Len(e) + Len(t) /\ \A i \in 1..Len(e) : (e \o t)[i] = e[i]
    OBVIOUS
  <2> QED
    BY <1>2, <1>4, <2>1
<1> QED
  BY <1>2, <1>4, <1>5

LEMMA LoopInit == FirstRunInit => LoopInv
<1> SUFFICES ASSUME FirstRunInit PROVE LoopInv
  OBVIOUS
<1>1. input \in Seq(STRING) /\ size = 0 /\ from = 0 /\ to = 0
  BY CharLoopsAssumption DEF FirstRunInit, Init
<1>2. Escapes(0) = 0
  BY EscapesStep
<1>3. pc \in {"open", "ask", "count"}
  BY CharLoopsAssumption DEF FirstRunInit, Init, Encoders
<1>4. pc = "ask" => DOMAIN buf = 0..MaxCode
  BY CharLoopsAssumption DEF FirstRunInit, Init, Encoders
<1> QED
  BY <1>1, <1>2, <1>3, <1>4, CharLoopsAssumption DEF LoopInv

LEMMA WriteKeepsSize ==
  ASSUME NEW chars, NEW next, Write(chars, next)
  PROVE  /\ DOMAIN buf' = DOMAIN buf
         /\ to + Len(chars) - 1 \in DOMAIN buf => pc' = next
         /\ to + Len(chars) - 1 \notin DOMAIN buf => pc' = "overrun"
  BY DEF Write

(* While it copies, a loop has room for the next character, escaped or     *)
(* not, and for the null character that ends the text.                     *)
LEMMA RoomToCopy ==
  ASSUME LoopInv, pc = "copy"
  PROVE  /\ ~AllTaken => /\ Escapes(from + 1) <= size
                         /\ from + 1 <= Len(input)
         /\ DOMAIN buf # {} => DOMAIN buf = 0..(Allocated(size) - 1)
         /\ Allocated(size) - 1 >= Len(input) + 2 * size
         /\ Allocated(size) \in Nat
         /\ Escapes(from) <= size /\ Escapes(from) \in Nat
<1>1. Len(input) \in Nat /\ from \in Nat /\ size \in Nat /\ size = Escapes(Len(input))
      /\ from <= Len(input)
  BY DEF LoopInv
<1>2. Escapes(from) <= size /\ Escapes(from) \in Nat
  BY <1>1, EscapesGrow, EscapesStep
<1>3. ~AllTaken => from + 1 <= Len(input) /\ from + 1 \in Nat
  BY <1>1 DEF AllTaken
<1>4. ~AllTaken => Escapes(from + 1) <= size
  BY <1>1, <1>3, EscapesGrow
<1>5. Allocated(size) \in Nat /\ Allocated(size) - 1 >= Len(input) + 2 * size
  BY <1>1 DEF Allocated
<1> QED
  BY <1>2, <1>3, <1>4, <1>5 DEF LoopInv

LEMMA LoopStep ==
  ASSUME LoopInv, Next
  PROVE  LoopInv'
<1> USE DEF LoopInv
<1>1. CASE CountChar
  <2>1. from + 1 <= Len(input) /\ from \in Nat
    BY <1>1 DEF CountChar, AllTaken
  <2>2. ASSUME NEW n PROVE Escapes(n)' = Escapes(n)
    BY <1>1 DEF CountChar, Escapes, Unsafe
  <2>3. size' = Escapes(from + 1)
    <3>1. Escapes(from) \in Nat /\ size = Escapes(from)
      BY <1>1, <2>1, EscapesStep DEF CountChar
    <3>2. Escapes(from + 1) = Escapes(from) + (IF NextChar \in Unsafe THEN 1 ELSE 0)
      <4>1. /\ NextChar \in Unsafe => Escapes(from + 1) = Escapes(from) + 1
            /\ NextChar \notin Unsafe => Escapes(from + 1) = Escapes(from)
        BY <2>1, EscapesStep DEF NextChar
      <4> HIDE DEF LoopInv
      <4> QED
        BY <3>1, <4>1
    <3>3. size' = size + (IF NextChar \in Unsafe THEN 1 ELSE 0)
      BY <1>1 DEF CountChar
    <3> QED
      BY <3>1, <3>2, <3>3
  <2>4. size' \in Nat
    BY <2>1, <2>3, EscapesStep
  <2>5. Escapes(from)' = Escapes(from + 1)
    BY <1>1 DEF CountChar, Escapes, Unsafe
  <2> QED
    BY <1>1, <2>1, <2>3, <2>4, <2>5 DEF CountChar
<1>2. CASE Allocate \/ NoBuffer
  <2>1. /\ pc' = "copy" /\ from' = 0 /\ to' = 0
        /\ UNCHANGED <<task, input, size>> /\ from = Len(input) /\ size = Escapes(Len(input))
    BY <1>2 DEF Allocate, NoBuffer, AllTaken
  <2>2. Escapes(0)' = Escapes(0) /\ Escapes(Len(input))' = Escapes(Len(input))
    BY <2>1 DEF Escapes, Unsafe
  <2>3. Escapes(0) = 0
    BY EscapesStep
  <2>4. Allocated(size)' = Allocated(size)
    BY <2>1 DEF Allocated
  <2>5. DOMAIN buf' \in {{}, 0..(Allocated(size) - 1)}
    BY <1>2 DEF Allocate, NoBuffer
  <2>6. Escapes(from)' = 0
    BY <2>1, <2>2, <2>3 DEF Escapes
  <2>7. size' = Escapes(Len(input))'
    BY <2>1, <2>2
  <2> QED
    BY <2>1, <2>4, <2>5, <2>6, <2>7
<1>3. CASE EscapeChar \/ CopyChar
  <2>1. /\ pc = "copy" /\ ~AllTaken /\ UNCHANGED <<task, input, size>>
        /\ from' = from + 1 /\ from \in Nat
    BY <1>3 DEF EscapeChar, CopyChar
  <2> DEFINE n == IF NextChar \in Unsafe THEN 3 ELSE 1
  <2>2. to' = to + n
    BY <1>3 DEF EscapeChar, CopyChar, Advance
  <2>3. Escapes(from + 1) = IF NextChar \in Unsafe THEN Escapes(from) + 1 ELSE Escapes(from)
    BY <2>1, EscapesStep DEF NextChar
  <2>4. Escapes(from)' = Escapes(from + 1) /\ Escapes(Len(input))' = Escapes(Len(input))
    BY <2>1 DEF Escapes, Unsafe
  <2>5. to' = (from + 1) + 2 * Escapes(from + 1)
    <3>1. to = from + 2 * Escapes(from)
      BY <2>1
    <3>2. Escapes(from) \in Nat
      BY <2>1, EscapesStep
    <3> HIDE DEF LoopInv
    <3>3. CASE NextChar \in Unsafe
      BY <2>1, <2>2, <2>3, <3>1, <3>2, <3>3
    <3>4. CASE NextChar \notin Unsafe
      BY <2>1, <2>2, <2>3, <3>1, <3>2, <3>4
    <3> QED
      BY <3>3, <3>4
  <2>6. DOMAIN buf' = DOMAIN buf /\ (pc' = "copy" \/ (DOMAIN buf = {} /\ pc' = "overrun"))
    <3>1. CASE DOMAIN buf = {}
      <4>1. CASE EscapeChar
        BY <3>1, <4>1, WriteKeepsSize DEF EscapeChar
      <4>2. CASE CopyChar
        BY <3>1, <4>2, WriteKeepsSize DEF CopyChar
      <4> QED
        BY <1>3, <4>1, <4>2
    <3>2. CASE DOMAIN buf # {}
      <4> DEFINE m == IF NextChar \in Unsafe THEN 4 ELSE 1
      <4>1. to + m - 1 \in DOMAIN buf
        <5>1. to = from + 2 * Escapes(from)
          BY <2>1
        <5>2. to + m - 1 <= Len(input) + 2 * size /\ to + m - 1 >= 0 /\ to \in Int
          <6>1. Escapes(from) \in Nat /\ Escapes(from) <= size /\ Escapes(from + 1) <= size
                /\ from + 1 <= Len(input) /\ Len(input) \in Nat /\ size \in Nat
            BY <2>1, RoomToCopy
          <6> HIDE DEF LoopInv
          <6>2. CASE NextChar \in Unsafe
            BY <2>1, <2>3, <5>1, <6>1, <6>2
          <6>3. CASE NextChar \notin Unsafe
            BY <2>1, <2>3, <5>1, <6>1, <6>3
          <6> QED
            BY <6>2, <6>3
        <5>3. Len(input) + 2 * size <= Allocated(size) - 1 /\ Allocated(size) \in Nat
          BY <2>1, RoomToCopy
        <5>4. DOMAIN buf = 0..(Allocated(size) - 1)
          BY <2>1, <3>2, RoomToCopy
        <5>5. Len(input) \in Nat /\ size \in Nat /\ m \in Int
          OBVIOUS
        <5> HIDE DEF m
        <5> QED
          BY <5>2, <5>3, <5>4, <5>5
      <4>2. CASE EscapeChar
        <5>1. Len(Escaped(NextChar) \o <<NUL>>) = 4
          BY <4>2, EscapeLength DEF EscapeChar
        <5>2. Write(Escaped(NextChar) \o <<NUL>>, "copy") /\ m = 4
          BY <4>2 DEF EscapeChar
        <5> QED
          BY <4>1, <5>1, <5>2, WriteKeepsSize
      <4>3. CASE CopyChar
        <5>1. Len(<<NextChar>>) = 1
          OBVIOUS
        <5>2. Write(<<NextChar>>, "copy") /\ m = 1
          BY <4>3 DEF CopyChar
        <5> QED
          BY <4>1, <5>1, <5>2, WriteKeepsSize
      <4> QED
        BY <1>3, <4>2, <4>3
    <3> QED
      BY <3>1, <3>2
  <2>7. Allocated(size)' = Allocated(size)
    BY <2>1 DEF Allocated
  <2>8. from + 1 <= Len(input) /\ Escapes(from + 1) \in Nat
    BY <2>1, RoomToCopy, EscapesStep
  <2> QED
    BY <2>1, <2>4, <2>5, <2>6, <2>7, <2>8
<1>4. CASE Terminate
  <2>1. to = from + 2 * Escapes(from) /\ from = Len(input) /\ Escapes(from) = size
        /\ size \in Nat /\ Len(input) \in Nat
    BY <1>4 DEF Terminate, AllTaken
  <2>2. Len(input) + 2 * size <= Allocated(size) - 1 /\ Allocated(size) \in Nat
    BY <1>4, RoomToCopy DEF Terminate
  <2>3. DOMAIN buf # {} => to + 1 - 1 \in DOMAIN buf
    BY <1>4, <2>1, <2>2, RoomToCopy DEF Terminate
  <2>4. DOMAIN buf' = DOMAIN buf /\ (pc' = "done" \/ (DOMAIN buf = {} /\ pc' = "overrun"))
    <3>1. Len(<<NUL>>) = 1
      OBVIOUS
    <3> QED
      BY <1>4, <2>3, <3>1, WriteKeepsSize DEF Terminate
  <2> QED
    BY <1>4, <2>4 DEF Terminate
<1>5. CASE NoResult \/ LoadFails
  BY <1>5 DEF NoResult, LoadFails
<1>6. CASE OpenFile
  BY <1>6 DEF OpenFile
<1>7. CASE ReadFile
  <2>1. PICK n \in 0..size : \E left \in [n..(size - 1) -> {Garbage, "n", NUL}] :
          /\ input' = SubSeq(input, 1, n)
          /\ buf' = [j \in 0..size |-> IF j = size THEN NUL
                                       ELSE IF j < n THEN input[j + 1] ELSE left[j]]
    BY <1>7 DEF ReadFile
  <2>2. input' \in Seq(STRING)
    BY <1>7, <2>1 DEF ReadFile
  <2> QED
    BY <1>7, <2>1, <2>2 DEF ReadFile
<1>8. CASE StripChar
  <2>1. /\ pc = "strip" /\ DOMAIN buf = 0..size /\ buf[size] = NUL
        /\ to <= from /\ from <= size /\ buf[from] # NUL
    BY <1>8 DEF StripChar
  <2>2. from + 1 <= size
    BY <2>1
  <2>3. to + Len(<<buf[from]>>) - 1 = to /\ to \in DOMAIN buf
    BY <2>1
  <2>4. DOMAIN buf' = 0..size /\ pc' = "strip"
    BY <1>8, <2>1, <2>3, WriteKeepsSize DEF StripChar
  <2>5. buf'[size] = NUL
    <3>1. Write(<<buf[from]>>, "strip")
      BY <1>8 DEF StripChar
    <3>2. buf' = [j \in DOMAIN buf |->
                    IF j \in to..(to + Len(<<buf[from]>>) - 1)
                    THEN <<buf[from]>>[j - to + 1] ELSE buf[j]]
      BY <2>3, <3>1 DEF Write
    <3>3. size \in DOMAIN buf /\ size \notin to..to
      BY <2>1, <2>2
    <3> QED
      BY <2>1, <2>3, <3>2, <3>3
  <2> QED
    BY <1>8, <2>1, <2>2, <2>4, <2>5 DEF StripChar
<1>9. CASE EndStrip
  <2>1. Len(<<NUL>>) = 1 /\ to + 1 - 1 \in DOMAIN buf
    BY <1>9 DEF EndStrip
  <2>2. pc' = "done"
    BY <1>9, <2>1, WriteKeepsSize DEF EndStrip
  <2> QED
    BY <1>9, <2>2 DEF EndStrip
<1>10. CASE TypeBlank
  BY <1>10 DEF TypeBlank
<1>11. CASE TypeChar
  <2>1. Len(<<Typed>>) = 1 /\ to + 1 - 1 \in DOMAIN buf /\ to + 1 <= MaxCode
    BY <1>11, CharLoopsAssumption DEF TypeChar, Room
  <2>2. pc' = "ask" /\ DOMAIN buf' = DOMAIN buf
    BY <1>11, <2>1, WriteKeepsSize DEF TypeChar
  <2> QED
    BY <1>11, <2>1, <2>2 DEF TypeChar
<1>12. CASE EndCode
  <2>1. Len(<<NUL>>) = 1 /\ to + 1 - 1 \in DOMAIN buf
    BY <1>12, CharLoopsAssumption DEF EndCode
  <2>2. pc' = "check"
    BY <1>12, <2>1, WriteKeepsSize DEF EndCode
  <2> QED
    BY <1>12, <2>2 DEF EndCode
<1>13. CASE CheckCode
  BY <1>13 DEF CheckCode
<1>14. CASE Stopped
  BY <1>14 DEF Stopped, vars, Escapes, Unsafe, Allocated
<1> QED
  BY <1>1, <1>2, <1>3, <1>4, <1>5, <1>6, <1>7, <1>8, <1>9, <1>10, <1>11, <1>12, <1>13,
     <1>14 DEF Next

LEMMA LoopInvStep ==
  ASSUME LoopInv, [FirstRunNext]_<<vars, helpVars>>
  PROVE  LoopInv'
<1>1. CASE Load
  BY <1>1, LoopStep DEF Load
<1>2. CASE StartHelp
  BY <1>2 DEF StartHelp, LoopInv
<1>3. CASE UNCHANGED vars
  BY <1>3 DEF vars, LoopInv, Escapes, Unsafe, Allocated
<1> QED
  BY <1>1, <1>2, <1>3
     DEF FirstRunNext, FirstMkdir, MkdirConf, SecondMkdir, Undo, Tell, OtherMkdir, HelpEnded

(* No loop writes outside its buffer, whatever the text: what was counted  *)
(* is what is copied, three characters for each, and room for the null     *)
(* characters; load_file stays inside of what it read, and the code inside *)
(* of its array.                                                           *)
THEOREM LoopsStayInside == FirstRunSpec => []InBuffer
<1>1. LoopInv => InBuffer
  BY DEF LoopInv, InBuffer
<1> QED
  BY <1>1, LoopInit, LoopInvStep, PTL DEF FirstRunSpec

-----------------------------------------------------------------------------
(* What the encoders write: behind each character they passed, the buffer  *)
(* holds the encoding of the text up to it.                                *)

EncodeInv ==
  task \in Encoders =>
    /\ input \in Inputs[task]
    /\ pc \in {"count", "copy", "done", "failed", "overrun"}
    /\ pc \in {"copy", "done"} /\ DOMAIN buf # {} =>
         Result = Encode(SubSeq(input, 1, from), Unsafe)
    /\ pc = "done" => /\ from = Len(input) /\ DOMAIN buf # {}
                      /\ to \in DOMAIN buf /\ buf[to] = NUL

(* The characters of C strings.                                            *)
Chars == STRING \ {NUL}

LEMMA UnsafeIs == Unsafe \in SUBSET Escapable /\ "%" \in Unsafe
  BY DEF Unsafe, FilenameUnsafe, UrlUnsafe, Escapable

LEMMA InputTyped ==
  ASSUME task \in Encoders, task \in DOMAIN Inputs, NEW s \in Inputs[task]
  PROVE  s \in Seq(Chars)
<1>1. Inputs[task] \subseteq Seq(STRING \ {NUL})
  BY CharLoopsAssumption
<1> QED
  BY <1>1 DEF Chars

LEMMA IsConcat ==
  ASSUME NEW A, NEW r \in Seq(A), NEW c \in Seq(A), NEW q,
         q = [j \in 1..(Len(r) + Len(c)) |-> q[j]],
         \A j \in 1..Len(r) : q[j] = r[j],
         \A i \in 1..Len(c) : q[Len(r) + i] = c[i]
  PROVE  q = r \o c
<1> DEFINE n == Len(r)
           m == Len(c)
           p == r \o c
<1>1. n \in Nat /\ m \in Nat
  OBVIOUS
<1>2. /\ p \in Seq(A) /\ Len(p) = n + m
      /\ \A j \in 1..n : p[j] = r[j]
      /\ \A i \in 1..m : p[n + i] = c[i]
  BY ConcatTyped
<1>3. p = [j \in 1..(n + m) |-> p[j]]
  <2> HIDE DEF n, m, p
  <2> QED
    BY <1>1, <1>2
<1>4. ASSUME NEW j \in 1..(n + m) PROVE q[j] = p[j]
  <2> HIDE DEF p
  <2>1. CASE j \in 1..n
    BY <1>2, <2>1
  <2>2. CASE j \notin 1..n
    <3>1. PICK i \in 1..m : n + i = j
      <4>1. j - n \in 1..m /\ n + (j - n) = j
        BY <1>1, <2>2
      <4> QED
        BY <4>1
    <3>2. q[n + i] = c[i] /\ p[n + i] = c[i]
      BY <1>2
    <3> QED
      BY <3>1, <3>2, Zenon
  <2> QED
    BY <2>1, <2>2
<1> QED
  <2> HIDE DEF p
  <2>1. q = [j \in 1..(n + m) |-> q[j]]
    OBVIOUS
  <2> HIDE DEF n, m
  <2>2. q = p
    BY <1>3, <1>4, <2>1
  <2> QED
    BY <2>2 DEF p

(* A store of chars of which the last may be passed over again appends to  *)
(* the result those that to passes.                                        *)
LEMMA WriteAppends ==
  ASSUME NEW B, NEW code \in Seq(B), NEW chars, NEW next, NEW size0 \in Nat,
         Write(chars, next), to \in Nat, DOMAIN buf = 0..(size0 - 1),
         Len(chars) \in Nat, Len(code) <= Len(chars), to + Len(chars) - 1 \in DOMAIN buf,
         \A i \in 1..Len(code) : chars[i] = code[i],
         Result \in Seq(B), Len(Result) = to, to' = to + Len(code)
  PROVE  Result' = Result \o code
<1> DEFINE q == Result'
           r == Result
<1>1. buf' = [j \in 0..(size0 - 1) |->
                IF j \in to..(to + Len(chars) - 1) THEN chars[j - to + 1] ELSE buf[j]]
  BY DEF Write
<1>2. q = [j \in 1..(to + Len(code)) |-> buf'[j - 1]]
  BY DEF Result
<1>3. \A j \in 1..to : r[j] = buf[j - 1]
  BY DEF Result
<1>4. Len(code) \in Nat
  OBVIOUS
<1> HIDE DEF q, r
<1>5. \A j \in 1..to : q[j] = r[j]
  <2> SUFFICES ASSUME NEW j \in 1..to PROVE q[j] = r[j]
    OBVIOUS
  <2>1. j \in 1..(to + Len(code)) /\ j - 1 \in 0..(size0 - 1)
        /\ j - 1 \notin to..(to + Len(chars) - 1)
    BY <1>4
  <2>2. buf'[j - 1] = buf[j - 1]
    BY <1>1, <2>1
  <2> QED
    BY <1>2, <1>3, <2>1, <2>2
<1>6. \A i \in 1..Len(code) : q[to + i] = code[i]
  <2> SUFFICES ASSUME NEW i \in 1..Len(code) PROVE q[to + i] = code[i]
    OBVIOUS
  <2>1. to + i \in 1..(to + Len(code)) /\ to + i - 1 \in 0..(size0 - 1)
        /\ to + i - 1 \in to..(to + Len(chars) - 1) /\ (to + i - 1) - to + 1 = i
    BY <1>4
  <2>2. buf'[to + i - 1] = chars[i]
    BY <1>1, <2>1
  <2> QED
    BY <1>2, <2>1, <2>2
<1>7. q = [j \in 1..(to + Len(code)) |-> q[j]]
  BY <1>2
<1>8. r \in Seq(B) /\ Len(r) = to
  BY DEF r
<1>9. q = r \o code
  <2>1. q = [j \in 1..(Len(r) + Len(code)) |-> q[j]]
    BY <1>7, <1>8, Zenon
  <2>2. \A j \in 1..Len(r) : q[j] = r[j]
    BY <1>5, <1>8
  <2>3. \A i \in 1..Len(code) : q[Len(r) + i] = code[i]
    BY <1>6, <1>8
  <2> QED
    BY <1>8, <2>1, <2>2, <2>3, IsConcat
<1> QED
  BY <1>9 DEF q, r

(* The null character stored at to ends the result and changes none of it. *)
LEMMA NulStored ==
  ASSUME NEW n \in Nat, NEW next, Write(<<NUL>>, next), DOMAIN buf = 0..n,
         to \in 0..n, to' = to
  PROVE  Result' = Result /\ buf'[to] = NUL /\ pc' = next
<1> DEFINE chars == <<NUL>>
<1>1. Len(chars) = 1 /\ chars[1] = NUL /\ to + 1 - 1 = to /\ to..to = {to} /\ to - to + 1 = 1
  OBVIOUS
<1> HIDE DEF chars
<1>2. pc' = next /\ buf' = [j \in 0..n |-> IF j \in to..to THEN chars[j - to + 1] ELSE buf[j]]
  BY <1>1 DEF Write, chars
<1>3. buf' = [j \in 0..n |-> IF j = to THEN NUL ELSE buf[j]]
  BY <1>1, <1>2
<1> QED
  BY <1>2, <1>3 DEF Result

LEMMA EncodeInvInit == FirstRunInit => EncodeInv
<1> SUFFICES ASSUME FirstRunInit, task \in Encoders PROVE EncodeInv
  BY DEF EncodeInv
<1>1. input \in Inputs[task] /\ pc = "count"
  BY DEF FirstRunInit, Init, Encoders
<1> QED
  BY <1>1 DEF EncodeInv

(* The result of an encoder that passed some characters, and what it is    *)
(* about to write for the next one.                                        *)
LEMMA EncodedSoFar ==
  ASSUME LoopInv, EncodeInv, task \in Encoders, task \in DOMAIN Inputs,
         pc = "copy", DOMAIN buf # {}
  PROVE  /\ Result = Encode(SubSeq(input, 1, from), Unsafe)
         /\ Result \in Seq(Codes(Chars, Unsafe)) /\ Len(Result) = to /\ to \in Nat
         /\ ~AllTaken =>
              /\ NextChar \in Chars
              /\ Encode(SubSeq(input, 1, from + 1), Unsafe) = Result \o CodeOf(NextChar, Unsafe)
<1> DEFINE s == SubSeq(input, 1, from)
           e == Encode(s, Unsafe)
<1>1. input \in Seq(Chars) /\ from \in 0..Len(input) /\ to \in Nat /\ Result = e
  BY InputTyped DEF EncodeInv, LoopInv
<1>2. s \in Seq(Chars)
  BY <1>1, PrefixGrows
<1>3. ASSUME NEW c \in Chars
      PROVE  /\ e \in Seq(Codes(Chars, Unsafe))
             /\ Encode(Append(s, c), Unsafe) = e \o CodeOf(c, Unsafe)
  <2> HIDE DEF s
  <2> QED
    BY <1>2, UnsafeIs, EncodeAppend
<1>4. e \in Seq(Codes(Chars, Unsafe))
  BY <1>2, UnsafeIs, EncodeTyped
<1>5. Len(Result) = to
  <2>1. Result = [j \in 1..to |-> buf[j - 1]] /\ DOMAIN Result = 1..to
    BY DEF Result
  <2>2. DOMAIN Result = 1..Len(Result) /\ Len(Result) \in Nat
    BY <1>1, <1>4
  <2> QED
    BY <1>1, <2>1, <2>2
<1>6. ASSUME ~AllTaken
      PROVE  /\ NextChar \in Chars
             /\ Encode(SubSeq(input, 1, from + 1), Unsafe) = e \o CodeOf(NextChar, Unsafe)
  <2>1. from < Len(input) /\ input[from + 1] \in Chars
    BY <1>1, <1>6 DEF AllTaken
  <2>2. SubSeq(input, 1, from + 1) = Append(s, input[from + 1])
    BY <1>1, <2>1, PrefixGrows
  <2> QED
    BY <1>3, <2>1, <2>2 DEF NextChar
<1> QED
  BY <1>1, <1>4, <1>5, <1>6

LEMMA CopyEncodes ==
  ASSUME LoopInv, EncodeInv, task \in Encoders, task \in DOMAIN Inputs,
         DOMAIN buf # {}, EscapeChar \/ CopyChar
  PROVE  Result' = Encode(SubSeq(input, 1, from + 1), Unsafe)
<1> DEFINE code  == CodeOf(NextChar, Unsafe)
           chars == IF NextChar \in Unsafe THEN Escaped(NextChar) \o <<NUL>> ELSE <<NextChar>>
           B     == Codes(Chars, Unsafe)
           n     == Allocated(size)
<1>1. /\ pc = "copy" /\ ~AllTaken /\ Write(chars, "copy")
      /\ to' = to + IF NextChar \in Unsafe THEN 3 ELSE 1
  BY DEF EscapeChar, CopyChar, Advance
<1>2. /\ Result \in Seq(B) /\ Len(Result) = to /\ to \in Nat /\ NextChar \in Chars
      /\ Encode(SubSeq(input, 1, from + 1), Unsafe) = Result \o code
  BY <1>1, EncodedSoFar
<1>3. code \in Seq(B) /\ Len(code) = IF NextChar \in Unsafe THEN 3 ELSE 1
  BY <1>2, UnsafeIs, CodeShape
<1>4. /\ Len(chars) = IF NextChar \in Unsafe THEN 4 ELSE 1
      /\ \A i \in 1..Len(code) : chars[i] = code[i]
  <2>1. CASE NextChar \in Unsafe
    <3>1. code = Escaped(NextChar) /\ chars = Escaped(NextChar) \o <<NUL>>
      BY <2>1 DEF CodeOf
    <3> HIDE DEF code, chars
    <3> QED
      BY <1>3, <2>1, <3>1, EscapeLength
  <2>2. CASE NextChar \notin Unsafe
    BY <2>2 DEF CodeOf
  <2> QED
    BY <2>1, <2>2
<1>5. DOMAIN buf = 0..(n - 1) /\ n \in Nat
  BY <1>1, RoomToCopy
<1>6. to + Len(chars) - 1 \in DOMAIN buf
  <2>1. /\ to = from + 2 * Escapes(from) /\ from \in Nat /\ Escapes(from) \in Nat
        /\ Escapes(from + 1) <= size /\ from + 1 <= Len(input)
        /\ Len(input) \in Nat /\ size \in Nat /\ n - 1 >= Len(input) + 2 * size
    BY <1>1, RoomToCopy DEF LoopInv
  <2>2. Escapes(from + 1) = IF NextChar \in Unsafe THEN Escapes(from) + 1 ELSE Escapes(from)
    BY <2>1, EscapesStep DEF NextChar
  <2> DEFINE k == Escapes(from)
             l == Escapes(from + 1)
             m == Len(chars)
             d == Len(input)
  <2>3. /\ to = from + 2 * k /\ from \in Nat /\ k \in Nat /\ l <= size /\ from + 1 <= d
        /\ d \in Nat /\ size \in Nat /\ n - 1 >= d + 2 * size
        /\ NextChar \in Unsafe => l = k + 1 /\ m = 4
        /\ NextChar \notin Unsafe => l = k /\ m = 1
    BY <1>4, <2>1, <2>2
  <2> HIDE DEF chars, n, k, l, m, d
  <2>4. to + m - 1 \in 0..(n - 1)
    <3>1. CASE NextChar \in Unsafe
      BY <1>5, <2>3, <3>1
    <3>2. CASE NextChar \notin Unsafe
      BY <1>5, <2>3, <3>2
    <3> QED
      BY <3>1, <3>2
  <2> QED
    BY <1>5, <2>4 DEF m
<1>7. Result' = Result \o code
  <2> HIDE DEF code, chars, B, n
  <2>1. Len(chars) \in Nat /\ Len(code) <= Len(chars) /\ to' = to + Len(code)
    BY <1>1, <1>3, <1>4
  <2> QED
    BY <1>1, <1>2, <1>3, <1>4, <1>5, <1>6, <2>1, WriteAppends
<1> QED
  BY <1>2, <1>7

LEMMA EncodeInvStep ==
  ASSUME LoopInv, EncodeInv, task \in DOMAIN Inputs, Next
  PROVE  EncodeInv'
<1> SUFFICES ASSUME task \in Encoders, task' \in Encoders, task' = task PROVE EncodeInv'
  <2>1. task' = task
    BY DEF Next, CountChar, Allocate, NoResult, NoBuffer, EscapeChar, CopyChar, Terminate, OpenFile,
           LoadFails, ReadFile, StripChar, EndStrip, TypeBlank, TypeChar, EndCode, CheckCode,
           Stopped, vars
  <2> QED
    BY <2>1 DEF EncodeInv
<1>u. Unsafe' = Unsafe
  BY DEF Unsafe
<1>1. CASE CountChar
  BY <1>1 DEF CountChar, EncodeInv
<1>2. CASE Allocate \/ NoBuffer
  <2>1. /\ pc' = "copy" /\ from' = 0 /\ to' = 0 /\ input' = input
    BY <1>2 DEF Allocate, NoBuffer, LoopInv
  <2>2. Result' = <<>>
    BY <2>1 DEF Result
  <2>3. SubSeq(input, 1, 0) = <<>>
    BY DEF LoopInv
  <2>4. Encode(SubSeq(input', 1, from'), Unsafe') = <<>>
    BY <1>u, <2>1, <2>3, EncodeEmpty
  <2> QED
    BY <2>1, <2>2, <2>4 DEF EncodeInv
<1>3. CASE EscapeChar \/ CopyChar
  <2>1. /\ pc = "copy" /\ UNCHANGED input /\ from' = from + 1
        /\ \/ pc' = "copy" /\ DOMAIN buf # {}
           \/ pc' = "overrun"
    BY <1>3 DEF EscapeChar, CopyChar, Write
  <2>2. ASSUME DOMAIN buf # {}
        PROVE  Result' = Encode(SubSeq(input', 1, from'), Unsafe')
    BY <1>3, <1>u, <2>1, <2>2, CopyEncodes
  <2> QED
    BY <2>1, <2>2 DEF EncodeInv
<1>4. CASE Terminate
  <2>1. /\ pc = "copy" /\ UNCHANGED <<input, from, to>> /\ AllTaken
        /\ Write(<<NUL>>, "done")
    BY <1>4 DEF Terminate
  <2>2. CASE to \notin DOMAIN buf
    <3>1. pc' = "overrun"
      <4>1. Len(<<NUL>>) = 1 /\ to + 1 - 1 = to
        BY DEF LoopInv
      <4> QED
        BY <2>1, <2>2, <4>1 DEF Write
    <3> QED
      BY <2>1, <3>1 DEF EncodeInv
  <2>3. CASE to \in DOMAIN buf
    <3> DEFINE n == Allocated(size)
    <3>1. /\ Result = Encode(SubSeq(input, 1, from), Unsafe) /\ to \in Nat
          /\ Result \in Seq(Codes(Chars, Unsafe)) /\ Len(Result) = to
      BY <2>1, <2>3, EncodedSoFar
    <3>2. DOMAIN buf = 0..(n - 1) /\ n \in Nat
      BY <2>1, <2>3, RoomToCopy
    <3> HIDE DEF n
    <3>3. n - 1 \in Nat /\ to \in 0..(n - 1)
      BY <2>3, <3>2
    <3>4. Result' = Result /\ buf'[to] = NUL /\ pc' = "done"
      BY <2>1, <3>2, <3>3, NulStored
    <3>5. DOMAIN buf' = DOMAIN buf
      BY <2>1, WriteKeepsSize
    <3> QED
      BY <1>u, <2>1, <2>3, <3>1, <3>4, <3>5 DEF EncodeInv, AllTaken
  <2> QED
    BY <2>2, <2>3
<1>5. CASE NoResult
  BY <1>5 DEF NoResult, EncodeInv
<1>6. CASE Stopped
  <2>1. UNCHANGED <<input, pc, buf, from, to>>
    BY <1>6 DEF Stopped, vars
  <2>2. Result' = Result
    BY <2>1 DEF Result
  <2> QED
    BY <1>u, <2>1, <2>2 DEF EncodeInv
<1> QED
  BY <1>1, <1>2, <1>3, <1>4, <1>5, <1>6
  DEF Next, EncodeInv, OpenFile, LoadFails, ReadFile, StripChar, EndStrip, TypeBlank, TypeChar,
      EndCode, CheckCode

TaskInv == LoopInv /\ EncodeInv /\ task \in DOMAIN Inputs

LEMMA TaskInvAlways == FirstRunSpec => []TaskInv
<1>1. FirstRunInit => TaskInv
  BY LoopInit, EncodeInvInit DEF FirstRunInit, Init, TaskInv
<1>2. TaskInv /\ [FirstRunNext]_<<vars, helpVars>> => TaskInv'
  <2> SUFFICES ASSUME TaskInv, [FirstRunNext]_<<vars, helpVars>> PROVE TaskInv'
    OBVIOUS
  <2>1. LoopInv'
    BY LoopInvStep DEF TaskInv
  <2>2. task' = task
    BY DEF FirstRunNext, Load, StartHelp, FirstMkdir, MkdirConf, SecondMkdir, Undo, Tell, OtherMkdir,
           HelpEnded, Next, CountChar, Allocate, NoResult, NoBuffer, EscapeChar, CopyChar, Terminate,
           OpenFile, LoadFails, ReadFile, StripChar, EndStrip, TypeBlank, TypeChar, EndCode,
           CheckCode, Stopped, vars
  <2>3. ASSUME Load PROVE EncodeInv'
    BY <2>3, EncodeInvStep DEF Load, TaskInv
  <2>4. ASSUME StartHelp PROVE EncodeInv'
    BY <2>4, <2>2 DEF StartHelp, EncodeInv, Encoders
  <2>5. ASSUME UNCHANGED vars PROVE EncodeInv'
    <3>1. UNCHANGED <<task, input, pc, buf, from, to>>
      BY <2>5 DEF vars
    <3>2. Result' = Result /\ Unsafe' = Unsafe
      BY <3>1 DEF Result, Unsafe
    <3> QED
      BY <3>1, <3>2 DEF EncodeInv, TaskInv
  <2>6. EncodeInv'
    BY <2>3, <2>4, <2>5
       DEF FirstRunNext, FirstMkdir, MkdirConf, SecondMkdir, Undo, Tell, OtherMkdir, HelpEnded
  <2> QED
    BY <2>1, <2>2, <2>6 DEF TaskInv
<1> QED
  BY <1>1, <1>2, PTL DEF FirstRunSpec

(* What an encoder that is done hands back.                                *)
LEMMA EncoderResult ==
  ASSUME TaskInv, task \in Encoders, pc = "done"
  PROVE  /\ Result = Encode(input, Unsafe) /\ buf[to] = NUL
         /\ Result \in Seq(Codes(Chars, Unsafe)) /\ Len(Result) = to
         /\ input \in Seq(Chars) /\ to \in Nat
<1>1. /\ input \in Inputs[task] /\ from = Len(input) /\ buf[to] = NUL /\ to \in Nat
      /\ Result = Encode(SubSeq(input, 1, from), Unsafe)
  BY DEF TaskInv, EncodeInv, LoopInv
<1>2. input \in Seq(Chars)
  BY <1>1, InputTyped DEF TaskInv
<1>3. SubSeq(input, 1, Len(input)) = input
  BY <1>2
<1>4. Encode(input, Unsafe) \in Seq(Codes(Chars, Unsafe))
  BY <1>2, UnsafeIs, EncodeTyped
<1>5. Result \in Seq(Codes(Chars, Unsafe))
  BY <1>1, <1>3, <1>4
<1>6. Len(Result) = to
  <2>1. DOMAIN Result = 1..to
    BY DEF Result
  <2>2. DOMAIN Result = 1..Len(Result) /\ Len(Result) \in Nat
    BY <1>5
  <2> QED
    BY <1>1, <2>1, <2>2
<1> QED
  BY <1>1, <1>2, <1>3, <1>5, <1>6

(* filenameencode and str_urlencode_str leave the encoding of their text,  *)
(* the null character behind it and none before, for texts of any length.  *)
THEOREM EncodesEveryText == FirstRunSpec => []EncodesExactly
<1>1. TaskInv => EncodesExactly
  <2> SUFFICES ASSUME TaskInv, task \in Encoders, pc = "done"
      PROVE  /\ Result = Encode(input, Unsafe)
             /\ buf[to] = NUL /\ \A j \in 1..to : Result[j] # NUL
    BY DEF EncodesExactly
  <2>1. NUL \notin Codes(Chars, Unsafe)
    BY DEF Codes, Chars, NUL
  <2>2. \A j \in 1..Len(Result) : Result[j] \in Codes(Chars, Unsafe)
    BY EncoderResult
  <2> QED
    BY <2>1, <2>2, EncoderResult
<1> QED
  BY <1>1, TaskInvAlways, PTL

(* No two texts have one encoding, so the name of a file leads to no other *)
(* file's, and none holds a slash, which the kernel would take for the end *)
(* of a directory's name: for texts of any length.                         *)
THEOREM EncodingIsReversible == FirstRunSpec => []Reversible
<1>1. TaskInv => Reversible
  <2> SUFFICES ASSUME TaskInv, task \in Encoders, pc = "done"
      PROVE  /\ \A other \in Inputs[task] : Encode(other, Unsafe) = Result => other = input
             /\ task = "filename" => \A j \in 1..to : Result[j] # "/"
    BY DEF Reversible
  <2>1. ASSUME NEW other \in Inputs[task], Encode(other, Unsafe) = Result
        PROVE  other = input
    <3>1. other \in Seq(Chars) /\ input \in Seq(Chars)
      BY InputTyped, EncoderResult DEF TaskInv
    <3> QED
      BY <2>1, <3>1, UnsafeIs, EncoderResult, EncodeInjective
  <2>2. ASSUME task = "filename" PROVE \A j \in 1..to : Result[j] # "/"
    <3>1. "/" \notin Codes(Chars, Unsafe)
      BY <2>2 DEF Codes, Unsafe, FilenameUnsafe
    <3>2. \A j \in 1..Len(Result) : Result[j] \in Codes(Chars, Unsafe)
      BY EncoderResult
    <3> QED
      BY <3>1, <3>2, EncoderResult
  <2> QED
    BY <2>1, <2>2
<1> QED
  BY <1>1, TaskInvAlways, PTL
-----------------------------------------------------------------------------
(* Without                                                                 *)

Remains(c, some) == IF c \in some THEN <<>> ELSE <<c>>

LEMMA WithoutEmpty == \A some : Without(<<>>, some) = <<>>
  BY DEF Without, FlattenSeq

LEMMA WithoutAppend ==
  ASSUME NEW A, NEW some, NEW s \in Seq(A), NEW c \in A
  PROVE  /\ Without(s, some) \in Seq(A)
         /\ Without(Append(s, c), some) = Without(s, some) \o Remains(c, some)
<1> DEFINE t       == Append(s, c)
           Keep(d) == Remains(d, some)
           KeepOf(r) == [j \in DOMAIN r |-> Keep(r[j])]
<1>1. t \in Seq(A) /\ Len(t) = Len(s) + 1 /\ t[Len(s) + 1] = c
      /\ \A j \in 1..Len(s) : t[j] = s[j]
  OBVIOUS
<1>2. ASSUME NEW d \in A PROVE Keep(d) \in Seq(A)
  BY DEF Remains
<1> HIDE DEF t, Keep
<1>3. ASSUME NEW r \in Seq(A) PROVE KeepOf(r) \in Seq(Seq(A)) /\ Len(KeepOf(r)) = Len(r)
  <2>1. DOMAIN r = 1..Len(r) /\ Len(r) \in Nat /\ \A j \in 1..Len(r) : r[j] \in A
    OBVIOUS
  <2>2. \A j \in 1..Len(r) : Keep(r[j]) \in Seq(A)
    BY <1>2, <2>1
  <2> QED
    BY <2>1, <2>2
<1>4. KeepOf(t) = Append(KeepOf(s), Keep(c))
  <2>1. KeepOf(s) \in Seq(Seq(A)) /\ Len(KeepOf(s)) = Len(s) /\ KeepOf(t) \in Seq(Seq(A))
        /\ Len(KeepOf(t)) = Len(s) + 1
    BY <1>1, <1>3
  <2>2. KeepOf(t)[Len(s) + 1] = Keep(c)
    BY <1>1
  <2>3. \A j \in 1..Len(s) : KeepOf(t)[j] = KeepOf(s)[j]
    BY <1>1
  <2>4. PICK k \in Seq(A) : k = Keep(c)
    BY <1>2
  <2> DEFINE V == Seq(A)
             p == KeepOf(s)
             q == KeepOf(t)
  <2>5. /\ p \in Seq(V) /\ q \in Seq(V) /\ k \in V /\ Len(q) = Len(p) + 1
        /\ q[Len(p) + 1] = k /\ \A j \in 1..Len(p) : q[j] = p[j]
    BY <2>1, <2>2, <2>3, <2>4
  <2> HIDE DEF KeepOf, V, p, q
  <2>6. q = Append(p, k)
    BY <2>5
  <2> QED
    BY <2>4, <2>6 DEF p, q
<1>5. FlattenSeq(KeepOf(t)) = FlattenSeq(KeepOf(s)) \o Keep(c)
      /\ FlattenSeq(KeepOf(s)) \in Seq(A)
  <2>1. KeepOf(s) \in Seq(Seq(A)) /\ Keep(c) \in Seq(A)
    BY <1>2, <1>3
  <2> HIDE DEF KeepOf
  <2> QED
    BY <1>4, <2>1, FlattenAppend
<1>6. ASSUME NEW r PROVE Without(r, some) = FlattenSeq(KeepOf(r))
  BY DEF Without, Keep, Remains
<1> HIDE DEF KeepOf
<1> QED
  BY <1>5, <1>6 DEF t, Keep

LEMMA WithoutTyped ==
  ASSUME NEW A, NEW some, NEW s \in Seq(A)
  PROVE  Without(s, some) \in Seq(A)
<1>1. CASE A = {}
  <2>1. s = <<>> /\ <<>> \in Seq(A)
    BY <1>1
  <2> QED
    BY <2>1, WithoutEmpty
<1>2. CASE A # {}
  BY <1>2, WithoutAppend
<1> QED
  BY <1>1, <1>2

(* What remains of a prefix begins what remains of the whole.              *)
LEMMA WithoutPrefix ==
  ASSUME NEW A, NEW some, NEW s \in Seq(A), NEW k \in 0..Len(s), NEW w,
         w = Without(SubSeq(s, 1, k), some)
  PROVE  /\ w \in Seq(A) /\ Len(w) <= Len(Without(s, some))
         /\ \A i \in 1..Len(w) : Without(s, some)[i] = w[i]
<1> DEFINE W(m)    == Without(SubSeq(s, 1, m), some)
           n       == Len(s) - k
           Good(v) == Len(w) <= Len(v) /\ \A i \in 1..Len(w) : v[i] = w[i]
           S       == {d \in 0..n : Good(W(k + d))}
<1>1. n \in Nat /\ k \in Nat /\ Len(s) \in Nat /\ k + n = Len(s) /\ k + 0 = k
  OBVIOUS
<1>2. ASSUME NEW m \in 0..Len(s)
      PROVE  /\ W(m) \in Seq(A)
             /\ m < Len(s) => \E q \in Seq(A) : W(m + 1) = W(m) \o q
  <2>1. PICK t \in Seq(A) : /\ t = SubSeq(s, 1, m)
                            /\ m < Len(s) => SubSeq(s, 1, m + 1) = Append(t, s[m + 1])
    BY PrefixGrows
  <2>2. Without(t, some) \in Seq(A)
    BY WithoutTyped
  <2>3. ASSUME m < Len(s) PROVE \E q \in Seq(A) : W(m + 1) = W(m) \o q
    <3> DEFINE q == Remains(s[m + 1], some)
    <3>1. s[m + 1] \in A
      BY <2>3
    <3>2. q \in Seq(A)
      BY <3>1 DEF Remains
    <3>3. Without(Append(t, s[m + 1]), some) = Without(t, some) \o q
      BY <3>1, WithoutAppend
    <3> HIDE DEF q
    <3> QED
      BY <2>1, <2>3, <3>2, <3>3
  <2> QED
    BY <2>1, <2>2, <2>3
<1>3. w = W(k) /\ w \in Seq(A) /\ Len(w) \in Nat
  BY <1>2
<1> HIDE DEF W
<1>4. Good(W(k))
  BY <1>3
<1>5. ASSUME NEW m \in 0..Len(s), m < Len(s), Good(W(m)) PROVE Good(W(m + 1))
  <2>1. PICK q \in Seq(A) : W(m + 1) = W(m) \o q
    BY <1>2, <1>5
  <2>2. W(m) \in Seq(A)
    BY <1>2
  <2>3. Len(W(m) \o q) >= Len(W(m)) /\ \A i \in 1..Len(W(m)) : (W(m) \o q)[i] = W(m)[i]
    BY <2>2
  <2>4. \A i \in 1..Len(w) : i \in 1..Len(W(m))
    BY <1>3, <1>5, <2>2
  <2> QED
    BY <1>3, <1>5, <2>1, <2>2, <2>3, <2>4
<1>6. n \in S
  <2> HIDE DEF Good
  <2>1. 0 \in S
    BY <1>1, <1>4
  <2>2. \A d \in 0..n : d \in S /\ d < n => d + 1 \in S
    <3> SUFFICES ASSUME NEW d \in 0..n, d \in S, d < n PROVE d + 1 \in S
      OBVIOUS
    <3>1. k + d \in 0..Len(s) /\ k + d < Len(s) /\ (k + d) + 1 = k + (d + 1)
          /\ d + 1 \in 0..n
      BY <1>1
    <3>2. Good(W((k + d) + 1))
      BY <1>5, <3>1
    <3> QED
      BY <3>1, <3>2
  <2>3. n \in 0..n /\ n \in Nat
    BY <1>1
  <2> HIDE DEF S, n
  <2> QED
    BY <2>1, <2>2, <2>3, Induction
<1>7. Good(W(Len(s)))
  BY <1>1, <1>6
<1>8. W(Len(s)) = Without(s, some)
  BY <1>1, PrefixGrows DEF W
<1> QED
  BY <1>3, <1>7, <1>8
-----------------------------------------------------------------------------
(* What load_file keeps: behind the characters it passed, the buffer holds *)
(* the file without its newlines and then some of what malloc left, and    *)
(* ahead of them what was read, then what malloc left.                     *)

FileChars == STRING \ {NUL, Garbage}
Bytes     == STRING \cup {NUL, Garbage, "n"}

Reach == IF from <= Len(input) THEN from ELSE Len(input)
Taken == SubSeq(input, 1, Reach)

Leftover(k) == [j \in 1..k |-> Garbage]

LoadedSoFar ==
  \E k \in 0..(from - Reach) : Result = Without(Taken, {"n"}) \o Leftover(k)

Ahead(j) == IF j < Len(input) THEN buf[j] = input[j + 1] ELSE buf[j] \in {Garbage, "n", NUL}

LoadInv ==
  task = "load" =>
    /\ pc \in {"open", "read", "strip", "done", "failed"}
    /\ input \in Seq(FileChars)
    /\ pc = "strip" => /\ Len(input) <= size
                       /\ \A j \in from..(size - 1) : Ahead(j)
    /\ pc \in {"strip", "done"} =>
         from <= size /\ Result \in Seq(Bytes) /\ LoadedSoFar
    /\ pc = "done" => Len(input) <= from /\ buf[to] = NUL

LEMMA LoadInvInit == FirstRunInit => LoadInv
<1> SUFFICES ASSUME FirstRunInit, task = "load" PROVE LoadInv
  BY DEF LoadInv
<1>1. pc = "open" /\ input \in Inputs["load"] /\ "load" \in DOMAIN Inputs
  BY DEF FirstRunInit, Init
<1>2. input \in Seq(FileChars)
  BY <1>1, TextFilesAssumption DEF FileChars
<1> QED
  BY <1>1, <1>2 DEF LoadInv

LEMMA ResultLength ==
  ASSUME NEW B, Result \in Seq(B), to \in Nat
  PROVE  Len(Result) = to
<1>1. DOMAIN Result = 1..to
  BY DEF Result
<1>2. DOMAIN Result = 1..Len(Result) /\ Len(Result) \in Nat
  OBVIOUS
<1> QED
  BY <1>1, <1>2

(* The loop of load_file passes the character c: a newline is dropped.     *)
LEMMA StripCopies ==
  ASSUME LoopInv, LoadInv, task = "load", StripChar, NEW c, c = buf[from],
         NEW code, code = IF c = "n" THEN <<>> ELSE <<c>>
  PROVE  /\ c \in Bytes /\ from < size /\ from \in Nat /\ size \in Nat
         /\ Result' = Result \o code /\ Result' \in Seq(Bytes)
         /\ pc' = "strip" /\ from' = from + 1
         /\ \A j \in (from + 1)..(size - 1) : Ahead(j) => Ahead(j)'
<1>1. /\ pc = "strip" /\ c # NUL /\ Write(<<c>>, "strip") /\ from' = from + 1
      /\ to' = IF c = "n" THEN to ELSE to + 1
      /\ UNCHANGED <<input, size>>
  BY DEF StripChar, Kept
<1>2. /\ DOMAIN buf = 0..size /\ buf[size] = NUL /\ to <= from /\ from < size
      /\ from \in Nat /\ to \in Nat /\ size \in Nat /\ input \in Seq(FileChars)
      /\ Ahead(from) /\ Result \in Seq(Bytes)
  <2>1. from # size
    BY <1>1 DEF LoopInv
  <2> QED
    BY <1>1, <2>1 DEF LoopInv, LoadInv
<1>3. c \in Bytes
  <2>1. CASE from < Len(input)
    <3>1. from + 1 \in 1..Len(input)
      BY <1>2, <2>1
    <3> QED
      BY <1>2, <2>1, <3>1 DEF Ahead, FileChars, Bytes
  <2>2. CASE ~(from < Len(input))
    BY <1>2, <2>2 DEF Ahead, Bytes
  <2> QED
    BY <2>1, <2>2
<1>4. Len(Result) = to
  BY <1>2, ResultLength
<1>5. /\ code \in Seq(Bytes) /\ Len(code) \in Nat /\ Len(code) <= 1
      /\ to' = to + Len(code) /\ \A i \in 1..Len(code) : code[i] = c
  <2>1. CASE c = "n"
    BY <1>1, <1>2, <2>1
  <2>2. CASE c # "n"
    BY <1>1, <1>3, <2>2
  <2> QED
    BY <2>1, <2>2
<1> DEFINE chars == <<c>>
           room  == size + 1
<1>6. Len(chars) = 1 /\ chars[1] = c
  OBVIOUS
<1>7. Write(chars, "strip")
  BY <1>1
<1>8. room \in Nat /\ DOMAIN buf = 0..(room - 1)
  BY <1>2
<1> HIDE DEF chars, room
<1>9. to + Len(chars) - 1 \in DOMAIN buf /\ to + Len(chars) - 1 = to
  BY <1>2, <1>6
<1>10. \A i \in 1..Len(code) : chars[i] = code[i]
  BY <1>5, <1>6
<1>11. Result' = Result \o code
  <2>1. Len(chars) \in Nat /\ Len(code) <= Len(chars) /\ to' = to + Len(code)
    BY <1>5, <1>6
  <2>2. code \in Seq(Bytes) /\ Result \in Seq(Bytes) /\ to \in Nat
    BY <1>2, <1>5
  <2> QED
    BY <1>4, <1>7, <1>8, <1>9, <1>10, <2>1, <2>2, WriteAppends
<1>12. Result' \in Seq(Bytes)
  BY <1>2, <1>5, <1>11
<1>13. pc' = "strip" /\ buf' = [j \in 0..size |-> IF j = to THEN c ELSE buf[j]]
  <2>1. pc' = "strip" /\ buf' = [j \in 0..size |->
                                   IF j \in to..to THEN chars[j - to + 1] ELSE buf[j]]
    BY <1>2, <1>7, <1>9 DEF Write
  <2>2. to..to = {to} /\ to - to + 1 = 1
    BY <1>2
  <2> QED
    BY <1>6, <2>1, <2>2
<1>14. ASSUME NEW j \in (from + 1)..(size - 1), Ahead(j) PROVE Ahead(j)'
  <2>1. buf'[j] = buf[j]
    BY <1>2, <1>13, <1>14
  <2> QED
    BY <1>1, <1>14, <2>1 DEF Ahead
<1> QED
  BY <1>1, <1>2, <1>3, <1>11, <1>12, <1>13, <1>14

LEMMA LeftoverGrows ==
  ASSUME NEW k \in Nat
  PROVE  /\ Leftover(k) \in Seq({Garbage})
         /\ Leftover(k) \o <<Garbage>> = Leftover(k + 1)
<1> DEFINE g == Garbage
<1>1. Leftover(k) = [j \in 1..k |-> g] /\ Leftover(k + 1) = [j \in 1..(k + 1) |-> g]
  BY DEF Leftover
<1> HIDE DEF g
<1>2. [j \in 1..k |-> g] \in Seq({g}) /\ [j \in 1..k |-> g] \o <<g>> = [j \in 1..(k + 1) |-> g]
  OBVIOUS
<1> QED
  BY <1>1, <1>2 DEF g

LEMMA LoadInvStep ==
  ASSUME LoopInv, LoadInv, Next
  PROVE  LoadInv'
<1> SUFFICES ASSUME task = "load", task' = task PROVE LoadInv'
  <2>1. task' = task
    BY DEF Next, CountChar, Allocate, NoResult, NoBuffer, EscapeChar, CopyChar, Terminate, OpenFile,
           LoadFails, ReadFile, StripChar, EndStrip, TypeBlank, TypeChar, EndCode, CheckCode,
           Stopped, vars
  <2> QED
    BY <2>1 DEF LoadInv
<1>1. CASE OpenFile \/ LoadFails
  BY <1>1 DEF OpenFile, LoadFails, LoadInv
<1>2. CASE ReadFile
  <2>1. /\ pc = "read" /\ pc' = "strip" /\ from = 0 /\ to = 0 /\ size = Len(input)
        /\ UNCHANGED <<size, from, to>> /\ input \in Seq(FileChars) /\ size \in Nat
    BY <1>2 DEF ReadFile, LoopInv, LoadInv
  <2>2. PICK n \in 0..size : \E left \in [n..(size - 1) -> {Garbage, "n", NUL}] :
          /\ input' = SubSeq(input, 1, n)
          /\ buf' = [j \in 0..size |-> IF j = size THEN NUL
                                       ELSE IF j < n THEN input[j + 1] ELSE left[j]]
    BY <1>2 DEF ReadFile
  <2>3. input' \in Seq(FileChars) /\ Len(input') = n /\ \A j \in 1..n : input'[j] = input[j]
    BY <2>1, <2>2
  <2>4. ASSUME NEW j \in 0..(size - 1) PROVE Ahead(j)'
    <3>0. PICK left \in [n..(size - 1) -> {Garbage, "n", NUL}] :
            buf' = [i \in 0..size |-> IF i = size THEN NUL
                                     ELSE IF i < n THEN input[i + 1] ELSE left[i]]
      BY <2>2
    <3>1. /\ j < n => buf'[j] = input[j + 1]
          /\ ~(j < n) => buf'[j] \in {Garbage, "n", NUL}
      BY <2>1, <3>0
    <3>2. j < n => input'[j + 1] = input[j + 1]
      BY <2>3
    <3>3. Len(input') = n /\ n \in Nat /\ j \in Nat
      BY <2>1, <2>3
    <3>4. CASE j < n
      BY <3>1, <3>2, <3>3, <3>4 DEF Ahead
    <3>5. CASE ~(j < n)
      BY <3>1, <3>3, <3>5 DEF Ahead
    <3> QED
      BY <3>4, <3>5
  <2>5. Result' = <<>> /\ Taken' = <<>>
    <3>1. Taken' = SubSeq(input', 1, 0)
      BY <2>1, <2>3 DEF Taken, Reach
    <3> QED
      BY <2>1, <2>3, <3>1 DEF Result
  <2>6. Result' \in Seq(Bytes) /\ LoadedSoFar'
    <3>1. Leftover(0) = <<>> /\ Without(Taken', {"n"}) = <<>>
      BY <2>5, WithoutEmpty DEF Leftover
    <3>2. Result' = Without(Taken', {"n"}) \o Leftover(0)
      BY <2>5, <3>1
    <3>3. 0 \in 0..(from' - Reach')
      BY <2>1, <2>3 DEF Reach
    <3> QED
      BY <2>5, <3>2, <3>3 DEF LoadedSoFar
  <2>7. from' <= size' /\ Len(input') <= size'
    BY <2>1, <2>3
  <2> QED
    BY <2>1, <2>3, <2>4, <2>6, <2>7 DEF LoadInv
<1>3. CASE StripChar
  <2> DEFINE c    == buf[from]
             code == Remains(c, {"n"})
  <2>1. /\ c \in Bytes /\ from < size /\ from \in Nat /\ size \in Nat
        /\ Result' = Result \o code /\ Result' \in Seq(Bytes)
        /\ pc' = "strip" /\ from' = from + 1
        /\ \A j \in (from + 1)..(size - 1) : Ahead(j) => Ahead(j)'
    <3>1. code = IF c = "n" THEN <<>> ELSE <<c>>
      BY DEF Remains
    <3> HIDE DEF code
    <3> QED
      BY <1>3, <3>1, StripCopies
  <2> HIDE DEF c, code
  <2>2. /\ pc = "strip" /\ UNCHANGED <<input, size>> /\ input \in Seq(FileChars)
        /\ Len(input) <= size /\ \A j \in from..(size - 1) : Ahead(j)
        /\ Result \in Seq(Bytes) /\ LoadedSoFar
    BY <1>3 DEF StripChar, LoadInv, LoopInv
  <2>3. \A j \in (from + 1)..(size - 1) : Ahead(j)'
    BY <2>1, <2>2
  <2>4. PICK k \in 0..(from - Reach) : Result = Without(Taken, {"n"}) \o Leftover(k)
    BY <2>2 DEF LoadedSoFar
  <2>5. ASSUME from < Len(input) PROVE LoadedSoFar'
    <3>1. /\ from \in 0..Len(input) /\ from + 1 \in 1..Len(input) /\ from + 1 <= Len(input)
          /\ Reach = from /\ Reach' = from + 1 /\ from' = from + 1
      BY <2>1, <2>2, <2>5 DEF Reach
    <3>2. PICK t \in Seq(FileChars) : /\ t = Taken
                                     /\ SubSeq(input, 1, from + 1) = Append(t, input[from + 1])
      <4>1. /\ SubSeq(input, 1, from) \in Seq(FileChars)
            /\ SubSeq(input, 1, from + 1) = Append(SubSeq(input, 1, from), input[from + 1])
        BY <2>2, <2>5, <3>1, PrefixGrows
      <4> QED
        BY <3>1, <4>1 DEF Taken
    <3>3. Taken' = Append(t, c) /\ c \in FileChars
      <4>1. c = input[from + 1] /\ input[from + 1] \in FileChars
        BY <2>1, <2>2, <2>5, <3>1 DEF Ahead, c
      <4>2. Taken' = SubSeq(input, 1, from + 1)
        BY <2>2, <3>1 DEF Taken
      <4> QED
        BY <3>2, <4>1, <4>2
    <3>4. PICK w \in Seq(FileChars) : w = Without(t, {"n"})
      BY WithoutTyped
    <3>5. Without(Taken', {"n"}) = w \o code /\ code \in Seq(FileChars)
      <4>1. Without(Append(t, c), {"n"}) = Without(t, {"n"}) \o Remains(c, {"n"})
        BY <3>3, WithoutAppend, Zenon
      <4>2. code \in Seq(FileChars)
        BY <3>3 DEF code, Remains
      <4> QED
        BY <3>3, <3>4, <4>1, <4>2, Zenon DEF code
    <3>6. k = 0 /\ Leftover(0) = <<>> /\ w \o <<>> = w
      <4>1. k = 0
        BY <2>1, <3>1
      <4> QED
        BY <4>1 DEF Leftover
    <3>7. Result = w
      BY <2>4, <3>2, <3>4, <3>6
    <3>8. w \o code = (w \o code) \o <<>>
      BY <3>5
    <3>9. Result' = Without(Taken', {"n"}) \o Leftover(0)
      BY <2>1, <3>5, <3>6, <3>7, <3>8
    <3>10. 0 \in 0..(from' - Reach')
      BY <2>1, <3>1
    <3> QED
      BY <3>9, <3>10 DEF LoadedSoFar
  <2>6. ASSUME ~(from < Len(input)) PROVE LoadedSoFar'
    <3>1. /\ Reach = Len(input) /\ Reach' = Len(input) /\ Taken' = Taken
          /\ from' - Reach' = (from - Reach) + 1 /\ from - Reach \in Nat /\ k \in Nat
      <4>1. Len(input) \in Nat /\ Len(input') = Len(input)
        BY <2>2
      <4>2. Reach = Len(input) /\ Reach' = Len(input)
        BY <2>1, <2>6, <4>1 DEF Reach
      <4>3. Taken' = Taken
        BY <2>2, <4>2 DEF Taken
      <4> QED
        BY <2>1, <2>6, <4>1, <4>2, <4>3
    <3>2. c \in {Garbage, "n"}
      <4>1. Ahead(from) /\ c # NUL
        BY <1>3, <2>1, <2>2 DEF StripChar, c
      <4> QED
        BY <2>6, <4>1 DEF Ahead, c
    <3>3. PICK w \in Seq(FileChars) : w = Without(Taken, {"n"})
      <4>1. Taken \in Seq(FileChars)
        BY <2>2, <3>1 DEF Taken
      <4> QED
        BY <4>1, WithoutTyped
    <3>4. PICK l \in Seq({Garbage}) : l = Leftover(k) /\ l \o <<Garbage>> = Leftover(k + 1)
      BY <3>1, LeftoverGrows
    <3>5. CASE c = "n"
      <4>1. code = <<>>
        BY <3>5 DEF code, Remains
      <4>2. Result' = Result
        BY <2>1, <2>2, <4>1
      <4>3. k \in 0..(from' - Reach') /\ Result' = Without(Taken', {"n"}) \o Leftover(k)
        BY <2>4, <3>1, <4>2
      <4> QED
        BY <4>3 DEF LoadedSoFar
    <3>6. CASE c = Garbage /\ c # "n"
      <4>1. code = <<Garbage>>
        BY <3>6 DEF code, Remains
      <4>2. w \in Seq(Bytes) /\ l \in Seq(Bytes) /\ Garbage \in Bytes
        <5>1. FileChars \subseteq Bytes /\ {Garbage} \subseteq Bytes
          BY DEF FileChars, Bytes
        <5> QED
          BY <3>3, <3>4, <5>1
      <4>3. (w \o l) \o <<Garbage>> = w \o (l \o <<Garbage>>)
        BY <4>2
      <4>4. Result' = Without(Taken', {"n"}) \o Leftover(k + 1)
        BY <2>1, <2>4, <3>1, <3>3, <3>4, <4>1, <4>3
      <4>5. k + 1 \in 0..(from' - Reach')
        BY <2>4, <3>1
      <4> QED
        BY <4>4, <4>5 DEF LoadedSoFar
    <3> QED
      BY <3>2, <3>5, <3>6
  <2>7. Len(input') <= size' /\ from' <= size' /\ input' \in Seq(FileChars)
    BY <2>1, <2>2
  <2> QED
    BY <2>1, <2>2, <2>3, <2>5, <2>6, <2>7 DEF LoadInv
<1>4. CASE EndStrip
  <2>1. /\ pc = "strip" /\ buf[from] = NUL /\ Write(<<NUL>>, "done")
        /\ UNCHANGED <<input, size, from, to>>
    BY <1>4 DEF EndStrip
  <2>2. /\ DOMAIN buf = 0..size /\ size \in Nat /\ from \in Nat /\ to \in 0..size
        /\ from <= size /\ input \in Seq(FileChars) /\ Len(input) <= size
        /\ \A j \in from..(size - 1) : Ahead(j)
    BY <2>1 DEF LoopInv, LoadInv
  <2>3. Result' = Result /\ buf'[to] = NUL /\ pc' = "done"
    BY <2>1, <2>2, NulStored
  <2>4. Len(input) <= from
    <3> SUFFICES ASSUME from < Len(input) PROVE FALSE
      BY <2>2
    <3>1. from + 1 \in 1..Len(input) /\ Ahead(from)
      BY <2>2
    <3>2. input[from + 1] \in FileChars
      BY <2>2, <3>1
    <3> QED
      BY <2>1, <3>1, <3>2 DEF Ahead, FileChars
  <2>5. Taken' = Taken /\ Reach' = Reach
    BY <2>1 DEF Taken, Reach
  <2>6. LoadedSoFar' /\ Result' \in Seq(Bytes)
    BY <2>1, <2>3, <2>5 DEF LoadInv, LoadedSoFar
  <2> QED
    BY <2>1, <2>2, <2>3, <2>4, <2>6 DEF LoadInv
<1>5. CASE Stopped
  <2>1. UNCHANGED <<input, pc, size, buf, from, to>>
    BY <1>5 DEF Stopped, vars
  <2>2. Result' = Result /\ Taken' = Taken /\ Reach' = Reach
    BY <2>1 DEF Result, Taken, Reach
  <2>3. pc # "strip"
    BY <1>5 DEF Stopped
  <2> QED
    BY <2>1, <2>2, <2>3 DEF LoadInv, LoadedSoFar
<1> QED
  BY <1>1, <1>2, <1>3, <1>4, <1>5
  DEF Next, LoadInv, CountChar, Allocate, NoResult, NoBuffer, EscapeChar, CopyChar, Terminate,
      TypeBlank, TypeChar, EndCode, CheckCode

-----------------------------------------------------------------------------
(* The loop that reads the code: as long as it asks, the line has not      *)
(* ended, and the array holds what of it was typed; then, all that fits.   *)

LineEnd == Min(Newlines)
CutLine == SubSeq(FirstLine, 1, Min({Len(FirstLine), MaxCode}))
Unblanked(n) == Without(SubSeq(input, 1, n), {"s", "t"})

CodeInv ==
  task = "code" =>
    /\ pc \in {"ask", "check", "done", "failed"}
    /\ Newlines # {} =>
         /\ Result \in Seq(STRING)
         /\ pc = "ask" => from < LineEnd /\ Result = Unblanked(from)
         /\ pc # "ask" => Result = CutLine
         /\ pc \in {"done", "failed"} => (pc = "failed" <=> to < MinCode)

LEMMA LineEndIs ==
  ASSUME input \in Seq(STRING), Newlines # {}
  PROVE  /\ LineEnd \in 1..Len(input) /\ input[LineEnd] = "n"
         /\ \A k \in 1..Len(input) : input[k] = "n" => LineEnd <= k
<1>1. Newlines \subseteq Nat
  BY DEF Newlines
<1>2. \E n \in Newlines : \A m \in Newlines : n <= m
  BY <1>1, LeastNatural
<1>3. LineEnd \in Newlines /\ \A m \in Newlines : LineEnd <= m
  BY <1>2 DEF LineEnd, Min
<1> QED
  BY <1>3 DEF Newlines

(* One more character of the line.                                         *)
LEMMA UnblankedGrows ==
  ASSUME input \in Seq(STRING), NEW n \in Nat, n < Len(input)
  PROVE  /\ Unblanked(n) \in Seq(STRING) /\ input[n + 1] \in STRING
         /\ Unblanked(n + 1) = Unblanked(n) \o Remains(input[n + 1], {"s", "t"})
<1>1. n \in 0..Len(input) /\ input[n + 1] \in STRING
  OBVIOUS
<1>2. PICK t \in Seq(STRING) : /\ t = SubSeq(input, 1, n)
                               /\ SubSeq(input, 1, n + 1) = Append(t, input[n + 1])
  BY <1>1, PrefixGrows
<1>3. /\ Without(t, {"s", "t"}) \in Seq(STRING)
      /\ Without(Append(t, input[n + 1]), {"s", "t"}) =
           Without(t, {"s", "t"}) \o Remains(input[n + 1], {"s", "t"})
  BY <1>1, WithoutAppend
<1> QED
  BY <1>1, <1>2, <1>3 DEF Unblanked

LEMMA CodeInvInit == FirstRunInit => CodeInv
<1> SUFFICES ASSUME FirstRunInit, task = "code" PROVE CodeInv
  BY DEF CodeInv
<1>1. pc = "ask" /\ from = 0 /\ to = 0 /\ input \in Seq(STRING)
  BY CharLoopsAssumption DEF FirstRunInit, Init
<1>2. SubSeq(input, 1, 0) = <<>>
  BY <1>1
<1>3. Unblanked(0) = <<>>
  BY <1>2, WithoutEmpty DEF Unblanked
<1>4. Result = <<>> /\ Result \in Seq(STRING)
  BY <1>1 DEF Result
<1>5. Newlines # {} => 0 < LineEnd
  BY <1>1, LineEndIs
<1> QED
  BY <1>1, <1>3, <1>4, <1>5 DEF CodeInv

(* The whole line is the code if there is room, and begins with it if the  *)
(* array is full.                                                          *)
LEMMA CodeIsCut ==
  ASSUME LoopInv, CodeInv, task = "code", pc = "ask", Newlines # {},
         (to < MaxCode /\ LineEnd = from + 1) \/ to = MaxCode
  PROVE  Result = CutLine
<1>1. /\ input \in Seq(STRING) /\ from \in Nat /\ to \in Nat /\ MaxCode \in Nat
      /\ Result \in Seq(STRING) /\ from < LineEnd /\ Result = Unblanked(from)
  BY CharLoopsAssumption DEF LoopInv, CodeInv
<1>2. LineEnd \in 1..Len(input)
  BY <1>1, LineEndIs
<1>3. Len(Result) = to
  BY <1>1, ResultLength
<1> DEFINE n == LineEnd - 1
<1>4. n \in 0..Len(input) /\ from \in 0..n
  BY <1>1, <1>2
<1>5. PICK line \in Seq(STRING) : /\ line = SubSeq(input, 1, n) /\ Len(line) = n
                                  /\ SubSeq(line, 1, from) = SubSeq(input, 1, from)
  <2>1. ASSUME NEW s \in Seq(STRING), NEW k \in 0..Len(s)
        PROVE  /\ SubSeq(s, 1, k) \in Seq(STRING) /\ Len(SubSeq(s, 1, k)) = k
               /\ \A i \in 1..k : SubSeq(s, 1, k)[i] = s[i]
    OBVIOUS
  <2> HIDE DEF n
  <2>2. PICK l \in Seq(STRING) : /\ l = SubSeq(input, 1, n) /\ Len(l) = n
                                 /\ \A i \in 1..n : l[i] = input[i]
    BY <1>1, <1>4, <2>1
  <2>3. from \in 0..Len(input) /\ from \in 0..Len(l)
    BY <1>1, <1>4, <2>2
  <2>4. PICK p \in Seq(STRING) : /\ p = SubSeq(l, 1, from) /\ Len(p) = from
                                 /\ \A i \in 1..from : p[i] = l[i]
    BY <2>1, <2>3
  <2>5. PICK q \in Seq(STRING) : /\ q = SubSeq(input, 1, from) /\ Len(q) = from
                                 /\ \A i \in 1..from : q[i] = input[i]
    BY <1>1, <2>1, <2>3
  <2>6. p = q
    BY <1>4, <2>2, <2>4, <2>5
  <2> QED
    BY <2>2, <2>4, <2>5, <2>6
<1>6. PICK r \in Seq(STRING) : r = Result
  BY <1>1
<1>7. PICK f \in Seq(STRING) : f = FirstLine /\ f = Without(line, {"s", "t"})
  BY <1>5, WithoutTyped DEF FirstLine, LineEnd
<1>8. from \in 0..Len(line) /\ r = Without(SubSeq(line, 1, from), {"s", "t"})
  BY <1>1, <1>4, <1>5, <1>6 DEF Unblanked
<1>9. Len(r) <= Len(f) /\ \A i \in 1..Len(r) : f[i] = r[i]
  BY <1>7, <1>8, WithoutPrefix
<1>10. ASSUME NEW a \in Nat, NEW b \in Nat PROVE Min({a, b}) = IF a < b THEN a ELSE b
  BY DEF Min
<1>11. Len(f) \in Nat /\ Len(r) = to /\ CutLine = SubSeq(f, 1, IF Len(f) < MaxCode THEN Len(f) ELSE MaxCode)
  <2>1. Len(f) \in Nat /\ Len(r) = to
    BY <1>3, <1>6
  <2>2. Min({Len(f), MaxCode}) = IF Len(f) < MaxCode THEN Len(f) ELSE MaxCode
    BY <1>1, <1>10, <2>1
  <2> QED
    BY <1>7, <2>1, <2>2 DEF CutLine
<1>12. CASE to = MaxCode
  <2>1. CutLine = SubSeq(f, 1, to)
    BY <1>1, <1>9, <1>11, <1>12
  <2>2. r = SubSeq(f, 1, to)
    BY <1>1, <1>9, <1>11
  <2> QED
    BY <1>6, <2>1, <2>2
<1>13. CASE to < MaxCode /\ LineEnd = from + 1
  <2>1. n = from /\ line = SubSeq(line, 1, from)
    BY <1>1, <1>5, <1>13
  <2>2. r = f
    BY <1>7, <1>8, <2>1
  <2>3. SubSeq(f, 1, Len(f)) = f
    OBVIOUS
  <2> QED
    BY <1>1, <1>6, <1>11, <1>13, <2>2, <2>3
<1> QED
  BY <1>12, <1>13

LEMMA CodeInvStep ==
  ASSUME LoopInv, CodeInv, Next
  PROVE  CodeInv'
<1> SUFFICES ASSUME task = "code", task' = task PROVE CodeInv'
  <2>1. task' = task
    BY DEF Next, CountChar, Allocate, NoResult, NoBuffer, EscapeChar, CopyChar, Terminate, OpenFile,
           LoadFails, ReadFile, StripChar, EndStrip, TypeBlank, TypeChar, EndCode, CheckCode,
           Stopped, vars
  <2> QED
    BY <2>1 DEF CodeInv
<1>1. ASSUME UNCHANGED input
      PROVE  /\ Newlines' = Newlines /\ LineEnd' = LineEnd /\ CutLine' = CutLine
             /\ \A n : Unblanked(n)' = Unblanked(n)
  BY <1>1 DEF Newlines, LineEnd, CutLine, FirstLine, Unblanked
<1>2. CASE pc = "ask" /\ Newlines # {}
  <2>1. /\ input \in Seq(STRING) /\ from \in Nat /\ to \in Nat /\ MaxCode \in Nat
        /\ DOMAIN buf = 0..MaxCode /\ to <= MaxCode /\ Result \in Seq(STRING)
        /\ from < LineEnd /\ Result = Unblanked(from)
    BY <1>2, CharLoopsAssumption DEF LoopInv, CodeInv
  <2>2. /\ LineEnd \in 1..Len(input) /\ input[LineEnd] = "n"
        /\ \A k \in 1..Len(input) : input[k] = "n" => LineEnd <= k
    BY <1>2, <2>1, LineEndIs
  <2>3. from < Len(input) /\ from + 1 \in 1..Len(input) /\ Typed = input[from + 1]
    BY <2>1, <2>2 DEF Typed, AllTaken, NextChar
  <2>4. Typed = "n" => LineEnd = from + 1
    <3>1. Typed = "n" => LineEnd <= from + 1
      BY <2>2, <2>3
    <3> QED
      BY <2>1, <2>2, <3>1
  <2>5. Typed # "n" => from + 1 < LineEnd
    <3>1. Typed # "n" => LineEnd # from + 1
      BY <2>2, <2>3
    <3> QED
      BY <2>1, <2>2, <3>1
  <2>6. /\ Unblanked(from + 1) = Result \o Remains(Typed, {"s", "t"}) /\ Typed \in STRING
    BY <2>1, <2>3, UnblankedGrows
  <2>7. Len(Result) = to
    BY <2>1, ResultLength
  <2>8. CASE TypeBlank
    <3>1. Typed # "n" /\ Remains(Typed, {"s", "t"}) = <<>>
      BY <2>8 DEF TypeBlank, Blank, Remains
    <3>2. /\ UNCHANGED <<input, pc, buf, to>> /\ from' = from + 1
      BY <2>8 DEF TypeBlank
    <3>3. Result' = Result /\ Result \o <<>> = Result
      BY <2>1, <3>2 DEF Result
    <3>4. Unblanked(from)' = Unblanked(from + 1)
      BY <3>2 DEF Unblanked
    <3> QED
      BY <1>1, <1>2, <2>1, <2>5, <2>6, <3>1, <3>2, <3>3, <3>4 DEF CodeInv
  <2>9. CASE TypeChar
    <3>1. /\ Typed # "n" /\ Remains(Typed, {"s", "t"}) = <<Typed>> /\ to < MaxCode
          /\ Write(<<Typed>>, "ask") /\ to' = to + 1 /\ UNCHANGED input
      BY <2>9 DEF TypeChar, Blank, Remains, Room
    <3>2. from' = from + 1
      BY <2>1, <2>3, <2>9 DEF TypeChar, AllTaken
    <3> DEFINE chars == <<Typed>>
               room  == MaxCode + 1
    <3>3. chars \in Seq(STRING) /\ Len(chars) = 1 /\ chars = Remains(Typed, {"s", "t"})
      BY <2>6, <3>1
    <3>4. Write(chars, "ask")
      BY <3>1
    <3>5. room \in Nat /\ DOMAIN buf = 0..(room - 1)
      BY <2>1
    <3> HIDE DEF chars, room
    <3>6. /\ Len(chars) \in Nat /\ Len(chars) <= Len(chars) /\ to + Len(chars) - 1 \in DOMAIN buf
          /\ to' = to + Len(chars) /\ \A i \in 1..Len(chars) : chars[i] = chars[i]
      BY <2>1, <3>1, <3>3
    <3>7. Result' = Result \o chars
      BY <2>1, <2>7, <3>3, <3>4, <3>5, <3>6, WriteAppends
    <3>8. pc' = "ask" /\ Result' \in Seq(STRING)
      BY <2>1, <3>3, <3>4, <3>6, <3>7 DEF Write
    <3>9. Unblanked(from)' = Unblanked(from + 1)
      BY <3>1, <3>2 DEF Unblanked
    <3> QED
      BY <1>1, <2>5, <2>6, <3>1, <3>2, <3>3, <3>7, <3>8, <3>9 DEF CodeInv
  <2>10. CASE EndCode
    <3>1. Write(<<NUL>>, "check") /\ UNCHANGED <<input, to>>
      BY <2>10 DEF EndCode
    <3>2. Result' = Result /\ pc' = "check"
      BY <2>1, <3>1, NulStored
    <3>3. (to < MaxCode /\ LineEnd = from + 1) \/ to = MaxCode
      BY <2>1, <2>4, <2>10 DEF EndCode, Room
    <3>4. Result = CutLine
      BY <1>2, <3>3, CodeIsCut
    <3> QED
      BY <1>1, <2>1, <3>1, <3>2, <3>4 DEF CodeInv
  <2> QED
    BY <1>2, <2>8, <2>9, <2>10
    DEF Next, CodeInv, CountChar, Allocate, NoResult, NoBuffer, EscapeChar, CopyChar, Terminate,
        OpenFile, LoadFails, ReadFile, StripChar, EndStrip, CheckCode, Stopped
<1>3. CASE pc = "ask" /\ Newlines = {}
  <2>1. CASE TypeBlank
    BY <1>1, <1>3, <2>1 DEF TypeBlank, CodeInv
  <2>2. CASE TypeChar
    <3>1. to + Len(<<Typed>>) - 1 = to /\ to \in DOMAIN buf
      BY <1>3, <2>2, CharLoopsAssumption DEF TypeChar, Room, LoopInv
    <3>2. pc' = "ask" /\ UNCHANGED input
      BY <2>2, <3>1, WriteKeepsSize DEF TypeChar
    <3> QED
      BY <1>1, <1>3, <3>2 DEF CodeInv
  <2>3. CASE EndCode
    <3>1. to + Len(<<NUL>>) - 1 = to /\ to \in DOMAIN buf
      BY <1>3, <2>3, CharLoopsAssumption DEF LoopInv
    <3>2. pc' = "check" /\ UNCHANGED input
      BY <2>3, <3>1, WriteKeepsSize DEF EndCode
    <3> QED
      BY <1>1, <1>3, <3>2 DEF CodeInv
  <2> QED
    BY <1>3, <2>1, <2>2, <2>3
    DEF Next, CodeInv, CountChar, Allocate, NoResult, NoBuffer, EscapeChar, CopyChar, Terminate,
        OpenFile, LoadFails, ReadFile, StripChar, EndStrip, CheckCode, Stopped
<1>4. CASE CheckCode
  <2>1. /\ pc = "check" /\ pc' = IF to < MinCode THEN "failed" ELSE "done"
        /\ UNCHANGED <<input, buf, to>>
    BY <1>4 DEF CheckCode
  <2>2. Result' = Result
    BY <2>1 DEF Result
  <2> QED
    BY <1>1, <2>1, <2>2 DEF CodeInv
<1>5. CASE Stopped
  <2>1. UNCHANGED <<input, pc, buf, to>> /\ pc # "ask"
    BY <1>5 DEF Stopped, vars
  <2>2. Result' = Result
    BY <2>1 DEF Result
  <2> QED
    BY <1>1, <2>1, <2>2 DEF CodeInv
<1> QED
  BY <1>2, <1>3, <1>4, <1>5
  DEF Next, CodeInv, CountChar, Allocate, NoResult, NoBuffer, EscapeChar, CopyChar, Terminate,
      OpenFile, LoadFails, ReadFile, StripChar, EndStrip, TypeBlank, TypeChar, EndCode

FileInv == LoopInv /\ LoadInv /\ CodeInv

LEMMA FileInvAlways == FirstRunSpec => []FileInv
<1>1. FirstRunInit => FileInv
  BY LoopInit, LoadInvInit, CodeInvInit DEF FileInv
<1>2. FileInv /\ [FirstRunNext]_<<vars, helpVars>> => FileInv'
  <2> SUFFICES ASSUME FileInv, [FirstRunNext]_<<vars, helpVars>> PROVE FileInv'
    OBVIOUS
  <2>1. LoopInv'
    BY LoopInvStep DEF FileInv
  <2>2. ASSUME Load PROVE LoadInv' /\ CodeInv'
    BY <2>2, LoadInvStep, CodeInvStep DEF Load, FileInv
  <2>3. ASSUME StartHelp PROVE LoadInv' /\ CodeInv'
    <3>1. input' = <<>> /\ pc' = "failed" /\ task' = "load"
      BY <2>3 DEF StartHelp
    <3>2. <<>> \in Seq(FileChars)
      OBVIOUS
    <3> QED
      BY <3>1, <3>2 DEF LoadInv, CodeInv
  <2>4. ASSUME UNCHANGED vars PROVE LoadInv' /\ CodeInv'
    <3>1. UNCHANGED <<task, input, pc, size, buf, from, to>>
      BY <2>4 DEF vars
    <3>2. /\ Result' = Result /\ LoadedSoFar' = LoadedSoFar /\ \A j : Ahead(j)' = Ahead(j)
          /\ Newlines' = Newlines /\ LineEnd' = LineEnd /\ CutLine' = CutLine
          /\ \A n : Unblanked(n)' = Unblanked(n)
      BY <3>1 DEF Result, Taken, Reach, LoadedSoFar, Ahead, Newlines, LineEnd, CutLine, FirstLine,
                  Unblanked
    <3>3. LoadInv'
      BY <3>1, <3>2 DEF FileInv, LoadInv
    <3>4. Unblanked(from)' = Unblanked(from)
      BY <3>1 DEF Unblanked
    <3>5. CodeInv'
      BY <3>1, <3>2, <3>4 DEF FileInv, CodeInv
    <3> QED
      BY <3>3, <3>5
  <2> QED
    BY <2>1, <2>2, <2>3, <2>4
       DEF FileInv, FirstRunNext, FirstMkdir, MkdirConf, SecondMkdir, Undo, Tell, OtherMkdir,
           HelpEnded
<1> QED
  BY <1>1, <1>2, PTL DEF FirstRunSpec

(* What load_file hands back is the file without its newlines, for files   *)
(* of any length, and as far as it could be read for one that shrinks      *)
(* meanwhile; behind that come at most as many bytes of what malloc left   *)
(* as the file has lost.                                                   *)
THEOREM LoadsWithoutNewlines == FirstRunSpec => []LoadsFile
<1>1. FileInv => LoadsFile
  <2> SUFFICES ASSUME FileInv, task = "load", pc = "done"
      PROVE  /\ buf[to] = NUL
             /\ \E k \in 0..(size - Len(input)) :
                  Result = Without(input, {"n"}) \o Leftover(k)
    BY DEF LoadsFile, Leftover
  <2>1. /\ input \in Seq(FileChars) /\ from \in Nat /\ from <= size /\ size \in Nat
        /\ Len(input) <= from /\ buf[to] = NUL /\ LoadedSoFar
    BY DEF FileInv, LoopInv, LoadInv
  <2>2. Reach = Len(input) /\ Taken = input
    <3>1. Reach = Len(input) /\ SubSeq(input, 1, Len(input)) = input
      BY <2>1 DEF Reach
    <3> QED
      BY <3>1 DEF Taken
  <2>3. PICK k \in 0..(from - Len(input)) : Result = Without(input, {"n"}) \o Leftover(k)
    BY <2>1, <2>2 DEF LoadedSoFar
  <2>4. k \in 0..(size - Len(input))
    BY <2>1, <2>3
  <2> QED
    BY <2>1, <2>3, <2>4
<1> QED
  BY <1>1, FileInvAlways, PTL

(* The code is the first line that is typed without its blanks, as much of *)
(* it as fits the array, for lines of any length, and is refused exactly   *)
(* if the line is too short.                                               *)
THEOREM CodeIsTheLine == FirstRunSpec => []CodeIsFirstLine
<1>1. FileInv => CodeIsFirstLine
  <2> SUFFICES ASSUME FileInv, task = "code", pc \in {"done", "failed"}, Newlines # {}
      PROVE  Result = CutLine /\ (pc = "failed" <=> Len(FirstLine) < MinCode)
    BY DEF CodeIsFirstLine, CutLine
  <2>1. /\ input \in Seq(STRING) /\ to \in Nat /\ Result \in Seq(STRING) /\ Result = CutLine
        /\ pc = "failed" <=> to < MinCode
    BY DEF FileInv, LoopInv, CodeInv
  <2>2. Len(CutLine) = to
    BY <2>1, ResultLength
  <2>3. PICK f \in Seq(STRING) : f = FirstLine
    <3>1. LineEnd - 1 \in 0..Len(input)
      BY <2>1, LineEndIs
    <3>2. SubSeq(input, 1, LineEnd - 1) \in Seq(STRING)
      BY <2>1, <3>1
    <3> QED
      BY <3>2, WithoutTyped DEF FirstLine, LineEnd
  <2>4. Len(f) \in Nat /\ MaxCode \in Nat /\ MinCode \in Nat /\ MinCode <= MaxCode
    BY CharLoopsAssumption
  <2>5. ASSUME NEW a \in Nat, NEW b \in Nat PROVE Min({a, b}) = IF a < b THEN a ELSE b
    BY DEF Min
  <2>6. CutLine = SubSeq(f, 1, IF Len(f) < MaxCode THEN Len(f) ELSE MaxCode)
    <3>1. Min({Len(f), MaxCode}) = IF Len(f) < MaxCode THEN Len(f) ELSE MaxCode
      BY <2>4, <2>5
    <3> QED
      BY <2>3, <3>1 DEF CutLine
  <2>7. Len(CutLine) = IF Len(f) < MaxCode THEN Len(f) ELSE MaxCode
    BY <2>4, <2>6
  <2>8. to < MinCode <=> Len(f) < MinCode
    BY <2>1, <2>2, <2>4, <2>7
  <2> QED
    BY <2>1, <2>3, <2>8
<1> QED
  BY <1>1, FileInvAlways, PTL
=============================================================================
