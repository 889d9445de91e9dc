------------------------------ MODULE CharLoops ------------------------------
(***************************************************************************)
(* The loops of the program that move characters into a buffer sized       *)
(* beforehand: filenameencode (gd_cache.c) and str_urlencode_str (str.c),  *)
(* which count what to escape and then copy; load_file, which drops the    *)
(* newlines of a file in place; and the part of gdi_init that reads the    *)
(* code a user types.  Each has an index it reads at and one it writes at. *)
(***************************************************************************)
EXTENDS Text

CONSTANTS
  Inputs,   \* Inputs[task]: what the loop may be given, sequences of characters
  MaxCode,  \* the array for the code has MaxCode + 1 bytes, 46 in gdi_init
  MinCode   \* a shorter code is refused, 5 in gdi_init

Encoders == {"filename", "url"}

(* The byte that ends a C string, which no digit is and no text to escape  *)
(* holds; one that malloc left; and what getc returns at the end.          *)
NUL     == "nul"
Garbage == "?"
EOF     == "ff"

ASSUME CharLoopsAssumption ==
  /\ DOMAIN Inputs \subseteq Encoders \cup {"load", "code"}
  /\ \A t \in DOMAIN Inputs : Inputs[t] \subseteq Seq(STRING)
  /\ \A t \in DOMAIN Inputs \cap Encoders : Inputs[t] \subseteq Seq(STRING \ {NUL})
  /\ MinCode \in Nat /\ MaxCode \in Nat /\ MinCode <= MaxCode

(* The configuration files are texts.                                      *)
ASSUME TextFilesAssumption ==
  "load" \in DOMAIN Inputs => Inputs["load"] \subseteq Seq(STRING \ {NUL, Garbage})

VARIABLES
  task,   \* which loop runs
  input,  \* the string, the file, or what is typed until the terminal ends
  pc,     \* "count", "copy", "open", "read", "strip", "ask", "check",
          \* "done", "failed" or "overrun"
  size,   \* number of characters to escape, or what ftell said
  buf,    \* the buffer, from position 0 on
  from,   \* characters of the input taken, or from - result
  to      \* iter - result, to - result, or i

vars == <<task, input, pc, size, buf, from, to>>

Init ==
  /\ task \in DOMAIN Inputs
  /\ input \in Inputs[task]
  /\ pc = CASE task = "load" -> "open" [] task = "code" -> "ask" [] OTHER -> "count"
  /\ size = 0
  /\ buf = IF task = "code" THEN [j \in 0..MaxCode |-> Garbage] ELSE <<>>
  /\ from = 0 /\ to = 0

(* Store chars from position to on; outside the buffer nothing holds.      *)
Write(chars, next) ==
  IF to + Len(chars) - 1 \in DOMAIN buf
  THEN /\ buf' = [j \in DOMAIN buf |->
                    IF j \in to..(to + Len(chars) - 1) THEN chars[j - to + 1] ELSE buf[j]]
       /\ pc' = next
  ELSE /\ pc' = "overrun"
       /\ UNCHANGED buf

AllTaken == from = Len(input)
NextChar == input[from + 1]

-----------------------------------------------------------------------------
(* filenameencode and str_urlencode_str                                    *)

Unsafe == IF task = "filename" THEN FilenameUnsafe ELSE UrlUnsafe

CountChar ==
  /\ pc = "count" /\ ~AllTaken
  /\ size' = size + (IF NextChar \in Unsafe THEN 1 ELSE 0)
  /\ from' = from + 1
  /\ UNCHANGED <<task, input, pc, buf, to>>

(* Faulty: no room for the null character.                                 *)
AllocatedTight(n) == Len(input) + n * 2

Allocated(n) == Len(input) + n * (IF task = "filename" THEN 3 ELSE 2) + 1

Allocate ==
  /\ pc = "count" /\ AllTaken
  /\ pc' = "copy"
  /\ buf' = [j \in 0..(Allocated(size) - 1) |-> Garbage]
  /\ from' = 0
  /\ UNCHANGED <<task, input, size, to>>

(* malloc fails, and the caller gets NULL.                                 *)
NoResult ==
  /\ pc = "count" /\ AllTaken
  /\ pc' = "failed"
  /\ UNCHANGED <<task, input, size, buf, from, to>>

(* str_resize fails, which str_urlencode_str does not look at.             *)
NoBuffer ==
  /\ pc = "count" /\ AllTaken /\ task = "url"
  /\ pc' = "copy"
  /\ buf' = <<>>
  /\ from' = 0
  /\ UNCHANGED <<task, input, size, to>>

(* Faulty: iter also passes the null character that sprintf wrote.         *)
AdvancePastNul == 4

Advance == 3

(* The percent sign, then sprintf, which ends its two digits with NUL.     *)
EscapeChar ==
  /\ pc = "copy" /\ ~AllTaken /\ NextChar \in Unsafe
  /\ Write(Escaped(NextChar) \o <<NUL>>, "copy")
  /\ to' = to + Advance
  /\ from' = from + 1
  /\ UNCHANGED <<task, input, size>>

CopyChar ==
  /\ pc = "copy" /\ ~AllTaken /\ NextChar \notin Unsafe
  /\ Write(<<NextChar>>, "copy")
  /\ to' = to + 1
  /\ from' = from + 1
  /\ UNCHANGED <<task, input, size>>

(* The null character at the end; to is the length handed back.            *)
Terminate ==
  /\ pc = "copy" /\ AllTaken
  /\ Write(<<NUL>>, "done")
  /\ UNCHANGED <<task, input, size, from, to>>

-----------------------------------------------------------------------------
(* load_file                                                               *)

OpenFile ==
  /\ pc = "open"
  /\ pc' = "read"
  /\ size' = Len(input)
  /\ UNCHANGED <<task, input, buf, from, to>>

(* The name, the file or the buffer cannot be had, or the read fails.      *)
LoadFails ==
  /\ pc \in {"open", "read"}
  /\ pc' = "failed"
  /\ UNCHANGED <<task, input, size, buf, from, to>>

(* fread may find less than ftell said: what malloc left there is then     *)
(* taken for text, newlines or an end.                                     *)
ReadFile ==
  /\ pc = "read"
  /\ pc' = "strip"
  /\ \E n \in 0..size : \E left \in [n..(size - 1) -> {Garbage, "n", NUL}] :
       /\ input' = SubSeq(input, 1, n)
       /\ buf' = [j \in 0..size |-> IF j = size THEN NUL
                                    ELSE IF j < n THEN input[j + 1] ELSE left[j]]
  /\ UNCHANGED <<task, size, from, to>>

(* Faulty: the character is dropped and the next one with it.              *)
KeptLate(c) == c # "n" /\ (from = 0 \/ buf[from - 1] # "n")

Kept(c) == c # "n"

(* Copy one character down; the next one goes over it if it is a newline.  *)
StripChar ==
  /\ pc = "strip" /\ buf[from] # NUL
  /\ Write(<<buf[from]>>, "strip")
  /\ to' = IF Kept(buf[from]) THEN to + 1 ELSE to
  /\ from' = from + 1
  /\ UNCHANGED <<task, input, size>>

EndStrip ==
  /\ pc = "strip" /\ buf[from] = NUL
  /\ Write(<<NUL>>, "done")
  /\ UNCHANGED <<task, input, size, from, to>>

-----------------------------------------------------------------------------
(* The loop of gdi_init that reads the code                                *)

(* getc; at the end of the input it returns EOF each time.                 *)
Typed == IF AllTaken THEN EOF ELSE NextChar

Room == to < MaxCode

(* Faulty: a space is taken for a part of the code.                        *)
BlankTab(c) == c = "t"

Blank(c) == c \in {"s", "t"}

TypeBlank ==
  /\ pc = "ask" /\ Room /\ Blank(Typed)
  /\ from' = from + 1
  /\ UNCHANGED <<task, input, pc, size, buf, to>>

TypeChar ==
  /\ pc = "ask" /\ Room /\ ~Blank(Typed) /\ Typed # "n"
  /\ Write(<<Typed>>, "ask")
  /\ to' = to + 1
  /\ from' = IF AllTaken THEN from ELSE from + 1
  /\ UNCHANGED <<task, input, size>>

(* A newline was typed, or the array is full.                              *)
EndCode ==
  /\ pc = "ask"
  /\ \/ Room /\ Typed = "n" /\ from' = from + 1
     \/ ~Room /\ UNCHANGED from
  /\ Write(<<NUL>>, "check")
  /\ UNCHANGED <<task, input, size, to>>

CheckCode ==
  /\ pc = "check"
  /\ pc' = IF to < MinCode THEN "failed" ELSE "done"
  /\ UNCHANGED <<task, input, size, buf, from, to>>

Stopped == pc \in {"done", "failed", "overrun"} /\ UNCHANGED vars

Next ==
  \/ CountChar \/ Allocate \/ NoResult \/ NoBuffer \/ EscapeChar \/ CopyChar \/ Terminate
  \/ OpenFile \/ LoadFails \/ ReadFile \/ StripChar \/ EndStrip
  \/ TypeBlank \/ TypeChar \/ EndCode \/ CheckCode
  \/ Stopped

Spec == Init /\ [][Next]_vars

-----------------------------------------------------------------------------
(* Properties                                                              *)

Result == [j \in 1..to |-> buf[j - 1]]

(* No loop writes outside its buffer, the null characters of sprintf and   *)
(* of the ends included, if there is a buffer at all; load_file never      *)
(* reads outside it and never writes over what it has not read.            *)
InBuffer ==
  /\ pc = "overrun" => DOMAIN buf = {}
  /\ pc = "strip" => from \in DOMAIN buf /\ to <= from

(* The C string in the buffer is the text with every unsafe character      *)
(* escaped, and the length handed back is its length.                      *)
EncodesExactly ==
  task \in Encoders /\ pc = "done" =>
    /\ Result = Encode(input, Unsafe)
    /\ buf[to] = NUL /\ \A j \in 1..to : Result[j] # NUL

(* Two texts never get one encoding, and a file name holds no slash.       *)
Reversible ==
  task \in Encoders /\ pc = "done" =>
    /\ \A other \in Inputs[task] : Encode(other, Unsafe) = Result => other = input
    /\ task = "filename" => \A j \in 1..to : Result[j] # "/"

(* The text s without the characters in some.                              *)
Without(s, some) ==
  FlattenSeq([j \in DOMAIN s |-> IF s[j] \in some THEN <<>> ELSE <<s[j]>>])

(* What is loaded is the file without its newlines, as far as it could be  *)
(* read, and behind it at most as many bytes of what malloc left as the    *)
(* file has lost since ftell: none, if it did not shrink.                  *)
LoadsFile ==
  task = "load" /\ pc = "done" =>
    /\ buf[to] = NUL
    /\ \E k \in 0..(size - Len(input)) :
         Result = Without(input, {"n"}) \o [j \in 1..k |-> Garbage]

(* The line that the first newline ends, without its blanks.               *)
Newlines  == {j \in DOMAIN input : input[j] = "n"}
FirstLine == Without(SubSeq(input, 1, Min(Newlines) - 1), {"s", "t"})

(* When a whole line was typed the code is that line without its blanks,   *)
(* cut to the size of the array, and one that is too short is refused.     *)
CodeIsFirstLine ==
  task = "code" /\ pc \in {"done", "failed"} /\ Newlines # {} =>
    /\ Result = SubSeq(FirstLine, 1, Min({Len(FirstLine), MaxCode}))
    /\ pc = "failed" <=> Len(FirstLine) < MinCode
=============================================================================
