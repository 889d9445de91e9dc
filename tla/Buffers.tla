------------------------------ MODULE Buffers ------------------------------
(***************************************************************************)
(* str.c under the requests of Transfer: where the bytes of a response     *)
(* are.  Both strings of a response grow in the callback, are cleared      *)
(* between the pages of the listing, or are swapped with the cache of an   *)
(* entry (gdi_load) before the request is destroyed.                       *)
(***************************************************************************)
EXTENDS Transfer

CONSTANTS
  Blocks,  \* names of heap blocks, enough of them that only realloc's failure counts
  NULL,
  Bytes    \* Bytes[d]: the size of a piece of an answer

ASSUME BuffersAssumption ==
  /\ NULL \notin Blocks
  /\ Bytes \in [Payload -> Nat]

VARIABLES
  strs,    \* the str_t's of the response and of an entry's cache, and the
           \* list of headers, as if it were one
  heap,    \* heap[b]: size of the block, 0 when it is free
  corrupt, \* did a store leave its block, or was a free block freed?
  use      \* what the request is for: "token", "list", "check" or "load";
           \* "listed" after a page, "cached" after str_swap

bufferVars == <<strs, heap, corrupt, use>>

(* struct str_t                                                            *)
Str   == [block : Blocks \cup {NULL}, len : Nat, reserved : Nat]
Empty == [block |-> NULL, len |-> 0, reserved |-> 0]

Response == {"body", "headers"}

BufferInit ==
  /\ Init
  /\ strs = [n \in Response \cup {"cache", "list"} |-> Empty]
  /\ heap = [b \in Blocks |-> 0]
  /\ corrupt = FALSE
  /\ use = "list"

SizeOf(h, b) == IF b = NULL THEN 0 ELSE h[b]

(* A block that no string points to any more is leaked; its name is used   *)
(* again.                                                                  *)
Held(h) ==
  [b \in Blocks |-> IF \E n \in DOMAIN strs : strs'[n].block = b THEN h[b] ELSE 0]

-----------------------------------------------------------------------------
(* str.c                                                                   *)

(* Faulty: no room for the null character.                                 *)
NeededTight(s, k) == s.len + k

Needed(s, k) == s.len + k + 1

(* Faulty: reserved is set although realloc failed.                        *)
ResizedEagerly(s, size, b, ok) ==
  [s EXCEPT !.block = IF ok THEN b ELSE s.block, !.reserved = size]

(* str_resize when it has to call realloc; b is the block it gets.         *)
Resized(s, size, b, ok) == IF ok THEN [s EXCEPT !.block = b, !.reserved = size] ELSE s

(* str_concat with k bytes onto string n: one allocation, the copy and the *)
(* null character; if the allocation fails the string stays as it is.      *)
Concat(n, k, ok) ==
  LET s    == strs[n]
      size == Needed(s, k)
      b    == IF s.block = NULL THEN CHOOSE c \in Blocks : heap[c] = 0 ELSE s.block
  IN IF size <= s.reserved
     THEN /\ ok
          /\ strs' = [strs EXCEPT ![n].len = s.len + k]
          /\ corrupt' = (corrupt \/ s.len + k + 1 > SizeOf(heap, s.block))
          /\ UNCHANGED heap
     ELSE /\ strs' = [strs EXCEPT ![n] = [Resized(s, size, b, ok) EXCEPT
                                           !.len = IF ok THEN s.len + k ELSE s.len]]
          /\ heap' = IF ok THEN [heap EXCEPT ![b] = size] ELSE heap
          /\ corrupt' = (corrupt \/ (ok /\ s.len + k + 1 > size))

(* str_destroy of every string in names.                                   *)
Destroy(names) ==
  LET freed == {strs[n].block : n \in names} \ {NULL} IN
  /\ strs' = [n \in DOMAIN strs |-> IF n \in names THEN Empty ELSE strs[n]]
  /\ heap' = [b \in Blocks |-> IF b \in freed THEN 0 ELSE heap[b]]
  /\ corrupt' = (corrupt \/ \E b \in freed : heap[b] = 0)

(* Faulty: the length stays where it was.                                  *)
SwappedBlocks(a, b) == [a EXCEPT !.block = b.block]

(* What str_swap makes of a when its partner is b; reserved is not swapped. *)
Swapped(a, b) == [a EXCEPT !.block = b.block, !.len = b.len]

-----------------------------------------------------------------------------
(* curl_interface.c and its callers                                        *)

(* ci_init; ci_create_header makes the list of headers if there are any.   *)
InitRequest(u, caller, ok) ==
  LET b    == CHOOSE c \in Blocks : heap[c] = 0
      list == IF caller # "token" /\ ok THEN [block |-> b, len |-> 1, reserved |-> 2] ELSE Empty
  IN /\ CiInit(u)
     /\ use' = caller
     /\ strs' = [strs EXCEPT !["body"] = Empty, !["headers"] = Empty, !["list"] = list]
     /\ heap' = IF list = Empty THEN heap ELSE [heap EXCEPT ![b] = list.reserved]
     /\ UNCHANGED corrupt

Request(a) == CiRequest(a) /\ UNCHANGED bufferVars

ReceivePiece(ok) ==
  /\ Receive(ok)
  /\ Concat(IF header THEN "body" ELSE "headers", Bytes[answer[arrived + 1].data], ok)
  /\ UNCHANGED use

EndTransfer == Perform /\ UNCHANGED bufferVars

(* gdi_get_file_list goes on to the next page, or is about to end.         *)
ClearResponse(u) ==
  /\ use \in {"list", "listed"}
  /\ CiSetUri(u) /\ CiClearResponse
  /\ Destroy(Response)
  /\ use' = "listed"

(* gdi_load takes the body into the entry, once.                           *)
SwapIntoCache ==
  /\ phase = "done" /\ use = "load"
  /\ use' = "cached"
  /\ strs' = [strs EXCEPT !["body"]  = Swapped(strs["body"], strs["cache"]),
                          !["cache"] = Swapped(strs["cache"], strs["body"])]
  /\ UNCHANGED <<vars, heap, corrupt>>

(* Each caller destroys its request: the listing after the last page was   *)
(* cleared, gdi_load after the swap, the others when they have parsed the  *)
(* answer.  The list of headers is freed, but not what the response holds. *)
DestroyRequest ==
  LET list == strs["list"].block IN
  /\ \/ phase = "done" /\ use \in {"token", "check", "cached"}
     \/ phase = "ready" /\ use = "listed"
  /\ CiDestroy
  /\ strs' = [n \in DOMAIN strs |-> IF n = "cache" THEN strs[n] ELSE Empty]
  /\ heap' = Held(heap)
  /\ corrupt' = (corrupt \/ (list # NULL /\ heap[list] = 0))
  /\ UNCHANGED use

(* gd_fs_entry_destroy                                                     *)
DestroyEntry ==
  /\ phase = "none"
  /\ Destroy({"cache"})
  /\ UNCHANGED <<vars, use>>

BufferNext ==
  \/ \E u \in Uris, caller \in {"token", "list", "check", "load"}, ok \in MayStore :
       InitRequest(u, caller, ok)
  \/ \E a \in Answers[uri] : Request(a)
  \/ \E ok \in MayStore : ReceivePiece(ok)
  \/ EndTransfer
  \/ \E u \in Uris : ClearResponse(u)
  \/ SwapIntoCache
  \/ DestroyRequest
  \/ DestroyEntry

BufferSpec == BufferInit /\ [][BufferNext]_<<vars, bufferVars>>

-----------------------------------------------------------------------------
(* Properties                                                              *)

(* No store of str_concat leaves its block, the null character included,   *)
(* no two strings have one block, none has a block that was freed, and no  *)
(* block is freed twice: through failing allocations, repeated requests    *)
(* with one list of headers, and str_swap.                                 *)
StringsFit ==
  /\ ~corrupt
  /\ \A n \in DOMAIN strs :
       LET s == strs[n] IN
       /\ s \in Str
       /\ IF s.block = NULL THEN s.len = 0 ELSE s.len < heap[s.block]
       /\ \A m \in DOMAIN strs \ {n} : s.block = NULL \/ strs[m].block # s.block

(* A string that may still grow knows the size of its block.  str_swap     *)
(* leaves two that do not, and neither of them is appended to again.       *)
CapacityHonest ==
  phase \in {"ready", "performing"} =>
    \A n \in Response : strs[n].reserved = SizeOf(heap, strs[n].block)

Total(s) == LET sum[k \in 0..Len(s)] == IF k = 0 THEN 0 ELSE sum[k - 1] + Bytes[s[k].data]
            IN sum[Len(s)]

(* The strings are as long as what the callback was given and could store, *)
(* and null only if nothing was stored: first in the response, then in the *)
(* cache of the entry.                                                     *)
HoldsContent ==
  phase \in {"performing", "done"} =>
    LET of == IF use = "cached" THEN strs["cache"] ELSE strs["body"] IN
    /\ of.len = Total(body) /\ strs["headers"].len = Total(headers)
    /\ of.block = NULL <=> body = <<>>
=============================================================================
