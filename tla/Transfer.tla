------------------------------ MODULE Transfer ------------------------------
(***************************************************************************)
(* curl_interface.c: the life of one request_t.  curl_easy_perform hands   *)
(* every piece of the answer to ci_callback_controller, which files it     *)
(* under the headers or under the body; the request may then be cleared    *)
(* and used again for another URI, or be destroyed.                        *)
(***************************************************************************)
EXTENDS Naturals, Sequences

CONSTANTS
  Uris,     \* what a request may ask for
  Payload,  \* what a piece of an answer may carry
  Answers,  \* Answers[u]: the answers to u, as the calls of the callback
  Faults    \* "broken": the connection may break; "memory": realloc may fail

(* One call of the callback: a header line, the empty line that ends a     *)
(* block of headers, or a piece of the body.                               *)
Piece == [kind : {"line", "blank", "data"}, data : Payload]

ASSUME TransferAssumption ==
  /\ Answers \in [Uris -> SUBSET Seq(Piece)]
  /\ Faults \subseteq {"broken", "memory"}

VARIABLES
  phase,     \* "none", "ready", "performing" or "done"
  uri,       \* CURLOPT_URL
  header,    \* flags.header
  headers,   \* response.headers; <<>> stands for the null pointer
  body,      \* response.body; <<>> stands for the null pointer
  answer,    \* what the server answers to the current request
  arrived,   \* how many of its pieces the callback was called for
  lost       \* history: could a piece of it not be stored?

vars == <<phase, uri, header, headers, body, answer, arrived, lost>>

TypeOK ==
  /\ phase \in {"none", "ready", "performing", "done"}
  /\ uri \in Uris
  /\ header \in BOOLEAN
  /\ headers \in Seq(Piece)
  /\ body \in Seq(Piece)
  /\ answer \in Seq(Piece)
  /\ arrived \in 0..Len(answer)
  /\ lost \in BOOLEAN

Idle ==
  /\ phase = "none"
  /\ header = FALSE
  /\ headers = <<>> /\ body = <<>>
  /\ answer = <<>> /\ arrived = 0
  /\ lost = FALSE

Init == Idle /\ uri \in Uris

-----------------------------------------------------------------------------

(* memset clears the request; the cleanups it registers are CleanupStack's.*)
CiInit(u) ==
  /\ phase = "none"
  /\ phase' = "ready"
  /\ uri' = u
  /\ header' = FALSE
  /\ headers' = <<>> /\ body' = <<>>
  /\ UNCHANGED <<answer, arrived, lost>>

(* Faulty: curl keeps the pointer, which the loop over the pages frees.    *)
CiSetUriUncopied(u) == uri' = "freed"

CiSetUri(u) == uri' = u

(* ci_request resets the flags and starts curl_easy_perform; a is what     *)
(* the server is going to answer.                                          *)
CiRequest(a) ==
  /\ phase = "ready"
  /\ phase' = "performing"
  /\ header' = FALSE
  /\ answer' = a
  /\ arrived' = 0
  /\ lost' = FALSE
  /\ UNCHANGED <<uri, headers, body>>

(* str_char_concat; the callback does not look at whether it succeeded.    *)
Stored(s, p, ok) == IF ok THEN Append(s, p) ELSE s

MayStore == IF "memory" \in Faults THEN BOOLEAN ELSE {TRUE}

(* The line that holds only CRLF belongs to the headers and ends them.     *)
Receive(ok) ==
  /\ phase = "performing" /\ arrived < Len(answer)
  /\ arrived' = arrived + 1
  /\ lost' = (lost \/ ~ok)
  /\ LET p == answer[arrived + 1] IN
       \/ /\ ~header
          /\ header' = (p.kind = "blank")
          /\ headers' = Stored(headers, p, ok)
          /\ UNCHANGED body
       \/ /\ header
          /\ body' = Stored(body, p, ok)
          /\ UNCHANGED <<header, headers>>
  /\ UNCHANGED <<phase, uri, answer>>

Callback == \E ok \in MayStore : Receive(ok)

(* curl_easy_perform returns, with the whole answer or with an error.      *)
Perform ==
  /\ phase = "performing"
  /\ arrived = Len(answer) \/ "broken" \in Faults
  /\ phase' = "done"
  /\ UNCHANGED <<uri, header, headers, body, answer, arrived, lost>>

(* Faulty: the strings keep what they hold.                                *)
KeptOnClear(s) == s

(* str_destroy and str_init of one string of the response.                 *)
Cleared(s) == <<>>

CiClearResponse ==
  /\ phase = "done"
  /\ phase' = "ready"
  /\ body' = Cleared(body) /\ headers' = Cleared(headers)
  /\ header' = FALSE
  /\ UNCHANGED <<answer, arrived, lost>>

CiDestroy ==
  /\ phase \in {"ready", "done"}
  /\ phase' = "none"
  /\ header' = FALSE
  /\ headers' = <<>> /\ body' = <<>>
  /\ answer' = <<>> /\ arrived' = 0
  /\ lost' = FALSE
  /\ UNCHANGED uri

-----------------------------------------------------------------------------
(* What the callers do: one request and the end (gdi_load), or another     *)
(* page with the same request_t (gdi_get_file_list).                       *)

Next ==
  \/ \E u \in Uris : CiInit(u)
  \/ \E a \in Answers[uri] : CiRequest(a)
  \/ Callback
  \/ Perform
  \/ \E u \in Uris : CiSetUri(u) /\ CiClearResponse
  \/ CiDestroy

Spec == Init /\ [][Next]_vars

-----------------------------------------------------------------------------
(* Properties                                                              *)

IsData(p) == p.kind = "data"

(* While a request runs and when it is over, the headers are the pieces of *)
(* this answer up to some point and the body those after it, as far as     *)
(* they arrived: nothing of an earlier request, nothing in the wrong       *)
(* section, and nothing missing unless an allocation failed.               *)
SplitExact ==
  phase \in {"performing", "done"} /\ ~lost =>
    \E h \in 0..arrived :
      /\ headers = SubSeq(answer, 1, h)
      /\ body = SubSeq(answer, h + 1, arrived)
      /\ \A j \in 1..arrived : IsData(answer[j]) <=> j > h
=============================================================================
