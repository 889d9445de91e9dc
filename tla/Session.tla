------------------------------ MODULE Session ------------------------------
(***************************************************************************)
(* The life of the process: main, gdi_init with curl_post_callback and     *)
(* create_oauth_header, and gdi_destroy.  gdi_init acquires one resource   *)
(* after the other and registers its cleanup on one of two stacks: estack  *)
(* lives as long as the mount, gstack as long as gdi_init.  The stacks are *)
(* those that LifoStack promises and CleanupStack implements.              *)
(***************************************************************************)
EXTENDS Naturals, Sequences

CONSTANTS
  Faults,   \* what may go wrong: "acquire", "push", "concat", "refuse"
  Replies   \* how a server may answer: "tokens", "error", "other" or nothing

ASSUME SessionAssumption ==
  /\ Faults \subseteq {"acquire", "push", "concat", "refuse"}
  /\ Replies \subseteq {"tokens", "error", "other"}

(* What is acquired before the code is exchanged, in this order, and the   *)
(* stack its cleanup goes to.                                              *)
S(r, stack) == [res |-> r, stack |-> stack]

(* Faulty: curl's multi handle is set up before curl itself.               *)
PlanMultiFirst ==
  <<S("full_path", "g"), S("clientsecrets", "e"), S("redirecturi", "e"),
    S("clientid", "e"), S("curlmulti", "e"), S("curl_global", "e"),
    S("complete_authuri", "g"), S("code", "e")>>

Plan ==
  <<S("full_path", "g"), S("clientsecrets", "e"), S("redirecturi", "e"),
    S("clientid", "e"), S("curl_global", "e"), S("curlmulti", "e"),
    S("complete_authuri", "g"), S("code", "e")>>

(* Faulty: a line was copied and not changed.                              *)
TokensCopied == <<"access_token", "token_type", "refresh_token", "refresh_token">>

(* Faulty: the number that follows gets a cleanup as well.                 *)
TokensWithExpiry ==
  <<"access_token", "token_type", "refresh_token", "id_token", "expires_in">>

(* The members of the token reply, in the order they are taken out.        *)
Tokens == <<"access_token", "token_type", "refresh_token", "id_token">>

(* Their cleanup is free(), of a str_t inside gdi_state.                   *)
Embedded == {"refresh_token", "id_token"}

(* Nobody releases these: the parts of the URI; the URI itself, whose      *)
(* string is given another block; and what the token server answered,      *)
(* which ci_destroy forgets.                                               *)
Dropped == {"uri_parts", "first_uri", "response"}

Resources ==
  {Plan[j].res : j \in DOMAIN Plan} \cup Dropped \cup
  {"access_token", "token_type", "refresh_token", "id_token",
   "request", "oauth_header", "entries", "hash_table"}

VARIABLES
  pc,      \* where main is
  at,      \* the next element of Plan, then of Tokens
  inUse,   \* resources that are acquired and not released
  estack, gstack, \* the two cleanup stacks
  ended,   \* cleanups that ran, in order
  missed   \* history: resources whose cleanup could not be pushed

vars == <<pc, at, inUse, estack, gstack, ended, missed>>

E == INSTANCE LifoStack WITH Items <- Resources, held <- estack, ran <- ended
G == INSTANCE LifoStack WITH Items <- Resources, held <- gstack, ran <- ended

Setup == {"acquire", "check", "build", "exchange", "tokens", "header", "takeback",
          "list", "hash"}

TypeOK ==
  /\ pc \in Setup \cup {"succeed", "mounted", "unmounted", "destroy", "fail", "failG",
                        "exited", "refused", "crashed", "aborted"}
  /\ at \in 1..(Len(Plan) + 1)
  /\ inUse \subseteq Resources
  /\ estack \in Seq(Resources) /\ gstack \in Seq(Resources)
  /\ ended \in Seq(Resources)
  /\ missed \subseteq Resources

Init ==
  /\ pc = "acquire" /\ at = 1
  /\ inUse = {}
  /\ estack = <<>> /\ gstack = <<>> /\ ended = <<>>
  /\ missed = {}

Goto(from, to) == pc = from /\ pc' = to

(* fstack_push, whose failure nobody looks at.                             *)
Push(r, stack) ==
  \/ stack = "e" /\ E!Register(r) /\ UNCHANGED <<gstack, missed>>
  \/ stack = "g" /\ G!Register(r) /\ UNCHANGED <<estack, missed>>
  \/ "push" \in Faults /\ missed' = missed \cup {r} /\ UNCHANGED <<estack, gstack, ended>>

-----------------------------------------------------------------------------
(* gdi_init                                                                *)

Acquire ==
  /\ pc = "acquire"
  /\ inUse' = inUse \cup {Plan[at].res}
                   \cup (IF Plan[at].res = "complete_authuri" THEN {"uri_parts"} ELSE {})
  /\ Push(Plan[at].res, Plan[at].stack)
  /\ at' = IF at = Len(Plan) THEN 1 ELSE at + 1
  /\ pc' = IF at = Len(Plan) THEN "check" ELSE "acquire"

(* A malloc, a configuration file or curl fails: goto init_fail.           *)
AcquireFails ==
  /\ "acquire" \in Faults
  /\ Plan[at].res # "complete_authuri"
  /\ Goto("acquire", "fail")
  /\ UNCHANGED <<at, inUse, estack, gstack, ended, missed>>

(* A stack cannot be had: gdi_init returns without releasing the other.    *)
StacksFail ==
  /\ "acquire" \in Faults /\ at = 1
  /\ Goto("acquire", "refused")
  /\ UNCHANGED <<at, inUse, estack, gstack, ended, missed>>

(* The code is too short: goto init_fail.                                  *)
CheckCode ==
  /\ pc = "check"
  /\ pc' \in {"build"} \cup (IF "refuse" \in Faults THEN {"fail"} ELSE {})
  /\ UNCHANGED <<at, inUse, estack, gstack, ended, missed>>

(* The body of the token request, and ci_init.  complete_authuri is used   *)
(* again: str_clear keeps the block with the URI, str_init then forgets it *)
(* and str_concat gets another, which its cleanup will find instead.       *)
BuildRequest ==
  /\ Goto("build", "exchange")
  /\ inUse' = inUse \cup {"first_uri", "request"}
  /\ UNCHANGED <<at, estack, gstack, ended, missed>>

(* str_concat gets no block: goto init_fail, after str_init.               *)
BuildFails ==
  /\ "concat" \in Faults
  /\ Goto("build", "fail")
  /\ inUse' = inUse \cup {"first_uri"}
  /\ UNCHANGED <<at, estack, gstack, ended, missed>>

(* ci_request and the start of curl_post_callback.  An error leaves the    *)
(* request as it is; a reply that is not JSON ends in strlen(NULL).        *)
Exchange ==
  /\ pc = "exchange"
  /\ \/ "tokens" \in Replies /\ pc' = "tokens"
     \/ "error" \in Replies /\ pc' = "fail"
     \/ "other" \in Replies /\ pc' = "crashed"
  /\ inUse' = inUse \cup {"response"}
  /\ UNCHANGED <<at, estack, gstack, ended, missed>>

(* One member of the reply; the reply may lack it.                         *)
TakeToken ==
  /\ pc = "tokens" /\ at <= Len(Tokens)
  /\ inUse' = inUse \cup {Tokens[at]}
  /\ Push(Tokens[at], "e")
  /\ at' = at + 1
  /\ UNCHANGED pc

NoToken ==
  /\ at <= Len(Tokens) /\ "other" \in Replies
  /\ Goto("tokens", "crashed")
  /\ UNCHANGED <<at, inUse, estack, gstack, ended, missed>>

(* ci_destroy after all members were taken.                                *)
EndExchange ==
  /\ at = Len(Tokens) + 1
  /\ Goto("tokens", "header")
  /\ inUse' = inUse \ {"request"}
  /\ UNCHANGED <<at, estack, gstack, ended, missed>>

(* create_oauth_header, first the push and then the concatenation.         *)
OauthHeader ==
  /\ Goto("header", "list")
  /\ inUse' = inUse \cup {"oauth_header"}
  /\ Push("oauth_header", "e")
  /\ UNCHANGED at

(* The concatenation fails, whether the push did or not.                   *)
OauthHeaderFails ==
  /\ "concat" \in Faults
  /\ Goto("header", "takeback")
  /\ Push("oauth_header", "e")
  /\ UNCHANGED <<at, inUse>>

(* The last cleanup is taken back and run: that of the header, which holds *)
(* nothing, or what lies on top if the push failed.  The listing then      *)
(* prints the header, a null pointer.                                      *)
TakeBack ==
  /\ pc = "takeback"
  /\ IF estack = <<>> THEN pc' = "crashed" /\ UNCHANGED <<estack, ended, inUse>>
     ELSE LET r == estack[Len(estack)] IN
          /\ E!Run
          /\ inUse' = IF r \in Embedded THEN inUse ELSE inUse \ {r}
          /\ pc' \in {"crashed"} \cup (IF r \in Embedded THEN {"aborted"} ELSE {})
  /\ UNCHANGED <<at, gstack, missed>>

(* gdi_get_file_list, see Listing.                                         *)
List ==
  /\ pc = "list"
  /\ pc' \in {"hash"} \cup (IF "other" \in Replies THEN {"crashed"} ELSE {})
  /\ inUse' = inUse \cup {"entries"}
  /\ UNCHANGED <<at, estack, gstack, ended, missed>>

CreateHash ==
  /\ Goto("hash", "succeed")
  /\ inUse' = inUse \cup {"hash_table"}
  /\ Push("hash_table", "e")
  /\ UNCHANGED at

CreateHashFails ==
  /\ "acquire" \in Faults
  /\ Goto("hash", "fail")
  /\ UNCHANGED <<at, inUse, estack, gstack, ended, missed>>

-----------------------------------------------------------------------------
(* The two ends of gdi_init, fuse_main and gdi_destroy                     *)

(* One turn of while(stack->size) fstack_pop(stack).  To free what malloc  *)
(* did not return is undefined: free aborts, or takes it for a chunk; the  *)
(* string inside is not released in any case.                              *)
PopE ==
  LET r == estack[Len(estack)] IN
  /\ pc \in {"fail", "destroy"} /\ E!Run
  /\ inUse' = IF r \in Embedded THEN inUse ELSE inUse \ {r}
  /\ pc' \in {pc} \cup (IF r \in Embedded THEN {"aborted"} ELSE {})
  /\ UNCHANGED <<at, gstack, missed>>

PopG ==
  /\ pc \in {"failG", "succeed"} /\ G!Run
  /\ inUse' = inUse \ {gstack[Len(gstack)]}
  /\ UNCHANGED <<pc, at, estack, missed>>

(* init_fail goes through both stacks.                                     *)
FailG ==
  /\ estack = <<>>
  /\ Goto("fail", "failG")
  /\ UNCHANGED <<at, inUse, estack, gstack, ended, missed>>

(* Faulty: only the other end of gdi_init empties gstack.                  *)
LeaveAtOnce == TRUE

Emptied == gstack = <<>>

(* gdi_init returns 1, and main returns it.                                *)
Refuse ==
  /\ Emptied
  /\ Goto("failG", "refused")
  /\ UNCHANGED <<at, inUse, estack, gstack, ended, missed>>

(* gdi_init returns 0, fuse_main starts.                                   *)
Mount ==
  /\ gstack = <<>>
  /\ Goto("succeed", "mounted")
  /\ UNCHANGED <<at, inUse, estack, gstack, ended, missed>>

Unmount ==
  /\ Goto("mounted", "unmounted")
  /\ UNCHANGED <<at, inUse, estack, gstack, ended, missed>>

(* gdi_destroy frees the entries before it empties the stack.              *)
FreeEntries ==
  /\ Goto("unmounted", "destroy")
  /\ inUse' = inUse \ {"entries"}
  /\ UNCHANGED <<at, estack, gstack, ended, missed>>

Exit ==
  /\ estack = <<>>
  /\ Goto("destroy", "exited")
  /\ UNCHANGED <<at, inUse, estack, gstack, ended, missed>>

Stopped == pc \in {"exited", "refused", "crashed", "aborted"} /\ UNCHANGED vars

Next ==
  \/ Acquire \/ AcquireFails \/ StacksFail \/ CheckCode \/ BuildRequest \/ BuildFails \/ Exchange
  \/ TakeToken \/ NoToken \/ EndExchange \/ OauthHeader \/ OauthHeaderFails \/ TakeBack
  \/ List \/ CreateHash \/ CreateHashFails
  \/ PopE \/ PopG \/ FailG \/ Refuse \/ Mount \/ Unmount \/ FreeEntries \/ Exit \/ Stopped

Spec == Init /\ [][Next]_vars

-----------------------------------------------------------------------------
(* Properties                                                              *)

Registered == {estack[j] : j \in DOMAIN estack} \cup {gstack[j] : j \in DOMAIN gstack}
Ended      == {ended[j] : j \in DOMAIN ended}

(* Nothing is released twice, and nothing that is released is registered.  *)
ReleasedOnce ==
  /\ \A j, k \in DOMAIN ended : ended[j] = ended[k] => j = k
  /\ Ended \cap (Registered \cup (inUse \ Embedded)) = {}

(* curl outlives its multi handle, the mounted file system has all it      *)
(* needs, down to the credentials, and nothing that is registered for the  *)
(* life of the mount is released before unmount or a failed gdi_init.      *)
NeedsHeld ==
  /\ "curlmulti" \in inUse => "curl_global" \in inUse \/ "curlmulti" \in missed
  /\ pc = "mounted" => {"curl_global", "access_token", "oauth_header", "entries",
                        "hash_table"} \subseteq inUse
  /\ pc \in Setup \cup {"succeed", "mounted"} =>
       Ended \subseteq {Plan[j].res : j \in {k \in DOMAIN Plan : Plan[k].stack = "g"}}

(* Whether what was registered is released depends on how the process      *)
(* ends.  After an unmount all that stays is what a failed push left       *)
(* without a cleanup, the strings that free() cannot release, and what was *)
(* dropped: among that the block of the URI, which gdi_init registered     *)
(* through its string and lost when it used the string again.  A refused   *)
(* mount leaves in addition the request or the entries it failed after.    *)
NothingLeft ==
  LET left == inUse \ missed
      lost == (Dropped \cup Embedded) \ missed
  IN
  /\ pc = "exited" => left = lost
  /\ pc = "refused" => left \subseteq lost \cup {"request"} \/ left \subseteq lost \cup {"entries"}

(* main: "When we get here, fuse has finished.  Do any necessary cleanups."*)
CleanupsSafe == pc # "aborted"
=============================================================================
