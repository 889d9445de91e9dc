--------------------------- MODULE SessionProofs ---------------------------
(***************************************************************************)
(* Theorems about Session, for every choice of what may go wrong and of    *)
(* how the servers answer.                                                 *)
(***************************************************************************)
EXTENDS Session, TLAPS

Elements(s) == {s[j] : j \in DOMAIN s}
Distinct(s) == \A j, k \in DOMAIN s : s[j] = s[k] => j = k

(* gdi_init acquires everything once, in this order; what has at least the *)
(* rank the process has reached is still to come.                          *)
Rank == [full_path |-> 1, clientsecrets |-> 2, redirecturi |-> 3, clientid |-> 4,
         curl_global |-> 5, curlmulti |-> 6, complete_authuri |-> 7, uri_parts |-> 7,
         code |-> 8, first_uri |-> 9, request |-> 9, response |-> 10, access_token |-> 11,
         token_type |-> 12, refresh_token |-> 13, id_token |-> 14, oauth_header |-> 15,
         entries |-> 16, hash_table |-> 17]

Progress ==
  CASE pc = "acquire"  -> at
    [] pc \in {"check", "build"} -> 9
    [] pc = "exchange" -> 10
    [] pc = "tokens"   -> 10 + at
    [] pc = "header"   -> 15
    [] pc \in {"list", "takeback"} -> 16
    [] pc = "hash"     -> 17
    [] OTHER           -> 18

ForInit == {"full_path", "complete_authuri"}
ForMount == {"curl_global", "curlmulti", "access_token", "oauth_header", "entries",
             "hash_table"}

(* Where the program is tells how far it has come in Plan and Tokens.      *)
Place ==
  /\ pc = "acquire" => at \in 1..8
  /\ pc \in {"check", "build", "exchange"} => at = 1
  /\ pc = "tokens" => at \in 1..5
  /\ pc \in {"mounted", "unmounted", "destroy", "exited"} => gstack = <<>>
  /\ pc \in {"failG", "exited"} => estack = <<>>

(* A resource is on one stack, once, or was released; none of those to     *)
(* come is.                                                                *)
Once ==
  /\ Distinct(estack) /\ Distinct(gstack) /\ Distinct(ended)
  /\ Elements(estack) \cap Elements(gstack) = {}
  /\ Elements(ended) \cap (Elements(estack) \cup Elements(gstack)) = {}
  /\ Elements(ended) \cap (inUse \ Embedded) = {}
  /\ Elements(gstack) \subseteq ForInit /\ Elements(estack) \cap ForInit = {}
  /\ \A r \in inUse \cup missed \cup Elements(estack) \cup Elements(gstack)
                  \cup Elements(ended) : Rank[r] < Progress

(* What is in use has its cleanup on a stack, lost it, has none, or        *)
(* belongs to the exchange or to the listing.                              *)
Accounted ==
  /\ inUse \subseteq Elements(estack) \cup Elements(gstack) \cup missed \cup Dropped
                     \cup Embedded \cup {"request", "entries"}
  /\ "request" \in inUse =>
       pc \in {"exchange", "tokens", "fail", "failG", "refused", "crashed", "aborted"}
  /\ "entries" \in inUse =>
       pc \in {"hash", "succeed", "mounted", "unmounted", "fail", "failG", "refused",
               "crashed", "aborted"}
  /\ ~({"request", "entries"} \subseteq inUse)

(* Until unmount or failure all that the mount needs and that was acquired *)
(* is there; curl lies below its multi handle.                             *)
Kept ==
  /\ pc \in Setup \cup {"succeed", "mounted"} => Elements(ended) \subseteq ForInit
  /\ pc \in (Setup \ {"takeback"}) \cup {"succeed", "mounted"} =>
       {r \in ForMount : Rank[r] < Progress} \subseteq inUse
  /\ \A j, k \in DOMAIN estack :
       estack[j] = "curlmulti" /\ estack[k] = "curl_global" => k < j
  /\ "curlmulti" \in inUse => "curl_global" \in inUse \/ "curlmulti" \in missed

(* No cleanup is registered for what is dropped, and on the way to a       *)
(* mount and out of it all that is dropped or embedded stays.              *)
Lost ==
  /\ Elements(estack) \cap Dropped = {}
  /\ pc \in (Setup \ {"takeback"}) \cup {"succeed", "mounted", "unmounted", "destroy",
                                          "exited"} =>
       {r \in Dropped \cup Embedded : Rank[r] < Progress} \subseteq inUse

Inv == TypeOK /\ Place /\ Once /\ Accounted /\ Kept /\ Lost /\ NothingLeft
-----------------------------------------------------------------------------
(* Sequences as stacks                                                     *)

LEMMA AppendFacts ==
  ASSUME NEW R, NEW s \in Seq(R), NEW x \in R
  PROVE  /\ Append(s, x) \in Seq(R)
         /\ Elements(Append(s, x)) = Elements(s) \cup {x}
         /\ Distinct(s) /\ x \notin Elements(s) => Distinct(Append(s, x))
<1>1. DOMAIN s = 1..Len(s) /\ DOMAIN Append(s, x) = 1..(Len(s) + 1) /\ Len(s) \in Nat
  OBVIOUS
<1>2. /\ Append(s, x)[Len(s) + 1] = x
      /\ \A j \in 1..Len(s) : Append(s, x)[j] = s[j]
  OBVIOUS
<1>3. \A j \in 1..(Len(s) + 1) : j \in 1..Len(s) \/ j = Len(s) + 1
  BY <1>1
<1>4. Elements(Append(s, x)) = Elements(s) \cup {x}
  BY <1>1, <1>2, <1>3 DEF Elements
<1>5. ASSUME Distinct(s), x \notin Elements(s) PROVE Distinct(Append(s, x))
  BY <1>1, <1>2, <1>3, <1>5 DEF Distinct, Elements
<1> QED
  BY <1>4, <1>5

LEMMA BelowTop ==
  ASSUME NEW n \in Nat, n > 0
  PROVE  /\ n \in 1..n
         /\ \A j \in 1..n : j \in 1..(n - 1) \/ j = n
         /\ \A j \in 1..(n - 1) : j \in 1..n /\ j # n
  OBVIOUS

LEMMA TopFacts ==
  ASSUME NEW R, NEW s \in Seq(R), s # <<>>, Distinct(s)
  PROVE  /\ SubSeq(s, 1, Len(s) - 1) \in Seq(R)
         /\ Distinct(SubSeq(s, 1, Len(s) - 1))
         /\ Elements(SubSeq(s, 1, Len(s) - 1)) = Elements(s) \ {s[Len(s)]}
         /\ s[Len(s)] \in Elements(s) /\ s[Len(s)] \in R
<1> DEFINE n == Len(s)
           t == SubSeq(s, 1, n - 1)
<1>1. n \in Nat /\ n > 0 /\ DOMAIN s = 1..n
  OBVIOUS
<1>2. t \in Seq(R) /\ Len(t) = n - 1 /\ DOMAIN t = 1..(n - 1)
  BY <1>1
<1>3. \A j \in 1..(n - 1) : t[j] = s[j]
  BY <1>1
<1>4. /\ n \in 1..n
      /\ \A j \in 1..n : j \in 1..(n - 1) \/ j = n
      /\ \A j \in 1..(n - 1) : j \in 1..n /\ j # n
  BY <1>1, BelowTop
<1> HIDE DEF n, t
<1>7. Distinct(t)
  BY <1>1, <1>2, <1>3, <1>4 DEF Distinct
<1>8. Elements(t) = Elements(s) \ {s[n]}
  BY <1>1, <1>2, <1>3, <1>4 DEF Elements, Distinct
<1>9. s[n] \in Elements(s) /\ s[n] \in R
  BY <1>1, <1>4 DEF Elements
<1> QED
  BY <1>2, <1>7, <1>8, <1>9 DEF n, t
-----------------------------------------------------------------------------
(* What is acquired, and when                                              *)

LEMMA PlanFacts ==
  /\ Len(Plan) = 8 /\ DOMAIN Plan = 1..8
  /\ Plan[1] = [res |-> "full_path", stack |-> "g"]
  /\ Plan[2] = [res |-> "clientsecrets", stack |-> "e"]
  /\ Plan[3] = [res |-> "redirecturi", stack |-> "e"]
  /\ Plan[4] = [res |-> "clientid", stack |-> "e"]
  /\ Plan[5] = [res |-> "curl_global", stack |-> "e"]
  /\ Plan[6] = [res |-> "curlmulti", stack |-> "e"]
  /\ Plan[7] = [res |-> "complete_authuri", stack |-> "g"]
  /\ Plan[8] = [res |-> "code", stack |-> "e"]
<1>1. Len(Plan) = 8
  BY DEF Plan
<1>2. DOMAIN Plan = 1..8
  BY DEF Plan
<1> QED
  BY <1>1, <1>2 DEF Plan, S

LEMMA TokenFacts ==
  /\ Len(Tokens) = 4 /\ DOMAIN Tokens = 1..4
  /\ Tokens[1] = "access_token" /\ Tokens[2] = "token_type"
  /\ Tokens[3] = "refresh_token" /\ Tokens[4] = "id_token"
  BY DEF Tokens

LEMMA EightCases == \A j \in 1..8 : j \in {1, 2, 3, 4, 5, 6, 7, 8}
  OBVIOUS

LEMMA ResourceSet ==
  Resources = {"full_path", "clientsecrets", "redirecturi", "clientid", "curl_global",
               "curlmulti", "complete_authuri", "code", "uri_parts", "first_uri", "response",
               "access_token", "token_type", "refresh_token", "id_token", "request",
               "oauth_header", "entries", "hash_table"}
<1>1. {Plan[j].res : j \in 1..8} =
        {"full_path", "clientsecrets", "redirecturi", "clientid", "curl_global",
         "curlmulti", "complete_authuri", "code"}
  BY PlanFacts, EightCases
<1> QED
  BY <1>1, PlanFacts DEF Resources, Dropped

LEMMA PlanSteps ==
  ASSUME NEW j \in 1..8
  PROVE  /\ Plan[j].res \in Resources /\ Plan[j].stack \in {"e", "g"}
         /\ Rank[Plan[j].res] = j
         /\ Plan[j].stack = "g" <=> Plan[j].res \in ForInit
         /\ Plan[j].res = "complete_authuri" => j = 7
         /\ Plan[j].res \notin Dropped \cup {"request", "entries"}
         /\ Plan[j].res = "curlmulti" <=> j = 6
         /\ Plan[j].res = "curl_global" <=> j = 5
<1>1. j \in {1, 2, 3, 4, 5, 6, 7, 8}
  BY EightCases
<1> QED
  BY <1>1, PlanFacts, ResourceSet DEF Rank, ForInit, Dropped

LEMMA ForInitPlan ==
  {Plan[j].res : j \in {k \in DOMAIN Plan : Plan[k].stack = "g"}} = ForInit
  BY PlanFacts, EightCases DEF ForInit

LEMMA TokenSteps ==
  ASSUME NEW j \in 1..4
  PROVE  /\ Tokens[j] \in Resources \ ForInit
         /\ Rank[Tokens[j]] = 10 + j
         /\ Tokens[j] \notin Dropped \cup {"request", "entries", "curlmulti", "curl_global"}
<1>1. j \in {1, 2, 3, 4}
  OBVIOUS
<1> QED
  BY <1>1, TokenFacts, ResourceSet DEF Rank, ForInit, Dropped

LEMMA Ranks == \A r \in Resources : Rank[r] \in 1..17
  BY ResourceSet DEF Rank

LEMMA NamedRanks ==
  /\ Rank["curl_global"] = 5 /\ Rank["curlmulti"] = 6 /\ Rank["uri_parts"] = 7
  /\ Rank["first_uri"] = 9 /\ Rank["request"] = 9 /\ Rank["response"] = 10
  /\ Rank["access_token"] = 11 /\ Rank["refresh_token"] = 13 /\ Rank["id_token"] = 14
  /\ Rank["oauth_header"] = 15 /\ Rank["entries"] = 16 /\ Rank["hash_table"] = 17
  BY DEF Rank

LEMMA ProgressNat == TypeOK => Progress \in Nat
  BY PlanFacts DEF TypeOK, Progress
-----------------------------------------------------------------------------
(* What a push, a pop and a step that does neither keep of Once            *)

LEMMA Waiting ==
  ASSUME TypeOK, TypeOK', Once, UNCHANGED <<estack, gstack, ended, missed>>,
         Progress <= Progress',
         NEW X \in SUBSET Resources, inUse' \subseteq inUse \cup X,
         \A x \in X : Progress <= Rank[x] /\ Rank[x] < Progress'
  PROVE  Once'
<1>1. Progress \in Nat /\ Progress' \in Nat
  <2>1. TypeOK' => (Progress \in Nat)'
    BY ProgressNat, PTL
  <2> QED
    BY <2>1, ProgressNat
<1>2. inUse \cup missed \subseteq Resources
      /\ Elements(estack) \cup Elements(gstack) \cup Elements(ended) \subseteq Resources
  BY DEF TypeOK, Elements
<1>3. \A r \in Resources : Rank[r] \in Nat
  BY Ranks
<1>4. \A r \in inUse \cup missed \cup Elements(estack) \cup Elements(gstack)
                  \cup Elements(ended) : Rank[r] < Progress
  BY DEF Once
<1>5. \A x \in X : x \notin Elements(ended)
  BY <1>1, <1>3, <1>4
<1>6. \A r \in inUse' \cup missed \cup Elements(estack) \cup Elements(gstack)
                  \cup Elements(ended) : Rank[r] < Progress'
  BY <1>1, <1>2, <1>3, <1>4
<1>7. Elements(ended) \cap (inUse' \ Embedded) = {}
  BY <1>5 DEF Once
<1> QED
  BY <1>6, <1>7 DEF Once, Elements, Distinct

LEMMA Staying ==
  ASSUME TypeOK, TypeOK', Once, UNCHANGED <<estack, gstack, ended, missed>>,
         Progress <= Progress', inUse' \subseteq inUse
  PROVE  Once'
<1>1. {} \in SUBSET Resources /\ inUse' \subseteq inUse \cup {}
  OBVIOUS
<1> QED
  BY <1>1, Waiting

LEMMA Taking ==
  ASSUME TypeOK, TypeOK', Once,
         NEW r \in Resources, NEW stack \in {"e", "g"}, stack = "g" <=> r \in ForInit,
         Push(r, stack), Progress <= Rank[r], Rank[r] < Progress',
         NEW X \in SUBSET Resources, inUse' \subseteq inUse \cup X,
         \A x \in X : Progress <= Rank[x] /\ Rank[x] < Progress'
  PROVE  /\ Once'
         /\ ended' = ended
         /\ r \in Elements(estack') \cup Elements(gstack') \cup missed'
         /\ Elements(estack) \subseteq Elements(estack')
         /\ Elements(gstack) \subseteq Elements(gstack')
         /\ missed \subseteq missed'
         /\ estack' = estack \/ estack' = Append(estack, r)
<1>1. Progress \in Nat /\ Progress' \in Nat
  <2>1. TypeOK' => (Progress \in Nat)'
    BY ProgressNat, PTL
  <2> QED
    BY <2>1, ProgressNat
<1>2. inUse \cup missed \subseteq Resources
      /\ Elements(estack) \cup Elements(gstack) \cup Elements(ended) \subseteq Resources
  BY DEF TypeOK, Elements
<1>3. \A x \in Resources : Rank[x] \in Nat
  BY Ranks
<1>4. \A x \in inUse \cup missed \cup Elements(estack) \cup Elements(gstack)
                  \cup Elements(ended) : Rank[x] < Progress
  BY DEF Once
<1>5. r \notin Elements(estack) \cup Elements(gstack) \cup Elements(ended)
  BY <1>1, <1>3, <1>4
<1>6. \A x \in X : x \notin Elements(ended)
  BY <1>1, <1>3, <1>4
<1>7. ended' = ended /\ Elements(ended) \cap (inUse' \ Embedded) = {}
  BY <1>6 DEF Once, Push, E!Register, G!Register
<1>8. Progress < Progress'
  BY <1>1, <1>3
<1>9. CASE stack = "e" /\ E!Register(r) /\ UNCHANGED <<gstack, missed>>
  <2>1. estack' = Append(estack, r) /\ estack \in Seq(Resources)
    BY <1>9 DEF E!Register, TypeOK
  <2>2. Elements(estack') = Elements(estack) \cup {r} /\ Distinct(estack')
    BY <1>5, <2>1, AppendFacts DEF Once
  <2>3. Once'
    BY <1>1, <1>2, <1>3, <1>4, <1>5, <1>7, <1>8, <1>9, <2>2 DEF Once
  <2> QED
    BY <1>7, <1>9, <2>1, <2>2, <2>3
<1>10. CASE stack = "g" /\ G!Register(r) /\ UNCHANGED <<estack, missed>>
  <2>1. gstack' = Append(gstack, r) /\ gstack \in Seq(Resources)
    BY <1>10 DEF G!Register, TypeOK
  <2>2. Elements(gstack') = Elements(gstack) \cup {r} /\ Distinct(gstack')
    BY <1>5, <2>1, AppendFacts DEF Once
  <2>3. Once'
    BY <1>1, <1>2, <1>3, <1>4, <1>5, <1>7, <1>8, <1>10, <2>2 DEF Once
  <2> QED
    BY <1>7, <1>10, <2>1, <2>2, <2>3
<1>11. CASE missed' = missed \cup {r} /\ UNCHANGED <<estack, gstack, ended>>
  <2>1. Once'
    BY <1>1, <1>2, <1>3, <1>4, <1>5, <1>7, <1>8, <1>11 DEF Once
  <2> QED
    BY <1>11, <2>1
<1> QED
  BY <1>9, <1>10, <1>11 DEF Push

LEMMA Releasing ==
  ASSUME TypeOK, TypeOK', Once, NEW top \in Resources,
         \/ E!Run /\ UNCHANGED gstack /\ top = estack[Len(estack)]
         \/ G!Run /\ UNCHANGED estack /\ top = gstack[Len(gstack)],
         UNCHANGED missed, Progress <= Progress',
         inUse' = IF top \in Embedded THEN inUse ELSE inUse \ {top}
  PROVE  /\ Once'
         /\ Elements(estack) \cup Elements(gstack) =
              Elements(estack') \cup Elements(gstack') \cup {top}
         /\ Elements(ended') = Elements(ended) \cup {top}
         /\ Elements(estack') \subseteq Elements(estack)
<1>1. Progress \in Nat /\ Progress' \in Nat
  <2>1. TypeOK' => (Progress \in Nat)'
    BY ProgressNat, PTL
  <2> QED
    BY <2>1, ProgressNat
<1>2. inUse \cup missed \subseteq Resources
      /\ Elements(estack) \cup Elements(gstack) \cup Elements(ended) \subseteq Resources
  BY DEF TypeOK, Elements
<1>3. \A x \in Resources : Rank[x] \in Nat
  BY Ranks
<1>4. \A x \in inUse \cup missed \cup Elements(estack) \cup Elements(gstack)
                  \cup Elements(ended) : Rank[x] < Progress'
  BY <1>1, <1>2, <1>3 DEF Once
<1>5. ended' = Append(ended, top) /\ ended \in Seq(Resources)
  BY DEF TypeOK, E!Run, G!Run
<1>6. top \in Elements(estack) \cup Elements(gstack)
  BY TopFacts DEF Once, TypeOK, E!Run, G!Run
<1>7. Elements(ended') = Elements(ended) \cup {top} /\ Distinct(ended')
  BY <1>5, <1>6, AppendFacts DEF Once
<1>8. CASE E!Run /\ UNCHANGED gstack /\ top = estack[Len(estack)]
  <2>1. /\ Distinct(estack') /\ Elements(estack') = Elements(estack) \ {top}
        /\ top \in Elements(estack)
    BY <1>8, TopFacts DEF Once, TypeOK, E!Run
  <2>2. Once'
    BY <1>4, <1>7, <1>8, <2>1 DEF Once
  <2> QED
    BY <1>7, <1>8, <2>1, <2>2
<1>9. CASE G!Run /\ UNCHANGED estack /\ top = gstack[Len(gstack)]
  <2>1. /\ Distinct(gstack') /\ Elements(gstack') = Elements(gstack) \ {top}
        /\ top \in Elements(gstack)
    BY <1>9, TopFacts DEF Once, TypeOK, G!Run
  <2>2. Once'
    BY <1>4, <1>7, <1>9, <2>1 DEF Once
  <2> QED
    BY <1>7, <1>9, <2>1, <2>2
<1> QED
  BY <1>8, <1>9
-----------------------------------------------------------------------------
(* Types and places                                                        *)

(* The steps that only move the program.                                   *)
Quiet ==
  \/ AcquireFails \/ StacksFail \/ CheckCode \/ NoToken
  \/ CreateHashFails \/ FailG \/ Refuse \/ Mount \/ Unmount \/ Exit \/ Stopped

LEMMA NextCases ==
  Next <=> \/ Quiet
           \/ Acquire \/ BuildRequest \/ BuildFails \/ Exchange \/ TakeToken \/ EndExchange
           \/ OauthHeader \/ OauthHeaderFails \/ TakeBack \/ List \/ CreateHash
           \/ PopE \/ PopG \/ FreeEntries
  BY DEF Next, Quiet

LEMMA QuietUnchanged ==
  Quiet => UNCHANGED <<inUse, estack, gstack, ended, missed>> /\ (at' = at)
  BY DEF Quiet, AcquireFails, StacksFail, CheckCode, NoToken, CreateHashFails,
         FailG, Refuse, Mount, Unmount, Exit, Stopped, vars

LEMMA PushTypes ==
  ASSUME TypeOK, NEW r \in Resources, NEW stack, Push(r, stack)
  PROVE  /\ estack' \in Seq(Resources) /\ gstack' \in Seq(Resources)
         /\ ended' \in Seq(Resources) /\ missed' \subseteq Resources
<1>1. \A s \in Seq(Resources) : Append(s, r) \in Seq(Resources)
  OBVIOUS
<1> QED
  BY <1>1 DEF TypeOK, Push, E!Register, G!Register

LEMMA PopTypes ==
  ASSUME NEW s \in Seq(Resources), s # <<>>
  PROVE  /\ SubSeq(s, 1, Len(s) - 1) \in Seq(Resources)
         /\ s[Len(s)] \in Resources
         /\ Append(ended, s[Len(s)]) \in Seq(Resources) \/ ended \notin Seq(Resources)
  OBVIOUS

LEMMA NamedResources ==
  {"request", "response", "oauth_header", "entries", "hash_table", "uri_parts",
   "first_uri"}
    \subseteq Resources
  BY ResourceSet

LEMMA TypeStep == TypeOK /\ Place /\ [Next]_vars => TypeOK'
<1> SUFFICES ASSUME TypeOK, Place, [Next]_vars PROVE TypeOK'
  OBVIOUS
<1> USE PlanFacts, TokenFacts, NamedResources
<1>1. CASE Quiet
  BY <1>1, QuietUnchanged
  DEF TypeOK, Quiet, AcquireFails, StacksFail, CheckCode, NoToken, Goto,
      CreateHashFails, FailG, Refuse, Mount, Unmount, Exit, Stopped, vars, Setup
<1>2. CASE Acquire
  <2>1. at \in 1..8
    BY <1>2 DEF Acquire, Place
  <2>2. Plan[at].res \in Resources
    BY <2>1, PlanSteps
  <2>3. inUse' \subseteq Resources
    BY <1>2, <2>2 DEF Acquire, TypeOK
  <2> QED
    BY <1>2, <2>1, <2>2, <2>3, PushTypes DEF Acquire, TypeOK, Setup
<1>3. CASE BuildRequest \/ BuildFails \/ Exchange \/ List
  BY <1>3 DEF BuildRequest, BuildFails, Exchange, List, Goto, TypeOK, Setup
<1>4. CASE TakeToken
  <2>1. at \in 1..4
    BY <1>4 DEF TakeToken, Place, TypeOK
  <2> QED
    BY <1>4, <2>1, TokenSteps, PushTypes DEF TakeToken, TypeOK
<1>5. CASE OauthHeader \/ OauthHeaderFails \/ CreateHash
  BY <1>5, PushTypes DEF OauthHeader, OauthHeaderFails, CreateHash, Goto, TypeOK, Setup
<1>6. CASE TakeBack \/ PopE \/ PopG
  BY <1>6, PopTypes DEF TakeBack, PopE, PopG, E!Run, G!Run, TypeOK
<1>7. CASE EndExchange \/ FreeEntries
  BY <1>7 DEF EndExchange, FreeEntries, Goto, TypeOK, Setup
<1>8. CASE UNCHANGED vars
  BY <1>8 DEF vars, TypeOK
<1> QED
  BY <1>1, <1>2, <1>3, <1>4, <1>5, <1>6, <1>7, <1>8, NextCases

LEMMA PlaceStep == TypeOK /\ Place /\ [Next]_vars => Place'
<1> SUFFICES ASSUME TypeOK, Place, [Next]_vars PROVE Place'
  OBVIOUS
<1> USE PlanFacts, TokenFacts DEF Place
<1>1. CASE Quiet
  BY <1>1, QuietUnchanged
  DEF TypeOK, Quiet, AcquireFails, StacksFail, CheckCode, NoToken, Goto,
      CreateHashFails, FailG, Refuse, Mount, Unmount, Exit, Stopped, vars
<1>2. CASE Acquire
  BY <1>2 DEF Acquire
<1>3. CASE BuildRequest \/ BuildFails \/ Exchange \/ List
  BY <1>3 DEF BuildRequest, BuildFails, Exchange, List, Goto
<1>4. CASE TakeToken
  BY <1>4 DEF TakeToken
<1>5. CASE OauthHeader \/ OauthHeaderFails \/ CreateHash
  BY <1>5 DEF OauthHeader, OauthHeaderFails, CreateHash, Goto
<1>6. CASE TakeBack
  BY <1>6 DEF TakeBack
<1>7. CASE PopE
  BY <1>7 DEF PopE
<1>8. CASE PopG
  BY <1>8 DEF PopG
<1>9. CASE EndExchange \/ FreeEntries
  BY <1>9 DEF EndExchange, FreeEntries, Goto
<1>10. CASE UNCHANGED vars
  BY <1>10 DEF vars
<1> QED
  BY <1>1, <1>2, <1>3, <1>4, <1>5, <1>6, <1>7, <1>8, <1>9, <1>10, NextCases
-----------------------------------------------------------------------------
(* The parts of the invariant, step by step                                *)

(* The steps that acquire a resource and push its cleanup.                 *)
Takes ==
  Acquire \/ TakeToken \/ OauthHeader \/ OauthHeaderFails \/ CreateHash

(* r was next: its cleanup is pushed or lost, and it is in use unless it   *)
(* is the header that could not be written.                                *)
Took(r) ==
  /\ Progress <= Rank[r] /\ r \notin Dropped \cup {"request", "entries"}
  /\ inUse \subseteq inUse' /\ inUse' \subseteq inUse \cup {r, "uri_parts"}
  /\ r \in inUse' \/ pc' = "takeback"
  /\ \A x \in ForMount : Rank[x] < Progress' => Rank[x] < Progress \/ x = r
  /\ \A x \in Dropped \cup Embedded :
       Rank[x] < Progress' => Rank[x] < Progress \/ x \in inUse'
  /\ ended' = ended
  /\ r \in Elements(estack') \cup Elements(gstack') \cup missed'
  /\ Elements(estack) \subseteq Elements(estack')
  /\ Elements(gstack) \subseteq Elements(gstack')
  /\ missed \subseteq missed'
  /\ estack' = estack \/ estack' = Append(estack, r)

LEMMA TakingStep ==
  ASSUME TypeOK, TypeOK', Place, Once, Takes
  PROVE  Once' /\ \E r \in Resources : Took(r)
<1> USE PlanFacts, TokenFacts
<1>1. CASE Acquire
  <2> DEFINE r == Plan[at].res
             X == {r} \cup (IF r = "complete_authuri" THEN {"uri_parts"} ELSE {})
  <2>1. at \in 1..8 /\ Progress = at /\ Progress' = at + 1
    BY <1>1 DEF Acquire, Place, Progress
  <2>2. r \in Resources /\ Plan[at].stack \in {"e", "g"} /\ Rank[r] = at
        /\ (Plan[at].stack = "g" <=> r \in ForInit) /\ Push(r, Plan[at].stack)
    BY <1>1, <2>1, PlanSteps DEF Acquire
  <2>3. X \in SUBSET Resources /\ inUse' = inUse \cup X
        /\ \A x \in X : Rank[x] = at
    BY <1>1, <2>1, <2>2, PlanSteps, NamedRanks, NamedResources DEF Acquire
  <2>4. /\ Progress <= Rank[r] /\ Rank[r] < Progress'
        /\ \A x \in X : Progress <= Rank[x] /\ Rank[x] < Progress'
    BY <2>1, <2>2, <2>3
  <2>5. \A x \in ForMount : Rank[x] < Progress' => Rank[x] < Progress \/ x = r
    BY <2>1, PlanSteps, NamedRanks DEF ForMount
  <2>6. r \notin Dropped \cup {"request", "entries"}
    BY <2>1, PlanSteps
  <2>7. inUse \subseteq inUse' /\ inUse' \subseteq inUse \cup {r, "uri_parts"} /\ r \in inUse'
    BY <2>3
  <2>9. \A x \in Dropped \cup Embedded : Rank[x] < Progress' => Rank[x] < Progress \/ x \in inUse'
    <3>1. at = 7 => "uri_parts" \in inUse'
      BY <2>3, PlanFacts
    <3> QED
      BY <2>1, <3>1, NamedRanks DEF Dropped, Embedded
  <2> HIDE DEF r, X
  <2>8. inUse' \subseteq inUse \cup X
    BY <2>3
  <2> QED
    BY <2>2, <2>3, <2>4, <2>5, <2>6, <2>7, <2>8, <2>9, Taking DEF Took
<1>2. CASE TakeToken
  <2>1. at \in 1..4 /\ Progress = 10 + at /\ Progress' = 11 + at
    BY <1>2 DEF TakeToken, Place, Progress
  <2>2. /\ Tokens[at] \in Resources \ ForInit /\ Rank[Tokens[at]] = 10 + at
        /\ Push(Tokens[at], "e") /\ inUse' = inUse \cup {Tokens[at]}
        /\ Tokens[at] \notin Dropped \cup {"request", "entries"}
    BY <1>2, <2>1, TokenSteps DEF TakeToken
  <2>3. /\ Progress <= Rank[Tokens[at]] /\ Rank[Tokens[at]] < Progress'
        /\ {Tokens[at]} \in SUBSET Resources /\ inUse' \subseteq inUse \cup {Tokens[at]}
        /\ \A x \in {Tokens[at]} : Progress <= Rank[x] /\ Rank[x] < Progress'
    BY <2>1, <2>2
  <2>4. \A x \in ForMount : Rank[x] < Progress' => Rank[x] < Progress \/ x = Tokens[at]
    BY <2>1, NamedRanks DEF ForMount
  <2>5. \A x \in Dropped \cup Embedded : Rank[x] < Progress' => Rank[x] < Progress \/ x \in inUse'
    BY <2>1, <2>2, TokenFacts, NamedRanks DEF Dropped, Embedded
  <2> QED
    BY <2>2, <2>3, <2>4, <2>5, Taking DEF Took
<1>3. CASE OauthHeader \/ OauthHeaderFails \/ CreateHash
  <2> DEFINE r == IF CreateHash THEN "hash_table" ELSE "oauth_header"
  <2>1. /\ r \in Resources \ ForInit /\ inUse' \subseteq inUse \cup {r}
        /\ inUse \subseteq inUse' /\ (r \in inUse' \/ pc' = "takeback")
        /\ Progress <= Rank[r] /\ Rank[r] < Progress' /\ Push(r, "e")
    BY <1>3, NamedRanks, NamedResources
    DEF OauthHeader, OauthHeaderFails, CreateHash, Goto, Progress, Place, ForInit
  <2>2. {r} \in SUBSET Resources
        /\ \A x \in {r} : Progress <= Rank[x] /\ Rank[x] < Progress'
    BY <2>1
  <2>3. \A x \in ForMount : Rank[x] < Progress' => Rank[x] < Progress \/ x = r
    BY <1>3, NamedRanks
    DEF ForMount, OauthHeader, OauthHeaderFails, CreateHash, Goto, Progress
  <2>4. r \notin Dropped \cup {"request", "entries"}
    BY DEF Dropped
  <2>5. \A x \in Dropped \cup Embedded : Rank[x] < Progress' => Rank[x] < Progress
    BY <1>3, NamedRanks
    DEF Dropped, Embedded, OauthHeader, OauthHeaderFails, CreateHash, Goto, Progress
  <2> HIDE DEF r
  <2> QED
    BY <2>1, <2>2, <2>3, <2>4, <2>5, Taking DEF Took
<1> QED
  BY <1>1, <1>2, <1>3 DEF Takes

(* The steps that run the cleanup on top of a stack.                       *)
Releases == (TakeBack /\ estack # <<>>) \/ PopE \/ PopG

(* The cleanup of top ran.                                                 *)
Released(top) ==
  /\ \/ PopG /\ top = gstack[Len(gstack)] /\ top \in ForInit /\ UNCHANGED estack
     \/ ~PopG /\ top = estack[Len(estack)] /\ E!Run /\ top \notin ForInit
              /\ UNCHANGED gstack
  /\ UNCHANGED missed
  /\ inUse' = IF top \in Embedded THEN inUse ELSE inUse \ {top}
  /\ Elements(estack) \cup Elements(gstack) =
       Elements(estack') \cup Elements(gstack') \cup {top}
  /\ Elements(ended') = Elements(ended) \cup {top}
  /\ Elements(estack') \subseteq Elements(estack)

LEMMA ReleasingStep ==
  ASSUME TypeOK, TypeOK', Once, Releases
  PROVE  Once' /\ \E top \in Resources : Released(top)
<1>1. CASE (TakeBack /\ estack # <<>>) \/ PopE
  <2>1. Progress <= Progress'
    BY <1>1 DEF PopE, TakeBack, Progress
  <2>2. /\ estack[Len(estack)] \in Resources
        /\ estack[Len(estack)] \in Elements(estack)
    BY <1>1, TopFacts DEF PopE, E!Run, TypeOK, Once
  <2>3. /\ E!Run /\ UNCHANGED <<gstack, missed>> /\ ~PopG
        /\ inUse' = IF estack[Len(estack)] \in Embedded THEN inUse
                    ELSE inUse \ {estack[Len(estack)]}
    <3>1. E!Run => ~PopG
      BY <1>1 DEF TakeBack, PopE, PopG
    <3> QED
      BY <1>1, <3>1 DEF TakeBack, PopE
  <2>4. estack[Len(estack)] \notin ForInit
    BY <2>2 DEF Once
  <2> QED
    BY <2>1, <2>2, <2>3, <2>4, Releasing DEF Released
<1>2. CASE PopG
  <2>1. Progress <= Progress'
    BY <1>2, ProgressNat DEF PopG, Progress
  <2>2. gstack[Len(gstack)] \in Resources /\ gstack[Len(gstack)] \in Elements(gstack)
    BY <1>2, TopFacts DEF PopG, G!Run, TypeOK, Once
  <2>3. gstack[Len(gstack)] \in ForInit /\ gstack[Len(gstack)] \notin Embedded
    BY <2>2 DEF Once, ForInit, Embedded
  <2>4. /\ G!Run /\ UNCHANGED <<estack, missed>>
        /\ inUse' = IF gstack[Len(gstack)] \in Embedded THEN inUse
                    ELSE inUse \ {gstack[Len(gstack)]}
    BY <1>2, <2>3 DEF PopG
  <2> QED
    BY <1>2, <2>1, <2>2, <2>3, <2>4, Releasing DEF Released
<1> QED
  BY <1>1, <1>2 DEF Releases

LEMMA OnceStep == TypeOK /\ TypeOK' /\ Place /\ Once /\ [Next]_vars => Once'
<1> SUFFICES ASSUME TypeOK, TypeOK', Place, Once, [Next]_vars PROVE Once'
  OBVIOUS
<1>1. CASE Quiet
  <2>1. Progress <= Progress'
    BY <1>1, QuietUnchanged, PlanFacts, TokenFacts
    DEF Progress, Place, TypeOK, Quiet, AcquireFails, StacksFail, CheckCode,
        NoToken, Goto, CreateHashFails, FailG, Refuse, Mount, Unmount, Exit, Stopped, vars
  <2> QED
    BY <1>1, <2>1, QuietUnchanged, Staying
<1>2. CASE Takes
  BY <1>2, TakingStep
<1>3. CASE Releases
  BY <1>3, ReleasingStep
<1>4. CASE BuildRequest \/ BuildFails \/ Exchange \/ List
  <2> DEFINE X == IF BuildRequest THEN {"first_uri", "request"}
                  ELSE IF BuildFails THEN {"first_uri"}
                  ELSE IF Exchange THEN {"response"} ELSE {"entries"}
  <2>1. /\ X \in SUBSET Resources /\ inUse' \subseteq inUse \cup X
        /\ \A x \in X : Progress <= Rank[x] /\ Rank[x] < Progress'
        /\ UNCHANGED <<estack, gstack, ended, missed>>
    BY <1>4, NamedRanks, NamedResources, PlanFacts
    DEF BuildRequest, BuildFails, Exchange, List, Goto, Progress, Place
  <2>2. Progress <= Progress'
    BY <1>4 DEF BuildRequest, BuildFails, Exchange, List, Goto, Progress, Place
  <2> HIDE DEF X
  <2> QED
    BY <2>1, <2>2, Waiting
<1>5. CASE TakeBack /\ estack = <<>>
  <2>1. Progress <= Progress' /\ UNCHANGED <<inUse, estack, gstack, ended, missed>>
    BY <1>5 DEF TakeBack, Progress
  <2> QED
    BY <2>1, Staying
<1>6. CASE EndExchange \/ FreeEntries
  <2>1. Progress <= Progress' /\ UNCHANGED <<estack, gstack, ended, missed>>
        /\ inUse' \subseteq inUse
    BY <1>6, TokenFacts DEF EndExchange, FreeEntries, Goto, Progress
  <2> QED
    BY <2>1, Staying
<1>7. CASE UNCHANGED vars
  BY <1>7 DEF vars, Once, Progress, Elements, Distinct
<1> QED
  BY <1>1, <1>2, <1>3, <1>4, <1>5, <1>6, <1>7, NextCases DEF Takes, Releases

LEMMA AccountedStep ==
  TypeOK /\ TypeOK' /\ Place /\ Once /\ Accounted /\ [Next]_vars => Accounted'
<1> SUFFICES ASSUME TypeOK, TypeOK', Place, Once, Accounted, [Next]_vars PROVE Accounted'
  OBVIOUS
<1>1. CASE Quiet
  <2>1. UNCHANGED <<inUse, estack, gstack, missed>>
    BY <1>1, QuietUnchanged
  <2> QED
    BY <1>1, <2>1
    DEF Accounted, Elements, Quiet, AcquireFails, StacksFail, CheckCode,
        NoToken, Goto, CreateHashFails, FailG, Refuse, Mount, Unmount, Exit, Stopped, vars
<1>2. CASE Takes
  <2>1. PICK r \in Resources : Took(r)
    BY <1>2, TakingStep
  <2>2. ("request" \in inUse' <=> "request" \in inUse)
        /\ ("entries" \in inUse' <=> "entries" \in inUse)
    BY <2>1 DEF Took
  <2>3. /\ "request" \in inUse => pc' = pc
        /\ "entries" \in inUse => pc' \in {"hash", "succeed"}
    BY <1>2 DEF Accounted, Takes, Acquire, TakeToken, OauthHeader, OauthHeaderFails,
                CreateHash, Goto
  <2> QED
    BY <2>1, <2>2, <2>3 DEF Took, Accounted, Dropped
<1>3. CASE Releases
  <2>1. PICK top \in Resources : Released(top)
    BY <1>3, ReleasingStep
  <2>2. inUse' \subseteq inUse
    BY <2>1 DEF Released
  <2>3. "request" \in inUse \/ "entries" \in inUse => pc' = pc \/ pc' = "aborted"
    BY <1>3 DEF Accounted, Releases, TakeBack, PopE, PopG
  <2> QED
    BY <2>1, <2>2, <2>3 DEF Released, Accounted
<1>4. CASE BuildRequest \/ BuildFails \/ Exchange \/ List
  BY <1>4 DEF BuildRequest, BuildFails, Exchange, List, Goto, Accounted, Elements, Dropped
<1>5. CASE TakeBack /\ estack = <<>>
  BY <1>5 DEF TakeBack, Accounted, Elements
<1>6. CASE EndExchange \/ FreeEntries
  BY <1>6 DEF EndExchange, FreeEntries, Goto, Accounted, Elements
<1>7. CASE UNCHANGED vars
  BY <1>7 DEF vars, Accounted, Elements
<1> QED
  BY <1>1, <1>2, <1>3, <1>4, <1>5, <1>6, <1>7, NextCases DEF Takes, Releases

(* The three kinds of steps touch what Kept is about.                      *)
LEMMA KeptByTaking ==
  ASSUME TypeOK, TypeOK', Place, Once, Kept, Takes
  PROVE  Kept'
<1>1. PICK r \in Resources : Took(r)
  BY TakingStep
<1>2. /\ pc \in (Setup \ {"takeback"}) \cup {"succeed"} /\ pc' \in Setup \cup {"succeed"}
      /\ ended' = ended
  BY <1>1 DEF Took, Takes, Acquire, TakeToken, OauthHeader, OauthHeaderFails, CreateHash,
              Goto, Setup
<1>3. Elements(ended') \subseteq ForInit
  BY <1>2 DEF Kept
<1>4. ASSUME pc' # "takeback" PROVE {x \in ForMount : Rank[x] < Progress'} \subseteq inUse'
  BY <1>1, <1>2, <1>4 DEF Kept, Took
<1>5. ASSUME NEW j \in DOMAIN estack', NEW k \in DOMAIN estack',
             estack'[j] = "curlmulti", estack'[k] = "curl_global"
      PROVE  k < j
  <2>1. CASE estack' = estack
    BY <1>5, <2>1 DEF Kept
  <2>2. CASE estack' = Append(estack, r)
    <3>1. /\ DOMAIN estack = 1..Len(estack) /\ Len(estack) \in Nat
          /\ DOMAIN estack' = 1..(Len(estack) + 1)
          /\ estack'[Len(estack) + 1] = r
          /\ \A i \in 1..Len(estack) : estack'[i] = estack[i]
      BY <2>2 DEF TypeOK
    <3>2. CASE j \in 1..Len(estack) /\ k \in 1..Len(estack)
      BY <1>5, <3>1, <3>2 DEF Kept
    <3>3. CASE j \in 1..Len(estack) /\ k = Len(estack) + 1
      <4>1. r = "curl_global" /\ "curlmulti" \in Elements(estack)
        BY <1>5, <3>1, <3>3 DEF Elements
      <4>2. Rank["curlmulti"] < Progress /\ Progress <= Rank["curl_global"]
        BY <1>1, <4>1 DEF Once, Took
      <4> QED
        BY <4>2, NamedRanks, ProgressNat
    <3>4. CASE j = Len(estack) + 1 /\ k \in 1..Len(estack)
      BY <3>1, <3>4
    <3>5. CASE j = Len(estack) + 1 /\ k = Len(estack) + 1
      BY <1>5, <3>5
    <3> QED
      BY <3>1, <3>2, <3>3, <3>4, <3>5
  <2> QED
    BY <1>1, <2>1, <2>2 DEF Took
<1>6. "curlmulti" \in inUse' => "curl_global" \in inUse' \/ "curlmulti" \in missed'
  <2>1. CASE r # "curlmulti"
    BY <1>1, <2>1 DEF Took, Kept
  <2>2. CASE r = "curlmulti" /\ "curlmulti" \in inUse'
    <3>1. Progress <= 6 /\ Progress \in Nat
      BY <1>1, <2>2, NamedRanks, ProgressNat DEF Took
    <3>2. pc = "acquire"
      BY <1>2, <3>1 DEF Progress, Setup, TypeOK
    <3>3. pc' # "takeback"
      BY <3>2 DEF Takes, Acquire, TakeToken, OauthHeader, OauthHeaderFails, CreateHash, Goto
    <3>4. Rank["curlmulti"] < Progress'
      BY <2>2, TakingStep, <1>1, NamedRanks DEF Once
    <3>5. Progress' \in Nat
      <4>1. TypeOK' => (Progress \in Nat)'
        BY ProgressNat, PTL
      <4> QED
        BY <4>1
    <3>6. Rank["curl_global"] < Progress'
      BY <3>4, <3>5, NamedRanks
    <3> QED
      BY <1>4, <3>3, <3>6 DEF ForMount
  <2> QED
    BY <2>1, <2>2
<1> QED
  BY <1>2, <1>3, <1>4, <1>5, <1>6 DEF Kept

LEMMA KeptByReleasing ==
  ASSUME TypeOK, TypeOK', Place, Once, Accounted, Kept, Releases
  PROVE  Kept'
<1>1. PICK top \in Resources : Released(top)
  BY ReleasingStep
<1>2. CASE PopG
  <2>1. /\ top \in ForInit /\ UNCHANGED <<pc, at, estack>>
        /\ Elements(ended') = Elements(ended) \cup {top}
    BY <1>1, <1>2 DEF PopG, Released
  <2>2. Progress' = Progress /\ inUse' = inUse \ {top}
    BY <1>1, <2>1 DEF Progress, Released, ForInit, Embedded
  <2>3. top \notin ForMount
    BY <2>1 DEF ForInit, ForMount
  <2> QED
    BY <1>1, <2>1, <2>2, <2>3 DEF Kept, Released, ForMount
<1>3. CASE ~PopG
  <2>1. /\ E!Run /\ top = estack[Len(estack)] /\ UNCHANGED missed
        /\ inUse' \subseteq inUse /\ inUse \ {top} \subseteq inUse'
    BY <1>1, <1>3 DEF Released
  <2>2. pc' \notin Setup \cup {"succeed", "mounted"}
    BY <1>3 DEF Releases, TakeBack, PopE, Setup
  <2>3. /\ estack \in Seq(Resources) /\ estack # <<>>
        /\ estack' = SubSeq(estack, 1, Len(estack) - 1)
    BY <2>1 DEF E!Run, TypeOK
  <2>4. /\ DOMAIN estack = 1..Len(estack) /\ Len(estack) \in Nat /\ Len(estack) > 0
        /\ DOMAIN estack' = 1..(Len(estack) - 1)
        /\ \A i \in 1..(Len(estack) - 1) : estack'[i] = estack[i]
    BY <2>3
  <2>5. ASSUME NEW j \in DOMAIN estack', NEW k \in DOMAIN estack',
               estack'[j] = "curlmulti", estack'[k] = "curl_global"
        PROVE  k < j
    BY <2>4, <2>5 DEF Kept
  <2>6. ASSUME "curlmulti" \in inUse', "curlmulti" \notin missed'
        PROVE  "curl_global" \in inUse'
    <3>1. "curlmulti" \in inUse /\ "curlmulti" \notin missed /\ "curl_global" \in inUse
      BY <2>1, <2>6 DEF Kept
    <3>2. "curlmulti" \in Elements(estack)
      BY <3>1 DEF Accounted, Once, ForInit, Dropped, Embedded
    <3>3. PICK j \in DOMAIN estack : estack[j] = "curlmulti"
      BY <3>2 DEF Elements
    <3>4. CASE top = "curl_global"
      <4>1. Len(estack) \in DOMAIN estack /\ estack[Len(estack)] = "curl_global"
        BY <2>1, <2>4, <3>4
      <4>2. Len(estack) < j
        BY <3>3, <4>1 DEF Kept
      <4> QED
        BY <2>4, <3>3, <4>2
    <3> QED
      BY <2>1, <3>1, <3>4
  <2> QED
    BY <2>2, <2>5, <2>6 DEF Kept
<1> QED
  BY <1>2, <1>3

LEMMA KeptStep ==
  TypeOK /\ TypeOK' /\ Place /\ Once /\ Accounted /\ Kept /\ [Next]_vars => Kept'
<1> SUFFICES ASSUME TypeOK, TypeOK', Place, Once, Accounted, Kept, [Next]_vars
    PROVE Kept'
  OBVIOUS
<1>1. CASE Quiet
  <2>1. UNCHANGED <<inUse, estack, ended, missed>>
    BY <1>1, QuietUnchanged
  <2>2. pc' \in Setup \cup {"succeed", "mounted"} =>
          /\ pc' # "takeback" /\ Progress' = Progress
          /\ pc \in (Setup \ {"takeback"}) \cup {"succeed", "mounted"}
             \/ UNCHANGED <<pc, at>>
    BY <1>1, QuietUnchanged, PlanFacts, TokenFacts
    DEF Progress, Place, Quiet, AcquireFails, StacksFail, CheckCode, NoToken,
        Goto, CreateHashFails, FailG, Refuse, Mount, Unmount, Exit, Stopped, vars, Setup
  <2> QED
    BY <2>1, <2>2 DEF Kept, Elements
<1>2. CASE Takes
  BY <1>2, KeptByTaking
<1>3. CASE Releases
  BY <1>3, KeptByReleasing
<1>4. CASE BuildRequest \/ BuildFails \/ Exchange \/ List
  BY <1>4, NamedRanks
  DEF BuildRequest, BuildFails, Exchange, List, Goto, Kept, Elements, ForMount, Progress, Setup, Place
<1>5. CASE TakeBack /\ estack = <<>>
  BY <1>5 DEF TakeBack, Kept, Elements, Setup
<1>6. CASE EndExchange \/ FreeEntries
  BY <1>6, NamedRanks, TokenFacts
  DEF EndExchange, FreeEntries, Goto, Kept, Elements, ForMount, Progress, Setup
<1>7. CASE UNCHANGED vars
  BY <1>7 DEF vars, Kept, Elements, Progress
<1> QED
  BY <1>1, <1>2, <1>3, <1>4, <1>5, <1>6, <1>7, NextCases DEF Takes, Releases

LEMMA LostStep ==
  TypeOK /\ TypeOK' /\ Place /\ Once /\ Lost /\ [Next]_vars => Lost'
<1> SUFFICES ASSUME TypeOK, TypeOK', Place, Once, Lost, [Next]_vars PROVE Lost'
  OBVIOUS
<1> USE NamedRanks
<1>1. CASE Quiet
  <2>1. UNCHANGED <<inUse, estack>>
    BY <1>1, QuietUnchanged
  <2>2. pc' \in (Setup \ {"takeback"}) \cup {"succeed", "mounted", "unmounted", "destroy",
                                             "exited"} =>
          /\ Progress' = Progress
          /\ pc \in (Setup \ {"takeback"}) \cup {"succeed", "mounted", "unmounted",
                                                  "destroy", "exited"}
    BY <1>1, QuietUnchanged, PlanFacts, TokenFacts
    DEF Progress, Place, Quiet, AcquireFails, StacksFail, CheckCode, NoToken, Goto,
        CreateHashFails, FailG, Refuse, Mount, Unmount, Exit, Stopped, vars, Setup
  <2> QED
    BY <2>1, <2>2 DEF Lost, Elements
<1>2. CASE Takes
  <2>1. PICK r \in Resources : Took(r)
    BY <1>2, TakingStep
  <2>2. Elements(estack') \subseteq Elements(estack) \cup {r}
    <3>1. estack \in Seq(Resources) /\ (estack' = estack \/ estack' = Append(estack, r))
      BY <2>1 DEF Took, TypeOK
    <3>2. Elements(Append(estack, r)) = Elements(estack) \cup {r}
      BY <3>1, AppendFacts
    <3>3. CASE estack' = estack
      BY <3>3 DEF Elements
    <3>4. CASE estack' = Append(estack, r)
      BY <3>2, <3>4
    <3> QED
      BY <3>1, <3>3, <3>4
  <2>3. pc \in (Setup \ {"takeback"})
    BY <1>2 DEF Takes, Acquire, TakeToken, OauthHeader, OauthHeaderFails, CreateHash,
                Goto, Setup
  <2> QED
    BY <2>1, <2>2, <2>3 DEF Took, Lost
<1>3. CASE Releases
  <2>1. PICK top \in Resources : Released(top)
    BY <1>3, ReleasingStep
  <2>2. CASE PopG
    <3>1. top \in ForInit /\ UNCHANGED <<pc, at, estack>>
      BY <2>1, <2>2 DEF PopG, Released
    <3>2. Progress' = Progress /\ inUse \ ForInit \subseteq inUse'
      BY <2>1, <3>1 DEF Progress, Released
    <3> QED
      BY <3>1, <3>2 DEF Lost, Elements, ForInit, Dropped, Embedded
  <2>3. CASE ~PopG
    <3>1. top = estack[Len(estack)] /\ E!Run /\ Elements(estack') \subseteq Elements(estack)
          /\ inUse' = IF top \in Embedded THEN inUse ELSE inUse \ {top}
      BY <2>1, <2>3 DEF Released
    <3>2. top \in Elements(estack)
      BY <3>1, TopFacts DEF E!Run, TypeOK, Once
    <3>3. {x \in Dropped \cup Embedded : x \in inUse} \subseteq inUse'
      BY <3>1, <3>2 DEF Lost
    <3>4. pc' \in (Setup \ {"takeback"}) \cup {"succeed", "mounted", "unmounted", "destroy",
                                               "exited"} => pc = "destroy" /\ pc' = "destroy"
      BY <1>3, <2>3 DEF Releases, TakeBack, PopE, Setup
    <3>5. pc = "destroy" /\ pc' = "destroy" => Progress' = Progress
      BY DEF Progress
    <3> QED
      BY <3>1, <3>3, <3>4, <3>5 DEF Lost
  <2> QED
    BY <2>2, <2>3
<1>4. CASE BuildRequest \/ BuildFails \/ Exchange \/ List
  BY <1>4
  DEF BuildRequest, BuildFails, Exchange, List, Goto, Lost, Elements, Dropped, Embedded,
      Progress, Setup, Place
<1>5. CASE TakeBack /\ estack = <<>>
  BY <1>5 DEF TakeBack, Lost, Elements, Setup
<1>6. CASE EndExchange \/ FreeEntries
  BY <1>6, TokenFacts
  DEF EndExchange, FreeEntries, Goto, Lost, Elements, Dropped, Embedded, Progress, Setup
<1>7. CASE UNCHANGED vars
  BY <1>7 DEF vars, Lost, Elements, Progress
<1> QED
  BY <1>1, <1>2, <1>3, <1>4, <1>5, <1>6, <1>7, NextCases DEF Takes, Releases

LEMMA LeftStep ==
  TypeOK /\ Place /\ Once /\ Accounted /\ Lost /\ NothingLeft /\ [Next]_vars => NothingLeft'
<1> SUFFICES ASSUME TypeOK, Place, Once, Accounted, Lost, NothingLeft, [Next]_vars
    PROVE NothingLeft'
  OBVIOUS
<1> DEFINE left == inUse \ missed
           lost == (Dropped \cup Embedded) \ missed
<1>1. estack = <<>> /\ gstack = <<>> => left \subseteq lost \cup {"request", "entries"}
  BY DEF Accounted, Elements
<1>2. CASE Exit
  <2>1. left \subseteq lost
    BY <1>1, <1>2 DEF Exit, Goto, Place, Accounted
  <2>2. lost \subseteq left
    BY <1>2, NamedRanks DEF Exit, Goto, Lost, Progress, Dropped, Embedded
  <2>3. left' = left /\ lost' = lost /\ pc' = "exited"
    BY <1>2 DEF Exit, Goto
  <2> QED
    BY <2>1, <2>2, <2>3 DEF NothingLeft
<1>3. CASE Refuse
  <2>1. /\ left \subseteq lost \cup {"request", "entries"}
        /\ ~({"request", "entries"} \subseteq left)
        /\ left' = left /\ lost' = lost /\ pc' = "refused"
    BY <1>1, <1>3 DEF Refuse, Goto, Emptied, Place, Accounted
  <2> QED
    BY <2>1 DEF NothingLeft
<1>4. CASE StacksFail
  <2>1. Progress = 1 /\ inUse \subseteq Resources /\ \A r \in inUse : Rank[r] < 1
    BY <1>4 DEF StacksFail, Goto, Progress, Once, TypeOK
  <2>2. inUse = {}
    BY <2>1, Ranks
  <2>3. left' = {} /\ pc' = "refused"
    BY <1>4, <2>2 DEF StacksFail, Goto
  <2> QED
    BY <2>3 DEF NothingLeft
<1>5. CASE Stopped \/ UNCHANGED vars
  BY <1>5 DEF Stopped, vars, NothingLeft
<1>6. CASE ~(Exit \/ Refuse \/ StacksFail \/ Stopped) /\ Next
  <2>1. pc' \notin {"exited", "refused"}
    BY <1>6, PlanFacts
    DEF Next, Acquire, AcquireFails, CheckCode, BuildRequest, BuildFails, Exchange,
        TakeToken, NoToken, EndExchange, OauthHeader, OauthHeaderFails, TakeBack, List,
        CreateHash, CreateHashFails, PopE, PopG, FailG, Mount, Unmount, FreeEntries, Goto
  <2> QED
    BY <2>1 DEF NothingLeft
<1> QED
  BY <1>2, <1>3, <1>4, <1>5, <1>6

LEMMA InvInit == Init => Inv
<1> SUFFICES ASSUME Init PROVE Inv
  OBVIOUS
<1>1. Elements(<<>>) = {} /\ Distinct(<<>>)
  BY DEF Elements, Distinct
<1>2. TypeOK /\ Place
  BY PlanFacts DEF Init, TypeOK, Place, Setup
<1>3. Once /\ Accounted
  BY <1>1 DEF Init, Once, Accounted
<1>4. Kept
  BY <1>1, NamedRanks DEF Init, Kept, Progress, ForMount
<1>5. NothingLeft
  BY DEF Init, NothingLeft
<1>6. Lost
  BY <1>1, NamedRanks DEF Init, Lost, Progress, Dropped, Embedded
<1> QED
  BY <1>2, <1>3, <1>4, <1>5, <1>6 DEF Inv

LEMMA InvStep == Inv /\ [Next]_vars => Inv'
  BY TypeStep, PlaceStep, OnceStep, AccountedStep, KeptStep, LostStep, LeftStep
  DEF Inv

LEMMA SessionInv == Spec => []Inv
  BY InvInit, InvStep, PTL DEF Spec
-----------------------------------------------------------------------------
(* Theorems                                                                *)

(* Every variable always has its type, and gdi_init never reads past the   *)
(* end of what it acquires.                                                *)
THEOREM SessionTypeCorrect == Spec => []TypeOK
<1>1. Inv => TypeOK
  BY DEF Inv
<1> QED
  BY <1>1, SessionInv, PTL

(* gdi_init and gdi_destroy release nothing twice and keep no cleanup of   *)
(* what was released, whichever acquisitions, pushes and requests fail.    *)
THEOREM SessionReleasesOnce == Spec => []ReleasedOnce
<1>1. Inv => ReleasedOnce
  <2>1. Registered = Elements(estack) \cup Elements(gstack) /\ Ended = Elements(ended)
    BY DEF Registered, Ended, Elements
  <2> QED
    BY <2>1 DEF Inv, Once, Distinct, ReleasedOnce
<1> QED
  BY <1>1, SessionInv, PTL

(* curl outlives its multi handle, the mounted file system has what it     *)
(* needs, and nothing meant for the life of the mount is released earlier. *)
THEOREM SessionKeepsNeeded == Spec => []NeedsHeld
<1>1. Inv => NeedsHeld
  <2> SUFFICES ASSUME Inv PROVE NeedsHeld
    OBVIOUS
  <2>1. pc = "mounted" => ForMount \subseteq inUse
    BY NamedRanks DEF Inv, Kept, Progress, ForMount
  <2>2. Ended = Elements(ended)
    BY DEF Ended, Elements
  <2> QED
    BY <2>1, <2>2, ForInitPlan DEF Inv, Kept, NeedsHeld, ForMount
<1> QED
  BY <1>1, SessionInv, PTL

(* What an unmounted program never released, exactly: the dropped blocks,  *)
(* the embedded strings, and what a failed push left without a cleanup.  A *)
(* refused mount leaves the request or the entries of the failed step too. *)
THEOREM SessionLeavesNothing == Spec => []NothingLeft
<1>1. Inv => NothingLeft
  BY DEF Inv
<1> QED
  BY <1>1, SessionInv, PTL
=============================================================================
