------------------------------ MODULE Listing ------------------------------
(***************************************************************************)
(* The directory: gdi_get_file_list fetches the pages of the feed with one *)
(* request_t (module Transfer), xml_parse_file_list turns each page into   *)
(* entries of a linked list, and create_hash_table indexes them by name.   *)
(***************************************************************************)
EXTENDS Text

CONSTANTS
  Uris,     \* the pages
  First,    \* the page gdi_get_file_list starts with
  NULL,
  Layouts,  \* what the server may hold: the nodes of every page
  Replies,  \* besides whole pages: "proxied", "error"
  Faults    \* "broken": the connection may break; "memory": an allocation may fail

(* A node of a page: an entry with its children, a link to the next page,  *)
(* a link without a rel attribute, or something else.                      *)
IsEntry(n) == n.kind = "entry"
IsNext(n)  == n.kind = "next"

NodesOf(s) == UNION {Range(s[u]) : u \in Uris}

(* The last child of that name sets the field.                             *)
Field(n, name, default) ==
  LET at == {j \in DOMAIN n.children : n.children[j].name = name} IN
  IF at = {} THEN default ELSE n.children[Max(at)].value

ASSUME ListingAssumption ==
  /\ First \in Uris /\ NULL \notin Uris
  /\ NULL \notin Seq(STRING \cup {"%", "2", "5", "6", "F", "0"}) \* not a name, escaped or not
  /\ Replies \subseteq {"proxied", "error"}
  /\ Faults \subseteq {"broken", "memory"}

(* A feed: its links lead to pages of it, titles are texts, and what has   *)
(* the content of a file has its title.                                    *)
ASSUME FeedAssumption ==
  \A s \in Layouts :
    /\ \A u \in Uris : s[u] \in Seq(NodesOf(s))
    /\ \A n \in NodesOf(s) : IsNext(n) => n.uri \in Uris \cup {NULL}
    /\ \A n \in NodesOf(s) : IsEntry(n) =>
         /\ n.children \in Seq(Range(n.children))
         /\ \A c \in Range(n.children) :
              c.name = "title" /\ c.value # NULL => c.value \in Seq(STRING)
         /\ \A m \in NodesOf(s) :
              IsEntry(m) /\ Field(m, "content", NULL) = Field(n, "content", NULL)
                => Field(m, "title", NULL) = Field(n, "title", NULL)

VARIABLES
  phase, uri, header, headers, body, answer, arrived, lost, \* of Transfer
  server,   \* server[u]: the nodes of page u
  pc,       \* where gdi_init is
  nodes,    \* the nodes of the current page still to be looked at
  next,     \* the link to the next page, or NULL
  count,    \* entries found in the current page
  head, tail, link, \* the linked list, 0 being the null pointer
  entries,  \* the entries, by the order of their allocation
  numFiles, \* state->num_files
  table,    \* the hash table
  walk,     \* the entry a loop over the list is at
  cut,      \* history: did a page not arrive whole?
  read      \* history: how many did?

transferVars == <<phase, uri, header, headers, body, answer, arrived, lost>>
listVars     == <<head, tail, link, entries, numFiles>>
indexVars    == <<table, walk>>
pageVars     == <<nodes, next, count>>
history      == <<cut, read>>
vars == <<transferVars, server, pc, pageVars, listVars, indexVars, history>>

Payload == (Uris \X {1, 2}) \cup {"status", "crlf", "oops"}
P(k, d) == [kind |-> k, data |-> d]

Block    == <<P("line", "status"), P("blank", "crlf")>>
Feed(u)  == <<P("data", <<u, 1>>), P("data", <<u, 2>>)>>
Page(u)  == Block \o Feed(u)
Answers  ==
  [u \in Uris |->
    {Page(u)}
    \cup (IF "proxied" \in Replies THEN {Block \o Page(u)} ELSE {})
    \cup (IF "error" \in Replies THEN {Block \o <<P("data", "oops")>>} ELSE {})]

(* No piece of a page is lost: a page with a hole may still be well-formed *)
(* and would then mean anything.                                           *)
Request == INSTANCE Transfer WITH Faults <- Faults \ {"memory"}

TypeOK ==
  /\ Request!TypeOK
  /\ pc \in {"start", "ask", "wait", "parse", "turn", "end", "hash", "enter",
             "mounted", "failed", "crashed", "starved"}
  /\ next \in Uris \cup {NULL}
  /\ count \in Nat /\ numFiles \in Nat
  /\ cut \in BOOLEAN /\ read \in Nat
  /\ {head, tail, walk} \subseteq 0..Len(entries)
  /\ link \in [1..Len(entries) -> 0..Len(entries)]
  /\ \A name \in DOMAIN table : table[name] \in 1..Len(entries)

Init ==
  /\ Request!Idle /\ uri = First
  /\ server \in Layouts
  /\ pc = "start"
  /\ nodes = <<>> /\ next = NULL /\ count = 0
  /\ head = 0 /\ tail = 0 /\ link = <<>> /\ entries = <<>> /\ numFiles = 0
  /\ table = <<>> /\ walk = 0
  /\ cut = FALSE /\ read = 0

-----------------------------------------------------------------------------
(* gdi_get_file_list                                                       *)

Goto(from, to) == pc = from /\ pc' = to

Begin ==
  /\ Goto("start", "ask")
  /\ Request!CiInit(First)
  /\ UNCHANGED <<server, pageVars, listVars, indexVars, history>>

Ask ==
  /\ Goto("ask", "wait")
  /\ \E a \in Answers[uri] : Request!CiRequest(a)
  /\ UNCHANGED <<server, pageVars, listVars, indexVars, history>>

Wait ==
  /\ pc = "wait"
  /\ Request!Callback \/ Request!Perform
  /\ UNCHANGED <<server, pc, pageVars, listVars, indexVars, history>>

(* strstr skips what precedes the feed; the parser rejects what is not one *)
(* whole page, and nothing distinguishes that from a page without nodes.   *)
PagesIn(b) ==
  {u \in Uris : \E j \in DOMAIN b : Request!IsData(b[j]) /\ SubSeq(b, j, Len(b)) = Feed(u)}

StartParse ==
  /\ phase = "done" /\ body # <<>>
  /\ Goto("wait", "parse")
  /\ LET whole == PagesIn(body) IN
       /\ nodes' = IF whole = {} THEN <<>> ELSE server[CHOOSE u \in whole : TRUE]
       /\ cut' = (cut \/ whole = {})
       /\ read' = IF whole = {} THEN read ELSE read + 1
  /\ next' = NULL /\ count' = 0
  /\ UNCHANGED <<transferVars, server, listVars, indexVars>>

(* Without a body strstr runs on a null pointer.                           *)
ParseNothing ==
  /\ phase = "done" /\ body = <<>>
  /\ Goto("wait", "crashed")
  /\ UNCHANGED <<transferVars, server, pageVars, listVars, indexVars, history>>

-----------------------------------------------------------------------------
(* xml_parse_file_list and gd_fs_entry_from_xml                            *)

EntryFromXml(n) ==
  [filename |-> LET title == Field(n, "title", NULL) IN
                IF title = NULL THEN NULL ELSE Encode(title, FilenameUnsafe),
   src      |-> Field(n, "content", NULL),
   feed     |-> Field(n, "self", NULL),
   md5set   |-> Field(n, "md5Checksum", NULL) # NULL,
   md5      |-> Field(n, "md5Checksum", NULL),
   size     |-> Field(n, "size", 0)]

(* Faulty: the tail stays at the first entry.                              *)
TailStuck(n) == IF tail = 0 THEN n ELSE tail

TailAfter(n) == n

(* Faulty: the memory of the entry is not zeroed.                          *)
NextUnset == Len(entries) + 2

NextOfNew == 0

(* Faulty: the rel attribute of a link is compared without a look at it.   *)
ReadableWithRel(n) ==
  IF IsEntry(n) THEN \A j \in DOMAIN n.children : n.children[j].value # NULL
  ELSE n.kind # "norel" /\ (IsNext(n) => n.uri # NULL)

(* A child of an entry without the text or the attribute that is taken     *)
(* from it, or a link to the next page without href, ends in strlen or     *)
(* strcmp of a null pointer.                                               *)
Readable(n) ==
  IF IsEntry(n) THEN \A j \in DOMAIN n.children : n.children[j].value # NULL
  ELSE IsNext(n) => n.uri # NULL

ParseEntry ==
  /\ pc = "parse" /\ nodes # <<>> /\ IsEntry(Head(nodes)) /\ Readable(Head(nodes))
  /\ nodes' = Tail(nodes)
  /\ entries' = Append(entries, EntryFromXml(Head(nodes)))
  /\ LET n == Len(entries) + 1 IN
       /\ head' = IF tail = 0 THEN n ELSE head
       /\ link' = [j \in 1..n |-> IF j = tail THEN n ELSE IF j = n THEN NextOfNew ELSE link[j]]
       /\ tail' = TailAfter(n)
  /\ count' = count + 1
  /\ UNCHANGED <<transferVars, server, pc, next, numFiles, indexVars, history>>

ParseLink ==
  /\ pc = "parse" /\ nodes # <<>> /\ ~IsEntry(Head(nodes)) /\ Readable(Head(nodes))
  /\ nodes' = Tail(nodes)
  /\ next' = IF IsNext(Head(nodes)) THEN Head(nodes).uri ELSE next
  /\ UNCHANGED <<transferVars, server, pc, count, listVars, indexVars, history>>

ParseCrash ==
  /\ pc = "parse" /\ nodes # <<>> /\ ~Readable(Head(nodes))
  /\ pc' = "crashed"
  /\ UNCHANGED <<transferVars, server, pageVars, listVars, indexVars, history>>

(* malloc fails, which gd_fs_entry_from_xml and xml_parse_file_list look   *)
(* at only after they used the pointer.                                    *)
ParseStarves ==
  /\ "memory" \in Faults
  /\ pc = "parse" /\ nodes # <<>> /\ (IsEntry(Head(nodes)) \/ IsNext(Head(nodes)))
  /\ pc' = "starved"
  /\ UNCHANGED <<transferVars, server, pageVars, listVars, indexVars, history>>

EndParse ==
  /\ nodes = <<>>
  /\ Goto("parse", "turn")
  /\ numFiles' = numFiles + count
  /\ UNCHANGED <<transferVars, server, pageVars, head, tail, link, entries, indexVars, history>>

(* Faulty: the loop also ends at a page that brought no entry.             *)
MorePagesUnlessEmpty == next # NULL /\ count > 0

MorePages == next # NULL

(* ci_set_uri and ci_clear_response, then the test of the loop.            *)
TurnPage ==
  /\ Goto("turn", IF MorePages THEN "ask" ELSE "end")
  /\ Request!CiClearResponse
  /\ IF next # NULL THEN Request!CiSetUri(next) ELSE UNCHANGED uri
  /\ UNCHANGED <<server, pageVars, listVars, indexVars, history>>

EndListing ==
  /\ Goto("end", "hash")
  /\ Request!CiDestroy
  /\ UNCHANGED <<server, pageVars, listVars, indexVars, history>>

-----------------------------------------------------------------------------
(* create_hash_table                                                       *)

CreateHash ==
  /\ Goto("hash", "enter")
  /\ table' = <<>> /\ walk' = head
  /\ UNCHANGED <<transferVars, server, pageVars, listVars, history>>

CreateHashFails ==
  /\ "memory" \in Faults
  /\ Goto("hash", "failed")
  /\ UNCHANGED <<transferVars, server, pageVars, listVars, indexVars, history>>

(* hcreate(num_files*4) makes at least three slots.                        *)
Slots == Max({3, numFiles * 4})

(* hsearch(ENTER): a key that is there stays, a full table takes no more,  *)
(* and the code looks at neither.                                          *)
Entered(t, name, e) ==
  IF name \in DOMAIN t \/ Cardinality(DOMAIN t) >= Slots
  THEN t
  ELSE [n \in DOMAIN t \cup {name} |-> IF n = name THEN e ELSE t[n]]

(* Faulty: the loop does not go on when the name is taken.                 *)
FollowerIfEntered(e) == IF entries[e].filename \in DOMAIN table THEN e ELSE link[e]

Follower(e) == link[e]

Enter ==
  /\ pc = "enter" /\ walk # 0 /\ entries[walk].filename # NULL
  /\ table' = Entered(table, entries[walk].filename, walk)
  /\ walk' = Follower(walk)
  /\ UNCHANGED <<transferVars, server, pc, pageVars, listVars, history>>

Mount ==
  /\ walk = 0
  /\ Goto("enter", "mounted")
  /\ UNCHANGED <<transferVars, server, pageVars, listVars, indexVars, history>>

(* An entry without a title has no key; hsearch takes its length.          *)
EnterCrash ==
  /\ pc = "enter" /\ walk # 0 /\ entries[walk].filename = NULL
  /\ pc' = "crashed"
  /\ UNCHANGED <<transferVars, server, pageVars, listVars, indexVars, history>>

(* gd_fs_entry_find; 0 when there is no such name.                         *)
Find(name) == IF name \in DOMAIN table THEN table[name] ELSE 0

(* What gd_getattr, gd_open and gd_read look for when given a path.        *)
FileAt(name) == Find(StripPath(<<"/">> \o name))

(* The list from its head on, as gd_readdir walks it.                      *)
Chain == LET from[e \in 0..Len(entries)] ==
               IF e = 0 THEN <<>> ELSE <<e>> \o from[link[e]]
         IN from[head]

Setup ==
  \/ Begin \/ Ask \/ Wait \/ StartParse \/ ParseNothing
  \/ ParseEntry \/ ParseLink \/ ParseCrash \/ ParseStarves \/ EndParse
  \/ TurnPage \/ EndListing
  \/ CreateHash \/ CreateHashFails \/ Enter \/ EnterCrash \/ Mount

-----------------------------------------------------------------------------
(* Properties                                                              *)

Listed == pc \in {"hash", "enter", "mounted"}

(* The link a page has, its last one, and the pages in the order in which  *)
(* their links lead to them from the first one.                            *)
LinkIn(ns) ==
  LET at == {j \in DOMAIN ns : IsNext(ns[j])} IN IF at = {} THEN NULL ELSE ns[Max(at)].uri

PageAt[n \in Nat] ==
  IF n = 0 THEN First
  ELSE IF PageAt[n - 1] = NULL THEN NULL ELSE LinkIn(server[PageAt[n - 1]])

(* The entries of a page, and those of the first n pages.                  *)
EntriesIn(ns) ==
  FlattenSeq([j \in DOMAIN ns |-> IF IsEntry(ns[j]) THEN <<EntryFromXml(ns[j])>> ELSE <<>>])

EntriesUpTo(n) == FlattenSeq([j \in 1..n |-> EntriesIn(server[PageAt[j - 1]])])

(* The title the server gave the file of an entry, before it was escaped.  *)
TitleOf(e) ==
  LET of == CHOOSE n \in NodesOf(server) :
              IsEntry(n) /\ Field(n, "content", NULL) = entries[e].src
  IN Field(of, "title", NULL)

InOrder == [j \in DOMAIN Chain |-> entries[Chain[j]]]

(* Whatever fails, the list consists of the pages that arrived whole, the  *)
(* first ones, in the server's order and each entry with its own fields;   *)
(* when no page was cut it holds every file of the server.                 *)
ListingExact ==
  Listed => /\ InOrder = EntriesUpTo(read)
            /\ ~cut => PageAt[read] = NULL

(* A node the feed of Google's would not have.                             *)
Malformed(n) ==
  IF IsEntry(n) THEN Field(n, "title", NULL) = NULL
                     \/ \E j \in DOMAIN n.children : n.children[j].value = NULL
  ELSE IsNext(n) /\ n.uri = NULL

(* The program crashes while mounting only when a page brought no body, or *)
(* one that was read has an entry or a link without what is taken from it; *)
(* a link that says nothing of its kind is none of these.                  *)
CrashesExplained ==
  pc = "crashed" =>
    \/ phase = "done" /\ body = <<>>
    \/ \E n \in 0..(read - 1) : \E j \in DOMAIN server[PageAt[n]] :
         Malformed(server[PageAt[n]][j])
=============================================================================
