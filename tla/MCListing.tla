----------------------------- MODULE MCListing -----------------------------
(* Drive with up to three pages and three files.                           *)
EXTENDS Drive

MCUris == {"p1", "p2", "p3"}

Slash   == <<"/">>
Percent == <<"%", "2", "F">>
Plain   == <<"a">>
Mixed   == <<"a", "/", "%">>

Child(n, v) == [name |-> n, value |-> v]

(* The children of the entry for file f, in either order.                  *)
Children(f, title) ==
  LET c == <<Child("title", title), Child("content", <<"src", f>>),
             Child("self", <<"feed", f>>), Child("size", f),
             Child("md5Checksum", <<"md5", f>>)>>
  IN IF f = 2 THEN SubSeq(Reverse(c), 2, 5) ELSE c

E(f, title) == [kind |-> "entry", children |-> Children(f, title)]
N(u)        == [kind |-> "next", uri |-> u]
Other       == [kind |-> "other"]
NoRel       == [kind |-> "norel"]

Shapes(x, y, z) ==
  {<< <<Other, NoRel, E(1, x), N("p2")>>, <<E(2, y), N("p3")>>, <<E(3, z)>> >>,
   << <<N("p2"), E(1, x), E(2, y)>>, <<N("p3")>>, <<E(3, z)>> >>,
   << <<N("p3")>>, <<>>, <<E(2, y), E(1, x)>> >>,
   << <<E(1, x), E(2, y), E(3, z)>>, <<>>, <<>> >>,
   << <<>>, <<>>, <<>> >>}

Layout(s) == [u \in MCUris |-> CASE u = "p1" -> s[1] [] u = "p2" -> s[2] [] OTHER -> s[3]]

Titles == {Slash, Percent, Plain, Mixed}

Distinct ==
  {Layout(s) : s \in UNION {Shapes(t[1], t[2], t[3]) :
    t \in {r \in Titles \X Titles \X Titles : r[1] # r[2] /\ r[2] # r[3] /\ r[1] # r[3]}}}

(* Drive allows two files of one title.                                    *)
Homonyms == {Layout(s) : s \in Shapes(Plain, Slash, Plain)}

(* What Google does not send: an entry without a title, a child without a  *)
(* text, a link without href.                                              *)
Broken ==
  {Layout(<< <<E(1, Plain), n, N("p2")>>, <<E(3, Slash)>>, <<>> >>) :
    n \in {[kind |-> "entry", children |-> <<Child("size", 2)>>],
          [kind |-> "entry", children |-> <<Child("title", NULL)>>],
          N(NULL), NoRel}}

MCLayouts == Distinct \cup Homonyms \cup Broken

MCNames == {Encode(t, FilenameUnsafe) : t \in Titles} \cup {<<"b">>}
=============================================================================
