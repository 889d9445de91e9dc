----------------------------- MODULE MCTransfer -----------------------------
(* Transfer and its buffers on two URIs, whose answers are whole, empty or *)
(* error pages; curl may also hand over a piece of no bytes.               *)
EXTENDS Buffers, TLC

P(k, d) == [kind |-> k, data |-> d]
Block == <<P("line", "status"), P("line", "length"), P("blank", "crlf")>>

MCBytes == ("status" :> 2) @@ ("length" :> 1) @@ ("crlf" :> 1) @@ ("a1" :> 1) @@
           ("a2" :> 2) @@ ("nothing" :> 0) @@ ("b1" :> 1) @@ ("oops" :> 2)

MCPayload == DOMAIN MCBytes

OneBlock ==
  [u \in Uris |->
    {Block, Block \o <<P("data", "oops")>>, Block \o <<P("data", "nothing")>>,
     IF u = "a" THEN Block \o <<P("data", "a1"), P("data", "nothing"), P("data", "a2")>>
                ELSE Block \o <<P("data", "b1")>>}]
=============================================================================
