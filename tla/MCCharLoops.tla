----------------------------- MODULE MCCharLoops -----------------------------
(* Every string of up to three characters to escape, with what escapes of   *)
(* them spell; every file and every input of up to five characters, of a    *)
(* letter, a newline and a space.                                           *)
EXTENDS FirstRun

MCTexts == BoundedSeq({"a", "/", "%", "&", " "}, 3) \cup
           {<<"%", "2", d>> : d \in {"F", "5", "6", "0"}}

MCTyped == BoundedSeq({"c", "n", "s"}, 5) \cup
           {<<"c", "t", "c", "n">>, <<"t", "s", "n">>}

MCInputs == [t \in {"filename", "url", "load", "code"} |->
               IF t \in Encoders THEN MCTexts ELSE MCTyped]
=============================================================================
