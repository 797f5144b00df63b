---------------------------- MODULE MCRedaction -----------------------------
(***************************************************************************)
(* Base 2 and two digits stand for base 10 and three: the fourth number of *)
(* a type is the first that needs a digit more. A message is "ann Ann ann" *)
(* with up to three findings out of eleven, one of them of no symbol; or a *)
(* name and, on the next line, the same name indented and the other way    *)
(* round; or one with a placeholder inside a word, or with two findings    *)
(* side by side, or empty.                                                 *)
(***************************************************************************)
EXTENDS Redaction

MCDigit == [d \in 0..(Base - 1) |-> ToString(d)]

MCParticles == {<<"von">>}

\* Capitals are kept in the names of hosts, as the code keeps them in addresses.
MCSpelling ==
    [t \in Types |-> [s \in Symbols |-> IF s = "Ann" /\ t # "HOST" THEN "ann" ELSE s]]

MCLeftOut == [t \in Types |-> IF t = "HOST" THEN {" "} ELSE {}]

MCEarlier ==
    [t \in Types |-> IF t = "EMAIL" THEN <<<<"bob">>, <<"bob", " ", "bob">>>> ELSE <<>>]

\* What detector finds in t from start to end, after an indent or none.
Find(t, indent, detector, type, start, end, confidence) ==
    [detector |-> detector, type |-> type,
     value |-> SubSeq(t, start + 1 + indent, end + indent),
     start |-> start, end |-> end, confidence |-> confidence]

Message == <<"ann", " ", "Ann", " ", "ann">>

Findings ==
    LET F(detector, type, start, end, confidence) ==
            Find(Message, 0, detector, type, start, end, confidence)
    IN  {F("regex", "EMAIL", 0, 1, 1), F("regex", "EMAIL", 0, 3, 1),
         F("regex", "EMAIL", 2, 3, 2), F("regex", "EMAIL", 2, 5, 1),
         F("fqdn", "HOST", 2, 5, 2), F("ner", "HOST", 0, 5, 2),
         F("ner", "EMAIL", 4, 5, 1), F("custom", "EMAIL", 2, 3, 1),
         F("custom", "ann", 4, 5, 1), F("custom", "EMAIL", 1, 3, 2),
         F("custom", "EMAIL", 2, 2, 1)}

Lines == <<"bob", " ", "ann", Newline, " ", " ", "Ann", " ", "von", " ", "bob">>

Adjacent == <<"ann", " ", " ", "ann">>

MCAsks ==
    {[text |-> <<>>, found |-> <<>>],
     [text |-> <<"ann", "HOST", "_", "0", "1">>, found |-> <<>>],
     [text |-> Adjacent,
      found |-> <<Find(Adjacent, 0, "regex", "HOST", 0, 2, 1),
                  Find(Adjacent, 0, "regex", "HOST", 2, 4, 1)>>],
     [text |-> Lines,
      found |-> <<Find(Lines, 0, "ner", "PERSON", 0, 3, 1),
                  Find(Lines, 2, "ner", "PERSON", 4, 9, 1)>>]}
        \cup {[text |-> Message, found |-> f] : f \in SeqOf(Findings, 3)}
=============================================================================
