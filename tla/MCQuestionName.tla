--------------------------- MODULE MCQuestionName ---------------------------
(* Every short tail over octets that begin labels, pointers, roots and     *)
(* nothing, every name build_query makes within the bounds, and scenario   *)
(* names written whole, compressed and with a dot inside a label.          *)
EXTENDS QuestionName

MCStart == 1
MCFixedSize == 1
MCMaxSteps == 4
MCNameOctets == 7
MCSuffix == <<<<97>>>>
MCScenarioLabel == {<<97>>}

Alphabet == {0, 1, 2, 3, 64, 65, 97, 192}
MaxTail == 5

Label == {<<65>>, <<98>>, <<98, 65>>, <<98, 98, 98>>, <<98, 98, 98, 98>>, <<98, 98, 98, 98, 98>>}
MCName == UNION {[1 .. k -> Label] : k \in 0 .. 4}

(* The octet before the question is one a pointer may lead to. *)
Short == {<<h>> \o t : h \in {0, 1, 192}, t \in UNION {[1 .. n -> Alphabet] : n \in 0 .. MaxTail}}
Scenarios == {
  <<0, 1, 97, 1, 65, 0, 1>>, <<0, 1, 97, 1, 97, 1, 97, 0, 1>>,
  <<1, 97, 0, 1, 65, 192, 0, 1>>, <<0, 3, 97, 46, 97, 0, 1>>,
  <<0, 1, 98, 1, 97, 0, 1>>, <<0, 1, 97, 2, 97, 46, 0, 1>> }
MCMessage == Short \cup Scenarios \cup OwnQueries

(* One message is enough for the headers that no name is read from. *)
MCInit == Init /\ (header = "one" \/ message = <<0>>)
MCSpec == MCInit /\ [][Next]_vars

=============================================================================
