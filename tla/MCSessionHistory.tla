-------------------------- MODULE MCSessionHistory --------------------------
(***************************************************************************)
(* Instance of SessionHistory: two maps of two hosts, one of them with a   *)
(* dash in its name, two namespaces; every list of up to MaxRecords of the *)
(* records, each at most once, in every order.                             *)
(***************************************************************************)
EXTENDS SessionHistory

CONSTANT MaxRecords     \* bound on the records of a list

ns == 11
mp == 12
da == 13
bad == 14

MCOwner == (<<1>> :> <<5, 13, 5>>) @@ (<<2>> :> <<6>>)

MCGuids == {<<8>>, <<9>>}

MCScriptKeys == {<<7>>, <<7, 13, 7>>}

Raw(key) == [key |-> key, value |-> <<1>>, seq |-> 4, deleted |-> FALSE]

\* The bare prefix, keys with a part missing, another key, a key and a value
\* that are no UTF-8.
MCStray == {Raw(<<ns, da>>), Raw(<<ns, da, 8>>), Raw(<<mp, da, 1>>), Raw(<<9>>),
            Raw(<<ns, da, 8, bad, da, 6>>), Raw(<<mp, da, 1, da, bad>>),
            [Raw(<<ns, da, 8, da, 6>>) EXCEPT !.value = <<1, bad>>]}

MCInputs == UNION {{s \in [1..n -> Universe] : IsInjective(s)} : n \in 0..MaxRecords}
=============================================================================
