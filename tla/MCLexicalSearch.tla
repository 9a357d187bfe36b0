-------------------------- MODULE MCLexicalSearch --------------------------
(***************************************************************************)
(* Four chunks of three sources in two partitions.  Word 1 is a stem that  *)
(* words 2 and 3 complete, word 4 an identifier, word 5 an ordinary word,  *)
(* and word 6 one that no text holds.                                      *)
(***************************************************************************)
EXTENDS LexicalSearch

T(title, body) == [Title |-> title, Body |-> body]
Q(terms, promotable, emphasis, allowed) ==
    [terms |-> terms, promotable |-> promotable, emphasis |-> emphasis, allowed |-> allowed]

MCSource == <<1, 1, 2, 3>>
MCContext == <<1, 1, 1, 2>>
MCLayouts == {<<1, 2, 1, 1>>, <<1, 2, 3, 1>>}
MCCompletions == <<{1, 2, 3}, {2}, {3}, {4}, {5}, {6}>>
MCLength == <<3, 5, 4, 4, 4, 4>>
MCScore == <<1, 2, 1, 2>>
MCTexts ==
    {T(<<5, 1>>, <<3>>), T(<<2>>, <<5, 1>>), T(<<3>>, <<4, 5>>), T(<<4, 1>>, <<5>>),
     T(<<5>>, <<2, 3>>), T(<<4>>, <<1>>)}
MCRequests ==
    {Q(<<1>>, {}, "None", Docs), Q(<<5, 1>>, {}, "Body", Docs),
     Q(<<5, 1>>, {1}, "None", Docs), Q(<<5, 1>>, {}, "None", {1, 2, 4}),
     Q(<<4, 5, 1>>, {}, "None", Docs), Q(<<4, 6>>, {}, "None", Docs),
     Q(<<1, 6>>, {}, "None", Docs), Q(<<4>>, {}, "Title", Docs)}
=============================================================================
