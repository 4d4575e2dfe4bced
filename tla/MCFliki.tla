------------------------------- MODULE MCFliki -------------------------------
(* Files of up to three lines; diffs of up to two hunks, with right and with  *)
(* wrong line numbers, and diffs with one character missing, in a single hunk *)
(* or in the hunk after a good one.                                           *)
EXTENDS Fliki

X == <<"x">>
Y == <<"y">>
Z == <<"z">>
XY == <<"x", "y">>

Files == {<<X>>, <<X, Y>>, <<X, Y, X>>}
Long == <<X, Y, X>>

Append1(n, m, adds) ==
    [h |-> Header("append", n, n, m, m + Len(adds) - 1), dels |-> <<>>, adds |-> adds]
Delete1(n, m, dels) ==
    [h |-> Header("delete", n, n + Len(dels) - 1, m, m), dels |-> dels, adds |-> <<>>]
Change1(n, m, dels, adds) ==
    [h |-> Header("change", n, n + Len(dels) - 1, m, m + Len(adds) - 1),
     dels |-> dels, adds |-> adds]

Hunks(dels, adds) ==
    {Append1(n, m, a) : n \in 0 .. 3, m \in 1 .. 4, a \in adds}
    \cup {Delete1(n, m, d) : n \in 1 .. 3, m \in 0 .. 3, d \in dels}
    \cup {Change1(n, m, d, a) : n \in 1 .. 3, m \in 1 .. 3, d \in dels, a \in adds}

Short == Hunks({<<X>>, <<Y>>}, {<<Z>>})
Longer == Hunks({<<X>>, <<X, Y>>, <<XY>>}, {<<Z>>, <<XY, Z>>, << <<>> >>, <<Z, <<>>, Z>>})

Singles == {<<k>> : k \in Short \cup Longer} \cup {<<>>}
MCPairs == {<<k, l>> : k \in Short, l \in Short}

\* Good hunks for Long, and hunks that may come after them.
Firsts == {Append1(0, 1, <<Z, XY>>), Delete1(1, 0, <<X>>), Change1(1, 1, <<X>>, <<Z, XY>>)}
SecondsWith(adds) == {Append1(2, n, a) : n \in {2, 5}, a \in adds}
                     \cup {Delete1(2, n, <<Y, X>>) : n \in {0, 3}}
                     \cup {Change1(2, n, <<Y>>, a) : n \in {1, 4}, a \in adds}
Seconds == SecondsWith({<<XY, Z>>})

\* What a hunk may still mean when a character is missing.
Unnumbered(k) == [k EXCEPT !.h.new_start = Unwritten, !.h.new_end = Unwritten]
MCDiffs ==
    Singles
    \cup {<<k>> : k \in Hunks({<<X>>, <<Y>>, <<X, Y>>, <<XY>>},
                              {<<Z>>, <<X, Z>>, <<Y, Z>>, <<XY, Z>>})}
    \cup {<<Unnumbered(k)>> : k \in Longer}
    \cup {<<k, l>> : k \in Firsts, l \in SecondsWith({<<X, Z>>, <<Y, Z>>})}
    \cup {<<k, Unnumbered(l)>> : k \in Firsts, l \in Seconds}

Without(s, i) == IF i > Len(s) THEN s ELSE SubSeq(s, 1, i - 1) \o SubSeq(s, i + 1, Len(s))

Whole(args, file, hunks) ==
    [argv |-> args, file |-> file, hunks |-> hunks, diff |-> Render(hunks)]
Damaged(file, hunks, i) ==
    [argv |-> <<"file">>, file |-> file, hunks |-> hunks,
     diff |-> Without(Render(hunks), i)]

MCArgs == {<<"-n", "file">>, <<"-q", "file">>, <<"-x", "file">>, <<"-h", "file">>,
           <<"file", "-n">>, <<"-n", "-h">>, <<"-xx", "file">>, <<"-x">>}

MCCases ==
    {Whole(<<"file">>, f, d) : f \in Files, d \in Singles}
    \cup {Whole(<<"file">>, Long, d) : d \in MCPairs}
    \cup {Damaged(Long, <<k>>, i) : k \in Longer, i \in 1 .. 10}
    \cup {Damaged(Long, <<k, l>>, Len(RenderHunk(k)) + i) :
               k \in Firsts, l \in Seconds, i \in 1 .. 16}
    \cup {Whole(a, Long, <<k>>) : a \in MCArgs, k \in Short}
=============================================================================
