------------------------------ MODULE MCStdio ------------------------------
(***************************************************************************)
(* Words of 8 bits: two hexadecimal digits, as the eight of 32 bits, and   *)
(* three decimal ones.                                                     *)
(***************************************************************************)
EXTENDS Stdio

T(kind, pad, arg) == [kind |-> kind, pad |-> pad, arg |-> arg]

Widths == {<<>>, <<1>>, <<2>>, <<3>>, <<0, 2>>, <<0, 4>>, <<1, 0>>}

Numbers == {T(k, w, <<v>>) : k \in {"d", "u", "x"}, w \in Widths, v \in {0, 9, 10, 15, 16, 127, 128, 255}}

Strings == {T("s", w, s) : w \in Widths, s \in {<<>>, <<65>>, <<66, 67, 68>>}}

Others == {T("text", <<>>, <<70>>), T("%", <<>>, <<0>>), T("c", <<>>, <<71>>),
           T("x", <<1, 0, 0>>, <<3>>), T("d", <<1, 2, 0>>, <<3>>),
           T("%", <<0, 1, 0, 0, 0>>, <<0>>)}

Few == {T("text", <<>>, <<70>>), T("%", <<>>, <<0>>), T("c", <<>>, <<71>>), T("x", <<0, 2>>, <<15>>),
        T("d", <<3>>, <<10>>), T("u", <<>>, <<128>>), T("s", <<2>>, <<65>>), T("s", <<>>, <<>>)}

All == Numbers \cup Strings \cup Others

SmallCalls ==
    {[level |-> 0, toks |-> <<a, b>>] : a \in All, b \in All}
    \cup {[level |-> l, toks |-> <<a, b, c>>] : l \in 2..5, a \in Few, b \in Few, c \in Few}

SmallTag == <<80, 81>>
=============================================================================
